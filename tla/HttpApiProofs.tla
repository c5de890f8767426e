--------------------------- MODULE HttpApiProofs ----------------------------
(***************************************************************************)
(* The RESTful API for any set of requests, any number of threads and any  *)
(* contents of the database: which URLs reach which query, and what a      *)
(* client may conclude from a reply.                                       *)
(***************************************************************************)
EXTENDS HttpApi, DatabaseProofs

\* InColumn and ToShow, of a table s.
InColumnOf(s, col) == {Column[col][e] : e \in Elements(s)}

ShowOf(s, url) ==
    UNION {CASE url = <<Endpoint[col]>> -> GroupOf(s, col)
             [] Len(url) = 2 /\ url[1] = Endpoint[col] ->
                    InColumnOf(s, col) \cap {url[2]} \cap Askable[col]
             [] OTHER -> {} : col \in Columns}

\* A text that is shown is stored.
ShownStored(t) ==
    \A text \in shown[t] : \E col \in Columns : text \in InColumnOf(rows, col)

\* Spoiled, of a table s.
SpoiledIn(s, t) ==
    \E col \in Columns :
        request[t].url = <<Endpoint[col]>> /\ GroupOf(s, col) \cap Unprintable # {}

\* The reply is not there yet, or can be believed.
ReplyInv(t) ==
    /\ phase[t] # "done" => code[t] = "none" /\ shown[t] = {}
    /\ ShownStored(t)
    /\ code[t] = "200" /\ was[t] => shown[t] # {}
    /\ code[t] \in {"400", "404"} /\ was[t] => denied[t] \/ SpoiledIn(rows, t)

\* What the thread does in the database is what the URL asks for.
UrlInv(t) ==
    /\ phase[t] # "none" => request[t] \in Requests
    /\ at[t] \in ListPlaces => request[t].url = <<Endpoint[arg[t][1]]>>
    /\ at[t] \in LookupPlaces =>
           IsSuffix(<<Endpoint[arg[t][1]], arg[t][2]>>, request[t].url)

\* What was stored when the request came in still is, and was when its list
\* query began.
WasInv(t) ==
    /\ was[t] /\ phase[t] \in {"second", "route"} => ShowOf(rows, request[t].url) # {}
    /\ was[t] /\ at[t] \in ListPlaces => before[t] # {}

RequestInv(t) == ReplyInv(t) /\ UrlInv(t) /\ WasInv(t)

\* The inductive invariant.
ApiIInv ==
    /\ IInv
    /\ HttpTypeOK
    /\ \A t \in Http : RequestInv(t)

-----------------------------------------------------------------------------
(* Operators.                                                              *)

\* The leftmost match is a match.
LEMMA MinIsLeast ==
    ASSUME NEW S \in SUBSET Nat, S # {}
    PROVE  Min(S) \in S /\ \A y \in S : Min(S) <= y
<1> DEFINE Less == {ss \in Nat \X Nat : ss[1] < ss[2]}
<1>1. IsWellFoundedOn(Less, Nat)
  BY NatLessThanWellFounded, Zenon DEF OpToRel
<1> HIDE DEF Less
<1>2. PICK x \in S : \A y \in S : ~ (<<y, x>> \in Less)
  BY <1>1, WFMin
<1>3. ASSUME NEW y \in S PROVE x <= y
  <2>1. x \in Nat /\ y \in Nat /\ <<y, x>> \notin Less
    BY <1>2
  <2>2. <<y, x>> \in Nat \X Nat /\ <<y, x>>[1] = y /\ <<y, x>>[2] = x
    BY <2>1
  <2>3. ~ (y < x)
    BY <2>1, <2>2 DEF Less
  <2> QED BY <2>1, <2>3
<1> QED BY <1>3 DEF Min

LEMMA MinIs ==
    ASSUME NEW S \in SUBSET Nat, NEW k \in S, \A y \in S : k <= y
    PROVE  Min(S) = k
<1>1. Min(S) \in S /\ Min(S) <= k
  BY MinIsLeast
<1>2. k <= Min(S) /\ k \in Nat /\ Min(S) \in Nat
  BY <1>1
<1> QED BY <1>1, <1>2

LEMMA FirstTwo ==
    ASSUME NEW S, NEW s \in Seq(S), Len(s) >= 2
    PROVE  SubSeq(s, 1, 2) = <<s[1], s[2]>>
<1>1. 1 \in 1 .. Len(s) /\ 2 \in 1 .. Len(s)
  OBVIOUS
<1>2. /\ SubSeq(s, 1, 2) \in Seq(S) /\ Len(SubSeq(s, 1, 2)) = 2
      /\ SubSeq(s, 1, 2)[1] = s[1] /\ SubSeq(s, 1, 2)[2] = s[2]
  BY <1>1
<1>3. /\ <<s[1], s[2]>> \in Seq(S) /\ Len(<<s[1], s[2]>>) = 2
      /\ <<s[1], s[2]>>[1] = s[1] /\ <<s[1], s[2]>>[2] = s[2]
  BY <1>1
<1>4. \A i \in 1 .. 2 : SubSeq(s, 1, 2)[i] = <<s[1], s[2]>>[i]
  BY <1>2, <1>3
<1> QED BY <1>2, <1>3, <1>4, SeqEqual

\* The last two segments of a URL.
LEMMA SuffixOfTwo ==
    ASSUME NEW S, NEW url \in Seq(S), NEW x, NEW a
    PROVE  IsSuffix(<<x, a>>, url) <=>
               Len(url) >= 2 /\ url[Len(url) - 1] = x /\ url[Len(url)] = a
<1> DEFINE p == Reverse(<<x, a>>)
           q == Reverse(url)
           n == Len(url)
<1>1. n \in Nat /\ url \in [1 .. n -> S]
  OBVIOUS
<1>2. p = <<a, x>> /\ Len(p) = 2
  <2>1. Len(<<x, a>>) = 2 /\ <<x, a>>[1] = x /\ <<x, a>>[2] = a
    OBVIOUS
  <2>2. p = [i \in 1 .. 2 |-> <<x, a>>[2 - i + 1]]
    BY <2>1 DEF Reverse
  <2>3. p[1] = a /\ p[2] = x /\ DOMAIN p = 1 .. 2
    BY <2>1, <2>2
  <2> QED BY <2>2, <2>3
<1>3. /\ q = [i \in 1 .. n |-> url[(n - i) + 1]]
      /\ q \in Seq(S) /\ Len(q) = n
  <2>1. q = [i \in 1 .. n |-> url[(n - i) + 1]]
    BY DEF Reverse
  <2>2. q \in [1 .. n -> S]
    BY <1>1, <2>1
  <2> QED BY <1>1, <2>1, <2>2
<1>4. n >= 2 => q[1] = url[n] /\ q[2] = url[n - 1]
  BY <1>1, <1>3
<1> HIDE DEF p, q, n
<1>5. IsSuffix(<<x, a>>, url) <=> 2 <= n /\ SubSeq(p, 1, 2) = SubSeq(q, 1, 2)
  BY <1>2, <1>3 DEF IsSuffix, IsPrefix, p, q
<1>6. SubSeq(p, 1, 2) = <<a, x>>
  <2>1. p \in Seq({a, x}) /\ p[1] = a /\ p[2] = x /\ Len(p) >= 2
    BY <1>2
  <2>2. SubSeq(p, 1, 2) = <<p[1], p[2]>>
    BY <2>1, FirstTwo
  <2> QED BY <2>1, <2>2
<1>7. n >= 2 => SubSeq(q, 1, 2) = <<q[1], q[2]>>
  BY <1>1, <1>3, FirstTwo
<1>8. ASSUME n >= 2
      PROVE  SubSeq(p, 1, 2) = SubSeq(q, 1, 2) <=> url[n - 1] = x /\ url[n] = a
  <2>1. SubSeq(q, 1, 2) = <<url[n], url[n - 1]>>
    BY <1>4, <1>7, <1>8
  <2>2. <<a, x>> = <<url[n], url[n - 1]>> <=> a = url[n] /\ x = url[n - 1]
    OBVIOUS
  <2> QED BY <1>6, <2>1, <2>2
<1> QED BY <1>1, <1>5, <1>8 DEF n

-----------------------------------------------------------------------------
(* The routes.                                                             *)

LEMMA UrlType ==
    ASSUME NEW r \in Requests
    PROVE  r.url \in Seq(Segments) /\ Len(r.url) \in Nat \ {0}
<1>1. r.url \in Seq(Segments) /\ r.url # <<>>
  BY HttpAssumption
<1> QED BY <1>1, EmptySeq

\* The segment after the last but one is the last.
LEMMA RestIsOne ==
    ASSUME NEW url \in Seq(Segments), NEW i \in 1 .. Len(url), NEW a, Rest(url, i) = <<a>>
    PROVE  i = Len(url) - 1 /\ url[Len(url)] = a
<1>1. Len(url) \in Nat /\ i + 1 \in Int /\ i \in Nat
  OBVIOUS
<1>2. \A j \in i + 1 .. Len(url) : url[j] \in Segments
  OBVIOUS
<1>3. Len(Rest(url, i)) = IF i + 1 <= Len(url) THEN Len(url) - (i + 1) + 1 ELSE 0
  BY <1>1, <1>2, SubSeqProperties DEF Rest
<1>4. Len(<<a>>) = 1 /\ <<a>>[1] = a
  OBVIOUS
<1>5. i = Len(url) - 1
  BY <1>1, <1>3, <1>4
<1>6. Rest(url, i)[1] = url[i + 1]
  <2>1. 1 \in 1 .. Len(url) - (i + 1) + 1 /\ i + 1 + 1 - 1 = i + 1
    BY <1>1, <1>5
  <2> QED BY <1>1, <1>2, <2>1, SubSeqProperties DEF Rest
<1> QED BY <1>1, <1>4, <1>5, <1>6

\* What is left of a URL of one or two segments.
LEMMA RestOfTwo ==
    ASSUME NEW url \in Seq(Segments)
    PROVE  /\ Len(url) = 1 => Rest(url, 1) = <<>>
           /\ Len(url) = 2 => Rest(url, 1) = <<url[2]>> /\ Rest(url, 2) = <<>>
<1>1. Len(url) \in Nat
  OBVIOUS
<1>2. Rest(url, Len(url)) = <<>>
  BY <1>1, SubSeqEmpty DEF Rest
<1>3. ASSUME Len(url) = 2 PROVE Rest(url, 1) = <<url[2]>>
  <2>1. Rest(url, 1) = SubSeq(url, 2, 2)
    BY <1>3 DEF Rest
  <2>2. url[2] \in Segments
    BY <1>3
  <2>3. /\ SubSeq(url, 2, 2) \in Seq(Segments)
        /\ Len(SubSeq(url, 2, 2)) = 1
        /\ SubSeq(url, 2, 2)[1] = url[2]
    BY <1>3, <2>2
  <2>4. <<url[2]>> \in Seq(Segments) /\ Len(<<url[2]>>) = 1 /\ <<url[2]>>[1] = url[2]
    BY <2>2
  <2> QED BY <2>1, <2>3, <2>4, SeqEqual
<1> QED BY <1>2, <1>3

\* A route is one that matches.
LEMMA RouteMatches ==
    ASSUME NEW url, Route(url) # "none"
    PROVE  Matches(url, Route(url))
<1> DEFINE matching == {i \in 1 .. Len(RouteOrder) : Matches(url, RouteOrder[i])}
<1>1. matching # {} /\ Route(url) = RouteOrder[Min(matching)]
  BY DEF Route
<1>2. matching \in SUBSET Nat
  BY DEF RouteOrder
<1>3. Min(matching) \in matching
  BY <1>1, <1>2, MinIsLeast
<1> QED BY <1>1, <1>3

LEMMA RouteOfList ==
    ASSUME NEW url, NEW route \in {"ip-addresses", "numbers"}, Route(url) = route
    PROVE  url = <<route>>
BY RouteMatches DEF Matches

\* A text that is captured is the last segment, after the one that names its
\* endpoint.
LEMMA CapturedIsLast ==
    ASSUME NEW url \in Seq(Segments), NEW S, S \in SUBSET (1 .. Len(url)), S # {},
           NEW x, \A i \in S : url[i] = x, NEW a, Captured(url, S) = <<a>>
    PROVE  IsSuffix(<<x, a>>, url)
<1>1. S \in SUBSET Nat
  OBVIOUS
<1>2. Min(S) \in S
  BY <1>1, MinIsLeast
<1>3. Min(S) = Len(url) - 1 /\ url[Len(url)] = a /\ url[Min(S)] = x
  BY <1>2, RestIsOne DEF Captured
<1>4. Len(url) \in Nat /\ Min(S) \in 1 .. Len(url)
  <2>1. Len(url) \in Nat
    OBVIOUS
  <2>2. Min(S) \in 1 .. Len(url)
    BY <1>2, Zenon
  <2> QED BY <2>1, <2>2
<1>5. Len(url) >= 2 /\ url[Len(url) - 1] = x
  BY <1>3, <1>4
<1> QED BY <1>3, <1>5, SuffixOfTwo

LEMMA IpAddressCaptured ==
    ASSUME NEW url \in Seq(Segments), Route(url) = "ip-address", IsLookup(url, "ip-address")
    PROVE  /\ Captured(url, IpAddressAt(url))[1] \in IpAddresses
           /\ IsSuffix(<<"ip-addresses", Captured(url, IpAddressAt(url))[1]>>, url)
<1> DEFINE S == IpAddressAt(url)
<1>1. S # {} /\ S \in SUBSET (1 .. Len(url)) /\ \A i \in S : url[i] = "ip-addresses"
  BY RouteMatches DEF Matches, IpAddressAt
<1>2. PICK a \in IpAddresses : Captured(url, S) = <<a>>
  BY DEF IsLookup
<1> HIDE DEF S
<1>3. Captured(url, S)[1] = a
  BY <1>2
<1>4. IsSuffix(<<"ip-addresses", a>>, url)
  BY <1>1, <1>2, CapturedIsLast
<1> QED BY <1>3, <1>4 DEF S

LEMMA NumberCaptured ==
    ASSUME NEW url \in Seq(Segments), Route(url) = "number"
    PROVE  /\ Captured(url, NumberAt(url))[1] \in Numbers
           /\ IsSuffix(<<"numbers", Captured(url, NumberAt(url))[1]>>, url)
<1> DEFINE S == NumberAt(url)
<1>1. /\ S # {} /\ S \in SUBSET (1 .. Len(url)) /\ \A i \in S : url[i] = "numbers"
      /\ \A i \in S : Rest(url, i) \in {<<n>> : n \in Numbers}
  BY RouteMatches DEF Matches, NumberAt
<1>2. Min(S) \in S
  <2>1. S \in SUBSET Nat
    BY <1>1
  <2> QED BY <1>1, <2>1, MinIsLeast
<1>3. PICK a \in Numbers : Captured(url, S) = <<a>>
  BY <1>1, <1>2 DEF Captured
<1> HIDE DEF S
<1>4. Captured(url, S)[1] = a
  BY <1>3
<1>5. IsSuffix(<<"numbers", a>>, url)
  BY <1>1, <1>3, CapturedIsLast
<1> QED BY <1>4, <1>5 DEF S

\* The route of a URL is found by its place in the order.
LEMMA RouteIs ==
    ASSUME NEW url, NEW k \in 1 .. Len(RouteOrder), Matches(url, RouteOrder[k]),
           \A j \in 1 .. Len(RouteOrder) : j < k => ~ Matches(url, RouteOrder[j])
    PROVE  Route(url) = RouteOrder[k]
<1> DEFINE matching == {i \in 1 .. Len(RouteOrder) : Matches(url, RouteOrder[i])}
<1>1. Len(RouteOrder) = 8
  BY DEF RouteOrder
<1>2. matching \in SUBSET Nat /\ k \in matching /\ \A y \in matching : k <= y
  BY <1>1
<1>3. Min(matching) = k
  BY <1>2, MinIs
<1> QED BY <1>2, <1>3 DEF Route

LEMMA Orders ==
    /\ Len(RouteOrder) = 8
    /\ RouteOrder[1] = "health-check" /\ RouteOrder[2] = "home"
    /\ RouteOrder[3] = "ip-addresses" /\ RouteOrder[4] = "ip-address"
    /\ RouteOrder[5] = "ipset" /\ RouteOrder[6] = "numbers" /\ RouteOrder[7] = "number"
BY DEF RouteOrder

\* The documented URLs are not hidden by an earlier route.
LEMMA ListRoute ==
    ASSUME NEW url \in Seq(Segments), NEW route \in {"ip-addresses", "numbers"},
           url = <<route>>
    PROVE  Route(url) = route
<1>1. Len(url) = 1 /\ url[1] = route
  OBVIOUS
<1>2. /\ ~ Matches(url, "health-check") /\ ~ Matches(url, "home")
      /\ Matches(url, route)
      /\ route = "numbers" => ~ Matches(url, "ip-addresses")
  BY DEF Matches
<1>3. ~ Matches(url, "ip-address")
  <2>1. Rest(url, 1) = <<>>
    BY <1>1, RestOfTwo, Zenon
  <2>2. 1 .. Len(url) = {1}
    BY <1>1
  <2> QED BY <2>1, <2>2 DEF Matches, IpAddressAt
<1>4. ~ Matches(url, "ipset")
  <2>1. Len(<<"ip-addresses", "ipset">>) = 2
    OBVIOUS
  <2> QED BY <1>1, <2>1 DEF Matches
<1>5. CASE route = "ip-addresses"
  BY <1>2, <1>5, Orders, RouteIs
<1>6. CASE route = "numbers"
  BY <1>2, <1>3, <1>4, <1>6, Orders, RouteIs
<1> QED BY <1>5, <1>6

LEMMA NotOfOne ==
    ASSUME NEW url, Len(url) = 2
    PROVE  \A x : url # <<x>>
<1>1. \A x : Len(<<x>>) = 1
  OBVIOUS
<1> QED BY <1>1

LEMMA IpAddressRoute ==
    ASSUME NEW url \in Seq(Segments), Len(url) = 2, url[1] = "ip-addresses",
           url[2] \in IpAddresses
    PROVE  Route(url) = "ip-address" /\ IsLookup(url, "ip-address")
<1>1. Rest(url, 1) = <<url[2]>> /\ Rest(url, 2) = <<>>
  BY RestOfTwo
<1>2. <<url[2]>> # <<>> /\ <<url[2]>> # <<"">>
  BY HttpAssumption
<1>3. IpAddressAt(url) = {1}
  <2>1. 1 .. Len(url) = {1, 2}
    OBVIOUS
  <2> QED BY <1>1, <1>2, <2>1 DEF IpAddressAt
<1>4. /\ ~ Matches(url, "health-check") /\ ~ Matches(url, "home")
      /\ ~ Matches(url, "ip-addresses") /\ Matches(url, "ip-address")
  <2>1. url # <<"health-check">> /\ url # <<"">> /\ url # <<"ip-addresses">>
    BY NotOfOne
  <2> QED BY <1>3, <2>1 DEF Matches
<1>5. Route(url) = "ip-address"
  BY <1>4, Orders, RouteIs
<1>6. Min({1}) = 1
  BY MinIs
<1>7. Captured(url, IpAddressAt(url)) = <<url[2]>>
  BY <1>1, <1>3, <1>6 DEF Captured
<1> QED BY <1>5, <1>7 DEF IsLookup

LEMMA NumberRoute ==
    ASSUME NEW url \in Seq(Segments), Len(url) = 2, url[1] = "numbers", url[2] \in Numbers
    PROVE  Route(url) = "number"
<1>1. Rest(url, 1) = <<url[2]>> /\ Rest(url, 2) = <<>>
  BY RestOfTwo
<1>2. 1 \in NumberAt(url)
  BY <1>1 DEF NumberAt
<1>3. IpAddressAt(url) = {}
  <2>1. 1 .. Len(url) = {1, 2}
    OBVIOUS
  <2> QED BY <1>1, <2>1 DEF IpAddressAt
<1>4. /\ ~ Matches(url, "health-check") /\ ~ Matches(url, "home")
      /\ ~ Matches(url, "ip-addresses") /\ ~ Matches(url, "numbers")
  <2>1. /\ url # <<"health-check">> /\ url # <<"">>
        /\ url # <<"ip-addresses">> /\ url # <<"numbers">>
    BY NotOfOne
  <2> QED BY <2>1 DEF Matches
<1>5. ~ Matches(url, "ipset")
  <2>1. <<"ip-addresses", "ipset">>[1] = "ip-addresses"
    OBVIOUS
  <2> QED BY <2>1 DEF Matches
<1>6. Matches(url, "number") /\ ~ Matches(url, "ip-address")
  BY <1>2, <1>3 DEF Matches
<1> QED BY <1>4, <1>5, <1>6, Orders, RouteIs

-----------------------------------------------------------------------------
(* What a URL is to show.                                                  *)

LEMMA ShowIsShowOf == \A url : ToShow(url) = ShowOf(rows, url)
BY StoredIsElements, GroupIsGroupOf DEF ToShow, ShowOf, InColumn, InColumnOf

\* The texts of a documented URL, and its query.
LEMMA ShowOfDocumented ==
    ASSUME NEW url, NEW s, ShowOf(s, url) # {}
    PROVE  \E col \in Columns :
               \/ url = <<Endpoint[col]>> /\ GroupOf(s, col) # {}
               \/ /\ Len(url) = 2 /\ url[1] = Endpoint[col]
                  /\ url[2] \in Askable[col] /\ url[2] \in InColumnOf(s, col)
BY DEF ShowOf

LEMMA Documented ==
    ASSUME NEW url \in Seq(Segments), NEW s, ShowOf(s, url) # {}
    PROVE  IsList(Route(url)) \/ IsLookup(url, Route(url))
<1>1. PICK col \in Columns :
          \/ url = <<Endpoint[col]>>
          \/ /\ Len(url) = 2 /\ url[1] = Endpoint[col] /\ url[2] \in Askable[col]
  BY ShowOfDocumented
<1>2. /\ Endpoint["source_ip"] = "ip-addresses" /\ Endpoint["called_number"] = "numbers"
      /\ Askable["source_ip"] = IpAddresses /\ Askable["called_number"] = Numbers
  BY DEF Endpoint, Askable
<1>3. CASE url = <<Endpoint[col]>>
  BY <1>2, <1>3, ListRoute DEF Columns, IsList
<1>4. CASE /\ Len(url) = 2 /\ url[1] = Endpoint[col] /\ url[2] \in Askable[col]
  BY <1>2, <1>4, IpAddressRoute, NumberRoute DEF Columns, IsLookup
<1> QED BY <1>1, <1>3, <1>4

\* A table that grows shows no less.
LEMMA ShowGrows ==
    ASSUME rows \in Seq(Events), Grown, NEW url, ShowOf(rows, url) # {}
    PROVE  ShowOf(rows', url) # {}
<1>1. \A col \in Columns : /\ GroupOf(rows, col) \subseteq GroupOf(rows', col)
                           /\ InColumnOf(rows, col) \subseteq InColumnOf(rows', col)
  BY GrownKeeps DEF InColumnOf
<1> QED BY <1>1 DEF ShowOf

-----------------------------------------------------------------------------
(* One step of the composition.                                            *)

\* Its part in the database.
TableKept(t) == IInv' /\ Grown /\ Frame(t)

LEMMA StepTableKept ==
    ASSUME IInv, NEW t \in Threads, Step(t)
    PROVE  TableKept(t) /\ Next
<1>1. Next
  BY DEF Next, Step
<1>2. IInv'
  BY <1>1, NextIInv
<1> QED BY <1>1, <1>2, StepKeeps DEF Kept, TableKept

LEMMA IdleTableKept ==
    ASSUME IInv, UNCHANGED vars, NEW t
    PROVE  TableKept(t)
<1>1. IInv'
  BY NextIInv
<1> QED BY <1>1 DEF TableKept, Grown, Frame, vars

\* The other requests do not depend on it.
HttpFrame(t) ==
    \A u \in Http \ {t} :
        /\ request'[u] = request[u] /\ phase'[u] = phase[u] /\ code'[u] = code[u]
        /\ shown'[u] = shown[u] /\ was'[u] = was[u] /\ denied'[u] = denied[u]

LEMMA OtherRequest ==
    ASSUME ApiIInv, NEW t, TableKept(t), HttpFrame(t), NEW u \in Http \ {t}
    PROVE  RequestInv(u)' /\ (at'[u] # "idle" <=> phase'[u] = "route")
<1>1. /\ at'[u] = at[u] /\ arg'[u] = arg[u] /\ before'[u] = before[u]
      /\ request'[u] = request[u] /\ phase'[u] = phase[u] /\ code'[u] = code[u]
      /\ shown'[u] = shown[u] /\ was'[u] = was[u] /\ denied'[u] = denied[u]
  BY DEF TableKept, Frame, HttpFrame, Threads
<1>2. RequestInv(u) /\ (at[u] # "idle" <=> phase[u] = "route")
  BY DEF ApiIInv, HttpTypeOK
<1>3. rows \in Seq(Events) /\ Grown
  BY DEF ApiIInv, IInv, TypeOK, TableKept
<1>4. ReplyInv(u)'
  <2>1. \A col \in Columns : /\ InColumnOf(rows, col) \subseteq InColumnOf(rows', col)
                             /\ GroupOf(rows, col) \subseteq GroupOf(rows', col)
    BY <1>3, GrownKeeps DEF InColumnOf
  <2>2. SpoiledIn(rows, u) => SpoiledIn(rows, u)'
    BY <1>1, <2>1 DEF SpoiledIn
  <2> QED BY <1>1, <1>2, <2>1, <2>2 DEF RequestInv, ReplyInv, ShownStored
<1>5. UrlInv(u)'
  BY <1>1, <1>2 DEF RequestInv, UrlInv
<1>6. WasInv(u)'
  BY <1>1, <1>2, <1>3, ShowGrows DEF RequestInv, WasInv
<1> QED BY <1>1, <1>2, <1>4, <1>5, <1>6 DEF RequestInv

\* The types of HttpTypeOK, without the place in the database.
HttpTypes ==
    /\ request \in [Http -> Requests \cup {None}]
    /\ phase \in [Http -> {"none", "second", "route", "done"}]
    /\ code \in [Http -> {"none", "200", "400", "404", "closed"}]
    /\ shown \in [Http -> SUBSET Texts]
    /\ was \in [Http -> BOOLEAN]
    /\ denied \in [Http -> BOOLEAN]

LEMMA HttpStepKeeps ==
    ASSUME ApiIInv, NEW t \in Http, TableKept(t), HttpFrame(t), HttpTypes', RequestInv(t)',
           at'[t] # "idle" <=> phase'[t] = "route"
    PROVE  ApiIInv'
<1>1. \A u \in Http : RequestInv(u)' /\ (at'[u] # "idle" <=> phase'[u] = "route")
  BY OtherRequest
<1>2. HttpTypeOK'
  BY <1>1 DEF HttpTypes, HttpTypeOK
<1> QED BY <1>1, <1>2 DEF ApiIInv, TableKept

LEMMA InsertStepKeeps ==
    ASSUME ApiIInv, NEW t \in Sip \cup Listeners, InsertStep(t)
    PROVE  ApiIInv' /\ Next
<1>1. t \in Threads /\ t \notin Http
  BY ConstantsAssumption DEF Threads
<1>2. Step(t)
  BY DEF InsertStep, Step
<1>3. TableKept(t) /\ Next
  BY <1>1, <1>2, StepTableKept DEF ApiIInv
<1>4. HttpFrame(t) /\ HttpTypes'
  BY DEF InsertStep, httpVars, HttpFrame, HttpTypes, ApiIInv, HttpTypeOK
<1>5. \A u \in Http : RequestInv(u)' /\ (at'[u] # "idle" <=> phase'[u] = "route")
  BY <1>1, <1>3, <1>4, OtherRequest
<1>6. HttpTypeOK'
  BY <1>4, <1>5 DEF HttpTypes, HttpTypeOK
<1> QED BY <1>3, <1>5, <1>6 DEF ApiIInv, TableKept

LEMMA FirstCallKeeps ==
    ASSUME ApiIInv, NEW t \in Http, NEW r \in Requests, FirstCall(t, r)
    PROVE  ApiIInv'
<1>1. UNCHANGED vars /\ TableKept(t)
  BY IdleTableKept DEF FirstCall, ApiIInv
<1>2. HttpTypes /\ RequestInv(t) /\ phase[t] = "none" /\ at[t] = "idle"
  BY DEF ApiIInv, HttpTypeOK, HttpTypes, FirstCall
<1>3. was'[t] <=> ToShow(r.url) # {}
  BY <1>2 DEF FirstCall, HttpTypes
<1>4. /\ request'[t] = r /\ phase'[t] \in {"second", "done"}
      /\ code'[t] \in {"none", "closed"} /\ (phase'[t] = "second" => code'[t] = "none")
      /\ shown'[t] = shown[t]
  BY <1>2 DEF FirstCall, HttpTypes
<1>5. HttpTypes'
  BY <1>2 DEF FirstCall, HttpTypes
<1>6. HttpFrame(t)
  BY <1>2 DEF FirstCall, HttpTypes, HttpFrame
<1>7. at'[t] = "idle" /\ rows' = rows
  BY <1>1, <1>2 DEF vars
<1>8. shown'[t] = {}
  BY <1>2, <1>4 DEF RequestInv, ReplyInv
<1>9. ReplyInv(t)'
  BY <1>4, <1>8 DEF ReplyInv, ShownStored
<1>10. UrlInv(t)'
  BY <1>4, <1>7 DEF UrlInv, ListPlaces, LookupPlaces
<1>11. WasInv(t)'
  BY <1>3, <1>4, <1>7, ShowIsShowOf DEF WasInv, ListPlaces
<1> QED
  BY <1>1, <1>4, <1>5, <1>6, <1>7, <1>9, <1>10, <1>11, HttpStepKeeps DEF RequestInv

LEMMA RequestDoneKeeps ==
    ASSUME ApiIInv, NEW t \in Http, RequestDone(t)
    PROVE  ApiIInv'
<1>1. UNCHANGED vars /\ TableKept(t)
  BY IdleTableKept DEF RequestDone, ApiIInv
<1>2. HttpTypes /\ at[t] = "idle"
  BY DEF ApiIInv, HttpTypeOK, HttpTypes, RequestDone
<1>3. phase'[t] = "none" /\ code'[t] = "none" /\ shown'[t] = {}
  BY <1>2 DEF RequestDone, HttpTypes
<1>4. HttpTypes'
  BY <1>2 DEF RequestDone, HttpTypes
<1>5. HttpFrame(t)
  BY <1>2 DEF RequestDone, HttpTypes, HttpFrame
<1>6. at'[t] = "idle"
  BY <1>1, <1>2 DEF vars
<1>7. RequestInv(t)'
  BY <1>3, <1>6 DEF RequestInv, ReplyInv, ShownStored, UrlInv, WasInv, ListPlaces, LookupPlaces
<1> QED BY <1>1, <1>3, <1>4, <1>5, <1>6, <1>7, HttpStepKeeps

\* A reply that can be believed, or none.
LEMMA RespondKeeps ==
    ASSUME ApiIInv, NEW t \in Http, TableKept(t), phase[t] \in {"second", "route"},
           NEW status \in {"closed", "200", "400", "404"}, NEW texts \in SUBSET Texts,
           Respond(t, status, texts), at'[t] = "idle",
           denied' \in [Http -> BOOLEAN], \A u \in Http \ {t} : denied'[u] = denied[u],
           \A text \in texts : \E col \in Columns : text \in InColumnOf(rows, col),
           status = "200" /\ was[t] => texts # {},
           status \in {"400", "404"} /\ was[t] => denied'[t] \/ SpoiledIn(rows, t)
    PROVE  ApiIInv'
<1>1. HttpTypes /\ RequestInv(t)
  BY DEF ApiIInv, HttpTypeOK, HttpTypes
<1>2. HttpTypes'
  BY <1>1 DEF Respond, HttpTypes
<1>3. HttpFrame(t)
  BY <1>1 DEF Respond, HttpTypes, HttpFrame
<1>4. /\ phase'[t] = "done" /\ was'[t] = was[t] /\ request'[t] = request[t]
      /\ \/ code'[t] = status /\ shown'[t] = texts
         \/ code'[t] = "closed" /\ shown'[t] = shown[t]
  BY <1>1 DEF Respond, HttpTypes
<1>5. shown[t] = {}
  BY <1>1 DEF RequestInv, ReplyInv
<1>6. \A col \in Columns : /\ InColumnOf(rows, col) \subseteq InColumnOf(rows', col)
                           /\ GroupOf(rows, col) \subseteq GroupOf(rows', col)
  BY GrownKeeps DEF InColumnOf, TableKept, ApiIInv, IInv, TypeOK
<1>7. ReplyInv(t)'
  <2>1. SpoiledIn(rows, t) => SpoiledIn(rows, t)'
    BY <1>4, <1>6 DEF SpoiledIn
  <2> QED BY <1>4, <1>5, <1>6, <2>1 DEF ReplyInv, ShownStored
<1>8. UrlInv(t)' /\ WasInv(t)'
  BY <1>1, <1>4 DEF RequestInv, UrlInv, WasInv, ListPlaces, LookupPlaces
<1> QED BY <1>2, <1>3, <1>4, <1>7, <1>8, HttpStepKeeps DEF RequestInv

LEMMA SecondCallKeeps ==
    ASSUME ApiIInv, NEW t \in Http, SecondCall(t)
    PROVE  ApiIInv' /\ (Next \/ UNCHANGED vars)
<1> DEFINE url == request[t].url
           route == Route(url)
<1>1. HttpTypes /\ RequestInv(t) /\ phase[t] = "second" /\ at[t] = "idle"
  BY DEF ApiIInv, HttpTypeOK, HttpTypes, SecondCall
<1>2. request[t] \in Requests /\ url \in Seq(Segments)
  BY <1>1, UrlType DEF RequestInv, UrlInv
<1>3. was[t] => ShowOf(rows, url) # {}
  BY <1>1 DEF RequestInv, WasInv
<1>4. t \in Threads
  BY DEF Threads
<1>5. CASE Respond(t, "closed", {}) /\ UNCHANGED <<vars, denied>>
  <2>1. TableKept(t) /\ at'[t] = "idle" /\ denied' \in [Http -> BOOLEAN]
    BY <1>1, <1>5, IdleTableKept DEF ApiIInv, HttpTypes, vars
  <2> QED BY <1>1, <1>5, <2>1, RespondKeeps
<1>6. CASE /\ ~ IsList(route) /\ ~ IsLookup(url, route)
           /\ Respond(t, StaticCode(route), {}) /\ UNCHANGED <<vars, denied>>
  <2>1. TableKept(t) /\ at'[t] = "idle" /\ denied' \in [Http -> BOOLEAN]
    BY <1>1, <1>6, IdleTableKept DEF ApiIInv, HttpTypes, vars
  <2>2. ~ was[t]
    BY <1>2, <1>3, <1>6, Documented
  <2>3. StaticCode(route) \in {"closed", "200", "400", "404"}
    BY DEF StaticCode
  <2> QED BY <1>1, <1>6, <2>1, <2>2, <2>3, RespondKeeps
<1>7. ASSUME NEW place \in {"count", "lookup"}, Go(t, place), TableKept(t), Next,
             phase' = [phase EXCEPT ![t] = "route"],
             UNCHANGED <<request, code, shown, was, denied>>,
             UrlInv(t)', WasInv(t)'
      PROVE  ApiIInv' /\ Next
  <2>1. HttpTypes' /\ HttpFrame(t)
    BY <1>1, <1>7 DEF HttpTypes, HttpFrame
  <2>2. at'[t] = place /\ phase'[t] = "route"
    BY <1>1, <1>4, <1>7, GoKeeps, Places
    DEF ApiIInv, IInv, HttpTypes, ListPlaces, LookupPlaces
  <2>3. ReplyInv(t)'
    BY <1>1, <1>7 DEF RequestInv, ReplyInv, ShownStored
  <2> QED BY <1>7, <2>1, <2>2, <2>3, HttpStepKeeps DEF RequestInv
<1>8. ASSUME IsList(route), NEW col \in Columns, route = Endpoint[col], HttpLists(t, col),
             phase' = [phase EXCEPT ![t] = "route"],
             UNCHANGED <<request, code, shown, was, denied>>
      PROVE  ApiIInv' /\ Next
  <2>1. Step(t)
    BY <1>8 DEF Step
  <2>2. TableKept(t) /\ Next
    BY <1>4, <2>1, StepTableKept DEF ApiIInv
  <2>3. url = <<Endpoint[col]>>
    BY <1>8, RouteOfList DEF IsList
  <2>4. /\ at'[t] = "count" /\ arg'[t] = <<col, None>> /\ before'[t] = Group(col)
        /\ rows' = rows
    BY <1>4, <1>8, GoKeeps, Places DEF HttpLists, ApiIInv, IInv, TypeOK, ListPlaces
  <2>5. UrlInv(t)'
    BY <1>2, <1>8, <2>3, <2>4 DEF UrlInv, ListPlaces, LookupPlaces
  <2>6. was[t] => Group(col) # {}
    <3> SUFFICES ASSUME was[t] PROVE Group(col) # {}
      OBVIOUS
    <3>1. PICK c \in Columns :
              \/ url = <<Endpoint[c]>> /\ GroupOf(rows, c) # {}
              \/ Len(url) = 2
      BY <1>3, ShowOfDocumented
    <3>2. Len(<<Endpoint[col]>>) = 1 /\ <<Endpoint[col]>>[1] = Endpoint[col]
      OBVIOUS
    <3>3. <<Endpoint[c]>>[1] = Endpoint[c]
      OBVIOUS
    <3>4. Endpoint[c] = Endpoint[col]
      BY <2>3, <3>1, <3>2, <3>3
    <3>5. c = col
      BY <3>4 DEF Endpoint, Columns
    <3> QED BY <2>3, <3>1, <3>2, <3>5, GroupIsGroupOf
  <2>7. WasInv(t)'
    BY <1>3, <1>8, <2>4, <2>6 DEF WasInv, ListPlaces
  <2> QED BY <1>7, <1>8, <2>2, <2>5, <2>7 DEF HttpLists
<1>9. ASSUME NEW col \in Columns, NEW text \in Texts, HttpLooksUp(t, col, text),
             IsSuffix(<<Endpoint[col], text>>, url),
             phase' = [phase EXCEPT ![t] = "route"],
             UNCHANGED <<request, code, shown, was, denied>>
      PROVE  ApiIInv' /\ Next
  <2>1. Step(t)
    BY <1>9 DEF Step
  <2>2. TableKept(t) /\ Next
    BY <1>4, <2>1, StepTableKept DEF ApiIInv
  <2>3. at'[t] = "lookup" /\ arg'[t] = <<col, text>> /\ rows' = rows
    BY <1>4, <1>9, GoKeeps, Places DEF HttpLooksUp, ApiIInv, IInv, TypeOK, LookupPlaces
  <2>4. UrlInv(t)'
    BY <1>2, <1>9, <2>3 DEF UrlInv, ListPlaces, LookupPlaces
  <2>5. WasInv(t)'
    BY <1>3, <1>9, <2>3 DEF WasInv, ListPlaces
  <2> QED BY <1>7, <1>9, <2>2, <2>4, <2>5 DEF HttpLooksUp
<1>10. /\ Endpoint["source_ip"] = "ip-addresses" /\ Endpoint["called_number"] = "numbers"
       /\ "source_ip" \in Columns /\ "called_number" \in Columns
  BY DEF Endpoint, Columns
<1>11. CASE /\ IsList(route)
            /\ HttpLists(t, IF route = "numbers" THEN "called_number" ELSE "source_ip")
            /\ phase' = [phase EXCEPT ![t] = "route"]
            /\ UNCHANGED <<request, code, shown, was, denied>>
  <2> DEFINE col == IF route = "numbers" THEN "called_number" ELSE "source_ip"
  <2>1. col \in Columns /\ route = Endpoint[col]
    BY <1>10, <1>11 DEF IsList
  <2> QED BY <1>8, <1>11, <2>1
<1>12. CASE /\ IsLookup(url, route)
            /\ IF route = "ip-address"
               THEN HttpLooksUp(t, "source_ip", Captured(url, IpAddressAt(url))[1])
               ELSE HttpLooksUp(t, "called_number", Captured(url, NumberAt(url))[1])
            /\ phase' = [phase EXCEPT ![t] = "route"]
            /\ UNCHANGED <<request, code, shown, was, denied>>
  <2>1. CASE route = "ip-address"
    <3> DEFINE text == Captured(url, IpAddressAt(url))[1]
    <3>1. text \in Texts /\ IsSuffix(<<Endpoint["source_ip"], text>>, url)
      BY <1>2, <1>10, <1>12, <2>1, IpAddressCaptured, HttpAssumption
    <3> QED BY <1>9, <1>10, <1>12, <2>1, <3>1
  <2>2. CASE route # "ip-address"
    <3> DEFINE text == Captured(url, NumberAt(url))[1]
    <3>1. route = "number"
      BY <1>12, <2>2 DEF IsLookup
    <3>2. text \in Texts /\ IsSuffix(<<Endpoint["called_number"], text>>, url)
      BY <1>2, <1>10, <3>1, NumberCaptured, HttpAssumption
    <3> QED BY <1>9, <1>10, <1>12, <2>2, <3>2
  <2> QED BY <2>1, <2>2
<1>13. \/ Respond(t, "closed", {}) /\ UNCHANGED <<vars, denied>>
       \/ /\ ~ IsList(route) /\ ~ IsLookup(url, route)
          /\ Respond(t, StaticCode(route), {}) /\ UNCHANGED <<vars, denied>>
       \/ /\ IsList(route)
          /\ HttpLists(t, IF route = "numbers" THEN "called_number" ELSE "source_ip")
          /\ phase' = [phase EXCEPT ![t] = "route"]
          /\ UNCHANGED <<request, code, shown, was, denied>>
       \/ /\ IsLookup(url, route)
          /\ IF route = "ip-address"
             THEN HttpLooksUp(t, "source_ip", Captured(url, IpAddressAt(url))[1])
             ELSE HttpLooksUp(t, "called_number", Captured(url, NumberAt(url))[1])
          /\ phase' = [phase EXCEPT ![t] = "route"]
          /\ UNCHANGED <<request, code, shown, was, denied>>
  BY DEF SecondCall
<1> HIDE DEF url, route
<1> QED BY <1>5, <1>6, <1>11, <1>12, <1>13

-----------------------------------------------------------------------------
(* The steps of a route in the database.                                   *)

LEMMA CreatedIfAny ==
    ASSUME IInv, Elements(rows) # {}
    PROVE  created
<1>1. rows # <<>>
  <2>1. Len(<<>>) = 0
    OBVIOUS
  <2> QED BY <2>1 DEF Elements
<1> QED BY <1>1 DEF IInv, CreatedFirst

\* A lookup of what was stored when the request came in can only fail for a lock.
LEMMA LookupShown ==
    ASSUME ApiIInv, NEW t \in Http, was[t], at[t] = "lookup"
    PROVE  created /\ \E e \in Stored : Column[arg[t][1]][e] = arg[t][2]
<1> DEFINE url == request[t].url
           col == arg[t][1]
           text == arg[t][2]
<1>1. RequestInv(t) /\ phase[t] = "route" /\ t \in Threads
  BY DEF ApiIInv, HttpTypeOK, Threads
<1>2. url \in Seq(Segments)
  BY <1>1, UrlType DEF RequestInv, UrlInv
<1>3. IsSuffix(<<Endpoint[col], text>>, url) /\ ShowOf(rows, url) # {}
  BY <1>1 DEF RequestInv, UrlInv, WasInv, LookupPlaces
<1>4. col \in Columns
  BY <1>1 DEF ApiIInv, IInv, ThreadInv, ArgFits, LookupPlaces
<1> HIDE DEF url, col, text
<1>5. Len(url) >= 2 /\ url[Len(url) - 1] = Endpoint[col] /\ url[Len(url)] = text
  BY <1>2, <1>3, SuffixOfTwo
<1>6. PICK c \in Columns :
          \/ url = <<Endpoint[c]>>
          \/ Len(url) = 2 /\ url[1] = Endpoint[c] /\ url[2] \in InColumnOf(rows, c)
  BY <1>3, ShowOfDocumented
<1>7. Len(<<Endpoint[c]>>) = 1
  OBVIOUS
<1>8. Len(url) = 2 /\ url[1] = Endpoint[c] /\ url[2] \in InColumnOf(rows, c)
  BY <1>5, <1>6, <1>7
<1>9. Endpoint[c] = Endpoint[col] /\ url[2] = text
  BY <1>5, <1>8
<1>10. c = col
  BY <1>4, <1>9 DEF Endpoint, Columns
<1>11. text \in InColumnOf(rows, col)
  BY <1>8, <1>9, <1>10
<1>12. \E e \in Elements(rows) : Column[col][e] = text
  BY <1>11 DEF InColumnOf
<1>13. created
  BY <1>12, CreatedIfAny DEF ApiIInv
<1> QED BY <1>12, <1>13, StoredIsElements DEF col, text

\* So can a list; and its count is not zero.
LEMMA ListShown ==
    ASSUME ApiIInv, NEW t \in Http, was[t], at[t] \in ListPlaces
    PROVE  created /\ (at[t] # "count" => count[t] > 0)
<1>1. RequestInv(t) /\ ThreadInv(t) /\ t \in Threads /\ rows \in Seq(Events)
  BY DEF ApiIInv, IInv, TypeOK, Threads
<1>2. /\ before[t] # {} /\ before[t] \subseteq GroupOf(rows, arg[t][1])
      /\ arg[t][1] \in Columns
  BY <1>1 DEF RequestInv, WasInv, ThreadInv, BeforeKept, ArgFits
<1>3. created
  BY <1>2, CreatedIfAny DEF GroupOf, ApiIInv
<1>4. IsFiniteSet(before[t])
  BY <1>1, <1>2, GroupFinite, FS_Subset
<1>5. Cardinality(before[t]) \in Nat /\ Cardinality(before[t]) # 0
  BY <1>2, <1>4, FS_CardinalityType, FS_EmptySet
<1>6. at[t] # "count" => Cardinality(before[t]) <= count[t]
  BY <1>1 DEF ThreadInv, CountKept
<1>7. count[t] \in Nat
  BY <1>1 DEF ApiIInv, IInv, TypeOK
<1> QED BY <1>3, <1>5, <1>6, <1>7

QueryStep(t) ==
    \/ LookupStep(t) \/ LookupReturns(t) \/ CountStep(t) \/ CountReturns(t)
    \/ SelectStep(t) \/ SelectReturns(t) \/ ListServed(t)

\* It goes on.
LEMMA QueryGoesOn ==
    ASSUME IInv, NEW t \in Threads, QueryStep(t), at'[t] # "idle"
    PROVE  /\ rows' = rows /\ arg' = arg /\ before' = before
           /\ \/ at[t] \in LookupPlaces /\ at'[t] \in LookupPlaces
              \/ at[t] \in ListPlaces /\ at'[t] \in ListPlaces
<1>1. ASSUME NEW place \in {"idle"} \cup LookupPlaces \cup ListPlaces, Go(t, place)
      PROVE  at'[t] = place
  BY <1>1, GoKeeps, Places DEF IInv
<1>2. ~ Go(t, "idle")
  BY <1>1
<1>3. ~ LookupReturns(t) /\ ~ ListServed(t) /\ ~ QueryFailed(t)
  BY <1>2 DEF LookupReturns, ListServed, QueryFailed
<1>4. CASE LookupStep(t)
  <2>1. /\ Go(t, "looking") /\ at[t] = "lookup"
        /\ rows' = rows /\ arg' = arg /\ before' = before
    BY <1>3, <1>4 DEF LookupStep
  <2> QED BY <1>1, <2>1 DEF LookupPlaces
<1>5. CASE CountStep(t) \/ CountReturns(t) \/ SelectStep(t) \/ SelectReturns(t)
  <2>1. PICK place \in ListPlaces : Go(t, place)
    BY <1>3, <1>5 DEF CountStep, CountReturns, SelectStep, SelectReturns, ListPlaces
  <2>2. at[t] \in ListPlaces /\ rows' = rows /\ arg' = arg /\ before' = before
    BY <1>3, <1>5 DEF CountStep, CountReturns, SelectStep, SelectReturns, ListPlaces
  <2> QED BY <1>1, <2>1, <2>2
<1> QED BY <1>3, <1>4, <1>5 DEF QueryStep

\* It ends without a result: a lock was met, the list cannot be shown, or there
\* was nothing when the request came in.
LEMMA QueryEndsEmpty ==
    ASSUME ApiIInv, NEW t \in Http, QueryStep(t), at'[t] = "idle", ~ Found(t), was[t]
    PROVE  \/ at[t] \in {"lookup", "count", "select"} /\ ~ CanShare(t)
           \/ SpoiledIn(rows, t)
<1>1. t \in Threads
  BY DEF Threads
<1>2. ASSUME NEW place \in LookupPlaces \cup ListPlaces PROVE ~ Go(t, place)
  <2>1. Go(t, place) => at'[t] = place
    BY <1>1, GoKeeps, Places DEF ApiIInv, IInv
  <2> QED BY <2>1 DEF LookupPlaces, ListPlaces
<1>3. /\ ~ Go(t, "looking") /\ ~ Go(t, "counting") /\ ~ Go(t, "select")
      /\ ~ Go(t, "selecting") /\ ~ Go(t, "listed")
  BY <1>2 DEF LookupPlaces, ListPlaces
<1>4. CASE LookupStep(t)
  <2>1. at[t] = "lookup"
    BY <1>4 DEF LookupStep
  <2>2. created /\ \E e \in Stored : Column[arg[t][1]][e] = arg[t][2]
    BY <2>1, LookupShown
  <2> QED BY <1>3, <1>4, <2>1, <2>2 DEF LookupStep
<1>5. CASE LookupReturns(t)
  BY <1>5 DEF LookupReturns, Found
<1>6. CASE CountStep(t)
  <2>1. at[t] = "count"
    BY <1>6 DEF CountStep
  <2>2. created
    BY <2>1, ListShown DEF ListPlaces
  <2> QED BY <1>3, <1>6, <2>1, <2>2 DEF CountStep
<1>7. CASE CountReturns(t)
  BY <1>3, <1>7 DEF CountReturns
<1>8. CASE SelectStep(t)
  BY <1>3, <1>8 DEF SelectStep
<1>9. CASE SelectReturns(t)
  <2>1. at[t] = "selecting" /\ count[t] > Len(list[t])
    BY <1>3, <1>9 DEF SelectReturns
  <2>2. count[t] <= Len(list[t]) /\ count[t] \in Nat /\ Len(list[t]) \in Nat
    BY <1>1, <2>1 DEF ApiIInv, IInv, ThreadInv, ListKept, TypeOK
  <2> QED BY <2>1, <2>2
<1>10. CASE ListServed(t)
  <2>1. at[t] = "listed"
    BY <1>10 DEF ListServed
  <2>2. count[t] > 0
    BY <2>1, ListShown DEF ListPlaces
  <2>3. ToSet(list[t]) \cap Unprintable # {}
    BY <2>1, <2>2 DEF Found, Appended
  <2>4. /\ \A i \in 1 .. Len(list[t]) : list[t][i] \in GroupOf(rows, arg[t][1])
        /\ arg[t][1] \in Columns /\ list[t] \in Seq(Texts)
    BY <1>1, <2>1 DEF ApiIInv, IInv, TypeOK, ThreadInv, ListKept, ArgFits, ListPlaces
  <2>5. ToSet(list[t]) \subseteq GroupOf(rows, arg[t][1])
    <3>1. DOMAIN list[t] = 1 .. Len(list[t])
      BY <2>4
    <3> QED BY <2>4, <3>1 DEF ToSet
  <2>6. request[t].url = <<Endpoint[arg[t][1]]>>
    BY <2>1 DEF ApiIInv, RequestInv, UrlInv, ListPlaces
  <2> QED BY <2>3, <2>4, <2>5, <2>6 DEF SpoiledIn
<1> QED BY <1>4, <1>5, <1>6, <1>7, <1>8, <1>9, <1>10 DEF QueryStep

\* What the route shows.
Reply(t) ==
    CASE ~ Found(t) -> {}
      [] at[t] = "looking" -> {arg[t][2]}
      [] OTHER -> ToSet(list[t])

LEMMA ReplyIsStored ==
    ASSUME ApiIInv, NEW t \in Http
    PROVE  /\ Reply(t) \in SUBSET Texts
           /\ \A text \in Reply(t) : \E col \in Columns : text \in InColumnOf(rows, col)
           /\ Found(t) => Reply(t) # {}
<1>1. t \in Threads /\ ThreadInv(t) /\ list[t] \in Seq(Texts) /\ count[t] \in Nat
  BY DEF ApiIInv, IInv, TypeOK, Threads
<1>2. CASE ~ Found(t)
  <2>1. at[t] # "looking"
    BY <1>2 DEF Found
  <2>2. Reply(t) = {}
    BY <1>2, <2>1 DEF Reply
  <2> QED BY <1>2, <2>2
<1>3. CASE at[t] = "looking"
  <2>1. Found(t) /\ Reply(t) = {arg[t][2]}
    BY <1>3 DEF Found, Reply
  <2>2. /\ arg[t][2] \in Texts /\ arg[t][1] \in Columns
        /\ \E e \in Elements(rows) : Column[arg[t][1]][e] = arg[t][2]
    BY <1>1, <1>3 DEF ThreadInv, ArgFits, LookupKept, LookupPlaces
  <2>3. arg[t][2] \in InColumnOf(rows, arg[t][1])
    BY <2>2 DEF InColumnOf
  <2> QED BY <2>1, <2>2, <2>3
<1>4. CASE Found(t) /\ at[t] # "looking"
  <2>1. at[t] = "listed" /\ count[t] > 0 /\ Reply(t) = ToSet(list[t])
    BY <1>4 DEF Found, Reply
  <2>2. /\ Len(list[t]) = count[t]
        /\ \A i \in 1 .. Len(list[t]) : list[t][i] \in GroupOf(rows, arg[t][1])
        /\ arg[t][1] \in Columns
    BY <1>1, <2>1 DEF ThreadInv, ListKept, ArgFits, ListPlaces
  <2>3. DOMAIN list[t] = 1 .. Len(list[t]) /\ 1 \in 1 .. Len(list[t])
    BY <1>1, <2>1, <2>2
  <2>4. GroupOf(rows, arg[t][1]) \subseteq InColumnOf(rows, arg[t][1])
    BY DEF GroupOf, InColumnOf
  <2> QED BY <1>1, <2>1, <2>2, <2>3, <2>4 DEF ToSet
<1> QED BY <1>2, <1>3, <1>4

LEMMA RouteStepKeeps ==
    ASSUME ApiIInv, NEW t \in Http, RouteStep(t)
    PROVE  ApiIInv' /\ Next
<1>1. HttpTypes /\ RequestInv(t) /\ phase[t] = "route" /\ t \in Threads
  BY DEF ApiIInv, HttpTypeOK, HttpTypes, RouteStep, Threads
<1>2. QueryStep(t)
  BY DEF RouteStep, QueryStep
<1>3. TableKept(t) /\ Next
  <2>1. Step(t)
    BY <1>2 DEF QueryStep, Step
  <2> QED BY <1>1, <2>1, StepTableKept DEF ApiIInv
<1> DEFINE met == at[t] \in {"lookup", "count", "select"} /\ ~ CanShare(t)
<1>4. /\ denied' \in [Http -> BOOLEAN]
      /\ \A u \in Http \ {t} : denied'[u] = denied[u]
      /\ denied'[t] <=> met
  <2>1. denied' = [denied EXCEPT ![t] = met] /\ met \in BOOLEAN
    BY DEF RouteStep
  <2> HIDE DEF met
  <2> QED BY <1>1, <2>1 DEF HttpTypes
<1>5. CASE at'[t] # "idle"
  <2>1. UNCHANGED <<request, phase, code, shown, was>>
    BY <1>5 DEF RouteStep
  <2>2. HttpTypes' /\ HttpFrame(t)
    BY <1>1, <1>4, <2>1 DEF HttpTypes, HttpFrame
  <2>3. /\ rows' = rows /\ arg' = arg /\ before' = before
        /\ \/ at[t] \in LookupPlaces /\ at'[t] \in LookupPlaces
           \/ at[t] \in ListPlaces /\ at'[t] \in ListPlaces
    BY <1>1, <1>2, <1>5, QueryGoesOn DEF ApiIInv
  <2>4. LookupPlaces \cap ListPlaces = {}
    BY DEF LookupPlaces, ListPlaces
  <2>5. ReplyInv(t)'
    BY <1>1, <2>1, <2>3 DEF RequestInv, ReplyInv, ShownStored
  <2>6. UrlInv(t)'
    BY <1>1, <2>1, <2>3, <2>4 DEF RequestInv, UrlInv
  <2>7. WasInv(t)'
    BY <1>1, <2>1, <2>3, <2>4 DEF RequestInv, WasInv
  <2> QED
    BY <1>1, <1>3, <1>5, <2>1, <2>2, <2>5, <2>6, <2>7, HttpStepKeeps DEF RequestInv
<1>6. CASE at'[t] = "idle"
  <2> DEFINE status == IF Found(t) THEN "200" ELSE "404"
  <2>1. Respond(t, status, Reply(t))
    BY <1>6 DEF RouteStep, Reply
  <2>2. status = "404" /\ was[t] => denied'[t] \/ SpoiledIn(rows, t)
    BY <1>2, <1>4, <1>6, QueryEndsEmpty
  <2>3. status = "200" => Reply(t) # {}
    BY ReplyIsStored
  <2>4. status \in {"closed", "200", "400", "404"} /\ status # "400"
    OBVIOUS
  <2> HIDE DEF status
  <2> QED BY <1>1, <1>3, <1>4, <1>6, <2>1, <2>2, <2>3, <2>4, ReplyIsStored, RespondKeeps
<1> QED BY <1>5, <1>6

LEMMA RouteFailsKeeps ==
    ASSUME ApiIInv, NEW t \in Http, RouteFails(t)
    PROVE  ApiIInv' /\ Next
<1>1. HttpTypes /\ phase[t] = "route" /\ t \in Threads
  BY DEF ApiIInv, HttpTypeOK, HttpTypes, RouteFails, Threads
<1>2. TableKept(t) /\ Next
  <2>1. Step(t)
    BY DEF RouteFails, Step
  <2> QED BY <1>1, <2>1, StepTableKept DEF ApiIInv
<1>3. at'[t] = "idle"
  BY <1>1, GoKeeps, Places DEF RouteFails, QueryFails, QueryFailed, ApiIInv, IInv
<1>4. /\ denied' \in [Http -> BOOLEAN] /\ denied'[t]
      /\ \A u \in Http \ {t} : denied'[u] = denied[u]
  BY <1>1 DEF RouteFails, HttpTypes
<1>5. Respond(t, "404", {})
  BY DEF RouteFails
<1> QED BY <1>1, <1>2, <1>3, <1>4, <1>5, RespondKeeps

-----------------------------------------------------------------------------
LEMMA ApiInitInv == HttpInit => ApiIInv
<1> SUFFICES ASSUME HttpInit PROVE ApiIInv
  OBVIOUS
<1>1. IInv
  BY InitIInv DEF HttpInit
<1>2. \A t \in Http : at[t] = "idle"
  BY DEF HttpInit, Init, Threads
<1>3. HttpTypeOK
  BY <1>2 DEF HttpInit, HttpTypeOK
<1>4. \A t \in Http : RequestInv(t)
  BY <1>2
  DEF HttpInit, RequestInv, ReplyInv, ShownStored, UrlInv, WasInv, ListPlaces, LookupPlaces
<1> QED BY <1>1, <1>3, <1>4 DEF ApiIInv

LEMMA ApiNextInv ==
    ApiIInv /\ [HttpNext]_allVars => ApiIInv' /\ [Next]_vars
<1> SUFFICES ASSUME ApiIInv, [HttpNext]_allVars PROVE ApiIInv' /\ (Next \/ UNCHANGED vars)
  OBVIOUS
<1>1. ASSUME NEW t \in Http, NEW r \in Requests, FirstCall(t, r)
      PROVE  ApiIInv' /\ UNCHANGED vars
  BY <1>1, FirstCallKeeps DEF FirstCall
<1>2. ASSUME NEW t \in Http, RequestDone(t)
      PROVE  ApiIInv' /\ UNCHANGED vars
  BY <1>2, RequestDoneKeeps DEF RequestDone
<1>3. CASE UNCHANGED allVars
  <2>1. UNCHANGED vars /\ UNCHANGED httpVars
    BY <1>3 DEF allVars
  <2>2. IInv'
    BY <2>1, NextIInv DEF ApiIInv
  <2>3. HttpTypeOK'
    BY <2>1 DEF ApiIInv, HttpTypeOK, vars, httpVars
  <2>4. \A t \in Http : RequestInv(t)'
    BY <2>1
    DEF ApiIInv, RequestInv, ReplyInv, SpoiledIn, ShownStored, UrlInv, WasInv, vars, httpVars
  <2> QED BY <2>1, <2>2, <2>3, <2>4 DEF ApiIInv
<1> QED
  BY <1>1, <1>2, <1>3, SecondCallKeeps, RouteStepKeeps, RouteFailsKeeps,
     InsertStepKeeps DEF HttpNext

LEMMA ApiInductive == HttpSpec => []ApiIInv
BY ApiInitInv, ApiNextInv, PTL DEF HttpSpec

\* The whole state keeps its type, and a thread is in the database exactly when
\* its request was routed there.
THEOREM ApiTypeCorrect == HttpSpec => []ApiTypeOK
<1>1. ApiIInv => ApiTypeOK
  BY DEF ApiIInv, IInv, ApiTypeOK
<1> QED BY <1>1, ApiInductive, PTL

\* The composition makes no call of database.c that Database does not: what is
\* proved of Database holds under the requests of the API.
THEOREM ApiIsDatabase == HttpSpec => Spec
<1>1. HttpInit => Init
  BY DEF HttpInit
<1> QED BY <1>1, ApiNextInv, ApiInductive, PTL DEF HttpSpec, Spec

\* In particular the lists are long enough, leak nothing, and the inserts and
\* lookups that go on beside the requests are those of HoneyTable.
THEOREM ApiKeepsTable ==
    HttpSpec => [](NothingInThereYet /\ ListLongEnough) /\ ImplementsTable
BY ApiIsDatabase, NothingToLeak, ListsAreLongEnough, TableImplemented, PTL

\* No URL reaches a query by matching a route in part.
THEOREM NoPartialMatch == HttpSpec => []NoPartialMatches
<1>1. ApiIInv => NoPartialMatches
  BY DEF ApiIInv, RequestInv, UrlInv, NoPartialMatches, ListPlaces, LookupPlaces
<1> QED BY <1>1, ApiInductive, PTL

\* A client may believe what it is told: 200 shows what is stored, and what was
\* stored when the request came in is only denied when the thread met a lock, a
\* call failed, or the list asked for has a text that is not UTF-8.
THEOREM RepliesAreTrue == HttpSpec => []ReplyTellsTruth
<1>1. ApiIInv => ReplyTellsTruth
  <2> SUFFICES ASSUME ApiIInv, NEW t \in Http
               PROVE  /\ shown[t] \subseteq UNION {InColumn(col) : col \in Columns}
                      /\ code[t] = "200" /\ was[t] => shown[t] # {}
                      /\ code[t] \in {"400", "404"} /\ was[t] => denied[t] \/ Spoiled(t)
    BY DEF ReplyTellsTruth
  <2>1. ReplyInv(t)
    BY DEF ApiIInv, RequestInv
  <2>2. \A col : InColumn(col) = InColumnOf(rows, col)
    BY StoredIsElements DEF InColumn, InColumnOf
  <2>3. SpoiledIn(rows, t) => Spoiled(t)
    BY GroupIsGroupOf DEF SpoiledIn, Spoiled
  <2> QED BY <2>1, <2>2, <2>3 DEF ReplyInv, ShownStored
<1> QED BY <1>1, ApiInductive, PTL
=============================================================================
