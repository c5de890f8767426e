------------------------------ MODULE HttpApi -------------------------------
(***************************************************************************)
(* The RESTful API (http_routes.c and the route files): libmicrohttpd has  *)
(* a thread per connection, which calls route_handler once when it has the *)
(* headers and again when it has the whole request; the second call finds  *)
(* the route and answers, from the database where the route needs it, as   *)
(* SIP workers and the DHT listener go on inserting (Database).            *)
(*                                                                         *)
(* A URL is the sequence of the segments between its slashes; "/" is       *)
(* <<"">>.  What a reply says besides its status and the texts it shows    *)
(* (content type, headers, seen_last, seen_count) is left out.             *)
(***************************************************************************)
EXTENDS Database

CONSTANTS
    Requests,     \* the requests to make
    IpAddresses,  \* the texts valid_ip_address_format accepts
    Numbers,      \* the texts of the form \+?[0-9]+
    Unprintable   \* the texts json_pack returns NULL for: they are not UTF-8

Segments == UNION {ToSet(r.url) : r \in Requests}

ASSUME HttpAssumption ==
    /\ \A r \in Requests : /\ DOMAIN r = {"method", "url", "upload"}
                           /\ r.url \in Seq(Segments) \ {<<>>}
    /\ IpAddresses \cup Numbers \subseteq Texts \ {""}
    /\ IpAddresses \cap Numbers = {}
    /\ Unprintable \subseteq Texts \ (IpAddresses \cup Numbers)

VARIABLES
    request,  \* request[t]: the request t handles, or None
    phase,    \* phase[t]: "none", "second" before the second call of
              \* route_handler (*ptr is &dummy), "route" in the database, "done"
    code,     \* code[t]: the status of the reply; "none" before it, "closed" if the
              \* connection was closed without one
    shown,    \* shown[t]: the texts of the reply
    was,      \* history: was[t], the request asked for something that was
              \* stored when it came in
    denied    \* history: denied[t], a statement of t met a lock or failed

httpVars == <<request, phase, code, shown, was, denied>>
allVars == <<vars, httpVars>>

HttpTypeOK ==
    /\ request \in [Http -> Requests \cup {None}]
    /\ phase \in [Http -> {"none", "second", "route", "done"}]
    /\ code \in [Http -> {"none", "200", "400", "404", "closed"}]
    /\ shown \in [Http -> SUBSET Texts]
    /\ was \in [Http -> BOOLEAN]
    /\ denied \in [Http -> BOOLEAN]
    /\ \A t \in Http : at[t] # "idle" <=> phase[t] = "route"

HttpInit ==
    /\ Init
    /\ request = [t \in Http |-> None]
    /\ phase = [t \in Http |-> "none"]
    /\ code = [t \in Http |-> "none"]
    /\ shown = [t \in Http |-> {}]
    /\ was = [t \in Http |-> FALSE]
    /\ denied = [t \in Http |-> FALSE]

-----------------------------------------------------------------------------
(* The routes.                                                             *)

\* What follows segment i of a URL.
Rest(url, i) == SubSeq(url, i + 1, Len(url))

\* IP_ADDRESS_ROUTE, "/ip-addresses/(.+)", matches from segment i on: the
\* expression is not anchored, and there is at least one character to capture.
IpAddressAt(url) ==
    {i \in 1 .. Len(url) : url[i] = "ip-addresses" /\ Rest(url, i) \notin {<<>>, <<"">>}}

\* NUMBER_ROUTE, "/numbers/(\+?[0-9]+$)", matches from segment i on.
NumberAt(url) ==
    {i \in 1 .. Len(url) : url[i] = "numbers" /\ Rest(url, i) \in {<<n>> : n \in Numbers}}

\* Bug variant: what is captured ends at the next slash.
CapturedSegment(url, matches) == <<url[Min(matches) + 1]>>

\* regex_match: the leftmost match; the capture is copied up to the end of the
\* URL.
Captured(url, matches) == Rest(url, Min(matches))

\* The order of the else-ifs of route_handler.
RouteOrder ==
    <<"health-check", "home", "ip-addresses", "ip-address", "ipset", "numbers",
      "number", "placeholder">>

\* The routes that reply with their own name.
Placeholders ==
    {<<"countries">>, <<"countries", ":country">>, <<"countries", ":country", ":city">>,
     <<"user-agents">>, <<"user-agents", ":user_agent">>,
     <<"sip-methods">>, <<"sip-methods", ":sip_method">>}

\* route_check and regex_match.
Matches(url, route) ==
    CASE route = "home" -> url = <<"">>
      [] route = "ip-address" -> IpAddressAt(url) # {}
      [] route = "ipset" -> url = <<"ip-addresses", "ipset">>
      [] route = "number" -> NumberAt(url) # {}
      [] route = "placeholder" -> url \in Placeholders
      [] OTHER -> url = <<route>>

\* The first route that matches.
Route(url) ==
    LET matching == {i \in 1 .. Len(RouteOrder) : Matches(url, RouteOrder[i])}
    IN IF matching = {} THEN "none" ELSE RouteOrder[Min(matching)]

-----------------------------------------------------------------------------
(* What the README says of the endpoints.                                  *)

Endpoint == [source_ip |-> "ip-addresses", called_number |-> "numbers"]

\* The texts an endpoint can be asked for; a stored text need not be one.
Askable == [source_ip |-> IpAddresses, called_number |-> Numbers]

InColumn(col) == {Column[col][e] : e \in Stored}

\* What a documented URL is to show: a list, or one text that can be asked for.
ToShow(url) ==
    UNION {CASE url = <<Endpoint[col]>> -> Group(col)
             [] Len(url) = 2 /\ url[1] = Endpoint[col] ->
                    InColumn(col) \cap {url[2]} \cap Askable[col]
             [] OTHER -> {} : col \in Columns}

-----------------------------------------------------------------------------
(* A request.                                                              *)

\* A client sends a request; the first call of route_handler refuses its method
\* or sets *ptr and returns MHD_YES.
FirstCall(t, r) ==
    /\ phase[t] = "none"
    /\ request' = [request EXCEPT ![t] = r]
    /\ phase' = [phase EXCEPT ![t] = IF r.method = "GET" THEN "second" ELSE "done"]
    /\ code' = [code EXCEPT ![t] = IF r.method = "GET" THEN "none" ELSE "closed"]
    /\ was' = [was EXCEPT ![t] = ToShow(r.url) # {}]
    /\ UNCHANGED <<vars, shown, denied>>

\* finalise_response, or MHD_NO, which closes the connection: of a request
\* route_handler refuses, or because there is no memory for the response.
Respond(t, status, texts) ==
    /\ phase' = [phase EXCEPT ![t] = "done"]
    /\ \/ /\ status # "closed"
          /\ code' = [code EXCEPT ![t] = status]
          /\ shown' = [shown EXCEPT ![t] = texts]
       \/ /\ code' = [code EXCEPT ![t] = "closed"]
          /\ UNCHANGED shown
    /\ UNCHANGED <<request, was>>

\* The status of a reply that needs no database.  An ip-address is one whose
\* capture is no valid IP address.
StaticCode(route) ==
    CASE route = "ip-address" -> "400"
      [] route = "none" -> "404"
      [] OTHER -> "200"

\* Does the second call go to the database?
IsList(route) == route \in {"ip-addresses", "numbers"}

IsLookup(url, route) ==
    \/ route = "ip-address" /\ Captured(url, IpAddressAt(url)) \in {<<a>> : a \in IpAddresses}
    \/ route = "number"

\* The second call, up to the reply or to the first statement.
SecondCall(t) ==
    /\ phase[t] = "second"
    /\ LET url == request[t].url
           route == Route(url)
       IN \/ /\ request[t].upload
             /\ Respond(t, "closed", {})
             /\ UNCHANGED <<vars, denied>>
          \/ /\ ~ request[t].upload
             /\ ~ IsList(route) /\ ~ IsLookup(url, route)
             /\ Respond(t, StaticCode(route), {})
             /\ UNCHANGED <<vars, denied>>
          \/ /\ ~ request[t].upload
             /\ IsList(route)
             /\ HttpLists(t, IF route = "numbers" THEN "called_number" ELSE "source_ip")
             /\ phase' = [phase EXCEPT ![t] = "route"]
             /\ UNCHANGED <<request, code, shown, was, denied>>
          \/ /\ ~ request[t].upload
             /\ IsLookup(url, route)
             /\ IF route = "ip-address"
                THEN HttpLooksUp(t, "source_ip", Captured(url, IpAddressAt(url))[1])
                ELSE HttpLooksUp(t, "called_number", Captured(url, NumberAt(url))[1])
             /\ phase' = [phase EXCEPT ![t] = "route"]
             /\ UNCHANGED <<request, code, shown, was, denied>>

\* Can every text of a list be appended to the JSON array?
Appended(t) == ToSet(list[t]) \cap Unprintable = {}

\* Bug variant: a list of one entry counts as empty.
FoundSeveral(t) ==
    at[t] = "looking" \/ (at[t] = "listed" /\ count[t] > 1 /\ Appended(t))

\* The route has something to show: the lookup found its text, or the list is
\* not empty and each of its entries can be shown.
Found(t) == at[t] = "looking" \/ (at[t] = "listed" /\ count[t] > 0 /\ Appended(t))

\* A step of a list or lookup; when it is the last one the route replies.
RouteStep(t) ==
    /\ phase[t] = "route"
    /\ LookupStep(t) \/ LookupReturns(t) \/ CountStep(t) \/ CountReturns(t)
         \/ SelectStep(t) \/ SelectReturns(t) \/ ListServed(t)
    /\ denied' = [denied EXCEPT ![t] =
           at[t] \in {"lookup", "count", "select"} /\ ~ CanShare(t)]
    /\ IF at'[t] # "idle"
       THEN UNCHANGED <<request, phase, code, shown, was>>
       ELSE Respond(t, IF Found(t) THEN "200" ELSE "404",
                    CASE ~ Found(t) -> {}
                      [] at[t] = "looking" -> {arg[t][2]}
                      [] OTHER -> ToSet(list[t]))

\* A call of the list or lookup fails for another reason than a lock: 404.
RouteFails(t) ==
    /\ phase[t] = "route"
    /\ QueryFails(t)
    /\ denied' = [denied EXCEPT ![t] = TRUE]
    /\ Respond(t, "404", {})

\* The client has the reply; the thread is ready for the next request.
RequestDone(t) ==
    /\ phase[t] = "done"
    /\ request' = [request EXCEPT ![t] = None]
    /\ phase' = [phase EXCEPT ![t] = "none"]
    /\ code' = [code EXCEPT ![t] = "none"]
    /\ shown' = [shown EXCEPT ![t] = {}]
    /\ was' = [was EXCEPT ![t] = FALSE]
    /\ denied' = [denied EXCEPT ![t] = FALSE]
    /\ UNCHANGED vars

\* The threads that insert.
InsertStep(t) ==
    /\ \/ \E e \in OwnEvents : SipInsert(t, e)
       \/ \E e \in ForeignEvents : ListenerAsks(t, e)
       \/ Schema(t) \/ Reserve(t) \/ Exclude(t) \/ Commit(t) \/ Inserted(t)
       \/ ExistsStep(t) \/ ExistsReturns(t) \/ ListenerInserts(t)
       \/ InsertFails(t) \/ ExistsFails(t)
    /\ UNCHANGED httpVars

HttpNext ==
    \/ \E t \in Http, r \in Requests : FirstCall(t, r)
    \/ \E t \in Http : SecondCall(t) \/ RouteStep(t) \/ RouteFails(t) \/ RequestDone(t)
    \/ \E t \in Sip \cup Listeners : InsertStep(t)

HttpSpec == HttpInit /\ [][HttpNext]_allVars

-----------------------------------------------------------------------------
(* Safety.                                                                 *)

\* The whole state of the composition has its type; a thread is in the database
\* exactly when its request was routed there.
ApiTypeOK == TypeOK /\ HttpTypeOK

\* "We don't want any partial matches" (route_check): the database is asked for
\* the list of a column only by the URL of that list, and for a text only by a
\* URL that ends with the endpoint of its column and the whole text, although
\* the expressions are not anchored, the captures run to the end of the URL and
\* each route hides those after it.
NoPartialMatches ==
    \A t \in Http :
        LET url == request[t].url IN
        /\ at[t] \in {"count", "counting", "select", "selecting", "listed"} =>
               url = <<Endpoint[arg[t][1]]>>
        /\ at[t] \in {"lookup", "looking"} =>
               IsSuffix(<<Endpoint[arg[t][1]], arg[t][2]>>, url)

\* A stored text keeps the list the URL asks for from being shown.
Spoiled(t) ==
    \E col \in Columns :
        request[t].url = <<Endpoint[col]>> /\ Group(col) \cap Unprintable # {}

\* A client may believe what it is told, however its statements interleave with
\* inserts.  200 shows texts that are stored, and at least one; of a documented
\* URL whose texts were stored when the request came in, any other answer means
\* that the thread met a lock or a call failed (the API does not tell an error
\* from "No bad actor found"), that the connection was closed, or that a text of
\* that very list is not UTF-8: the other list and the lookups still answer.
ReplyTellsTruth ==
    \A t \in Http :
        /\ shown[t] \subseteq UNION {InColumn(col) : col \in Columns}
        /\ code[t] = "200" /\ was[t] => shown[t] # {}
        /\ code[t] \in {"400", "404"} /\ was[t] => denied[t] \/ Spoiled(t)
=============================================================================
