---------------------------- MODULE WebHookProofs ---------------------------
(***************************************************************************)
(* Any number of threads post to the WebHook and share one access token    *)
(* without a lock; still a retry never sends a token that was refused in   *)
(* the same call, and a call reports success only if its event was taken.  *)
(***************************************************************************)
EXTENDS WebHook, TLAPS

\* Without OAuth 2 no call gets near the token.
TokenOnlyInOAuth2 ==
    ~ oauth2_mode => \A t \in Threads : at[t] \in {"idle", "test", "testAgain", "post"}

\* A loaded pointer is used at once.
PointerShortLived ==
    \A t \in Threads : at[t] \notin {"read", "readNew"} => pointer[t] = Null

\* Nothing a thread has copied from config, and nothing it could still copy, has
\* been refused in its call, except while it is busy throwing the token away.
RefusedIsGone ==
    \A t \in Threads :
        /\ pointer[t] \notin refused[t]
        /\ header[t] \notin refused[t]
        /\ at[t] \notin {"free", "null"} => oauth2_access_token \notin refused[t]

\* A call that is under way has no result yet.
NoResultYet ==
    \A t \in Threads : at[t] # "idle" => accepted[t] = "no" /\ result[t] = "none"

\* The inductive invariant.
IInv ==
    /\ TypeOK
    /\ TokenOnlyInOAuth2
    /\ PointerShortLived
    /\ RefusedIsGone
    /\ NoResultYet
    /\ ResultTellsTruth

\* The special values are no tokens, and differ.
LEMMA SpecialValues ==
    /\ Null \notin Tokens /\ NoHeader \notin Tokens /\ Garbage \notin Tokens
    /\ MaxCalls \in Nat /\ MaxExpiries \in Nat
BY ConstantsAssumption

LEMMA InitIInv == Init => IInv
BY SpecialValues DEF Init, IInv, TypeOK, TokenOnlyInOAuth2, PointerShortLived,
       RefusedIsGone, NoResultYet, ResultTellsTruth, Places

\* A step that only moves a thread between places inside its call.
LEMMA JumpIInv ==
    ASSUME IInv, NEW t \in Threads, NEW place \in Places \ {"idle"},
           Jump(t, place), at[t] \notin {"idle", "read", "readNew", "free", "null"},
           oauth2_mode \/ place \in {"test", "testAgain", "post"}
    PROVE  IInv'
<1> USE DEF Jump, Go, fixed, heap, server, call
<1>1. at' \in [Threads -> Places] /\ at'[t] = place /\ \A u \in Threads \ {t} : at'[u] = at[u]
  BY DEF IInv, TypeOK
<1>2. TypeOK'
  BY <1>1 DEF IInv, TypeOK
<1>3. TokenOnlyInOAuth2' /\ PointerShortLived'
  BY <1>1 DEF IInv, TokenOnlyInOAuth2, PointerShortLived
<1>4. RefusedIsGone'
  BY <1>1 DEF IInv, RefusedIsGone
<1>5. NoResultYet' /\ ResultTellsTruth'
  BY <1>1 DEF IInv, NoResultYet, ResultTellsTruth, Rust
<1> QED BY <1>2, <1>3, <1>4, <1>5 DEF IInv

LEMMA TestIInv ==
    ASSUME IInv, NEW t \in Threads, TestToken(t) \/ TestTokenAgain(t) \/ TestTokenRust(t)
    PROVE  IInv'
<1> USE DEF At, NeedsToken
<1>1. CASE TestToken(t)
  BY <1>1, JumpIInv DEF TestToken, Places
<1>2. CASE TestTokenAgain(t)
  BY <1>2, JumpIInv DEF TestTokenAgain, Places
<1>3. CASE TestTokenRust(t)
  BY <1>3, JumpIInv DEF TestTokenRust, Places
<1> QED BY <1>1, <1>2, <1>3

\* The call returns with a result that fits what the WebHook answered.
LEMMA ReturnIInv ==
    ASSUME IInv, NEW t \in Threads, NEW ok \in BOOLEAN, Returned(t, ok),
           at[t] \notin {"idle", "read", "readNew", "free", "null"},
           accepted' \in [Threads -> {"no", "unheard", "yes"}],
           \A u \in Threads \ {t} : accepted'[u] = accepted[u],
           accepted'[t] = "yes" => ok,
           ok => accepted'[t] = "yes" \/ (Rust /\ ~ oauth2_mode)
    PROVE  IInv'
<1> USE DEF Returned, Go, fixed, heap, server
<1>1. /\ at' \in [Threads -> Places]
      /\ at'[t] = "idle"
      /\ \A u \in Threads \ {t} : at'[u] = at[u]
  BY DEF IInv, TypeOK, Places
<1>2. /\ header' \in [Threads -> Tokens \cup {NoHeader, Garbage}]
      /\ header'[t] = NoHeader
      /\ \A u \in Threads \ {t} : header'[u] = header[u]
      /\ refused' \in [Threads -> SUBSET Tokens]
      /\ refused'[t] = {}
      /\ \A u \in Threads \ {t} : refused'[u] = refused[u]
  BY DEF IInv, TypeOK
<1>3. /\ result' \in [Threads -> {"none", "success", "failure"}]
      /\ result'[t] = Outcome(t, ok)
      /\ \A u \in Threads \ {t} : result'[u] = result[u]
  BY DEF IInv, TypeOK, Outcome
<1>4. TypeOK'
  BY <1>1, <1>2, <1>3 DEF IInv, TypeOK
<1>5. TokenOnlyInOAuth2' /\ PointerShortLived'
  BY <1>1 DEF IInv, TokenOnlyInOAuth2, PointerShortLived
<1>6. RefusedIsGone'
  BY <1>1, <1>2 DEF IInv, RefusedIsGone
<1>7. NoResultYet'
  BY <1>1, <1>3 DEF IInv, NoResultYet
<1>8. ResultTellsTruth'
  BY <1>3 DEF IInv, ResultTellsTruth, Outcome, Rust
<1> QED BY <1>4, <1>5, <1>6, <1>7, <1>8 DEF IInv

LEMMA EndIInv ==
    ASSUME IInv, NEW t \in Threads,
           \/ NothingToPostRust(t) \/ RequestFails(t) \/ PostAccepted(t) \/ PostFails(t)
           \/ PostUnheard(t)
    PROVE  IInv'
<1> USE DEF At
<1>0. accepted \in [Threads -> {"no", "unheard", "yes"}]
  BY DEF IInv, TypeOK
<1>1. CASE NothingToPostRust(t)
  <2>1. accepted[t] = "no"
    BY <1>1 DEF NothingToPostRust, IInv, NoResultYet
  <2> QED BY <1>0, <1>1, <2>1, ReturnIInv DEF NothingToPostRust
<1>2. CASE RequestFails(t)
  <2>1. accepted[t] = "no"
    BY <1>2 DEF RequestFails, IInv, NoResultYet
  <2> QED BY <1>0, <1>2, <2>1, ReturnIInv DEF RequestFails
<1>3. CASE PostAccepted(t)
  <2>1. /\ accepted' \in [Threads -> {"no", "unheard", "yes"}]
        /\ accepted'[t] = "yes"
        /\ \A u \in Threads \ {t} : accepted'[u] = accepted[u]
    BY <1>0, <1>3 DEF PostAccepted
  <2> QED BY <1>3, <2>1, ReturnIInv DEF PostAccepted
<1>4. CASE PostFails(t)
  <2>1. accepted[t] = "no"
    BY <1>4 DEF PostFails, IInv, NoResultYet
  <2> QED BY <1>0, <1>4, <2>1, ReturnIInv DEF PostFails
<1>5. CASE PostUnheard(t)
  <2>1. /\ accepted' \in [Threads -> {"no", "unheard", "yes"}]
        /\ accepted'[t] = "unheard"
        /\ \A u \in Threads \ {t} : accepted'[u] = accepted[u]
    BY <1>0, <1>5 DEF PostUnheard
  <2> QED BY <1>5, <2>1, ReturnIInv DEF PostUnheard
<1> QED BY <1>1, <1>2, <1>3, <1>4, <1>5

LEMMA CallIInv ==
    ASSUME IInv, NEW t \in Threads, Call(t)
    PROVE  IInv'
<1> USE SpecialValues DEF Call, At, Go, fixed, heap, server
<1>1. at' \in [Threads -> Places] /\ at'[t] = "test" /\ \A u \in Threads \ {t} : at'[u] = at[u]
  BY DEF IInv, TypeOK, Places
<1>2. /\ accepted' \in [Threads -> {"no", "unheard", "yes"}]
      /\ accepted'[t] = "no"
      /\ \A u \in Threads \ {t} : accepted'[u] = accepted[u] /\ retried'[u] = retried[u]
      /\ retried' \in [Threads -> BOOLEAN]
  BY DEF IInv, TypeOK
<1>3. /\ result' \in [Threads -> {"none", "success", "failure"}]
      /\ result'[t] = "none"
      /\ \A u \in Threads \ {t} : result'[u] = result[u]
  BY DEF IInv, TypeOK
<1>4. calls' \in [Threads -> 0 .. MaxCalls]
  BY DEF IInv, TypeOK
<1>5. TypeOK'
  BY <1>1, <1>2, <1>3, <1>4 DEF IInv, TypeOK
<1>6. TokenOnlyInOAuth2' /\ PointerShortLived' /\ RefusedIsGone'
  BY <1>1 DEF IInv, TokenOnlyInOAuth2, PointerShortLived, RefusedIsGone
<1>7. NoResultYet' /\ ResultTellsTruth'
  BY <1>1, <1>2, <1>3 DEF IInv, NoResultYet, ResultTellsTruth, Rust
<1> QED BY <1>5, <1>6, <1>7 DEF IInv

\* Load and print: two steps, between which the others may free the block.
LEMMA ReadIInv ==
    ASSUME IInv, NEW t \in Threads, LoadToken(t) \/ ReadToken(t)
    PROVE  IInv'
<1> USE SpecialValues DEF At, Go, fixed, heap, server
<1>0. oauth2_mode
  BY DEF IInv, TokenOnlyInOAuth2, LoadToken, ReadToken
<1>1. CASE LoadToken(t)
  <2> USE <1>1 DEF LoadToken
  <2>1. /\ at' \in [Threads -> Places]
        /\ at'[t] \in {"read", "readNew"}
        /\ \A u \in Threads \ {t} : at'[u] = at[u]
    BY DEF IInv, TypeOK, Places
  <2>2. /\ pointer' \in [Threads -> Tokens \cup {Null}]
        /\ pointer'[t] = oauth2_access_token
        /\ \A u \in Threads \ {t} : pointer'[u] = pointer[u]
    BY DEF IInv, TypeOK
  <2>3. TypeOK'
    BY <2>1, <2>2 DEF IInv, TypeOK
  <2>4. TokenOnlyInOAuth2' /\ PointerShortLived'
    BY <1>0, <2>1, <2>2 DEF IInv, TokenOnlyInOAuth2, PointerShortLived
  <2>5. RefusedIsGone'
    BY <2>1, <2>2 DEF IInv, RefusedIsGone
  <2>6. NoResultYet' /\ ResultTellsTruth'
    BY <2>1 DEF IInv, NoResultYet, ResultTellsTruth, Rust
  <2> QED BY <2>3, <2>4, <2>5, <2>6 DEF IInv
<1>2. CASE ReadToken(t)
  <2> USE <1>2 DEF ReadToken
  <2>1. /\ at' \in [Threads -> Places]
        /\ at'[t] \in {"testAgain", "post"}
        /\ \A u \in Threads \ {t} : at'[u] = at[u]
    BY DEF IInv, TypeOK, Places
  <2>2. /\ pointer' \in [Threads -> Tokens \cup {Null}]
        /\ pointer'[t] = Null
        /\ \A u \in Threads \ {t} : pointer'[u] = pointer[u]
    BY DEF IInv, TypeOK
  <2>3. /\ header' \in [Threads -> Tokens \cup {NoHeader, Garbage}]
        /\ header'[t] \in {pointer[t], Garbage}
        /\ \A u \in Threads \ {t} : header'[u] = header[u]
    BY DEF IInv, TypeOK
  <2>4. TypeOK'
    BY <1>0, <2>1, <2>2, <2>3 DEF IInv, TypeOK
  <2>5. TokenOnlyInOAuth2' /\ PointerShortLived'
    BY <1>0, <2>1, <2>2 DEF IInv, TokenOnlyInOAuth2, PointerShortLived
  <2>6. refused[t] \subseteq Tokens
    BY DEF IInv, TypeOK
  <2>7. RefusedIsGone'
    BY <2>1, <2>2, <2>3, <2>6 DEF IInv, RefusedIsGone
  <2>8. NoResultYet' /\ ResultTellsTruth'
    BY <2>1 DEF IInv, NoResultYet, ResultTellsTruth, Rust
  <2> QED BY <2>4, <2>5, <2>7, <2>8 DEF IInv
<1> QED BY <1>1, <1>2

\* A block is handed out again only if nobody refers to it; its new contents are
\* another token, which nobody has refused.
LEMMA RequestIInv ==
    ASSUME IInv, NEW t \in Threads, RequestOk(t)
    PROVE  IInv'
<1> USE SpecialValues DEF At, Go, fixed, RequestOk
<1> DEFINE k == CHOOSE x \in Unused : TRUE
<1>0. oauth2_mode
  BY DEF IInv, TokenOnlyInOAuth2
<1>1. k \in Unused
  OBVIOUS
<1>2. k \in Tokens /\ \A u \in Threads : k # pointer[u] /\ k # header[u]
  BY <1>1 DEF Unused
<1>3. /\ oauth2_access_token' = k
      /\ freed' = freed \ {k}
      /\ valid' = valid \cup {k}
      /\ refused' = [u \in Threads |-> refused[u] \ {k}]
  OBVIOUS
<1> HIDE DEF k
<1>4. /\ refused' \in [Threads -> SUBSET Tokens]
      /\ \A u \in Threads : refused'[u] = refused[u] \ {k}
  BY <1>3 DEF IInv, TypeOK
<1>5. at' \in [Threads -> Places] /\ at'[t] = "loadNew" /\ \A u \in Threads \ {t} : at'[u] = at[u]
  BY DEF IInv, TypeOK, Places
<1>6. TypeOK'
  BY <1>0, <1>2, <1>3, <1>4, <1>5 DEF IInv, TypeOK
<1>7. TokenOnlyInOAuth2' /\ PointerShortLived'
  BY <1>0, <1>5 DEF IInv, TokenOnlyInOAuth2, PointerShortLived
<1>8. RefusedIsGone'
  BY <1>2, <1>3, <1>4, <1>5 DEF IInv, RefusedIsGone
<1>9. NoResultYet' /\ ResultTellsTruth'
  BY <1>5 DEF IInv, NoResultYet, ResultTellsTruth, Rust
<1> QED BY <1>6, <1>7, <1>8, <1>9 DEF IInv

\* A refused token leaves the header, and config if it is still there.
LEMMA RefusedIInv ==
    ASSUME IInv, NEW t \in Threads, PostRefused(t)
    PROVE  IInv'
<1> USE SpecialValues DEF At, Go, fixed, heap, server, PostRefused, AfterRefusal
<1>1. /\ at' \in [Threads -> Places]
      /\ at'[t] = IF oauth2_access_token # Null THEN "free" ELSE "test"
      /\ \A u \in Threads \ {t} : at'[u] = at[u]
  BY DEF IInv, TypeOK, Places
<1>2. /\ refused' \in [Threads -> SUBSET Tokens]
      /\ refused'[t] \subseteq Tokens
      /\ \A u \in Threads \ {t} : refused'[u] = refused[u]
  BY DEF IInv, TypeOK
<1>3. /\ header' \in [Threads -> Tokens \cup {NoHeader, Garbage}]
      /\ header'[t] = NoHeader
      /\ \A u \in Threads \ {t} : header'[u] = header[u]
  BY DEF IInv, TypeOK
<1>4. retried' \in [Threads -> BOOLEAN] /\ \A u \in Threads \ {t} : retried'[u] = retried[u]
  BY DEF IInv, TypeOK
<1>5. TypeOK'
  BY <1>1, <1>2, <1>3, <1>4 DEF IInv, TypeOK
<1>6. TokenOnlyInOAuth2' /\ PointerShortLived'
  BY <1>1 DEF IInv, TokenOnlyInOAuth2, PointerShortLived
<1>7. pointer[t] = Null
  BY DEF IInv, PointerShortLived
<1>8. RefusedIsGone'
  BY <1>1, <1>2, <1>3, <1>7 DEF IInv, RefusedIsGone
<1>9. NoResultYet'
  BY <1>1 DEF IInv, NoResultYet
<1>10. ResultTellsTruth'
  BY <1>4 DEF IInv, NoResultYet, ResultTellsTruth, Rust
<1> QED BY <1>5, <1>6, <1>8, <1>9, <1>10 DEF IInv

\* free() and the assignment of 0, also of a token another thread has put there
\* in the meantime.
LEMMA ThrowAwayIInv ==
    ASSUME IInv, NEW t \in Threads, FreeToken(t) \/ NullToken(t)
    PROVE  IInv'
<1> USE SpecialValues DEF At, Go, fixed, server, call
<1>0. oauth2_mode
  BY DEF IInv, TokenOnlyInOAuth2, FreeToken, NullToken
<1>1. /\ at' \in [Threads -> Places]
      /\ at'[t] = IF FreeToken(t) THEN "null" ELSE "test"
      /\ \A u \in Threads \ {t} : at'[u] = at[u]
  BY DEF IInv, TypeOK, Places, FreeToken, NullToken
<1>2. /\ freed' \subseteq Tokens
      /\ oauth2_access_token' = IF FreeToken(t) THEN oauth2_access_token ELSE Null
  BY DEF IInv, TypeOK, FreeToken, NullToken
<1>3. TypeOK'
  BY <1>0, <1>1, <1>2 DEF IInv, TypeOK, FreeToken, NullToken
<1>4. TokenOnlyInOAuth2' /\ PointerShortLived'
  BY <1>0, <1>1 DEF IInv, TokenOnlyInOAuth2, PointerShortLived, FreeToken, NullToken
<1>5. \A u \in Threads : Null \notin refused[u]
  BY DEF IInv, TypeOK
<1>6. RefusedIsGone'
  BY <1>1, <1>2, <1>5 DEF IInv, RefusedIsGone, FreeToken, NullToken
<1>7. NoResultYet' /\ ResultTellsTruth'
  BY <1>1 DEF IInv, NoResultYet, ResultTellsTruth, Rust, FreeToken, NullToken
<1> QED BY <1>3, <1>4, <1>6, <1>7 DEF IInv

\* The process ends, or a token expires: no thread moves.
LEMMA OutsideIInv ==
    ASSUME IInv,
           \/ \E t \in Threads : \/ ReadAborts(t) \/ RequestAborts(t) \/ PostAborts(t)
                                 \/ FreeAborts(t)
           \/ \E k \in Tokens : Expire(k)
           \/ UNCHANGED vars
    PROVE  IInv'
<1>1. TypeOK'
  <2>1. CASE \E t \in Threads : \/ ReadAborts(t) \/ RequestAborts(t) \/ PostAborts(t)
                                 \/ FreeAborts(t)
    <3>1. alive' = FALSE /\ UNCHANGED <<fixed, heap, server, at, call>>
      BY <2>1 DEF ReadAborts, RequestAborts, PostAborts, FreeAborts, Abort
    <3> QED BY <3>1 DEF IInv, TypeOK, fixed, heap, server, call
  <2>2. CASE \E k \in Tokens : Expire(k)
    <3>1. expiries' \in 0 .. MaxExpiries /\ valid' \subseteq Tokens
      BY <2>2, SpecialValues DEF Expire, IInv, TypeOK
    <3>2. UNCHANGED <<fixed, heap, alive, at, call>>
      BY <2>2 DEF Expire
    <3> QED BY <3>1, <3>2 DEF IInv, TypeOK, fixed, heap, call
  <2>3. CASE UNCHANGED vars
    BY <2>3 DEF vars, IInv, TypeOK, fixed, heap, server, call
  <2> QED BY <2>1, <2>2, <2>3
<1>2. UNCHANGED <<build, oauth2_mode, oauth2_access_token, at, call>>
  BY DEF vars, fixed, heap, server, Expire, Abort, ReadAborts, RequestAborts, PostAborts,
     FreeAborts
<1>3. /\ TokenOnlyInOAuth2' /\ PointerShortLived' /\ RefusedIsGone'
      /\ NoResultYet' /\ ResultTellsTruth'
  BY <1>2 DEF IInv, call, TokenOnlyInOAuth2, PointerShortLived, RefusedIsGone, NoResultYet,
     ResultTellsTruth, Rust
<1> QED BY <1>1, <1>3 DEF IInv

LEMMA StepIInv == IInv /\ [Next]_vars => IInv'
<1> SUFFICES ASSUME IInv, [Next]_vars PROVE IInv'
  OBVIOUS
<1>1. CASE \E t \in Threads : Step(t)
  BY <1>1, TestIInv, EndIInv, ReadIInv, RequestIInv, RefusedIInv, ThrowAwayIInv,
     OutsideIInv DEF Step
<1> QED BY <1>1, CallIInv, OutsideIInv DEF Next

LEMMA AlwaysIInv == Spec => []IInv
BY InitIInv, StepIInv, PTL DEF Spec

\* The state of the calls is well typed; outside OAuth 2 mode no token is ever
\* stored or sent.
THEOREM TypeCorrect == Spec => []TypeOK
<1>1. IInv => TypeOK
  BY DEF IInv
<1> QED BY <1>1, AlwaysIInv, PTL

\* json_http_post_bad_actor does not repeat a token the WebHook has answered 401
\* or 403 in the same call, whatever other threads do to config.
THEOREM RetryIsFresh == Spec => []RetryUsesNewToken
<1>1. IInv => RetryUsesNewToken
  BY DEF IInv, RefusedIsGone, RetryUsesNewToken
<1> QED BY <1>1, AlwaysIInv, PTL

\* json_http_post_bad_actor returns EXIT_SUCCESS exactly when the last of its
\* requests was answered 200 or 201; so does the Rust function in OAuth 2 mode,
\* except that it may return EXIT_FAILURE as well.
THEOREM ResultIsTrue == Spec => []ResultTellsTruth
<1>1. IInv => ResultTellsTruth
  BY DEF IInv
<1> QED BY <1>1, AlwaysIInv, PTL
=============================================================================
