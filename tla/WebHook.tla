------------------------------- MODULE WebHook ------------------------------
(***************************************************************************)
(* Posting an event to the WebHook: json_http_post_bad_actor in C and      *)
(* json_http_post_bad_actor_rs in Rust.  In OAuth 2 mode a bearer token is *)
(* sent that is requested when there is none, kept in                      *)
(* config->oauth2_access_token and thrown away when the WebHook answers    *)
(* 401 or 403; then the function calls itself.  The SIP threads and the    *)
(* DHT listener share config and take no lock.                             *)
(*                                                                         *)
(* A token is the heap block it lives in.  A block that nobody refers to   *)
(* any more can be handed out again by malloc.                             *)
(***************************************************************************)
EXTENDS Naturals, FiniteSets

CONSTANTS
    Threads,      \* callers of bad_actor_log with webhook_mode on
    Tokens,       \* heap blocks for access tokens
    Builds,       \* which of the two functions: a subset of {"c", "rust"}
    OAuth2,       \* config->oauth2_mode, as a set of values to start with
    Honours,      \* whether the WebHook always accepts a valid token, as a set
    MaxCalls,     \* bound: calls per thread
    MaxExpiries,  \* bound: tokens that expire
    Null,         \* the null pointer
    NoHeader,     \* a request without an Authorization header
    Garbage       \* what reading a freed block or a null pointer yields

ASSUME ConstantsAssumption ==
    /\ Builds \subseteq {"c", "rust"}
    /\ OAuth2 \subseteq BOOLEAN
    /\ Honours \subseteq BOOLEAN
    /\ MaxCalls \in Nat
    /\ MaxExpiries \in Nat
    /\ {Null, NoHeader, Garbage} \cap Tokens = {}
    /\ Cardinality({Null, NoHeader, Garbage}) = 3

Places == {"idle", "test", "load", "read", "testAgain", "request", "loadNew",
           "readNew", "post", "free", "null"}

VARIABLES
    build,                \* the function bad_actor_log calls
    honours,              \* the WebHook accepts every valid token
    oauth2_mode,          \* config->oauth2_mode
    oauth2_access_token,  \* config->oauth2_access_token
    freed,                \* blocks that have been freed
    alive,                \* the process has not aborted
    valid,                \* tokens the authorization server honours
    expiries,             \* tokens that have expired
    at,                   \* at[t]: where thread t stands
    pointer,              \* pointer[t]: the token pointer t has loaded
    header,               \* header[t]: the Authorization header t will send
    refused,              \* refused[t]: tokens answered 401 or 403 in this call
    retried,              \* retried[t]: the function has called itself
    accepted,             \* accepted[t]: the WebHook took the event, and t heard so
    result,               \* result[t]: what the call returned, or "none"
    calls                 \* calls[t]: calls made

fixed == <<build, honours, oauth2_mode>>
heap == <<oauth2_access_token, freed>>
server == <<valid, expiries>>
call == <<pointer, header, refused, retried, accepted, result, calls>>
vars == <<fixed, heap, alive, server, at, call>>

Rust == build = "rust"

TypeOK ==
    /\ build \in Builds
    /\ honours \in Honours
    /\ oauth2_mode \in OAuth2
    /\ oauth2_access_token \in Tokens \cup {Null}
    /\ freed \subseteq Tokens
    /\ alive \in BOOLEAN
    /\ valid \subseteq Tokens
    /\ expiries \in 0 .. MaxExpiries
    /\ at \in [Threads -> Places]
    /\ pointer \in [Threads -> Tokens \cup {Null}]
    /\ header \in [Threads -> Tokens \cup {NoHeader, Garbage}]
    /\ refused \in [Threads -> SUBSET Tokens]
    /\ retried \in [Threads -> BOOLEAN]
    /\ accepted \in [Threads -> {"no", "unheard", "yes"}]
    /\ result \in [Threads -> {"none", "success", "failure"}]
    /\ calls \in [Threads -> 0 .. MaxCalls]
    /\ ~ oauth2_mode => oauth2_access_token = Null /\ header = [t \in Threads |-> NoHeader]

Init ==
    /\ build \in Builds
    /\ honours \in Honours
    /\ oauth2_mode \in OAuth2
    /\ oauth2_access_token = Null
    /\ freed = {}
    /\ alive = TRUE
    /\ valid = {}
    /\ expiries = 0
    /\ at = [t \in Threads |-> "idle"]
    /\ pointer = [t \in Threads |-> Null]
    /\ header = [t \in Threads |-> NoHeader]
    /\ refused = [t \in Threads |-> {}]
    /\ retried = [t \in Threads |-> FALSE]
    /\ accepted = [t \in Threads |-> "no"]
    /\ result = [t \in Threads |-> "none"]
    /\ calls = [t \in Threads |-> 0]

-----------------------------------------------------------------------------
At(t, place) == alive /\ at[t] = place

Go(t, place) == at' = [at EXCEPT ![t] = place]

\* A step that only moves t on.
Jump(t, place) ==
    /\ Go(t, place)
    /\ UNCHANGED <<fixed, heap, alive, server, call>>

\* bad_actor_log calls json_http_post_bad_actor or its Rust sibling.
Call(t) ==
    /\ At(t, "idle")
    /\ calls[t] < MaxCalls
    /\ calls' = [calls EXCEPT ![t] = @ + 1]
    /\ retried' = [retried EXCEPT ![t] = FALSE]
    /\ accepted' = [accepted EXCEPT ![t] = "no"]
    /\ result' = [result EXCEPT ![t] = "none"]
    /\ Go(t, "test")
    /\ UNCHANGED <<fixed, heap, alive, server, pointer, header, refused>>

\* Bug variant: what the call inside the call returned is not looked at.
OutcomeRetryIgnored(t, ok) == IF ok \/ retried[t] THEN "success" ELSE "failure"

\* What the outermost call returns when the last one in it went well or not.
\* The Rust function reports the answer it got first: after a refusal it
\* returns EXIT_FAILURE whatever became of the retry.
Outcome(t, ok) == IF ok /\ ~ (Rust /\ retried[t]) THEN "success" ELSE "failure"

\* The call is over; bad_actor_log only logs a failure.
Returned(t, ok) ==
    /\ Go(t, "idle")
    /\ header' = [header EXCEPT ![t] = NoHeader]
    /\ refused' = [refused EXCEPT ![t] = {}]
    /\ result' = [result EXCEPT ![t] = Outcome(t, ok)]
    /\ UNCHANGED <<fixed, heap, alive, server, pointer, retried, calls>>

\* An assert in C, a panic in a Rust function that C calls: the process ends.
Abort(t) ==
    /\ alive' = FALSE
    /\ UNCHANGED <<fixed, heap, server, at, call>>

\* C: "We already have an access token, so we set it in our header".
TestToken(t) ==
    /\ ~ Rust
    /\ At(t, "test")
    /\ Jump(t, IF oauth2_mode /\ oauth2_access_token # Null THEN "load" ELSE "testAgain")

\* Bug variant: a token is requested outside OAuth 2 mode, too.
NeedsTokenAnyMode == oauth2_access_token = Null

NeedsToken == oauth2_mode /\ oauth2_access_token = Null

TestTokenAgain(t) ==
    /\ At(t, "testAgain")
    /\ Jump(t, IF NeedsToken THEN "request" ELSE "post")

\* Rust: one test, and the token is loaded after it in either case.
TestTokenRust(t) ==
    /\ Rust
    /\ oauth2_mode
    /\ At(t, "test")
    /\ Jump(t, IF NeedsToken THEN "request" ELSE "loadNew")

\* Rust: everything is inside if oauth2_mode; without it the function returns
\* EXIT_SUCCESS and posts nothing.
NothingToPostRust(t) ==
    /\ Rust
    /\ ~ oauth2_mode
    /\ At(t, "test")
    /\ Returned(t, TRUE)
    /\ UNCHANGED accepted

\* set_oauth2_bearer_token_header: load config->oauth2_access_token ...
LoadToken(t) ==
    /\ At(t, "load") \/ At(t, "loadNew")
    /\ pointer' = [pointer EXCEPT ![t] = oauth2_access_token]
    /\ Go(t, IF at[t] = "load" THEN "read" ELSE "readNew")
    /\ UNCHANGED <<fixed, heap, alive, server, header, refused, retried, accepted,
                   result, calls>>

\* ... and print the string it points to.
ReadToken(t) ==
    /\ At(t, "read") \/ At(t, "readNew")
    /\ Rust => pointer[t] # Null
    /\ header' = [header EXCEPT ![t] =
                    IF pointer[t] \in Tokens \ freed THEN pointer[t] ELSE Garbage]
    /\ pointer' = [pointer EXCEPT ![t] = Null]
    /\ Go(t, IF at[t] = "read" THEN "testAgain" ELSE "post")
    /\ UNCHANGED <<fixed, heap, alive, server, refused, retried, accepted, result, calls>>

\* Rust: CStr::from_ptr of a null pointer, and to_str().unwrap() of a block
\* that no longer holds a string.  (C prints "(null)" or what it finds.)
ReadAborts(t) ==
    /\ Rust
    /\ At(t, "readNew")
    /\ pointer[t] \notin Tokens \ freed
    /\ Abort(t)

\* Blocks malloc may hand out.
Unused ==
    Tokens \ ({oauth2_access_token} \cup {pointer[t] : t \in Threads}
                                    \cup {header[t] : t \in Threads})

\* A new token goes into config, over whatever is there by now.  Unused blocks
\* differ in nothing that is not overwritten here, so any of them will do.
RequestOk(t) ==
    /\ At(t, "request")
    /\ Unused # {}
    /\ LET k == CHOOSE k \in Unused : TRUE IN
         /\ oauth2_access_token' = k
         /\ freed' = freed \ {k}
         /\ valid' = valid \cup {k}
         /\ refused' = [u \in Threads |-> refused[u] \ {k}]
    /\ Go(t, "loadNew")
    /\ UNCHANGED <<fixed, alive, expiries, pointer, header, retried, accepted,
                   result, calls>>

\* C: curl_easy_perform fails.  Rust: a status other than 200.
RequestFails(t) ==
    /\ At(t, "request")
    /\ Returned(t, FALSE)
    /\ UNCHANGED accepted

\* C: assert(json_obj), assert(access_token).  Rust: expect, of the same and of
\* send() itself.
RequestAborts(t) ==
    /\ At(t, "request")
    /\ Abort(t)

\* 200 or 201.
PostAccepted(t) ==
    /\ At(t, "post")
    /\ oauth2_mode => header[t] \in valid
    /\ accepted' = [accepted EXCEPT ![t] = "yes"]
    /\ Returned(t, TRUE)

\* Any other status (C outside OAuth 2 mode: 401 and 403, too), and in C an
\* option curl refuses or a request that does not reach the WebHook.
PostFails(t) ==
    /\ At(t, "post")
    /\ Returned(t, FALSE)
    /\ UNCHANGED accepted

\* C: the WebHook takes the event but its answer is not here after the two
\* seconds of CURLOPT_TIMEOUT, or is lost.
PostUnheard(t) ==
    /\ ~ Rust
    /\ At(t, "post")
    /\ oauth2_mode => header[t] \in valid
    /\ accepted' = [accepted EXCEPT ![t] = "unheard"]
    /\ Returned(t, FALSE)

\* Rust: send().expect("WebHook POSTing failed.").
PostAborts(t) ==
    /\ Rust
    /\ At(t, "post")
    /\ Abort(t)

\* Bug variant: an expired token is kept.
AfterRefusalKeep == "test"

\* "Let's reset it and get a new one".
AfterRefusal == IF oauth2_access_token # Null THEN "free" ELSE "test"

\* 401 or 403 in OAuth 2 mode; then the function calls itself.
PostRefused(t) ==
    /\ At(t, "post")
    /\ oauth2_mode
    /\ honours => header[t] \notin valid
    /\ refused' = [refused EXCEPT ![t] = @ \cup ({header[t]} \cap Tokens)]
    /\ retried' = [retried EXCEPT ![t] = TRUE]
    /\ header' = [header EXCEPT ![t] = NoHeader]
    /\ Go(t, AfterRefusal)
    /\ UNCHANGED <<fixed, heap, alive, server, pointer, accepted, result, calls>>

\* free(config->oauth2_access_token) ...
FreeToken(t) ==
    /\ At(t, "free")
    /\ freed' = freed \cup ({oauth2_access_token} \cap Tokens)
    /\ Go(t, "null")
    /\ UNCHANGED <<fixed, oauth2_access_token, alive, server, call>>

\* ... which ends the process when another thread has just freed that block.
FreeAborts(t) ==
    /\ At(t, "free")
    /\ oauth2_access_token \in freed
    /\ Abort(t)

\* ... and config->oauth2_access_token = 0.
NullToken(t) ==
    /\ At(t, "null")
    /\ oauth2_access_token' = Null
    /\ Go(t, "test")
    /\ UNCHANGED <<fixed, freed, alive, server, call>>

\* The authorization server's side: a token lasts a day.
Expire(k) ==
    /\ alive
    /\ k \in valid
    /\ expiries < MaxExpiries
    /\ valid' = valid \ {k}
    /\ expiries' = expiries + 1
    /\ UNCHANGED <<fixed, heap, alive, at, call>>

-----------------------------------------------------------------------------
Step(t) ==
    \/ TestToken(t) \/ TestTokenAgain(t) \/ TestTokenRust(t) \/ NothingToPostRust(t)
    \/ LoadToken(t) \/ ReadToken(t) \/ ReadAborts(t)
    \/ RequestOk(t) \/ RequestFails(t) \/ RequestAborts(t)
    \/ PostAccepted(t) \/ PostFails(t) \/ PostUnheard(t) \/ PostAborts(t) \/ PostRefused(t)
    \/ FreeToken(t) \/ FreeAborts(t) \/ NullToken(t)

Next ==
    \/ \E t \in Threads : Call(t) \/ Step(t)
    \/ \E k \in Tokens : Expire(k)

Spec == Init /\ [][Next]_vars

\* Threads are scheduled, and a request is answered or times out.
FairSpec == Spec /\ \A t \in Threads : WF_vars(Step(t))

-----------------------------------------------------------------------------
(* Safety.                                                                 *)

\* A retry does not send the token that was just refused, whatever the other
\* thread did to config in the meantime.
RetryUsesNewToken ==
    \A t \in Threads : at[t] = "post" => header[t] \notin refused[t]

\* Over any number of retries, json_http_post_bad_actor returns EXIT_SUCCESS
\* exactly when the last request was answered 200 or 201.  EXIT_FAILURE does not
\* say that the event was not taken: the answer may not have come in time.  The
\* Rust function keeps the first half in OAuth 2 mode only, without it nothing is
\* posted; and of a retry that went well it reports the failure before it.
ResultTellsTruth ==
    \A t \in Threads :
        /\ result[t] = "success" /\ (oauth2_mode \/ ~ Rust) => accepted[t] = "yes"
        /\ result[t] = "failure" /\ ~ Rust => accepted[t] # "yes"

-----------------------------------------------------------------------------
(* Liveness, under FairSpec.                                               *)

\* The recursion ends when it can: with a WebHook that honours valid tokens, a
\* call returns if from some time on no other thread is in a call ("Complete
\* within 2 seconds").  Two threads can free each other's tokens for ever.
LoneCallReturns ==
    \A t \in Threads :
        honours /\ <>[](\A u \in Threads \ {t} : at[u] = "idle")
            => []<>(at[t] = "idle" \/ ~ alive)
=============================================================================
