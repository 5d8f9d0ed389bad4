--------------------------- MODULE RegistryClient ---------------------------
(***************************************************************************)
(* src/http/mod.rs, Client::send: the threads of the pool share one client *)
(* and its token, which is kept in a RwLock.                               *)
(*                                                                         *)
(* A caller announces its request and locks the token for reading.  If     *)
(* there is a token the request is sent with it, under the read lock.  If  *)
(* not, the caller trades the read lock for the write lock and, under it,  *)
(* sends the request with no token, asks for a token if the answer is a    *)
(* challenge, stores the token, releases the lock and starts again.        *)
(*                                                                         *)
(* The answers of the registry and of the token server are external: any   *)
(* answer may come at any time, a token may be refused after it was        *)
(* accepted.  The RwLock has no queue: the policy of std::sync::RwLock is   *)
(* that of the platform.  A RwLock is poisoned if its writer panics.       *)
(***************************************************************************)
EXTENDS Integers, FiniteSets

CONSTANTS Callers,          \* the threads that share the client
          NoCaller,         \* the holder of a free write lock
          MaxSends,         \* bound: the requests of each caller
          HandlerMayPanic   \* an EventHandler may panic

ASSUME CallersAssumption == IsFiniteSet(Callers) /\ NoCaller \notin Callers
ASSUME SendsAssumption   == MaxSends \in Nat
ASSUME HandlerAssumption == HandlerMayPanic \in BOOLEAN

NoToken == 0    \* None; the tokens are 1, 2, ...

\* "challenge" is the error 401 with a WWW-Authenticate header that
\* build_auth_request understands, "refused" is a 401 without it.
Answers == {"ok", "challenge", "refused", "http"}
\* "none" before the first answer; the others come from the token server.
Outcomes == Answers \union {"none", "json", "missing_tokens"}

VARIABLES readers,    \* callers that hold the read lock
          writer,     \* the caller that holds the write lock, or NoCaller
          poisoned,   \* the writer panicked
          token,      \* auth_token
          issued,     \* number of tokens issued so far
          pc,         \* where each caller is
          sent,       \* token in the request that a caller is sending
          left,       \* requests that a caller still has to send
          result,     \* what the last send of a caller returned
          asked       \* history: a caller got a token for the request in hand

lockVars == <<readers, writer, poisoned>>
vars == <<readers, writer, poisoned, token, issued, pc, sent, left, result, asked>>

InCall == {"token_call", "plain_call", "auth_call"}  \* a request is in flight

\* The first requests, for the manifest, are sent before the pool starts.
Init == /\ readers = {}
        /\ writer = NoCaller
        /\ poisoned = FALSE
        /\ token \in {NoToken, 1}
        /\ issued = token
        /\ pc = [c \in Callers |-> "idle"]
        /\ sent = [c \in Callers |-> NoToken]
        /\ left = [c \in Callers |-> MaxSends]
        /\ result = [c \in Callers |-> "none"]
        /\ asked = [c \in Callers |-> FALSE]

Goto(c, to) == pc' = [pc EXCEPT ![c] = to]

\* send returns r, or unwinds, and the guard that c holds is dropped.
Release(c) == /\ readers' = readers \ {c}
              /\ writer' = IF writer = c THEN NoCaller ELSE writer
Return(c, r) == /\ Goto(c, "idle")
                /\ result' = [result EXCEPT ![c] = r]
                /\ sent' = [sent EXCEPT ![c] = NoToken]
                /\ Release(c)
-----------------------------------------------------------------------------
\* Fault: a caller asks for a blob more than it was given.
StartOneMore(c) == /\ pc[c] = "idle"
                   /\ left[c] >= 0
                   /\ left' = [left EXCEPT ![c] = @ - 1]
                   /\ asked' = [asked EXCEPT ![c] = FALSE]
                   /\ Goto(c, "announce")
                   /\ UNCHANGED <<lockVars, token, issued, sent, result>>

\* download_blob calls get, which calls send.
Start(c) == /\ pc[c] = "idle"
            /\ left[c] > 0
            /\ left' = [left EXCEPT ![c] = @ - 1]
            /\ asked' = [asked EXCEPT ![c] = FALSE]
            /\ Goto(c, "announce")
            /\ UNCHANGED <<lockVars, token, issued, sent, result>>

\* registry_request, with no lock.
Announce(c) == /\ pc[c] = "announce"
               /\ \/ Goto(c, "read")
                  \/ HandlerMayPanic /\ Goto(c, "panicked")
               /\ UNCHANGED <<lockVars, token, issued, sent, left, result, asked>>

\* Fault: the read lock is still held when the write lock is requested.
ReadTokenKeepLock(c) ==
    /\ pc[c] = "read"
    /\ writer = NoCaller
    /\ ~poisoned
    /\ readers' = readers \union {c}
    /\ sent' = [sent EXCEPT ![c] = token]
    /\ Goto(c, IF token # NoToken THEN "auth_call" ELSE "write")
    /\ UNCHANGED <<writer, poisoned, token, issued, left, result, asked>>

\* Fault: the token is copied and the read lock released before the request.
ReadTokenCopy(c) ==
    /\ pc[c] = "read"
    /\ writer = NoCaller
    /\ ~poisoned
    /\ sent' = [sent EXCEPT ![c] = token]
    /\ Goto(c, IF token # NoToken THEN "auth_call" ELSE "write")
    /\ UNCHANGED <<lockVars, token, issued, left, result, asked>>

\* read().unwrap(); the guard is kept if there is a token, else it is dropped.
ReadToken(c) ==
    /\ pc[c] = "read"
    /\ writer = NoCaller
    /\ ~poisoned
    /\ IF token # NoToken
          THEN /\ readers' = readers \union {c}
               /\ Goto(c, "auth_call")
          ELSE /\ UNCHANGED readers
               /\ Goto(c, "write")
    /\ sent' = [sent EXCEPT ![c] = token]
    /\ UNCHANGED <<writer, poisoned, token, issued, left, result, asked>>

\* write().unwrap(); the token is not looked at again.
LockToken(c) == /\ pc[c] = "write"
                /\ writer = NoCaller
                /\ readers = {}
                /\ ~poisoned
                /\ writer' = c
                /\ Goto(c, "plain_call")
                /\ UNCHANGED <<readers, poisoned, token, issued, sent, left, result, asked>>

\* unwrap() of a poisoned lock.
MeetPoison(c) == /\ poisoned
                 /\ writer = NoCaller
                 /\ pc[c] = "read" \/ (pc[c] = "write" /\ readers = {})
                 /\ Goto(c, "panicked")
                 /\ UNCHANGED <<lockVars, token, issued, sent, left, result, asked>>

\* The request with the token: its answer is the result, whatever it is, also a
\* challenge.
AuthCall(c) == /\ pc[c] = "auth_call"
               /\ \E a \in Answers : Return(c, a)
               /\ UNCHANGED <<poisoned, token, issued, left, asked>>

\* The request with no token.
PlainCall(c) == /\ pc[c] = "plain_call"
                /\ \/ \E a \in Answers \ {"challenge"} : Return(c, a)
                   \/ /\ Goto(c, "token_call")
                      /\ UNCHANGED <<readers, writer, sent, result>>
                /\ UNCHANGED <<poisoned, token, issued, left, asked>>

\* registry_auth panics under the write lock.
AuthPanic(c) == /\ HandlerMayPanic
                /\ pc[c] = "token_call"
                /\ Goto(c, "panicked")
                /\ Release(c)
                /\ poisoned' = TRUE
                /\ UNCHANGED <<token, issued, sent, left, result, asked>>

\* Fault: a failure of the token server starts the request again.
TokenErrorRetry(c) == /\ pc[c] = "token_call"
                      /\ Goto(c, "announce")
                      /\ Release(c)
                      /\ UNCHANGED <<poisoned, token, issued, sent, left, result, asked>>

\* The token server fails, or its answer has no token.
TokenError(c) == /\ pc[c] = "token_call"
                 /\ \E e \in {"http", "json", "missing_tokens"} : Return(c, e)
                 /\ UNCHANGED <<poisoned, token, issued, left, asked>>

\* The token is stored, the lock released and the request sent again.
StoreToken(c) == /\ pc[c] = "token_call"
                 /\ token' = issued + 1
                 /\ issued' = issued + 1
                 /\ asked' = [asked EXCEPT ![c] = TRUE]
                 /\ Release(c)
                 /\ Goto(c, "announce")
                 /\ UNCHANGED <<poisoned, sent, left, result>>

Step(c) == \/ Announce(c) \/ ReadToken(c) \/ LockToken(c) \/ MeetPoison(c)
           \/ AuthCall(c) \/ PlainCall(c) \/ AuthPanic(c) \/ TokenError(c) \/ StoreToken(c)

Finished == /\ \A c \in Callers : pc[c] = "panicked" \/ (pc[c] = "idle" /\ left[c] = 0)
            /\ UNCHANGED vars

Next == \/ \E c \in Callers : Start(c) \/ Step(c)
        \/ Finished

Spec == Init /\ [][Next]_vars

\* A request is answered sooner or later, and a free lock is given to somebody.
FairSpec == Spec /\ \A c \in Callers : WF_vars(Step(c))
-----------------------------------------------------------------------------
(* Properties. *)

TypeOK == /\ readers \subseteq Callers
          /\ writer \in Callers \union {NoCaller}
          /\ poisoned \in BOOLEAN
          /\ token \in Nat /\ issued \in Nat
          /\ pc \in [Callers -> InCall \union {"idle", "announce", "read", "write", "panicked"}]
          /\ sent \in [Callers -> Nat]
          /\ left \in [Callers -> 0..MaxSends]
          /\ result \in [Callers -> Outcomes]
          /\ asked \in [Callers -> BOOLEAN]

\* A guard is held exactly as long as the request that needs it, on every path
\* out of send: the early returns, the recursive call and a panic.
LockHeldOnlyInCalls ==
    \A c \in Callers : /\ c \in readers <=> pc[c] = "auth_call"
                       /\ c = writer <=> pc[c] \in {"plain_call", "token_call"}
                       /\ c = writer => readers = {}

\* The token of a request is still the token of the client when the answer comes:
\* no caller replaces it while another one is using it.
TokenStableDuringCall == \A c \in Callers : pc[c] = "auth_call" => sent[c] = token

\* Each request gets its answer or the thread panics: nobody waits for a lock
\* that is never released.
SendReturns ==
    \A c \in Callers : pc[c] = "announce" ~> pc[c] \in {"idle", "panicked"}

\* What the comment of send says (http/mod.rs:81): a request that is answered with
\* 401 and a challenge gets a token from the URL in it; it fails with 401 only if
\* it has tried that.  The code takes the 401 for final as soon as the client has
\* any token, which may be an old one.
ChallengeIsFollowed ==
    \A c \in Callers : pc[c] = "idle" /\ result[c] = "challenge" => asked[c]
=============================================================================
