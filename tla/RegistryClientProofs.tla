------------------------ MODULE RegistryClientProofs ------------------------
(***************************************************************************)
(* Proofs about RegistryClient, for any number of threads and requests:    *)
(* the guards of the lock, and the stability of the token in use.          *)
(***************************************************************************)
EXTENDS RegistryClient, TLAPS

USE CallersAssumption, SendsAssumption

IndInv == TypeOK /\ LockHeldOnlyInCalls /\ TokenStableDuringCall
-----------------------------------------------------------------------------
\* Before the first request no lock is held.
LEMMA IndInit == Init => IndInv
<1> SUFFICES ASSUME Init PROVE IndInv
  OBVIOUS
<1> USE DEF Init
<1>1. token \in Nat
  BY DEF NoToken
<1>2. TypeOK
  <2>1. poisoned \in BOOLEAN /\ readers \subseteq Callers /\ writer \in Callers \union {NoCaller}
    OBVIOUS
  <2>2. issued \in Nat /\ sent \in [Callers -> Nat] /\ asked \in [Callers -> BOOLEAN]
    BY <1>1 DEF NoToken
  <2>3. /\ pc \in [Callers -> InCall \union {"idle", "announce", "read", "write", "panicked"}]
        /\ left \in [Callers -> 0..MaxSends]
        /\ result \in [Callers -> Outcomes]
    BY DEF Outcomes
  <2>4. QED
    BY <1>1, <2>1, <2>2, <2>3 DEF TypeOK
<1>3. LockHeldOnlyInCalls
  BY DEF LockHeldOnlyInCalls
<1>4. TokenStableDuringCall
  BY DEF TokenStableDuringCall
<1>5. QED
  BY <1>2, <1>3, <1>4 DEF IndInv

\* Each way out of send drops the guard of the caller.
LEMMA ReturnStep ==
    ASSUME IndInv, NEW c \in Callers, pc[c] \in InCall, NEW r \in Outcomes, Return(c, r),
           UNCHANGED <<poisoned, token, issued, left, asked>>
    PROVE  IndInv'
<1> USE DEF IndInv, TypeOK, Return, Goto, Release, InCall
<1>1. TypeOK'
  BY DEF NoToken
<1>2. LockHeldOnlyInCalls'
  BY DEF LockHeldOnlyInCalls
<1>3. TokenStableDuringCall'
  BY DEF TokenStableDuringCall
<1>4. QED
  BY <1>1, <1>2, <1>3

\* Steps that take no lock and release none.
LEMMA QuietStep ==
    ASSUME IndInv, NEW c \in Callers, Start(c) \/ Announce(c) \/ MeetPoison(c)
    PROVE  IndInv'
<1> USE DEF IndInv, TypeOK, Goto, InCall, lockVars
<1>1. asked' \in [Callers -> BOOLEAN]
  <2>1. asked' = asked \/ asked' = [asked EXCEPT ![c] = FALSE]
    BY DEF Start, Announce, MeetPoison
  <2>2. QED
    BY <2>1
<1>2. left' \in [Callers -> 0..MaxSends]
  BY DEF Start, Announce, MeetPoison
<1>3. pc' \in [Callers -> InCall \union {"idle", "announce", "read", "write", "panicked"}]
  BY DEF Start, Announce, MeetPoison
<1>4. UNCHANGED <<lockVars, token, issued, sent, result>>
  BY DEF Start, Announce, MeetPoison
<1>5. TypeOK'
  BY <1>1, <1>2, <1>3, <1>4
<1>6. LockHeldOnlyInCalls'
  BY DEF LockHeldOnlyInCalls, Start, Announce, MeetPoison
<1>7. TokenStableDuringCall'
  BY DEF TokenStableDuringCall, Start, Announce, MeetPoison
<1>8. QED
  BY <1>5, <1>6, <1>7

\* The read lock is kept with a token, and given back without one.
LEMMA ReadStep ==
    ASSUME IndInv, NEW c \in Callers, ReadToken(c)
    PROVE  IndInv'
<1> USE DEF IndInv, TypeOK, Goto, InCall, ReadToken
<1>1. TypeOK'
  OBVIOUS
<1>2. LockHeldOnlyInCalls'
  BY DEF LockHeldOnlyInCalls
<1>3. TokenStableDuringCall'
  BY DEF TokenStableDuringCall
<1>4. QED
  BY <1>1, <1>2, <1>3

\* The write lock is taken when nobody holds a guard, and kept for the token.
LEMMA WriterStep ==
    ASSUME IndInv, NEW c \in Callers,
           \/ LockToken(c)
           \/ AuthPanic(c)
           \/ /\ pc[c] = "plain_call"
              /\ Goto(c, "token_call")
              /\ UNCHANGED <<readers, writer, sent, result, poisoned, token, issued, left, asked>>
    PROVE  IndInv'
<1> USE DEF IndInv, TypeOK, Goto, Release, InCall, LockToken, AuthPanic
<1>1. TypeOK'
  OBVIOUS
<1>2. LockHeldOnlyInCalls'
  BY DEF LockHeldOnlyInCalls
<1>3. TokenStableDuringCall'
  BY DEF TokenStableDuringCall
<1>4. QED
  BY <1>1, <1>2, <1>3

\* The token is replaced by its writer: no request is using it.
LEMMA StoreStep ==
    ASSUME IndInv, NEW c \in Callers, StoreToken(c)
    PROVE  IndInv'
<1> USE DEF IndInv, TypeOK, Goto, Release, InCall, StoreToken
<1>1. TypeOK'
  OBVIOUS
<1>2. LockHeldOnlyInCalls'
  BY DEF LockHeldOnlyInCalls
<1>3. \A d \in Callers : pc[d] # "auth_call" /\ pc'[d] # "auth_call"
  BY DEF LockHeldOnlyInCalls
<1>4. TokenStableDuringCall'
  BY <1>3 DEF TokenStableDuringCall
<1>5. QED
  BY <1>1, <1>2, <1>4

\* Every action preserves IndInv.
LEMMA IndStep == IndInv /\ [Next]_vars => IndInv'
<1> SUFFICES ASSUME IndInv, [Next]_vars PROVE IndInv'
  OBVIOUS
<1>1. ASSUME NEW c \in Callers, AuthCall(c) \/ PlainCall(c) \/ TokenError(c) PROVE IndInv'
  <2>1. CASE AuthCall(c)
    BY <2>1, ReturnStep DEF AuthCall, InCall, Outcomes
  <2>2. CASE PlainCall(c)
    BY <2>2, ReturnStep, WriterStep DEF PlainCall, InCall, Outcomes
  <2>3. CASE TokenError(c)
    <3>1. PICK e \in {"http", "json", "missing_tokens"} : Return(c, e)
      BY <2>3 DEF TokenError
    <3>2. e \in Outcomes
      BY DEF Outcomes, Answers
    <3>3. pc[c] \in InCall /\ UNCHANGED <<poisoned, token, issued, left, asked>>
      BY <2>3 DEF TokenError, InCall
    <3>4. QED
      BY <3>1, <3>2, <3>3, ReturnStep
  <2>4. QED
    BY <1>1, <2>1, <2>2, <2>3
<1>2. ASSUME NEW c \in Callers, Start(c) \/ Step(c) PROVE IndInv'
  BY <1>1, <1>2, QuietStep, ReadStep, WriterStep, StoreStep DEF Step
<1>3. CASE UNCHANGED vars
  BY <1>3 DEF IndInv, TypeOK, LockHeldOnlyInCalls, TokenStableDuringCall, vars,
              lockVars
<1>4. QED
  BY <1>2, <1>3 DEF Next, Finished

\* The variables stay in their types.
THEOREM TypeCorrect == Spec => []TypeOK
<1>1. IndInv => TypeOK
  BY DEF IndInv
<1>2. QED
  BY <1>1, IndInit, IndStep, PTL DEF Spec

\* A guard lives exactly as long as the request it is for: no path out of send
\* leaves the lock held, and the recursive call starts with none.
THEOREM GuardsFollowCalls == Spec => []LockHeldOnlyInCalls
<1>1. IndInv => LockHeldOnlyInCalls
  BY DEF IndInv
<1>2. QED
  BY <1>1, IndInit, IndStep, PTL DEF Spec

\* The token is not replaced while a request is using it.
THEOREM TokenIsStable == Spec => []TokenStableDuringCall
<1>1. IndInv => TokenStableDuringCall
  BY DEF IndInv
<1>2. QED
  BY <1>1, IndInit, IndStep, PTL DEF Spec
=============================================================================
