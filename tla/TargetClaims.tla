---------------------------- MODULE TargetClaims ----------------------------
(***************************************************************************)
(* What Unpacker::unpack promises about its targets when several calls run *)
(* in a process: a directory that nobody used is claimed by at most one    *)
(* call, only that call unpacks into it and may succeed, and what a failed *)
(* call claimed is never given to another one.  Unpacker is shown to       *)
(* implement it, though no action of the code is a lock.                   *)
(***************************************************************************)
CONSTANTS Calls, Targets,
          NoCall,   \* the owner of a target that nobody claimed
          Others    \* the owner of a directory that was not empty at first

VARIABLES owner,    \* [Targets -> Calls \union {NoCall, Others}]
          filled,   \* targets whose image is complete
          result    \* [Calls -> {"none", "ok", "error"}]

vars == <<owner, filled, result>>

Init == /\ owner \in [Targets -> {NoCall, Others}]
        /\ filled = {}
        /\ result = [c \in Calls |-> "none"]

Claim(c, t) == /\ result[c] = "none"
               /\ owner[t] = NoCall
               /\ owner' = [owner EXCEPT ![t] = c]
               /\ UNCHANGED <<filled, result>>

Fill(c, t) == /\ result[c] = "none"
              /\ owner[t] = c
              /\ filled' = filled \union {t}
              /\ UNCHANGED <<owner, result>>

Succeed(c, t) == /\ result[c] = "none"
                 /\ owner[t] = c
                 /\ t \in filled
                 /\ result' = [result EXCEPT ![c] = "ok"]
                 /\ UNCHANGED <<owner, filled>>

\* One call fails, or several of them when the process is killed.
Fail(C) == /\ \A c \in C : result[c] = "none"
           /\ result' = [c \in Calls |-> IF c \in C THEN "error" ELSE result[c]]
           /\ UNCHANGED <<owner, filled>>

Next == \/ \E c \in Calls, t \in Targets : Claim(c, t) \/ Fill(c, t) \/ Succeed(c, t)
        \/ \E C \in SUBSET Calls : Fail(C)

Spec == Init /\ [][Next]_vars
=============================================================================
