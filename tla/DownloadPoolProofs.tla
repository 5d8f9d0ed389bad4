-------------------------- MODULE DownloadPoolProofs --------------------------
(***************************************************************************)
(* Proofs about DownloadPool, for any number of layers and any pool: its   *)
(* type invariant, the inductive invariant IndInv, the safety properties   *)
(* that follow from it, and the implementation of ImageUnpack.             *)
(***************************************************************************)
EXTENDS DownloadPool, TLAPS, SequenceTheorems

USE NumLayersAssumption
-----------------------------------------------------------------------------
(* Type correctness. *)

\* What a pop does to the queue.
LEMMA PopFront ==
    ASSUME pending \in Seq(Tasks), pending # <<>>
    PROVE  /\ Head(pending) \in Tasks
           /\ Head(pending) = pending[1]
           /\ Len(pending) \in Nat \ {0}
           /\ Tail(pending) \in Seq(Tasks)
           /\ Len(Tail(pending)) = Len(pending) - 1
           /\ \A i \in 1..Len(Tail(pending)) : Tail(pending)[i] = pending[i + 1]
<1>1. Len(pending) \in Nat \ {0}
  BY EmptySeq
<1>2. QED
  BY <1>1, HeadTailProperties

\* Only a worker inside run_download calls complete, with one of its results.
LEMMA WorkerCases ==
    ASSUME NEW w \in Workers, WorkerStep(w) \/ WorkerPanic(w)
    PROVE  \/ TakeTask(w)
           \/ Retire(w)
           \/ wpc[w] \in Busy /\ \E p \in Busy \union {"panicked"} : Advance(w, p)
           \/ wpc[w] \in Busy /\ \E r \in Results \ {"interrupted"} : Complete(w, r)
           \/ wpc[w] \in Busy /\ ~alive /\ Complete(w, "interrupted")
<1>1. CASE TakeTask(w) \/ Retire(w)
  BY <1>1
<1>2. CASE Request(w)
  BY <1>2 DEF Request, Busy, Results, Errors
<1>3. CASE Create(w)
  BY <1>3 DEF Create, Busy, Results, Errors
<1>4. CASE CheckAlive(w)
  BY <1>4 DEF CheckAlive, Busy, Results, Errors
<1>5. CASE ReadChunk(w) \/ ReadEof(w) \/ ReadError(w)
  BY <1>5 DEF ReadChunk, ReadEof, ReadError, Busy, Results, Errors
<1>6. CASE WorkerPanic(w)
  BY <1>6 DEF WorkerPanic, Busy
<1>7. QED
  BY <1>1, <1>2, <1>3, <1>4, <1>5, <1>6 DEF WorkerStep

\* The queue starts with every task.
LEMMA InitQueue ==
    ASSUME Init
    PROVE  /\ pending \in Seq(Tasks)
           /\ Len(pending) = NumLayers + 1
           /\ \A i \in 1..Len(pending) : pending[i] = i - 1
<1>1. \A i \in 1..NumLayers + 1 : i - 1 \in Tasks
  BY DEF Tasks
<1>2. QED
  BY <1>1, IsASeq DEF Init

\* What makes the types inductive: a worker holds a task exactly while it runs one.
TypeInv == TypeOK /\ HolderInv /\ (mpc = "unpack" => next \in Tasks)

\* The types hold before the call starts.
LEMMA TypeInit == Init => TypeInv
BY InitQueue DEF Init, TypeInv, TypeOK, HolderInv, Tasks, NoTask, Busy, Stopped

\* Every action of a worker or of main keeps the types.
LEMMA TypeStep == TypeInv /\ [Next]_vars => TypeInv'
<1> SUFFICES ASSUME TypeInv, [Next]_vars PROVE TypeInv'
  OBVIOUS
<1> USE DEF TypeInv, TypeOK, HolderInv, Results, Errors, Busy, Stopped, mainVars, workerVars
<1> NoTask \notin Tasks
  BY DEF NoTask, Tasks
<1>1. ASSUME NEW w \in Workers, TakeTask(w) PROVE TypeInv'
  BY <1>1, PopFront DEF TakeTask
<1>2. ASSUME NEW w \in Workers, Retire(w) PROVE TypeInv'
  BY <1>2 DEF Retire
<1>3. ASSUME NEW w \in Workers, wpc[w] \in Busy, NEW r \in Results, Complete(w, r)
      PROVE  TypeInv'
  <2>1. job[w] \in Tasks
    BY <1>3
  <2>2. QED
    BY <1>3, <2>1 DEF Complete
<1>4. ASSUME NEW w \in Workers, wpc[w] \in Busy, NEW p \in Busy \union {"panicked"},
             Advance(w, p)
      PROVE  TypeInv'
  BY <1>4 DEF Advance
<1>5. ASSUME NEW w \in Workers, WorkerStep(w) \/ WorkerPanic(w) PROVE TypeInv'
  BY <1>1, <1>2, <1>3, <1>4, <1>5, WorkerCases
<1>6. CASE Open
  BY <1>6 DEF Open
<1>7. ASSUME NEW w \in Workers, Spawn(w) PROVE TypeInv'
  BY <1>7 DEF Spawn
<1>8. CASE OpenRootfs
  BY <1>8 DEF OpenRootfs, LeaveScope
<1>9. CASE Get
  BY <1>9 DEF Get, LeaveScope
<1>10. CASE Park \/ SpuriousWakeup \/ DropTracker
  BY <1>10 DEF Park, SpuriousWakeup, DropTracker
<1>11. CASE Unpack
  <2>1. next \in Tasks /\ next + 1 \in Tasks \union {NoTask}
    BY <1>11 DEF Unpack, Tasks, NoTask
  <2>2. QED
    BY <1>11, <2>1 DEF Unpack, LeaveScope
<1>12. CASE ApplyMetadata \/ Join
  BY <1>12 DEF ApplyMetadata, Join, LeaveScope
<1>13. CASE MainPanic
  BY <1>13 DEF MainPanic, LeaveScope
<1>14. CASE UNCHANGED vars
  BY <1>14 DEF vars
<1>15. QED
  BY <1>5, <1>6, <1>7, <1>8, <1>9, <1>10, <1>11, <1>12, <1>13, <1>14
     DEF Next, MainStep, Terminated

\* The variables stay in their types: in particular next never runs past the
\* last task, and only tasks of the image are downloaded.
THEOREM TypeCorrect == Spec => []TypeOK
<1>1. TypeInv => TypeOK
  BY DEF TypeInv
<1>2. QED
  BY <1>1, TypeInit, TypeStep, PTL DEF Spec
-----------------------------------------------------------------------------
(* The inductive invariant. *)

\* The invariant without the two conjuncts that TypeStep preserves.
FlowInv == QueueInv /\ OneHolderInv /\ PlaceInv /\ PhaseInv /\ PoolInv

\* TypeInv repeats facts of IndInv, so each follows from the other and FlowInv.
LEMMA IndInvParts == IndInv <=> TypeInv /\ FlowInv
BY DEF IndInv, TypeInv, FlowInv, PhaseInv

\* Before the call starts every task is queued and main has consumed none.
LEMMA IndInit == Init => IndInv
<1> SUFFICES ASSUME Init PROVE IndInv
  OBVIOUS
<1> USE InitQueue DEF Init, Tasks, NoTask
<1>1. TypeInv
  BY TypeInit
<1>2. QueueInv
  BY DEF QueueInv
<1>3. OneHolderInv
  BY DEF OneHolderInv
<1>4. PlaceInv
  BY DEF PlaceInv, NotPopped, Taken, Consumed, Awaited
<1>5. PhaseInv
  BY DEF PhaseInv, InScope, Stopped
<1>6. PoolInv
  BY DEF PoolInv
<1>7. QED
  BY <1>1, <1>2, <1>3, <1>4, <1>5, <1>6, IndInvParts DEF FlowInv

\* The worker that pops a task is its only holder from then on.
LEMMA TakeStep ==
    ASSUME IndInv, NEW w \in Workers, TakeTask(w)
    PROVE  FlowInv'
<1> USE DEF IndInv, TypeOK, TakeTask, mainVars
<1> DEFINE t0 == Head(pending)
<1>1. /\ t0 \in Tasks
      /\ t0 = pending[1]
      /\ Len(pending) \in Nat \ {0}
      /\ pending' = Tail(pending)
      /\ Len(pending') = Len(pending) - 1
      /\ \A i \in 1..Len(pending') : pending'[i] = pending[i + 1]
  BY PopFront
<1>2. t0 = NumLayers + 1 - Len(pending)
  BY <1>1 DEF QueueInv
<1>3. job' = [job EXCEPT ![w] = t0] /\ job[w] = NoTask /\ t0 # NoTask
  BY <1>1, <1>2 DEF HolderInv, NoTask
<1>4. NotPopped(t0) /\ \A t \in Tasks : NotPopped(t)' <=> NotPopped(t) /\ t # t0
  BY <1>1, <1>2 DEF NotPopped, Tasks
<1>5. \A t \in Tasks : Taken(t)' <=> Taken(t) \/ t = t0
  BY <1>3 DEF Taken, Tasks, NoTask
<1>6. QueueInv'
  BY <1>1 DEF QueueInv
<1>7. OneHolderInv'
  BY <1>3, <1>4, <1>1 DEF OneHolderInv, PlaceInv, Taken
<1>8. PlaceInv'
  BY <1>1, <1>4, <1>5 DEF PlaceInv, Consumed, Awaited
<1>9. PhaseInv'
  BY DEF PhaseInv, Stopped
<1>10. PoolInv'
  BY DEF PoolInv
<1>11. QED
  BY <1>6, <1>7, <1>8, <1>9, <1>10 DEF FlowInv

\* A result goes to a slot that is empty and that main has not passed.
LEMMA CompleteStep ==
    ASSUME IndInv, NEW w \in Workers, NEW r \in Results, wpc[w] \in Busy,
           r = "interrupted" => ~alive, Complete(w, r)
    PROVE  FlowInv'
<1> USE DEF IndInv, TypeOK, Complete
<1> DEFINE t0 == job[w]
<1>1. t0 \in Tasks /\ t0 # NoTask
  BY DEF HolderInv, Busy
<1>2. Taken(t0) /\ \A v \in Workers : job[v] = t0 => v = w
  BY <1>1 DEF OneHolderInv, Taken
<1>3. \A t \in Tasks : Taken(t)' <=> Taken(t) /\ t # t0
  BY <1>1, <1>2 DEF Taken, Tasks, NoTask
<1>4. \A t \in Tasks : /\ NotPopped(t)' <=> NotPopped(t)
                       /\ Consumed(t)' <=> Consumed(t)
                       /\ Awaited(t)' <=> Awaited(t)
  BY DEF NotPopped, Consumed, Awaited, InScope
<1>5. /\ slot'[t0] = r
      /\ r # "none"
      /\ r = "file" => t0 \in downloaded'
      /\ \A t \in Tasks \ {t0} : slot'[t] = slot[t]
      /\ downloaded \subseteq downloaded'
  BY <1>1 DEF Results, Errors
<1>6. QueueInv'
  BY DEF QueueInv
<1>7. OneHolderInv'
  BY <1>1 DEF OneHolderInv
<1>8. PlaceInv'
  <2>1. \A t \in Tasks : NotPopped(t)' => ~Taken(t)' /\ slot'[t] = "none" /\ ~Consumed(t)'
    BY <1>2, <1>3, <1>4, <1>5 DEF PlaceInv
  <2>2. \A t \in Tasks : Taken(t)' => slot'[t] = "none" /\ ~Consumed(t)'
    BY <1>3, <1>4, <1>5 DEF PlaceInv
  <2>3. \A t \in Tasks : Consumed(t)' => slot'[t] = "none" /\ t \in downloaded'
    BY <1>1, <1>2, <1>4, <1>5 DEF PlaceInv
  <2>4. \A t \in Tasks : slot'[t] = "file" => t \in downloaded'
    BY <1>5 DEF PlaceInv
  <2>5. \A t \in Tasks : Awaited(t)' => NotPopped(t)' \/ Taken(t)' \/ slot'[t] # "none"
    BY <1>3, <1>4, <1>5 DEF PlaceInv
  <2>6. mpc' = "parked" => slot'[next'] = "none"
    BY <1>5 DEF PlaceInv, PhaseInv
  <2>7. QED
    BY <2>1, <2>2, <2>3, <2>4, <2>5, <2>6 DEF PlaceInv
<1>9. PhaseInv'
  BY <1>1, <1>5 DEF PhaseInv, InScope, Stopped, Busy
<1>10. PoolInv'
  BY DEF PoolInv
<1>11. QED
  BY <1>6, <1>7, <1>8, <1>9, <1>10 DEF FlowInv

\* A worker that only moves changes nothing else.
LEMMA MoveStep ==
    ASSUME IndInv, NEW w \in Workers,
           \/ Retire(w)
           \/ wpc[w] \in Busy /\ \E p \in Busy \union {"panicked"} : Advance(w, p)
    PROVE  FlowInv'
<1> USE DEF IndInv, TypeOK, Retire, Advance, mainVars
<1>1. UNCHANGED <<pending, slot, alive, umask, job, mpc, next, outcome, downloaded>>
  OBVIOUS
<1>2. mpc \notin {"open", "returned"}
  BY DEF PhaseInv, Stopped, Busy
<1>3. QueueInv' /\ OneHolderInv'
  BY <1>1 DEF QueueInv, OneHolderInv
<1>4. PlaceInv'
  BY <1>1 DEF PlaceInv, NotPopped, Taken, Consumed, Awaited
<1>5. PhaseInv'
  BY <1>1, <1>2 DEF PhaseInv
<1>6. PoolInv'
  BY <1>1 DEF PoolInv, Busy
<1>7. QED
  BY <1>3, <1>4, <1>5, <1>6 DEF FlowInv

\* Steps of main that touch neither a slot, nor next, nor the threads.
LEMMA MainQuietStep ==
    ASSUME IndInv,
           \/ Open \/ OpenRootfs \/ Park \/ SpuriousWakeup
           \/ DropTracker \/ ApplyMetadata \/ Join \/ MainPanic
    PROVE  FlowInv'
<1> USE DEF IndInv, TypeOK, LeaveScope, workerVars
<1>1. UNCHANGED <<pending, slot, workerVars, next, downloaded>>
  BY DEF Open, OpenRootfs, Park, SpuriousWakeup, DropTracker, ApplyMetadata, Join, MainPanic
<1>2. \A t \in Tasks : /\ NotPopped(t)' <=> NotPopped(t)
                       /\ Taken(t)' <=> Taken(t)
  BY <1>1 DEF NotPopped, Taken
<1>3. \A t \in Tasks : /\ Consumed(t)' => Consumed(t)
                       /\ Awaited(t)' => Awaited(t)
  BY <1>1 DEF Consumed, Awaited, InScope, Open, OpenRootfs, Park, SpuriousWakeup,
              DropTracker, ApplyMetadata, Join, MainPanic
<1>4. mpc' = "parked" => next \in Tasks /\ slot[next] = "none"
  BY DEF Open, OpenRootfs, Park, SpuriousWakeup, DropTracker, ApplyMetadata, Join, MainPanic
<1>5. QueueInv' /\ OneHolderInv'
  BY <1>1 DEF QueueInv, OneHolderInv
<1>6. PlaceInv'
  BY <1>1, <1>2, <1>3, <1>4 DEF PlaceInv
<1>7. PhaseInv'
  <2>1. CASE Open
    BY <2>1 DEF PhaseInv, InScope, Open, Errors
  <2>2. CASE OpenRootfs \/ Park \/ SpuriousWakeup
    BY <2>2 DEF PhaseInv, InScope, OpenRootfs, Park, SpuriousWakeup
  <2>3. CASE DropTracker \/ ApplyMetadata
    BY <2>3 DEF PhaseInv, InScope, DropTracker, ApplyMetadata
  <2>4. CASE Join
    BY <2>4 DEF PhaseInv, InScope, Join
  <2>5. CASE MainPanic
    BY <2>5 DEF PhaseInv, InScope, MainPanic
  <2>6. QED
    BY <2>1, <2>2, <2>3, <2>4, <2>5
<1>8. PoolInv'
  BY <1>1 DEF PoolInv, Open, OpenRootfs, Park, SpuriousWakeup, DropTracker, ApplyMetadata,
              Join, MainPanic
<1>9. QED
  BY <1>5, <1>6, <1>7, <1>8 DEF FlowInv

\* Main takes a result: the slot is empty again and the task is consumed, or
\* main leaves the scope and awaits nothing any more.
LEMMA GetStep ==
    ASSUME IndInv, Get
    PROVE  FlowInv'
<1> USE DEF IndInv, TypeOK, Get, LeaveScope, workerVars
<1>1. /\ next \in Tasks /\ slot[next] # "none" /\ slot'[next] = "none"
      /\ \A t \in Tasks \ {next} : slot'[t] = slot[t]
  OBVIOUS
<1>2. \A t \in Tasks : /\ NotPopped(t)' <=> NotPopped(t)
                       /\ Taken(t)' <=> Taken(t)
                       /\ ~NotPopped(next) /\ ~Taken(next)
  BY <1>1 DEF NotPopped, Taken, PlaceInv
<1>3. \A t \in Tasks : /\ Consumed(t)' => Consumed(t) \/ (t = next /\ slot[next] = "file")
                       /\ Awaited(t)' => Awaited(t) /\ t # next
  BY <1>1 DEF Consumed, Awaited, InScope, Tasks
<1>4. QueueInv' /\ OneHolderInv'
  BY DEF QueueInv, OneHolderInv
<1>5. PlaceInv'
  BY <1>1, <1>2, <1>3 DEF PlaceInv
<1>6. PhaseInv'
  <2>1. slot[next] \in {"file", "http", "io", "content_type"}
    BY <1>1 DEF PhaseInv, InScope, Results, Errors
  <2>2. QED
    BY <1>1, <2>1 DEF PhaseInv, InScope
<1>7. PoolInv'
  BY DEF PoolInv
<1>8. QED
  BY <1>4, <1>5, <1>6, <1>7 DEF FlowInv

\* A task is consumed while it is unpacked, and stays so when main goes on.
LEMMA UnpackStep ==
    ASSUME IndInv, Unpack
    PROVE  FlowInv'
<1> USE DEF IndInv, TypeOK, Unpack, LeaveScope, workerVars
<1>1. next \in Tasks
  BY DEF PhaseInv
<1>2. \A t \in Tasks : /\ NotPopped(t)' <=> NotPopped(t)
                       /\ Taken(t)' <=> Taken(t)
                       /\ Consumed(t)' => Consumed(t)
                       /\ Awaited(t)' => Awaited(t)
  BY <1>1 DEF NotPopped, Taken, Consumed, Awaited, InScope, Tasks
<1>3. QueueInv' /\ OneHolderInv'
  BY DEF QueueInv, OneHolderInv
<1>4. PlaceInv'
  BY <1>2 DEF PlaceInv
<1>5. PhaseInv'
  BY <1>1 DEF PhaseInv, InScope
<1>6. PoolInv'
  BY DEF PoolInv
<1>7. QED
  BY <1>3, <1>4, <1>5, <1>6 DEF FlowInv

\* A thread that starts holds no task.
LEMMA SpawnStep ==
    ASSUME IndInv, NEW w \in Workers, Spawn(w)
    PROVE  FlowInv'
<1> USE DEF IndInv, TypeOK, Spawn, mainVars
<1>1. QueueInv' /\ OneHolderInv'
  BY DEF QueueInv, OneHolderInv
<1>2. PlaceInv'
  BY DEF PlaceInv, NotPopped, Taken, Consumed, Awaited
<1>3. PhaseInv'
  BY DEF PhaseInv
<1>4. PoolInv'
  BY DEF PoolInv
<1>5. QED
  BY <1>1, <1>2, <1>3, <1>4 DEF FlowInv

\* FlowInv depends on the variables only.
LEMMA FlowStutter ==
    ASSUME IndInv, UNCHANGED vars
    PROVE  FlowInv'
BY DEF IndInv, FlowInv, vars, workerVars, mainVars, QueueInv, OneHolderInv, PlaceInv,
       PhaseInv, PoolInv, NotPopped, Taken, Consumed, Awaited

\* Every action of Next preserves IndInv.
LEMMA IndStep == IndInv /\ [Next]_vars => IndInv'
<1> SUFFICES ASSUME IndInv, [Next]_vars PROVE IndInv'
  OBVIOUS
<1>1. TypeInv'
  BY TypeStep, IndInvParts
<1> SUFFICES FlowInv'
  BY <1>1 DEF IndInv, TypeInv, FlowInv
<1>2. ASSUME NEW w \in Workers, WorkerStep(w) \/ WorkerPanic(w) PROVE FlowInv'
  <2>1. CASE TakeTask(w)
    BY <2>1, TakeStep
  <2>2. CASE \/ Retire(w)
             \/ wpc[w] \in Busy /\ \E p \in Busy \union {"panicked"} : Advance(w, p)
    BY <2>2, MoveStep
  <2>3. ASSUME wpc[w] \in Busy, NEW r \in Results, r = "interrupted" => ~alive,
               Complete(w, r)
        PROVE  FlowInv'
    BY <2>3, CompleteStep
  <2>4. "interrupted" \in Results
    BY DEF Results, Errors
  <2>5. QED
    BY <1>2, <2>1, <2>2, <2>3, <2>4, WorkerCases
<1>3. CASE MainStep
  BY <1>3, MainQuietStep, GetStep, UnpackStep, SpawnStep DEF MainStep
<1>4. CASE SpuriousWakeup \/ MainPanic
  BY <1>4, MainQuietStep
<1>5. CASE UNCHANGED vars
  BY <1>5, FlowStutter
<1>6. QED
  BY <1>2, <1>3, <1>4, <1>5 DEF Next, Terminated

\* Every reachable state satisfies IndInv: the queue is a suffix of the list of
\* tasks, and each task moves once from it to a worker, to its slot and to main.
THEOREM Inductive == Spec => []IndInv
BY IndInit, IndStep, PTL DEF Spec
-----------------------------------------------------------------------------
(* Safety. *)

\* Because the queue is a suffix of the tasks, its length tells what is in it.
LEMMA QueuedIsNotPopped ==
    ASSUME TypeOK, QueueInv, NEW t \in Tasks
    PROVE  Queued(t) <=> NotPopped(t)
<1>1. Len(pending) \in Nat /\ DOMAIN pending = 1..Len(pending)
  BY LenProperties DEF TypeOK
<1>2. ASSUME Queued(t) PROVE NotPopped(t)
  BY <1>1, <1>2 DEF Queued, NotPopped, QueueInv, Tasks
<1>3. ASSUME NotPopped(t) PROVE Queued(t)
  <2>1. t + Len(pending) - NumLayers \in 1..Len(pending)
    BY <1>1, <1>3 DEF NotPopped, Tasks
  <2>2. pending[t + Len(pending) - NumLayers] = t
    BY <1>1, <2>1 DEF QueueInv, Tasks
  <2>3. QED
    BY <1>1, <2>1, <2>2 DEF Queued
<1>4. QED
  BY <1>2, <1>3

\* No task is run twice and no result is lost: a task is in the queue, with one
\* worker, in its slot or behind main.
THEOREM OnePlace == Spec => []TaskInOnePlace
<1>1. ASSUME IndInv PROVE TaskInOnePlace
  <2> USE <1>1 DEF IndInv, TypeOK
  <2>1. \A t \in Tasks : Queued(t) => ~Taken(t)
    BY QueuedIsNotPopped DEF PlaceInv
  <2>2. \A t \in Tasks : Queued(t) \/ Taken(t) => slot[t] = "none" /\ ~Consumed(t)
    BY QueuedIsNotPopped DEF PlaceInv
  <2>3. \A t \in Tasks : ~Consumed(t) => next <= t
    BY DEF Consumed, Tasks, NoTask
  <2>4. \A t \in Tasks : t # NoTask
    BY DEF Tasks, NoTask
  <2>5. QED
    BY <2>1, <2>2, <2>3, <2>4 DEF TaskInOnePlace, OneHolderInv
<1>2. QED
  BY <1>1, Inductive, PTL

\* A worker that took a task and still has it is running or has panicked.
LEMMA TakenIsComingOrLost ==
    ASSUME TypeOK, HolderInv, NEW t \in Tasks, Taken(t)
    PROVE  Coming(t) \/ Lost(t)
<1>1. PICK w \in Workers : job[w] = t
  BY DEF Taken
<1>2. job[w] # NoTask
  BY <1>1 DEF Tasks, NoTask
<1>3. wpc[w] \in Busy \/ wpc[w] = "panicked"
  BY <1>2 DEF TypeOK, HolderInv, Stopped
<1>4. QED
  BY <1>1, <1>3 DEF Coming, Held, Lost, Running, Panicked

\* A queue that is not empty has workers to pop it, unless all have panicked.
LEMMA QueuedIsComingOrLost ==
    ASSUME TypeOK, PoolInv, mpc = "parked", NEW t \in Tasks, Queued(t)
    PROVE  Coming(t) \/ Lost(t)
<1>1. pending # <<>>
  BY DEF Queued
<1>2. \A w \in Workers : Running(w) \/ Panicked(w)
  BY <1>1 DEF TypeOK, PoolInv, Running, Panicked, Stopped
<1>3. QED
  BY <1>2 DEF Coming, Lost

\* The condition variable of a task loses no wakeup: when main is parked on it,
\* its result is not there yet, and it is with a worker that runs, or will be
\* popped by one, or panics have lost it.
THEOREM NoLostWakeup == Spec => []WaitedTaskIsComing
<1>1. ASSUME IndInv PROVE WaitedTaskIsComing
  <2> USE <1>1 DEF IndInv
  <2> SUFFICES ASSUME mpc = "parked"
               PROVE  slot[next] = "none" /\ (Coming(next) \/ Lost(next))
    BY DEF WaitedTaskIsComing
  <2>1. next \in Tasks /\ slot[next] = "none"
    BY DEF PhaseInv, PlaceInv
  <2>2. Awaited(next)
    BY DEF Awaited, InScope
  <2>3. Queued(next) \/ Taken(next)
    BY <2>1, <2>2, QueuedIsNotPopped DEF PlaceInv
  <2>4. QED
    BY <2>1, <2>3, TakenIsComingOrLost, QueuedIsComingOrLost
<1>2. QED
  BY <1>1, Inductive, PTL

\* A lost task is not in its slot.
LEMMA LostIsAbsent ==
    ASSUME IndInv, NEW t \in Tasks, Lost(t)
    PROVE  slot[t] = "none"
<1>1. Queued(t) \/ Taken(t)
  BY DEF Lost, Taken
<1>2. QED
  BY <1>1, QueuedIsNotPopped DEF IndInv, PlaceInv

\* What a worker lost stays lost, whatever the other workers do.
LEMMA LostStays ==
    ASSUME IndInv, NEW t \in Tasks, Lost(t), NEW w \in Workers,
           WorkerStep(w) \/ WorkerPanic(w)
    PROVE  Lost(t)' /\ next' = next /\ (t = next => mpc' = mpc)
<1>1. ~Panicked(w)
  BY WorkerCases DEF TakeTask, Retire, Busy, Panicked
<1>2. \A v \in Workers \ {w} : wpc'[v] = wpc[v] /\ job'[v] = job[v]
  BY WorkerCases DEF TakeTask, Retire, Advance, Complete, IndInv, TypeOK
<1>3. PICK v \in Workers : Panicked(v) /\ job[v] = t
  BY <1>1 DEF Lost
<1>4. v # w /\ Lost(t)'
  BY <1>1, <1>2, <1>3 DEF Lost, Panicked
<1>5. job[w] # t
  BY <1>3, <1>4 DEF IndInv, OneHolderInv, Tasks, NoTask
<1>6. next' = next /\ (t = next => mpc' = mpc)
  BY <1>5, WorkerCases DEF TakeTask, Retire, Advance, Complete, mainVars
<1>7. QED
  BY <1>4, <1>6

\* After a panic in a worker nothing wakes main for good from the wait for the
\* task that the worker had.
THEOREM NothingEndsTheWait == Spec => PanicIsFinal
<1>1. ASSUME IndInv, Stuck, [Next]_vars PROVE Stuck'
  <2>1. mpc \in {"get", "parked"} /\ next \in Tasks /\ Lost(next) /\ slot[next] = "none"
    BY <1>1, LostIsAbsent DEF Stuck
  <2>2. ASSUME NEW w \in Workers, WorkerStep(w) \/ WorkerPanic(w) PROVE Stuck'
    <3>1. Lost(next)' /\ next' = next /\ mpc' = mpc
      BY <1>1, <2>1, <2>2, LostStays
    <3>2. QED
      BY <2>1, <3>1 DEF Stuck, Lost, Queued, Panicked
  <2>3. CASE Park \/ SpuriousWakeup \/ UNCHANGED vars
    BY <2>1, <2>3 DEF Park, SpuriousWakeup, vars, workerVars, mainVars, Stuck, Lost, Queued,
                      Panicked
  <2>4. ~(\/ Open \/ OpenRootfs \/ Get \/ Unpack \/ DropTracker \/ ApplyMetadata \/ Join
          \/ MainPanic \/ \E w \in Workers : Spawn(w))
    BY <2>1 DEF Open, OpenRootfs, Get, Unpack, DropTracker, ApplyMetadata, Join, MainPanic,
                Spawn, Tasks, NoTask
  <2>5. QED
    BY <1>1, <2>2, <2>3, <2>4 DEF Next, MainStep, Terminated
<1>2. QED
  BY <1>1, Inductive, PTL DEF Spec, PanicIsFinal

\* unpack never returns Interrupted, the error of a cancelled worker.
THEOREM NeverInterrupted == Spec => []InterruptedStaysInside
<1>1. IndInv => InterruptedStaysInside
  BY DEF IndInv, PhaseInv, InterruptedStaysInside
<1>2. QED
  BY <1>1, Inductive, PTL

\* UmaskGuard outlives every thread and every step that creates files.
THEOREM UmaskCleared == Spec => []UmaskCoversScope
<1>1. IndInv => UmaskCoversScope
  BY DEF IndInv, TypeOK, PhaseInv, UmaskCoversScope
<1>2. QED
  BY <1>1, Inductive, PTL

\* A call that returns Ok downloaded and unpacked every blob, whatever threads
\* panicked or were slow.
THEOREM SuccessIsComplete == Spec => []SuccessMeansEverything
<1>1. ASSUME IndInv, outcome = "ok"
      PROVE  /\ next = NoTask /\ downloaded = Tasks /\ pending = <<>>
             /\ \A w \in Workers : job[w] = NoTask
  <2> USE <1>1 DEF IndInv, TypeOK
  <2>1. next = NoTask /\ \A t \in Tasks : Consumed(t)
    BY DEF PhaseInv, Consumed, Tasks, NoTask
  <2>2. \A t \in Tasks : t \in downloaded /\ ~NotPopped(t) /\ ~Taken(t)
    BY <2>1 DEF PlaceInv
  <2>3. Len(pending) = 0
    BY <2>2, LenProperties DEF NotPopped, Tasks
  <2>4. QED
    BY <2>1, <2>2, <2>3, EmptySeq DEF Taken
<1>2. IndInv => SuccessMeansEverything
  BY <1>1 DEF SuccessMeansEverything
<1>3. QED
  BY <1>2, Inductive, PTL
-----------------------------------------------------------------------------
(* Refinement. *)

\* At first nothing is fetched, applied or returned.
LEMMA PromiseInit == Init => Promise!Init
BY DEF Init, Promise!Init

\* A worker fetches when it completes with a file, main applies when it goes to
\* the next task, and the call returns when the scope is left.
LEMMA PromiseStep == IndInv /\ [Next]_vars => [Promise!Next]_Promise!vars
<1> SUFFICES ASSUME IndInv, [Next]_vars PROVE Promise!Next \/ UNCHANGED Promise!vars
  BY DEF Promise!vars
<1> USE DEF IndInv, TypeOK, Promise!vars, workerVars, mainVars, LeaveScope
<1>1. ASSUME NEW w \in Workers, NEW r \in Results, wpc[w] \in Busy, Complete(w, r)
      PROVE  Promise!Next \/ UNCHANGED Promise!vars
  <2>1. job[w] \in Promise!Tasks
    BY <1>1 DEF HolderInv, Busy, Promise!Tasks, Tasks
  <2>2. mpc # "returned" /\ mpc' # "returned" /\ next' = next
    BY <1>1 DEF Complete, PhaseInv, Busy, Stopped
  <2>3. CASE r = "file"
    BY <1>1, <2>1, <2>2, <2>3 DEF Complete, Promise!Next, Promise!Fetch
  <2>4. CASE r # "file"
    BY <1>1, <2>2, <2>4 DEF Complete
  <2>5. QED
    BY <2>3, <2>4
<1>2. ASSUME NEW w \in Workers, WorkerStep(w) \/ WorkerPanic(w)
      PROVE  Promise!Next \/ UNCHANGED Promise!vars
  <2>1. "interrupted" \in Results
    BY DEF Results, Errors
  <2>2. CASE TakeTask(w) \/ Retire(w) \/ \E p \in Busy \union {"panicked"} : Advance(w, p)
    BY <2>2 DEF TakeTask, Retire, Advance
  <2>3. QED
    BY <1>1, <1>2, <2>1, <2>2, WorkerCases
<1>3. CASE \/ OpenRootfs \/ Get \/ Park \/ SpuriousWakeup \/ DropTracker \/ ApplyMetadata
           \/ \E w \in Workers : Spawn(w)
  BY <1>3 DEF OpenRootfs, Get, Park, SpuriousWakeup, DropTracker, ApplyMetadata, Spawn
<1>4. CASE Open
  BY <1>4 DEF Open, Promise!Next, Promise!Fail, Errors
<1>5. CASE Unpack
  <2>1. next \in downloaded
    BY <1>5 DEF Unpack, PhaseInv, PlaceInv, Consumed
  <2>2. QED
    BY <1>5, <2>1 DEF Unpack, Promise!Next, Promise!Apply
<1>6. CASE Join
  <2>1. mpc = "join" /\ mpc' = "returned" /\ next' = next /\ downloaded' = downloaded
    BY <1>6 DEF Join
  <2>2. CASE outcome' = "ok"
    <3>1. next = NumLayers + 1
      BY <1>6, <2>2 DEF Join, PhaseInv, NoTask
    <3>2. QED
      BY <2>1, <2>2, <3>1 DEF Promise!Next, Promise!Succeed
  <2>3. CASE outcome' # "ok"
    <3>1. outcome' \in Errors \union {"panic"}
      BY <1>6, <2>3 DEF Join, PhaseInv
    <3>2. QED
      BY <2>1, <3>1 DEF Promise!Next, Promise!Fail
  <2>4. QED
    BY <2>2, <2>3
<1>7. CASE MainPanic
  BY <1>7 DEF MainPanic, Promise!Next, Promise!Fail
<1>8. CASE UNCHANGED vars
  BY <1>8 DEF vars
<1>9. QED
  BY <1>2, <1>3, <1>4, <1>5, <1>6, <1>7, <1>8 DEF Next, MainStep, Terminated

\* The threads, the queue and the condition variables implement the sequential
\* promise: blobs are unpacked in order, each after its download, and the call
\* returns once, with "ok" only after the last of them.
THEOREM Refinement == Spec => ImplementsPromise
<1>1. Spec => Promise!Spec
  BY PromiseInit, PromiseStep, Inductive, PTL DEF Spec, Promise!Spec
<1>2. QED
  BY <1>1 DEF ImplementsPromise
=============================================================================
