---------------------------- MODULE DownloadPool ----------------------------
(***************************************************************************)
(* src/unpacker/images.rs, function get: a pool of scoped threads pops     *)
(* downloads from a shared queue while the calling thread (the "main"      *)
(* thread below) unpacks the results in the order of the manifest.         *)
(*                                                                         *)
(*   main    opens the target, clears the umask, spawns the workers,       *)
(*           creates rootfs, then for each task waits on the task's        *)
(*           condition variable and unpacks the file; drops AliveTracker,  *)
(*           applies the metadata of the directories, leaves the scope.    *)
(*   worker  pops a task, downloads its blob chunk by chunk while is_alive *)
(*           is true, and stores the result in the slot of the task.       *)
(*                                                                         *)
(* Any early return or panic of main inside the scope drops AliveTracker;  *)
(* thread::scope then joins every worker before get returns.  A critical   *)
(* section of the code (one lock() scope) is one action.  is_alive is      *)
(* accessed with Relaxed ordering; main does nothing a worker observes     *)
(* after storing it, so a late load is the same as a late store and        *)
(* interleaving covers it.                                                 *)
(***************************************************************************)
EXTENDS Integers, Sequences, FiniteSets

CONSTANTS NumLayers,       \* manifest.layers.len()
          QueueLimit,      \* QUEUE_LIMIT
          Workers,         \* the threads of the pool
          MainMayPanic,    \* an EventHandler, or spawn, may panic in main
          WorkerMayPanic   \* an EventHandler may panic in a worker

ASSUME NumLayersAssumption == NumLayers \in Nat
ASSUME WorkersAssumption ==
    /\ QueueLimit \in Nat \ {0}
    /\ IsFiniteSet(Workers)
    /\ Cardinality(Workers) =
          IF NumLayers + 1 < QueueLimit THEN NumLayers + 1 ELSE QueueLimit
ASSUME PanicAssumption == MainMayPanic \in BOOLEAN /\ WorkerMayPanic \in BOOLEAN

Tasks  == 0..NumLayers     \* download_tasks: the config blob, then the layers
NoTask == NumLayers + 1    \* the value of job[w] when w holds no task

Errors  == {"http", "io", "interrupted", "content_type"}  \* UnpackError
Results == Errors \union {"file"}                         \* Result<File, _>

VARIABLES pending,     \* Mutex<VecDeque<&Download>>
          slot,        \* Download.result of each task, "none" for None
          alive,       \* is_alive
          umask,       \* umask of the process: the caller's, or empty
          wpc, job,    \* each worker: where it is, and the task it holds
          mpc, next,   \* main: where it is, and the task of its for loop
          outcome,     \* result of the closure given to thread::scope
          downloaded   \* history: tasks whose run_download returned a file

workerVars == <<wpc, job>>
mainVars   == <<mpc, next, outcome>>
vars == <<pending, slot, alive, umask, wpc, job, mpc, next, outcome, downloaded>>

Busy    == {"request", "create", "check", "read"}  \* inside run_download
Stopped == {"unborn", "done", "panicked"}          \* not running
-----------------------------------------------------------------------------
\* Fault: the tasks are numbered from 1, as if the config were not one of them.
InitOffByOne == /\ pending = [i \in 1..NumLayers + 1 |-> i]
                /\ slot = [t \in Tasks |-> "none"]
                /\ alive = TRUE
                /\ umask = "caller"
                /\ wpc = [w \in Workers |-> "unborn"]
                /\ job = [w \in Workers |-> NoTask]
                /\ mpc = "open"
                /\ next = 0
                /\ outcome = "none"
                /\ downloaded = {}

Init == /\ pending = [i \in 1..NumLayers + 1 |-> i - 1]
        /\ slot = [t \in Tasks |-> "none"]
        /\ alive = TRUE
        /\ umask = "caller"
        /\ wpc = [w \in Workers |-> "unborn"]
        /\ job = [w \in Workers |-> NoTask]
        /\ mpc = "open"
        /\ next = 0
        /\ outcome = "none"
        /\ downloaded = {}
-----------------------------------------------------------------------------
(* Worker threads. *)

\* Fault: the task is read from the queue and not removed from it.
TakeTaskFront(w) == /\ wpc[w] = "take"
                    /\ pending # <<>>
                    /\ job' = [job EXCEPT ![w] = Head(pending)]
                    /\ wpc' = [wpc EXCEPT ![w] = "request"]
                    /\ UNCHANGED <<pending, slot, alive, umask, mainVars, downloaded>>

\* The loop of the closure given to spawn: the queue is locked only for the pop.
TakeTask(w) == /\ wpc[w] = "take"
               /\ pending # <<>>
               /\ pending' = Tail(pending)
               /\ job' = [job EXCEPT ![w] = Head(pending)]
               /\ wpc' = [wpc EXCEPT ![w] = "request"]
               /\ UNCHANGED <<slot, alive, umask, mainVars, downloaded>>

Retire(w) == /\ wpc[w] = "take"
             /\ pending = <<>>
             /\ wpc' = [wpc EXCEPT ![w] = "done"]
             /\ UNCHANGED <<pending, slot, alive, umask, job, mainVars, downloaded>>

\* Fault: the result is stored and nobody is notified.
CompleteSilently(w, r) ==
    /\ slot' = [slot EXCEPT ![job[w]] = r]
    /\ downloaded' = IF r = "file" THEN downloaded \union {job[w]} ELSE downloaded
    /\ wpc' = [wpc EXCEPT ![w] = "take"]
    /\ job' = [job EXCEPT ![w] = NoTask]
    /\ UNCHANGED <<pending, alive, umask, mainVars>>

\* Download::complete: store the result and notify main if it is parked on it.
Complete(w, r) ==
    /\ slot' = [slot EXCEPT ![job[w]] = r]
    /\ mpc' = IF mpc = "parked" /\ next = job[w] THEN "get" ELSE mpc
    /\ downloaded' = IF r = "file" THEN downloaded \union {job[w]} ELSE downloaded
    /\ wpc' = [wpc EXCEPT ![w] = "take"]
    /\ job' = [job EXCEPT ![w] = NoTask]
    /\ UNCHANGED <<pending, alive, umask, next, outcome>>

Advance(w, to) ==
    /\ wpc' = [wpc EXCEPT ![w] = to]
    /\ UNCHANGED <<pending, slot, alive, umask, job, mainVars, downloaded>>

\* run_download: the request is sent even if is_alive is already false.
Request(w) == /\ wpc[w] = "request"
              /\ Advance(w, "create") \/ Complete(w, "http")

\* config.json is created with O_EXCL, a layer gets an unnamed file.
Create(w) == /\ wpc[w] = "create"
             /\ Advance(w, "check") \/ Complete(w, "io")

\* Fault: the loop does not look at is_alive.
CheckNothing(w) == wpc[w] = "check" /\ Advance(w, "read")

CheckAlive(w) == /\ wpc[w] = "check"
                 /\ IF alive THEN Advance(w, "read") ELSE Complete(w, "interrupted")

\* One read from the server and the write of what was read.
ReadChunk(w) == wpc[w] = "read" /\ Advance(w, "check")

\* The end of the stream, with the expected digest.
ReadEof(w) == wpc[w] = "read" /\ Complete(w, "file")

\* A failed read, a digest that does not match, or a failed write.
ReadError(w) == wpc[w] = "read" /\ Complete(w, "io")

\* Events are sent for a request and for each chunk.  The task is lost.
WorkerPanic(w) == /\ WorkerMayPanic
                  /\ wpc[w] \in {"request", "read"}
                  /\ Advance(w, "panicked")

WorkerStep(w) == \/ TakeTask(w) \/ Retire(w) \/ Request(w) \/ Create(w)
                 \/ CheckAlive(w) \/ ReadChunk(w) \/ ReadEof(w) \/ ReadError(w)
-----------------------------------------------------------------------------
(* Main thread. *)

\* Fault: "let _ = AliveTracker(..)" drops the tracker at once.
OpenTrackerDropped == /\ mpc = "open"
                      /\ mpc' = "spawn"
                      /\ umask' = "empty"
                      /\ alive' = FALSE
                      /\ UNCHANGED <<pending, slot, workerVars, next, outcome, downloaded>>

\* Directory::new fails before the umask is changed.
Open == /\ mpc = "open"
        /\ \/ /\ mpc' = "spawn"
              /\ umask' = "empty"
              /\ UNCHANGED outcome
           \/ /\ mpc' = "returned"
              /\ outcome' = "io"
              /\ UNCHANGED umask
        /\ UNCHANGED <<pending, slot, alive, workerVars, next, downloaded>>

Spawn(w) == /\ mpc = "spawn"
            /\ wpc[w] = "unborn"
            /\ wpc' = [wpc EXCEPT ![w] = "take"]
            /\ UNCHANGED <<pending, slot, alive, umask, job, mainVars, downloaded>>

\* The closure returns: the AliveTracker it owns is dropped.
LeaveScope(r) == /\ mpc' = "join"
                 /\ alive' = FALSE
                 /\ outcome' = r

OpenRootfs == /\ mpc = "spawn"
              /\ \A w \in Workers : wpc[w] # "unborn"
              /\ \/ mpc' = "get" /\ UNCHANGED <<alive, outcome>>
                 \/ LeaveScope("io")
              /\ UNCHANGED <<pending, slot, umask, workerVars, next, downloaded>>

\* Fault: an error in the slot is taken for a file.
GetUnchecked == /\ mpc = "get"
                /\ next \in Tasks
                /\ slot[next] # "none"
                /\ slot' = [slot EXCEPT ![next] = "none"]
                /\ mpc' = "unpack"
                /\ UNCHANGED <<pending, alive, umask, workerVars, next, outcome, downloaded>>

\* Download::get: take the result, or release the lock and wait.
Get == /\ mpc = "get"
       /\ next \in Tasks
       /\ slot[next] # "none"
       /\ slot' = [slot EXCEPT ![next] = "none"]
       /\ IF slot[next] = "file"
             THEN mpc' = "unpack" /\ UNCHANGED <<alive, outcome>>
             ELSE LeaveScope(slot[next])
       /\ UNCHANGED <<pending, umask, workerVars, next, downloaded>>

Park == /\ mpc = "get"
        /\ next \in Tasks
        /\ slot[next] = "none"
        /\ mpc' = "parked"
        /\ UNCHANGED <<pending, slot, alive, umask, workerVars, next, outcome, downloaded>>

\* Fault: get tests the slot once, so a wakeup is taken for a result; there is
\* none to unwrap.
WakeupIsResult == /\ mpc = "parked"
                  /\ LeaveScope("panic")
                  /\ UNCHANGED <<pending, slot, umask, workerVars, next, downloaded>>

\* A condition variable may wake up with no notification.
SpuriousWakeup == /\ mpc = "parked"
                  /\ mpc' = "get"
                  /\ UNCHANGED <<pending, slot, alive, umask, workerVars, next, outcome,
                                 downloaded>>

Unpack == /\ mpc = "unpack"
          /\ \/ /\ next' = next + 1
                /\ mpc' = "get"
                /\ UNCHANGED <<alive, outcome>>
             \/ /\ \E e \in {"io", "content_type"} : LeaveScope(e)
                /\ UNCHANGED next
          /\ UNCHANGED <<pending, slot, umask, workerVars, downloaded>>

\* Fault: the loop counts the layers and forgets that the config is a task.
DropTrackerEarly == /\ mpc = "get"
                    /\ next \in {NumLayers, NoTask}
                    /\ alive' = FALSE
                    /\ mpc' = "metadata"
                    /\ UNCHANGED <<pending, slot, umask, workerVars, next, outcome, downloaded>>

\* drop(alive_tracker), once the loop is over.
DropTracker == /\ mpc = "get"
               /\ next = NoTask
               /\ alive' = FALSE
               /\ mpc' = "metadata"
               /\ UNCHANGED <<pending, slot, umask, workerVars, next, outcome, downloaded>>

\* The loop over dirs_mtimes, and the event "finished" if it succeeds.
ApplyMetadata == /\ mpc = "metadata"
                 /\ \E r \in {"ok", "io"} : LeaveScope(r)
                 /\ UNCHANGED <<pending, slot, umask, workerVars, next, downloaded>>

\* thread::scope waits for its threads and panics if one of them did; then
\* UmaskGuard is dropped and get returns (or unwinds).
Join == /\ mpc = "join"
        /\ \A w \in Workers : wpc[w] \in Stopped
        /\ mpc' = "returned"
        /\ umask' = "caller"
        /\ outcome' = IF \E w \in Workers : wpc[w] = "panicked" THEN "panic" ELSE outcome
        /\ UNCHANGED <<pending, slot, alive, workerVars, next, downloaded>>

\* download_start, spawn, layer_start, layer_progress and finished may panic.
MainPanic == /\ MainMayPanic
             /\ \/ /\ mpc = "open"
                   /\ mpc' = "returned"
                   /\ outcome' = "panic"
                   /\ UNCHANGED alive
                \/ /\ \/ mpc = "spawn" /\ \E w \in Workers : wpc[w] = "unborn"
                      \/ mpc \in {"unpack", "metadata"}
                   /\ LeaveScope("panic")
             /\ UNCHANGED <<pending, slot, umask, workerVars, next, downloaded>>

MainStep == \/ Open \/ OpenRootfs \/ Get \/ Park \/ Unpack \/ DropTracker
            \/ ApplyMetadata \/ Join
            \/ \E w \in Workers : Spawn(w)

\* get has returned: nothing else happens.
Terminated == mpc = "returned" /\ UNCHANGED vars
-----------------------------------------------------------------------------
Next == \/ \E w \in Workers : WorkerStep(w) \/ WorkerPanic(w)
        \/ MainStep
        \/ SpuriousWakeup
        \/ MainPanic
        \/ Terminated

Spec == Init /\ [][Next]_vars

\* Running threads are scheduled, and a server does not stall inside a read.
Fairness == WF_vars(MainStep) /\ \A w \in Workers : WF_vars(WorkerStep(w))

\* No blob is endless.
BlobsEnd == \A w \in Workers : SF_vars(ReadEof(w) \/ ReadError(w))

FairSpec == Spec /\ Fairness
-----------------------------------------------------------------------------
(* Properties. *)

TypeOK == /\ pending \in Seq(Tasks)
          /\ slot \in [Tasks -> Results \union {"none"}]
          /\ alive \in BOOLEAN
          /\ umask \in {"caller", "empty"}
          /\ wpc \in [Workers -> {"take"} \union Busy \union Stopped]
          /\ job \in [Workers -> Tasks \union {NoTask}]
          /\ mpc \in {"open", "spawn", "get", "parked", "unpack", "metadata", "join",
                     "returned"}
          /\ next \in Tasks \union {NoTask}
          /\ outcome \in Errors \union {"none", "ok", "panic"}
          /\ downloaded \subseteq Tasks

Queued(t) == \E i \in DOMAIN pending : pending[i] = t
Taken(t)  == \E w \in Workers : job[w] = t  \* by a worker that runs or has panicked

\* A task is queued, taken by one worker (and lost with it if it panics), waiting
\* in its slot or consumed by main, and in one of these places only: no blob is
\* downloaded twice (config.json is created with O_EXCL) and no result is
\* overwritten before main takes it.
TaskInOnePlace ==
    \A t \in Tasks :
        /\ Queued(t) => ~Taken(t)
        /\ Queued(t) \/ Taken(t) => slot[t] = "none" /\ next <= t
        /\ \A v, w \in Workers : job[v] = t /\ job[w] = t => v = w

Panicked(w) == wpc[w] = "panicked"
Running(w)  == wpc[w] \in {"take"} \union Busy
Held(t)     == \E w \in Workers : Running(w) /\ job[w] = t

\* A running worker holds the task, or can still pop it.
Coming(t) == Held(t) \/ (Queued(t) /\ \E w \in Workers : Running(w))

\* The task went down with its worker, or nobody is left to pop it.
Lost(t) == \/ \E w \in Workers : Panicked(w) /\ job[w] = t
           \/ Queued(t) /\ \A w \in Workers : Panicked(w)

\* Main never sleeps on a result that is already there, nor on one that no
\* worker will store, unless panics of the workers lost it: Download::get misses
\* no notification of complete, and no worker retires before the queue is empty.
WaitedTaskIsComing ==
    mpc = "parked" => slot[next] = "none" /\ (Coming(next) \/ Lost(next))

\* Main waits, or is about to, for a task that is lost.
Stuck == mpc \in {"get", "parked"} /\ next \in Tasks /\ Lost(next)

\* When the EventHandler panics in a worker and main comes to wait for its task,
\* nothing ends the wait: neither the other workers, nor a spurious wakeup, nor
\* the scope, which reports the panic of a thread only after main has left it.
PanicIsFinal == [][Stuck => Stuck']_vars

\* The error Interrupted is how a cancelled worker stops; unpack never
\* returns it, because is_alive is cleared only when main takes no more results.
InterruptedStaysInside == outcome # "interrupted"

\* No worker creates a file, and main creates no entry, under the umask of the
\* caller: UmaskGuard outlives the scope that joins the workers.
UmaskCoversScope ==
    \/ \E w \in Workers : wpc[w] \notin Stopped
    \/ mpc \in {"spawn", "get", "parked", "unpack", "metadata"}
    => umask = "empty"

\* unpack succeeds (and "finished" is sent) only if every blob was downloaded
\* and unpacked, and no worker was lost or is still holding a task.
SuccessMeansEverything ==
    outcome = "ok" => /\ next = NoTask
                      /\ downloaded = Tasks
                      /\ pending = <<>>
                      /\ \A w \in Workers : job[w] = NoTask

-----------------------------------------------------------------------------
(* The inductive invariant behind the properties above, used by the proofs. *)

InScope == {"spawn", "get", "parked", "unpack"}  \* AliveTracker is not dropped

Consumed(t) == t < next \/ (t = next /\ mpc = "unpack")
Awaited(t)  == next < t \/ (t = next /\ mpc \in (InScope \ {"unpack"}) \union {"open"})

\* The queue is always a suffix of the list of tasks: NotPopped(t) is Queued(t).
NotPopped(t) == t + Len(pending) > NumLayers
QueueInv == /\ Len(pending) <= NumLayers + 1
            /\ \A i \in 1..Len(pending) : pending[i] = NumLayers + i - Len(pending)

\* Only a worker inside run_download, or lost in it, holds a task.
HolderInv == \A w \in Workers : job[w] = NoTask <=> wpc[w] \in {"unborn", "take", "done"}
OneHolderInv == \A v, w \in Workers : job[v] = job[w] /\ job[v] # NoTask => v = w

\* Where a task is, from the queue to main.
PlaceInv == /\ \A t \in Tasks : NotPopped(t) => ~Taken(t) /\ slot[t] = "none" /\ ~Consumed(t)
            /\ \A t \in Tasks : Taken(t) => slot[t] = "none" /\ ~Consumed(t)
            /\ \A t \in Tasks : Consumed(t) => slot[t] = "none" /\ t \in downloaded
            /\ \A t \in Tasks : slot[t] = "file" => t \in downloaded
            /\ \A t \in Tasks : Awaited(t) => NotPopped(t) \/ Taken(t) \/ slot[t] # "none"
            /\ mpc = "parked" => slot[next] = "none"

\* What main has done, and the flags that follow it.
PhaseInv == /\ mpc \in InScope \union {"open"} => alive
            /\ mpc \in {"metadata", "join"} => ~alive
            /\ alive => \A t \in Tasks : slot[t] # "interrupted"
            /\ mpc \in {"unpack", "parked"} => next \in Tasks
            /\ mpc = "metadata" \/ outcome = "ok" => next = NoTask
            /\ outcome # "interrupted"
            /\ outcome = "none" <=> mpc \notin {"join", "returned"}
            /\ umask = "caller" <=> mpc \in {"open", "returned"}
            /\ mpc \in {"open", "returned"} => \A w \in Workers : wpc[w] \in Stopped

\* Every worker is started before main waits, and retires on an empty queue only.
PoolInv == /\ mpc \in {"get", "parked", "unpack"} => \A w \in Workers : wpc[w] # "unborn"
           /\ \A w \in Workers : wpc[w] = "done" => pending = <<>>

IndInv ==
    TypeOK /\ HolderInv /\ QueueInv /\ OneHolderInv /\ PlaceInv /\ PhaseInv /\ PoolInv
-----------------------------------------------------------------------------
\* The call implements the sequential promise of ImageUnpack.
Promise == INSTANCE ImageUnpack
           WITH Failures <- Errors \union {"panic"},
                fetched  <- downloaded,
                applied  <- next,
                returned <- IF mpc = "returned" THEN outcome ELSE "no"
ImplementsPromise == Promise!Spec

\* Once is_alive is false get returns, even if a server sends data forever and
\* whatever threads panicked.
CancelTerminates == ~alive ~> mpc = "returned"

\* If the blobs are finite get returns.  The only way to hang is to wait for a
\* task that was lost when a worker panicked.
TerminatesUnlessWorkerPanics == BlobsEnd => <>(mpc = "returned" \/ Stuck)
=============================================================================
