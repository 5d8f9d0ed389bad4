------------------------------ MODULE Progress ------------------------------
(***************************************************************************)
(* The events of a call, in the order in which its threads send them, and  *)
(* the handler of examples/unpack.rs (Logger), which counts them in atomic *)
(* variables and prints a line now and then, at most one thread at a time. *)
(*                                                                         *)
(*   workers  run_download: download_progress_bytes after each read, then  *)
(*            the result of the task is stored (DownloadPool);             *)
(*   main     download_start, then for each layer layer_start,             *)
(*            layer_progress before each entry and after the last one      *)
(*            (unpack_layer), and finished.                                *)
(*                                                                         *)
(* show_progress runs in the thread that sends the event.  Its steps are   *)
(* interleaved with the events of the others: a look at last_update under  *)
(* the read lock, try_write, one load of each counter, the line.  The      *)
(* counters are SeqCst, but for one store that follows a SeqCst one to the *)
(* same counter: they are read and written in one order.                   *)
(***************************************************************************)
EXTENDS Naturals, FiniteSets

CONSTANTS Workers,      \* threads of the pool
          Main,         \* the thread that called unpack
          NumLayers,
          Size,         \* bytes of the blob of each digest, 0 is the configuration
          MaxBody,      \* bound: the bytes that a registry sends for a blob
          MaxEntries    \* bound: the entries of a layer

Threads == Workers \union {Main}
Nobody  == "nobody"     \* holds the lock of the printer

ASSUME ThreadsAssumption ==
    IsFiniteSet(Workers) /\ Main \notin Workers /\ Nobody \notin Threads
ASSUME SizesAssumption ==
    /\ NumLayers \in Nat /\ MaxBody \in Nat /\ MaxEntries \in Nat
    /\ Size \in [0..NumLayers -> Nat \ {0}]

Tasks   == 0..NumLayers

\* The sum of what each task has.
TotalOf(bytes) ==
    LET sum[t \in Tasks] == bytes[t] + (IF t = 0 THEN 0 ELSE sum[t - 1]) IN sum[NumLayers]

AllBytes == TotalOf(Size)

VARIABLES queue,           \* the first task that no worker took
          job, read,       \* of each worker: its task, the bytes of it read so far
          done, broken,    \* tasks with a result, and those where it is an error
          mpc,             \* where main is
          task, entries,   \* of main: the task, the entries of it unpacked so far
          position,        \* PositionTracker.count: bytes of the archive read
          total,           \* bytes_total, what the manifest says
          received,        \* bytes_received
          layers,          \* layers_received
          curLen, curPos,  \* current_layer_len, _position: value, and layer (history)
          readers, writer, \* the RwLock around PrinterData
          printed,         \* last_update is not None
          show, seen,      \* of each thread: where it is in show_progress, what it loaded
          line             \* the last line printed

poolVars  == <<queue, job, read, done, broken>>
mainVars  == <<mpc, task, entries, position>>
counters  == <<total, received, layers, curLen, curPos>>
printVars == <<readers, writer, printed, show, seen, line>>
vars == <<poolVars, mainVars, counters, printVars>>

NoLine == [received |-> 0, len |-> 0, lenOf |-> 0, pos |-> 0, posOf |-> 0, layer |-> 0, some |-> FALSE]
Archive(v, k) == [value |-> v, of |-> k]

Init == /\ queue = 0
        /\ job = [w \in Workers |-> NumLayers + 1]
        /\ read = [w \in Workers |-> 0]
        /\ done = {} /\ broken = {}
        /\ mpc = "start" /\ task = 0 /\ entries = 0 /\ position = 0
        /\ total = 0 /\ received = 0 /\ layers = 0
        /\ curLen = Archive(0, 0) /\ curPos = Archive(0, 0)
        /\ readers = {} /\ writer = Nobody /\ printed = FALSE
        /\ show = [th \in Threads |-> "no"]
        /\ seen = [th \in Threads |-> NoLine]
        /\ line = NoLine
-----------------------------------------------------------------------------
(* show_progress *)

\* Called by an event: force is given by finished only.
Show(th, force) == show' = [show EXCEPT ![th] = IF force THEN "try" ELSE "look"]

\* Fault: need_update does not wait for the thread that prints.
LookUnlocked(th) ==
    /\ show[th] = "look"
    /\ readers' = readers \union {th}
    /\ show' = [show EXCEPT ![th] = "looking"]
    /\ UNCHANGED <<poolVars, mainVars, counters, writer, printed, seen, line>>

\* need_update: the read lock, which waits for the thread that prints.
Look(th) == /\ show[th] = "look"
            /\ writer = Nobody
            /\ readers' = readers \union {th}
            /\ show' = [show EXCEPT ![th] = "looking"]
            /\ UNCHANGED <<poolVars, mainVars, counters, writer, printed, seen, line>>

\* The interval since the last line may be over or not; the first line is due.
Looked(th) == /\ show[th] = "looking"
              /\ readers' = readers \ {th}
              /\ \/ show' = [show EXCEPT ![th] = "try"]
                 \/ printed /\ show' = [show EXCEPT ![th] = "no"]
              /\ UNCHANGED <<poolVars, mainVars, counters, writer, printed, seen, line>>

\* try_write: give up if another thread prints or looks, or if nothing is expected.
TryWrite(th) ==
    /\ show[th] = "try"
    /\ IF writer = Nobody /\ readers = {} /\ total # 0
       THEN /\ writer' = th
            /\ printed' = TRUE
            /\ show' = [show EXCEPT ![th] = "received"]
       ELSE /\ show' = [show EXCEPT ![th] = "no"]
            /\ UNCHANGED <<writer, printed>>
    /\ UNCHANGED <<poolVars, mainVars, counters, readers, seen, line>>

LoadReceived(th) ==
    /\ show[th] = "received"
    /\ seen' = [seen EXCEPT ![th].received = received, ![th].some = TRUE]
    /\ show' = [show EXCEPT ![th] = "len"]
    /\ UNCHANGED <<poolVars, mainVars, counters, readers, writer, printed, line>>

LoadLen(th) ==
    /\ show[th] = "len"
    /\ seen' = [seen EXCEPT ![th].len = curLen.value, ![th].lenOf = curLen.of]
    /\ show' = [show EXCEPT ![th] = "position"]
    /\ UNCHANGED <<poolVars, mainVars, counters, readers, writer, printed, line>>

\* Fault: the lock is released before the line is written.
LoadPositionUnlock(th) ==
    /\ show[th] = "position"
    /\ seen' = [seen EXCEPT ![th].pos = curPos.value, ![th].posOf = curPos.of]
    /\ show' = [show EXCEPT ![th] = "print"]
    /\ writer' = Nobody
    /\ UNCHANGED <<poolVars, mainVars, counters, readers, printed, line>>

LoadPosition(th) ==
    /\ show[th] = "position"
    /\ seen' = [seen EXCEPT ![th].pos = curPos.value, ![th].posOf = curPos.of]
    /\ show' = [show EXCEPT ![th] = "print"]
    /\ UNCHANGED <<poolVars, mainVars, counters, readers, writer, printed, line>>

\* The last load, the output (which is flushed first) and the end of the guard.
PrintLine(th) ==
    /\ show[th] = "print"
    /\ line' = [seen[th] EXCEPT !.layer = layers]
    /\ seen' = [seen EXCEPT ![th] = NoLine]
    /\ writer' = IF writer = th THEN Nobody ELSE writer
    /\ show' = [show EXCEPT ![th] = "no"]
    /\ UNCHANGED <<poolVars, mainVars, counters, readers, printed>>

ShowStep(th) == \/ Look(th) \/ Looked(th) \/ TryWrite(th) \/ LoadReceived(th)
                \/ LoadLen(th) \/ LoadPosition(th) \/ PrintLine(th)
-----------------------------------------------------------------------------
(* Workers. *)

TakeTask(w) == /\ mpc # "start" /\ show[w] = "no"
               /\ job[w] \notin Tasks
               /\ queue \in Tasks
               /\ queue' = queue + 1
               /\ job' = [job EXCEPT ![w] = queue]
               /\ read' = [read EXCEPT ![w] = 0]
               /\ UNCHANGED <<done, broken, mainVars, counters, printVars>>

\* One read, and download_progress_bytes.  The loop counts whatever is sent, which
\* may be less or more than the blob.
Receive(w) == /\ show[w] = "no"
              /\ job[w] \in Tasks /\ read[w] < MaxBody
              /\ read' = [read EXCEPT ![w] = @ + 1]
              /\ received' = received + 1
              /\ Show(w, FALSE)
              /\ UNCHANGED <<queue, job, done, broken, mainVars, total, layers, curLen, curPos,
                             readers, writer, printed, seen, line>>

\* Download::complete: with the file at the end of the stream, if the digest is that
\* of what was read, or with an error, which may be Interrupted when main has left.
Complete(w) == /\ show[w] = "no"
               /\ job[w] \in Tasks
               /\ done' = done \union {job[w]}
               /\ broken' \in {broken \union {job[w]}} \union
                              (IF read[w] = Size[job[w]] THEN {broken} ELSE {})
               /\ job' = [job EXCEPT ![w] = NumLayers + 1]
               /\ UNCHANGED <<queue, read, mainVars, counters, printVars>>
-----------------------------------------------------------------------------
(* Main. *)

Ready(pc) == mpc = pc /\ show[Main] = "no"

\* download_start, before the workers: the sum of the sizes in the manifest, which
\* may wrap around.  All that Logger's control depends on is whether it is 0.
DownloadStart == /\ Ready("start")
                 /\ total' \in {0, AllBytes}
                 /\ mpc' = "get"
                 /\ UNCHANGED <<poolVars, task, entries, position, received, layers,
                                curLen, curPos, printVars>>

\* Download::get and the beginning of unpack_layer, which says nothing of the
\* configuration and nothing of a blob that is not a layer or has an error.
Get == /\ Ready("get") /\ task \in Tasks
       /\ task \in done
       /\ \/ mpc' = "failed" /\ UNCHANGED task
          \/ task \notin broken /\ task = 0 /\ task' = 1 /\ UNCHANGED mpc
          \/ task \notin broken /\ task # 0 /\ mpc' = "layer" /\ UNCHANGED task
       /\ UNCHANGED <<poolVars, entries, position, counters, printVars>>

\* Fault: layer_start stores the length first.
CountLayerLength == /\ Ready("layer")
                    /\ layers' = layers + 1
                    /\ curLen' = Archive(Size[task], task)
                    /\ mpc' = "reset"
                    /\ UNCHANGED <<poolVars, task, entries, position, total, received,
                                   curPos, printVars>>

\* layer_start: three stores, in this order.
CountLayer == /\ Ready("layer")
              /\ layers' = layers + 1
              /\ mpc' = "reset"
              /\ UNCHANGED <<poolVars, task, entries, position, total, received,
                             curLen, curPos, printVars>>

ResetPosition == /\ Ready("reset")
                 /\ curPos' = Archive(0, task)
                 /\ mpc' = "length"
                 /\ UNCHANGED <<poolVars, task, entries, position, total, received,
                                layers, curLen, printVars>>

StoreLength == /\ Ready("length")
               /\ curLen' = Archive(Size[task], task)
               /\ mpc' = "entry"
               /\ Show(Main, FALSE)
               /\ UNCHANGED <<poolVars, task, entries, position, total, received,
                              layers, curPos, readers, writer, printed, seen, line>>

\* The header of the next entry is read, with as much more as the decompressor
\* takes; or the end of the archive, not always its last byte.  Then layer_progress.
LayerProgress == /\ Ready("entry")
                 /\ \E p \in position..Size[task] :
                        position' = p /\ curPos' = Archive(p, task)
                 /\ mpc' \in IF entries < MaxEntries THEN {"unpack", "next"} ELSE {"next"}
                 /\ Show(Main, FALSE)
                 /\ UNCHANGED <<poolVars, task, entries, total, received, layers, curLen,
                                readers, writer, printed, seen, line>>

\* Context::unpack, which may fail.
UnpackEntry == /\ Ready("unpack")
               /\ mpc' \in {"entry", "failed"}
               /\ entries' = entries + 1
               /\ UNCHANGED <<poolVars, task, position, counters, printVars>>

NextTask == /\ Ready("next")
            /\ mpc' = "get"
            /\ task' = task + 1
            /\ entries' = 0 /\ position' = 0
            /\ UNCHANGED <<poolVars, counters, printVars>>

\* Fault: finished is treated like the other events.
FinishedUnforced == /\ Ready("get") /\ task \notin Tasks
                    /\ mpc' = "finished"
                    /\ Show(Main, FALSE)
                    /\ UNCHANGED <<poolVars, task, entries, position, counters,
                                   readers, writer, printed, seen, line>>

\* All layers are unpacked, and the metadata of the directories applied.
Finished == /\ Ready("get") /\ task \notin Tasks
            /\ mpc' = "finished"
            /\ Show(Main, TRUE)
            /\ UNCHANGED <<poolVars, task, entries, position, counters,
                           readers, writer, printed, seen, line>>

WorkerStep(w) == TakeTask(w) \/ Receive(w) \/ Complete(w)
MainStep == \/ DownloadStart \/ Get \/ CountLayer \/ ResetPosition \/ StoreLength
            \/ LayerProgress \/ UnpackEntry \/ NextTask \/ Finished

\* Every thread is done: the call returned.
Returned == /\ mpc \in {"finished", "failed"}
            /\ \A th \in Threads : show[th] = "no"
            /\ \A w \in Workers : job[w] \notin Tasks
            /\ queue \notin Tasks
            /\ UNCHANGED vars

Next == \/ \E w \in Workers : WorkerStep(w)
        \/ MainStep
        \/ \E th \in Threads : ShowStep(th)
        \/ Returned

Spec == Init /\ [][Next]_vars
-----------------------------------------------------------------------------
(* Properties. *)

\* The variables keep their types, and the lock its: nobody looks at the clock while
\* a line is printed.
TypeOK ==
    /\ queue \in 0..NumLayers + 1 /\ broken \subseteq done /\ done \subseteq Tasks /\ task \in 0..NumLayers + 1
    /\ job \in [Workers -> 0..NumLayers + 1] /\ read \in [Workers -> 0..MaxBody]
    /\ entries \in 0..MaxEntries /\ position \in Nat
    /\ total \in Nat /\ received \in Nat /\ layers \in 0..NumLayers
    /\ readers \subseteq Threads /\ writer \in Threads \union {Nobody}
    /\ writer # Nobody => readers = {}

\* The numbers of downloaded bytes that Logger prints never decrease, though any
\* thread may print and bytes arrive while it does.
LinesNeverGoBack == [][line'.received >= line.received]_line

\* The line that finished prints is not lost to try_write: no other thread is in
\* show_progress any more, and it counts every byte of the image.
LastLineIsComplete ==
    mpc = "finished" /\ show[Main] = "no" /\ total # 0 =>
        line.some /\ line.received = AllBytes

\* A position is never compared with the length of a later layer, nor shown with
\* the number of an earlier one: layer_start and show_progress use the counters
\* in opposite orders.
LineIsOrdered == line.lenOf <= line.posOf /\ line.posOf <= line.layer
=============================================================================
