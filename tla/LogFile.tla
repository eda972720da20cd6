------------------------------ MODULE LogFile ------------------------------
(***************************************************************************)
(* The log file of a cluster: every process puts its records on one        *)
(* multiprocessing queue without ever waiting, a thread of the supervisor  *)
(* writes them, and each process closes its part with bounded waits, the   *)
(* supervisor last.  A record is <<process, number>>.                      *)
(***************************************************************************)
EXTENDS Naturals, Sequences, FiniteSets

CONSTANTS
  Loggers,    \* the worker processes
  Parent,     \* the supervisor
  Capacity,   \* queue_capacity
  MaxRecords, \* bound: records of a process
  MaxKilled   \* bound: workers killed

ASSUME LogAssumption ==
  Parent \notin Loggers /\ Capacity \in Nat /\ MaxRecords \in Nat /\ MaxKilled \in Nat

Producer == Loggers \union {Parent}
Sentinel == <<Parent, 0>>

VARIABLES
  emitted,  \* records each process emitted
  buffer,   \* its feeder: records not yet in the pipe
  room,     \* the queue's semaphore: places left
  pipe,     \* the pipe to the writer's thread
  jammed,   \* a worker died with the pipe's write lock
  recorded,  \* records in the file
  dropped,  \* records a `dropped` counter counts
  excused,  \* records lost with a report of their own, or with a kill
  writer,   \* the writer's thread and the closing of the supervisor
  process,  \* "logging", "closing", "closed", "killed"
  kills

logVars == <<emitted, buffer, room, pipe, jammed, recorded, dropped, excused,
             writer, process, kills>>

LogInit ==
  /\ emitted = [p \in Producer |-> 0]
  /\ buffer = [p \in Producer |-> <<>>]
  /\ room = Capacity /\ pipe = <<>> /\ jammed = FALSE
  /\ recorded = <<>> /\ dropped = {} /\ excused = {}
  /\ writer = [thread |-> "running", stopping |-> FALSE]
  /\ process = [p \in Producer |-> "logging"]
  /\ kills = 0

Contents(q) == {q[i] : i \in DOMAIN q}

-----------------------------------------------------------------------------
(* FileProducer.emit: enqueue without waiting; a full queue is counted     *)
Emit(p) ==
  /\ process[p] = "logging" /\ emitted[p] < MaxRecords
  /\ LET r == <<p, emitted[p] + 1>>
     IN IF room > 0
          THEN /\ buffer' = [buffer EXCEPT ![p] = Append(@, r)]
               /\ room' = room - 1 /\ UNCHANGED dropped
          ELSE dropped' = dropped \union {r} /\ UNCHANGED <<buffer, room>>
  /\ emitted' = [emitted EXCEPT ![p] = @ + 1]
  /\ UNCHANGED <<pipe, jammed, recorded, excused, writer, process, kills>>

(* the feeder thread of multiprocessing.Queue (external)                   *)
Feed(p) ==
  /\ buffer[p] # <<>> /\ ~jammed
  /\ pipe' = Append(pipe, Head(buffer[p]))
  /\ buffer' = [buffer EXCEPT ![p] = Tail(@)]
  /\ UNCHANGED <<emitted, room, jammed, recorded, dropped, excused, writer,
                 process, kills>>

(* _monitor: a record is written, or counted if the disk refuses it; the   *)
(* sentinel ends the thread, which closes the file and frees its lock      *)
WriterTakes ==
  /\ writer.thread = "running" /\ pipe # <<>>
  /\ pipe' = Tail(pipe) /\ room' = room + 1
  /\ \/ /\ Head(pipe) = Sentinel
        /\ writer' = [writer EXCEPT !.thread = "ended"]
        /\ UNCHANGED <<recorded, dropped>>
     \/ /\ Head(pipe) # Sentinel
        /\ \/ recorded' = Append(recorded, Head(pipe)) /\ UNCHANGED dropped
           \/ dropped' = dropped \union {Head(pipe)} /\ UNCHANGED recorded
        /\ UNCHANGED writer
  /\ UNCHANGED <<emitted, buffer, jammed, excused, process, kills>>

(* ... or it finds the queue empty after the sentinel found no place       *)
WriterFindsNothing ==
  /\ writer.thread = "running" /\ writer.stopping /\ pipe = <<>>
  /\ writer' = [writer EXCEPT !.thread = "ended"]
  /\ UNCHANGED <<emitted, buffer, room, pipe, jammed, recorded, dropped,
                 excused, process, kills>>

-----------------------------------------------------------------------------
(* close_queue of a worker: its handler is removed, its feeder has         *)
(* shutdown_timeout to empty its buffer, the rest is lost with a report    *)
CloseWorker(p) ==
  /\ process[p] = "logging"
  /\ process' = [process EXCEPT ![p] = "closing"]
  /\ UNCHANGED <<emitted, buffer, room, pipe, jammed, recorded, dropped,
                 excused, writer, kills>>

WorkerClosed(p) ==
  /\ process[p] = "closing"
  /\ process' = [process EXCEPT ![p] = "closed"]
  /\ excused' = excused \union Contents(buffer[p])
  /\ buffer' = [buffer EXCEPT ![p] = <<>>]
  /\ UNCHANGED <<emitted, room, pipe, jammed, recorded, dropped, writer, kills>>

(* a worker is killed: its buffer goes with it, and the places it held;    *)
(* its feeder may have held the write lock of the pipe                     *)
KillWorker(p) ==
  /\ process[p] \in {"logging", "closing"} /\ kills < MaxKilled
  /\ process' = [process EXCEPT ![p] = "killed"] /\ kills' = kills + 1
  /\ excused' = excused \union Contents(buffer[p])
  /\ \/ UNCHANGED jammed
     \/ buffer[p] # <<>> /\ jammed' = TRUE
  /\ buffer' = [buffer EXCEPT ![p] = <<>>]
  /\ UNCHANGED <<emitted, room, pipe, recorded, dropped, writer>>

-----------------------------------------------------------------------------
(* The supervisor closes its runtime once run_supervisor has returned,     *)
(* when no worker is left (application.py:524-527).                        *)
WorkersAsked == \A p \in Loggers : process[p] # "logging"    \* mutant
WorkersGone == \A p \in Loggers : process[p] \in {"closed", "killed"}

(* stop_bounded: the sentinel, or a flag if the queue stays full           *)
CloseWriter ==
  /\ process[Parent] = "logging" /\ WorkersGone
  /\ process' = [process EXCEPT ![Parent] = "closing"]
  /\ \/ /\ room > 0
        /\ buffer' = [buffer EXCEPT ![Parent] = Append(@, Sentinel)]
        /\ room' = room - 1 /\ UNCHANGED writer
     \/ /\ room = 0
        /\ writer' = [writer EXCEPT !.stopping = TRUE]
        /\ UNCHANGED <<buffer, room>>
  /\ UNCHANGED <<emitted, pipe, jammed, recorded, dropped, excused, kills>>

(* the join of the thread: it ended, or the wait was too long, which is    *)
(* reported; then close_queue                                              *)
WriterClosed ==
  /\ process[Parent] = "closing"
  /\ process' = [process EXCEPT ![Parent] = "closed"]
  /\ excused' = excused \union
       (IF writer.thread = "ended" THEN {}
        ELSE Contents(pipe) \union Contents(buffer[Parent]))
  /\ UNCHANGED <<emitted, buffer, room, pipe, jammed, recorded, dropped,
                 writer, kills>>

LogNext ==
  \/ \E p \in Producer : Emit(p) \/ Feed(p)
  \/ \E p \in Loggers : CloseWorker(p) \/ WorkerClosed(p) \/ KillWorker(p)
  \/ WriterTakes \/ WriterFindsNothing \/ CloseWriter \/ WriterClosed

LogSpec == LogInit /\ [][LogNext]_logVars

-----------------------------------------------------------------------------
(* Type correctness of the queue, the processes and the writer.            *)
LogTypeOK ==
  /\ \A p \in Producer : emitted[p] \in 0 .. MaxRecords
  /\ room \in 0 .. Capacity
  /\ \A p \in Producer :
       process[p] \in {"logging", "closing", "closed", "killed"}
  /\ writer.thread \in {"running", "ended"} /\ kills \in 0 .. MaxKilled

(* When the supervisor has closed its writer, every record any process     *)
(* ever emitted is in the file, counted as dropped, lost with a report or  *)
(* with a killed worker - or the sentinel found the queue full - and the   *)
(* records of one process are in the file in the order it emitted them     *)
(* (_file.py:61-73, 131-171).                                              *)
Records == {<<p, n>> : p \in Producer, n \in 1 .. MaxRecords}
Emitted == {r \in Records : r[2] <= emitted[r[1]]}

NoSilentLoss ==
  /\ process[Parent] = "closed" /\ ~writer.stopping =>
       Emitted \subseteq Contents(recorded) \union dropped \union excused
  /\ \A i, j \in DOMAIN recorded :
       i < j /\ recorded[i][1] = recorded[j][1] => recorded[i][2] < recorded[j][2]
=============================================================================
