----------------------------- MODULE NativeLog -----------------------------
(***************************************************************************)
(* The capture of gRPC's native log: file descriptor 2 of the process is a *)
(* pipe, a reader thread frames its lines, forwards them to the original   *)
(* stderr and turns a failed TLS handshake into an event of the listener   *)
(* it happened on, and a second thread logs the events.  Applications of   *)
(* one process follow one another over the same pipe: a stop first drains  *)
(* the pipe with a marker and the queue with a barrier, each for a bounded *)
(* time.                                                                   *)
(*                                                                         *)
(* A write is one record of the library, atomic in the pipe, of one line   *)
(* or of two; the reader's buffer may end in the middle of a line.         *)
(***************************************************************************)
EXTENDS Naturals, Sequences, FiniteSets

CONSTANTS
  NativeServers, \* run of the process -> the gRPC servers of its application
  PortOf,        \* server -> the port it listens on
  Traces,        \* values of GRPC_TRACE the program may be started with
  QueueCapacity, \* queue_capacity
  RatePerSecond, \* rate_limit_per_second
  Scripts,       \* bound: what is written, in order, in an execution
  MaxFlushMisses \* bound: drains and barriers that time out

AppRuns == DOMAIN NativeServers
NativeServer == UNION {NativeServers[r] : r \in AppRuns}
Nowhere == "nobody"
Unset == {"unset"}
Marker == [kind |-> "marker"]

\* "one", "two": a failed handshake on as many lines; "broken": a record without its end;
\* "huge": too long; "trace": what the tracing adds; "plain": the application's own stderr
WriteKind == {"one", "two", "broken", "huge", "trace", "plain"}
LinesOf(w) == IF w.kind = "two" THEN 2 ELSE 1

VARIABLES
  script,    \* what is still to be written
  trace,     \* GRPC_TRACE, as the set of its flags
  ownTrace,  \* _XIME_HANDSHAKER_TRACE: the value the framework gave it
  quiets,    \* what `quiet` was in each process that prepared the capture
  writes,    \* records written so far
  natPipe,   \* the pipe: writes and drain markers
  framer,    \* NativeFramer: line and half it is at, active record
  console,   \* halves of lines forwarded to the original stderr
  counts,    \* GrpcHandshakeLoggingStats
  queued,    \* events and barriers of the queue
  logged,    \* events logged
  appRun,    \* the application: its number, phase, and what it waits for
  atServer, \* server -> "closed", "open", "stopped"
  registry,  \* _listeners
  drain      \* _drain_pending, _drained and the markers threads are to write

nativeVars == <<script, trace, ownTrace, quiets, writes, natPipe, framer, console, counts,
                queued, logged, appRun, atServer, registry, drain>>

envVars == <<trace, ownTrace, quiets>>
writeVars == <<script, writes>>
readerVars == <<framer, console>>
eventVars == <<queued, logged>>
appVars == <<appRun, atServer, registry>>

Counter == {"received", "emitted", "limited", "dropped", "truncated", "unparsed",
            "unregistered", "inactive", "timeouts", "barriers"}
FreshFramer == [line |-> 1, half |-> FALSE, sent |-> FALSE, active |-> FALSE, discard |-> FALSE]
Count(c) == counts' = [counts EXCEPT ![c] = @ + 1]

NativeInit ==
  /\ script \in Scripts
  /\ trace \in Traces /\ ownTrace = Unset /\ quiets = <<>>
  /\ writes = <<>> /\ natPipe = <<>> /\ framer = FreshFramer /\ console = <<>>
  /\ counts = [c \in Counter |-> 0]
  /\ queued = <<>> /\ logged = {}
  /\ appRun = [number |-> 0, active |-> FALSE, phase |-> "unprepared"]
  /\ atServer = [s \in NativeServer |-> "closed"] /\ registry = {}
  /\ drain = [pending |-> FALSE, drained |-> FALSE, threads |-> 0]

-----------------------------------------------------------------------------
(* Preparation, in the supervisor and then in the worker it spawns         *)

Quiet == ownTrace = trace \/ trace \intersect {"handshaker", "all"} = {}

(* prepare_grpc_handshake_logging: the tracing is switched on in the       *)
(* environment, which spawned workers inherit                              *)
Prepare ==
  /\ appRun.phase = "unprepared"
  /\ trace \intersect {"-handshaker", "-all"} = {}
  /\ quiets' = Append(quiets, Quiet)
  /\ trace' = trace \union {"handshaker"}
  /\ ownTrace' = IF Quiet THEN trace' ELSE ownTrace
  /\ appRun' = [appRun EXCEPT !.phase = IF Len(quiets) = 0 THEN "unprepared" ELSE "down"]
  /\ UNCHANGED <<writeVars, natPipe, readerVars, counts, eventVars, atServer, registry, drain>>

(* tracing was switched off on purpose, or the pipe could not be made: the *)
(* environment is as before                                                *)
PrepareFails ==
  /\ appRun.phase = "unprepared"
  /\ appRun' = [appRun EXCEPT !.phase = "refused"]
  /\ UNCHANGED <<envVars, writeVars, natPipe, readerVars, counts, eventVars, atServer, registry,
                 drain>>

-----------------------------------------------------------------------------
(* The library and the application write to descriptor 2                   *)

Write(s) ==
  /\ script # <<>> /\ appRun.phase # "unprepared" /\ appRun.phase # "refused"
  /\ IF Head(script) \in {"one", "two"} THEN s \in NativeServer /\ atServer[s] = "open"
     ELSE s = Nowhere
  /\ writes' = Append(writes, [kind |-> Head(script), server |-> s])
  /\ script' = Tail(script)
  /\ natPipe' = Append(natPipe, [kind |-> "write", id |-> Len(writes')])
  /\ UNCHANGED <<envVars, readerVars, counts, eventVars, appVars, drain>>

(* signal_reader: a thread of its own writes the marker                    *)
WriteMarker ==
  /\ drain.threads > 0
  /\ natPipe' = Append(natPipe, Marker)
  /\ drain' = [drain EXCEPT !.threads = @ - 1]
  /\ UNCHANGED <<envVars, writeVars, readerVars, counts, eventVars, appVars>>

-----------------------------------------------------------------------------
(* The reader thread                                                       *)

AtWrite == natPipe # <<>> /\ Head(natPipe).kind = "write"
Current == Head(natPipe).id
Kind == writes[Current].kind
Prefixed == Kind # "plain" /\ framer.line = 1
Forward(halves) == console' = console \o [i \in 1 .. Len(halves) |->
                                            <<Current, framer.line, halves[i]>>]

(* feed: the buffer ends in the middle of a line.  What may be the start   *)
(* of a record is held back, what is not is forwarded at once, and what is *)
(* longer than max_record_bytes is forwarded and no record any more        *)
ReadHalf ==
  /\ AtWrite /\ ~framer.half
  /\ framer' = [framer EXCEPT !.half = TRUE,
                              !.sent = ~Prefixed \/ Kind = "huge",
                              !.discard = Kind = "huge",
                              !.active = @ /\ Kind # "huge"]
  /\ IF framer'.sent THEN Forward(<<1>>) ELSE UNCHANGED console
  /\ IF Kind = "huge" THEN Count("truncated") ELSE UNCHANGED counts
  /\ UNCHANGED <<envVars, writeVars, natPipe, eventVars, appVars, drain>>

(* _record: the event of a failure, for the listener of this application   *)
(* on the port it names; `c` are the counters before it                    *)
Matches == {l \in registry : l.run = appRun.number
                             /\ PortOf[l.server] = PortOf[writes[Current].server]}
Event == [kind |-> "event", id |-> Current, run |-> appRun.number,
          server |-> IF Cardinality(Matches) = 1
                       THEN (CHOOSE l \in Matches : TRUE).server ELSE Nowhere]
Record(c) ==
  LET outcome == IF ~appRun.active THEN "inactive"
                 ELSE IF Matches = {} THEN "unregistered"
                 ELSE IF Len(queued) = QueueCapacity THEN "dropped" ELSE "received"
  IN /\ counts' = [c EXCEPT ![outcome] = @ + 1]
     /\ queued' = IF outcome = "received" THEN Append(queued, Event) ELSE queued

(* _feed_plain and _line: a line that starts a record replaces one that    *)
(* never ended; `quiet` keeps what the tracing added from the console      *)
Suppressed == Prefixed /\ quiets[Len(quiets)]
Unended == Prefixed /\ framer.active
Ends == Kind = "one" \/ (Kind = "two" /\ framer.line = 2)
LineCounts == [counts EXCEPT !["unparsed"] = @ + IF Unended THEN 1 ELSE 0]

ReadLine ==
  /\ AtWrite /\ Kind # "huge"
  /\ IF Suppressed THEN UNCHANGED console
     ELSE Forward(IF framer.sent THEN <<2>> ELSE <<1, 2>>)
  /\ IF Ends THEN Record(LineCounts) ELSE counts' = LineCounts /\ UNCHANGED queued
  /\ framer' = [FreshFramer EXCEPT
       !.active = ~Ends /\ (Kind \in {"two", "broken"} \/ (framer.active /\ ~Prefixed)),
       !.line = IF framer.line < LinesOf(writes[Current]) THEN 2 ELSE 1]
  /\ natPipe' = IF framer'.line = 2 THEN natPipe ELSE Tail(natPipe)
  /\ UNCHANGED <<envVars, writeVars, logged, appVars, drain>>

(* the rest of a line that is too long                                     *)
ReadHuge ==
  /\ AtWrite /\ Kind = "huge"
  /\ Forward(IF framer.discard THEN <<2>> ELSE <<1, 2>>)
  /\ IF framer.discard THEN UNCHANGED counts ELSE Count("truncated")
  /\ framer' = FreshFramer /\ natPipe' = Tail(natPipe)
  /\ UNCHANGED <<envVars, writeVars, eventVars, appVars, drain>>

(* the marker: everything written before it was read                       *)
ReadMarker ==
  /\ natPipe # <<>> /\ Head(natPipe) = Marker
  /\ natPipe' = Tail(natPipe) /\ framer' = FreshFramer
  /\ IF framer.active THEN Count("unparsed") ELSE UNCHANGED counts
  /\ drain' = [drain EXCEPT !.drained = TRUE]
  /\ UNCHANGED <<envVars, writeVars, console, eventVars, appVars>>

-----------------------------------------------------------------------------
(* The thread that logs: _dispatch_forever, _emit                          *)

(* an event of another run is dropped; one of this run is logged, unless   *)
(* rate_limit_per_second others were in the same second                    *)
LogEvent(event) ==
  IF ~(appRun.active /\ event.run = appRun.number) THEN Count("inactive") /\ UNCHANGED logged
  ELSE \/ Count("emitted") /\ logged' = logged \union {<<event.id, event.server>>}
       \/ /\ Cardinality(logged) >= RatePerSecond
          /\ Count("limited") /\ UNCHANGED logged

Dispatch ==
  /\ queued # <<>> /\ queued' = Tail(queued)
  /\ LET item == Head(queued)
     IN IF item.kind = "event" THEN LogEvent(item) /\ UNCHANGED appRun
        ELSE /\ appRun' = IF appRun.phase = "barrier" /\ item.run = appRun.number
                         THEN [appRun EXCEPT !.phase = "flushed"] ELSE appRun
             /\ UNCHANGED <<counts, logged>>
  /\ UNCHANGED <<envVars, writeVars, natPipe, readerVars, atServer, registry, drain>>

-----------------------------------------------------------------------------
(* The application: attach, its listeners, detach                          *)

(* attach                                                                  *)
Attach ==
  /\ appRun.phase = "down" /\ appRun.number + 1 \in AppRuns /\ ~appRun.active
  /\ appRun' = [number |-> appRun.number + 1, active |-> TRUE, phase |-> "up"]
  /\ UNCHANGED <<envVars, writeVars, natPipe, readerVars, counts, eventVars, atServer, registry,
                 drain>>

(* GrpcAdapter.start: the port is bound, the listener known, then served   *)
StartServer(s) ==
  /\ appRun.phase = "up" /\ s \in NativeServers[appRun.number] /\ atServer[s] = "closed"
  /\ registry' = registry \union {[server |-> s, run |-> appRun.number]}
  /\ atServer' = [atServer EXCEPT ![s] = "open"]
  /\ UNCHANGED <<envVars, writeVars, natPipe, readerVars, counts, eventVars, appRun, drain>>

(* _drain_input: a marker of its own, unless an earlier one is still under *)
(* way; then that one is waited for                                        *)
DrainStarts ==
  drain' = IF drain.pending /\ ~drain.drained THEN drain
           ELSE [pending |-> TRUE, drained |-> FALSE, threads |-> drain.threads + 1]

(* GrpcAdapter.stop: the server is stopped, then its listener unregistered *)
StopServer(s) ==
  /\ appRun.phase = "up" /\ atServer[s] = "open"
  /\ atServer' = [atServer EXCEPT ![s] = "stopped"]
  /\ appRun' = [appRun EXCEPT !.phase = "unregister"] /\ DrainStarts
  /\ UNCHANGED <<envVars, writeVars, natPipe, readerVars, counts, eventVars, registry>>

(* _stop_logging: the adapters have stopped                                *)
StopLogging ==
  /\ appRun.phase = "up" /\ \A s \in NativeServers[appRun.number] : atServer[s] # "open"
  /\ appRun' = [appRun EXCEPT !.phase = "detach"] /\ DrainStarts
  /\ UNCHANGED <<envVars, writeVars, natPipe, readerVars, counts, eventVars, atServer, registry>>

Misses == counts["timeouts"] + counts["barriers"]

(* the drain ends or two seconds are over: unregister pops the listener;   *)
(* detach forgets the listeners of the run and asks for the barrier        *)
DrainEnds ==
  /\ appRun.phase \in {"unregister", "detach"}
  /\ \/ drain.drained /\ UNCHANGED counts
     \/ ~drain.drained /\ Misses < MaxFlushMisses /\ Count("timeouts")
  /\ registry' = IF appRun.phase = "unregister"
                   THEN {l \in registry : atServer[l.server] # "stopped"}
                   ELSE {l \in registry : l.run # appRun.number}
  /\ appRun' = [appRun EXCEPT !.phase = IF @ = "detach" THEN "ask" ELSE "up"]
  /\ UNCHANGED <<envVars, writeVars, natPipe, readerVars, eventVars, atServer, drain>>

(* _barrier: asked for if the queue has room within a tenth of a second    *)
AskBarrier ==
  /\ appRun.phase = "ask"
  /\ \/ /\ Len(queued) < QueueCapacity
        /\ queued' = Append(queued, [kind |-> "barrier", run |-> appRun.number])
        /\ appRun' = [appRun EXCEPT !.phase = "barrier"] /\ UNCHANGED counts
     \/ /\ Len(queued) = QueueCapacity /\ Misses < MaxFlushMisses
        /\ appRun' = [appRun EXCEPT !.phase = "flushed"] /\ Count("barriers")
        /\ UNCHANGED queued
  /\ UNCHANGED <<envVars, writeVars, natPipe, readerVars, logged, atServer, registry,
                 drain>>

BarrierTimesOut ==
  /\ appRun.phase = "barrier" /\ Misses < MaxFlushMisses
  /\ appRun' = [appRun EXCEPT !.phase = "flushed"] /\ Count("timeouts")
  /\ UNCHANGED <<envVars, writeVars, natPipe, readerVars, eventVars, atServer, registry, drain>>

Detach ==
  /\ appRun.phase = "flushed"
  /\ appRun' = [appRun EXCEPT !.active = FALSE, !.phase = "down"]
  /\ UNCHANGED <<envVars, writeVars, natPipe, readerVars, counts, eventVars, atServer, registry,
                 drain>>

NativeNext ==
  \/ Prepare \/ PrepareFails \/ WriteMarker
  \/ \E s \in NativeServer \union {Nowhere} : Write(s)
  \/ ReadHalf \/ ReadLine \/ ReadHuge \/ ReadMarker
  \/ Dispatch
  \/ Attach \/ StopLogging \/ DrainEnds \/ AskBarrier \/ BarrierTimesOut \/ Detach
  \/ \E s \in NativeServer : StartServer(s) \/ StopServer(s)

-----------------------------------------------------------------------------
(* Values stay in their ranges.                                            *)
NativeTypeOK ==
  /\ Len(queued) <= QueueCapacity
  /\ \A w \in 1 .. Len(writes) : writes[w].kind \in WriteKind
  /\ \A i \in DOMAIN natPipe : natPipe[i].kind \in {"write", "marker"}
  /\ framer.line \in {1, 2}
  /\ counts \in [Counter -> Nat]
  /\ appRun.phase \in {"unprepared", "refused", "down", "up", "unregister", "detach", "ask",
                    "barrier", "flushed"}
  /\ atServer \in [NativeServer -> {"closed", "open", "stopped"}]
  /\ \A l \in registry : l.server \in NativeServer

(* A failure whose lines were read in full is a write before the pipe's.   *)
WasRead(w) == \A i \in DOMAIN natPipe : natPipe[i] # [kind |-> "write", id |-> w]
Waiting == {i \in DOMAIN queued : queued[i].kind = "event"}

(* Every well-formed failure that was read is under exactly one heading:   *)
(* logged, waiting to be, or counted as lost; what precedes it in the      *)
(* stream, whole or not, never swallows it (_grpc_parser.py _line,         *)
(* _grpc_native.py _record, _emit).                                        *)
EveryFailureCounts ==
  Cardinality({w \in 1 .. Len(writes) : writes[w].kind \in {"one", "two"} /\ WasRead(w)})
    = counts["unregistered"] + counts["inactive"] + counts["dropped"] + counts["limited"]
      + counts["emitted"] + Cardinality(Waiting)

(* The original stderr gets every half line once and in order, except what *)
(* the framework's own tracing added.                                      *)
ConsoleIsWhole ==
  /\ \A i, j \in DOMAIN console : i < j =>
       \/ console[i][1] < console[j][1]
       \/ console[i][1] = console[j][1] /\ console[i][2] < console[j][2]
       \/ /\ console[i][1] = console[j][1] /\ console[i][2] = console[j][2]
          /\ console[i][3] < console[j][3]
  /\ \A w \in 1 .. Len(writes) : WasRead(w) =>
       \A n \in 1 .. LinesOf(writes[w]), h \in {1, 2} :
         (\E i \in DOMAIN console : console[i] = <<w, n, h>>)
         <=> (n = 2 \/ writes[w].kind \in {"plain", "huge"} \/ ~quiets[Len(quiets)])

(* A logged failure names the server it happened on; and unless a flush    *)
(* was given up, a stop loses no failure of a server that was atServer    *)
(* when it was written: the marker follows it, and the barrier its event.  *)
FailuresAreAttributed ==
  Misses = 0 =>
    /\ \A e \in logged : e[2] = writes[e[1]].server
    /\ counts["unregistered"] = 0 /\ counts["inactive"] = 0

(* A worker reads its inherited environment as its supervisor read its     *)
(* own: the tracing that the framework switched on is not taken for the    *)
(* user's (_grpc.py _OWNED_TRACE).                                         *)
QuietIsInherited == \A i, j \in DOMAIN quiets : quiets[i] = quiets[j]

NativeLogIsSound ==
  EveryFailureCounts /\ ConsoleIsWhole /\ FailuresAreAttributed /\ QuietIsInherited
=============================================================================
