----------------------------- MODULE ModbusPoll -----------------------------
(***************************************************************************)
(* The Modbus client adapter: adapters/modbus/_planner.py, _adapter.py,    *)
(* _client.py and _runtime.py.  The fields of a model are merged into read *)
(* commands; a poll loop runs the commands one after another, while the    *)
(* device goes on changing, and hands the reading and the fields that      *)
(* changed to handlers, of which max_concurrency run at a time.            *)
(***************************************************************************)
EXTENDS Integers, Sequences, SequencesExt, FiniteSets

CONSTANTS
  Layouts,         \* models: each a sequence of fields of one area, by address
  MaxGap,          \* modbus.max_gap
  ReadLimit,       \* MAX_REGISTERS_PER_READ
  Watches,         \* number of @on_change handlers of the first field
  Deadband,        \* their deadband
  MaxConcurrency,  \* modbus.max_concurrency
  MaxValue,        \* bound: the values of the device
  MaxMoves         \* bound: how often the device changes

ASSUME PollAssumption ==
  /\ MaxGap \in Nat /\ ReadLimit \in Nat \ {0} /\ MaxConcurrency \in Nat \ {0} /\ Deadband \in Nat
  /\ Watches \in Nat
  /\ \A fields \in Layouts : Len(fields) > 0

VARIABLES
  fields,     \* the fields of the model
  device,     \* the value that every field of the device has now
  moves,      \* how often it has changed
  online,     \* the connection carries requests
  phase,      \* the poll loop: "idle", "read", "dispatch", "ended"
  image,      \* payloads: for each command already run, the value of its registers
  reading,    \* the decoded model, as the value of each field
  previous,   \* _run_group's previous, of the watched field
  fire,       \* handlers still to be dispatched in this cycle
  tasks,      \* handlers that run
  reported    \* reported[w]: what the handler of watch w was given, with what it followed

pollVars == <<fields, device, moves, online, phase, image, reading, previous, fire, tasks, reported>>

NeverRead == -1
-----------------------------------------------------------------------------
(* plan_reads                                                              *)

EndOf(field) == field.address + field.size
ReadOf(start, end) == [start |-> start, end |-> end]

\* _plan_area: a field joins the command before it if the gap is small and the
\* command stays within the limit.
Furthest(a, b) == IF a > b THEN a ELSE b
JoinsByGap(c, f) == f.address - c.end <= MaxGap                           \* mutant
Joins(c, f) == f.address - c.end <= MaxGap /\ EndOf(f) - c.start <= ReadLimit

PlanReads(ordered) ==
  LET Extend(commands, f) ==
        LET c == Last(commands) IN
        IF Joins(c, f) THEN Append(Front(commands), ReadOf(c.start, Furthest(c.end, EndOf(f))))
        ELSE Append(commands, ReadOf(f.address, EndOf(f)))
  IN FoldLeft(Extend, <<ReadOf(ordered[1].address, EndOf(ordered[1]))>>, Tail(ordered))

Plan == PlanReads(fields)
Covers(c, f) == c.start <= f.address /\ EndOf(f) <= c.end

\* _slice_for: the first command whose registers hold the whole field.
Decode(f) == image[CHOOSE i \in DOMAIN image : Covers(Plan[i], f)
                                              /\ \A j \in 1 .. i - 1 : ~Covers(Plan[j], f)]
-----------------------------------------------------------------------------
PollInit ==
  /\ fields \in Layouts /\ device = 0 /\ moves = 0 /\ online = TRUE
  /\ phase = "idle" /\ image = <<>> /\ reading = <<>>
  /\ previous = NeverRead /\ fire = <<>> /\ tasks = 0
  /\ reported = [w \in 1 .. Watches |-> <<>>]

\* All registers of the device change at one instant.
DeviceMoves ==
  /\ moves < MaxMoves /\ moves' = moves + 1
  /\ \E v \in 0 .. MaxValue : v # device /\ device' = v
  /\ UNCHANGED <<fields, online, phase, image, reading, previous, fire, tasks, reported>>

\* The link fails and pymodbus reconnects; the adapter keeps its client attached.
LinkFlips ==
  /\ online' = ~online
  /\ UNCHANGED <<fields, device, moves, phase, image, reading, previous, fire, tasks, reported>>

CycleBegins ==
  /\ phase = "idle" /\ phase' = "read" /\ image' = <<>>
  /\ UNCHANGED <<fields, device, moves, online, reading, previous, fire, tasks, reported>>

\* One command: it reads its registers at one instant, or the cycle fails, is logged
\* and the loop sleeps.
CommandRuns ==
  /\ phase = "read" /\ Len(image) < Len(Plan)
  /\ IF online THEN image' = Append(image, device) /\ UNCHANGED phase
     ELSE phase' = "idle" /\ UNCHANGED image
  /\ UNCHANGED <<fields, device, moves, online, reading, previous, fire, tasks, reported>>

\* decode_device; then the @poll handler is dispatched, then _fire_changes compares the
\* watched field with the reading before.  `previous` has one entry for a field: what
\* the second watch of the field compares is the value that the first one stored.
Moved(before, now) == Furthest(before - now, now - before) > Deadband
LastValue(w, now) == IF w = 1 THEN previous ELSE now
Changes(now) == SelectSeq([w \in 1 .. Watches |-> [watch |-> w, before |-> LastValue(w, now), now |-> now]],
                          LAMBDA c : c.before # NeverRead /\ Moved(c.before, c.now))
CycleDecodes ==
  /\ phase = "read" /\ Len(image) = Len(Plan) /\ phase' = "dispatch"
  /\ reading' = [i \in DOMAIN fields |-> Decode(fields[i])]
  /\ previous' = Decode(fields[1])
  /\ fire' = <<[watch |-> 0]>> \o Changes(Decode(fields[1]))
  /\ UNCHANGED <<fields, device, moves, online, image, tasks, reported>>

\* _dispatch: the loop waits for a free place before it creates the task.
PlaceIsFree == tasks < MaxConcurrency
Dispatches ==
  /\ phase = "dispatch" /\ fire # <<>> /\ PlaceIsFree
  /\ fire' = Tail(fire) /\ tasks' = tasks + 1
  /\ reported' = IF Head(fire).watch = 0 THEN reported
                 ELSE [reported EXCEPT ![Head(fire).watch] = Append(@, <<Head(fire).before, Head(fire).now>>)]
  /\ UNCHANGED <<fields, device, moves, online, phase, image, reading, previous>>

HandlerReturns ==
  /\ tasks > 0 /\ tasks' = tasks - 1
  /\ UNCHANGED <<fields, device, moves, online, phase, image, reading, previous, fire, reported>>

CycleEnds ==
  /\ phase = "dispatch" /\ fire = <<>> /\ phase' = "idle"
  /\ UNCHANGED <<fields, device, moves, online, image, reading, previous, fire, tasks, reported>>

\* stop(): the running handlers are cancelled, the loop with its serve task.
Stops ==
  /\ phase # "ended" /\ phase' = "ended" /\ tasks' = 0
  /\ UNCHANGED <<fields, device, moves, online, image, reading, previous, fire, reported>>

PollNext ==
  \/ DeviceMoves \/ LinkFlips \/ CycleBegins \/ CommandRuns \/ CycleDecodes
  \/ Dispatches \/ HandlerReturns \/ CycleEnds \/ Stops

PollSpec == PollInit /\ [][PollNext]_pollVars
-----------------------------------------------------------------------------
PollTypeOK ==
  /\ fields \in Layouts /\ device \in 0 .. MaxValue /\ online \in BOOLEAN
  /\ phase \in {"idle", "read", "dispatch", "ended"} /\ Len(image) <= Len(Plan)
  /\ tasks \in 0 .. MaxConcurrency /\ previous \in NeverRead .. MaxValue

\* The reference for the plan: every field lies whole in a command, no command is
\* longer than the protocol allows, and every register of a command is within MaxGap
\* of a field of it.
PlanIsSound ==
  /\ \A i \in DOMAIN fields : \E j \in DOMAIN Plan : Covers(Plan[j], fields[i])
  /\ \A j \in DOMAIN Plan :
       /\ Plan[j].end - Plan[j].start <= ReadLimit
       /\ \A a \in Plan[j].start .. Plan[j].end - 1 :
            \E i \in DOMAIN fields : Covers(Plan[j], fields[i])
                                     /\ fields[i].address - MaxGap <= a /\ a < EndOf(fields[i]) + MaxGap

\* The fields that one command reads come from one instant of the device, whatever it
\* did between the commands and whatever cycles failed before.
ReadingsAreConsistent ==
  reading # <<>> => \A i, j \in DOMAIN fields, c \in DOMAIN Plan :
    Covers(Plan[c], fields[i]) /\ Covers(Plan[c], fields[j]) => reading[i] = reading[j]

PollIsSound == PlanIsSound /\ ReadingsAreConsistent
=============================================================================
