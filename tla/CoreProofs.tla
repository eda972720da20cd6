------------------------------ MODULE CoreProofs ------------------------------
(***************************************************************************)
(* What holds of startup, the container, the bus, the stores and the files *)
(* for every number of classes, threads, events, processes, tasks and      *)
(* failures: every event is dropped whole or delivered whole (EventBus),   *)
(* one process holds the lock (LmdbStore), a statement finds the session   *)
(* of its block (TransactionScope), components are built once and in order *)
(* (Container), an accepted configuration keeps every adapter reachable    *)
(* (Topology), no field number is given twice (ProtoNumbers), a main       *)
(* program is built, run and stopped whole (MainProgram), what is accepted *)
(* can be constructed and called (Wiring), objects and downloads are whole *)
(* (ObjectStore), no log record is lost uncounted (LogFile), and a living  *)
(* run keeps its blocks (SharedBlocks).  Each part defines its inductive   *)
(* invariant first, then has lemmas for its actions.                       *)
(***************************************************************************)
EXTENDS Parts, Container, EventBus, LmdbStore, TransactionScope,
        TLAPS, FiniteSetTheorems, FunctionTheorems, SequenceTheorems, WellFoundedInduction,
        NaturalsInduction

-----------------------------------------------------------------------------
(* The event bus *)

\* The tasks that count against the ceiling, of a set of tasks.
Ordinary(T) == {t \in T : t[1] \notin Exempt}

\* What is counted is finite and never more than the ceiling, and a handler that
\* runs is counted.  (Between the end of a handler and the callback of its task,
\* more is counted than runs.)
Counted ==
  /\ IsFiniteSet(pending) /\ inHandler \subseteq pending
  /\ Cardinality(Ordinary(pending)) <= MaxPending

\* What the bus keeps: the count, and outcomes that are true.
BusInv == outcome \in [Events -> {"unpublished", "no_handlers", "dropped", "scheduled"}]
          /\ Counted /\ OutcomeIsTrue

\* An event has one task for each of its handlers.
LEMMA TasksAreCounted ==
  ASSUME NEW e \in Events
  PROVE  IsFiniteSet(TasksOf(e)) /\ Cardinality(TasksOf(e)) = Handlers[e] /\ Handlers[e] \in Nat
<1>1. Handlers[e] \in Nat
  BY BusAssumption
<1>2. IsFiniteSet(1 .. Handlers[e]) /\ Cardinality(1 .. Handlers[e]) = Handlers[e]
  BY <1>1, FS_Interval
<1> DEFINE f == [h \in 1 .. Handlers[e] |-> <<e, h>>]
<1>3. f \in Bijection(1 .. Handlers[e], TasksOf(e))
  <2>1. f \in [1 .. Handlers[e] -> TasksOf(e)]
    BY DEF TasksOf
  <2>2. \A g, h \in 1 .. Handlers[e] : f[g] = f[h] => g = h
    OBVIOUS
  <2>3. \A t \in TasksOf(e) : \E h \in 1 .. Handlers[e] : f[h] = t
    BY DEF TasksOf
  <2> QED
    BY <2>1, <2>2, <2>3, Fun_IsBij
<1> QED
  BY <1>1, <1>2, <1>3, FS_Bijection DEF ExistsBijection

\* Two events share no task.
LEMMA TasksAreApart ==
  ASSUME NEW d \in Events, NEW e \in Events, d # e
  PROVE  TasksOf(d) \cap TasksOf(e) = {}
BY DEF TasksOf

\* An event is dropped as a whole, or all of its handlers are scheduled.
LEMMA PublishKeeps == ASSUME NEW e \in Events PROVE BusInv /\ Publish(e) => BusInv'
<1> SUFFICES ASSUME BusInv, Publish(e) PROVE BusInv'
  OBVIOUS
<1> USE DEF BusInv
<1>1. CASE inHandler' = inHandler /\ pending' = pending
  <2>1. outcome[e] = "unpublished" /\ UNCHANGED finished
    BY DEF Publish
  <2>2. PICK said \in {"no_handlers", "dropped"} : outcome' = [outcome EXCEPT ![e] = said]
    <3>1. CASE outcome' = [outcome EXCEPT ![e] = "scheduled"]
      <4>1. inHandler' = inHandler \cup TasksOf(e) /\ Handlers[e] > 0
        BY <3>1 DEF Publish
      <4>2. <<e, 1>> \in TasksOf(e)
        <5>1. 1 \in 1 .. Handlers[e]
          BY <4>1, TasksAreCounted
        <5> QED
          BY <5>1 DEF TasksOf
      <4>3. <<e, 1>> \notin inHandler
        BY <2>1, <4>2 DEF OutcomeIsTrue
      <4> QED
        BY <1>1, <4>1, <4>2, <4>3
    <3> QED
      BY <3>1 DEF Publish
  <2>3. \A d \in Events : outcome'[d] = "scheduled" <=> outcome[d] = "scheduled"
    BY <2>1, <2>2
  <2>4. OutcomeIsTrue'
    BY <1>1, <2>1, <2>3 DEF OutcomeIsTrue, TasksOf
  <2> QED
    BY <1>1, <2>2, <2>4 DEF Counted
<1>2. CASE /\ HasRoom(e) /\ outcome' = [outcome EXCEPT ![e] = "scheduled"]
           /\ inHandler' = inHandler \cup TasksOf(e) /\ pending' = pending \cup TasksOf(e)
  <2>1. outcome[e] = "unpublished" /\ UNCHANGED finished
    BY DEF Publish
  <2>2. IsFiniteSet(pending')
    BY <1>2, TasksAreCounted, FS_Union DEF Counted
  <2>3. Cardinality(Ordinary(pending')) <= MaxPending
    <3>1. CASE e \in Exempt
      <4>1. \A t \in TasksOf(e) : t[1] = e
        BY DEF TasksOf
      <4>2. Ordinary(pending') = Ordinary(pending)
        BY <1>2, <3>1, <4>1 DEF Ordinary
      <4> QED
        BY <4>2 DEF Counted
    <3>2. CASE e \notin Exempt
      <4>1. Cardinality(pending) + Handlers[e] <= MaxPending
        BY <1>2, <3>2 DEF HasRoom
      <4>2. Ordinary(pending') \subseteq pending \cup TasksOf(e)
        BY <1>2 DEF Ordinary
      <4>3. /\ IsFiniteSet(pending \cup TasksOf(e))
            /\ Cardinality(pending \cup TasksOf(e)) <= Cardinality(pending) + Handlers[e]
        <5>1. Cardinality(pending \cap TasksOf(e)) \in Nat
          BY TasksAreCounted, FS_Intersection, FS_CardinalityType DEF Counted
        <5>2. Cardinality(pending \cup TasksOf(e))
                = Cardinality(pending) + Handlers[e] - Cardinality(pending \cap TasksOf(e))
          BY TasksAreCounted, FS_Union DEF Counted
        <5>3. Cardinality(pending) \in Nat /\ Handlers[e] \in Nat
          BY TasksAreCounted, FS_CardinalityType DEF Counted
        <5> QED
          BY <1>2, <2>2, <5>1, <5>2, <5>3
      <4>4. Cardinality(Ordinary(pending')) <= Cardinality(pending \cup TasksOf(e))
        BY <4>2, <4>3, FS_Subset
      <4>5. /\ Cardinality(Ordinary(pending')) \in Nat /\ Cardinality(pending \cup TasksOf(e)) \in Nat
            /\ Cardinality(pending) \in Nat /\ Handlers[e] \in Nat
        BY <4>2, <4>3, FS_Subset, FS_CardinalityType, TasksAreCounted DEF Counted
      <4> QED
        BY <4>1, <4>3, <4>4, <4>5, BusAssumption
    <3> QED
      BY <3>1, <3>2
  <2>4. OutcomeIsTrue'
    <3>1. ASSUME NEW d \in Events
          PROVE  TasksOf(d) \cap (inHandler' \cup finished')
                   = IF outcome'[d] = "scheduled" THEN TasksOf(d) ELSE {}
      <4>1. CASE d = e
        BY <1>2, <4>1
      <4>2. CASE d # e
        <5>1. outcome'[d] = outcome[d] /\ TasksOf(d) \cap TasksOf(e) = {}
          BY <1>2, <4>2, TasksAreApart
        <5>2. TasksOf(d) \cap (inHandler' \cup finished') = TasksOf(d) \cap (inHandler \cup finished)
          BY <1>2, <2>1, <5>1
        <5> QED
          BY <5>1, <5>2 DEF OutcomeIsTrue
      <4> QED
        BY <4>1, <4>2
    <3> QED
      BY <3>1 DEF OutcomeIsTrue, TasksOf
  <2> QED
    BY <1>2, <2>2, <2>3, <2>4 DEF Counted
<1> QED
  BY <1>1, <1>2 DEF Publish

\* A handler ends, a callback runs: nothing is counted that was not.
LEMMA LeavingKeeps ==
  ASSUME BusInv, outcome' = outcome, pending' \subseteq pending, inHandler' \subseteq pending',
         inHandler' \cup finished' = inHandler \cup finished
  PROVE  BusInv'
<1> USE DEF BusInv
<1>1. IsFiniteSet(pending')
  BY FS_Subset DEF Counted
<1>2. Cardinality(Ordinary(pending')) <= MaxPending
  <2>1. Ordinary(pending') \subseteq Ordinary(pending) /\ Ordinary(pending) \subseteq pending
    BY DEF Ordinary
  <2>2. IsFiniteSet(Ordinary(pending))
    BY <2>1, FS_Subset DEF Counted
  <2>3. /\ Cardinality(Ordinary(pending')) <= Cardinality(Ordinary(pending))
        /\ IsFiniteSet(Ordinary(pending'))
    BY <2>1, <2>2, FS_Subset
  <2>4. Cardinality(Ordinary(pending')) \in Nat /\ Cardinality(Ordinary(pending)) \in Nat
    BY <2>2, <2>3, FS_CardinalityType
  <2> QED
    BY <2>3, <2>4, BusAssumption DEF Counted
<1>3. OutcomeIsTrue'
  BY DEF OutcomeIsTrue, TasksOf
<1> QED
  BY <1>1, <1>2, <1>3 DEF Counted

\* The end of a handler, and its callback, only lower the count.
LEMMA BusStepKeeps == BusInv /\ [BusNext]_busVars => BusInv'
<1> SUFFICES ASSUME BusInv, [BusNext]_busVars PROVE BusInv'
  OBVIOUS
<1>1. CASE \E e \in Events : Publish(e)
  BY <1>1, PublishKeeps
<1>2. ASSUME NEW e \in Events, NEW t \in TasksOf(e), BusHandlerEnds(t) \/ Discard(t) PROVE BusInv'
  <2>1. inHandler \subseteq pending
    BY DEF BusInv, Counted
  <2>2. /\ outcome' = outcome /\ pending' \subseteq pending /\ inHandler' \subseteq pending'
        /\ inHandler' \cup finished' = inHandler \cup finished
    BY <1>2, <2>1 DEF BusHandlerEnds, Discard, MayLeave
  <2> QED
    BY <2>2, LeavingKeeps
<1>3. CASE Drain \/ DrainReturns \/ UNCHANGED busVars
  <2>1. outcome' = outcome /\ pending' = pending /\ inHandler' = inHandler /\ finished' = finished
    BY <1>3 DEF Drain, DrainReturns, busVars
  <2>2. inHandler \subseteq pending
    BY DEF BusInv, Counted
  <2> QED
    BY <2>1, <2>2, LeavingKeeps
<1> QED
  BY <1>1, <1>2, <1>3 DEF BusNext

\* Whatever the order of publishers, handlers and callbacks, for any number of
\* events and handlers: the bus keeps its ceiling, and what publish answered is true
\* of every handler (bus.py:133-234).
THEOREM BusKeepsItsWord == BusSpec => []BusIsHonest
<1>1. BusInit => BusInv
  <2> SUFFICES ASSUME BusInit PROVE BusInv
    OBVIOUS
  <2>1. Ordinary(pending) = {} /\ pending = {}
    BY DEF BusInit, Ordinary
  <2>2. Counted
    BY <2>1, FS_EmptySet, BusAssumption DEF BusInit, Counted
  <2> QED
    BY <2>2 DEF BusInit, BusInv, OutcomeIsTrue
<1>2. BusInv => BusIsHonest
  <2> SUFFICES ASSUME BusInv PROVE BusIsHonest
    OBVIOUS
  <2>1. Ordinary(inHandler) \subseteq Ordinary(pending) /\ Ordinary(pending) \subseteq pending
    BY DEF BusInv, Counted, Ordinary
  <2>2. IsFiniteSet(Ordinary(pending))
    BY <2>1, FS_Subset DEF BusInv, Counted
  <2>3. /\ Cardinality(Ordinary(inHandler)) <= Cardinality(Ordinary(pending))
        /\ IsFiniteSet(Ordinary(inHandler))
    BY <2>1, <2>2, FS_Subset
  <2>4. Cardinality(Ordinary(inHandler)) \in Nat /\ Cardinality(Ordinary(pending)) \in Nat
    BY <2>2, <2>3, FS_CardinalityType
  <2>5. Cardinality(Ordinary(inHandler)) <= MaxPending
    BY <2>3, <2>4, BusAssumption DEF BusInv, Counted
  <2> QED
    BY <2>5 DEF BusInv, Counted, Ordinary, BusIsHonest, CeilingHolds
<1> QED
  BY <1>1, <1>2, BusStepKeeps, PTL DEF BusSpec

-----------------------------------------------------------------------------
(* The store and its lock *)

\* An operation of a process, and who was told that it holds the lock.
Operation == [kind : {"none", "claim", "fill", "drop", "unsettled"}, stamp : Nat, tries : 0 .. MaxTries]
Holds(p) == clock < lease[p]

\* Types, and the lock: who was told that it holds it reads its own stamp in the
\* record as long as its time is not over, so there is no second one.
StoreShape ==
  /\ clock \in Nat /\ deadline \in {NoLock} \cup Nat /\ lease \in [Procs -> Nat]
  /\ op \in [Procs -> Operation]
RecordIsHolders ==
  /\ \A p \in Procs : Holds(p) => deadline = lease[p]
  /\ \A p, q \in Procs : Holds(p) /\ Holds(q) => p = q
LeaseInv == StoreShape /\ RecordIsHolders

\* A retry is one more attempt, or the end of them.
LEMMA RetryIsTyped ==
  ASSUME NEW p \in Procs, op \in [Procs -> Operation], TryAgain(p), op[p].tries \in 1 .. MaxTries
  PROVE  /\ op' \in [Procs -> Operation]
         /\ \A q \in Procs : q # p => op'[q] = op[q]
         /\ op[p].tries = MaxTries => op'[p].kind = "unsettled" /\ op'[p].tries = MaxTries
         /\ op[p].tries # MaxTries => op'[p].kind = op[p].kind /\ op'[p].tries = op[p].tries + 1
<1>1. op[p] \in Operation
  OBVIOUS
<1>2. CASE op[p].tries = MaxTries
  <2>1. op' = [op EXCEPT ![p] = [op[p] EXCEPT !.kind = "unsettled"]]
    BY <1>2 DEF TryAgain
  <2> QED
    BY <1>1, <1>2, <2>1 DEF Operation, MaxTries
<1>3. CASE op[p].tries # MaxTries
  <2>1. op' = [op EXCEPT ![p] = [op[p] EXCEPT !.tries = op[p].tries + 1]]
    BY <1>3 DEF TryAgain
  <2>2. op[p].tries + 1 \in 0 .. MaxTries
    BY <1>3 DEF MaxTries
  <2> QED
    BY <1>1, <1>3, <2>1, <2>2 DEF Operation
<1> QED
  BY <1>2, <1>3

\* An operation that is under way has been tried, four times at most.
Tried == \A p \in Procs : op[p].kind # "none" => op[p].tries >= 1

\* A step that neither writes the record nor grants the lock, and takes no time back.
LEMMA LeaseUndisturbed ==
  ASSUME RecordIsHolders, StoreShape, StoreShape', clock' >= clock, lease' = lease,
         deadline' = deadline \/ deadline <= clock
  PROVE  RecordIsHolders'
<1>1. \A p \in Procs : Holds(p)' => Holds(p)
  BY DEF StoreShape, Holds
<1>2. \A p \in Procs : Holds(p) => deadline' = deadline
  BY DEF StoreShape, Holds, RecordIsHolders, NoLock
<1> QED
  BY <1>1, <1>2 DEF RecordIsHolders

\* Attempts are counted right by every step.
LEMMA OperationsAreTyped ==
  ASSUME StoreShape, Tried, [StoreNext]_storeVars
  PROVE  op' \in [Procs -> Operation] /\ Tried'
<1>1. op \in [Procs -> Operation]
  BY DEF StoreShape
<1>2. NoOp \in Operation
  BY DEF NoOp, Operation, MaxTries
<1>3. ASSUME NEW p \in Procs, op' = [op EXCEPT ![p] = NoOp]
      PROVE  op' \in [Procs -> Operation] /\ Tried'
  BY <1>1, <1>2, <1>3 DEF Tried, NoOp
<1>4. CASE op' = op
  BY <1>1, <1>4 DEF Tried
<1>5. ASSUME NEW p \in Procs, NEW kind \in {"claim", "fill", "drop"}, StoreBegin(p, kind)
      PROVE  op' \in [Procs -> Operation] /\ Tried'
  <2>1. PICK stamp \in Nat : op' = [op EXCEPT ![p] = [kind |-> kind, tries |-> 1, stamp |-> stamp]]
    <3>1. clock + TTL \in Nat
      BY StoreAssumption DEF StoreShape
    <3> QED
      BY <1>5, <3>1 DEF StoreBegin
  <2>2. [kind |-> kind, tries |-> 1, stamp |-> stamp] \in Operation
    BY DEF Operation, MaxTries
  <2> QED
    BY <1>1, <2>1, <2>2 DEF Tried
<1>6. ASSUME NEW p \in Procs, TryAgain(p), op[p].kind # "none"
      PROVE  op' \in [Procs -> Operation] /\ Tried'
  <2>1. op[p].tries \in 1 .. MaxTries
    BY <1>1, <1>6 DEF Tried, Operation
  <2>2. op'[p].tries >= 1
    BY <1>1, <1>6, <2>1, RetryIsTyped DEF MaxTries
  <2> QED
    BY <1>1, <1>6, <2>1, <2>2, RetryIsTyped DEF Tried
<1>7. ASSUME NEW p \in Procs, Adopt(p) \/ Grow(p)
      PROVE  op' \in [Procs -> Operation] /\ Tried'
  BY <1>3, <1>6, <1>7 DEF Adopt, Grow, Full
<1>8. ASSUME NEW p \in Procs, Commit(p) \/ Collect(p) \/ DeleteBatch(p)
      PROVE  op' \in [Procs -> Operation] /\ Tried'
  BY <1>3, <1>4, <1>8 DEF Commit, Collect, DeleteBatch
<1>9. CASE StoreTick \/ UNCHANGED storeVars
  BY <1>4, <1>9 DEF StoreTick, storeVars
<1> QED
  BY <1>5, <1>7, <1>8, <1>9 DEF StoreNext

\* No step gives the lock to a second process.
LEMMA LeaseKept == LeaseInv /\ Tried /\ [StoreNext]_storeVars => LeaseInv' /\ Tried'
<1> SUFFICES ASSUME LeaseInv, Tried, [StoreNext]_storeVars PROVE LeaseInv' /\ Tried'
  OBVIOUS
<1> USE DEF LeaseInv
<1>1. op' \in [Procs -> Operation] /\ Tried'
  BY OperationsAreTyped
<1>2. ASSUME clock' = clock, lease' = lease,
             deadline' = deadline \/ (deadline <= clock /\ deadline' = NoLock)
      PROVE  LeaseInv'
  <2>1. StoreShape'
    BY <1>1, <1>2 DEF StoreShape
  <2>2. clock \in Nat
    BY DEF StoreShape
  <2> QED
    BY <1>2, <2>1, <2>2, LeaseUndisturbed
<1>3. CASE StoreTick
  <2>1. clock' >= clock /\ StoreShape' /\ lease' = lease /\ deadline' = deadline
    BY <1>1, <1>3 DEF StoreTick, StoreShape
  <2> QED
    BY <1>1, <2>1, LeaseUndisturbed
<1>4. ASSUME NEW p \in Procs, Commit(p) PROVE LeaseInv'
  <2>1. CASE op[p].kind = "claim" /\ Expired
    <3>1. PICK stamp \in Nat : /\ deadline' = stamp /\ lease' = [lease EXCEPT ![p] = stamp]
                               /\ clock' = clock
      BY <1>4, <2>1 DEF Commit, StoreShape, Operation
    <3>2. StoreShape'
      BY <1>1, <3>1 DEF StoreShape
    <3>3. \A q \in Procs : ~Holds(q)
      <4>1. \A q \in Procs : Holds(q) => deadline = lease[q]
        BY DEF RecordIsHolders
      <4> QED
        BY <2>1, <4>1 DEF Expired, Holds, StoreShape, NoLock
    <3>4. \A q \in Procs : Holds(q)' => q = p
      BY <3>1, <3>3 DEF Holds, StoreShape
    <3>5. lease'[p] = deadline'
      BY <3>1 DEF StoreShape
    <3> QED
      BY <3>2, <3>4, <3>5 DEF RecordIsHolders
  <2>2. CASE ~(op[p].kind = "claim" /\ Expired)
    BY <1>2, <1>4, <2>2 DEF Commit
  <2> QED
    BY <2>1, <2>2
<1>5. ASSUME NEW p \in Procs, DeleteBatch(p) PROVE LeaseInv'
  BY <1>2, <1>5 DEF DeleteBatch, Deletes, Expired
<1>6. ASSUME NEW p \in Procs,
             (\E kind \in {"claim", "fill", "drop"} : StoreBegin(p, kind)) \/ Adopt(p) \/ Grow(p) \/ Collect(p)
      PROVE  LeaseInv'
  BY <1>2, <1>6 DEF StoreBegin, Adopt, Grow, Collect
<1>7. CASE UNCHANGED storeVars
  <2>1. clock' = clock /\ lease' = lease /\ deadline' = deadline
    BY <1>7 DEF storeVars
  <2> QED
    BY <1>1, <1>2, <2>1
<1> QED
  BY <1>1, <1>3, <1>4, <1>5, <1>6, <1>7 DEF StoreNext

\* The map grows by doubling, of whoever does it.
Doublings == {1, 2, 4, 8}

\* A process that has failed k times has a map of at least 2^k units, and it has not
\* failed with the largest.
Paid(p) ==
  /\ op[p].kind # "unsettled"
  /\ op[p].tries = 2 => mapped[p] >= 2
  /\ op[p].tries = 3 => mapped[p] >= 4
  /\ op[p].tries = 4 => mapped[p] >= 8
GrowthInv ==
  /\ mapped \in [Procs -> Doublings] /\ fileSize \in Doublings
  /\ \A p \in Procs : Paid(p)

\* A retry that leaves the process with a larger map.
LEMMA RetryPays ==
  ASSUME StoreShape, Tried, GrowthInv, NEW p \in Procs, op[p].kind # "none", TryAgain(p),
         NEW size \in Doublings, size > mapped[p], mapped' = [mapped EXCEPT ![p] = size],
         fileSize' = fileSize
  PROVE  GrowthInv'
<1>1. op[p].tries \in 1 .. MaxTries
  BY DEF StoreShape, Tried, Operation
<1>2. mapped' \in [Procs -> Doublings] /\ mapped'[p] = size /\ mapped[p] \in Doublings
      /\ \A q \in Procs : q # p => mapped'[q] = mapped[q]
  BY DEF GrowthInv
<1>3. op[p].tries # MaxTries
  BY <1>2 DEF GrowthInv, Paid, Doublings, MaxTries
<1>4. /\ \A q \in Procs : q # p => op'[q] = op[q]
      /\ op'[p].kind = op[p].kind /\ op'[p].tries = op[p].tries + 1
  BY <1>1, <1>3, RetryIsTyped DEF StoreShape
<1>5. op[p].tries \in {1, 2, 3}
  BY <1>1, <1>3 DEF MaxTries
<1>6. Paid(p)'
  BY <1>2, <1>4, <1>5 DEF GrowthInv, Paid, Doublings
<1>7. \A q \in Procs : q # p => Paid(q)'
  BY <1>2, <1>4 DEF GrowthInv, Paid
<1> QED
  BY <1>2, <1>6, <1>7 DEF GrowthInv

\* No step spends an attempt without a larger map.
LEMMA GrowthKept ==
  ASSUME TotalMax <= 8
  PROVE  LeaseInv /\ Tried /\ GrowthInv /\ [StoreNext]_storeVars => GrowthInv'
<1> SUFFICES ASSUME LeaseInv, Tried, GrowthInv, [StoreNext]_storeVars PROVE GrowthInv'
  OBVIOUS
<1> USE DEF LeaseInv
<1>1. ASSUME mapped' \in [Procs -> Doublings], fileSize' \in Doublings,
             \A q \in Procs : mapped'[q] >= mapped[q],
             \A q \in Procs : op'[q] = op[q] \/ (op'[q].kind # "unsettled" /\ op'[q].tries \in {0, 1})
      PROVE  GrowthInv'
  <2>1. ASSUME NEW q \in Procs PROVE Paid(q)'
    <3>1. mapped[q] \in Doublings /\ mapped'[q] \in Doublings /\ mapped'[q] >= mapped[q] /\ Paid(q)
      BY <1>1 DEF GrowthInv
    <3>2. CASE op'[q] = op[q]
      BY <3>1, <3>2 DEF Paid, Doublings
    <3>3. CASE op'[q].kind # "unsettled" /\ op'[q].tries \in {0, 1}
      BY <3>3 DEF Paid
    <3> QED
      BY <1>1, <3>2, <3>3
  <2> QED
    BY <1>1, <2>1 DEF GrowthInv
<1>2. /\ mapped \in [Procs -> Doublings] /\ fileSize \in Doublings
      /\ \A q \in Procs : mapped[q] >= mapped[q]
  BY DEF GrowthInv, Doublings
<1>3. ASSUME NEW p \in Procs, op' = [op EXCEPT ![p] = NoOp]
      PROVE  \A q \in Procs : op'[q] = op[q] \/ (op'[q].kind # "unsettled" /\ op'[q].tries \in {0, 1})
  BY <1>3 DEF StoreShape, NoOp
<1>4. ASSUME NEW p \in Procs, NEW kind \in {"claim", "fill", "drop"}, StoreBegin(p, kind) PROVE GrowthInv'
  <2>1. \A q \in Procs : op'[q] = op[q] \/ (op'[q].kind # "unsettled" /\ op'[q].tries \in {0, 1})
    BY <1>4 DEF StoreBegin, StoreShape
  <2>2. mapped' = mapped /\ fileSize' = fileSize
    BY <1>4 DEF StoreBegin
  <2> QED
    BY <1>1, <1>2, <2>1, <2>2
<1>5. ASSUME NEW p \in Procs, Adopt(p) PROVE GrowthInv'
  <2>1. /\ op[p].kind # "none" /\ fileSize > mapped[p] /\ mapped' = [mapped EXCEPT ![p] = fileSize]
        /\ TryAgain(p) /\ fileSize' = fileSize
    BY <1>5 DEF Adopt, Resized
  <2> QED
    BY <1>2, <2>1, RetryPays
<1>6. ASSUME NEW p \in Procs, Grow(p) PROVE GrowthInv'
  <2>1. CASE Grown(p) > TotalMax
    <3>1. op' = [op EXCEPT ![p] = NoOp] /\ mapped' = mapped /\ fileSize' = fileSize
      BY <1>6, <2>1 DEF Grow
    <3> QED
      BY <1>1, <1>2, <1>3, <3>1
  <2>2. CASE ~(Grown(p) > TotalMax)
    <3>1. /\ op[p].kind # "none" /\ mapped' = [mapped EXCEPT ![p] = 2 * mapped[p]]
          /\ TryAgain(p) /\ fileSize' = fileSize
      BY <1>6, <2>2 DEF Grow, Grown, Full
    <3>2. 2 * mapped[p] \in Doublings /\ 2 * mapped[p] > mapped[p]
      BY <1>2, <2>2, StoreAssumption DEF Grown, Doublings
    <3> QED
      BY <3>1, <3>2, RetryPays
  <2> QED
    BY <2>1, <2>2
<1>7. ASSUME NEW p \in Procs, Commit(p) PROVE GrowthInv'
  <2>1. op' = [op EXCEPT ![p] = NoOp] /\ mapped' = mapped /\ fileSize' = Larger(fileSize, mapped[p])
    BY <1>7 DEF Commit
  <2>2. fileSize' \in Doublings
    BY <1>2, <2>1 DEF Larger
  <2> QED
    BY <1>1, <1>2, <1>3, <2>1, <2>2
<1>8. ASSUME NEW p \in Procs, Collect(p) PROVE GrowthInv'
  <2>1. op' = op /\ fileSize' = fileSize
        /\ (mapped' = mapped \/ (fileSize > mapped[p] /\ mapped' = [mapped EXCEPT ![p] = fileSize]))
    BY <1>8 DEF Collect, Resized
  <2>2. mapped' \in [Procs -> Doublings] /\ \A q \in Procs : mapped'[q] >= mapped[q]
    BY <1>2, <2>1 DEF Doublings
  <2> QED
    BY <1>1, <1>2, <2>1, <2>2
<1>9. ASSUME NEW p \in Procs, DeleteBatch(p) PROVE GrowthInv'
  <2>1. op' = op /\ mapped' = mapped /\ fileSize' \in {fileSize, Larger(fileSize, mapped[p])}
    BY <1>9 DEF DeleteBatch
  <2>2. fileSize' \in Doublings
    BY <1>2, <2>1 DEF Larger
  <2> QED
    BY <1>1, <1>2, <2>1, <2>2
<1>10. CASE StoreTick \/ UNCHANGED storeVars
  BY <1>1, <1>2, <1>10 DEF StoreTick, storeVars
<1> QED
  BY <1>4, <1>5, <1>6, <1>7, <1>8, <1>9, <1>10 DEF StoreNext

\* A store begins with no operation and no holder.
LEMMA StoreInitHolds == StoreInit => LeaseInv /\ Tried /\ GrowthInv
<1> SUFFICES ASSUME StoreInit PROVE LeaseInv /\ Tried /\ GrowthInv
  OBVIOUS
<1>1. NoOp \in Operation /\ NoOp.kind = "none" /\ NoOp.tries = 0
  BY DEF NoOp, Operation, MaxTries
<1>2. StoreShape /\ \A p \in Procs : ~Holds(p)
  BY <1>1 DEF StoreInit, StoreShape, Holds
<1> QED
  BY <1>1, <1>2 DEF StoreInit, LeaseInv, RecordIsHolders, Tried, GrowthInv, Paid, Doublings

\* What the two theorems about the store share.
LEMMA LeaseInvHolds == StoreSpec => [](LeaseInv /\ Tried)
BY StoreInitHolds, LeaseKept, PTL DEF StoreSpec

\* Of one process at most was it said that it holds the lock now, however its record
\* expires, is written afresh or is swept, and however the file grows (_store.py:298-385).
THEOREM LockHasOneHolder == StoreSpec => []OneHolder
<1>1. LeaseInv => OneHolder
  <2> SUFFICES ASSUME LeaseInv PROVE Cardinality({p \in Procs : Holds(p)}) <= 1
    BY DEF OneHolder, Holds
  <2>1. CASE \A p \in Procs : ~Holds(p)
    <3>1. {p \in Procs : Holds(p)} = {}
      BY <2>1
    <3> QED
      BY <3>1, FS_EmptySet
  <2>2. ASSUME NEW p \in Procs, Holds(p) PROVE Cardinality({q \in Procs : Holds(q)}) <= 1
    <3>1. {q \in Procs : Holds(q)} = {p}
      BY <2>2 DEF LeaseInv, RecordIsHolders
    <3> QED
      BY <3>1, FS_Singleton
  <2> QED
    BY <2>1, <2>2
<1> QED
  BY <1>1, LeaseInvHolds, PTL

\* With a ceiling of eight units no operation runs out of attempts either: each one
\* that fails has left its process with a map twice as large (_env.py:336-413).
THEOREM StoreSettles == TotalMax <= 8 => (StoreSpec => []StoreIsSound)
<1> SUFFICES ASSUME TotalMax <= 8 PROVE StoreSpec => []StoreIsSound
  OBVIOUS
<1>1. GrowthInv => OperationsSettle
  BY DEF GrowthInv, Paid, OperationsSettle
<1>2. LeaseInv /\ Tried /\ GrowthInv /\ [StoreNext]_storeVars => GrowthInv'
  BY GrowthKept
<1> QED
  BY <1>1, <1>2, LockHasOneHolder, LeaseInvHolds, StoreInitHolds, PTL DEF StoreSpec, StoreIsSound

-----------------------------------------------------------------------------
(* Transaction scopes *)

\* Sessions, the blocks on a task's stack, and which block owns a session.
Session == 1 .. MaxSessions
ABlock  == [kind : {"transaction", "read"}, own : 0 .. MaxSessions, before : 0 .. MaxSessions]
Owns(t, i, n) == i \in DOMAIN openBlocks[t] /\ openBlocks[t][i].own = n

\* Types.
ScopeShape ==
  /\ current \in [ScopeTasks -> 0 .. MaxSessions] /\ inherited \in [ScopeTasks -> 0 .. MaxSessions]
  /\ openBlocks \in [ScopeTasks -> Seq(ABlock)]
  /\ sessionState \in [Session -> {"unused", "idle", "active", "closed"}]
  /\ stray \in SUBSET Session

\* The token that a block will put back names what was in force below it.
TokensAreRight ==
  \A t \in ScopeTasks : \A k \in DOMAIN openBlocks[t] : openBlocks[t][k].own # NoSession =>
    InForce(openBlocks[t], inherited[t], k - 1, openBlocks[t][k].before)

\* Nobody names a session that does not exist yet, and one block owns it.
NamesExist ==
  \A t \in ScopeTasks :
    /\ current[t] # NoSession => sessionState[current[t]] # "unused"
    /\ \A k \in DOMAIN openBlocks[t] :
         openBlocks[t][k].before # NoSession => sessionState[openBlocks[t][k].before] # "unused"
OwnersAreApart ==
  \A t, u \in ScopeTasks : \A i, j \in Nat : \A n \in Session :
    Owns(t, i, n) /\ Owns(u, j, n) => t = u /\ i = j

\* A session lives as long as a block owns it, or a statement has revived it.
InUse(n) == n \in stray \/ \E t \in ScopeTasks : \E i \in Nat : Owns(t, i, n)
ScopeInv ==
  /\ ScopeShape /\ RightSession /\ TokensAreRight /\ NamesExist /\ OwnersAreApart
  /\ \A n \in Session : sessionState[n] \in {"idle", "active"} <=> InUse(n)

\* What is in force under the first k blocks depends on nothing above them.
LEMMA PrefixDecides ==
  ASSUME NEW b, NEW c, NEW first, NEW n, NEW k \in Nat, \A i \in 1 .. k : b[i] = c[i],
         InForce(b, first, k, n)
  PROVE  InForce(c, first, k, n)
<1>1. {i \in 1 .. k : b[i].own # NoSession} = {i \in 1 .. k : c[i].own # NoSession}
  OBVIOUS
<1> QED
  BY <1>1 DEF InForce

\* What is in force directly under a block that owns a session is that session.
LEMMA OwnerDecides ==
  ASSUME NEW b, NEW first, NEW k \in Nat \ {0}, b[k].own # NoSession
  PROVE  InForce(b, first, k, b[k].own)
<1> DEFINE owners == {i \in 1 .. k : b[i].own # NoSession}
<1>1. k \in owners /\ \A j \in owners : j <= k
  OBVIOUS
<1> QED
  BY <1>1 DEF InForce

\* A block that borrows changes nothing.
LEMMA BorrowerIsNothing ==
  ASSUME NEW b, NEW first, NEW n, NEW k \in Nat \ {0}, b[k].own = NoSession
  PROVE  InForce(b, first, k, n) <=> InForce(b, first, k - 1, n)
<1>1. {i \in 1 .. k : b[i].own # NoSession} = {i \in 1 .. k - 1 : b[i].own # NoSession}
  OBVIOUS
<1> QED
  BY <1>1 DEF InForce

\* The stack after a block is entered.
LEMMA PushedBlocks ==
  ASSUME NEW b \in Seq(ABlock), NEW block \in ABlock, NEW c, c = Append(b, block)
  PROVE  /\ c \in Seq(ABlock) /\ Len(c) = Len(b) + 1 /\ Len(b) \in Nat
         /\ \A i \in 1 .. Len(b) : c[i] = b[i]
         /\ c[Len(b) + 1] = block
         /\ DOMAIN c = 1 .. Len(b) + 1 /\ DOMAIN b = 1 .. Len(b)
<1>1. /\ c \in Seq(ABlock) /\ Len(c) = Len(b) + 1 /\ c[Len(b) + 1] = block
      /\ \A i \in 1 .. Len(b) : c[i] = b[i]
  BY AppendProperties
<1> QED
  BY <1>1

\* A block is entered: with a new session of its own, or borrowing.
LEMMA EnteringKeeps ==
  ASSUME ScopeInv, NEW t \in ScopeTasks, NEW block \in ABlock, NEW now \in 0 .. MaxSessions,
         Enter(t, block, now),
         \/ /\ block.own \in Session /\ now = block.own /\ block.before = current[t]
            /\ sessionState[block.own] = "unused"
            /\ \E s \in {"idle", "active"} : sessionState' = [sessionState EXCEPT ![block.own] = s]
         \/ /\ block.own = NoSession /\ now = current[t] /\ block.before = current[t]
            /\ sessionState' = sessionState
  PROVE  ScopeInv'
<1> USE DEF ScopeInv
<1> DEFINE old == openBlocks[t]
           k   == Len(old) + 1
           new == openBlocks'[t]
<1>1. /\ openBlocks \in [ScopeTasks -> Seq(ABlock)] /\ current \in [ScopeTasks -> 0 .. MaxSessions]
      /\ inherited' = inherited /\ stray' = stray
      /\ \A u \in ScopeTasks : u # t => openBlocks'[u] = openBlocks[u] /\ current'[u] = current[u]
      /\ new = Append(old, block) /\ current'[t] = now
      /\ current' \in [ScopeTasks -> 0 .. MaxSessions] /\ openBlocks' \in [ScopeTasks -> Seq(ABlock)]
  <2>1. Append(old, block) \in Seq(ABlock)
    BY AppendProperties DEF ScopeShape
  <2> QED
    BY <2>1 DEF Enter, ScopeShape
<1>2. /\ new \in Seq(ABlock) /\ Len(new) = k /\ Len(old) \in Nat
      /\ \A i \in 1 .. Len(old) : new[i] = old[i]
      /\ new[k] = block
      /\ DOMAIN new = 1 .. k /\ DOMAIN old = 1 .. Len(old)
  BY <1>1, PushedBlocks
<1>3. /\ sessionState' \in [Session -> {"unused", "idle", "active", "closed"}]
      /\ \A n \in Session : sessionState[n] # "unused" => sessionState'[n] = sessionState[n]
      /\ block.own = NoSession => sessionState' = sessionState
      /\ block.own # NoSession => /\ block.own \in Session /\ sessionState[block.own] = "unused"
                                  /\ sessionState'[block.own] \in {"idle", "active"}
                                  /\ \A n \in Session : n # block.own => sessionState'[n] = sessionState[n]
  <2>1. sessionState \in [Session -> {"unused", "idle", "active", "closed"}]
    BY DEF ScopeShape
  <2>2. NoSession \notin Session
    BY DEF Session, NoSession
  <2>3. CASE block.own = NoSession
    <3>1. sessionState' = sessionState
      BY <2>2, <2>3
    <3> QED
      BY <2>1, <2>3, <3>1
  <2>4. CASE block.own # NoSession
    <3>1. PICK s \in {"idle", "active"} : sessionState' = [sessionState EXCEPT ![block.own] = s]
      BY <2>4
    <3>2. block.own \in Session /\ sessionState[block.own] = "unused"
      BY <2>4
    <3> QED
      BY <2>1, <2>4, <3>1, <3>2
  <2> QED
    BY <2>3, <2>4
<1>4. ScopeShape'
  BY <1>1, <1>3 DEF ScopeShape
<1> HIDE DEF old, k, new
<1>5. RightSession'
  <2>1. InForce(new, inherited[t], k, now)
    <3>1. CASE block.own # NoSession
      <4>1. now = new[k].own /\ new[k].own # NoSession /\ k \in Nat \ {0}
        BY <1>2, <3>1 DEF k
      <4> QED
        BY <4>1, OwnerDecides
    <3>2. CASE block.own = NoSession
      <4>1. InForce(old, inherited[t], Len(old), current[t]) /\ now = current[t]
        BY <3>2 DEF RightSession, old, Session, NoSession
      <4>2. InForce(new, inherited[t], Len(old), now)
        BY <1>2, <4>1, PrefixDecides
      <4>3. k - 1 = Len(old) /\ k \in Nat \ {0} /\ new[k].own = NoSession
        BY <1>2, <3>2 DEF k
      <4> QED
        BY <4>2, <4>3, BorrowerIsNothing
    <3> QED
      BY <3>1, <3>2
  <2> QED
    BY <1>1, <1>2, <2>1 DEF RightSession, new
<1>6. TokensAreRight'
  <2>1. ASSUME NEW i \in DOMAIN new, new[i].own # NoSession
        PROVE  InForce(new, inherited[t], i - 1, new[i].before)
    <3>1. CASE i = k
      <4>1. InForce(old, inherited[t], Len(old), current[t])
        BY DEF RightSession, old
      <4>2. new[i].before = current[t] /\ i - 1 = Len(old)
        BY <1>2, <3>1 DEF k
      <4> QED
        BY <1>2, <4>1, <4>2, PrefixDecides
    <3>2. CASE i # k
      <4>1. i \in DOMAIN old /\ new[i] = old[i] /\ i - 1 \in Nat /\ \A j \in 1 .. i - 1 : old[j] = new[j]
        BY <1>2, <3>2 DEF k
      <4>2. InForce(old, inherited[t], i - 1, old[i].before)
        BY <2>1, <4>1 DEF TokensAreRight, old
      <4> QED
        BY <4>1, <4>2, PrefixDecides
    <3> QED
      BY <3>1, <3>2
  <2> QED
    BY <1>1, <2>1 DEF TokensAreRight, new
<1>7. NamesExist'
  <2>1. /\ now # NoSession => sessionState'[now] # "unused"
        /\ block.before # NoSession => sessionState'[block.before] # "unused"
    BY <1>1, <1>3 DEF NamesExist, Session, NoSession
  <2>2. ASSUME NEW i \in DOMAIN new, new[i].before # NoSession
        PROVE  sessionState'[new[i].before] # "unused"
    <3>1. CASE i = k
      BY <1>2, <2>1, <2>2, <3>1
    <3>2. CASE i # k
      <4>1. i \in DOMAIN old /\ new[i] = old[i] /\ old[i] \in ABlock
        BY <1>1, <1>2, <3>2 DEF k, old
      <4>2. sessionState[old[i].before] # "unused" /\ old[i].before \in Session
        BY <2>2, <4>1 DEF NamesExist, old, ABlock, Session, NoSession
      <4> QED
        BY <1>3, <4>1, <4>2
    <3> QED
      BY <3>1, <3>2
  <2>3. ASSUME NEW u \in ScopeTasks, u # t
        PROVE  /\ current'[u] # NoSession => sessionState'[current'[u]] # "unused"
               /\ \A i \in DOMAIN openBlocks'[u] :
                    openBlocks'[u][i].before # NoSession => sessionState'[openBlocks'[u][i].before] # "unused"
    <3>1. openBlocks'[u] = openBlocks[u] /\ current'[u] = current[u]
      BY <1>1, <2>3
    <3>2. ASSUME NEW i \in DOMAIN openBlocks[u], openBlocks[u][i].before # NoSession
          PROVE  openBlocks[u][i].before \in Session /\ sessionState[openBlocks[u][i].before] # "unused"
      <4>1. openBlocks[u][i] \in ABlock
        BY <1>1
      <4> QED
        BY <3>2, <4>1 DEF NamesExist, ABlock, Session, NoSession
    <3>3. current[u] # NoSession => current[u] \in Session /\ sessionState[current[u]] # "unused"
      BY <1>1 DEF NamesExist, Session, NoSession
    <3> QED
      BY <1>3, <3>1, <3>2, <3>3
  <2> QED
    BY <1>1, <2>1, <2>2, <2>3 DEF NamesExist, new
<1>8. ASSUME NEW u \in ScopeTasks, NEW i \in Nat, NEW n \in Session
      PROVE  Owns(u, i, n)' <=> Owns(u, i, n) \/ (u = t /\ i = k /\ n = block.own)
  <2>1. CASE u # t
    BY <1>1, <2>1 DEF Owns
  <2>2. CASE u = t
    <3>1. Owns(t, i, n) <=> i \in 1 .. Len(old) /\ old[i].own = n
      BY <1>2 DEF Owns, old
    <3>2. Owns(t, i, n)' <=> i \in 1 .. k /\ new[i].own = n
      BY <1>2 DEF Owns, new
    <3> QED
      BY <1>2, <2>2, <3>1, <3>2 DEF k
  <2> QED
    BY <2>1, <2>2
<1>9. \A u \in ScopeTasks : \A i \in Nat : ~Owns(u, i, block.own) \/ block.own = NoSession
  BY <1>3 DEF InUse
<1>10. OwnersAreApart'
  BY <1>8, <1>9 DEF OwnersAreApart, Session, NoSession
<1>11. ASSUME NEW n \in Session PROVE sessionState'[n] \in {"idle", "active"} <=> InUse(n)'
  <2>1. InUse(n)' <=> InUse(n) \/ n = block.own
    <3>1. k \in Nat
      BY <1>2 DEF k
    <3> QED
      BY <1>1, <1>8, <3>1 DEF InUse
  <2>2. sessionState[n] \in {"idle", "active"} <=> InUse(n)
    OBVIOUS
  <2>3. NoSession \notin Session
    BY DEF Session, NoSession
  <2>4. CASE n = block.own
    BY <1>3, <2>1, <2>3, <2>4
  <2>5. CASE n # block.own
    <3>1. sessionState'[n] = sessionState[n]
      BY <1>3, <2>5
    <3> QED
      BY <2>1, <2>2, <2>5, <3>1
  <2> QED
    BY <2>4, <2>5
<1> QED
  BY <1>4, <1>5, <1>6, <1>7, <1>10, <1>11

\* A block is entered: with a new session of its own, or borrowing.
LEMMA EntersKeep ==
  ASSUME ScopeInv, NEW t \in ScopeTasks, NEW n \in Session, EnterTransaction(t, n) \/ EnterReadOnly(t, n)
  PROVE  ScopeInv'
<1>1. /\ current[t] \in 0 .. MaxSessions /\ n \in 0 .. MaxSessions /\ NoSession \in 0 .. MaxSessions
      /\ sessionState[n] = "unused"
  BY ScopeAssumption DEF ScopeInv, ScopeShape, Session, NoSession, Fresh, EnterTransaction, EnterReadOnly
<1>2. \A kind \in {"transaction", "read"} : \A own, before \in 0 .. MaxSessions :
        /\ OpenBlock(kind, own, before) \in ABlock
        /\ OpenBlock(kind, own, before).own = own /\ OpenBlock(kind, own, before).before = before
  BY DEF OpenBlock, ABlock
<1>3. CASE EnterTransaction(t, n)
  <2>1. /\ Enter(t, OpenBlock("transaction", n, current[t]), n)
        /\ sessionState' = [sessionState EXCEPT ![n] = "active"]
    BY <1>3 DEF EnterTransaction
  <2> QED
    BY ZenonT(60), <1>1, <1>2, <2>1, EnteringKeeps
<1>4. CASE EnterReadOnly(t, n) /\ current[t] # NoSession
  <2>1. /\ Enter(t, OpenBlock("read", NoSession, current[t]), current[t])
        /\ sessionState' = sessionState
    BY <1>4 DEF EnterReadOnly
  <2> QED
    BY <1>1, <1>2, <2>1, EnteringKeeps
<1>5. CASE EnterReadOnly(t, n) /\ current[t] = NoSession
  <2>1. /\ Enter(t, OpenBlock("read", n, NoSession), n)
        /\ sessionState' = [sessionState EXCEPT ![n] = "idle"]
    BY <1>5 DEF EnterReadOnly
  <2> QED
    BY ZenonT(60), <1>1, <1>2, <1>5, <2>1, EnteringKeeps
<1> QED
  BY <1>3, <1>4, <1>5

\* A block ends; if it has a session, nobody else owns that one.
LEMMA ExitKeeps == ASSUME NEW t \in ScopeTasks PROVE ScopeInv /\ Exit(t) => ScopeInv'
<1> SUFFICES ASSUME ScopeInv, Exit(t) PROVE ScopeInv'
  OBVIOUS
<1> USE DEF ScopeInv
<1> DEFINE old == openBlocks[t]
           k   == Len(old)
           new == openBlocks'[t]
           top == Innermost(t)
<1>1. /\ old \in Seq(ABlock) /\ old # <<>> /\ k \in Nat \ {0} /\ top = old[k] /\ top \in ABlock
      /\ DOMAIN old = 1 .. k
  BY DEF ScopeShape, Exit, Inside, Innermost
<1>2. /\ new = SubSeq(old, 1, k - 1) /\ inherited' = inherited
      /\ \A u \in ScopeTasks : u # t => openBlocks'[u] = openBlocks[u]
  BY DEF ScopeShape, Exit
<1>3. /\ new \in Seq(ABlock) /\ Len(new) = k - 1 /\ DOMAIN new = 1 .. k - 1
      /\ \A i \in 1 .. k - 1 : new[i] = old[i]
  <2>1. /\ SubSeq(old, 1, k - 1) \in Seq(ABlock)
        /\ Len(SubSeq(old, 1, k - 1)) = IF 1 <= k - 1 THEN (k - 1) - 1 + 1 ELSE 0
        /\ \A i \in 1 .. (k - 1) - 1 + 1 : SubSeq(old, 1, k - 1)[i] = old[1 + i - 1]
    <3>1. \A i \in 1 .. k - 1 : old[i] \in ABlock
      BY <1>1
    <3>2. 1 \in 1 .. k + 1 /\ k - 1 \in 1 - 1 .. k
      BY <1>1
    <3> QED
      BY <1>1, <3>1, <3>2, SubSeqProperties
  <2> QED
    BY <1>1, <1>2, <2>1
<1>4. openBlocks' \in [ScopeTasks -> Seq(ABlock)]
  BY <1>2, <1>3 DEF Exit, ScopeShape
<1>5. /\ top.own \in 0 .. MaxSessions /\ top.before \in 0 .. MaxSessions
      /\ \A n \in Session : n \in EndsSession(t) <=> n = top.own
  BY <1>1 DEF ABlock, EndsSession, Session, NoSession
<1>6. /\ \A n \in Session : sessionState'[n] = IF n = top.own THEN "closed" ELSE sessionState[n]
      /\ sessionState' \in [Session -> {"unused", "idle", "active", "closed"}]
      /\ \A n \in Session : sessionState[n] # "unused" => sessionState'[n] # "unused"
  <2>1. sessionState' = [n \in Session |-> IF n \in EndsSession(t) THEN "closed" ELSE sessionState[n]]
    BY DEF Exit, Session
  <2> QED
    BY <1>5, <2>1 DEF ScopeShape
<1>7. \A n \in Session : n \in stray' <=> n \in stray /\ n # top.own
  BY <1>5 DEF Exit
<1>8. /\ current' \in [ScopeTasks -> 0 .. MaxSessions]
      /\ current'[t] = IF top.own = NoSession THEN current[t] ELSE top.before
      /\ \A u \in ScopeTasks : u # t => current'[u] = current[u]
  BY <1>5 DEF ScopeShape, Exit
<1>9. ScopeShape'
  BY <1>2, <1>4, <1>6, <1>8 DEF ScopeShape, Exit
<1> HIDE DEF old, k, new, top
<1>10. RightSession'
  <2>1. InForce(old, inherited[t], k - 1, current'[t])
    <3>1. CASE top.own = NoSession
      <4>1. InForce(old, inherited[t], k, current[t])
        BY DEF RightSession, old, k
      <4> QED
        BY <1>1, <1>8, <3>1, <4>1, BorrowerIsNothing
    <3>2. CASE top.own # NoSession
      <4>1. k \in DOMAIN old
        BY <1>1
      <4> QED
        BY <1>1, <1>8, <3>2, <4>1 DEF TokensAreRight, old
    <3> QED
      BY <3>1, <3>2
  <2>2. InForce(new, inherited[t], k - 1, current'[t])
    <3>1. k - 1 \in Nat /\ \A i \in 1 .. k - 1 : old[i] = new[i]
      BY <1>1, <1>3
    <3> QED
      BY <2>1, <3>1, PrefixDecides
  <2> QED
    BY <1>2, <1>3, <1>8, <2>2 DEF RightSession, new
<1>11. TokensAreRight'
  <2>1. ASSUME NEW i \in DOMAIN new, new[i].own # NoSession
        PROVE  InForce(new, inherited[t], i - 1, new[i].before)
    <3>1. i \in DOMAIN old /\ new[i] = old[i] /\ i - 1 \in Nat /\ \A j \in 1 .. i - 1 : old[j] = new[j]
      BY <1>1, <1>3
    <3>2. InForce(old, inherited[t], i - 1, old[i].before)
      BY <2>1, <3>1 DEF TokensAreRight, old
    <3> QED
      BY <3>1, <3>2, PrefixDecides
  <2> QED
    BY <1>2, <2>1 DEF TokensAreRight, new
<1>12. ASSUME NEW u \in ScopeTasks, NEW i \in Nat, NEW n \in Session
      PROVE  Owns(u, i, n)' <=> Owns(u, i, n) /\ ~(u = t /\ i = k)
  <2>1. CASE u # t
    BY <1>2, <2>1 DEF Owns
  <2>2. CASE u = t
    <3>1. Owns(t, i, n) <=> i \in 1 .. k /\ old[i].own = n
      BY <1>1 DEF Owns, old
    <3>2. Owns(t, i, n)' <=> i \in 1 .. k - 1 /\ new[i].own = n
      BY <1>3 DEF Owns, new
    <3> QED
      BY <1>1, <1>3, <2>2, <3>1, <3>2
  <2> QED
    BY <2>1, <2>2
<1>13. NamesExist'
  <2>1. ASSUME NEW u \in ScopeTasks, NEW i \in DOMAIN openBlocks[u], openBlocks[u][i].before # NoSession
        PROVE  openBlocks[u][i].before \in Session /\ sessionState'[openBlocks[u][i].before] # "unused"
    <3>1. openBlocks[u][i] \in ABlock
      BY DEF ScopeShape
    <3> QED
      BY <1>6, <2>1, <3>1 DEF NamesExist, ABlock, Session, NoSession
  <2>2. ASSUME NEW u \in ScopeTasks, current[u] # NoSession
        PROVE  current[u] \in Session /\ sessionState'[current[u]] # "unused"
    <3>1. current[u] \in Session
      BY <2>2 DEF ScopeShape, Session, NoSession
    <3> QED
      BY <1>6, <2>2, <3>1 DEF NamesExist
  <2>3. current'[t] # NoSession => sessionState'[current'[t]] # "unused"
    <3>1. k \in DOMAIN openBlocks[t] /\ openBlocks[t][k] = top
      BY <1>1 DEF old
    <3> QED
      BY <1>8, <2>1, <2>2, <3>1
  <2>4. ASSUME NEW i \in DOMAIN new, new[i].before # NoSession
        PROVE  sessionState'[new[i].before] # "unused"
    <3>1. i \in DOMAIN openBlocks[t] /\ new[i] = openBlocks[t][i]
      BY <1>1, <1>3 DEF old
    <3> QED
      BY <2>1, <2>4, <3>1
  <2>5. ASSUME NEW u \in ScopeTasks, u # t
        PROVE  /\ current'[u] # NoSession => sessionState'[current'[u]] # "unused"
               /\ \A i \in DOMAIN openBlocks'[u] :
                    openBlocks'[u][i].before # NoSession => sessionState'[openBlocks'[u][i].before] # "unused"
    <3>1. openBlocks'[u] = openBlocks[u] /\ current'[u] = current[u]
      BY <1>2, <1>8, <2>5
    <3> QED
      BY <2>1, <2>2, <3>1
  <2> QED
    BY <2>3, <2>4, <2>5 DEF NamesExist, new
<1>14. OwnersAreApart'
  BY <1>12 DEF OwnersAreApart
<1>15. ASSUME NEW n \in Session PROVE sessionState'[n] \in {"idle", "active"} <=> InUse(n)'
  <2>1. CASE n = top.own
    <3>1. Owns(t, k, n) /\ k \in Nat
      BY <1>1, <2>1 DEF Owns, old
    <3>2. \A u \in ScopeTasks : \A i \in Nat : ~Owns(u, i, n)'
      BY <1>12, <3>1 DEF OwnersAreApart
    <3>3. ~InUse(n)'
      BY <1>7, <2>1, <3>2 DEF InUse
    <3> QED
      BY <1>6, <2>1, <3>3
  <2>2. CASE n # top.own
    <3>1. ~Owns(t, k, n)
      BY <1>1, <2>2 DEF Owns, old
    <3>2. \A u \in ScopeTasks : \A i \in Nat : Owns(u, i, n)' <=> Owns(u, i, n)
      BY <1>12, <3>1
    <3>3. InUse(n)' <=> InUse(n)
      BY <1>7, <2>2, <3>2 DEF InUse
    <3> QED
      BY <1>6, <2>2, <3>3
  <2> QED
    BY <2>1, <2>2
<1> QED
  BY <1>9, <1>10, <1>11, <1>13, <1>14, <1>15

\* A step that opens and ends no block.
LEMMA ScopeUndisturbed ==
  ASSUME ScopeInv, UNCHANGED <<current, inherited, openBlocks>>,
         sessionState' \in [Session -> {"unused", "idle", "active", "closed"}], stray' \in SUBSET Session,
         \A n \in Session : sessionState[n] # "unused" => sessionState'[n] # "unused",
         \A n \in Session : \/ sessionState'[n] = sessionState[n] /\ (n \in stray' <=> n \in stray)
                            \/ sessionState'[n] \in {"idle", "active"} /\ (n \in stray' \/ InUse(n))
                               /\ (n \in stray => n \in stray')
                            \/ sessionState[n] = "unused" /\ sessionState'[n] = "closed"
                               /\ (n \in stray' <=> n \in stray)
  PROVE  ScopeInv'
<1> USE DEF ScopeInv
<1>1. ScopeShape'
  BY DEF ScopeShape
<1>2. RightSession' /\ TokensAreRight' /\ OwnersAreApart'
  BY DEF RightSession, TokensAreRight, OwnersAreApart, Owns
<1>3. NamesExist'
  <2>1. ASSUME NEW u \in ScopeTasks, NEW i \in DOMAIN openBlocks[u]
        PROVE  openBlocks[u][i].before # NoSession => openBlocks[u][i].before \in Session
    <3>1. openBlocks[u][i] \in ABlock
      BY DEF ScopeShape
    <3> QED
      BY <3>1 DEF ABlock, Session, NoSession
  <2>2. \A u \in ScopeTasks : current[u] # NoSession => current[u] \in Session
    BY DEF ScopeShape, Session, NoSession
  <2> QED
    BY <2>1, <2>2 DEF NamesExist
<1>4. ASSUME NEW n \in Session PROVE sessionState'[n] \in {"idle", "active"} <=> InUse(n)'
  <2>1. \A u \in ScopeTasks : \A i \in Nat : Owns(u, i, n)' <=> Owns(u, i, n)
    BY DEF Owns
  <2>2. sessionState[n] \in {"idle", "active"} <=> InUse(n)
    OBVIOUS
  <2> QED
    BY <2>1, <2>2 DEF InUse
<1> QED
  BY <1>1, <1>2, <1>3, <1>4

\* A statement opens a transaction in the session it finds.
LEMMA StatementKeeps == ASSUME NEW t \in ScopeTasks PROVE ScopeInv /\ Statement(t) => ScopeInv'
<1> SUFFICES ASSUME ScopeInv, Statement(t) PROVE ScopeInv'
  OBVIOUS
<1>1. PICK c \in Session : c = current[t]
  BY DEF ScopeInv, ScopeShape, Statement, Session, NoSession
<1>2. /\ sessionState' = [sessionState EXCEPT ![c] = "active"]
      /\ stray' = IF sessionState[c] = "closed" THEN stray \union {c} ELSE stray
      /\ UNCHANGED <<current, inherited, openBlocks>>
      /\ sessionState[c] # "unused"
  BY <1>1 DEF Statement, ScopeInv, NamesExist
<1>3. sessionState \in [Session -> {"unused", "idle", "active", "closed"}] /\ stray \in SUBSET Session
  BY DEF ScopeInv, ScopeShape
<1>4. sessionState[c] = "closed" \/ InUse(c)
  BY <1>2, <1>3 DEF ScopeInv
<1> QED
  BY <1>2, <1>3, <1>4, ScopeUndisturbed

\* A session whose transaction could not be opened is closed again.
LEMMA BeginFailsKeeps ==
  ASSUME NEW t \in ScopeTasks, NEW n \in Session
  PROVE  ScopeInv /\ BeginFails(t, n) => ScopeInv'
<1> SUFFICES ASSUME ScopeInv, BeginFails(t, n) PROVE ScopeInv'
  OBVIOUS
<1>1. /\ sessionState' = [sessionState EXCEPT ![n] = "closed"] /\ sessionState[n] = "unused"
      /\ UNCHANGED <<current, inherited, openBlocks, stray>>
  BY DEF BeginFails, Fresh
<1>2. sessionState \in [Session -> {"unused", "idle", "active", "closed"}] /\ stray \in SUBSET Session
  BY DEF ScopeInv, ScopeShape
<1> QED
  BY <1>1, <1>2, ScopeUndisturbed

\* A task that is spawned inherits what was in force, and no blocks.
LEMMA SpawnKeeps == ScopeInv /\ Spawn => ScopeInv'
<1> SUFFICES ASSUME ScopeInv, Spawn PROVE ScopeInv'
  OBVIOUS
<1> USE DEF ScopeInv
<1>1. /\ SpawnedTask \in ScopeTasks /\ RequestTask \in ScopeTasks
      /\ openBlocks[SpawnedTask] = <<>>
      /\ UNCHANGED <<openBlocks, sessionState, stray>>
      /\ current' = [current EXCEPT ![SpawnedTask] = current[RequestTask]]
      /\ inherited' = [inherited EXCEPT ![SpawnedTask] = current[RequestTask]]
  BY DEF Spawn, ScopeTasks, Inside
<1>2. ScopeShape'
  BY <1>1 DEF ScopeShape
<1>3. /\ current'[SpawnedTask] = current[RequestTask] /\ inherited'[SpawnedTask] = current[RequestTask]
      /\ \A u \in ScopeTasks : u # SpawnedTask => current'[u] = current[u] /\ inherited'[u] = inherited[u]
  BY <1>1 DEF ScopeShape
<1>4. RightSession'
  <2>1. InForce(<<>>, inherited'[SpawnedTask], 0, current'[SpawnedTask])
    <3>1. {i \in 1 .. 0 : <<>>[i].own # NoSession} = {}
      OBVIOUS
    <3> QED
      BY <1>3, <3>1 DEF InForce
  <2> QED
    BY <1>1, <1>3, <2>1 DEF RightSession
<1>5. TokensAreRight'
  BY <1>1, <1>3 DEF TokensAreRight
<1>6. NamesExist' /\ OwnersAreApart'
  BY <1>1, <1>3 DEF NamesExist, OwnersAreApart, Owns
<1>7. ASSUME NEW n \in Session PROVE sessionState'[n] \in {"idle", "active"} <=> InUse(n)'
  <2>1. \A u \in ScopeTasks : \A i \in Nat : Owns(u, i, n)' <=> Owns(u, i, n)
    BY <1>1 DEF Owns
  <2> QED
    BY <1>1, <2>1 DEF InUse
<1> QED
  BY <1>2, <1>4, <1>5, <1>6, <1>7

\* At first nothing is open.
LEMMA ScopeInitHolds == ScopeInit => ScopeInv
<1> SUFFICES ASSUME ScopeInit PROVE ScopeInv
  OBVIOUS
<1>1. ScopeShape
  BY ScopeAssumption DEF ScopeInit, ScopeShape, Session, NoSession
<1>2. RightSession
  <2>1. InForce(<<>>, NoSession, 0, NoSession)
    <3>1. {i \in 1 .. 0 : <<>>[i].own # NoSession} = {}
      OBVIOUS
    <3> QED
      BY <3>1 DEF InForce
  <2> QED
    BY <2>1 DEF ScopeInit, RightSession
<1>3. \A t \in ScopeTasks : \A i \in Nat : \A n \in Session : ~Owns(t, i, n)
  BY DEF ScopeInit, Owns
<1> QED
  BY <1>1, <1>2, <1>3 DEF ScopeInit, ScopeInv, TokensAreRight, NamesExist, OwnersAreApart, InUse, Session

\* Every step keeps the invariant.
LEMMA ScopeStepKeeps == ScopeInv /\ [ScopeNext]_scopeVars => ScopeInv'
<1> SUFFICES ASSUME ScopeInv, [ScopeNext]_scopeVars PROVE ScopeInv'
  OBVIOUS
<1>1. CASE UNCHANGED scopeVars
  <2>1. UNCHANGED <<current, inherited, openBlocks>> /\ sessionState' = sessionState /\ stray' = stray
    BY <1>1 DEF scopeVars
  <2>2. sessionState \in [Session -> {"unused", "idle", "active", "closed"}] /\ stray \in SUBSET Session
    BY DEF ScopeInv, ScopeShape
  <2> QED
    BY <2>1, <2>2, ScopeUndisturbed
<1>2. CASE ScopeNext
  BY <1>2, StatementKeeps, ExitKeeps, EntersKeep, BeginFailsKeeps, SpawnKeeps DEF ScopeNext, Session
<1> QED
  BY <1>1, <1>2

\* However blocks nest, fail and are inherited by tasks, to any depth: a repository
\* finds the session of its innermost block, and a session lives exactly as long as
\* its block (transaction.py, readonly.py, _cleanup.py).
THEOREM ScopesStaySound == ScopeSpec => []ScopesAreSound
<1>1. ScopeInv => ScopesAreSound
  <2> SUFFICES ASSUME ScopeInv PROVE ScopesAreSound
    OBVIOUS
  <2>1. ASSUME NEW n \in Session, NEW t \in ScopeTasks
        PROVE  (\E i \in Nat : Owns(t, i, n)) <=> \E i \in DOMAIN openBlocks[t] : openBlocks[t][i].own = n
    <3>1. openBlocks[t] \in Seq(ABlock)
      BY DEF ScopeInv, ScopeShape
    <3>2. DOMAIN openBlocks[t] \subseteq Nat
      BY <3>1
    <3> QED
      BY <3>2 DEF Owns
  <2>2. SessionsHaveOwners
    BY <2>1 DEF ScopeInv, InUse, SessionsHaveOwners, Session
  <2> QED
    BY <2>2 DEF ScopeInv, ScopesAreSound
<1> QED
  BY <1>1, ScopeInitHolds, ScopeStepKeeps, PTL DEF ScopeSpec

-----------------------------------------------------------------------------
(* The order of registration *)

\* A set of numbers has a least one.
LEMMA LeastExists ==
  ASSUME NEW T \in SUBSET Nat, T # {}
  PROVE  \E m \in T : \A n \in T : m <= n
<1> DEFINE R == OpToRel(<, Nat)
<1>1. IsWellFoundedOn(R, Nat)
  BY NatLessThanWellFounded
<1>2. \A x, y \in Nat : y < x => <<y, x>> \in R
  BY DEF OpToRel
<1> HIDE DEF R
<1>3. PICK m \in T : \A y \in T : ~(<<y, m>> \in R)
  BY <1>1, WFMin
<1>4. ASSUME NEW n \in T PROVE m <= n
  <2>1. ~(n < m)
    BY <1>2, <1>3
  <2> QED
    BY <2>1
<1> QED
  BY <1>4

\* A sequence without repetition, and how many classes there are.
Distinct(s) == \A i, j \in DOMAIN s : s[i] = s[j] => i = j
Number == Cardinality(Classes)

\* Classes are numbered in the order they were registered.
LEMMA ClassesAreNumbers ==
  IsFiniteSet(Classes) /\ Number \in Nat /\ Classes = 1 .. Number /\ Classes \in SUBSET Nat
<1>1. Number \in Nat /\ Classes = 1 .. Number
  BY ContainerAssumption, FS_CardinalityType DEF Number
<1>2. 1 .. Number \in SUBSET Nat
  BY <1>1
<1> QED
  BY <1>1, <1>2, ContainerAssumption

\* As many places as members: no member is left out.
LEMMA DistinctCovers ==
  ASSUME NEW S \in SUBSET Classes, NEW n \in Nat, NEW s \in [1 .. n -> S], Distinct(s)
  PROVE  /\ IsFiniteSet(Elements(s)) /\ Cardinality(Elements(s)) = n
         /\ n = Cardinality(S) => Elements(s) = S
<1>1. s \in Bijection(1 .. n, Elements(s))
  <2>1. s \in [1 .. n -> Elements(s)]
    BY DEF Elements
  <2>2. \A i, j \in 1 .. n : s[i] = s[j] => i = j
    BY DEF Distinct
  <2>3. \A e \in Elements(s) : \E i \in 1 .. n : s[i] = e
    BY DEF Elements
  <2> QED
    BY <2>1, <2>2, <2>3, Fun_IsBij
<1>2. IsFiniteSet(1 .. n) /\ Cardinality(1 .. n) = n
  BY FS_Interval
<1>3. IsFiniteSet(Elements(s)) /\ Cardinality(Elements(s)) = n
  BY <1>1, <1>2, FS_Bijection DEF ExistsBijection
<1>4. IsFiniteSet(S) /\ Elements(s) \subseteq S
  BY ClassesAreNumbers, FS_Subset DEF Elements
<1> QED
  BY <1>3, <1>4, FS_Subset

\* A set can be listed from its least member on.
Increasing(s) == \A i, j \in DOMAIN s : i < j => s[i] < s[j]
HasOrder(S) == \E s \in [1 .. Cardinality(S) -> S] : Increasing(s)

\* A finite set of numbers has a greatest one.
LEMMA GreatestExists ==
  ASSUME NEW S \in SUBSET Classes, S # {}
  PROVE  \E g \in S : \A x \in S : x <= g
<1> DEFINE T == {Number - x : x \in S}
<1>1. \A x \in S : x \in Nat /\ Number - x \in Nat
  BY ClassesAreNumbers
<1>2. T \in SUBSET Nat /\ T # {}
  BY <1>1
<1> HIDE DEF T
<1>3. PICK m \in T : \A n \in T : m <= n
  BY <1>2, LeastExists
<1>4. PICK g \in S : m = Number - g
  BY <1>3 DEF T
<1>5. ASSUME NEW x \in S PROVE x <= g
  <2>1. Number - g <= Number - x
    BY <1>3, <1>4 DEF T
  <2> QED
    BY <1>1, <2>1, ClassesAreNumbers
<1> QED
  BY <1>5

\* Any set of classes can be put in the order of registration: the greatest of a
\* smallest set that could not would come last.
LEMMA OrderExists == ASSUME NEW S \in SUBSET Classes PROVE HasOrder(S)
<1> DEFINE Bad == {n \in Nat : \E X \in SUBSET Classes : Cardinality(X) = n /\ ~HasOrder(X)}
<1>1. SUFFICES ASSUME Bad # {} PROVE FALSE
  <2>1. Cardinality(S) \in Nat
    BY ClassesAreNumbers, FS_Subset, FS_CardinalityType
  <2> QED
    BY <1>1, <2>1
<1>2. PICK m \in Bad : \A n \in Bad : m <= n
  <2>1. Bad \in SUBSET Nat
    OBVIOUS
  <2> HIDE DEF Bad
  <2> QED
    BY <1>1, <2>1, LeastExists
<1>3. PICK X \in SUBSET Classes : Cardinality(X) = m /\ ~HasOrder(X)
  BY <1>2
<1>4. IsFiniteSet(X) /\ m \in Nat
  BY <1>3, ClassesAreNumbers, FS_Subset
<1>5. CASE X = {}
  <2>1. Cardinality(X) = 0
    BY <1>5, FS_EmptySet
  <2>2. <<>> \in [1 .. 0 -> X] /\ Increasing(<<>>)
    BY DEF Increasing
  <2> QED
    BY <1>3, <2>1, <2>2 DEF HasOrder
<1>6. CASE X # {}
  <2>1. PICK g \in X : \A x \in X : x <= g
    BY <1>6, GreatestExists
  <2>2. Cardinality(X \ {g}) = m - 1 /\ m - 1 \in Nat
    <3>1. IsFiniteSet(X \ {g}) /\ Cardinality(X \ {g}) = Cardinality(X) - 1
      BY <1>4, FS_RemoveElement
    <3> QED
      BY <1>3, <3>1, FS_CardinalityType
  <2>3. HasOrder(X \ {g})
    <3>1. ~(m <= m - 1)
      BY <1>4
    <3>2. m - 1 \notin Bad
      BY <1>2, <3>1
    <3> QED
      BY <2>2, <3>2
  <2> HIDE DEF Bad
  <2>4. PICK s \in [1 .. m - 1 -> X \ {g}] : Increasing(s)
    BY <2>2, <2>3 DEF HasOrder
  <2> DEFINE r == [i \in 1 .. m |-> IF i = m THEN g ELSE s[i]]
  <2>5. r \in [1 .. m -> X]
    <3>1. \A i \in 1 .. m : i # m => i \in 1 .. m - 1
      BY <1>4
    <3> QED
      BY <3>1
  <2>6. ASSUME NEW i \in 1 .. m, NEW j \in 1 .. m, i < j PROVE r[i] < r[j]
    <3>1. i \in 1 .. m - 1 /\ s[i] \in X /\ s[i] # g /\ r[i] = s[i] /\ i # m
      BY <1>4, <2>4, <2>6
    <3>2. CASE j = m
      <4>1. r[j] = g
        BY <3>2
      <4>2. s[i] <= g /\ s[i] \in Nat /\ g \in Nat
        <5>1. X \in SUBSET Nat
          BY ClassesAreNumbers
        <5> HIDE DEF r
        <5> QED
          BY <2>1, <3>1, <5>1
      <4> HIDE DEF r
      <4> QED
        BY <3>1, <4>1, <4>2
    <3>3. CASE j # m
      <4>1. j \in 1 .. m - 1 /\ r[j] = s[j]
        BY <1>4, <3>3
      <4> QED
        BY <2>4, <2>6, <3>1, <4>1 DEF Increasing
    <3> QED
      BY <3>2, <3>3
  <2>7. Increasing(r)
    BY <2>6 DEF Increasing
  <2> HIDE DEF r
  <2> QED
    BY <1>3, <2>5, <2>7 DEF HasOrder
<1> QED
  BY <1>5, <1>6

\* The sequence that InOrder chooses lists the set, each member once.
LEMMA InOrderIs ==
  ASSUME NEW S \in SUBSET Classes
  PROVE  /\ InOrder(S) \in Seq(Classes) /\ Elements(InOrder(S)) = S /\ Distinct(InOrder(S))
         /\ S # {} => Head(InOrder(S)) \in S
<1> DEFINE n == Cardinality(S)
<1>1. n \in Nat
  BY ClassesAreNumbers, FS_Subset, FS_CardinalityType
<1>2. InOrder(S) \in [1 .. n -> S] /\ Increasing(InOrder(S))
  BY OrderExists DEF HasOrder, InOrder, Increasing
<1> DEFINE s == InOrder(S)
<1> HIDE DEF n, s
<1>3. Distinct(s)
  <2>1. s \in [1 .. n -> S] /\ Increasing(s)
    BY <1>2 DEF s, n
  <2>2. \A i \in 1 .. n : s[i] \in Nat
    <3>1. S \in SUBSET Nat
      BY ClassesAreNumbers
    <3> QED
      BY <2>1, <3>1
  <2>3. \A i, j \in 1 .. n : i < j => s[i] < s[j]
    BY <2>1 DEF Increasing
  <2>4. \A i, j \in 1 .. n : s[i] = s[j] => ~(i < j) /\ ~(j < i)
    BY <2>2, <2>3
  <2> QED
    BY <1>1, <2>1, <2>4 DEF Distinct
<1>4. Elements(s) = S
  BY <1>1, <1>2, <1>3, DistinctCovers DEF n, s
<1>5. s \in Seq(Classes) /\ Len(s) = n
  BY <1>1, <1>2 DEF s, n
<1>6. S # {} => Head(s) \in S
  <2>1. S # {} => n # 0
    BY <1>4, <1>2 DEF Elements, s, n
  <2>2. n # 0 => Head(s) = s[1] /\ 1 \in 1 .. n
    BY <1>1, <1>5
  <2> QED
    BY <1>2, <2>1, <2>2 DEF s, n
<1> QED
  BY <1>3, <1>4, <1>5, <1>6 DEF s

-----------------------------------------------------------------------------
(* The order of construction *)

\* The queue without its head.
LEMMA HeadLeaves ==
  ASSUME NEW s \in Seq(Classes), s # <<>>, Distinct(s)
  PROVE  /\ Head(s) \in Elements(s) /\ Elements(s) \subseteq Classes
         /\ Tail(s) \in Seq(Classes) /\ Distinct(Tail(s))
         /\ Elements(Tail(s)) = Elements(s) \ {Head(s)}
<1>1. /\ Len(s) \in Nat \ {0} /\ DOMAIN s = 1 .. Len(s) /\ Head(s) = s[1]
      /\ Tail(s) \in Seq(Classes) /\ DOMAIN Tail(s) = 1 .. Len(s) - 1
      /\ \A i \in 1 .. Len(s) - 1 : Tail(s)[i] = s[i + 1]
  OBVIOUS
<1>2. \A i \in 1 .. Len(s) : i # 1 => i - 1 \in 1 .. Len(s) - 1 /\ (i - 1) + 1 = i
  BY <1>1
<1>3. \A i \in 1 .. Len(s) - 1 : i + 1 \in 1 .. Len(s) /\ i + 1 # 1
  BY <1>1
<1>4. Elements(Tail(s)) = Elements(s) \ {Head(s)}
  <2>1. ASSUME NEW e \in Elements(Tail(s)) PROVE e \in Elements(s) \ {Head(s)}
    <3>1. PICK i \in 1 .. Len(s) - 1 : e = s[i + 1]
      BY <1>1, <2>1 DEF Elements
    <3>2. 1 \in 1 .. Len(s)
      BY <1>1
    <3> QED
      BY <1>1, <1>3, <3>1, <3>2 DEF Elements, Distinct
  <2>2. ASSUME NEW e \in Elements(s) \ {Head(s)} PROVE e \in Elements(Tail(s))
    <3>1. PICK i \in 1 .. Len(s) : e = s[i] /\ i # 1
      BY <1>1, <2>2 DEF Elements
    <3>2. Tail(s)[i - 1] = s[i]
      BY <1>1, <1>2, <3>1
    <3> QED
      BY <1>1, <1>2, <3>1, <3>2 DEF Elements
  <2> QED
    BY <2>1, <2>2
<1>5. Distinct(Tail(s))
  <2>1. ASSUME NEW i \in 1 .. Len(s) - 1, NEW j \in 1 .. Len(s) - 1, Tail(s)[i] = Tail(s)[j]
        PROVE  i = j
    <3>1. i + 1 = j + 1
      BY <1>1, <1>3, <2>1 DEF Distinct
    <3> QED
      BY <3>1
  <2> QED
    BY <1>1, <2>1 DEF Distinct
<1>6. Head(s) \in Elements(s) /\ Elements(s) \subseteq Classes
  <2>1. 1 \in 1 .. Len(s)
    BY <1>1
  <2> QED
    BY <1>1, <2>1 DEF Elements
<1> QED
  BY <1>1, <1>4, <1>5, <1>6

\* The queue with what has become ready behind it.
LEMMA JoinKeepsDistinct ==
  ASSUME NEW s \in Seq(Classes), NEW r \in Seq(Classes), Distinct(s), Distinct(r),
         Elements(s) \cap Elements(r) = {}
  PROVE  /\ s \o r \in Seq(Classes) /\ Distinct(s \o r)
         /\ Elements(s \o r) = Elements(s) \cup Elements(r)
<1> DEFINE m == Len(s)
           n == Len(r)
           j == s \o r
<1>1. /\ m \in Nat /\ n \in Nat /\ DOMAIN s = 1 .. m /\ DOMAIN r = 1 .. n
      /\ j \in Seq(Classes) /\ DOMAIN j = 1 .. m + n
      /\ \A i \in 1 .. m + n : j[i] = IF i <= m THEN s[i] ELSE r[i - m]
  BY ConcatProperties
<1> HIDE DEF m, n, j
<1>2. \A i \in 1 .. m + n : IF i <= m THEN i \in 1 .. m ELSE i - m \in 1 .. n
  BY <1>1
<1>3. \A i \in 1 .. m : i \in 1 .. m + n /\ i <= m
  BY <1>1
<1>4. \A i \in 1 .. n : i + m \in 1 .. m + n /\ ~(i + m <= m) /\ (i + m) - m = i
  BY <1>1
<1>5. Elements(j) = Elements(s) \cup Elements(r)
  <2>1. ASSUME NEW e \in Elements(j) PROVE e \in Elements(s) \cup Elements(r)
    <3>1. PICK i \in 1 .. m + n : e = j[i]
      BY <1>1, <2>1 DEF Elements
    <3> QED
      BY <1>1, <1>2, <3>1 DEF Elements
  <2>2. ASSUME NEW e \in Elements(s) PROVE e \in Elements(j)
    BY <1>1, <1>3, <2>2 DEF Elements
  <2>3. ASSUME NEW e \in Elements(r) PROVE e \in Elements(j)
    <3>1. PICK i \in 1 .. n : e = r[i]
      BY <1>1, <2>3 DEF Elements
    <3>2. j[i + m] = r[i]
      BY <1>1, <1>4
    <3> QED
      BY <1>1, <1>4, <3>1, <3>2 DEF Elements
  <2> QED
    BY <2>1, <2>2, <2>3
<1>6. Distinct(j)
  <2>1. ASSUME NEW a \in 1 .. m + n, NEW b \in 1 .. m + n, j[a] = j[b] PROVE a = b
    <3>1. CASE a <= m /\ b <= m
      BY <1>1, <1>2, <2>1, <3>1 DEF Distinct
    <3>2. CASE ~(a <= m) /\ ~(b <= m)
      <4>1. a - m = b - m
        BY <1>1, <1>2, <2>1, <3>2 DEF Distinct
      <4> QED
        BY <1>1, <4>1
    <3>3. CASE a <= m /\ ~(b <= m)
      BY <1>1, <1>2, <2>1, <3>3 DEF Elements
    <3>4. CASE ~(a <= m) /\ b <= m
      BY <1>1, <1>2, <2>1, <3>4 DEF Elements
    <3> QED
      BY <3>1, <3>2, <3>3, <3>4
  <2> QED
    BY <1>1, <2>1 DEF Distinct
<1> QED
  BY <1>1, <1>5, <1>6 DEF j

\* The order with one more class.
LEMMA LastJoins ==
  ASSUME NEW s \in Seq(Classes), NEW c \in Classes, c \notin Elements(s), Distinct(s)
  PROVE  /\ Append(s, c) \in Seq(Classes) /\ Distinct(Append(s, c))
         /\ Elements(Append(s, c)) = Elements(s) \cup {c}
         /\ Len(s) \in Nat /\ Len(Append(s, c)) = Len(s) + 1
         /\ \A i \in 1 .. Len(s) : Append(s, c)[i] = s[i]
         /\ Append(s, c)[Len(s) + 1] = c
<1>1. /\ Append(s, c) \in Seq(Classes) /\ Len(s) \in Nat /\ Len(Append(s, c)) = Len(s) + 1
      /\ DOMAIN s = 1 .. Len(s) /\ DOMAIN Append(s, c) = 1 .. Len(s) + 1
      /\ \A i \in 1 .. Len(s) : Append(s, c)[i] = s[i]
      /\ Append(s, c)[Len(s) + 1] = c
  BY AppendProperties
<1>2. \A i \in 1 .. Len(s) + 1 : i \in 1 .. Len(s) \/ i = Len(s) + 1
  BY <1>1
<1>3. Elements(Append(s, c)) = Elements(s) \cup {c}
  <2>1. ASSUME NEW e \in Elements(Append(s, c)) PROVE e \in Elements(s) \cup {c}
    BY <1>1, <1>2, <2>1 DEF Elements
  <2>2. Elements(s) \subseteq Elements(Append(s, c))
    <3>1. \A i \in 1 .. Len(s) : i \in 1 .. Len(s) + 1
      BY <1>1
    <3> QED
      BY <1>1, <3>1 DEF Elements
  <2>3. c \in Elements(Append(s, c))
    <3>1. Len(s) + 1 \in 1 .. Len(s) + 1
      BY <1>1
    <3> QED
      BY <1>1, <3>1 DEF Elements
  <2> QED
    BY <2>1, <2>2, <2>3
<1>4. \A i \in 1 .. Len(s) : s[i] # c
  BY <1>1 DEF Elements
<1>5. Distinct(Append(s, c))
  BY <1>1, <1>2, <1>4 DEF Distinct
<1> QED
  BY <1>1, <1>3, <1>5

\* Kahn's algorithm: what is placed comes after all it needs, and what waits in the
\* queue is exactly what could be placed next.
Early(c, k) == \E i \in DOMAIN order : i < k /\ order[i] = c
SortShape ==
  /\ needs \in [Classes -> SUBSET Classes]
  /\ rule \in {<<>>} \cup {<<c, d>> : c \in Classes, d \in Classes}
  /\ ready \in Seq(Classes) /\ order \in Seq(Classes)
Queue ==
  /\ Distinct(ready) /\ Distinct(order) /\ Elements(ready) \cap Elements(order) = {}
  /\ stage = "checking" => order = <<>>
  /\ stage = "sorting" =>
       /\ \A c \in Elements(ready) : Combined(c) \subseteq Elements(order)
       /\ \A c \in Classes : Combined(c) \subseteq Elements(order) => c \in Elements(ready) \cup Elements(order)
Placed == \A k \in DOMAIN order : \A c \in Combined(order[k]) : Early(c, k)
Ended ==
  /\ stage = "built" => Len(order) = Number
  /\ stage = "rule refused" =>
       /\ Len(order) # Number
       /\ \A c \in Classes : Combined(c) \subseteq Elements(order) => c \in Elements(order)
SortInv == SortShape /\ Queue /\ Placed /\ Ended

\* A class waits for classes.
LEMMA CombinedAreClasses ==
  ASSUME SortShape, NEW c \in Classes
  PROVE  Combined(c) \in SUBSET Classes
<1>1. RuleBefore(c) \in SUBSET Classes
  <2>1. CASE rule = <<>>
    BY <2>1 DEF RuleBefore
  <2>2. CASE \E a, b \in Classes : rule = <<a, b>>
    BY <2>2 DEF RuleBefore
  <2> QED
    BY <2>1, <2>2 DEF SortShape
<1> QED
  BY <1>1 DEF SortShape, Combined

\* Cycles are looked for; then the queue is filled.
LEMMA ValidateKeeps == SortInv /\ Validate => SortInv'
<1> SUFFICES ASSUME SortInv, Validate PROVE SortInv'
  OBVIOUS
<1> USE DEF SortInv
<1>1. /\ stage = "checking" /\ order = <<>> /\ UNCHANGED <<needs, rule, order>>
  BY DEF Validate, Queue
<1>2. Placed'
  BY <1>1 DEF Placed
<1>3. CASE stage' = "cyclic" /\ ready' = ready
  BY <1>1, <1>2, <1>3 DEF SortShape, Queue, Ended
<1>4. CASE stage' = "sorting" /\ ready' = InOrder({c \in Classes : Combined(c) = {}})
  <2> DEFINE free == {c \in Classes : Combined(c) = {}}
  <2>1. ready' \in Seq(Classes) /\ Elements(ready') = free /\ Distinct(ready')
    BY <1>4, InOrderIs
  <2>2. Elements(order') = {}
    BY <1>1 DEF Elements
  <2>3. \A c \in Classes : Combined(c)' = Combined(c)
    BY <1>1 DEF Combined, RuleBefore
  <2>4. Queue'
    BY <1>1, <1>4, <2>1, <2>2, <2>3 DEF Queue
  <2> QED
    BY <1>1, <1>2, <1>4, <2>1, <2>4 DEF SortShape, Ended
<1> QED
  BY <1>3, <1>4 DEF Validate

\* The head of the queue is placed, and what waited for it only joins the queue.
LEMMA PlaceKeeps == SortInv /\ Place => SortInv'
<1> SUFFICES ASSUME SortInv, Place PROVE SortInv'
  OBVIOUS
<1> USE DEF SortInv
<1> DEFINE c == Head(ready)
           placed == Elements(order) \cup {c}
           next == {d \in Classes : c \in Combined(d) /\ Combined(d) \subseteq placed}
<1>1. /\ stage = "sorting" /\ ready # <<>> /\ UNCHANGED <<needs, rule, stage>>
      /\ order' = Append(order, c) /\ ready' = Tail(ready) \o InOrder(next)
  BY DEF Place
<1>2. /\ ready \in Seq(Classes) /\ order \in Seq(Classes) /\ Distinct(ready) /\ Distinct(order)
  BY DEF SortShape, Queue
<1>3. /\ c \in Elements(ready) /\ Elements(ready) \subseteq Classes /\ c \in Classes
      /\ Tail(ready) \in Seq(Classes) /\ Distinct(Tail(ready))
      /\ Elements(Tail(ready)) = Elements(ready) \ {c}
  BY <1>1, <1>2, HeadLeaves
<1>4. c \notin Elements(order) /\ Combined(c) \subseteq Elements(order)
  BY <1>1, <1>3 DEF Queue
<1> HIDE DEF c
<1>5. /\ order' \in Seq(Classes) /\ Distinct(order') /\ Elements(order') = placed
      /\ Len(order) \in Nat /\ Len(order') = Len(order) + 1
      /\ \A i \in 1 .. Len(order) : order'[i] = order[i]
      /\ order'[Len(order) + 1] = c
  BY <1>1, <1>2, <1>3, <1>4, LastJoins
<1>6. InOrder(next) \in Seq(Classes) /\ Elements(InOrder(next)) = next /\ Distinct(InOrder(next))
  BY InOrderIs
<1>7. \A d \in next : d \notin Elements(ready) /\ d \notin placed
  <2>1. ASSUME NEW d \in next PROVE ~(Combined(d) \subseteq Elements(order))
    BY <1>4, <2>1
  <2>2. ASSUME NEW d \in Elements(order) PROVE Combined(d) \subseteq Elements(order)
    BY <2>2 DEF Placed, Early, Elements
  <2> QED
    BY <1>1, <1>4, <2>1, <2>2 DEF Queue
<1>8. /\ ready' \in Seq(Classes) /\ Distinct(ready')
      /\ Elements(ready') = (Elements(ready) \ {c}) \cup next
  <2>1. Elements(Tail(ready)) \cap Elements(InOrder(next)) = {}
    BY <1>3, <1>6, <1>7
  <2> HIDE DEF next
  <2> QED
    BY <1>1, <1>3, <1>6, <2>1, JoinKeepsDistinct
<1>9. \A d \in Classes : Combined(d)' = Combined(d)
  BY <1>1 DEF Combined, RuleBefore
<1>10. Queue'
  <2>1. Elements(ready') \cap Elements(order') = {}
    BY <1>5, <1>7, <1>8 DEF Queue
  <2>2. ASSUME NEW d \in Elements(ready') PROVE Combined(d)' \subseteq Elements(order')
    <3>1. d \in Classes /\ Combined(d) \subseteq placed
      BY <1>1, <1>3, <1>8, <2>2 DEF Queue
    <3> QED
      BY <1>5, <1>9, <3>1
  <2>3. ASSUME NEW d \in Classes, Combined(d)' \subseteq Elements(order')
        PROVE  d \in Elements(ready') \cup Elements(order')
    <3>1. Combined(d) \subseteq placed
      BY <1>5, <1>9, <2>3
    <3>2. CASE c \in Combined(d)
      BY <1>8, <3>1, <3>2
    <3>3. CASE c \notin Combined(d)
      <4>1. d \in Elements(ready) \cup Elements(order)
        BY <1>1, <3>1, <3>3 DEF Queue
      <4> QED
        BY <1>5, <1>8, <4>1
    <3> QED
      BY <3>2, <3>3
  <2> QED
    BY <1>1, <1>5, <1>8, <2>1, <2>2, <2>3 DEF Queue
<1>11. Placed'
  <2>1. DOMAIN order = 1 .. Len(order) /\ DOMAIN order' = 1 .. Len(order) + 1
    BY <1>2, <1>5
  <2>2. ASSUME NEW k \in DOMAIN order', NEW d \in Combined(order'[k]) PROVE Early(d, k)'
    <3>1. CASE k = Len(order) + 1
      <4>1. d \in Elements(order)
        BY <1>4, <1>5, <2>2, <3>1
      <4>2. PICK i \in DOMAIN order : order[i] = d
        BY <4>1 DEF Elements
      <4>3. i \in DOMAIN order' /\ i < k /\ order'[i] = d
        BY <1>5, <2>1, <3>1, <4>2
      <4> QED
        BY <4>3 DEF Early
    <3>2. CASE k # Len(order) + 1
      <4>1. k \in DOMAIN order /\ order'[k] = order[k] /\ order[k] \in Classes
        BY <1>2, <1>5, <2>1, <2>2, <3>2
      <4>2. d \in Combined(order[k])
        BY <2>2, <4>1
      <4>3. PICK i \in DOMAIN order : i < k /\ order[i] = d
        BY <4>1, <4>2 DEF Placed, Early
      <4>4. i \in DOMAIN order' /\ order'[i] = d
        BY <1>5, <2>1, <4>3
      <4> QED
        BY <4>3, <4>4 DEF Early
    <3> QED
      BY <3>1, <3>2
  <2>3. \A k \in DOMAIN order' : Combined(order[k])' = Combined(order'[k])
    BY <1>1 DEF Combined, RuleBefore
  <2> QED
    BY <2>2, <2>3 DEF Placed
<1> QED
  BY <1>1, <1>5, <1>8, <1>10, <1>11 DEF SortShape, Ended

\* While needs, rule and order stay, each class waits for the same ones.
LEMMA UnchangedOrder ==
  ASSUME Placed, UNCHANGED <<needs, rule, order>>
  PROVE  Placed' /\ \A c \in Classes : Combined(c)' = Combined(c)
<1>1. \A k \in DOMAIN order : Combined(order[k])' = Combined(order[k])
  BY DEF Combined, RuleBefore
<1>2. \A c, k : Early(c, k)' <=> Early(c, k)
  BY DEF Early
<1>3. Placed'
  BY <1>1, <1>2 DEF Placed
<1> QED
  BY <1>3 DEF Combined, RuleBefore

\* The queue is empty: all are placed, or some wait for each other.
LEMMA SortedKeeps == SortInv /\ Sorted => SortInv'
<1> SUFFICES ASSUME SortInv, Sorted PROVE SortInv'
  OBVIOUS
<1> USE DEF SortInv
<1>1. /\ stage = "sorting" /\ ready = <<>> /\ UNCHANGED <<needs, rule, ready, order>>
      /\ stage' = IF Len(order) = Number THEN "built" ELSE "rule refused"
  BY DEF Sorted, Number
<1>2. Elements(ready) = {}
  <2>1. DOMAIN <<>> = {}
    OBVIOUS
  <2> QED
    BY <1>1, <2>1 DEF Elements
<1>3. \A d \in Classes : Combined(d)' = Combined(d)
  BY <1>1 DEF Combined, RuleBefore
<1>4. Ended'
  BY <1>1, <1>2, <1>3 DEF Queue, Ended
<1>5. Placed'
  BY <1>1, UnchangedOrder
<1>6. SortShape'
  <2>1. UNCHANGED <<needs, rule, ready, order>>
    BY <1>1
  <2> HIDE DEF SortInv
  <2>2. SortShape
    BY DEF SortInv
  <2> QED
    BY <2>1, <2>2 DEF SortShape
<1>7. Queue'
  BY <1>1 DEF Queue
<1> QED
  BY <1>4, <1>5, <1>6, <1>7

\* Once it is known to be right, or refused, the order stays.
LEMMA OrderStays ==
  ASSUME SortInv, UNCHANGED <<needs, rule, stage, ready, order>>
  PROVE  SortInv'
<1> USE DEF SortInv
<1>1. Placed' /\ \A c \in Classes : Combined(c)' = Combined(c)
  BY UnchangedOrder
<1>2. SortShape'
  BY DEF SortShape
<1>3. Elements(ready)' = Elements(ready) /\ Elements(order)' = Elements(order)
      /\ Distinct(ready)' /\ Distinct(order)'
  BY DEF Queue
<1>4. \A c \in Elements(ready) : c \in Classes
  BY DEF SortShape, Elements
<1>5. Queue'
  BY <1>1, <1>3, <1>4 DEF Queue
<1>6. Ended'
  BY <1>1, <1>3 DEF Ended
<1> QED
  BY <1>1, <1>2, <1>5, <1>6

\* What is left over when the queue is empty has no order at all: a class that comes
\* first among them in any right order would have been in the queue.
LEMMA OrderHolds == ASSUME SortInv PROVE OrderIsRight
<1> USE DEF SortInv
<1>1. order \in Seq(Classes) /\ Distinct(order) /\ Len(order) \in Nat /\ DOMAIN order = 1 .. Len(order)
      /\ order \in [1 .. Len(order) -> Classes] /\ Elements(order) \subseteq Classes
  BY DEF SortShape, Queue, Elements
<1>2. Classes \in SUBSET Classes /\ Number = Cardinality(Classes)
  BY DEF Number
<1>3. Len(order) = Number <=> Elements(order) = Classes
  BY <1>1, <1>2, DistinctCovers
<1>4. ASSUME stage = "built"
      PROVE  /\ Len(order) = Cardinality(Classes) /\ Elements(order) = Classes
             /\ \A d \in Classes : \A c \in needs[d] : BuiltBefore(c, d)
             /\ rule # <<>> => BuiltBefore(rule[1], rule[2])
  <2>1. Len(order) = Number /\ Elements(order) = Classes
    BY <1>3, <1>4 DEF Ended
  <2>2. ASSUME NEW d \in Classes, NEW c \in Combined(d) PROVE BuiltBefore(c, d)
    <3>1. PICK k \in DOMAIN order : order[k] = d
      BY <2>1 DEF Elements
    <3>2. Early(c, k)
      BY <2>2, <3>1 DEF Placed
    <3> QED
      BY <3>1, <3>2 DEF Early, BuiltBefore
  <2>3. \A d \in Classes : \A c \in needs[d] : c \in Combined(d)
    BY DEF Combined
  <2>4. rule # <<>> => rule[2] \in Classes /\ rule[1] \in Combined(rule[2])
    <3>1. ASSUME NEW a \in Classes, NEW b \in Classes, rule = <<a, b>>
          PROVE  rule[2] \in Classes /\ rule[1] \in Combined(rule[2])
      BY <3>1 DEF Combined, RuleBefore
    <3> QED
      BY <3>1 DEF SortShape
  <2> QED
    BY <2>1, <2>2, <2>3, <2>4 DEF Number
<1>5. ASSUME stage = "rule refused", NEW s \in [Classes -> Classes], Elements(s) = Classes, Respects(s)
      PROVE  FALSE
  <2> DEFINE L == {i \in Classes : s[i] \notin Elements(order)}
  <2>1. L # {}
    <3>1. PICK d \in Classes : d \notin Elements(order)
      BY <1>1, <1>3, <1>5 DEF Ended
    <3>2. PICK i \in Classes : s[i] = d
      BY <1>5 DEF Elements
    <3> QED
      BY <3>1, <3>2
  <2>2. L \in SUBSET Nat
    BY ClassesAreNumbers
  <2> HIDE DEF L
  <2>3. PICK i \in L : \A j \in L : i <= j
    BY <2>1, <2>2, LeastExists
  <2>4. i \in Classes /\ s[i] \in Classes /\ s[i] \notin Elements(order)
    BY <2>3 DEF L
  <2>5. PICK c \in Combined(s[i]) : c \notin Elements(order)
    BY <1>5, <2>4 DEF Ended
  <2>6. c \in Classes
    BY <2>4, <2>5, CombinedAreClasses
  <2>7. PICK j \in Classes : s[j] = c
    BY <1>5, <2>6 DEF Elements
  <2>8. j \in L /\ i <= j
    BY <2>3, <2>5, <2>7 DEF L
  <2>9. DOMAIN s = Classes
    OBVIOUS
  <2> QED
    BY <1>5, <2>4, <2>5, <2>7, <2>8, <2>9 DEF Respects
<1> QED
  BY <1>4, <1>5 DEF OrderIsRight

-----------------------------------------------------------------------------
(* Components *)

\* One thread builds; what it builds is not there yet, and each class in its frames
\* needs the next one; what is there has all that it needs, and was built once.
BuildInv ==
  /\ needs \in [Classes -> SUBSET Classes]
  /\ objects \in SUBSET Classes /\ got \in [Threads -> SUBSET Classes]
  /\ frames \in [Threads -> Seq(Classes)]
  /\ constructed \in [Classes -> Nat]
  /\ \A c \in Classes : constructed[c] = IF c \in objects THEN 1 ELSE 0
  /\ \A c \in objects : needs[c] \subseteq objects
  /\ \A t \in Threads : got[t] \subseteq objects
  /\ \A t, u \in Threads : frames[t] # <<>> /\ frames[u] # <<>> => t = u
  /\ \A t \in Threads : \A i \in DOMAIN frames[t] :
       /\ frames[t][i] \notin objects
       /\ \A j \in DOMAIN frames[t] : j = i + 1 => frames[t][j] \in needs[frames[t][i]]

\* Only the frames of t change: the new ones are missing classes, each of which
\* needs the next.
LEMMA FramesKeep ==
  ASSUME BuildInv, NEW t \in Threads, NEW f \in Seq(Classes), frames' = [frames EXCEPT ![t] = f],
         UNCHANGED <<needs, objects, got, constructed>>,
         f # <<>> => \A u \in Threads : frames[u] # <<>> => u = t,
         \A i \in DOMAIN f : /\ f[i] \notin objects
                             /\ \A j \in DOMAIN f : j = i + 1 => f[j] \in needs[f[i]]
  PROVE  BuildInv'
<1>1. /\ frames' \in [Threads -> Seq(Classes)] /\ frames'[t] = f
      /\ \A u \in Threads : u # t => frames'[u] = frames[u]
  BY DEF BuildInv
<1>2. \A u, v \in Threads : frames'[u] # <<>> /\ frames'[v] # <<>> => u = v
  BY <1>1 DEF BuildInv
<1>3. \A u \in Threads : \A i \in DOMAIN frames'[u] :
        /\ frames'[u][i] \notin objects
        /\ \A j \in DOMAIN frames'[u] : j = i + 1 => frames'[u][j] \in needs[frames'[u][i]]
  BY <1>1 DEF BuildInv
<1> QED
  BY <1>1, <1>2, <1>3 DEF BuildInv

\* A dependency that is missing is built first.
LEMMA DescendKeeps == ASSUME NEW t \in Threads PROVE BuildInv /\ Descend(t) => BuildInv'
<1> SUFFICES ASSUME BuildInv, Descend(t) PROVE BuildInv'
  OBVIOUS
<1> DEFINE f == frames[t]
           n == Len(f)
<1>1. /\ f \in Seq(Classes) /\ f # <<>> /\ n \in Nat \ {0} /\ DOMAIN f = 1 .. n /\ Top(t) = f[n]
      /\ f[n] \in Classes
  BY DEF BuildInv, Descend, Top
<1>2. PICK c \in Classes : c = Head(InOrder(MissingFor(f[n]))) /\ c \in needs[f[n]] /\ c \notin objects
  <2>1. MissingFor(f[n]) # {} /\ MissingFor(f[n]) \in SUBSET Classes
    BY <1>1 DEF Descend, MissingFor, BuildInv
  <2>2. Head(InOrder(MissingFor(f[n]))) \in MissingFor(f[n])
    BY <2>1, InOrderIs
  <2> QED
    BY <2>1, <2>2 DEF MissingFor
<1>3. frames' = [frames EXCEPT ![t] = Append(f, c)] /\ UNCHANGED <<needs, objects, got, constructed>>
  BY <1>1, <1>2 DEF Descend
<1>4. /\ Append(f, c) \in Seq(Classes) /\ DOMAIN Append(f, c) = 1 .. n + 1
      /\ \A i \in 1 .. n : Append(f, c)[i] = f[i]
      /\ Append(f, c)[n + 1] = c
  BY <1>1, AppendProperties
<1>5. \A u \in Threads : frames[u] # <<>> => u = t
  BY <1>1 DEF BuildInv
<1>6. \A i \in 1 .. n : f[i] \notin objects /\ \A j \in 1 .. n : j = i + 1 => f[j] \in needs[f[i]]
  BY <1>1 DEF BuildInv
<1>7. ASSUME NEW i \in 1 .. n + 1
      PROVE  /\ Append(f, c)[i] \notin objects
             /\ \A j \in 1 .. n + 1 : j = i + 1 => Append(f, c)[j] \in needs[Append(f, c)[i]]
  <2>1. i \in 1 .. n \/ i = n + 1
    BY <1>1
  <2>2. Append(f, c)[i] \notin objects
    BY <1>2, <1>4, <1>6, <2>1
  <2>3. ASSUME NEW j \in 1 .. n + 1, j = i + 1 PROVE Append(f, c)[j] \in needs[Append(f, c)[i]]
    <3>1. i \in 1 .. n /\ Append(f, c)[i] = f[i]
      BY <1>1, <1>4, <2>3
    <3>2. CASE j = n + 1
      <4>1. i = n
        BY <1>1, <2>3, <3>2
      <4> QED
        BY <1>2, <1>4, <3>1, <3>2, <4>1
    <3>3. CASE j # n + 1
      <4>1. j \in 1 .. n
        BY <1>1, <3>3
      <4> QED
        BY <1>4, <1>6, <2>3, <3>1, <4>1
    <3> QED
      BY <3>2, <3>3
  <2> QED
    BY <2>2, <2>3
<1> HIDE DEF f, n
<1> QED
  BY <1>3, <1>4, <1>5, <1>7, FramesKeep

\* The innermost class was needed by the one around it and is complete before that
\* one: so no frame but the last is of it.
LEMMA ConstructorReturnsKeeps == ASSUME NEW t \in Threads PROVE BuildInv /\ ConstructorReturns(t) => BuildInv'
<1> SUFFICES ASSUME BuildInv, ConstructorReturns(t) PROVE BuildInv'
  OBVIOUS
<1> DEFINE f == frames[t]
           n == Len(f)
           g == SubSeq(f, 1, n - 1)
<1>1. /\ f \in Seq(Classes) /\ f # <<>> /\ n \in Nat \ {0} /\ DOMAIN f = 1 .. n /\ Top(t) = f[n]
      /\ f[n] \in Classes
  BY DEF BuildInv, ConstructorReturns, Top
<1>2. PICK c \in Classes : c = f[n]
  BY <1>1
<1>3. /\ needs[c] \subseteq objects /\ objects' = objects \cup {c} /\ needs' = needs
      /\ constructed' = [constructed EXCEPT ![c] = @ + 1]
      /\ got' = [got EXCEPT ![t] = @ \cup {c}] \/ got' = got
      /\ frames' = [frames EXCEPT ![t] = g]
  BY <1>1, <1>2 DEF ConstructorReturns, MissingFor, Stores, Take
<1>4. /\ g \in Seq(Classes) /\ DOMAIN g = 1 .. n - 1
      /\ \A i \in 1 .. n - 1 : g[i] = f[i]
  <2>1. /\ SubSeq(f, 1, n - 1) \in Seq(Classes)
        /\ Len(SubSeq(f, 1, n - 1)) = IF 1 <= n - 1 THEN (n - 1) - 1 + 1 ELSE 0
        /\ \A i \in 1 .. (n - 1) - 1 + 1 : SubSeq(f, 1, n - 1)[i] = f[1 + i - 1]
    <3>1. \A i \in 1 .. n - 1 : f[i] \in Classes
      BY <1>1
    <3>2. 1 \in 1 .. n + 1 /\ n - 1 \in 1 - 1 .. n
      BY <1>1
    <3> QED
      BY <1>1, <3>1, <3>2, SubSeqProperties
  <2> QED
    BY <1>1, <2>1
<1>5. c \notin objects /\ \A u \in Threads : u # t => frames[u] = <<>>
  BY <1>1, <1>2 DEF BuildInv
<1>6. ASSUME NEW i \in 1 .. n - 1 PROVE f[i] # c /\ f[i] \notin objects
  <2>1. i \in 1 .. n /\ i + 1 \in 1 .. n
    BY <1>1
  <2>2. f[i + 1] \in needs[f[i]] /\ f[i + 1] \notin objects /\ f[i] \notin objects
    BY <1>1, <2>1 DEF BuildInv
  <2> QED
    BY <1>3, <2>2
<1> HIDE DEF f, n, g
<1>7. /\ frames' \in [Threads -> Seq(Classes)] /\ frames'[t] = g
      /\ \A u \in Threads : u # t => frames'[u] = <<>>
  BY <1>3, <1>4, <1>5 DEF BuildInv
<1>8. \A u, v \in Threads : frames'[u] # <<>> /\ frames'[v] # <<>> => u = v
  BY <1>7
<1>9. \A i, j \in 1 .. n - 1 : j = i + 1 => f[j] \in needs[f[i]]
  <2>1. \A i \in 1 .. n - 1 : i \in DOMAIN f
    BY <1>1
  <2> QED
    BY <2>1 DEF BuildInv, f
<1>10. \A u \in Threads : \A i \in DOMAIN frames'[u] :
        /\ frames'[u][i] \notin objects'
        /\ \A j \in DOMAIN frames'[u] : j = i + 1 => frames'[u][j] \in needs'[frames'[u][i]]
  <2>1. DOMAIN <<>> = {}
    OBVIOUS
  <2>2. \A i \in 1 .. n - 1 : g[i] \notin objects' /\ \A j \in 1 .. n - 1 : j = i + 1 => g[j] \in needs'[g[i]]
    BY <1>3, <1>4, <1>6, <1>9
  <2> QED
    BY <1>4, <1>7, <2>1, <2>2
<1>11. /\ objects' \in SUBSET Classes /\ got' \in [Threads -> SUBSET Classes]
       /\ \A u \in Threads : got'[u] \subseteq objects'
  <2>1. /\ c \in Classes /\ objects' = objects \cup {c} /\ objects \in SUBSET Classes
        /\ got \in [Threads -> SUBSET Classes]
        /\ \A u \in Threads : got[u] \subseteq objects
    BY <1>3 DEF BuildInv
  <2>2. CASE got' = got
    BY <2>1, <2>2
  <2>3. CASE got' = [got EXCEPT ![t] = @ \cup {c}]
    <3>1. \A u \in Threads : got'[u] = IF u = t THEN got[u] \cup {c} ELSE got[u]
      BY <2>1, <2>3
    <3>2. got' \in [Threads -> SUBSET Classes]
      BY <2>1, <2>3
    <3> QED
      BY <2>1, <3>1, <3>2
  <2> QED
    BY <1>3, <2>2, <2>3
<1>12. /\ constructed' \in [Classes -> Nat]
       /\ \A d \in Classes : constructed'[d] = IF d \in objects' THEN 1 ELSE 0
  BY <1>3, <1>5 DEF BuildInv
<1>13. /\ needs' \in [Classes -> SUBSET Classes]
       /\ \A d \in objects' : needs'[d] \subseteq objects'
  BY <1>3 DEF BuildInv
<1> QED
  BY <1>7, <1>8, <1>10, <1>11, <1>12, <1>13 DEF BuildInv

\* A thread that finds the container free begins to build.
LEMMA GetMissingKeeps ==
  ASSUME NEW t \in Threads, NEW c \in Classes
  PROVE  BuildInv /\ GetMissing(t, c) => BuildInv'
<1> SUFFICES ASSUME BuildInv, GetMissing(t, c) PROVE BuildInv'
  OBVIOUS
<1>1. /\ \A u \in Threads : frames[u] = <<>>
      /\ c \notin objects /\ frames' = [frames EXCEPT ![t] = <<c>>]
      /\ UNCHANGED <<needs, objects, got, constructed>>
  BY DEF GetMissing, Unlocked
<1>2. /\ <<c>> \in Seq(Classes) /\ DOMAIN <<c>> = {1} /\ <<c>>[1] = c
  OBVIOUS
<1>3. \A i \in DOMAIN <<c>> : <<c>>[i] \notin objects /\ \A j \in DOMAIN <<c>> : j # i + 1
  BY <1>1, <1>2
<1> QED
  BY <1>1, <1>2, <1>3, FramesKeep

\* What is there already is handed out.
LEMMA GetExistingKeeps ==
  ASSUME NEW t \in Threads, NEW c \in Classes
  PROVE  BuildInv /\ GetExisting(t, c) => BuildInv'
<1> SUFFICES ASSUME BuildInv, GetExisting(t, c) PROVE BuildInv'
  OBVIOUS
<1>1. /\ c \in objects /\ got' = [got EXCEPT ![t] = @ \cup {c}]
      /\ UNCHANGED <<needs, objects, frames, constructed>>
  BY DEF GetExisting, Take
<1>2. got' \in [Threads -> SUBSET Classes] /\ \A u \in Threads : got'[u] \subseteq objects
  BY <1>1 DEF BuildInv
<1> QED
  BY <1>1, <1>2 DEF BuildInv

\* A constructor that fails stores nothing, and gives up all frames.
LEMMA ConstructFailsKeeps == ASSUME NEW t \in Threads PROVE BuildInv /\ ConstructFails(t) => BuildInv'
<1> SUFFICES ASSUME BuildInv, ConstructFails(t) PROVE BuildInv'
  OBVIOUS
<1>1. /\ frames' = [frames EXCEPT ![t] = <<>>] /\ UNCHANGED <<needs, objects, got, constructed>>
  BY DEF ConstructFails
<1>2. <<>> \in Seq(Classes) /\ DOMAIN <<>> = {}
  OBVIOUS
<1> QED
  BY <1>1, <1>2, FramesKeep

\* The sort leaves the components alone, and they the order.
LEMMA ContainerStepKeeps == SortInv /\ BuildInv /\ [ContainerNext]_containerVars => SortInv' /\ BuildInv'
<1> SUFFICES ASSUME SortInv, BuildInv, [ContainerNext]_containerVars PROVE SortInv' /\ BuildInv'
  OBVIOUS
<1>1. CASE Validate \/ Place \/ Sorted
  <2>1. UNCHANGED <<needs, objects, frames, got, constructed>>
    BY <1>1 DEF Validate, Place, Sorted
  <2>2. BuildInv'
    BY <2>1 DEF BuildInv
  <2> QED
    BY <1>1, <2>2, ValidateKeeps, PlaceKeeps, SortedKeeps
<1>2. ASSUME NEW t \in Threads,
             \/ Descend(t) \/ ConstructorReturns(t) \/ ConstructFails(t)
             \/ \E c \in Classes : GetExisting(t, c) \/ GetMissing(t, c)
      PROVE  SortInv' /\ BuildInv'
  <2>1. UNCHANGED <<needs, rule, stage, ready, order>>
    BY <1>2 DEF Descend, ConstructorReturns, ConstructFails, GetExisting, GetMissing
  <2>2. BuildInv'
    BY <1>2, DescendKeeps, ConstructorReturnsKeeps, ConstructFailsKeeps, GetExistingKeeps, GetMissingKeeps
  <2> QED
    BY <2>1, <2>2, OrderStays
<1>3. CASE UNCHANGED containerVars
  <2>1. UNCHANGED <<needs, rule, stage, ready, order>> /\ UNCHANGED <<objects, frames, got, constructed>>
    BY <1>3 DEF containerVars
  <2>2. BuildInv'
    BY <2>1 DEF BuildInv
  <2> QED
    BY <2>1, <2>2, OrderStays
<1> QED
  BY <1>1, <1>2, <1>3 DEF ContainerNext

\* At first nothing is ordered and nothing built.
LEMMA ContainerInitHolds == ContainerInit => SortInv /\ BuildInv
<1> SUFFICES ASSUME ContainerInit PROVE SortInv /\ BuildInv
  OBVIOUS
<1>1. DOMAIN <<>> = {} /\ <<>> \in Seq(Classes)
  OBVIOUS
<1>2. SortShape /\ Placed /\ Ended
  BY <1>1 DEF ContainerInit, SortShape, Placed, Ended
<1>3. Queue
  BY <1>1 DEF ContainerInit, Queue, Distinct, Elements
<1>4. BuildInv
  BY <1>1 DEF ContainerInit, BuildInv
<1> QED
  BY <1>2, <1>3, <1>4 DEF SortInv

\* For every graph of constructors and every order rule, any number of threads and
\* failures: the order is right, an application is refused for its rule only if there
\* is none, and each class has one component, whose dependencies are complete
\* (graph.py:117-205, __init__.py:160-262).
THEOREM ContainerStaysSound == ContainerSpec => []ContainerIsSound
<1>1. SortInv /\ BuildInv => ContainerIsSound
  <2> SUFFICES ASSUME SortInv, BuildInv PROVE ContainerIsSound
    OBVIOUS
  <2>1. OneObjectEach
    BY DEF OneObjectEach, BuildInv
  <2>2. NothingHalfBuilt
    BY DEF NothingHalfBuilt, BuildInv
  <2> QED
    BY <2>1, <2>2, OrderHolds DEF ContainerIsSound, OneCompleteObject
<1> QED
  BY <1>1, ContainerInitHolds, ContainerStepKeeps, PTL DEF ContainerSpec


----------------------------------------------------------------------------
(* Process topology                                                        *)

(* A crash takes from the sockets exactly what the process had open, and a *)
(* promotion adds exactly the singletons: so what is open is what the      *)
(* processes that run and the one that is primary open.                    *)
Open == (UNION {Replicated(p) : p \in alive})
          \cup (IF primary = Unassigned THEN {} ELSE Singletons(primary))
TopologyInv ==
  /\ TopologyTypeOK
  /\ admitted = "started" => ~Refused
  /\ admitted # "started" => alive = {} /\ primary = Unassigned
  /\ listening = Open

LEMMA NobodyIsNoProcess == Unassigned \notin Processes
<1> SUFFICES ASSUME Unassigned \in Processes PROVE FALSE
  OBVIOUS
<1>1. PICK b \in Blocks : Unassigned \in IF blocks[b].count = 1 THEN {<<b, 0>>} ELSE {b} \X (1 .. blocks[b].count)
  BY DEF Processes
<1>2. Unassigned[1] = b
  BY <1>1
<1> QED BY <1>2, TopologyAssumption DEF Unassigned

(* Every step after the start leaves the configuration, and with it what   *)
(* each process would open, as it is.                                      *)
LEMMA ConfigurationStays ==
  ASSUME blocks' = blocks
  PROVE  /\ Processes' = Processes /\ Refused' = Refused
         /\ \A p : Replicated(p)' = Replicated(p) /\ Singletons(p)' = Singletons(p)
         /\ TheBlock' = TheBlock
<1>1. \A b, d : Spec(b, d)' = Spec(b, d)
  BY DEF Spec
<1>2. \A b, d : Declares(b, d)' = Declares(b, d)
  BY <1>1 DEF Declares
<1>3. TheBlock' = TheBlock
  BY DEF TheBlock
<1>4. Processes' = Processes
  BY DEF Processes
<1>5. \A p, d : Opens(p, d)' = Opens(p, d)
  BY <1>1, <1>2, <1>3 DEF Opens
<1>6. \A p : Replicated(p)' = Replicated(p) /\ Singletons(p)' = Singletons(p)
  BY <1>2, <1>5 DEF Replicated, Singletons
<1>7. \A port : Users(port)' = Users(port)
  BY <1>1, <1>2, <1>4 DEF Users
<1>8. PrimaryBlocks' = PrimaryBlocks /\ Orphans' = Orphans
  BY <1>2 DEF PrimaryBlocks, Orphans
<1>9. PrimaryCount' = PrimaryCount
  BY DEF PrimaryCount
<1>10. UnsharedCount' = UnsharedCount
  BY <1>1, <1>2 DEF UnsharedCount
<1>11. DuplicateInBlock' = DuplicateInBlock
  BY <1>1, <1>2 DEF DuplicateInBlock
<1>12. Conflicting' = Conflicting
  BY <1>1, <1>7 DEF Conflicting
<1>13. CannotShare' = CannotShare
  BY <1>1 DEF CannotShare
<1>14. SingletonElsewhere' = SingletonElsewhere
  BY <1>2 DEF SingletonElsewhere
<1>15. Refused' = Refused
  BY <1>8, <1>9, <1>10, <1>11, <1>12, <1>13, <1>14 DEF Refused, Sharded
<1> QED BY <1>3, <1>4, <1>6, <1>15

LEMMA OpensItsOwn ==
  ASSUME NEW p, NEW l \in Replicated(p) \cup Singletons(p)
  PROVE  l.process = p
BY DEF Replicated, Singletons, Opens

LEMMA TheBlockIsPrimary ==
  ASSUME ~Refused
  PROVE  /\ PrimaryBlocks = {TheBlock} /\ TheBlock \in Blocks /\ blocks[TheBlock].primary
         /\ \A b \in Blocks : blocks[b].primary => b = TheBlock
<1>1. Cardinality(PrimaryBlocks) = 1
  BY DEF Refused
<1>2. IsFiniteSet(PrimaryBlocks)
  BY FS_Subset, TopologyAssumption DEF PrimaryBlocks
<1>3. PICK b : PrimaryBlocks = {b}
  BY <1>1, <1>2, FS_Singleton
<1>4. b \in Blocks /\ blocks[b].primary
  BY <1>3 DEF PrimaryBlocks
<1>5. TheBlock \in Blocks /\ blocks[TheBlock].primary
  BY <1>4 DEF TheBlock
<1> QED BY <1>3, <1>5 DEF PrimaryBlocks

LEMMA PrimaryProcess ==
  ASSUME TopologyTypeOK, ~Refused
  PROVE  <<TheBlock, 0>> \in Processes
<1>1. TheBlock \in Blocks /\ blocks[TheBlock].primary
  BY TheBlockIsPrimary
<1>2. blocks[TheBlock].count \in 1 .. 2
  BY <1>1 DEF TopologyTypeOK, Block
<1>3. blocks[TheBlock].count = 1
  BY <1>1, <1>2 DEF Refused, PrimaryCount
<1> QED BY <1>1, <1>3 DEF Processes

LEMMA TopologyStepKeeps == TopologyInv /\ [TopologyNext]_topologyVars => TopologyInv'
<1> SUFFICES ASSUME TopologyInv, [TopologyNext]_topologyVars PROVE TopologyInv'
  OBVIOUS
<1> USE DEF TopologyInv
<1>1. CASE Start
  <2>1. blocks' = blocks /\ admitted = "unread" /\ alive = {} /\ primary = Unassigned
    BY <1>1 DEF Start
  <2>2. listening = {}
    BY <2>1 DEF Open
  <2>3. CASE Refused
    <3>1. admitted' = "refused" /\ alive' = {} /\ primary' = Unassigned /\ listening' = {}
      BY <1>1, <2>1, <2>2, <2>3 DEF Start
    <3> QED BY <2>1, <3>1 DEF TopologyTypeOK, Open
  <2>4. CASE ~Refused
    <3>1. /\ admitted' = "started" /\ alive' = Processes /\ primary' = <<TheBlock, 0>>
          /\ listening' = (UNION {Replicated(p) : p \in Processes}) \cup Singletons(<<TheBlock, 0>>)
      BY <1>1, <2>4 DEF Start
    <3>2. <<TheBlock, 0>> \in Processes
      BY <2>4, PrimaryProcess
    <3>3. <<TheBlock, 0>> # Unassigned
      BY <3>2, NobodyIsNoProcess
    <3>4. /\ Processes' = Processes /\ Refused' = Refused
          /\ \A p : Replicated(p)' = Replicated(p) /\ Singletons(p)' = Singletons(p)
      BY <2>1, ConfigurationStays
    <3>5. Open' = listening'
      BY <3>1, <3>3, <3>4 DEF Open, Unassigned
    <3>6. TopologyTypeOK'
      BY <2>1, <3>1, <3>2, <3>4 DEF TopologyTypeOK
    <3> QED BY <2>4, <3>1, <3>4, <3>5, <3>6
  <2> QED BY <2>3, <2>4
<1>2. ASSUME NEW p, Dies(p) PROVE TopologyInv'
  <2>1. /\ blocks' = blocks /\ admitted' = admitted /\ p \in alive /\ alive' = alive \ {p}
        /\ listening' = {l \in listening : l.process # p}
        /\ primary' = IF primary = p THEN Unassigned ELSE primary
    BY <1>2 DEF Dies
  <2>2. admitted = "started"
    BY <2>1
  <2>3. /\ Processes' = Processes /\ Refused' = Refused
        /\ \A q : Replicated(q)' = Replicated(q) /\ Singletons(q)' = Singletons(q)
    BY <2>1, ConfigurationStays
  <2>4. TopologyTypeOK'
    BY <2>1, <2>3 DEF TopologyTypeOK
  <2>5. Unassigned' = Unassigned
    BY DEF Unassigned
  <2>6. \A q : \A l \in Replicated(q) \cup Singletons(q) : l.process = q
    BY OpensItsOwn
  <2>7. p # Unassigned
    BY <2>1, NobodyIsNoProcess DEF TopologyTypeOK
  <2>8. Open' = (UNION {Replicated(q) : q \in alive \ {p}})
                 \cup (IF primary \in {p, Unassigned} THEN {} ELSE Singletons(primary))
    BY <2>1, <2>3, <2>5 DEF Open
  <2>9. \A q \in alive \ {p} : \A l \in Replicated(q) : l.process # p
    BY <2>6
  <2>10. \A l \in Replicated(p) : l.process = p
    BY <2>6
  <2>11. CASE primary = p
    <3>1. \A l \in Singletons(p) : l.process = p
      BY <2>6
    <3>2. listening = (UNION {Replicated(q) : q \in alive}) \cup Singletons(p)
      BY <2>7, <2>11 DEF Open
    <3>3. \A l : l \in listening' <=> \E q \in alive \ {p} : l \in Replicated(q)
      BY <2>1, <2>9, <2>10, <3>1, <3>2
    <3>4. Open' = UNION {Replicated(q) : q \in alive \ {p}}
      BY <2>8, <2>11
    <3>5. \A l : l \in Open' <=> \E q \in alive \ {p} : l \in Replicated(q)
      BY <3>4
    <3>6. listening' \subseteq Open' /\ Open' \subseteq listening'
      BY <3>3, <3>5
    <3> QED BY <3>6
  <2>12. CASE primary # p
    <3>1. \A l \in Singletons(primary) : l.process # p
      BY <2>6, <2>12
    <3> DEFINE own == IF primary = Unassigned THEN {} ELSE Singletons(primary)
    <3>2. \A l \in own : l.process # p
      BY <3>1
    <3>3. Open' = (UNION {Replicated(q) : q \in alive \ {p}}) \cup own
      BY <2>8, <2>12
    <3>4. listening = (UNION {Replicated(q) : q \in alive}) \cup own
      BY DEF Open
    <3> HIDE DEF own
    <3>5. \A l : l \in listening' <=> (\E q \in alive \ {p} : l \in Replicated(q)) \/ l \in own
      BY <2>1, <2>9, <2>10, <3>2, <3>4
    <3>6. \A l : l \in Open' <=> (\E q \in alive \ {p} : l \in Replicated(q)) \/ l \in own
      BY <3>3
    <3>7. listening' \subseteq Open' /\ Open' \subseteq listening'
      BY <3>5, <3>6
    <3> QED BY <3>7
  <2>13. listening' = Open'
    BY <2>11, <2>12
  <2> QED BY <2>1, <2>2, <2>3, <2>4, <2>13
<1>3. ASSUME NEW p, Respawned(p) PROVE TopologyInv'
  <2>1. /\ blocks' = blocks /\ admitted' = admitted /\ admitted = "started" /\ primary' = primary
        /\ p \in Processes /\ alive' = alive \cup {p} /\ listening' = listening \cup Replicated(p)
    BY <1>3 DEF Respawned
  <2>2. /\ Processes' = Processes /\ Refused' = Refused
        /\ \A q : Replicated(q)' = Replicated(q) /\ Singletons(q)' = Singletons(q)
    BY <2>1, ConfigurationStays
  <2>3. TopologyTypeOK'
    BY <2>1, <2>2 DEF TopologyTypeOK, Unassigned
  <2>4. listening' = Open'
    BY <2>1, <2>2 DEF Open, Unassigned
  <2> QED BY <2>1, <2>2, <2>3, <2>4
<1>4. ASSUME NEW p, Promoted(p) PROVE TopologyInv'
  <2>1. /\ blocks' = blocks /\ admitted' = admitted /\ alive' = alive
        /\ p \in alive /\ primary = Unassigned /\ primary' = p
        /\ listening' = listening \cup Singletons(p)
    BY <1>4 DEF Promoted
  <2>2. /\ Processes' = Processes /\ Refused' = Refused
        /\ \A q : Replicated(q)' = Replicated(q) /\ Singletons(q)' = Singletons(q)
    BY <2>1, ConfigurationStays
  <2>3. TopologyTypeOK'
    BY <2>1, <2>2 DEF TopologyTypeOK, Unassigned
  <2>4. p # Unassigned
    BY <2>1, NobodyIsNoProcess DEF TopologyTypeOK
  <2>5. Open' = (UNION {Replicated(q) : q \in alive}) \cup Singletons(p)
    BY <2>1, <2>2, <2>4 DEF Open, Unassigned
  <2>6. Open = (UNION {Replicated(q) : q \in alive})
    BY <2>1 DEF Open
  <2>7. listening' = Open'
    BY <2>1, <2>5, <2>6
  <2> QED BY <2>1, <2>2, <2>3, <2>7
<1>5. CASE UNCHANGED topologyVars
  <2>1. /\ blocks' = blocks /\ admitted' = admitted /\ alive' = alive
        /\ primary' = primary /\ listening' = listening
    BY <1>5 DEF topologyVars
  <2>2. /\ Processes' = Processes /\ Refused' = Refused
        /\ \A q : Replicated(q)' = Replicated(q) /\ Singletons(q)' = Singletons(q)
    BY <2>1, ConfigurationStays
  <2> QED BY <2>1, <2>2 DEF TopologyTypeOK, Open, Unassigned
<1> QED BY <1>1, <1>2, <1>3, <1>4, <1>5 DEF TopologyNext

----------------------------------------------------------------------------
(* The cell that l is opened from: the one of its process, or for a        *)
(* singleton the one of the primary block.                                 *)
User(l) == IF Scaling[l.door] = "singleton" THEN <<<<TheBlock, 0>>, l.door>> ELSE <<l.process, l.door>>

LEMMA DeclaredIsSingle ==
  ASSUME TopologyTypeOK, ~Refused, NEW d \in Doors
  PROVE  /\ \E b \in Blocks : Declares(b, d)
         /\ Scaling[d] = "singleton" => /\ Declares(TheBlock, d)
                                        /\ \A b \in Blocks : Declares(b, d) => b = TheBlock
<1>1. \E b \in Blocks : Declares(b, d)
  BY DEF Refused, Orphans
<1>2. ASSUME Scaling[d] = "singleton", NEW b \in Blocks, Declares(b, d) PROVE b = TheBlock
  <2>1. blocks[b].primary
    BY <1>2 DEF Refused, SingletonElsewhere
  <2> QED BY <2>1, TheBlockIsPrimary
<1> QED BY <1>1, <1>2

(* A socket is opened on the port of its user, whose block declares it.    *)
LEMMA UserIsUser ==
  ASSUME TopologyInv, NEW l \in listening
  PROVE  /\ ~Refused /\ l.door \in Doors /\ l.port \in Ports
         /\ User(l) \in Users(l.port)
         /\ Scaling[l.door] = "singleton" => l = Opens(primary, l.door) /\ primary \in Processes
         /\ Scaling[l.door] # "singleton" =>
              /\ l.process \in Processes /\ l = Opens(l.process, l.door)
              /\ Declares(l.process[1], l.door)
<1>1. admitted = "started" /\ ~Refused
  BY DEF TopologyInv, Open
<1>2. ASSUME NEW b \in Blocks, NEW d \in Doors, Declares(b, d)
      PROVE  Spec(b, d).port \in Ports
  BY <1>2 DEF Spec, Declares, TopologyInv, TopologyTypeOK, Block
<1>3. alive \subseteq Processes /\ primary \in alive \cup {Unassigned}
  BY DEF TopologyInv, TopologyTypeOK
<1>4. \A p \in Processes : p[1] \in Blocks
  BY DEF Processes
<1>5. CASE \E p \in alive : l \in Replicated(p)
  <2>1. PICK p \in alive : l \in Replicated(p)
    BY <1>5
  <2>2. PICK d \in Doors : Scaling[d] # "singleton" /\ Declares(p[1], d) /\ l = Opens(p, d)
    BY <2>1 DEF Replicated
  <2>3. l.process = p /\ l.door = d /\ l.port = Spec(p[1], d).port
    BY <2>2 DEF Opens
  <2>4. p \in Processes /\ p[1] \in Blocks /\ l.port \in Ports
    BY <1>2, <1>3, <1>4, <2>1, <2>2, <2>3
  <2>5. <<p, d>> \in Users(l.port)
    BY <2>2, <2>3, <2>4 DEF Users
  <2> QED BY <1>1, <2>2, <2>3, <2>4, <2>5 DEF User
<1>6. CASE primary # Unassigned /\ l \in Singletons(primary)
  <2>1. PICK d \in Doors : Scaling[d] = "singleton" /\ l = Opens(primary, d)
    BY <1>6 DEF Singletons
  <2>2. primary \in Processes /\ primary[1] \in Blocks
    BY <1>3, <1>4, <1>6
  <2>3. Declares(TheBlock, d) /\ (Declares(primary[1], d) => primary[1] = TheBlock)
    BY <1>1, <2>1, <2>2, DeclaredIsSingle DEF TopologyInv
  <2>4. l.door = d /\ l.port = Spec(TheBlock, d).port
    BY <2>1, <2>3 DEF Opens
  <2>5. TheBlock \in Blocks /\ <<TheBlock, 0>> \in Processes
    BY <1>1, TheBlockIsPrimary, PrimaryProcess DEF TopologyInv
  <2>6. l.port \in Ports
    BY <1>2, <2>3, <2>4, <2>5
  <2>7. <<<<TheBlock, 0>>, d>> \in Users(l.port)
    BY <2>3, <2>4, <2>5 DEF Users
  <2> QED BY <1>1, <2>1, <2>2, <2>4, <2>6, <2>7 DEF User
<1>7. (\E p \in alive : l \in Replicated(p)) \/ (primary # Unassigned /\ l \in Singletons(primary))
  BY DEF TopologyInv, Open
<1> QED BY <1>5, <1>6, <1>7

(* Two users of one port share it, and are processes of one adapter.       *)
LEMMA TwoUsers ==
  ASSUME TopologyTypeOK, ~Refused,
         NEW port \in Ports, NEW u \in Users(port), NEW v \in Users(port), u # v
  PROVE  u[2] = v[2] /\ Spec(u[1][1], u[2]).shared /\ Spec(v[1][1], v[2]).shared
<1>1. \A b \in Blocks : blocks[b].count \in 1 .. 2
  BY DEF TopologyTypeOK, Block
<1>2. Processes \subseteq Blocks \X (0 .. 2)
  <2> SUFFICES ASSUME NEW b \in Blocks,
                      NEW p \in IF blocks[b].count = 1 THEN {<<b, 0>>} ELSE {b} \X (1 .. blocks[b].count)
               PROVE  p \in Blocks \X (0 .. 2)
    BY DEF Processes
  <2> QED BY <1>1
<1>3. IsFiniteSet(Blocks \X (0 .. 2))
  <2>1. 0 \in Int /\ 2 \in Int
    OBVIOUS
  <2>2. IsFiniteSet(0 .. 2)
    BY <2>1, FS_Interval, Zenon
  <2> QED BY <2>2, FS_Product, TopologyAssumption
<1>4. IsFiniteSet(Processes)
  BY <1>2, <1>3, FS_Subset
<1>5. IsFiniteSet(Processes \X Doors)
  BY <1>4, FS_Product, TopologyAssumption
<1>6. IsFiniteSet(Users(port))
  BY <1>5, FS_Subset DEF Users
<1>7. IsFiniteSet({u}) /\ Cardinality({u}) = 1 /\ v \notin {u}
  BY FS_Singleton
<1>8. Cardinality({u} \cup {v}) = 2
  BY <1>7, FS_AddElement
<1>9. {u} \cup {v} \in SUBSET Users(port)
  OBVIOUS
<1>10. Cardinality(Users(port)) >= 2 /\ Cardinality(Users(port)) \in Nat
  BY <1>6, <1>8, <1>9, FS_Subset, FS_CardinalityType
<1> QED BY <1>10 DEF Refused, Conflicting

(* For any adapters, servers and ports: what is accepted never opens an    *)
(* address that another listener has without sharing it, and every adapter *)
(* is served, a singleton once, through crashes and promotions             *)
(* (_processes.py:375-491, _supervisor.py:160-642).                        *)
THEOREM TopologyHolds == TopologySpec => []TopologyIsSound
<1>1. TopologyInit => TopologyInv
  <2> SUFFICES ASSUME TopologyInit PROVE TopologyInv
    OBVIOUS
  <2> QED BY DEF TopologyInit, TopologyInv, TopologyTypeOK, Open
<1>2. TopologyInv => AddressesSuffice
  <2> SUFFICES ASSUME TopologyInv PROVE NoAddressTaken /\ NoBoundAddressTaken
    BY DEF AddressesSuffice
  <2>1. TopologyTypeOK
    BY DEF TopologyInv
  <2>2. NoAddressTaken
    <3> SUFFICES ASSUME NEW l \in listening, NEW k \in listening, l.port = k.port, l # k
                 PROVE  l.door = k.door /\ l.how = k.how /\ l.how # "alone"
      BY DEF NoAddressTaken
    <3>1. User(l) # User(k)
      <4> SUFFICES ASSUME User(l) = User(k) PROVE FALSE
        OBVIOUS
      <4>1. l.door = k.door
        BY DEF User
      <4>2. CASE Scaling[l.door] = "singleton"
        BY <4>1, <4>2, UserIsUser
      <4>3. CASE Scaling[l.door] # "singleton"
        <5>1. l.process = k.process
          BY <4>1, <4>3 DEF User
        <5> QED BY <4>1, <4>3, <5>1, UserIsUser
      <4> QED BY <4>2, <4>3
    <3>2. /\ User(l)[2] = User(k)[2] /\ Spec(User(l)[1][1], User(l)[2]).shared
          /\ Spec(User(k)[1][1], User(k)[2]).shared
      BY <2>1, <3>1, UserIsUser, TwoUsers
    <3>3. l.door = k.door
      BY <3>2 DEF User
    <3>4. Scaling[l.door] # "singleton"
      BY <3>1, <3>3 DEF User
    <3>5. /\ l = Opens(l.process, l.door) /\ Declares(l.process[1], l.door)
          /\ k = Opens(k.process, l.door) /\ Declares(k.process[1], l.door)
      BY <3>3, <3>4, UserIsUser
    <3>6. Spec(l.process[1], l.door).shared /\ Spec(k.process[1], l.door).shared
      BY <3>2, <3>3, <3>4 DEF User
    <3>7. l.how = IF ShareBy[l.door] = "reuseport" THEN "reuseport" ELSE "inherited"
      BY <3>5, <3>6 DEF Opens
    <3>8. k.how = IF ShareBy[l.door] = "reuseport" THEN "reuseport" ELSE "inherited"
      BY <3>5, <3>6 DEF Opens
    <3> QED BY <3>3, <3>7, <3>8
  <2>3. NoBoundAddressTaken
    <3> SUFFICES ASSUME NEW l \in listening, l.how = "alone", l.port \in Bound
                 PROVE  SharedSingleton(l)
      BY DEF NoBoundAddressTaken
    <3>1. PICK u \in Users(l.port) : Spec(u[1][1], u[2]).shared /\ ShareBy[u[2]] = "inherit"
      BY DEF Bound
    <3>2. Spec(User(l)[1][1], User(l)[2]).shared
      BY <2>1, <3>1, UserIsUser, TwoUsers
    <3>3. User(l)[2] = l.door /\ (u = User(l) \/ u[2] = l.door)
      <4>1. User(l)[2] = l.door
        BY DEF User
      <4> QED BY <2>1, <3>1, <4>1, UserIsUser, TwoUsers
    <3>4. ShareBy[l.door] = "inherit"
      BY <3>1, <3>3
    <3>5. CASE Scaling[l.door] # "singleton"
      <4>1. l = Opens(l.process, l.door) /\ Declares(l.process[1], l.door)
        BY <3>5, UserIsUser
      <4>2. Spec(l.process[1], l.door).shared
        BY <3>2, <3>5 DEF User
      <4>3. l.how = "inherited"
        BY <3>4, <4>1, <4>2 DEF Opens
      <4> QED BY <4>3
    <3>6. CASE Scaling[l.door] = "singleton"
      BY <3>2, <3>6 DEF User, SharedSingleton
    <3> QED BY <3>5, <3>6
  <2> QED BY <2>2, <2>3
<1>3. TopologyInv => EveryDoorOpen
  <2> SUFFICES ASSUME TopologyInv, alive = Processes, primary # Unassigned, admitted = "started",
                      NEW d \in Doors
               PROVE  LET at == {l \in listening : l.door = d}
                      IN at # {} /\ (Scaling[d] = "singleton" => Cardinality(at) = 1)
    BY DEF EveryDoorOpen
  <2> DEFINE at == {l \in listening : l.door = d}
  <2>1. TopologyTypeOK /\ ~Refused
    BY DEF TopologyInv
  <2>2. CASE Scaling[d] = "singleton"
    <3>1. Opens(primary, d) \in at
      <4>1. Opens(primary, d).door = d
        BY DEF Opens
      <4>2. Opens(primary, d) \in Singletons(primary)
        BY <2>2 DEF Singletons
      <4> QED BY <4>1, <4>2 DEF TopologyInv, Open
    <3>2. \A l \in at : l = Opens(primary, d)
      BY <2>2, UserIsUser
    <3>3. at = {Opens(primary, d)}
      BY <3>1, <3>2
    <3> QED BY <3>3, FS_Singleton
  <2>3. CASE Scaling[d] # "singleton"
    <3>1. PICK b \in Blocks : Declares(b, d)
      BY <2>1, DeclaredIsSingle
    <3>2. blocks[b].count \in 1 .. 2
      BY <2>1 DEF TopologyTypeOK, Block
    <3>3. <<b, 0>> \in Processes \/ <<b, 1>> \in Processes
      BY <3>2 DEF Processes
    <3>4. PICK p \in Processes : p[1] = b
      BY <3>3
    <3>5. Opens(p, d) \in Replicated(p) /\ Opens(p, d).door = d
      BY <2>3, <3>1, <3>4 DEF Replicated, Opens
    <3>6. Opens(p, d) \in at
      BY <3>5 DEF TopologyInv, Open
    <3> QED BY <2>3, <3>6
  <2> QED BY <2>2, <2>3
<1>4. TopologyInv => TopologyIsSound
  BY <1>2, <1>3 DEF TopologyIsSound
<1> QED BY <1>1, <1>4, TopologyStepKeeps, PTL DEF TopologySpec

----------------------------------------------------------------------------
(* Numbers of the contract                                                 *)

(* What a record still remembers of the fields a peer may have seen: every *)
(* number, and no other field for it; and a record of different numbers    *)
(* that stay below some bound.                                             *)
Remembers(rec, pairs) ==
  \A p \in pairs : /\ p[2] \in NumbersOf(rec)
                   /\ \A n \in DOMAIN rec.fields : rec.fields[n] = p[2] => n = p[1]
Pairs(fields) == {<<n, fields[n]>> : n \in DOMAIN fields}
IsRecord(rec) ==
  /\ rec.fields \in [DOMAIN rec.fields -> Nat] /\ rec.numbers \subseteq Nat
  /\ DOMAIN rec.fields \subseteq Names /\ rec.names \subseteq Names
  /\ \E top \in Nat : \A k \in NumbersOf(rec) : k <= top
  /\ Remembers(rec, Pairs(rec.fields))
Agree(pairs, others) == \A p \in pairs, q \in others : p[2] = q[2] => p[1] = q[1]

LEMMA GreatestOf ==
  ASSUME NEW S \in SUBSET Nat, NEW top \in Nat, \A k \in S : k <= top, S # {}
  PROVE  Max(S) \in S /\ \A k \in S : k <= Max(S)
<1> DEFINE T == {top - k : k \in S}
<1>1. \A k \in S : k \in Nat /\ top - k \in Nat
  OBVIOUS
<1>2. T \in SUBSET Nat /\ T # {}
  BY <1>1
<1> HIDE DEF T
<1>3. PICK m \in T : \A n \in T : m <= n
  BY <1>2, LeastExists
<1>4. PICK g \in S : m = top - g
  BY <1>3 DEF T
<1>5. \A k \in S : g >= k
  <2> SUFFICES ASSUME NEW k \in S PROVE g >= k
    OBVIOUS
  <2>1. top - g <= top - k
    BY <1>3, <1>4 DEF T
  <2> QED BY <1>1, <2>1
<1>6. \E x \in S : \A k \in S : x >= k
  BY <1>5
<1>7. Max(S) \in S /\ \A k \in S : Max(S) >= k
  BY <1>6 DEF Max
<1> QED BY <1>1, <1>7

LEMMA FirstFreeIsFree ==
  ASSUME NEW rec, IsRecord(rec)
  PROVE  FirstFree(rec) \in Nat /\ \A k \in NumbersOf(rec) : k < FirstFree(rec)
<1>1. NumbersOf(rec) \in SUBSET Nat
  BY DEF NumbersOf, IsRecord
<1>2. PICK top \in Nat : \A k \in NumbersOf(rec) : k <= top
  BY DEF IsRecord
<1> DEFINE all == {0} \union NumbersOf(rec)
<1>3. all \in SUBSET Nat /\ all # {} /\ \A k \in all : k <= top
  BY <1>1, <1>2
<1> HIDE DEF all
<1>4. Max(all) \in all /\ \A k \in all : k <= Max(all)
  BY <1>3, GreatestOf
<1>5. FirstFree(rec) = Max(all) + 1
  BY DEF FirstFree, all
<1>6. Max(all) \in Nat
  BY <1>3, <1>4
<1>7. FirstFree(rec) \in Nat /\ \A k \in all : k < FirstFree(rec)
  BY <1>3, <1>4, <1>5, <1>6
<1> QED BY <1>7 DEF all

NewBefore(rec, q, i) == {j \in 1 .. i - 1 : q[j] \notin DOMAIN rec.fields}

LEMMA ModelShape ==
  ASSUME NEW q \in Models
  PROVE  /\ Len(q) \in Nat /\ q \in [1 .. Len(q) -> Names] /\ ToSet(q) \subseteq Names
         /\ \A n \in ToSet(q) : Position(q, n) \in 1 .. Len(q) /\ q[Position(q, n)] = n
<1>1. PICK m \in 0 .. MaxFields : q \in [1 .. m -> Names]
  BY DEF Models, SeqOf
<1>2. m \in Nat
  BY ProtoAssumption
<1>3. q \in Seq(Names) /\ Len(q) = m
  BY <1>1, <1>2
<1>4. DOMAIN q = 1 .. Len(q)
  BY <1>1, <1>3
<1>5. \A n \in ToSet(q) : \E i \in DOMAIN q : q[i] = n
  BY DEF ToSet
<1>6. \A n \in ToSet(q) : Position(q, n) \in DOMAIN q /\ q[Position(q, n)] = n
  BY <1>5 DEF Position
<1> QED BY <1>1, <1>2, <1>3, <1>4, <1>6 DEF ToSet

(* Two new fields get different numbers: of two places the later one has   *)
(* the earlier new field before it.                                        *)
LEMMA NewBeforeGrows ==
  ASSUME NEW rec, NEW q \in Models, NEW i \in 1 .. Len(q), NEW j \in 1 .. Len(q), i < j,
         q[i] \notin DOMAIN rec.fields
  PROVE  /\ Cardinality(NewBefore(rec, q, i)) \in Nat /\ Cardinality(NewBefore(rec, q, j)) \in Nat
         /\ Cardinality(NewBefore(rec, q, i)) < Cardinality(NewBefore(rec, q, j))
<1>1. Len(q) \in Nat
  BY ModelShape
<1>2. 1 \in Int /\ j - 1 \in Int
  BY <1>1
<1>3. IsFiniteSet(1 .. j - 1)
  BY <1>2, FS_Interval
<1>4. NewBefore(rec, q, j) \in SUBSET (1 .. j - 1)
  BY DEF NewBefore
<1>5. IsFiniteSet(NewBefore(rec, q, j))
  BY <1>3, <1>4, FS_Subset
<1>6. NewBefore(rec, q, i) \in SUBSET NewBefore(rec, q, j)
  BY <1>1 DEF NewBefore
<1>7. i \in NewBefore(rec, q, j) /\ i \notin NewBefore(rec, q, i)
  BY <1>1 DEF NewBefore
<1>8. IsFiniteSet(NewBefore(rec, q, i))
  BY <1>5, <1>6, FS_Subset
<1>9. /\ Cardinality(NewBefore(rec, q, i)) <= Cardinality(NewBefore(rec, q, j))
      /\ Cardinality(NewBefore(rec, q, i)) # Cardinality(NewBefore(rec, q, j))
  BY <1>5, <1>6, <1>7, FS_Subset
<1>10. Cardinality(NewBefore(rec, q, i)) \in Nat /\ Cardinality(NewBefore(rec, q, j)) \in Nat
  BY <1>5, <1>8, FS_CardinalityType
<1> QED BY <1>9, <1>10

LEMMA NewBeforeIsFew ==
  ASSUME NEW rec, NEW q \in Models, NEW i \in 1 .. Len(q)
  PROVE  Cardinality(NewBefore(rec, q, i)) \in 0 .. Len(q)
<1>1. Len(q) \in Nat
  BY ModelShape
<1>2. 1 \in Int /\ i - 1 \in Int /\ i - 1 >= 0
  BY <1>1
<1>3. IsFiniteSet(1 .. i - 1) /\ Cardinality(1 .. i - 1) = i - 1
  BY <1>2, FS_Interval
<1>4. NewBefore(rec, q, i) \in SUBSET (1 .. i - 1)
  BY DEF NewBefore
<1>5. Cardinality(NewBefore(rec, q, i)) \in Nat /\ Cardinality(NewBefore(rec, q, i)) <= i - 1
  BY <1>3, <1>4, FS_Subset, FS_CardinalityType
<1> QED BY <1>1, <1>5

(* assign_numbers forgets no number, and gives none to another field.      *)
LEMMA AssignedRemembers ==
  ASSUME NEW rec, IsRecord(rec), NEW q \in Models
  PROVE  /\ IsRecord(Assigned(rec, q))
         /\ \A pairs : Remembers(rec, pairs) => Remembers(Assigned(rec, q), pairs)
<1> DEFINE new == Assigned(rec, q)
           old == DOMAIN rec.fields
           rank(n) == Cardinality(NewBefore(rec, q, Position(q, n)))
<1>1. /\ Len(q) \in Nat /\ q \in [1 .. Len(q) -> Names] /\ ToSet(q) \subseteq Names
      /\ \A n \in ToSet(q) : Position(q, n) \in 1 .. Len(q) /\ q[Position(q, n)] = n
  BY ModelShape
<1>2. /\ FirstFree(rec) \in Nat /\ \A k \in NumbersOf(rec) : k < FirstFree(rec)
  BY FirstFreeIsFree
<1>3. /\ new.fields = [n \in ToSet(q) |-> IF n \in old THEN rec.fields[n] ELSE FirstFree(rec) + rank(n)]
      /\ new.numbers = rec.numbers \union {rec.fields[n] : n \in old \ ToSet(q)}
      /\ new.names = rec.names \union (old \ ToSet(q))
  BY DEF Assigned, NewBefore
<1>4. \A n \in ToSet(q) : rank(n) \in 0 .. Len(q)
  BY <1>1, NewBeforeIsFew
<1>5. \A n \in old : rec.fields[n] \in Nat /\ rec.fields[n] \in NumbersOf(rec)
  BY DEF IsRecord, NumbersOf
<1>6. ASSUME NEW n \in ToSet(q) \ old, NEW m \in ToSet(q) \ old, rank(n) = rank(m) PROVE n = m
  <2> SUFFICES ASSUME n # m PROVE FALSE
    OBVIOUS
  <2> DEFINE i == Position(q, n)  j == Position(q, m)
  <2>1. i \in 1 .. Len(q) /\ j \in 1 .. Len(q) /\ q[i] = n /\ q[j] = m
    BY <1>1
  <2> HIDE DEF i, j
  <2>2. i < j \/ j < i
    BY <1>1, <2>1
  <2>3. CASE i < j
    <3>1. Cardinality(NewBefore(rec, q, i)) < Cardinality(NewBefore(rec, q, j))
          /\ Cardinality(NewBefore(rec, q, i)) \in Nat /\ Cardinality(NewBefore(rec, q, j)) \in Nat
      BY <2>1, <2>3, NewBeforeGrows
    <3> QED BY <1>6, <3>1 DEF i, j
  <2>4. CASE j < i
    <3>1. Cardinality(NewBefore(rec, q, j)) < Cardinality(NewBefore(rec, q, i))
          /\ Cardinality(NewBefore(rec, q, i)) \in Nat /\ Cardinality(NewBefore(rec, q, j)) \in Nat
      BY <2>1, <2>4, NewBeforeGrows
    <3> QED BY <1>6, <3>1 DEF i, j
  <2> QED BY <2>2, <2>3, <2>4
<1> HIDE DEF new, rank
<1>7. DOMAIN new.fields = ToSet(q)
  BY <1>3
<1>8. \A n \in ToSet(q) :
        /\ n \in old => new.fields[n] = rec.fields[n]
        /\ n \notin old => /\ new.fields[n] = FirstFree(rec) + rank(n)
                           /\ new.fields[n] \notin NumbersOf(rec)
        /\ new.fields[n] \in Nat /\ new.fields[n] <= FirstFree(rec) + Len(q)
  <2> SUFFICES ASSUME NEW n \in ToSet(q)
               PROVE  /\ n \in old => new.fields[n] = rec.fields[n]
                      /\ n \notin old => /\ new.fields[n] = FirstFree(rec) + rank(n)
                                         /\ new.fields[n] \notin NumbersOf(rec)
                      /\ new.fields[n] \in Nat /\ new.fields[n] <= FirstFree(rec) + Len(q)
    OBVIOUS
  <2>1. CASE n \in old
    <3>1. new.fields[n] = rec.fields[n]
      BY <1>3, <2>1
    <3>2. rec.fields[n] \in Nat /\ rec.fields[n] < FirstFree(rec)
      BY <1>2, <1>5, <2>1
    <3> QED BY <1>1, <1>2, <2>1, <3>1, <3>2
  <2>2. CASE n \notin old
    <3>1. new.fields[n] = FirstFree(rec) + rank(n)
      BY <1>3, <2>2
    <3>2. new.fields[n] \in Nat /\ new.fields[n] >= FirstFree(rec) /\ new.fields[n] <= FirstFree(rec) + Len(q)
      BY <1>1, <1>2, <1>4, <3>1
    <3>3. new.fields[n] \notin NumbersOf(rec)
      <4> SUFFICES ASSUME new.fields[n] \in NumbersOf(rec) PROVE FALSE
        OBVIOUS
      <4>1. new.fields[n] < FirstFree(rec)
        BY <1>2
      <4> QED BY <1>2, <3>2, <4>1
    <3> QED BY <2>2, <3>1, <3>2, <3>3
  <2> QED BY <2>1, <2>2
<1>9. NumbersOf(rec) \subseteq NumbersOf(new)
  <2> SUFFICES ASSUME NEW k \in NumbersOf(rec) PROVE k \in NumbersOf(new)
    OBVIOUS
  <2>1. CASE k \in rec.numbers
    BY <1>3, <2>1 DEF NumbersOf
  <2>2. CASE \E n \in old : k = rec.fields[n]
    <3>1. PICK n \in old : k = rec.fields[n]
      BY <2>2
    <3>2. CASE n \in ToSet(q)
      BY <1>7, <1>8, <3>1, <3>2 DEF NumbersOf
    <3>3. CASE n \notin ToSet(q)
      BY <1>3, <3>1, <3>3 DEF NumbersOf
    <3> QED BY <3>2, <3>3
  <2> QED BY <2>1, <2>2 DEF NumbersOf
<1>10. ASSUME NEW pairs, Remembers(rec, pairs) PROVE Remembers(new, pairs)
  <2> SUFFICES ASSUME NEW p \in pairs
               PROVE  /\ p[2] \in NumbersOf(new)
                      /\ \A n \in DOMAIN new.fields : new.fields[n] = p[2] => n = p[1]
    BY DEF Remembers
  <2>1. p[2] \in NumbersOf(rec) /\ \A n \in old : rec.fields[n] = p[2] => n = p[1]
    BY <1>10 DEF Remembers
  <2> QED BY <1>7, <1>8, <1>9, <2>1
<1>11. \A n, m \in ToSet(q) : new.fields[n] = new.fields[m] => n = m
  <2> SUFFICES ASSUME NEW n \in ToSet(q), NEW m \in ToSet(q), new.fields[n] = new.fields[m]
               PROVE  n = m
    OBVIOUS
  <2>1. CASE n \in old /\ m \in old
    <3>1. Remembers(rec, Pairs(rec.fields))
      BY DEF IsRecord
    <3>2. <<n, rec.fields[n]>> \in Pairs(rec.fields)
      BY <2>1 DEF Pairs
    <3>3. rec.fields[m] = rec.fields[n] => m = n
      BY <2>1, <3>1, <3>2 DEF Remembers
    <3> QED BY <1>8, <2>1, <3>3
  <2>2. CASE n \in old /\ m \notin old
    BY <1>5, <1>8, <2>2
  <2>3. CASE n \notin old /\ m \in old
    BY <1>5, <1>8, <2>3
  <2>4. CASE n \notin old /\ m \notin old
    <3>1. FirstFree(rec) + rank(n) = FirstFree(rec) + rank(m)
      BY <1>8, <2>4
    <3>2. rank(n) \in Nat /\ rank(m) \in Nat
      BY <1>1, <1>4
    <3>3. rank(n) = rank(m)
      BY <1>2, <3>1, <3>2
    <3> QED BY <1>6, <2>4, <3>3
  <2> QED BY <2>1, <2>2, <2>3, <2>4
<1>12. \A k \in NumbersOf(new) : k \in Nat /\ k <= FirstFree(rec) + Len(q)
  <2> SUFFICES ASSUME NEW k \in NumbersOf(new) PROVE k \in Nat /\ k <= FirstFree(rec) + Len(q)
    OBVIOUS
  <2>1. CASE k \in NumbersOf(rec)
    <3>1. k \in Nat
      BY <2>1 DEF NumbersOf, IsRecord
    <3> QED BY <1>1, <1>2, <2>1, <3>1
  <2>2. CASE k \notin NumbersOf(rec)
    <3>1. k \notin new.numbers
      BY <1>3, <1>5, <2>2 DEF NumbersOf
    <3> QED BY <1>7, <1>8, <3>1 DEF NumbersOf
  <2> QED BY <2>1, <2>2
<1>13. Remembers(new, Pairs(new.fields))
  <2> SUFFICES ASSUME NEW n \in ToSet(q)
               PROVE  /\ new.fields[n] \in NumbersOf(new)
                      /\ \A m \in ToSet(q) : new.fields[m] = new.fields[n] => m = n
    BY <1>7 DEF Remembers, Pairs
  <2> QED BY <1>7, <1>11 DEF NumbersOf
<1>14. IsRecord(new)
  <2>1. new.fields \in [DOMAIN new.fields -> Nat]
    BY <1>3, <1>7, <1>8
  <2>2. new.numbers \subseteq Nat
    BY <1>3, <1>5 DEF IsRecord
  <2>3. DOMAIN new.fields \subseteq Names /\ new.names \subseteq Names
    BY <1>1, <1>3, <1>7 DEF IsRecord
  <2>4. FirstFree(rec) + Len(q) \in Nat
    BY <1>1, <1>2
  <2> QED BY <1>12, <1>13, <2>1, <2>2, <2>3, <2>4 DEF IsRecord
<1> QED BY <1>10, <1>14 DEF new

(* The lock file knows every field that was on the wire, and so does the   *)
(* lock in the memory of a generation, which knows as well the fields of   *)
(* the files that were built with it: a number is on the wire only after   *)
(* the lock that holds it has been saved.                                  *)
KnowsTheWire(lock) == \A s \in ServerId : Remembers(lock[MessageOf[s]], everOnWire[s])
BuiltWith(lock, files, n) ==
  \A i \in 1 .. n :
    /\ Remembers(lock[MessageOf[ServerIds[i]]], Pairs(files[ServerIds[i]].fields))
    /\ Agree(Pairs(files[ServerIds[i]].fields), Pairs(files[ServerIds[i]].fields))
    /\ Agree(Pairs(files[ServerIds[i]].fields), everOnWire[ServerIds[i]])

IsLock(lock) == DOMAIN lock = Message /\ \A m \in Message : IsRecord(lock[m])

ProtoInv ==
  /\ pyFields \in [ServerId -> Models]
  /\ IsLock(lockFile) /\ DOMAIN protoFiles = ServerId /\ DOMAIN everOnWire = ServerId
  /\ gen.step \in {"idle", "building", "written", "saved"}
  /\ KnowsTheWire(lockFile)
  /\ gen.step \in {"building", "written"} => IsLock(gen.lock) /\ KnowsTheWire(gen.lock)
  /\ gen.step = "building" =>
       /\ gen.built \in 0 .. Len(ServerIds) /\ DOMAIN gen.files = ServerId
       /\ BuiltWith(gen.lock, gen.files, gen.built)
  /\ gen.step = "written" => BuiltWith(gen.lock, protoFiles, Len(ServerIds))
  /\ gen.step = "saved" => BuiltWith(lockFile, protoFiles, Len(ServerIds))
  /\ NumbersNeverReused

LEMMA ServerShape ==
  /\ Len(ServerIds) \in Nat /\ ServerIds \in [1 .. Len(ServerIds) -> ServerId]
  /\ \A s \in ServerId : MessageOf[s] \in Message
  /\ \A s \in ServerId : \E i \in 1 .. Len(ServerIds) : ServerIds[i] = s
<1>1. Len(ServerIds) \in Nat /\ ServerIds \in [1 .. Len(ServerIds) -> ServerId]
  BY ProtoAssumption
<1>2. \A s \in ServerId : \E i \in 1 .. Len(ServerIds) : ServerIds[i] = s
  BY <1>1 DEF ServerId, ToSet
<1> QED BY <1>1, <1>2 DEF Message

LEMMA EmptyRecord == IsRecord(NoRecord)
<1>1. NoRecord.fields = NoFields /\ NoRecord.numbers = {} /\ NoRecord.names = {}
  BY DEF NoRecord
<1>2. DOMAIN NoFields = {}
  BY DEF NoFields
<1>3. NoFields \in [DOMAIN NoFields -> Nat]
  BY DEF NoFields
<1>4. NumbersOf(NoRecord) = {}
  BY <1>1, <1>2 DEF NumbersOf
<1>5. Pairs(NoFields) = {}
  BY <1>2 DEF Pairs
<1> QED BY <1>1, <1>2, <1>3, <1>4, <1>5 DEF IsRecord, Remembers

(* One server more: what its record remembered it still does, and its file *)
(* has the fields of the new record.                                       *)
LEMMA BuildServerKeeps == ProtoInv /\ BuildServer => ProtoInv'
<1> SUFFICES ASSUME ProtoInv, BuildServer PROVE ProtoInv'
  OBVIOUS
<1> DEFINE i == gen.built + 1
           s == ServerIds[i]
           m == MessageOf[s]
           old == gen.lock[m]
           rec == Assigned(old, pyFields[s])
           lock == gen'.lock
           files == gen'.files
<1>1. /\ gen.step = "building" /\ gen.built < Len(ServerIds)
      /\ gen' = [gen EXCEPT !.lock[m] = rec, !.files[s] = [fields |-> rec.fields, names |-> rec.names],
                            !.built = @ + 1]
      /\ UNCHANGED <<pyFields, lockFile, protoFiles, everOnWire>>
  BY DEF BuildServer
<1>2. /\ IsLock(gen.lock) /\ KnowsTheWire(gen.lock) /\ gen.built \in 0 .. Len(ServerIds)
      /\ DOMAIN gen.files = ServerId /\ BuiltWith(gen.lock, gen.files, gen.built)
  BY <1>1 DEF ProtoInv
<1>3. Len(ServerIds) \in Nat
  BY ServerShape
<1>4. i \in 1 .. Len(ServerIds) /\ gen.built \in Nat
  BY <1>1, <1>2, <1>3
<1>5. s \in ServerId /\ m \in Message
  BY <1>4, ServerShape
<1>6. IsRecord(old) /\ pyFields[s] \in Models
  BY <1>2, <1>5 DEF IsLock, ProtoInv
<1>7. IsRecord(rec) /\ \A pairs : Remembers(old, pairs) => Remembers(rec, pairs)
  BY <1>6, AssignedRemembers
<1>8. /\ lock = [gen.lock EXCEPT ![m] = rec] /\ gen'.built = gen.built + 1
      /\ files = [gen.files EXCEPT ![s] = [fields |-> rec.fields, names |-> rec.names]]
      /\ gen'.step = "building"
  <2>1. /\ gen'.lock = [gen.lock EXCEPT ![m] = rec]
        /\ gen'.files = [gen.files EXCEPT ![s] = [fields |-> rec.fields, names |-> rec.names]]
        /\ gen'.built = gen.built + 1 /\ gen'.step = gen.step
    BY <1>1
  <2> QED BY <1>1, <2>1
<1> HIDE DEF rec, lock, files
<1>9. lock[m] = rec /\ \A n \in Message \ {m} : lock[n] = gen.lock[n]
  BY <1>2, <1>5, <1>8 DEF IsLock
<1>10. files[s].fields = rec.fields /\ \A t \in ServerId \ {s} : files[t] = gen.files[t]
  BY <1>2, <1>5, <1>8
<1>11. \A n \in Message : \A pairs : Remembers(gen.lock[n], pairs) => Remembers(lock[n], pairs)
  BY <1>7, <1>9
<1>12. IsLock(lock)
  BY <1>2, <1>7, <1>8, <1>9 DEF IsLock
<1>13. KnowsTheWire(lock)
  BY <1>2, <1>11, ServerShape DEF KnowsTheWire
<1>14. Remembers(rec, Pairs(rec.fields))
  BY <1>7 DEF IsRecord
<1>15. Agree(Pairs(rec.fields), Pairs(rec.fields))
  BY <1>14 DEF Remembers, Agree, Pairs
<1>16. Agree(Pairs(rec.fields), everOnWire[s])
  <2>1. Remembers(rec, everOnWire[s])
    BY <1>5, <1>9, <1>13 DEF KnowsTheWire
  <2> QED BY <2>1 DEF Remembers, Agree, Pairs
<1>17. BuiltWith(lock, files, gen.built + 1)
  <2> SUFFICES ASSUME NEW j \in 1 .. gen.built + 1
               PROVE  /\ Remembers(lock[MessageOf[ServerIds[j]]], Pairs(files[ServerIds[j]].fields))
                      /\ Agree(Pairs(files[ServerIds[j]].fields), Pairs(files[ServerIds[j]].fields))
                      /\ Agree(Pairs(files[ServerIds[j]].fields), everOnWire[ServerIds[j]])
    BY DEF BuiltWith
  <2>1. CASE ServerIds[j] = s
    BY <1>9, <1>10, <1>14, <1>15, <1>16, <2>1
  <2>2. CASE ServerIds[j] # s
    <3>1. j \in 1 .. gen.built /\ j \in 1 .. Len(ServerIds)
      BY <1>3, <1>4, <2>2
    <3>2. ServerIds[j] \in ServerId /\ MessageOf[ServerIds[j]] \in Message
      BY <3>1, ServerShape
    <3>3. files[ServerIds[j]] = gen.files[ServerIds[j]]
      BY <1>10, <2>2, <3>2
    <3> QED BY <1>2, <1>11, <3>1, <3>2, <3>3 DEF BuiltWith
  <2> QED BY <2>1, <2>2
<1>18. DOMAIN files = ServerId /\ gen.built + 1 \in 0 .. Len(ServerIds)
  BY <1>2, <1>3, <1>4, <1>8
<1>19. /\ gen'.step = "building" /\ gen'.lock = lock /\ gen'.files = files
       /\ gen'.built = gen.built + 1
  BY <1>8 DEF lock, files
<1>20. UNCHANGED <<pyFields, lockFile, protoFiles, everOnWire>>
  BY <1>1
<1>21. /\ KnowsTheWire(gen.lock)' /\ BuiltWith(gen.lock, gen.files, gen.built)'
  BY <1>13, <1>17, <1>19, <1>20 DEF KnowsTheWire, BuiltWith
<1>22. KnowsTheWire(lockFile)' /\ NumbersNeverReused'
  BY <1>20 DEF KnowsTheWire, NumbersNeverReused, ProtoInv
<1>23. IsLock(gen.lock)' /\ IsLock(lockFile)'
  BY <1>12, <1>19, <1>20 DEF ProtoInv
<1> QED BY <1>18, <1>19, <1>20, <1>21, <1>22, <1>23 DEF ProtoInv

(* protoc puts on the wire the fields of files that the saved lock knows.  *)
LEMMA RunProtocKeeps == ProtoInv /\ RunProtoc => ProtoInv'
<1> SUFFICES ASSUME ProtoInv, RunProtoc PROVE ProtoInv'
  OBVIOUS
<1>1. /\ gen.step = "saved" /\ gen'.step = "idle"
      /\ UNCHANGED <<pyFields, lockFile, protoFiles>>
  BY DEF RunProtoc, NotGenerating
<1>2. DOMAIN everOnWire' = ServerId
  BY DEF RunProtoc
<1>3. \A s \in ServerId : everOnWire'[s] \subseteq everOnWire[s] \union Pairs(protoFiles[s].fields)
  BY DEF RunProtoc, Pairs
<1>4. ASSUME NEW s \in ServerId
      PROVE  /\ Remembers(lockFile[MessageOf[s]], everOnWire[s] \union Pairs(protoFiles[s].fields))
             /\ Agree(everOnWire[s] \union Pairs(protoFiles[s].fields),
                      everOnWire[s] \union Pairs(protoFiles[s].fields))
  <2>1. PICK i \in 1 .. Len(ServerIds) : ServerIds[i] = s
    BY ServerShape
  <2>2. /\ Remembers(lockFile[MessageOf[s]], Pairs(protoFiles[s].fields))
        /\ Agree(Pairs(protoFiles[s].fields), Pairs(protoFiles[s].fields))
        /\ Agree(Pairs(protoFiles[s].fields), everOnWire[s])
    BY <1>1, <2>1 DEF ProtoInv, BuiltWith
  <2>3. Remembers(lockFile[MessageOf[s]], everOnWire[s]) /\ Agree(everOnWire[s], everOnWire[s])
    BY DEF ProtoInv, KnowsTheWire, NumbersNeverReused, Agree
  <2>4. Remembers(lockFile[MessageOf[s]], everOnWire[s] \union Pairs(protoFiles[s].fields))
    BY <2>2, <2>3 DEF Remembers
  <2> QED BY <2>2, <2>3, <2>4 DEF Agree
<1>5. KnowsTheWire(lockFile)'
  BY <1>1, <1>3, <1>4 DEF KnowsTheWire, Remembers
<1>6. NumbersNeverReused'
  <2> SUFFICES ASSUME NEW s \in ServerId, NEW p \in everOnWire'[s], NEW q \in everOnWire'[s], p[2] = q[2]
               PROVE  p[1] = q[1]
    BY DEF NumbersNeverReused
  <2>1. /\ p \in everOnWire[s] \union Pairs(protoFiles[s].fields)
        /\ q \in everOnWire[s] \union Pairs(protoFiles[s].fields)
    BY <1>3
  <2> QED BY <1>4, <2>1 DEF Agree
<1> QED BY <1>1, <1>2, <1>5, <1>6 DEF ProtoInv

LEMMA ProtoRestKeeps ==
  ASSUME ProtoInv,
         \/ \E s \in ServerId : EditModel(s)
         \/ LoadLock \/ WriteFiles \/ SaveLock \/ StopGenerate \/ UNCHANGED protoVars
  PROVE  ProtoInv'
<1>1. UNCHANGED everOnWire
  BY DEF EditModel, LoadLock, WriteFiles, SaveLock, StopGenerate, protoVars
<1>2. NumbersNeverReused'
  BY <1>1 DEF ProtoInv, NumbersNeverReused
<1>3. ASSUME NEW s \in ServerId, EditModel(s) PROVE ProtoInv'
  <2>1. gen.step = "idle" /\ UNCHANGED <<lockFile, protoFiles, gen>>
    BY <1>3 DEF EditModel
  <2>2. pyFields' \in [ServerId -> Models]
    BY <1>3 DEF EditModel, ProtoInv
  <2> QED BY <1>1, <1>2, <2>1, <2>2 DEF ProtoInv, KnowsTheWire
<1>4. CASE LoadLock
  <2>1. /\ gen' = [step |-> "building", lock |-> lockFile, files |-> protoFiles, built |-> 0]
        /\ UNCHANGED <<pyFields, lockFile, protoFiles>>
    BY <1>4 DEF LoadLock
  <2>2. gen'.step = "building" /\ gen'.lock = lockFile /\ gen'.files = protoFiles /\ gen'.built = 0
    BY <2>1
  <2>3. KnowsTheWire(lockFile)' /\ KnowsTheWire(gen.lock)'
    BY <1>1, <2>1, <2>2 DEF ProtoInv, KnowsTheWire
  <2>4. BuiltWith(gen.lock, gen.files, gen.built)'
    BY <2>2 DEF BuiltWith
  <2>5. 0 \in 0 .. Len(ServerIds)
    BY ServerShape
  <2>6. gen'.built \in 0 .. Len(ServerIds)' /\ DOMAIN gen'.files = ServerId
    BY <2>1, <2>2, <2>5 DEF ProtoInv
  <2>7. IsLock(gen.lock)' /\ IsLock(lockFile)'
    BY <2>1, <2>2 DEF ProtoInv
  <2> QED BY <1>1, <1>2, <2>1, <2>2, <2>3, <2>4, <2>6, <2>7 DEF ProtoInv
<1>5. CASE WriteFiles
  <2>1. /\ gen.step = "building" /\ gen.built = Len(ServerIds) /\ protoFiles' = gen.files
        /\ gen' = [gen EXCEPT !.step = "written"] /\ UNCHANGED <<pyFields, lockFile>>
    BY <1>5 DEF WriteFiles
  <2>2. gen'.step = "written" /\ gen'.lock = gen.lock
    BY <2>1 DEF ProtoInv
  <2>3. KnowsTheWire(lockFile)' /\ KnowsTheWire(gen.lock)'
    BY <1>1, <2>1, <2>2 DEF ProtoInv, KnowsTheWire
  <2>4. BuiltWith(gen.lock, gen.files, Len(ServerIds))
    BY <2>1 DEF ProtoInv
  <2>5. BuiltWith(gen.lock, protoFiles, Len(ServerIds))'
    BY <1>1, <2>1, <2>2, <2>4 DEF BuiltWith
  <2>6. IsLock(gen.lock)' /\ IsLock(lockFile)' /\ DOMAIN protoFiles' = ServerId
    BY <2>1, <2>2 DEF ProtoInv
  <2> QED BY <1>1, <1>2, <2>1, <2>2, <2>3, <2>5, <2>6 DEF ProtoInv
<1>6. CASE SaveLock
  <2>1. /\ gen.step = "written" /\ lockFile' = gen.lock
        /\ gen' = [gen EXCEPT !.step = "saved"] /\ UNCHANGED <<pyFields, protoFiles>>
    BY <1>6 DEF SaveLock
  <2>2. gen'.step = "saved"
    BY <2>1 DEF ProtoInv
  <2>3. KnowsTheWire(lockFile)' /\ IsLock(lockFile)'
    BY <1>1, <2>1 DEF ProtoInv, KnowsTheWire
  <2>4. BuiltWith(lockFile, protoFiles, Len(ServerIds))'
    BY <1>1, <2>1 DEF ProtoInv, BuiltWith
  <2> QED BY <1>1, <1>2, <2>1, <2>2, <2>3, <2>4 DEF ProtoInv
<1>7. CASE StopGenerate
  <2>1. gen'.step = "idle" /\ UNCHANGED <<pyFields, lockFile, protoFiles>>
    BY <1>7 DEF StopGenerate, NotGenerating
  <2>2. KnowsTheWire(lockFile)' /\ IsLock(lockFile)'
    BY <1>1, <2>1 DEF ProtoInv, KnowsTheWire
  <2> QED BY <1>1, <1>2, <2>1, <2>2 DEF ProtoInv
<1>8. CASE UNCHANGED protoVars
  <2>1. UNCHANGED <<pyFields, lockFile, protoFiles, everOnWire, gen>>
    BY <1>8 DEF protoVars
  <2>2. KnowsTheWire(lockFile)' /\ IsLock(lockFile)'
    BY <2>1 DEF ProtoInv, KnowsTheWire
  <2>3. gen.step \in {"building", "written"} => (KnowsTheWire(gen.lock) /\ IsLock(gen.lock))'
    BY <2>1 DEF ProtoInv, KnowsTheWire
  <2>4. gen.step = "building" =>
          (/\ gen.built \in 0 .. Len(ServerIds) /\ DOMAIN gen.files = ServerId
           /\ BuiltWith(gen.lock, gen.files, gen.built))'
    BY <2>1 DEF ProtoInv, BuiltWith
  <2>5. gen.step = "written" => BuiltWith(gen.lock, protoFiles, Len(ServerIds))'
    BY <2>1 DEF ProtoInv, BuiltWith
  <2>6. gen.step = "saved" => BuiltWith(lockFile, protoFiles, Len(ServerIds))'
    BY <2>1 DEF ProtoInv, BuiltWith
  <2>7. gen'.step = gen.step
    BY <2>1
  <2> QED BY <1>2, <2>1, <2>2, <2>3, <2>4, <2>5, <2>6, <2>7 DEF ProtoInv
<1> QED BY <1>3, <1>4, <1>5, <1>6, <1>7, <1>8

(* Two pb2 modules of one server never give one number to two fields, for  *)
(* any names of messages, shared ones too, and any number of edits and of  *)
(* interrupted generations (_lock.py:29-32).                               *)
THEOREM NumbersStayUnique == ProtoSpec => []NumbersNeverReused
<1>1. ProtoInit => ProtoInv
  <2> SUFFICES ASSUME ProtoInit PROVE ProtoInv
    OBVIOUS
  <2> DEFINE one == CHOOSE q \in Models : Len(q) = 1
  <2>1. one \in Models
    <3>1. PICK n : n \in Names
      BY ProtoAssumption
    <3>2. [i \in 1 .. 1 |-> n] \in [1 .. 1 -> Names] /\ 1 \in 0 .. MaxFields
      BY <3>1, ProtoAssumption
    <3>3. [i \in 1 .. 1 |-> n] \in SeqOf(Names, MaxFields)
      BY <3>2 DEF SeqOf
    <3>4. [i \in 1 .. 1 |-> n] # <<>> /\ Len([i \in 1 .. 1 |-> n]) = 1
      OBVIOUS
    <3>5. IsInjective([i \in 1 .. 1 |-> n])
      BY DEF IsInjective
    <3>6. \E q \in Models : Len(q) = 1
      BY <3>3, <3>4, <3>5 DEF Models
    <3> QED BY <3>6
  <2> HIDE DEF one
  <2>2. pyFields \in [ServerId -> Models]
    BY <2>1 DEF ProtoInit, one
  <2>3. IsLock(lockFile)
    BY EmptyRecord DEF ProtoInit, IsLock
  <2>4. KnowsTheWire(lockFile) /\ NumbersNeverReused
    BY DEF ProtoInit, KnowsTheWire, Remembers, NumbersNeverReused
  <2> QED BY <2>2, <2>3, <2>4 DEF ProtoInit, ProtoInv, NotGenerating
<1>2. ProtoInv /\ [ProtoNext]_protoVars => ProtoInv'
  BY BuildServerKeeps, RunProtocKeeps, ProtoRestKeeps DEF ProtoNext
<1>3. ProtoInv => NumbersNeverReused
  BY DEF ProtoInv
<1> QED BY <1>1, <1>2, <1>3, PTL DEF ProtoSpec

----------------------------------------------------------------------------
(* main.py and its Application                                             *)

IsApp(a) ==
  a = [at |-> a.at, doors |-> a.doors, added |-> a.added, share |-> a.share,
       binding |-> a.binding, log |-> a.log, opened |-> a.opened, run |-> a.run,
       runs |-> a.runs, jobsOf |-> a.jobsOf, byHand |-> a.byHand, hurt |-> a.hurt,
       abandoned |-> a.abandoned, ran |-> a.ran]

HasDoor(a, d) == d \in DoorsIn(a.doors)
BaseOf(a) == DoorsIn(a.doors) \ {"admin", "jobs"}
AdminDoors == IF program.admin = "none" THEN {} ELSE {"admin"}
RunningPhases == {"starting", "up", "serving"}

(* Every application: its doors are those of main.py, each once, and what  *)
(* it holds between two runs is what a stop() or a start() that raised     *)
(* left behind.                                                            *)
AppInv(p, a) ==
  /\ IsApp(a) /\ Once(a.doors) /\ a.runs \in Nat
  /\ a.binding = "empty" => program.package # "broken"
  /\ a.hurt \/ a.abandoned => a.run # 0
  /\ a.at \notin RunningPhases \cup {"failed", "absent"} /\ ~a.hurt /\ ~a.abandoned =>
       a.run = 0 /\ ~a.opened /\ ~HasDoor(a, "jobs")
  /\ a.at \in {"absent", "main", "declared", "refused", "returned"} => ~a.log
  /\ a.at \in RunningPhases => ~a.hurt /\ ~a.abandoned /\ a.run # 0
  /\ a.at = "starting" => ~HasDoor(a, "jobs")
  /\ a.at = "serving" => ~a.byHand
  /\ a.at \in {"up", "serving"} /\ HasDoor(a, "jobs") => a.jobsOf = a.run
  /\ a.at \in RunningPhases /\ a.added => a.binding = "full"
  /\ a.at \notin {"absent", "main", "refused"} =>
       /\ BaseOf(a) = DoorsIn(Used(p)) /\ a.added = RunsLine(p, program.config)
       /\ Accepts(Used(p)) /\ (a.added => program.package = "whole")

(* The parent: what it shares is settled by the first run(), and a run()   *)
(* that served shows that the configuration fits.                          *)
Asks == program.entry = "share" \/ (program.entry = "configured" /\ program.layout = "processes")
ByRun(a) ==
  a.at \in {"validating", "supervising", "prepared"} \/ (a.at \in RunningPhases /\ ~a.byHand)
Fits ==
  /\ program.admin # "clash" /\ (Asks <=> program.layout = "processes")
  /\ program.layout = "flat" => "web2" \notin DoorsIn(Used("parent"))
Settled ==
  Fits /\ ~Asks /\ (program.layout # "flat" => program.listed = DoorsIn(Used("parent")))
ParentInv(a) ==
  /\ a.share => Asks
  /\ a.at \in {"validating", "supervising"} => a.log
  /\ ByRun(a) => Fits /\ (Asks => a.share)
  /\ a.at \in {"validating", "supervising", "prepared"} =>
       DoorsIn(a.doors) \cap {"admin"} = AdminDoors
         /\ (a.share => a.added /\ DoorsIn(a.doors) # {})
  /\ a.at = "supervising" =>
       a.share /\ HasName /\ DoorsIn(a.doors) = program.listed \cup AdminDoors
  /\ (ByRun(a) /\ a.at \notin {"validating", "supervising"}) \/ a.ran => Settled

(* The child lives while its parent supervises.                            *)
ChildMayDiffer == program.guarded # EmptyBag \/ "guarded" \in {program.name, program.config}
ChildInv(c, b) ==
  c.at # "absent" =>
    /\ b.at = "supervising"
    /\ c.at \in {"main", "declared", "validating"} => ~c.hurt /\ ~c.abandoned
    /\ c.at \in {"validating", "prepared"} \cup RunningPhases =>
         c.added /\ (c.at = "validating" => DoorsIn(c.doors) \cap {"admin"} = AdminDoors)
    /\ c.at \in {"prepared"} \cup RunningPhases =>
         DoorsIn(c.doors) \ {"jobs"} = program.listed \cup AdminDoors
    /\ c.at = "refused" => ChildMayDiffer

MainInv ==
  /\ program \in Programs /\ apps = [p \in Runners |-> apps[p]]
  /\ \A p \in Runners : AppInv(p, apps[p])
  /\ ParentInv(apps["parent"]) /\ ChildInv(apps["child"], apps["parent"])

LEMMA SameProgram ==
  ASSUME program' = program
  PROVE  /\ \A p, a : AppInv(p, a)' <=> AppInv(p, a)
         /\ \A a : ParentInv(a)' <=> ParentInv(a)
         /\ \A a, b : ChildInv(a, b)' <=> ChildInv(a, b)
<1>1. \A p : Used(p)' = Used(p)
  BY DEF Used
<1>2. AdminDoors' = AdminDoors /\ (Asks' <=> Asks) /\ (HasName' <=> HasName)
  BY DEF AdminDoors, Asks, HasName
<1>3. (Fits' <=> Fits) /\ (Settled' <=> Settled) /\ (ChildMayDiffer' <=> ChildMayDiffer)
  BY <1>1, <1>2 DEF Fits, Settled, ChildMayDiffer
<1>4. \A p, a : AppInv(p, a)' <=> AppInv(p, a)
  BY <1>1 DEF AppInv
<1>5. \A a : ParentInv(a)' <=> ParentInv(a)
  BY <1>2, <1>3 DEF ParentInv
<1>6. \A a, b : ChildInv(a, b)' <=> ChildInv(a, b)
  BY <1>2, <1>3 DEF ChildInv
<1> QED BY <1>4, <1>5, <1>6

(* A step of one process.                                                  *)
LEMMA OneMoves ==
  ASSUME MainInv, NEW p \in Runners, NEW n, Becomes(p, n), program' = program, AppInv(p, n),
         p = "parent" => apps["parent"].at # "supervising" /\ ParentInv(n),
         p = "child" => ChildInv(n, apps["parent"])
  PROVE  MainInv'
<1>1. apps = [q \in Runners |-> apps[q]] /\ apps' = [apps EXCEPT ![p] = n]
  BY DEF MainInv, Becomes
<1>2. apps' = [q \in Runners |-> apps'[q]]
  BY <1>1
<1>3. apps'[p] = n /\ \A q \in Runners \ {p} : apps'[q] = apps[q]
  BY <1>1
<1>4. \A q \in Runners : AppInv(q, apps'[q])
  BY <1>3 DEF MainInv
<1>5. "parent" \in Runners /\ "child" \in Runners /\ "parent" # "child"
  BY DEF Runners
<1>6. ParentInv(apps'["parent"])
  BY <1>3, <1>5 DEF MainInv
<1>7. ChildInv(apps'["child"], apps'["parent"])
  <2>1. CASE p = "parent"
    <3>1. apps["child"].at = "absent"
      BY <2>1 DEF MainInv, ChildInv
    <3> QED BY <1>3, <1>5, <2>1, <3>1 DEF ChildInv
  <2>2. CASE p = "child"
    BY <1>3, <1>5, <2>2
  <2> QED BY <2>1, <2>2 DEF Runners
<1>8. program' \in Programs
  BY DEF MainInv
<1> QED
  BY <1>2, <1>4, <1>6, <1>7, <1>8, SameProgram DEF MainInv

(* What _resolve_topology does to the doors.                               *)
LEMMA ResolvedDoors ==
  ASSUME NEW a, IsApp(a), Once(a.doors)
  PROVE  /\ Once(Resolved(a).doors) /\ Resolved(a) = [a EXCEPT !.doors = Resolved(a).doors]
         /\ DoorsIn(Resolved(a).doors) = (DoorsIn(a.doors) \ {"admin"}) \cup AdminDoors
         /\ DoorsIn(OwnDoors(a)) = DoorsIn(a.doors) \ {"admin"}
<1> DEFINE o == OwnDoors(a)
           d == IF program.admin = "none" THEN o ELSE DoorsWith(o, "admin")
<1>1. DOMAIN o = DOMAIN a.doors \ {"admin"} /\ \A e \in DOMAIN o : o[e] = 1
  BY DEF OwnDoors, DoorsWithout, Once, DoorsIn, BagToSet
<1>2. Resolved(a) = [a EXCEPT !.doors = d]
  BY DEF Resolved
<1> HIDE DEF o
<1>3. DOMAIN d = DOMAIN o \cup AdminDoors /\ \A e \in DOMAIN d : d[e] = 1
  BY <1>1 DEF AdminDoors, DoorsWith, (+), SetToBag
<1> HIDE DEF d
<1>4. Resolved(a).doors = d
  BY <1>2 DEF IsApp
<1> QED
  BY <1>1, <1>2, <1>3, <1>4 DEF Once, DoorsIn, BagToSet, o

(* What the steps do to one application.                                   *)
LEMMA RefusedIsSound ==
  ASSUME NEW p \in Runners, NEW a, AppInv(p, a),
         a.at \in {"main", "declared", "validating", "returned"}
  PROVE  /\ AppInv(p, RefusedApp(a))
         /\ ParentInv(a) => ParentInv(RefusedApp(a))
         /\ \A b : ChildInv(a, b) /\ ChildMayDiffer => ChildInv(RefusedApp(a), b)
<1> DEFINE n == RefusedApp(a)
<1>a. IsApp(a) /\ n = [a EXCEPT !.at = "refused", !.log = FALSE]
  BY DEF AppInv, RefusedApp
<1> HIDE DEF n
<1>1. /\ IsApp(n) /\ n.doors = a.doors /\ n.binding = a.binding /\ n.run = a.run /\ n.runs = a.runs
      /\ n.opened = a.opened /\ n.hurt = a.hurt /\ n.abandoned = a.abandoned /\ n.ran = a.ran
      /\ n.share = a.share /\ n.at = "refused" /\ n.log = FALSE
  BY <1>a DEF IsApp
<1>2. AppInv(p, n)
  BY <1>1 DEF AppInv, RunningPhases, HasDoor
<1>3. ParentInv(a) => ParentInv(n)
  BY <1>1 DEF ParentInv, ByRun, RunningPhases
<1>4. \A b : ChildInv(a, b) /\ ChildMayDiffer => ChildInv(n, b)
  BY <1>1 DEF ChildInv, RunningPhases
<1> QED BY <1>2, <1>3, <1>4 DEF n

DeclaredApp(p, a) ==
  [a EXCEPT !.at = "declared", !.doors = Used(p), !.added = RunsLine(p, program.config)]
FailedStart(a) ==
  [a EXCEPT !.at = IF a.byHand THEN "returned" ELSE "failed", !.log = FALSE,
            !.abandoned = a.byHand]

LEMMA DeclaredIsSound ==
  ASSUME NEW p \in Runners, NEW a, AppInv(p, a), a.at = "main", program \in Programs,
         Accepts(Used(p)), RunsLine(p, program.config) => program.package = "whole",
         NEW n, n = DeclaredApp(p, a)
  PROVE  /\ AppInv(p, n) /\ (ParentInv(a) => ParentInv(n))
         /\ \A b : ChildInv(a, b) => ChildInv(n, b)
<1>1. /\ IsApp(n) /\ n.doors = Used(p) /\ n.binding = a.binding /\ n.run = a.run
      /\ n.runs = a.runs /\ n.opened = a.opened /\ n.hurt = a.hurt /\ n.abandoned = a.abandoned
      /\ n.ran = a.ran /\ n.share = a.share /\ n.at = "declared" /\ n.log = a.log
      /\ n.added = RunsLine(p, program.config)
  BY DEF AppInv, IsApp, DeclaredApp
<1>2. "admin" \notin DoorsIn(Used(p)) /\ "jobs" \notin DoorsIn(Used(p))
  <2>1. /\ "admin" \notin DOMAIN program.top /\ "jobs" \notin DOMAIN program.top
        /\ "admin" \notin DOMAIN program.guarded /\ "jobs" \notin DOMAIN program.guarded
    BY MainProgramAssumption
  <2> QED BY <2>1 DEF Used, DoorsIn, BagToSet, (+)
<1>3. Once(n.doors) /\ BaseOf(n) = DoorsIn(Used(p)) /\ ~HasDoor(n, "jobs")
  BY <1>1, <1>2 DEF Accepts, BaseOf, HasDoor
<1>4. AppInv(p, n)
  BY <1>1, <1>3 DEF AppInv, RunningPhases
<1>5. ParentInv(a) => ParentInv(n)
  BY <1>1 DEF ParentInv, ByRun, RunningPhases
<1>6. \A b : ChildInv(a, b) => ChildInv(n, b)
  BY <1>1 DEF ChildInv, RunningPhases
<1> QED BY <1>4, <1>5, <1>6

LEMMA ResolvedIsSound ==
  ASSUME NEW p \in Runners, NEW a, AppInv(p, a), a.at \in {"declared", "returned"}
  PROVE  LET n == Resolved(a)
         IN /\ AppInv(p, n) /\ (ParentInv(a) => ParentInv(n))
            /\ \A b : ChildInv(a, b) => ChildInv(n, b)
            /\ n = [a EXCEPT !.doors = n.doors] /\ IsApp(n) /\ n.at = a.at
            /\ n.share = a.share /\ n.added = a.added /\ n.ran = a.ran /\ BaseOf(n) = BaseOf(a)
            /\ DoorsIn(n.doors) = (DoorsIn(a.doors) \ {"admin"}) \cup AdminDoors
<1> DEFINE n == Resolved(a)
<1>1. IsApp(a) /\ Once(a.doors)
  BY DEF AppInv
<1>2. /\ Once(n.doors) /\ n = [a EXCEPT !.doors = n.doors]
      /\ DoorsIn(n.doors) = (DoorsIn(a.doors) \ {"admin"}) \cup AdminDoors
  BY <1>1, ResolvedDoors
<1> HIDE DEF n
<1>3. /\ IsApp(n) /\ n.binding = a.binding /\ n.run = a.run /\ n.runs = a.runs /\ n.log = a.log
      /\ n.opened = a.opened /\ n.hurt = a.hurt /\ n.abandoned = a.abandoned /\ n.ran = a.ran
      /\ n.share = a.share /\ n.at = a.at /\ n.added = a.added
  BY <1>1, <1>2 DEF IsApp
<1>4. BaseOf(n) = BaseOf(a) /\ (HasDoor(n, "jobs") <=> HasDoor(a, "jobs"))
  BY <1>2 DEF BaseOf, HasDoor, AdminDoors
<1>5. AppInv(p, n)
  BY <1>2, <1>3, <1>4 DEF AppInv, RunningPhases
<1>6. ParentInv(a) => ParentInv(n)
  BY <1>3 DEF ParentInv, ByRun, RunningPhases
<1>7. \A b : ChildInv(a, b) => ChildInv(n, b)
  BY <1>3 DEF ChildInv, RunningPhases
<1> QED BY <1>2, <1>3, <1>4, <1>5, <1>6, <1>7 DEF n

LEMMA ValidatingIsSound ==
  ASSUME NEW p \in Runners, NEW a, AppInv(p, a), a.at \in {"declared", "returned"}, Resolves(a),
         NEW n, n = [Logging(Resolved(a)) EXCEPT !.at = "validating"]
  PROVE  /\ AppInv(p, n)
         /\ p = "parent" /\ ParentInv(a) /\ (Asks => a.share) => ParentInv(n)
         /\ \A b : ChildInv(a, b) /\ a.share /\ a.at = "declared" => ChildInv(n, b)
<1> DEFINE r == Resolved(a)
<1>1. /\ AppInv(p, r) /\ (ParentInv(a) => ParentInv(r)) /\ (\A b : ChildInv(a, b) => ChildInv(r, b))
      /\ IsApp(r) /\ r.at = a.at /\ r.share = a.share /\ r.added = a.added
      /\ DoorsIn(r.doors) = (DoorsIn(a.doors) \ {"admin"}) \cup AdminDoors
      /\ BaseOf(r) = BaseOf(a)
  BY ResolvedIsSound
<1>2. a.share => a.added /\ DoorsIn(r.doors) # {}
  BY DEF Resolves
<1> HIDE DEF r
<1>3. /\ IsApp(n) /\ n.binding = r.binding /\ n.run = r.run /\ n.runs = r.runs /\ n.log = TRUE
      /\ n.opened = r.opened /\ n.hurt = r.hurt /\ n.abandoned = r.abandoned /\ n.ran = r.ran
      /\ n.share = r.share /\ n.at = "validating" /\ n.added = r.added /\ n.doors = r.doors
  <2>1. n = [[r EXCEPT !.log = TRUE] EXCEPT !.at = "validating"]
    BY DEF r, Logging
  <2> QED BY <1>1, <2>1 DEF IsApp
<1>4. AppInv(p, n)
  BY <1>1, <1>3 DEF AppInv, RunningPhases, HasDoor, BaseOf
<1>5. ASSUME p = "parent", ParentInv(a), Asks => a.share PROVE ParentInv(n)
  <2>1. a.share <=> Asks
    BY <1>5 DEF ParentInv
  <2>2. Fits
    <3>1. program.layout = "flat" => "web2" \notin BaseOf(a)
      BY DEF Resolves, LayoutFits, BaseOf
    <3>2. BaseOf(a) = DoorsIn(Used("parent"))
      BY <1>5 DEF AppInv
    <3> QED BY <2>1, <3>1, <3>2 DEF Resolves, AdminFits, LayoutFits, Fits
  <2>3. DoorsIn(n.doors) \cap {"admin"} = AdminDoors
    BY <1>1, <1>3 DEF AdminDoors
  <2> QED BY <1>1, <1>2, <1>3, <1>5, <2>1, <2>2, <2>3 DEF ParentInv, ByRun, RunningPhases
<1>6. ASSUME NEW b, ChildInv(a, b), a.share, a.at = "declared" PROVE ChildInv(n, b)
  <2>1. DoorsIn(n.doors) \cap {"admin"} = AdminDoors
    BY <1>1, <1>3 DEF AdminDoors
  <2> QED BY <1>1, <1>2, <1>3, <1>6, <2>1 DEF ChildInv, RunningPhases
<1> QED BY <1>4, <1>5, <1>6

(* What a valid configuration means for the doors.                         *)
LEMMA ValidDoors ==
  ASSUME NEW a, IsApp(a), Once(a.doors), program \in Programs, program.layout # "flat", Valid(a)
  PROVE  /\ DoorsIn(a.doors) = program.listed \cup (DoorsIn(a.doors) \cap {"admin"})
         /\ BaseOf(a) = program.listed /\ ~HasDoor(a, "jobs")
<1>1. "admin" \notin program.listed /\ "jobs" \notin program.listed
  BY MainProgramAssumption
<1>2. DoorsIn(a.doors) = program.listed \cup (DoorsIn(a.doors) \cap {"admin"})
  BY DEF Valid, Listed
<1> QED BY <1>1, <1>2 DEF BaseOf, HasDoor

LEMMA PreparedIsSound ==
  ASSUME NEW p \in Runners, NEW a, AppInv(p, a), program \in Programs, a.at = "validating",
         Valid(a), NEW n, n = [a EXCEPT !.at = "prepared"]
  PROVE  /\ AppInv(p, n)
         /\ p = "parent" /\ ParentInv(a) /\ ~a.share => ParentInv(n)
         /\ \A b : ChildInv(a, b) /\ ParentInv(b) => ChildInv(n, b)
<1>1. /\ IsApp(n) /\ n.binding = a.binding /\ n.run = a.run /\ n.runs = a.runs /\ n.log = a.log
      /\ n.opened = a.opened /\ n.hurt = a.hurt /\ n.abandoned = a.abandoned /\ n.ran = a.ran
      /\ n.share = a.share /\ n.at = "prepared" /\ n.added = a.added /\ n.doors = a.doors
      /\ IsApp(a) /\ Once(a.doors)
  BY DEF AppInv, IsApp
<1>2. AppInv(p, n)
  BY <1>1 DEF AppInv, RunningPhases, HasDoor, BaseOf
<1>3. ASSUME p = "parent", ParentInv(a), ~a.share PROVE ParentInv(n)
  <2>1. Fits /\ ~Asks
    BY <1>3 DEF ParentInv, ByRun
  <2>2. program.layout # "flat" => program.listed = BaseOf(a)
    BY <1>1, ValidDoors
  <2>3. BaseOf(a) = DoorsIn(Used("parent"))
    BY <1>3 DEF AppInv
  <2>4. Settled
    BY <2>1, <2>2, <2>3 DEF Settled
  <2> QED BY <1>1, <1>3, <2>1, <2>4 DEF ParentInv, ByRun, RunningPhases
<1>4. ASSUME NEW b, ChildInv(a, b), ParentInv(b) PROVE ChildInv(n, b)
  <2>1. program.layout = "processes" /\ DoorsIn(a.doors) \cap {"admin"} = AdminDoors
    BY <1>4 DEF ChildInv, ParentInv, ByRun, Fits
  <2>2. DoorsIn(a.doors) = program.listed \cup AdminDoors /\ ~HasDoor(a, "jobs")
    BY <1>1, <2>1, ValidDoors
  <2> QED BY <1>1, <1>4, <2>2 DEF ChildInv, RunningPhases, HasDoor
<1> QED BY <1>2, <1>3, <1>4

LEMMA SupervisingIsSound ==
  ASSUME NEW a, AppInv("parent", a), ParentInv(a), program \in Programs, a.at = "validating",
         Valid(a), a.share, HasName, NEW n, n = [a EXCEPT !.at = "supervising"]
  PROVE  AppInv("parent", n) /\ ParentInv(n)
<1>1. /\ IsApp(n) /\ n.binding = a.binding /\ n.run = a.run /\ n.runs = a.runs /\ n.log = a.log
      /\ n.opened = a.opened /\ n.hurt = a.hurt /\ n.abandoned = a.abandoned /\ n.ran = a.ran
      /\ n.share = a.share /\ n.at = "supervising" /\ n.added = a.added /\ n.doors = a.doors
      /\ IsApp(a) /\ Once(a.doors)
  BY DEF AppInv, IsApp
<1>2. AppInv("parent", n)
  BY <1>1 DEF AppInv, RunningPhases, HasDoor, BaseOf
<1>3. Asks /\ Fits /\ program.layout = "processes" /\ DoorsIn(a.doors) \cap {"admin"} = AdminDoors
      /\ a.log /\ a.added /\ DoorsIn(a.doors) # {}
  BY DEF ParentInv, ByRun, Fits
<1>4. DoorsIn(a.doors) = program.listed \cup AdminDoors
  BY <1>1, <1>3, ValidDoors
<1>5. ParentInv(n)
  BY <1>1, <1>3, <1>4 DEF ParentInv, ByRun, RunningPhases
<1> QED BY <1>2, <1>5

LEMMA StartedIsSound ==
  ASSUME NEW p \in Runners, NEW a, AppInv(p, a), a.run = 0, Binding(a) # "raises",
         a.at = "prepared" \/ (p = "parent" /\ a.byHand /\ a.at \in {"declared", "returned"}),
         NEW n, n = Started(a)
  PROVE  /\ AppInv(p, n) /\ (ParentInv(a) => ParentInv(n))
         /\ \A b : ChildInv(a, b) /\ a.at = "prepared" => ChildInv(n, b)
<1>1. ~a.hurt /\ ~a.abandoned /\ ~HasDoor(a, "jobs") /\ IsApp(a) /\ a.runs \in Nat
  BY DEF AppInv, RunningPhases
<1>2. /\ IsApp(n) /\ n.binding = Binding(a) /\ n.run = a.runs + 1 /\ n.runs = a.runs + 1
      /\ n.log = TRUE /\ n.opened = TRUE /\ n.hurt = a.hurt /\ n.abandoned = a.abandoned
      /\ n.ran = a.ran /\ n.share = a.share /\ n.at = "starting" /\ n.added = a.added
      /\ n.doors = a.doors /\ n.byHand = a.byHand
  BY <1>1 DEF IsApp, Started
<1>3. n.run # 0 /\ n.runs \in Nat
  BY <1>1, <1>2
<1>4. /\ n.binding = "empty" => program.package # "broken"
      /\ n.added => n.binding = "full"
  BY <1>2 DEF Binding, Discovered
<1>5. AppInv(p, n)
  BY <1>1, <1>2, <1>3, <1>4 DEF AppInv, RunningPhases, HasDoor, BaseOf
<1>6. ParentInv(a) => ParentInv(n)
  BY <1>2 DEF ParentInv, ByRun, RunningPhases
<1>7. \A b : ChildInv(a, b) /\ a.at = "prepared" => ChildInv(n, b)
  BY <1>2 DEF ChildInv, RunningPhases
<1> QED BY <1>5, <1>6, <1>7

LEMMA FailedIsSound ==
  ASSUME NEW p \in Runners, NEW a, AppInv(p, a), a.at \in {"prepared", "up"},
         NEW n, n = [a EXCEPT !.at = "failed"]
  PROVE  /\ AppInv(p, n) /\ (ParentInv(a) => ParentInv(n))
         /\ \A b : ChildInv(a, b) => ChildInv(n, b)
<1>1. /\ IsApp(n) /\ n.binding = a.binding /\ n.run = a.run /\ n.runs = a.runs
      /\ n.opened = a.opened /\ n.hurt = a.hurt /\ n.ran = a.ran /\ n.share = a.share
      /\ n.added = a.added /\ n.byHand = a.byHand
      /\ n.log = a.log /\ n.abandoned = a.abandoned /\ n.at = "failed" /\ n.doors = a.doors
  BY DEF AppInv, IsApp
<1>2. AppInv(p, n)
  BY <1>1 DEF AppInv, RunningPhases, HasDoor, BaseOf
<1>3. ParentInv(a) => ParentInv(n)
  BY <1>1 DEF ParentInv, ByRun, RunningPhases
<1>4. \A b : ChildInv(a, b) => ChildInv(n, b)
  BY <1>1 DEF ChildInv, RunningPhases
<1> QED BY <1>2, <1>3, <1>4

LEMMA StartFailsSoundly ==
  ASSUME NEW p \in Runners, NEW a, AppInv(p, a), a.at = "starting",
         NEW n, n = FailedStart(a)
  PROVE  /\ AppInv(p, n) /\ (ParentInv(a) => ParentInv(n))
         /\ \A b : ChildInv(a, b) => ChildInv(n, b)
<1> DEFINE at == IF a.byHand THEN "returned" ELSE "failed"
<1>1. /\ IsApp(n) /\ n.binding = a.binding /\ n.run = a.run /\ n.runs = a.runs
      /\ n.opened = a.opened /\ n.hurt = a.hurt /\ n.ran = a.ran /\ n.share = a.share
      /\ n.added = a.added /\ n.byHand = a.byHand
      /\ n.log = FALSE /\ n.abandoned = a.byHand /\ n.at = at /\ n.doors = a.doors
  BY DEF AppInv, IsApp, FailedStart
<1>2. n.run # 0 /\ ~n.hurt
  BY <1>1 DEF AppInv, RunningPhases
<1>3. AppInv(p, n)
  BY <1>1, <1>2 DEF AppInv, RunningPhases, HasDoor, BaseOf
<1>4. ParentInv(a) => ParentInv(n)
  BY <1>1 DEF ParentInv, ByRun, RunningPhases
<1>5. \A b : ChildInv(a, b) => ChildInv(n, b)
  BY <1>1 DEF ChildInv, RunningPhases
<1> QED BY <1>3, <1>4, <1>5

LEMMA UpIsSound ==
  ASSUME NEW p \in Runners, NEW a, AppInv(p, a), a.at = "starting", NEW n,
         n = IF program.jobs /\ a.binding = "full"
             THEN [a EXCEPT !.at = "up", !.doors = DoorsWith(@, "jobs"), !.jobsOf = a.run]
             ELSE [a EXCEPT !.at = "up"]
  PROVE  /\ AppInv(p, n) /\ (ParentInv(a) => ParentInv(n))
         /\ \A b : ChildInv(a, b) => ChildInv(n, b)
<1> DEFINE d == DoorsWith(a.doors, "jobs")
<1>1. IsApp(a) /\ Once(a.doors) /\ ~HasDoor(a, "jobs") /\ a.run # 0
  BY DEF AppInv, RunningPhases
<1>2. DoorsIn(d) = DoorsIn(a.doors) \cup {"jobs"} /\ Once(d)
  BY <1>1 DEF DoorsWith, (+), SetToBag, HasDoor, DoorsIn, BagToSet, Once
<1> HIDE DEF d
<1>3. /\ IsApp(n) /\ n.binding = a.binding /\ n.run = a.run /\ n.runs = a.runs
      /\ n.opened = a.opened /\ n.hurt = a.hurt /\ n.ran = a.ran /\ n.share = a.share
      /\ n.added = a.added /\ n.byHand = a.byHand
      /\ n.log = a.log /\ n.abandoned = a.abandoned /\ n.at = "up"
      /\ (n.doors = d /\ n.jobsOf = a.run) \/ (n.doors = a.doors /\ n.jobsOf = a.jobsOf)
  <2>1. n = [a EXCEPT !.at = "up", !.doors = d, !.jobsOf = a.run] \/ n = [a EXCEPT !.at = "up"]
    BY DEF d
  <2> QED BY <1>1, <2>1 DEF IsApp
<1>4. Once(n.doors) /\ BaseOf(n) = BaseOf(a) /\ (HasDoor(n, "jobs") => n.jobsOf = n.run)
      /\ DoorsIn(n.doors) \ {"jobs"} = DoorsIn(a.doors) \ {"jobs"}
  BY <1>1, <1>2, <1>3 DEF BaseOf, HasDoor
<1>5. AppInv(p, n)
  BY <1>3, <1>4 DEF AppInv, RunningPhases
<1>6. ParentInv(a) => ParentInv(n)
  BY <1>3 DEF ParentInv, ByRun, RunningPhases
<1>7. \A b : ChildInv(a, b) => ChildInv(n, b)
  BY <1>3, <1>4 DEF ChildInv, RunningPhases
<1> QED BY <1>5, <1>6, <1>7

LEMMA ServingIsSoundly ==
  ASSUME NEW p \in Runners, NEW a, AppInv(p, a), a.at = "up", ~a.byHand,
         NEW n, n = [a EXCEPT !.at = "serving"]
  PROVE  /\ AppInv(p, n) /\ (ParentInv(a) => ParentInv(n))
         /\ \A b : ChildInv(a, b) => ChildInv(n, b)
<1>1. /\ IsApp(n) /\ n.binding = a.binding /\ n.run = a.run /\ n.runs = a.runs
      /\ n.opened = a.opened /\ n.hurt = a.hurt /\ n.ran = a.ran /\ n.share = a.share
      /\ n.added = a.added /\ n.byHand = a.byHand
      /\ n.log = a.log /\ n.abandoned = a.abandoned /\ n.at = "serving" /\ n.doors = a.doors
      /\ n.jobsOf = a.jobsOf
  BY DEF AppInv, IsApp
<1>2. AppInv(p, n)
  BY <1>1 DEF AppInv, RunningPhases, HasDoor, BaseOf
<1>3. ParentInv(a) => ParentInv(n)
  BY <1>1 DEF ParentInv, ByRun, RunningPhases
<1>4. \A b : ChildInv(a, b) => ChildInv(n, b)
  BY <1>1 DEF ChildInv, RunningPhases
<1> QED BY <1>2, <1>3, <1>4

LEMMA StoppedIsSound ==
  ASSUME NEW p \in Runners, NEW a, AppInv(p, a),
         a.at \in {"serving", "failed", "up", "returned"}, a.at = "serving" => ~a.byHand,
         NEW n, n = Stopped(a)
  PROVE  /\ AppInv(p, n) /\ (ParentInv(a) => ParentInv(n))
         /\ \A b : ChildInv(a, b) => ChildInv(n, b)
<1> DEFINE d == DoorsWithout(a.doors, "jobs")
<1>1. IsApp(a) /\ Once(a.doors)
  BY DEF AppInv
<1>2. DoorsIn(d) = DoorsIn(a.doors) \ {"jobs"} /\ Once(d)
  BY <1>1 DEF DoorsWithout, DoorsIn, BagToSet, Once
<1> HIDE DEF d
<1>3. /\ IsApp(n) /\ n.binding = "none" /\ n.run = 0 /\ n.runs = a.runs
      /\ n.opened = FALSE /\ n.hurt = FALSE /\ n.share = a.share
      /\ n.added = a.added /\ n.byHand = a.byHand
      /\ n.log = FALSE /\ n.abandoned = FALSE /\ n.at = "returned" /\ n.doors = d
      /\ n.ran = (a.ran \/ a.at = "serving")
  <2>1. n = [a EXCEPT !.at = "returned", !.run = 0, !.opened = FALSE, !.log = FALSE,
                      !.binding = "none", !.doors = d, !.abandoned = FALSE, !.hurt = FALSE,
                      !.ran = @ \/ a.at = "serving"]
    BY DEF Stopped, d
  <2> HIDE DEF d
  <2> QED BY <1>1, <2>1 DEF IsApp
<1>4. BaseOf(n) = BaseOf(a) /\ ~HasDoor(n, "jobs")
  BY <1>2, <1>3 DEF BaseOf, HasDoor
<1>5. AppInv(p, n)
  BY <1>2, <1>3, <1>4 DEF AppInv, RunningPhases
<1>6. ParentInv(a) => ParentInv(n)
  BY <1>3 DEF ParentInv, ByRun, RunningPhases
<1>7. \A b : ChildInv(a, b) => ChildInv(n, b)
  BY <1>3 DEF ChildInv, RunningPhases
<1> QED BY <1>5, <1>6, <1>7

LEMMA HookRaisesSoundly ==
  ASSUME NEW p \in Runners, NEW a, AppInv(p, a), a.at \in {"serving", "failed", "up"},
         a.run # 0, NEW n, n = HookRaises(a)
  PROVE  /\ AppInv(p, n) /\ (ParentInv(a) => ParentInv(n))
         /\ \A b : ChildInv(a, b) => ChildInv(n, b)
<1>1. /\ IsApp(n) /\ n.binding = a.binding /\ n.run = a.run /\ n.runs = a.runs
      /\ n.opened = a.opened /\ n.hurt = TRUE /\ n.ran = a.ran /\ n.share = a.share
      /\ n.added = a.added /\ n.byHand = a.byHand
      /\ n.log = FALSE /\ n.abandoned = a.abandoned /\ n.at = "returned" /\ n.doors = a.doors
  BY DEF AppInv, IsApp, HookRaises
<1>2. AppInv(p, n)
  BY <1>1 DEF AppInv, RunningPhases, HasDoor, BaseOf
<1>3. ParentInv(a) => ParentInv(n)
  BY <1>1 DEF ParentInv, ByRun, RunningPhases
<1>4. \A b : ChildInv(a, b) => ChildInv(n, b)
  BY <1>1 DEF ChildInv, RunningPhases
<1> QED BY <1>2, <1>3, <1>4

----------------------------------------------------------------------------
(* The steps                                                               *)

LEMMA PartsOfInv ==
  ASSUME MainInv, NEW p \in Runners
  PROVE  /\ AppInv(p, apps[p]) /\ program \in Programs
         /\ p = "parent" => ParentInv(apps[p])
         /\ p = "child" => ChildInv(apps[p], apps["parent"]) /\ ParentInv(apps["parent"])
                           /\ AppInv("parent", apps["parent"])
BY DEF MainInv, Runners

LEMMA DeclareAppKeeps ==
  ASSUME MainInv, NEW p \in Runners, DeclareApp(p)
  PROVE  MainInv'
<1>1. PICK a : a = apps[p]
  OBVIOUS
<1>2. /\ a.at = "main" /\ program' = program /\ AppInv(p, a) /\ program \in Programs
      /\ p = "parent" => ParentInv(a)
      /\ p = "child" => ChildInv(a, apps["parent"])
  BY <1>1, PartsOfInv DEF DeclareApp
<1>3. CASE ~Accepts(Used(p)) \/ (RunsLine(p, program.config) /\ program.package # "whole")
  <2>1. Becomes(p, RefusedApp(a))
    BY <1>1, <1>3 DEF DeclareApp
  <2>2. ASSUME p = "child" PROVE ChildMayDiffer
    <3>1. PICK b : b = apps["parent"]
      OBVIOUS
    <3>2. b.at = "supervising" /\ ParentInv(b) /\ AppInv("parent", b)
      BY <1>2, <2>2, <3>1, PartsOfInv DEF ChildInv
    <3>3. Accepts(Used("parent")) /\ program.package = "whole"
      BY <3>2 DEF AppInv, ParentInv
    <3>4. CASE program.guarded = EmptyBag
      <4>1. Used("parent") = program.top
        BY <1>2, <3>4, MainProgramAssumption DEF Used, (+), IsABag, EmptyBag, SetToBag
      <4> QED BY <1>3, <2>2, <3>3, <4>1 DEF Used
    <3> QED BY <3>4 DEF ChildMayDiffer
  <2>3. AppInv(p, RefusedApp(a)) /\ (ParentInv(a) => ParentInv(RefusedApp(a)))
        /\ \A b : ChildInv(a, b) /\ ChildMayDiffer => ChildInv(RefusedApp(a), b)
    BY <1>2, RefusedIsSound
  <2> QED BY <1>1, <1>2, <2>1, <2>2, <2>3, OneMoves
<1>4. CASE Accepts(Used(p)) /\ (RunsLine(p, program.config) => program.package = "whole")
  <2>1. PICK n : n = DeclaredApp(p, a)
    OBVIOUS
  <2>2. Becomes(p, n)
    BY <1>1, <1>4, <2>1 DEF DeclareApp, DeclaredApp
  <2>3. /\ AppInv(p, n) /\ (ParentInv(a) => ParentInv(n))
        /\ \A b : ChildInv(a, b) => ChildInv(n, b)
    BY <1>2, <1>4, <2>1, DeclaredIsSound
  <2> QED BY <1>1, <1>2, <2>2, <2>3, OneMoves
<1> QED BY <1>3, <1>4

(* A step that changes neither whether the child is there nor whether its  *)
(* parent supervises.                                                      *)
LEMMA PlainStep ==
  ASSUME MainInv, NEW p \in Runners, NEW n, Becomes(p, n), program' = program,
         p = "parent" => apps["parent"].at # "supervising",
         AppInv(p, n), ParentInv(apps[p]) => ParentInv(n),
         \A b : ChildInv(apps[p], b) => ChildInv(n, b)
  PROVE  MainInv'
BY PartsOfInv, OneMoves

LEMMA StartKeeps ==
  ASSUME MainInv, NEW p \in Runners, StartApp(p)
  PROVE  MainInv'
<1>1. PICK a : a = apps[p]
  OBVIOUS
<1>2. a.at = "prepared" /\ program' = program /\ AppInv(p, a)
  BY <1>1, PartsOfInv DEF StartApp
<1>3. CASE a.run # 0 \/ Binding(a) = "raises"
  <2>1. PICK n : n = [a EXCEPT !.at = "failed"]
    OBVIOUS
  <2>2. Becomes(p, n)
    BY <1>1, <1>3, <2>1 DEF StartApp
  <2>3. /\ AppInv(p, n) /\ (ParentInv(a) => ParentInv(n))
        /\ \A b : ChildInv(a, b) => ChildInv(n, b)
    BY <1>2, <2>1, FailedIsSound
  <2> QED BY <1>1, <1>2, <2>2, <2>3, PlainStep
<1>4. CASE a.run = 0 /\ Binding(a) # "raises"
  <2>1. PICK n : n = Started(a)
    OBVIOUS
  <2>2. Becomes(p, n)
    BY <1>1, <1>4, <2>1 DEF StartApp
  <2>3. /\ AppInv(p, n) /\ (ParentInv(a) => ParentInv(n))
        /\ \A b : ChildInv(a, b) => ChildInv(n, b)
    BY <1>2, <1>4, <2>1, StartedIsSound
  <2> QED BY <1>1, <1>2, <2>2, <2>3, PlainStep
<1> QED BY <1>3, <1>4

LEMMA UpKeeps ==
  ASSUME MainInv, NEW p \in Runners, AppIsUp(p)
  PROVE  MainInv'
<1>1. PICK a : a = apps[p]
  OBVIOUS
<1>2. a.at = "starting" /\ program' = program /\ AppInv(p, a)
  BY <1>1, PartsOfInv DEF AppIsUp
<1>3. PICK n : n = IF program.jobs /\ a.binding = "full"
                   THEN [a EXCEPT !.at = "up", !.doors = DoorsWith(@, "jobs"), !.jobsOf = a.run]
                   ELSE [a EXCEPT !.at = "up"]
  OBVIOUS
<1>4. Becomes(p, n)
  BY <1>1, <1>3 DEF AppIsUp
<1>5. /\ AppInv(p, n) /\ (ParentInv(a) => ParentInv(n))
      /\ \A b : ChildInv(a, b) => ChildInv(n, b)
  BY ZenonT(60), <1>2, <1>3, UpIsSound
<1> QED BY <1>1, <1>2, <1>4, <1>5, PlainStep

LEMMA StartFailsKeeps ==
  ASSUME MainInv, NEW p \in Runners, StartFails(p)
  PROVE  MainInv'
<1>1. PICK a : a = apps[p]
  OBVIOUS
<1>2. a.at = "starting" /\ program' = program /\ AppInv(p, a)
  BY <1>1, PartsOfInv DEF StartFails
<1>3. PICK n : n = FailedStart(a)
  OBVIOUS
<1>4. Becomes(p, n)
  BY <1>1, <1>3 DEF StartFails, FailedStart
<1>5. /\ AppInv(p, n) /\ (ParentInv(a) => ParentInv(n))
      /\ \A b : ChildInv(a, b) => ChildInv(n, b)
  BY <1>2, <1>3, StartFailsSoundly
<1> QED BY <1>1, <1>2, <1>4, <1>5, PlainStep

LEMMA ServeKeeps ==
  ASSUME MainInv, NEW p \in Runners, ServeApp(p)
  PROVE  MainInv'
<1>1. PICK a : a = apps[p]
  OBVIOUS
<1>2. a.at = "up" /\ ~a.byHand /\ program' = program /\ AppInv(p, a)
  BY <1>1, PartsOfInv DEF ServeApp
<1>3. PICK n : n = [a EXCEPT !.at = IF program.target THEN "serving" ELSE "failed"]
  OBVIOUS
<1>4. Becomes(p, n)
  BY <1>1, <1>3 DEF ServeApp
<1>5. /\ AppInv(p, n) /\ (ParentInv(a) => ParentInv(n))
      /\ \A b : ChildInv(a, b) => ChildInv(n, b)
  <2>1. n = [a EXCEPT !.at = "serving"] \/ n = [a EXCEPT !.at = "failed"]
    BY <1>3
  <2> QED BY <1>2, <2>1, ServingIsSoundly, FailedIsSound
<1> QED BY <1>1, <1>2, <1>4, <1>5, PlainStep

LEMMA StopKeeps ==
  ASSUME MainInv, NEW p \in Runners, StopApp(p)
  PROVE  MainInv'
<1>1. PICK a : a = apps[p]
  OBVIOUS
<1>2. a.at \in {"serving", "failed", "up"} /\ program' = program /\ AppInv(p, a)
  BY <1>1, PartsOfInv DEF StopApp
<1>3. a.at = "serving" => ~a.byHand
  BY <1>2 DEF AppInv
<1>4. CASE Becomes(p, Stopped(a))
  <2>1. PICK n : n = Stopped(a)
    OBVIOUS
  <2>2. /\ AppInv(p, n) /\ (ParentInv(a) => ParentInv(n))
        /\ \A b : ChildInv(a, b) => ChildInv(n, b)
    BY <1>2, <1>3, <2>1, StoppedIsSound
  <2> QED BY <1>1, <1>2, <1>4, <2>1, <2>2, PlainStep
<1>5. CASE a.run # 0 /\ Becomes(p, HookRaises(a))
  <2>1. PICK n : n = HookRaises(a)
    OBVIOUS
  <2>2. /\ AppInv(p, n) /\ (ParentInv(a) => ParentInv(n))
        /\ \A b : ChildInv(a, b) => ChildInv(n, b)
    BY <1>2, <1>5, <2>1, HookRaisesSoundly
  <2> QED BY <1>1, <1>2, <1>5, <2>1, <2>2, PlainStep
<1> QED BY <1>1, <1>4, <1>5 DEF StopApp

LEMMA StopByHandKeeps ==
  ASSUME MainInv, StopByHand
  PROVE  MainInv'
<1>1. PICK a : a = apps["parent"]
  OBVIOUS
<1>2. "parent" \in Runners /\ a.at = "returned" /\ program' = program /\ AppInv("parent", a)
  BY <1>1, PartsOfInv DEF StopByHand, Runners
<1>3. PICK n : n = Stopped(a)
  OBVIOUS
<1>4. Becomes("parent", n)
  BY <1>1, <1>3 DEF StopByHand
<1>5. /\ AppInv("parent", n) /\ (ParentInv(a) => ParentInv(n))
      /\ \A b : ChildInv(a, b) => ChildInv(n, b)
  BY <1>2, <1>3, StoppedIsSound
<1> QED BY <1>1, <1>2, <1>4, <1>5, PlainStep

LEMMA RunKeeps ==
  ASSUME MainInv, RunApplication
  PROVE  MainInv'
<1>1. PICK o : o = apps["parent"]
  OBVIOUS
<1>2. PICK a : a = [o EXCEPT !.share = Shares(o), !.byHand = FALSE]
  OBVIOUS
<1>3. /\ "parent" \in Runners /\ o.at \in {"declared", "returned"} /\ program' = program
      /\ AppInv("parent", o) /\ ParentInv(o) /\ program \in Programs
  <2>1. "parent" \in Runners
    BY DEF Runners
  <2>2. AppInv("parent", o) /\ ParentInv(o) /\ program \in Programs
    BY <1>1, <2>1, PartsOfInv
  <2> QED BY <1>1, <2>1, <2>2 DEF RunApplication
<1>4. AppInv("parent", a) /\ ParentInv(a) /\ a.at = o.at /\ (Asks => a.share)
  <2>1. IsApp(o)
    BY <1>3 DEF AppInv
  <2>2. /\ IsApp(a) /\ a.binding = o.binding /\ a.run = o.run /\ a.runs = o.runs /\ a.log = o.log
        /\ a.opened = o.opened /\ a.hurt = o.hurt /\ a.ran = o.ran /\ a.share = Shares(o)
        /\ a.added = o.added /\ a.abandoned = o.abandoned /\ a.at = o.at /\ a.doors = o.doors
    BY <1>2, <2>1 DEF IsApp
  <2>3. (Asks => a.share) /\ (a.share => Asks)
    BY <1>3, <2>2 DEF Shares, Asks, ParentInv
  <2>4. AppInv("parent", a)
    BY <1>3, <2>2 DEF AppInv, RunningPhases, HasDoor, BaseOf
  <2>5. ParentInv(a)
    BY <1>3, <2>2, <2>3 DEF ParentInv, ByRun, RunningPhases
  <2> QED BY <2>2, <2>3, <2>4, <2>5
<1>5. CASE Becomes("parent", RefusedApp(a))
  <2>1. AppInv("parent", RefusedApp(a)) /\ ParentInv(RefusedApp(a))
    BY <1>3, <1>4, RefusedIsSound
  <2> QED BY <1>1, <1>3, <1>5, <2>1, OneMoves
<1>6. CASE Becomes("parent", RefusedApp(Resolved(a)))
  <2>1. PICK r : r = Resolved(a)
    OBVIOUS
  <2>2. AppInv("parent", r) /\ ParentInv(r) /\ r.at = a.at
    BY <1>3, <1>4, <2>1, ResolvedIsSound
  <2>3. AppInv("parent", RefusedApp(r)) /\ ParentInv(RefusedApp(r))
    BY <1>3, <1>4, <2>2, RefusedIsSound
  <2> QED BY <1>1, <1>3, <1>6, <2>1, <2>3, OneMoves
<1>7. CASE Resolves(a) /\ Becomes("parent", [Logging(Resolved(a)) EXCEPT !.at = "validating"])
  <2>1. PICK n : n = [Logging(Resolved(a)) EXCEPT !.at = "validating"]
    OBVIOUS
  <2>2. AppInv("parent", n) /\ ParentInv(n)
    BY <1>3, <1>4, <1>7, <2>1, ValidatingIsSound
  <2> QED BY <1>1, <1>3, <1>7, <2>1, <2>2, OneMoves
<1> QED BY <1>1, <1>2, <1>5, <1>6, <1>7 DEF RunApplication

LEMMA StartByHandKeeps ==
  ASSUME MainInv, StartByHand
  PROVE  MainInv'
<1>1. PICK o : o = apps["parent"]
  OBVIOUS
<1>2. PICK a : a = [o EXCEPT !.byHand = TRUE]
  OBVIOUS
<1>3. /\ "parent" \in Runners /\ o.at \in {"declared", "returned"} /\ program' = program
      /\ AppInv("parent", o) /\ ParentInv(o)
  <2>1. "parent" \in Runners
    BY DEF Runners
  <2>2. AppInv("parent", o) /\ ParentInv(o)
    BY <1>1, <2>1, PartsOfInv
  <2> QED BY <1>1, <2>1, <2>2 DEF StartByHand
<1>4. AppInv("parent", a) /\ ParentInv(a) /\ a.at = o.at /\ a.byHand
  <2>1. IsApp(o)
    BY <1>3 DEF AppInv
  <2>2. /\ IsApp(a) /\ a.binding = o.binding /\ a.run = o.run /\ a.runs = o.runs /\ a.log = o.log
        /\ a.opened = o.opened /\ a.hurt = o.hurt /\ a.ran = o.ran /\ a.share = o.share
        /\ a.added = o.added /\ a.abandoned = o.abandoned /\ a.at = o.at /\ a.doors = o.doors
        /\ a.byHand = TRUE
    BY <1>2, <2>1 DEF IsApp
  <2>3. AppInv("parent", a)
    BY <1>3, <2>2 DEF AppInv, RunningPhases, HasDoor, BaseOf
  <2>4. ParentInv(a)
    BY <1>3, <2>2 DEF ParentInv, ByRun, RunningPhases
  <2> QED BY <2>2, <2>3, <2>4
<1>5. CASE Becomes("parent", [a EXCEPT !.at = "returned"])
  <2>1. PICK n : n = [a EXCEPT !.at = "returned"]
    OBVIOUS
  <2>2. /\ IsApp(n) /\ n.binding = a.binding /\ n.run = a.run /\ n.runs = a.runs /\ n.log = a.log
        /\ n.opened = a.opened /\ n.hurt = a.hurt /\ n.ran = a.ran /\ n.share = a.share
        /\ n.added = a.added /\ n.abandoned = a.abandoned /\ n.at = "returned"
        /\ n.doors = a.doors
    BY <1>4, <2>1 DEF IsApp, AppInv
  <2>3. AppInv("parent", n)
    BY <1>3, <1>4, <2>2 DEF AppInv, RunningPhases, HasDoor, BaseOf
  <2>4. ParentInv(n)
    BY <1>3, <1>4, <2>2 DEF ParentInv, ByRun, RunningPhases
  <2> QED BY <1>1, <1>3, <1>5, <2>1, <2>3, <2>4, OneMoves
<1>6. CASE a.run = 0 /\ Binding(a) # "raises" /\ Becomes("parent", Started(a))
  <2>1. PICK n : n = Started(a)
    OBVIOUS
  <2>2. AppInv("parent", n) /\ ParentInv(n)
    BY <1>3, <1>4, <1>6, <2>1, StartedIsSound
  <2> QED BY <1>1, <1>3, <1>6, <2>1, <2>2, OneMoves
<1> QED BY <1>1, <1>2, <1>5, <1>6 DEF StartByHand

(* A child differs from a parent that supervises only where main.py says   *)
(* something under `if __name__`.                                          *)
LEMMA ChildAgrees ==
  ASSUME program \in Programs, NEW b, AppInv("parent", b), ParentInv(b), b.at = "supervising",
         ~ChildMayDiffer
  PROVE  /\ Used("child") = Used("parent") /\ NameInChild /\ RunsLine("child", program.config)
         /\ program.layout = "processes" /\ program.admin # "clash"
         /\ program.listed \cup AdminDoors = DoorsIn(Used("child")) \cup AdminDoors
         /\ program.listed \cup AdminDoors # {}
<1>1. program.guarded = EmptyBag /\ "guarded" # program.name /\ "guarded" # program.config
  BY DEF ChildMayDiffer
<1>2. Used("child") = Used("parent")
  BY <1>1, MainProgramAssumption DEF Used, (+), IsABag, EmptyBag, SetToBag
<1>3. b.share /\ Fits /\ Asks /\ HasName /\ DoorsIn(b.doors) = program.listed \cup AdminDoors
      /\ b.added /\ DoorsIn(b.doors) # {}
  BY DEF ParentInv, ByRun
<1>4. RunsLine("parent", program.config) /\ BaseOf(b) = DoorsIn(Used("parent"))
  BY <1>3 DEF AppInv
<1>5. program.name = "top" /\ program.config = "top"
  <2>1. program.name \in {"top", "guarded", "no"}
    BY MainProgramAssumption
  <2> QED BY <1>1, <1>3, <1>4, <2>1 DEF HasName, RunsLine
<1>6. program.listed = BaseOf(b)
  <2>1. "admin" \notin program.listed /\ "jobs" \notin program.listed
    BY MainProgramAssumption
  <2> QED BY <1>3, <2>1 DEF BaseOf, AdminDoors
<1> QED
  BY <1>2, <1>3, <1>4, <1>5, <1>6 DEF NameInChild, RunsLine, Fits

LEMMA RunAsWorkerKeeps ==
  ASSUME MainInv, RunAsWorker
  PROVE  MainInv'
<1>1. PICK o, b : o = apps["child"] /\ b = apps["parent"]
  OBVIOUS
<1>2. PICK a : a = [o EXCEPT !.share = TRUE]
  OBVIOUS
<1>3. /\ "child" \in Runners /\ o.at = "declared" /\ program' = program
      /\ AppInv("child", o) /\ ChildInv(o, b) /\ ParentInv(b) /\ AppInv("parent", b)
      /\ program \in Programs /\ b.at = "supervising"
  <2>1. "child" \in Runners
    BY DEF Runners
  <2>2. /\ AppInv("child", o) /\ ChildInv(o, b) /\ ParentInv(b) /\ AppInv("parent", b)
        /\ program \in Programs
    BY <1>1, <2>1, PartsOfInv
  <2>3. o.at = "declared" /\ program' = program
    BY <1>1 DEF RunAsWorker
  <2> QED BY <2>1, <2>2, <2>3 DEF ChildInv
<1>4. /\ AppInv("child", a) /\ ChildInv(a, b) /\ a.at = o.at /\ a.share /\ a.doors = o.doors
      /\ a.added = o.added /\ IsApp(a) /\ Once(a.doors)
  <2>1. IsApp(o)
    BY <1>3 DEF AppInv
  <2>2. /\ IsApp(a) /\ a.binding = o.binding /\ a.run = o.run /\ a.runs = o.runs /\ a.log = o.log
        /\ a.opened = o.opened /\ a.hurt = o.hurt /\ a.ran = o.ran /\ a.share = TRUE
        /\ a.added = o.added /\ a.abandoned = o.abandoned /\ a.at = o.at /\ a.doors = o.doors
    BY <1>2, <2>1 DEF IsApp
  <2>3. AppInv("child", a)
    BY <1>3, <2>2 DEF AppInv, RunningPhases, HasDoor, BaseOf
  <2>4. ChildInv(a, b)
    BY <1>3, <2>2 DEF ChildInv, RunningPhases
  <2> QED BY <2>2, <2>3, <2>4 DEF AppInv
<1>5. CASE NameInChild /\ Resolves(a)
  <2>1. PICK n : n = [Logging(Resolved(a)) EXCEPT !.at = "validating"]
    OBVIOUS
  <2>2. Becomes("child", n)
    BY <1>1, <1>2, <1>5, <2>1 DEF RunAsWorker
  <2>3. AppInv("child", n) /\ ChildInv(n, b)
    BY <1>3, <1>4, <1>5, <2>1, ValidatingIsSound
  <2> QED BY <1>1, <1>3, <2>2, <2>3, OneMoves
<1>6. CASE ~(NameInChild /\ Resolves(a))
  <2>1. Becomes("child", RefusedApp(a))
    BY <1>1, <1>2, <1>6 DEF RunAsWorker
  <2>2. ChildMayDiffer
    <3> SUFFICES ASSUME ~ChildMayDiffer PROVE FALSE
      OBVIOUS
    <3>1. /\ Used("child") = Used("parent") /\ NameInChild /\ RunsLine("child", program.config)
          /\ program.layout = "processes" /\ program.admin # "clash"
          /\ program.listed \cup AdminDoors = DoorsIn(Used("child")) \cup AdminDoors
          /\ program.listed \cup AdminDoors # {}
      BY <1>3, ChildAgrees
    <3>2. a.added /\ BaseOf(a) = DoorsIn(Used("child"))
      BY <1>3, <1>4, <3>1 DEF AppInv
    <3>3. /\ DoorsIn(Resolved(a).doors) = (DoorsIn(a.doors) \ {"admin"}) \cup AdminDoors
          /\ DoorsIn(OwnDoors(a)) = DoorsIn(a.doors) \ {"admin"}
      BY <1>4, ResolvedDoors
    <3>4. DoorsIn(Resolved(a).doors) # {}
      BY <3>1, <3>2, <3>3 DEF BaseOf
    <3>5. Resolves(a)
      BY <1>4, <3>1, <3>2, <3>3, <3>4 DEF Resolves, AdminFits, LayoutFits
    <3> QED BY <1>6, <3>1, <3>5
  <2>3. AppInv("child", RefusedApp(a)) /\ ChildInv(RefusedApp(a), b)
    BY <1>3, <1>4, <2>2, RefusedIsSound
  <2> QED BY <1>1, <1>3, <2>1, <2>3, OneMoves
<1> QED BY <1>5, <1>6

LEMMA FreshIsSound ==
  ASSUME NEW p \in Runners, NEW at \in {"main", "absent"}, NEW c, c = [NewApp EXCEPT !.at = at],
         NEW b, at = "main" => b.at = "supervising"
  PROVE  AppInv(p, c) /\ ChildInv(c, b)
<1>1. /\ IsApp(c) /\ c.at = at /\ c.doors = EmptyBag /\ c.binding = "none" /\ c.run = 0
      /\ c.runs = 0 /\ c.log = FALSE /\ c.opened = FALSE /\ c.hurt = FALSE
      /\ c.abandoned = FALSE
  BY DEF NewApp, IsApp
<1>2. DoorsIn(c.doors) = {} /\ Once(c.doors)
  BY <1>1 DEF DoorsIn, BagToSet, EmptyBag, SetToBag, Once
<1>3. AppInv(p, c)
  BY <1>1, <1>2 DEF AppInv, RunningPhases, HasDoor
<1>4. ChildInv(c, b)
  BY <1>1 DEF ChildInv, RunningPhases
<1> QED BY <1>3, <1>4

LEMMA ValidateAppKeeps ==
  ASSUME MainInv, NEW p \in Runners, ValidateApp(p)
  PROVE  MainInv'
<1>1. PICK a : a = apps[p]
  OBVIOUS
<1>2. /\ a.at = "validating" /\ program' = program /\ AppInv(p, a) /\ program \in Programs
      /\ p = "parent" => ParentInv(a)
      /\ p = "child" => ChildInv(a, apps["parent"]) /\ ParentInv(apps["parent"])
                        /\ AppInv("parent", apps["parent"])
  BY <1>1, PartsOfInv DEF ValidateApp
<1>3. CASE ~Valid(a) \/ (Supervises(p, a) /\ ~HasName)
  <2>1. Becomes(p, RefusedApp(a))
    BY <1>1, <1>3 DEF ValidateApp
  <2>2. ASSUME p = "child" PROVE ChildMayDiffer
    <3> SUFFICES ASSUME ~ChildMayDiffer PROVE FALSE
      OBVIOUS
    <3>1. PICK b : b = apps["parent"]
      OBVIOUS
    <3>2. b.at = "supervising" /\ ParentInv(b) /\ AppInv("parent", b) /\ ChildInv(a, b)
      BY <1>2, <2>2, <3>1 DEF ChildInv
    <3>3. /\ program.layout = "processes"
          /\ program.listed \cup AdminDoors = DoorsIn(Used("child")) \cup AdminDoors
      BY <1>2, <3>2, ChildAgrees
    <3>4. BaseOf(a) = DoorsIn(Used("child")) /\ DoorsIn(a.doors) \cap {"admin"} = AdminDoors
      BY <1>2, <2>2, <3>2 DEF AppInv, ChildInv, RunningPhases
    <3>5. ~HasDoor(a, "jobs")
      <4>1. ~a.hurt /\ ~a.abandoned
        BY <1>2, <3>2 DEF ChildInv
      <4> QED BY <1>2, <4>1 DEF AppInv, RunningPhases
    <3>6. Valid(a)
      BY <3>3, <3>4, <3>5 DEF Valid, Listed, BaseOf, HasDoor
    <3> QED BY <1>3, <2>2, <3>6 DEF Supervises
  <2>3. AppInv(p, RefusedApp(a)) /\ (ParentInv(a) => ParentInv(RefusedApp(a)))
        /\ \A b : ChildInv(a, b) /\ ChildMayDiffer => ChildInv(RefusedApp(a), b)
    BY <1>2, RefusedIsSound
  <2> QED BY <1>1, <1>2, <2>1, <2>2, <2>3, OneMoves
<1>4. CASE Valid(a) /\ ~Supervises(p, a)
  <2>1. PICK n : n = [a EXCEPT !.at = "prepared"]
    OBVIOUS
  <2>2. Becomes(p, n)
    BY <1>1, <1>4, <2>1 DEF ValidateApp
  <2>3. p = "parent" => ~a.share
    BY <1>4 DEF Supervises
  <2>4. AppInv(p, n) /\ (p = "parent" => ParentInv(n))
        /\ (p = "child" => ChildInv(n, apps["parent"]))
    BY <1>2, <1>4, <2>1, <2>3, PreparedIsSound
  <2> QED BY <1>1, <1>2, <2>2, <2>4, OneMoves
<1>5. CASE Valid(a) /\ Supervises(p, a) /\ HasName
  <2>1. PICK n : n = [a EXCEPT !.at = "supervising"]
    OBVIOUS
  <2>2. PICK c : c = [NewApp EXCEPT !.at = "main"]
    OBVIOUS
  <2>3. p = "parent" /\ a.share /\ "child" \in Runners /\ "child" # "parent"
    BY <1>5 DEF Supervises, Runners
  <2>4. apps = [q \in Runners |-> apps[q]]
    BY DEF MainInv
  <2>5. apps' = [[apps EXCEPT ![p].at = "supervising"] EXCEPT !["child"] = c]
    BY <1>1, <1>3, <1>4, <1>5, <2>2 DEF ValidateApp
  <2>6. apps' = [q \in Runners |-> apps'[q]] /\ apps'["parent"] = n /\ apps'["child"] = c
    BY <1>1, <2>1, <2>3, <2>4, <2>5
  <2>7. AppInv("parent", n) /\ ParentInv(n) /\ n.at = "supervising"
    <3>1. AppInv("parent", n) /\ ParentInv(n)
      BY <1>2, <1>5, <2>1, <2>3, SupervisingIsSound
    <3>2. IsApp(a)
      BY <1>2 DEF AppInv
    <3> QED BY <2>1, <3>1, <3>2 DEF IsApp
  <2>8. AppInv("child", c) /\ ChildInv(c, n)
    BY <2>2, <2>3, <2>7, FreshIsSound
  <2>9. \A q \in Runners : AppInv(q, apps'[q])
    BY <2>6, <2>7, <2>8 DEF Runners
  <2>10. program' \in Programs
    BY <1>2
  <2> QED BY <1>2, <2>6, <2>7, <2>8, <2>9, <2>10, SameProgram DEF MainInv
<1> QED BY <1>3, <1>4, <1>5

LEMMA SupervisorKeeps ==
  ASSUME MainInv, SupervisorEnds
  PROVE  MainInv'
<1>1. PICK a, o : a = apps["parent"] /\ o = apps["child"]
  OBVIOUS
<1>2. /\ a.at = "supervising" /\ program' = program /\ AppInv("parent", a) /\ ParentInv(a)
      /\ AppInv("child", o) /\ program \in Programs /\ "parent" \in Runners /\ "child" \in Runners
  <2>1. "parent" \in Runners /\ "child" \in Runners
    BY DEF Runners
  <2> QED BY <1>1, <2>1, PartsOfInv DEF SupervisorEnds
<1>3. PICK n, c : /\ n = [a EXCEPT !.at = "returned", !.log = FALSE]
                  /\ c = [o EXCEPT !.at = "absent", !.log = FALSE]
  OBVIOUS
<1>4. apps = [q \in Runners |-> apps[q]]
  BY DEF MainInv
<1>5. apps' = [q \in Runners |-> apps'[q]] /\ apps'["parent"] = n /\ apps'["child"] = c
  <2>1. apps' = [apps EXCEPT !["child"].at = "absent", !["child"].log = FALSE,
                             !["parent"].at = "returned", !["parent"].log = FALSE]
    BY DEF SupervisorEnds
  <2> QED BY <1>1, <1>2, <1>3, <1>4, <2>1
<1>6. IsApp(a) /\ IsApp(o)
  BY <1>2 DEF AppInv
<1>7. AppInv("parent", n) /\ ParentInv(n)
  <2>1. /\ IsApp(n) /\ n.binding = a.binding /\ n.run = a.run /\ n.runs = a.runs
        /\ n.log = FALSE /\ n.opened = a.opened /\ n.hurt = a.hurt /\ n.ran = a.ran
        /\ n.share = a.share /\ n.added = a.added /\ n.abandoned = a.abandoned
        /\ n.at = "returned" /\ n.doors = a.doors
    BY <1>3, <1>6 DEF IsApp
  <2>2. AppInv("parent", n)
    BY <1>2, <2>1 DEF AppInv, RunningPhases, HasDoor, BaseOf
  <2>3. ParentInv(n)
    BY <1>2, <2>1 DEF ParentInv, ByRun, RunningPhases
  <2> QED BY <2>2, <2>3
<1>8. AppInv("child", c) /\ ChildInv(c, n)
  <2>1. /\ IsApp(c) /\ c.binding = o.binding /\ c.run = o.run /\ c.runs = o.runs
        /\ c.log = FALSE /\ c.hurt = o.hurt /\ c.abandoned = o.abandoned
        /\ c.at = "absent" /\ c.doors = o.doors
    BY <1>3, <1>6 DEF IsApp
  <2>2. AppInv("child", c)
    BY <1>2, <2>1 DEF AppInv, RunningPhases
  <2> QED BY <2>1, <2>2 DEF ChildInv
<1>9. \A q \in Runners : AppInv(q, apps'[q])
  BY <1>5, <1>7, <1>8 DEF Runners
<1>10. program' \in Programs
  BY <1>2
<1> QED BY <1>2, <1>5, <1>7, <1>8, <1>9, <1>10, SameProgram DEF MainInv

(* Whatever main.py declares, however often it runs and whichever steps    *)
(* fail: nothing stays open that a stop() did not leave, each run serves   *)
(* every adapter once, what was accepted is accepted again, and a child    *)
(* becomes what its parent is (core/bootstrap/application.py,              *)
(* _supervisor.py, _processes.py).                                         *)
THEOREM ProgramStaysSound == MainSpec => []ProgramIsSound
<1>1. MainInit => MainInv
  <2> SUFFICES ASSUME MainInit PROVE MainInv
    OBVIOUS
  <2>1. PICK b, c : b = [NewApp EXCEPT !.at = "main"] /\ c = [NewApp EXCEPT !.at = "absent"]
    OBVIOUS
  <2>2. apps = [q \in Runners |-> apps[q]] /\ apps["parent"] = b /\ apps["child"] = c
        /\ program \in Programs /\ "parent" \in Runners /\ "child" \in Runners
    BY <2>1 DEF MainInit, Runners
  <2>3. AppInv("child", c) /\ ChildInv(c, b)
    BY <2>1, <2>2, FreshIsSound
  <2>4. AppInv("parent", b)
    <3>1. PICK x : x.at = "supervising"
      <4>1. [at |-> "supervising"].at = "supervising"
        OBVIOUS
      <4> QED BY <4>1
    <3> QED BY <2>1, <2>2, <3>1, FreshIsSound
  <2>5. ParentInv(b)
    BY <2>1 DEF NewApp, ParentInv, ByRun, RunningPhases
  <2>6. \A q \in Runners : AppInv(q, apps[q])
    BY <2>2, <2>3, <2>4 DEF Runners
  <2> QED BY <2>2, <2>3, <2>5, <2>6 DEF MainInv
<1>2. MainInv /\ [MainNext]_mainVars => MainInv'
  <2> SUFFICES ASSUME MainInv, [MainNext]_mainVars PROVE MainInv'
    OBVIOUS
  <2>1. CASE MainNext
    BY <2>1, RunKeeps, RunAsWorkerKeeps, StartByHandKeeps, StopByHandKeeps, SupervisorKeeps,
       DeclareAppKeeps, ValidateAppKeeps, StartKeeps, UpKeeps, StartFailsKeeps, ServeKeeps, StopKeeps
    DEF MainNext
  <2>2. CASE UNCHANGED mainVars
    <3>1. program' = program /\ apps' = apps
      BY <2>2 DEF mainVars
    <3> QED BY <3>1, SameProgram DEF MainInv
  <2> QED BY <2>1, <2>2
<1>3. MainInv => ProgramIsSound
  <2> SUFFICES ASSUME MainInv PROVE ProgramIsSound
    OBVIOUS
  <2>1. PICK b, c : b = apps["parent"] /\ c = apps["child"]
    OBVIOUS
  <2>2. /\ AppInv("parent", b) /\ AppInv("child", c) /\ ParentInv(b) /\ ChildInv(c, b)
        /\ program \in Programs
    BY <2>1 DEF MainInv, Runners
  <2>3. \A p \in Runners : AppInv(p, apps[p])
    BY DEF MainInv
  <2>4. NothingIsLeftOpen
    BY <2>3 DEF NothingIsLeftOpen, AppInv, HasDoor, RunningPhases
  <2>5. ThisRunsAdapters /\ NoSilentEmptiness
    BY <2>3 DEF ThisRunsAdapters, NoSilentEmptiness, AppInv, HasDoor, RunningPhases
  <2>6. LogOutlivesChild
    BY <2>1, <2>2 DEF LogOutlivesChild, AppInv, ParentInv, ChildInv
  <2>7. ChildIsItsParent
    <3>1. ASSUME c.at = "serving"
          PROVE  DoorsIn(c.doors) \ {"jobs"} = DoorsIn(b.doors) /\ c.binding = "full"
      BY <2>2, <3>1 DEF ChildInv, ParentInv, AppInv, RunningPhases
    <3>2. c.at = "refused" => ChildMayDiffer
      BY <2>2 DEF ChildInv
    <3> QED BY <2>1, <3>1, <3>2 DEF ChildIsItsParent, ChildMayDiffer
  <2>8. AcceptedAgain
    <3> SUFFICES ASSUME b.ran, ~b.hurt, ~b.abandoned, b.at = "validating" PROVE Valid(b)
      BY <2>1 DEF AcceptedAgain
    <3>1. Settled /\ ~HasDoor(b, "jobs") /\ BaseOf(b) = DoorsIn(Used("parent"))
          /\ IsApp(b) /\ Once(b.doors)
      BY <2>2 DEF ParentInv, AppInv, RunningPhases
    <3>2. CASE program.layout = "flat"
      <4>1. DoorsIn(OwnDoors(b)) = DoorsIn(b.doors) \ {"admin"}
        BY <3>1, ResolvedDoors
      <4> QED BY <3>2, <4>1 DEF Valid, Listed
    <3>3. CASE program.layout # "flat"
      BY <3>1, <3>3 DEF Settled, Valid, Listed, BaseOf, HasDoor
    <3> QED BY <3>2, <3>3
  <2>9. NeverRefusedLater
    <3> SUFFICES ASSUME b.ran, ~b.hurt, ~b.abandoned, b.at = "returned" PROVE Resolves(b)
      BY <2>1 DEF NeverRefusedLater
    <3>1. Settled /\ BaseOf(b) = DoorsIn(Used("parent")) /\ IsApp(b) /\ Once(b.doors)
          /\ (b.share => Asks)
      BY <2>2 DEF ParentInv, AppInv, RunningPhases
    <3>2. DoorsIn(OwnDoors(b)) = DoorsIn(b.doors) \ {"admin"}
      BY <3>1, ResolvedDoors
    <3> QED BY <3>1, <3>2 DEF Settled, Fits, Resolves, AdminFits, LayoutFits, BaseOf
  <2> QED
    BY <2>4, <2>5, <2>6, <2>7, <2>8, <2>9 DEF ProgramIsSound
<1> QED
  BY <1>1, <1>2, <1>3, PTL DEF MainSpec

----------------------------------------------------------------------------
(* From declarations to calls                                              *)

(* The fields of a declaration.                                            *)
IsDeclaration(d) ==
  d = [count |-> d.count, packages |-> d.packages, excluded |-> d.excluded,
       bindings |-> d.bindings, explicit |-> d.explicit, factories |-> d.factories,
       rules |-> d.rules]

(* Bindings map Protocols to implementations.                              *)
BindingsInv ==
  /\ IsDeclaration(declared)
  /\ \A i \in DOMAIN declared.bindings :
       i \in Types /\ KindOf[i] = "protocol" /\ declared.bindings[i] \in BindTargets

(* Whatever has been hooked comes after all that it waits for.             *)
HooksInv ==
  /\ hooked \in [instances : SUBSET prebuilt, components : SUBSET Nodes]
  /\ \A c \in hooked.components : RuleEdges(c) \subseteq hooked.components
  /\ hooked.components # {} => hooked.instances = prebuilt

(* What was accepted stays acceptable, for nothing is declared any more; a *)
(* pointer stays within its tuple.                                         *)
AcceptedInv ==
  /\ ~BuildRefused
  /\ DOMAIN pointers = Tuples /\ \A i \in Tuples : pointers[i] \in ImplsIn(i)
  /\ wiring = "running" => hooked.components = Nodes /\ hooked.instances = prebuilt

(* A call goes to what its caller was given, or to one of the tuple behind *)
(* the proxy.                                                              *)
CallInv ==
  calling # NotCalling =>
    /\ wiring \in {"hooking", "running"} /\ CallsReachTheReady /\ CallsFitTheProtocol
    /\ calling.proxy => calling.to \in Nodes

WiringInv ==
  /\ BindingsInv /\ HooksInv
  /\ wiring \in {"declaring", "refused", "built", "raised", "hooking", "running"}
  /\ wiring \in {"declaring", "refused", "built", "raised"} =>
       hooked = [instances |-> {}, components |-> {}] /\ calling = NotCalling
  /\ wiring \in {"built", "raised", "hooking", "running"} => AcceptedInv
  /\ CallInv /\ AcceptedIsComplete

----------------------------------------------------------------------------
(* What nothing but a declaration changes.                                 *)
DeclaredVars == <<declared, dynamic, prebuilt>>

LEMMA SameDeclarations ==
  ASSUME UNCHANGED DeclaredVars
  PROVE  /\ Nodes' = Nodes /\ Tuples' = Tuples /\ BuildRefused' = BuildRefused
         /\ Instances' = Instances /\ Provided' = Provided /\ Managed' = Managed
         /\ BoundStatically' = BoundStatically /\ BindingsInv' = BindingsInv
         /\ \A t : RuleEdges(t)' = RuleEdges(t)
         /\ \A i : Impls(i)' = Impls(i) /\ ImplsIn(i)' = ImplsIn(i)
         /\ Available' = Available /\ Proxied' = Proxied
         /\ \A t : PlanOf(t)' = PlanOf(t) /\ ResolvedType(t)' = ResolvedType(t)
<1>1. declared' = declared /\ dynamic' = dynamic /\ prebuilt' = prebuilt
  BY DEF DeclaredVars
<1>2. \A i : Impls(i)' = Impls(i) /\ ImplsIn(i)' = ImplsIn(i)
  BY <1>1 DEF Impls, ImplsIn
<1>3. Tuples' = Tuples /\ EmptyTuple' = EmptyTuple
  BY <1>1, <1>2 DEF Tuples, EmptyTuple
<1>4. /\ BoundStatically' = BoundStatically /\ Managed' = Managed
      /\ Proxied' = Proxied /\ Instances' = Instances
  BY <1>1, <1>2, <1>3 DEF BoundStatically, Managed, Proxied, Instances
<1>5. Excluded' = Excluded /\ Provided' = Provided
  BY <1>1 DEF Excluded, Provided
<1>6. \A p : InPackage(p)' = InPackage(p)
  BY <1>5 DEF InPackage
<1>7. ScanRaises' = ScanRaises /\ Scanned' = Scanned
  BY <1>1, <1>6 DEF ScanRaises, Scanned
<1>8. Components' = Components
  BY <1>1, <1>4, <1>7 DEF Components
<1>9. Nodes' = Nodes /\ Available' = Available
  BY <1>4, <1>5, <1>8 DEF Nodes, Available
<1>10. \A t : ResolvedType(t)' = ResolvedType(t)
  BY <1>2, <1>4 DEF ResolvedType
<1>11. \A t : FactoryOf(t)' = FactoryOf(t)
  BY <1>1 DEF FactoryOf
<1>12. \A t : HintsOf(t)' = HintsOf(t)
  BY <1>5, <1>11 DEF HintsOf
<1>13. \A t : PlanOf(t)' = PlanOf(t)
  BY <1>9, <1>10, <1>12 DEF PlanOf
<1>14. \A t : Edges(t)' = Edges(t)
  BY <1>9, <1>13 DEF Edges
<1>15. \A t : RuleEdges(t)' = RuleEdges(t)
  BY <1>1, <1>14 DEF RuleEdges
<1>16. BuildRefused' = BuildRefused
  <2>1. UnboundProtocol' = UnboundProtocol /\ MissingConcrete' = MissingConcrete
    BY <1>4, <1>5, <1>9, <1>13 DEF UnboundProtocol, MissingConcrete
  <2>2. \A i : Validated(i)' = Validated(i)
    BY <1>1, <1>2, <1>3 DEF Validated
  <2>3. BadBinding' = BadBinding /\ BadRule' = BadRule
    BY <1>1, <1>9, <2>2 DEF BadBinding, BadRule
  <2>4. [t \in Nodes |-> Edges(t)]' = [t \in Nodes |-> Edges(t)]
    BY <1>9, <1>14
  <2>5. [t \in Nodes |-> RuleEdges(t)]' = [t \in Nodes |-> RuleEdges(t)]
    BY <1>9, <1>15
  <2>6. Circular([t \in Nodes |-> Edges(t)])' = Circular([t \in Nodes |-> Edges(t)])
    BY <1>9, <2>4 DEF Circular
  <2>7. Circular([t \in Nodes |-> RuleEdges(t)])' = Circular([t \in Nodes |-> RuleEdges(t)])
    BY <1>9, <2>5 DEF Circular
  <2> QED
    BY <1>3, <1>7, <2>1, <2>3, <2>6, <2>7 DEF BuildRefused
<1>17. BindingsInv' = BindingsInv
  BY <1>1 DEF BindingsInv
<1> QED
  BY <1>2, <1>3, <1>4, <1>5, <1>9, <1>10, <1>13, <1>15, <1>16, <1>17

----------------------------------------------------------------------------
(* What acceptance gives, whatever is declared.                            *)
LEMMA ImplsHaveFirst ==
  ASSUME BindingsInv, ~BuildRefused, NEW i \in DOMAIN declared.bindings
  PROVE  /\ Impls(i)[1] \in ImplsIn(i) /\ 1 \in DOMAIN Impls(i)
         /\ KindOf[Impls(i)[1]] # "protocol"
<1>1. Impls(i) \in Seq(Types) /\ \A k \in DOMAIN Impls(i) : KindOf[Impls(i)[k]] # "protocol"
  BY WiringAssumption DEF BindingsInv, Impls
<1>2. Impls(i) # <<>>
  BY DEF BuildRefused, EmptyTuple
<1>3. Len(Impls(i)) \in Nat /\ DOMAIN Impls(i) = 1 .. Len(Impls(i)) /\ Len(Impls(i)) # 0
  BY <1>1, <1>2, LenProperties, EmptySeq
<1>4. 1 \in DOMAIN Impls(i)
  BY <1>3
<1> QED
  BY <1>1, <1>4 DEF ImplsIn

(* Whatever a plan asks for is there, and what a component waits for is a  *)
(* component.                                                              *)
LEMMA PlansAreSupplied ==
  ASSUME ~BuildRefused, NEW t \in Nodes
  PROVE  PlanOf(t) \subseteq Available /\ RuleEdges(t) \subseteq Nodes
<1>1. ASSUME NEW d \in PlanOf(t) PROVE d \in Available
  <2>1. CASE KindOf[d] = "protocol"
    <3>1. d \in Instances \cup Provided
      BY <2>1 DEF BuildRefused, UnboundProtocol
    <3> QED BY <3>1 DEF Available, Nodes
  <2>2. CASE KindOf[d] # "protocol"
    BY <2>2 DEF BuildRefused, MissingConcrete
  <2> QED BY <2>1, <2>2
<1>2. RuleEdges(t) \subseteq Nodes
  <2>1. \A r \in declared.rules : r[1] \in Nodes
    BY DEF BuildRefused, BadRule
  <2> QED BY <2>1 DEF RuleEdges, Edges
<1> QED BY <1>1, <1>2

(* Only a class that was registered without hints can be left without an   *)
(* argument.                                                               *)
LEMMA AcceptedConstructs ==
  ASSUME ~BuildRefused, NEW t \in Nodes, ~Complete(t)
  PROVE  t \in (declared.explicit \cup Managed) \ Provided /\ ~Hinted(t)
<1>1. ASSUME NEW p \in HintsOf(t), ~p.optional PROVE ResolvedType(p.type) \in Passed(t)
  <2>1. ResolvedType(p.type) \in PlanOf(t)
    BY <1>1 DEF PlanOf
  <2> QED BY <2>1, PlansAreSupplied DEF Passed
<1>2. t \notin Provided /\ ~Hinted(t)
  BY <1>1 DEF Complete, Hinted
<1>3. t \notin Scanned
  BY <1>2 DEF Scanned
<1> QED
  BY <1>2, <1>3 DEF Nodes, Components

(* Among the components that are left there is one that waits for none of  *)
(* them.                                                                   *)
LEMMA SomeHookIsNext ==
  ASSUME ~BuildRefused, NEW H \in SUBSET Nodes, H # Nodes
  PROVE  \E c \in Nodes \ H : RuleEdges(c) \subseteq H
<1> DEFINE E == [t \in Nodes |-> RuleEdges(t)]
           S == Nodes \ H
<1>1. S # {}
  OBVIOUS
<1>2. \E t \in S : E[t] \cap S = {}
  <2>1. ~Circular(E)
    BY DEF BuildRefused
  <2> HIDE DEF E
  <2> QED BY <1>1, <2>1 DEF Circular
<1>3. PICK t \in S : E[t] \cap S = {}
  BY <1>2
<1>4. RuleEdges(t) \subseteq Nodes
  BY PlansAreSupplied
<1> QED
  BY <1>3, <1>4

(* What a component looks up.                                              *)
LEMMA LookUpIsSound ==
  ASSUME BindingsInv, HooksInv, AcceptedInv, NEW u \in hooked.components, NEW p,
         ResolvedType(p.type) \in Passed(u), wiring \in {"hooking", "running"},
         NEW d, d = ResolvedType(p.type),
         calling' = [by |-> u, asked |-> p.type, proxy |-> d \in Proxied,
                     to |-> IF d \in Proxied THEN pointers[d] ELSE d],
         UNCHANGED <<declared, dynamic, prebuilt, wiring, pointers, hooked>>
  PROVE  CallInv'
<1> DEFINE a == p.type
<1>1. d \in PlanOf(u) /\ d \in Available /\ u \in Nodes /\ ~BuildRefused
  BY DEF Passed, HooksInv, AcceptedInv
<1>2. calling'.asked = a /\ calling'.proxy = (d \in Proxied)
      /\ calling'.to = IF d \in Proxied THEN pointers[d] ELSE d
  OBVIOUS
<1> HIDE DEF a
<1>3. UNCHANGED DeclaredVars
  BY DEF DeclaredVars
<1>4. hooked.instances = prebuilt
  BY DEF HooksInv
<1>5. ASSUME d \in Proxied
      PROVE  /\ dynamic /\ d \in Tuples /\ d \notin prebuilt /\ pointers[d] \in ImplsIn(d)
             /\ pointers[d] \in Nodes
             /\ wiring = "running" => pointers[d] \in hooked.components
  <2>1. dynamic /\ d \in Tuples /\ d \notin prebuilt
    BY <1>5 DEF Proxied
  <2>2. pointers[d] \in ImplsIn(d)
    BY <2>1 DEF AcceptedInv
  <2>3. pointers[d] \in Nodes
    BY <2>1, <2>2 DEF Managed, Nodes, Components
  <2> QED BY <2>1, <2>2, <2>3 DEF AcceptedInv
<1>6. ASSUME d \notin Proxied
      PROVE  d \in hooked.components \cup hooked.instances /\ d \in Nodes \cup prebuilt
  <2>1. d \in Nodes \cup prebuilt
    BY <1>1, <1>6 DEF Available, Instances
  <2>2. CASE d \in Nodes
    <3>1. d \in RuleEdges(u)
      BY <1>1, <2>2 DEF RuleEdges, Edges
    <3> QED BY <2>2, <3>1 DEF HooksInv
  <2>3. CASE d \in prebuilt
    BY <1>4, <2>3
  <2> QED BY <2>1, <2>2, <2>3
<1>7. CallsReachTheReady'
  BY <1>2, <1>5, <1>6 DEF CallsReachTheReady
<1>8. calling'.proxy => calling'.to \in Nodes'
  BY <1>2, <1>3, <1>5, SameDeclarations
<1>9. CallsFitTheProtocol'
  <2> SUFFICES ASSUME KindOf[a] = "protocol"
               PROVE  \/ /\ calling'.to = a /\ a \in prebuilt \cup Provided
                         /\ a \notin BoundStatically
                      \/ /\ a \in BoundStatically \/ a \notin prebuilt
                         /\ calling'.to \in IF dynamic THEN ImplsIn(a) ELSE {Impls(a)[1]}
                         /\ MethodsOf[a] \subseteq MethodsOf[calling'.to]
                         /\ calling'.to \in Nodes \cup prebuilt
    BY <1>2, <1>3, SameDeclarations DEF CallsFitTheProtocol
  <2>1. CASE a \in BoundStatically
    <3>1. a \in DOMAIN declared.bindings
      BY <2>1 DEF BoundStatically
    <3>2. d = Impls(a)[1]
      BY <2>1 DEF ResolvedType, a
    <3>3. d \in ImplsIn(a) /\ KindOf[d] # "protocol"
      BY <1>1, <3>1, <3>2, ImplsHaveFirst
    <3>4. d \notin Proxied
      BY <3>3 DEF Proxied, Tuples, BindingsInv
    <3>5. calling'.to = d /\ d \in Nodes \cup prebuilt
      BY <1>2, <1>6, <3>4
    <3>6. d \in Validated(a)
      BY <3>2, <3>3 DEF Validated
    <3>7. MethodsOf[a] \subseteq MethodsOf[d]
      BY <1>1, <3>1, <3>6 DEF BuildRefused, BadBinding
    <3> QED BY <2>1, <3>2, <3>3, <3>5, <3>7
  <2>2. CASE a \notin BoundStatically
    <3>1. d = a
      BY <2>2 DEF ResolvedType, a
    <3>2. CASE d \in Proxied
      <4>1. calling'.to = pointers[a] /\ pointers[a] \in ImplsIn(a) /\ dynamic /\ a \in Tuples
        BY <1>2, <1>5, <3>1, <3>2
      <4>2. pointers[a] \in Validated(a) /\ a \in DOMAIN declared.bindings
        BY <4>1 DEF Validated, Tuples
      <4>3. MethodsOf[a] \subseteq MethodsOf[pointers[a]]
        BY <1>1, <4>2 DEF BuildRefused, BadBinding
      <4> QED BY <1>5, <3>1, <3>2, <4>1, <4>3
    <3>3. CASE d \notin Proxied
      <4>1. d \in Instances \cup Provided
        BY <1>1, <3>1 DEF BuildRefused, UnboundProtocol
      <4> QED BY <1>2, <2>2, <3>1, <3>3, <4>1 DEF Instances
    <3> QED BY <3>2, <3>3
  <2> QED BY <2>1, <2>2
<1> QED
  BY <1>7, <1>8, <1>9 DEF CallInv

----------------------------------------------------------------------------
LEMMA DeclareKeeps ==
  ASSUME WiringInv, NEW d, Declare(d), IsDeclaration(d),
         \A i \in DOMAIN d.bindings :
           i \in Types /\ KindOf[i] = "protocol" /\ d.bindings[i] \in BindTargets
  PROVE  WiringInv'
<1>1. /\ wiring = "declaring" /\ wiring' = wiring /\ hooked' = hooked /\ calling' = calling
      /\ declared' = [d EXCEPT !.count = @ + 1]
  BY DEF Declare
<1>2. hooked' = [instances |-> {}, components |-> {}] /\ calling' = NotCalling
  BY <1>1 DEF WiringInv
<1>3. BindingsInv'
  <2>1. declared'.bindings = d.bindings /\ IsDeclaration(declared)'
    BY <1>1 DEF IsDeclaration
  <2> QED BY <2>1 DEF BindingsInv
<1>4. HooksInv'
  BY <1>2 DEF HooksInv
<1>5. AcceptedIsComplete' /\ CallInv'
  BY <1>1, <1>2 DEF AcceptedIsComplete, CallInv, NotCalling
<1> QED
  BY <1>1, <1>2, <1>3, <1>4, <1>5 DEF WiringInv

LEMMA BuildKeeps ==
  ASSUME WiringInv, Build
  PROVE  WiringInv'
<1>1. UNCHANGED DeclaredVars /\ hooked' = hooked /\ calling' = calling /\ wiring = "declaring"
  BY DEF Build, DeclaredVars
<1>2. hooked = [instances |-> {}, components |-> {}] /\ calling = NotCalling
  BY <1>1 DEF WiringInv
<1>3. HooksInv' /\ BindingsInv'
  BY <1>1, <1>2, SameDeclarations DEF HooksInv, WiringInv
<1>4. wiring' \in {"refused", "built"}
  BY DEF Build
<1>5. ASSUME wiring' = "built" PROVE AcceptedInv'
  <2>1. ~BuildRefused
    BY <1>5 DEF Build
  <2>2. pointers' = [i \in Tuples |-> Impls(i)[1]]
    BY <2>1 DEF Build
  <2>3. \A i \in Tuples : Impls(i)[1] \in ImplsIn(i)
    BY <2>1, ImplsHaveFirst DEF Tuples, WiringInv
  <2> QED BY <1>1, <1>5, <2>1, <2>2, <2>3, SameDeclarations DEF AcceptedInv
<1>6. AcceptedIsComplete' /\ CallInv'
  BY <1>1, <1>2, <1>4 DEF AcceptedIsComplete, CallInv, NotCalling
<1> QED
  BY <1>1, <1>2, <1>3, <1>4, <1>5, <1>6 DEF WiringInv

LEMMA ConstructKeeps ==
  ASSUME WiringInv, Construct
  PROVE  WiringInv'
<1>1. /\ UNCHANGED DeclaredVars /\ hooked' = hooked /\ calling' = calling /\ pointers' = pointers
      /\ wiring = "built" /\ wiring' \in {"hooking", "raised"}
  BY DEF Construct, DeclaredVars
<1>2. hooked = [instances |-> {}, components |-> {}] /\ calling = NotCalling /\ AcceptedInv
  BY <1>1 DEF WiringInv
<1>3. HooksInv' /\ BindingsInv' /\ AcceptedInv'
  BY <1>1, <1>2, SameDeclarations DEF HooksInv, WiringInv, AcceptedInv
<1>4. CallInv'
  BY <1>1, <1>2 DEF CallInv, NotCalling
<1>5. AcceptedIsComplete'
  <2>1. CASE wiring' = "raised"
    <3>1. PICK t \in Nodes : ~Complete(t)
      BY <2>1 DEF Construct
    <3>2. t \in (declared.explicit \cup Managed) \ Provided /\ ~Hinted(t)
      BY <1>2, <3>1, AcceptedConstructs DEF AcceptedInv
    <3>3. Managed' = Managed /\ Provided' = Provided /\ declared' = declared
      BY <1>1, SameDeclarations DEF DeclaredVars
    <3> QED BY <2>1, <3>2, <3>3 DEF AcceptedIsComplete
  <2>2. CASE wiring' = "hooking"
    <3>1. HooksInv /\ (hooked.components # Nodes =>
            \E c \in Nodes \ hooked.components : RuleEdges(c) \subseteq hooked.components)
      BY <1>2, SomeHookIsNext DEF AcceptedInv, WiringInv, HooksInv
    <3> QED BY <1>1, <2>2, <3>1, SameDeclarations DEF AcceptedIsComplete
  <2> QED BY <1>1, <2>1, <2>2
<1> QED
  BY <1>1, <1>2, <1>3, <1>4, <1>5 DEF WiringInv

(* Steps after the construction: what is declared stays, and the hooks     *)
(* only grow.                                                              *)
LEMMA HooksGrow ==
  ASSUME WiringInv, UNCHANGED DeclaredVars, wiring = "hooking", wiring' = wiring,
         pointers' = pointers, calling' = calling, HooksInv',
         hooked.components \subseteq hooked'.components,
         hooked.instances \subseteq hooked'.instances
  PROVE  WiringInv'
<1>1. AcceptedInv /\ BindingsInv'
  BY SameDeclarations DEF WiringInv
<1>2. AcceptedInv'
  BY <1>1, SameDeclarations DEF AcceptedInv
<1>3. AcceptedIsComplete'
  <2>1. hooked'.components \subseteq Nodes
    BY SameDeclarations DEF HooksInv
  <2>2. hooked'.components # Nodes =>
          \E c \in Nodes \ hooked'.components : RuleEdges(c) \subseteq hooked'.components
    BY <1>1, <2>1, SomeHookIsNext DEF AcceptedInv
  <2> QED BY <2>2, SameDeclarations DEF AcceptedIsComplete
<1>4. CallInv'
  <2>1. CASE calling = NotCalling
    BY <2>1 DEF CallInv, NotCalling
  <2>2. CASE calling # NotCalling
    <3>1. CallsReachTheReady /\ CallsFitTheProtocol /\ (calling.proxy => calling.to \in Nodes)
      BY <2>2 DEF WiringInv, CallInv
    <3>2. CallsReachTheReady'
      BY <3>1 DEF CallsReachTheReady
    <3>3. CallsFitTheProtocol'
      BY <3>1, SameDeclarations DEF CallsFitTheProtocol, DeclaredVars
    <3> QED BY <3>1, <3>2, <3>3, SameDeclarations DEF CallInv
  <2> QED BY <2>1, <2>2
<1> QED
  BY <1>1, <1>2, <1>3, <1>4 DEF WiringInv

LEMMA HookInstanceKeeps ==
  ASSUME WiringInv, NEW c, HookInstance(c)
  PROVE  WiringInv'
<1>1. /\ UNCHANGED DeclaredVars /\ wiring = "hooking" /\ wiring' = wiring
      /\ pointers' = pointers /\ calling' = calling /\ c \in prebuilt \ hooked.instances
      /\ hooked' = [hooked EXCEPT !.instances = @ \cup {c}]
  BY DEF HookInstance, DeclaredVars
<1>2. HooksInv
  BY DEF WiringInv
<1>3. hooked.components = {}
  BY <1>1, <1>2 DEF HooksInv
<1>4. /\ hooked'.components = {} /\ hooked.instances \subseteq hooked'.instances
      /\ hooked' \in [instances : SUBSET prebuilt, components : SUBSET Nodes]
  BY <1>1, <1>2, <1>3 DEF HooksInv
<1>5. HooksInv'
  BY <1>1, <1>4, SameDeclarations DEF HooksInv, DeclaredVars
<1> QED
  BY <1>1, <1>3, <1>4, <1>5, HooksGrow

LEMMA HookComponentKeeps ==
  ASSUME WiringInv, NEW c, HookComponent(c)
  PROVE  WiringInv'
<1>1. /\ UNCHANGED DeclaredVars /\ wiring = "hooking" /\ wiring' = wiring
      /\ pointers' = pointers /\ calling' = calling /\ c \in Nodes \ hooked.components
      /\ hooked.instances = prebuilt /\ RuleEdges(c) \subseteq hooked.components
      /\ hooked' = [hooked EXCEPT !.components = @ \cup {c}]
  BY DEF HookComponent, DeclaredVars
<1>2. HooksInv
  BY DEF WiringInv
<1>3. /\ hooked' \in [instances : SUBSET prebuilt, components : SUBSET Nodes]
      /\ hooked'.components = hooked.components \cup {c} /\ hooked'.instances = prebuilt
  BY <1>1, <1>2 DEF HooksInv
<1>4. \A d \in hooked'.components : RuleEdges(d) \subseteq hooked'.components
  BY <1>1, <1>2, <1>3 DEF HooksInv
<1>5. HooksInv'
  BY <1>1, <1>3, <1>4, SameDeclarations DEF HooksInv, DeclaredVars
<1> QED
  BY <1>1, <1>3, <1>5, HooksGrow

LEMMA AllStartedKeeps ==
  ASSUME WiringInv, AllStarted
  PROVE  WiringInv'
<1>1. /\ UNCHANGED DeclaredVars /\ wiring = "hooking" /\ wiring' = "running"
      /\ hooked.instances = prebuilt /\ hooked.components = Nodes /\ calling = NotCalling
      /\ pointers' = pointers /\ hooked' = hooked /\ calling' = calling
  BY DEF AllStarted, DeclaredVars
<1>2. BindingsInv /\ HooksInv /\ AcceptedInv
  BY <1>1 DEF WiringInv
<1>3. BindingsInv' /\ HooksInv'
  BY <1>1, <1>2, SameDeclarations DEF HooksInv, DeclaredVars
<1>4. AcceptedInv'
  BY <1>1, <1>2, SameDeclarations DEF AcceptedInv, DeclaredVars
<1>5. CallInv' /\ AcceptedIsComplete'
  BY <1>1 DEF CallInv, NotCalling, AcceptedIsComplete
<1> QED
  BY <1>1, <1>3, <1>4, <1>5 DEF WiringInv

(* A pointer only ever points within its tuple; a call that has looked its *)
(* target up keeps it.                                                     *)
LEMMA PointKeeps ==
  ASSUME WiringInv, NEW f, Point(f), DOMAIN f = DOMAIN pointers,
         \A i \in DOMAIN f : f[i] \in ImplsIn(i)
  PROVE  WiringInv'
<1>1. /\ UNCHANGED DeclaredVars /\ wiring = "running" /\ wiring' = wiring
      /\ pointers' = f /\ hooked' = hooked /\ calling' = calling
  BY DEF Point, DeclaredVars
<1>2. BindingsInv /\ HooksInv /\ AcceptedInv /\ CallInv
  BY <1>1 DEF WiringInv
<1>3. BindingsInv' /\ HooksInv'
  BY <1>1, <1>2, SameDeclarations DEF HooksInv, DeclaredVars
<1>4. AcceptedInv'
  BY <1>1, <1>2, SameDeclarations DEF AcceptedInv, DeclaredVars
<1>5. CallInv'
  <2>1. CASE calling = NotCalling
    BY <1>1, <2>1 DEF CallInv, NotCalling
  <2>2. CASE calling # NotCalling
    <3>1. CallsReachTheReady /\ CallsFitTheProtocol /\ (calling.proxy => calling.to \in Nodes)
      BY <1>2, <2>2 DEF CallInv
    <3>2. CallsReachTheReady'
      BY <1>1, <3>1 DEF CallsReachTheReady
    <3>3. CallsFitTheProtocol'
      BY <1>1, <3>1, SameDeclarations DEF CallsFitTheProtocol, DeclaredVars
    <3> QED BY <1>1, <3>1, <3>2, <3>3, SameDeclarations DEF CallInv
  <2> QED BY <2>1, <2>2
<1>6. AcceptedIsComplete'
  BY <1>1 DEF AcceptedIsComplete
<1> QED
  BY <1>1, <1>3, <1>4, <1>5, <1>6 DEF WiringInv

LEMMA LookUpKeeps ==
  ASSUME WiringInv, NEW u \in hooked.components, NEW p \in HintsOf(u), LookUp(u, p)
  PROVE  WiringInv'
<1> DEFINE d == ResolvedType(p.type)
<1>1. /\ UNCHANGED DeclaredVars /\ wiring \in {"hooking", "running"} /\ wiring' = wiring
      /\ pointers' = pointers /\ hooked' = hooked /\ d \in Passed(u)
      /\ UNCHANGED <<declared, dynamic, prebuilt, wiring, pointers, hooked>>
  BY DEF LookUp, DeclaredVars
<1>2. calling' = [by |-> u, asked |-> p.type, proxy |-> d \in Proxied,
                  to |-> IF d \in Proxied THEN pointers[d] ELSE d]
  BY DEF LookUp
<1>3. BindingsInv /\ HooksInv /\ AcceptedInv /\ AcceptedIsComplete
  BY <1>1 DEF WiringInv
<1>4. CallInv'
  <2> DEFINE e == d
  <2>1. e = ResolvedType(p.type)
    OBVIOUS
  <2> HIDE DEF e
  <2> QED BY <1>1, <1>2, <1>3, <2>1, LookUpIsSound
<1>5. BindingsInv' /\ HooksInv' /\ AcceptedInv' /\ AcceptedIsComplete'
  BY <1>1, <1>3, SameDeclarations DEF HooksInv, AcceptedInv, DeclaredVars, AcceptedIsComplete
<1> QED
  BY <1>1, <1>4, <1>5 DEF WiringInv

LEMMA ReturnsKeeps ==
  ASSUME WiringInv, Returns
  PROVE  WiringInv'
<1>1. /\ UNCHANGED DeclaredVars /\ wiring' = wiring /\ pointers' = pointers
      /\ hooked' = hooked /\ calling' = NotCalling
  BY DEF Returns, DeclaredVars
<1>2. BindingsInv' /\ HooksInv'
  BY <1>1, SameDeclarations DEF WiringInv, HooksInv, DeclaredVars
<1>3. AcceptedInv => AcceptedInv'
  BY <1>1, SameDeclarations DEF AcceptedInv, DeclaredVars
<1>4. AcceptedIsComplete'
  BY <1>1, SameDeclarations DEF WiringInv, AcceptedIsComplete, DeclaredVars
<1>5. CallInv'
  BY <1>1 DEF CallInv, NotCalling
<1> QED
  BY <1>1, <1>2, <1>3, <1>4, <1>5 DEF WiringInv

LEMMA SettledSteps ==
  ASSUME WiringInv,
         \/ \E c \in Types : HookInstance(c) \/ HookComponent(c)
         \/ Build \/ Construct \/ AllStarted \/ Returns
         \/ \E u \in hooked.components : \E p \in HintsOf(u) : LookUp(u, p)
  PROVE  WiringInv'
BY HookInstanceKeeps, HookComponentKeeps, BuildKeeps, ConstructKeeps, AllStartedKeeps,
   ReturnsKeeps, LookUpKeeps

LEMMA DeclaringSteps ==
  ASSUME WiringInv,
         \/ \E p \in DOMAIN Packages : Scan(p)
         \/ \E s \in Exclusions : ExcludeSegments(s)
         \/ \E i \in Types : KindOf[i] = "protocol" /\ \E t \in BindTargets : Bind(i, t)
         \/ \E c \in Registered : Register(c)
         \/ \E f \in Factories : Configure(f)
         \/ \E r \in Rules : Order(r)
  PROVE  WiringInv'
<1>1. ASSUME NEW p \in DOMAIN Packages, Scan(p) PROVE WiringInv'
  <2> DEFINE d == [declared EXCEPT !.packages = @ \cup {p}]
  <2>1. Declare(d) /\ d.bindings = declared.bindings /\ IsDeclaration(d)
    BY <1>1 DEF Scan, WiringInv, BindingsInv, IsDeclaration
  <2> HIDE DEF d
  <2> QED BY <2>1, DeclareKeeps DEF WiringInv, BindingsInv
<1>2. ASSUME NEW s \in Exclusions, ExcludeSegments(s) PROVE WiringInv'
  <2> DEFINE x == [said |-> TRUE, segments |-> s]
             d == [declared EXCEPT !.excluded = x]
  <2>1. Declare(d)
    BY <1>2 DEF ExcludeSegments
  <2> HIDE DEF x
  <2>2. d.bindings = declared.bindings /\ IsDeclaration(d)
    BY DEF WiringInv, BindingsInv, IsDeclaration
  <2> HIDE DEF d
  <2> QED BY <2>1, <2>2, DeclareKeeps DEF WiringInv, BindingsInv
<1>3. ASSUME NEW c \in Registered, Register(c) PROVE WiringInv'
  <2> DEFINE d == [declared EXCEPT !.explicit = @ \cup {c}]
  <2>1. Declare(d) /\ d.bindings = declared.bindings /\ IsDeclaration(d)
    BY <1>3 DEF Register, WiringInv, BindingsInv, IsDeclaration
  <2> HIDE DEF d
  <2> QED BY <2>1, DeclareKeeps DEF WiringInv, BindingsInv
<1>4. ASSUME NEW f \in Factories, Configure(f) PROVE WiringInv'
  <2> DEFINE d == [declared EXCEPT !.factories = Append(@, f)]
  <2>1. Declare(d) /\ d.bindings = declared.bindings /\ IsDeclaration(d)
    BY <1>4 DEF Configure, WiringInv, BindingsInv, IsDeclaration
  <2> HIDE DEF d
  <2> QED BY <2>1, DeclareKeeps DEF WiringInv, BindingsInv
<1>5. ASSUME NEW r \in Rules, Order(r) PROVE WiringInv'
  <2> DEFINE d == [declared EXCEPT !.rules = @ \cup {r}]
  <2>1. Declare(d) /\ d.bindings = declared.bindings /\ IsDeclaration(d)
    BY <1>5 DEF Order, WiringInv, BindingsInv, IsDeclaration
  <2> HIDE DEF d
  <2> QED BY <2>1, DeclareKeeps DEF WiringInv, BindingsInv
<1>6. ASSUME NEW i \in Types, KindOf[i] = "protocol", NEW t \in BindTargets, Bind(i, t)
      PROVE  WiringInv'
  <2> DEFINE b == [j \in DOMAIN declared.bindings \cup {i} |->
                     IF j = i THEN t ELSE declared.bindings[j]]
             d == [declared EXCEPT !.bindings = b]
  <2>1. \A j \in DOMAIN b : j \in Types /\ KindOf[j] = "protocol" /\ b[j] \in BindTargets
    BY <1>6 DEF WiringInv, BindingsInv
  <2>2. Declare(d)
    BY <1>6 DEF Bind
  <2> HIDE DEF b
  <2>3. d.bindings = b /\ IsDeclaration(d)
    BY DEF WiringInv, BindingsInv, IsDeclaration
  <2> HIDE DEF d
  <2> QED BY <2>1, <2>2, <2>3, DeclareKeeps
<1> QED
  BY <1>1, <1>2, <1>3, <1>4, <1>5, <1>6

LEMMA SwitcherSteps ==
  ASSUME WiringInv,
         \/ \E i, c \in Types : Use(i, c)
         \/ \E i \in Types : ResetPointer(i)
         \/ ResetPointers
  PROVE  WiringInv'
<1>1. (\E f : Point(f)) => AcceptedInv /\ BindingsInv
  BY DEF Point, WiringInv
<1>2. ASSUME AcceptedInv, BindingsInv PROVE \A i \in DOMAIN pointers : Impls(i)[1] \in ImplsIn(i)
  BY <1>2, ImplsHaveFirst DEF AcceptedInv, Tuples
<1>3. ASSUME NEW i \in Types, NEW c \in Types, Use(i, c) PROVE WiringInv'
  <2>1. /\ i \in DOMAIN pointers /\ c \in ImplsIn(i) /\ Point([pointers EXCEPT ![i] = c])
        /\ AcceptedInv
    BY <1>1, <1>3 DEF Use
  <2> DEFINE f == [pointers EXCEPT ![i] = c]
  <2>2. DOMAIN f = DOMAIN pointers /\ \A j \in DOMAIN f : f[j] \in ImplsIn(j)
    BY <2>1 DEF AcceptedInv
  <2> HIDE DEF f
  <2> QED BY <2>1, <2>2, PointKeeps DEF f
<1>4. ASSUME NEW i \in Types, ResetPointer(i) PROVE WiringInv'
  <2>1. /\ i \in DOMAIN pointers /\ Point([pointers EXCEPT ![i] = Impls(i)[1]])
        /\ AcceptedInv /\ BindingsInv
    BY <1>1, <1>4 DEF ResetPointer
  <2> DEFINE f == [pointers EXCEPT ![i] = Impls(i)[1]]
  <2>2. DOMAIN f = DOMAIN pointers /\ \A j \in DOMAIN f : f[j] \in ImplsIn(j)
    BY <1>2, <2>1 DEF AcceptedInv
  <2> HIDE DEF f
  <2> QED BY <2>1, <2>2, PointKeeps DEF f
<1>5. ASSUME ResetPointers PROVE WiringInv'
  <2> DEFINE f == [i \in DOMAIN pointers |-> Impls(i)[1]]
  <2>1. Point(f) /\ AcceptedInv /\ BindingsInv
    BY <1>1, <1>5 DEF ResetPointers
  <2>2. DOMAIN f = DOMAIN pointers /\ \A j \in DOMAIN f : f[j] \in ImplsIn(j)
    BY <1>2, <2>1 DEF AcceptedInv
  <2> HIDE DEF f
  <2> QED BY <2>1, <2>2, PointKeeps
<1> QED
  BY <1>3, <1>4, <1>5

(* Whatever is declared, bound, switched and called: an accepted graph can *)
(* be constructed and hooked in order, and a call reaches a component that *)
(* is ready and fits its Protocol (core/container, core/config/binding.py).*)
THEOREM WiringStaysSound == WiringSpec => []WiringIsSound
<1>1. WiringInit => WiringInv
  <2> SUFFICES ASSUME WiringInit PROVE WiringInv
    OBVIOUS
  <2>1. wiring = "declaring" /\ calling = NotCalling
        /\ hooked = [instances |-> {}, components |-> {}]
    BY DEF WiringInit
  <2>2. DOMAIN declared.bindings = {} /\ IsDeclaration(declared)
    BY DEF WiringInit, IsDeclaration
  <2>3. HooksInv /\ BindingsInv
    BY <2>1, <2>2 DEF HooksInv, BindingsInv
  <2> QED
    BY <2>1, <2>3 DEF WiringInv, CallInv, AcceptedIsComplete
<1>2. WiringInv /\ [WiringNext]_wiringVars => WiringInv'
  <2> SUFFICES ASSUME WiringInv, [WiringNext]_wiringVars PROVE WiringInv'
    OBVIOUS
  <2>1. CASE WiringNext
    BY <2>1, SettledSteps, DeclaringSteps, SwitcherSteps DEF WiringNext
  <2>2. CASE UNCHANGED wiringVars
    <3>1. /\ UNCHANGED DeclaredVars /\ wiring' = wiring /\ pointers' = pointers
          /\ hooked' = hooked /\ calling' = calling
      BY <2>2 DEF wiringVars, DeclaredVars
    <3>2. BindingsInv' /\ HooksInv' /\ (AcceptedInv' <=> AcceptedInv)
          /\ (AcceptedIsComplete' <=> AcceptedIsComplete)
      BY <3>1, SameDeclarations
      DEF WiringInv, HooksInv, AcceptedInv, DeclaredVars, AcceptedIsComplete
    <3>3. CallsReachTheReady' = CallsReachTheReady /\ CallsFitTheProtocol' = CallsFitTheProtocol
      BY <3>1, SameDeclarations DEF CallsReachTheReady, CallsFitTheProtocol, DeclaredVars
    <3>4. CallInv' <=> CallInv
      BY <3>1, <3>3, SameDeclarations DEF CallInv
    <3> QED BY <3>1, <3>2, <3>4 DEF WiringInv
  <2> QED BY <2>1, <2>2
<1>3. WiringInv => WiringIsSound
  BY DEF WiringInv, WiringIsSound, CallInv, CallsReachTheReady, CallsFitTheProtocol
<1> QED
  BY <1>1, <1>2, <1>3, PTL DEF WiringSpec

----------------------------------------------------------------------------
(* Objects and their downloads                                             *)

ClientState ==
  [stage : {"idle", "answered", "reading", "complete"}, got : Seq(PutTasks),
   etag : PutTasks \union {NoObject}, file : PutTasks \union {NoObject},
   at : Nat, left : Nat, calm : BOOLEAN, requests : Nat]

StorageTypes ==
  /\ object \in PutTasks \union {NoObject} /\ parts \subseteq PutTasks
  /\ chunks \in [PutTasks -> Nat] /\ \A p \in PutTasks : chunks[p] <= SizeOf[p]
  /\ putter \in [PutTasks -> {"new", "writing", "publishing", "done", "failed", "cancelled"}]
  /\ behind \subseteq PutTasks
  /\ download \in [DownloadTasks -> ClientState]

(* What is to be renamed has been written to its end, and what is under the *)
(* object's name was renamed there; who gave up has nothing to rename.      *)
PutsInv ==
  /\ \A p \in PutTasks :
       putter[p] \in {"publishing", "done", "cancelled"} => chunks[p] = SizeOf[p]
  /\ \A p \in behind : putter[p] = "cancelled"
  /\ object # NoObject => putter[object] \in {"done", "cancelled"}
  /\ \A p \in parts : putter[p] \in {"writing", "publishing", "cancelled"}

(* A response counts on from what its client holds to the size its          *)
(* validator names; a calm one reads the object of that validator.          *)
ResponseFits(x) ==
  /\ x.stage \in {"answered", "reading", "complete"} =>
       x.etag \in PutTasks /\ x.at = Len(x.got) /\ x.left = SizeOf[x.etag] - x.at
  /\ x.stage = "reading" => x.file \in PutTasks
  /\ x.stage = "complete" => x.left = 0
  /\ x.calm => /\ \A i \in DOMAIN x.got : x.got[i] = x.etag
               /\ x.stage = "answered" => object = x.etag
               /\ x.stage = "reading" => x.file = x.etag

StorageInv == StorageTypes /\ PutsInv /\ \A d \in DownloadTasks : ResponseFits(download[d])

LEMMA StorageInitInv == StorageInit => StorageInv
<1> SUFFICES ASSUME StorageInit PROVE StorageInv
  OBVIOUS
<1>1. download \in [DownloadTasks -> ClientState]
  BY DEF StorageInit, ClientState
<1>2. \A p \in PutTasks : 0 <= SizeOf[p] /\ SizeOf[p] \in Nat
  BY StorageAssumption
<1>3. StorageTypes
  BY <1>1, <1>2 DEF StorageInit, StorageTypes
<1>4. \A d \in DownloadTasks : ResponseFits(download[d])
  BY DEF StorageInit, ResponseFits
<1> QED
  BY <1>3, <1>4 DEF StorageInit, StorageInv, PutsInv

(* The steps of a put leave the object and the downloads alone until it is  *)
(* published.                                                               *)
LEMMA PutsKeep ==
  ASSUME StorageInv, NEW p \in PutTasks,
         OpensPart(p) \/ PutWrites(p) \/ ClosesPart(p) \/ GivesUp(p) \/ CancelledLate(p)
  PROVE  StorageInv'
<1>1. UNCHANGED <<object, download>>
  BY DEF OpensPart, PutWrites, ClosesPart, GivesUp, CancelledLate
<1>2. \A d \in DownloadTasks : ResponseFits(download[d])'
  BY <1>1 DEF StorageInv, ResponseFits
<1>3. CASE PutWrites(p)
  <2>1. chunks' \in [PutTasks -> Nat] /\ \A q \in PutTasks : chunks'[q] <= SizeOf[q]
    <3>1. chunks \in [PutTasks -> Nat] /\ SizeOf[p] \in Nat /\ chunks[p] < SizeOf[p]
      BY <1>3, StorageAssumption DEF StorageInv, StorageTypes, PutWrites
    <3>2. chunks' = [chunks EXCEPT ![p] = chunks[p] + 1]
      BY <1>3 DEF PutWrites
    <3> QED
      BY <3>1, <3>2 DEF StorageInv, StorageTypes
  <2> QED
    BY <1>2, <1>3, <2>1 DEF StorageInv, StorageTypes, PutsInv, PutWrites
<1>4. CASE OpensPart(p) \/ ClosesPart(p) \/ GivesUp(p) \/ CancelledLate(p)
  <2>1. UNCHANGED chunks
    BY <1>4 DEF OpensPart, ClosesPart, GivesUp, CancelledLate
  <2>2. StorageTypes'
    BY <1>1, <1>4, <2>1
       DEF StorageInv, StorageTypes, OpensPart, ClosesPart, GivesUp, CancelledLate, Unlink
  <2>3. PutsInv'
    BY <1>1, <1>4, <2>1
       DEF StorageInv, StorageTypes, PutsInv, OpensPart, ClosesPart, MayClose, GivesUp, CancelledLate,
           Unlink
  <2> QED
    BY <1>2, <2>2, <2>3 DEF StorageInv
<1> QED
  BY <1>3, <1>4

(* Whoever was told of the object and has not opened it is disturbed.       *)
LEMMA DisturbedFits ==
  ASSUME StorageInv, download' = Disturbed
  PROVE  /\ download' \in [DownloadTasks -> ClientState]
         /\ \A d \in DownloadTasks : ResponseFits(download[d])'
<1>1. download' \in [DownloadTasks -> ClientState]
  BY ZenonT(60) DEF StorageInv, StorageTypes, ClientState, Disturbed
<1>2. ASSUME NEW d \in DownloadTasks PROVE ResponseFits(download[d])'
  <2>1. download[d] \in ClientState /\ ResponseFits(download[d])
    BY DEF StorageInv, StorageTypes
  <2>2. CASE download[d].stage = "answered"
    <3>1. download'[d] = [download[d] EXCEPT !.calm = FALSE]
      BY <2>2 DEF Disturbed
    <3> QED
      BY <2>1, <2>2, <3>1 DEF ResponseFits, ClientState
  <2>3. CASE download[d].stage # "answered"
    <3>1. download'[d] = download[d]
      BY <2>3 DEF Disturbed
    <3> QED
      BY <2>1, <2>3, <3>1 DEF ResponseFits, ClientState
  <2> QED
    BY <2>2, <2>3
<1> QED
  BY <1>1, <1>2

LEMMA ObjectChanges ==
  ASSUME StorageInv, DeletesObject \/ \E p \in PutTasks : Publishes(p)
  PROVE  StorageInv'
<1>1. download' = Disturbed
  BY DEF DeletesObject, Publishes
<1>2. CASE DeletesObject
  BY <1>1, <1>2, DisturbedFits DEF StorageInv, StorageTypes, PutsInv, DeletesObject
<1>3. ASSUME NEW p \in PutTasks, Publishes(p) PROVE StorageInv'
  <2>1. StorageTypes'
    BY <1>1, <1>3, DisturbedFits DEF StorageInv, StorageTypes, Publishes, Unlink
  <2>2. PutsInv'
    BY <1>3, StorageAssumption DEF StorageInv, StorageTypes, PutsInv, Publishes, Unlink
  <2> QED
    BY <1>1, <2>1, <2>2, DisturbedFits DEF StorageInv
<1> QED
  BY <1>2, <1>3

(* A step of one client that leaves it with a response that fits.           *)
LEMMA ClientSteps ==
  ASSUME StorageInv, NEW d \in DownloadTasks, NEW y \in ClientState,
         UNCHANGED <<object, parts, chunks, putter, behind>>,
         download' = [download EXCEPT ![d] = y], ResponseFits(y)
  PROVE  StorageInv'
<1>1. StorageTypes' /\ PutsInv'
  BY DEF StorageInv, StorageTypes, PutsInv
<1>2. \A e \in DownloadTasks : ResponseFits(download[e])'
  BY DEF StorageInv, StorageTypes, ResponseFits
<1> QED
  BY <1>1, <1>2 DEF StorageInv

LEMMA ServesFits ==
  ASSUME StorageInv, NEW d \in DownloadTasks, NEW kept \in Seq(PutTasks), NEW calm \in BOOLEAN,
         object \in PutTasks, Len(kept) <= SizeOf[object],
         calm => \A i \in DOMAIN kept : kept[i] = object,
         Serves(d, kept, calm), UNCHANGED <<object, parts, chunks, putter, behind>>
  PROVE  StorageInv'
<1> DEFINE y == [download[d] EXCEPT !.stage = "answered", !.etag = object, !.got = kept,
                   !.at = Len(kept), !.left = SizeOf[object] - Len(kept),
                   !.calm = calm, !.requests = download[d].requests + 1]
<1>1. download[d] \in ClientState /\ SizeOf[object] \in Nat /\ Len(kept) \in Nat
  BY StorageAssumption DEF StorageInv, StorageTypes
<1>2. y \in ClientState
  <2>1. SizeOf[object] - Len(kept) \in Nat /\ download[d].requests + 1 \in Nat
    BY <1>1 DEF ClientState
  <2> QED
    BY <1>1, <2>1 DEF ClientState
<1>3. ResponseFits(y)
  BY <1>1 DEF ResponseFits, ClientState
<1>4. download' = [download EXCEPT ![d] = y]
  BY DEF Serves
<1> HIDE DEF y
<1> QED
  BY <1>2, <1>3, <1>4, ClientSteps

LEMMA RefusesFits ==
  ASSUME StorageInv, NEW d \in DownloadTasks, Refuses(d),
         UNCHANGED <<object, parts, chunks, putter, behind>>
  PROVE  StorageInv'
<1> DEFINE y == [download[d] EXCEPT !.requests = @ + 1]
<1>1. download[d] \in ClientState /\ ResponseFits(download[d])
  BY DEF StorageInv, StorageTypes
<1>2. y \in ClientState /\ ResponseFits(y)
  BY <1>1 DEF ClientState, ResponseFits
<1>3. download' = [download EXCEPT ![d] = y]
  BY DEF Refuses
<1> HIDE DEF y
<1> QED
  BY <1>2, <1>3, ClientSteps

LEMMA RequestsKeep ==
  ASSUME StorageInv, NEW d \in DownloadTasks, DownloadAsked(d) \/ Resume(d)
  PROVE  StorageInv'
<1>1. UNCHANGED <<object, parts, chunks, putter, behind>>
  BY DEF DownloadAsked, Resume
<1>2. download[d] \in ClientState /\ ResponseFits(download[d])
  BY DEF StorageInv, StorageTypes
<1>3. object # NoObject => object \in PutTasks /\ SizeOf[object] \in Nat
  BY StorageAssumption DEF StorageInv, StorageTypes
<1>4. CASE Refuses(d)
  BY <1>1, <1>4, RefusesFits
<1>5. CASE object # NoObject /\ Serves(d, <<>>, TRUE)
  <2>1. <<>> \in Seq(PutTasks) /\ Len(<<>>) = 0 /\ DOMAIN <<>> = {}
    OBVIOUS
  <2>2. TRUE => \A i \in DOMAIN <<>> : <<>>[i] = object
    BY <2>1
  <2>3. Len(<<>>) <= SizeOf[object] /\ object \in PutTasks
    BY <1>3, <1>5, <2>1
  <2>4. Serves(d, <<>>, TRUE)
    BY <1>5
  <2> QED
    BY <1>1, <2>1, <2>2, <2>3, <2>4, ServesFits
<1>6. CASE /\ object # NoObject /\ SameVersion(d) /\ Len(download[d].got) < SizeOf[object]
           /\ Serves(d, download[d].got, download[d].calm)
  <2>1. download[d].got \in Seq(PutTasks) /\ download[d].calm \in BOOLEAN
    BY <1>2 DEF ClientState
  <2>2. download[d].calm => \A i \in DOMAIN download[d].got : download[d].got[i] = object
    BY <1>2, <1>6 DEF ResponseFits, SameVersion
  <2>3. Len(download[d].got) <= SizeOf[object]
    BY <1>3, <1>6, <2>1
  <2> QED
    BY <1>1, <1>3, <1>6, <2>1, <2>2, <2>3, ServesFits
<1> QED
  BY <1>4, <1>5, <1>6 DEF DownloadAsked, Resume

LEMMA ReadingKeeps ==
  ASSUME StorageInv, NEW d \in DownloadTasks,
         OpensObject(d) \/ ReadsChunk(d) \/ EndsBody(d) \/ ConnectionBreaks(d)
  PROVE  StorageInv'
<1> DEFINE x == download[d]
<1>1. UNCHANGED <<object, parts, chunks, putter, behind>>
  BY DEF OpensObject, ReadsChunk, EndsBody, ConnectionBreaks
<1>2. x \in ClientState /\ ResponseFits(x) /\ object \in PutTasks \union {NoObject}
  BY DEF StorageInv, StorageTypes
<1>3. x.etag \in PutTasks => SizeOf[x.etag] \in Nat
  BY StorageAssumption
<1>4. CASE OpensObject(d)
  <2> DEFINE y == [x EXCEPT !.file = object,
                            !.stage = IF object = NoObject THEN "idle" ELSE "reading"]
  <2>1. download' = [download EXCEPT ![d] = y]
    BY <1>4 DEF OpensObject, StorageInv, StorageTypes, ClientState
  <2>2. y \in ClientState /\ ResponseFits(y)
    BY <1>2, <1>4 DEF OpensObject, ResponseFits, ClientState
  <2> HIDE DEF y
  <2> QED
    BY <1>1, <2>1, <2>2, ClientSteps
<1>5. CASE ReadsChunk(d)
  <2> DEFINE y == [x EXCEPT !.got = Append(@, x.file), !.at = @ + 1, !.left = @ - 1]
  <2>1. download' = [download EXCEPT ![d] = y]
    BY <1>5 DEF ReadsChunk
  <2>2. x.file \in PutTasks /\ x.got \in Seq(PutTasks) /\ x.left \in Nat /\ x.left > 0 /\ x.at \in Nat
    BY <1>2, <1>5 DEF ReadsChunk, ResponseFits, ClientState
  <2>3. y \in ClientState
    <3>1. Append(x.got, x.file) \in Seq(PutTasks) /\ x.at + 1 \in Nat /\ x.left - 1 \in Nat
      BY <2>2
    <3> QED
      BY <1>2, <3>1 DEF ClientState
  <2>4. Len(y.got) = Len(x.got) + 1 /\ y.got = Append(x.got, x.file)
    BY <1>2, <2>2 DEF ClientState
  <2>5. x.calm => \A i \in DOMAIN y.got : y.got[i] = x.etag
    BY <1>2, <1>5, <2>2, <2>4 DEF ResponseFits, ClientState, ReadsChunk
  <2>6. ResponseFits(y)
    <3>1. /\ y.stage = "reading" /\ y.etag = x.etag /\ y.file = x.file /\ y.calm = x.calm
          /\ y.at = x.at + 1 /\ y.left = x.left - 1
      BY <1>2, <1>5 DEF ClientState, ReadsChunk
    <3>2. x.etag \in PutTasks /\ x.at = Len(x.got) /\ x.left = SizeOf[x.etag] - x.at
      BY <1>2, <1>5 DEF ResponseFits, ReadsChunk
    <3> HIDE DEF y
    <3> QED
      BY <1>2, <1>3, <1>5, <2>2, <2>4, <2>5, <3>1, <3>2 DEF ResponseFits, ReadsChunk
  <2> HIDE DEF y
  <2> QED
    BY <1>1, <2>1, <2>3, <2>6, ClientSteps
<1>6. CASE EndsBody(d)
  <2> DEFINE y == [x EXCEPT !.stage = IF x.left = 0 THEN "complete" ELSE "idle"]
  <2>1. download' = [download EXCEPT ![d] = y]
    BY <1>6 DEF EndsBody
  <2>2. y \in ClientState /\ ResponseFits(y)
    BY <1>2, <1>6 DEF EndsBody, ResponseFits, ClientState
  <2> HIDE DEF y
  <2> QED
    BY <1>1, <2>1, <2>2, ClientSteps
<1>7. CASE ConnectionBreaks(d)
  <2> DEFINE y == [x EXCEPT !.stage = "idle"]
  <2>1. download' = [download EXCEPT ![d] = y]
    BY <1>7 DEF ConnectionBreaks
  <2>2. y \in ClientState /\ ResponseFits(y)
    BY <1>2, <1>7 DEF ConnectionBreaks, ResponseFits, ClientState
  <2> HIDE DEF y
  <2> QED
    BY <1>1, <2>1, <2>2, ClientSteps
<1> QED
  BY <1>4, <1>5, <1>6, <1>7

LEMMA StorageNextInv == StorageInv /\ [StorageNext]_storageVars => StorageInv'
<1> SUFFICES ASSUME StorageInv, [StorageNext]_storageVars PROVE StorageInv'
  OBVIOUS
<1>1. CASE UNCHANGED storageVars
  BY <1>1 DEF storageVars, StorageInv, StorageTypes, PutsInv, ResponseFits
<1>2. CASE StorageNext
  BY <1>2, PutsKeep, ObjectChanges, RequestsKeep, ReadingKeeps DEF StorageNext
<1> QED
  BY <1>1, <1>2

(* What is under an object's name is whole, and so is a download that was   *)
(* pieced together over broken connections, for any number of puts and      *)
(* clients (_storage.py:152-183, _download.py:134-137, 182-193).            *)
THEOREM StorageStaysSound == StorageSpec => []StorageIsSound
<1>1. StorageInv => StorageIsSound
  <2> SUFFICES ASSUME StorageInv PROVE StorageIsSound
    OBVIOUS
  <2>1. ObjectsAreWhole
    BY StorageAssumption DEF StorageInv, StorageTypes, PutsInv, ObjectsAreWhole
  <2>2. DownloadsAreWhole
    <3> SUFFICES ASSUME NEW d \in DownloadTasks, download[d].stage = "complete", download[d].calm
                 PROVE  /\ \A i \in DOMAIN download[d].got : download[d].got[i] = download[d].etag
                        /\ Len(download[d].got) = SizeOf[download[d].etag]
      BY DEF DownloadsAreWhole
    <3>1. download[d] \in ClientState /\ ResponseFits(download[d])
      BY DEF StorageInv, StorageTypes
    <3>2. download[d].etag \in PutTasks => SizeOf[download[d].etag] \in Nat
      BY StorageAssumption
    <3> QED
      BY <3>1, <3>2 DEF ResponseFits, ClientState
  <2> QED
    BY <2>1, <2>2 DEF StorageIsSound
<1> QED
  BY <1>1, StorageInitInv, StorageNextInv, PTL DEF StorageSpec

----------------------------------------------------------------------------
(* The log file                                                            *)

LogItem == (Producer \X (Nat \ {0})) \union {Sentinel}

LogTypes ==
  /\ emitted \in [Producer -> Nat] /\ room \in Nat
  /\ buffer \in [Producer -> Seq(LogItem)] /\ pipe \in Seq(LogItem)
  /\ recorded \in Seq(LogItem) /\ jammed \in BOOLEAN
  /\ process \in [Producer -> {"logging", "closing", "closed", "killed"}]
  /\ process[Parent] # "killed"
  /\ writer \in [thread : {"running", "ended"}, stopping : BOOLEAN]
  /\ \A p \in Producer : emitted[p] <= MaxRecords

(* Every record that was emitted is somewhere on its way.                  *)
Buffered == UNION {Contents(buffer[p]) : p \in Producer}

NothingLost ==
  \A r \in Emitted :
    r \in Contents(recorded) \union dropped \union excused \union Contents(pipe) \union Buffered

Silent(p) == process[p] \in {"closed", "killed"} /\ buffer[p] = <<>>

(* The records of q come before those of s, if they are of one process.    *)
Before(q, s) ==
  \A i \in DOMAIN q, j \in DOMAIN s :
    q[i][1] = s[j][1] /\ s[j] # Sentinel => q[i][2] < s[j][2]

InOrderHere(q) ==
  \A i, j \in DOMAIN q :
    i < j /\ q[i][1] = q[j][1] /\ q[j] # Sentinel => q[i][2] < q[j][2]

StreamInv ==
  /\ InOrderHere(recorded) /\ InOrderHere(pipe) /\ Before(recorded, pipe)
  /\ Sentinel \notin Contents(recorded)
  /\ \A x \in Contents(recorded) \union Contents(pipe) : x[2] <= emitted[x[1]]
  /\ \A p \in Producer :
       /\ InOrderHere(buffer[p]) /\ Before(recorded, buffer[p]) /\ Before(pipe, buffer[p])
       /\ \A x \in Contents(buffer[p]) : x[1] = p /\ x[2] <= emitted[p]

(* The sentinel is the last that anybody writes.                           *)
LastOf(q) ==
  /\ q # <<>> /\ q[Len(q)] = Sentinel
  /\ \A i \in DOMAIN q : q[i] = Sentinel => i = Len(q)

NoBuffers == \A p \in Producer : buffer[p] = <<>>

SentinelInv ==
  /\ \A p \in Loggers : process[p] \in {"closed", "killed"} => buffer[p] = <<>>
  /\ process[Parent] = "logging" =>
       /\ writer.thread = "running" /\ ~writer.stopping
       /\ Sentinel \notin Contents(pipe)
       /\ \A p \in Producer : Sentinel \notin Contents(buffer[p])
  /\ process[Parent] # "logging" => WorkersGone
  /\ process[Parent] # "logging" /\ ~writer.stopping =>
       \/ writer.thread = "running" /\ Sentinel \notin Contents(pipe) /\ LastOf(buffer[Parent])
       \/ writer.thread = "running" /\ LastOf(pipe) /\ NoBuffers
       \/ writer.thread = "ended" /\ pipe = <<>> /\ NoBuffers
  /\ process[Parent] = "closed" /\ ~writer.stopping =>
       Emitted \subseteq Contents(recorded) \union dropped \union excused

LogInv == LogTypes /\ NothingLost /\ StreamInv /\ SentinelInv

----------------------------------------------------------------------------
LEMMA ContentsAppend ==
  ASSUME NEW S, NEW q \in Seq(S), NEW x \in S
  PROVE  Append(q, x) \in Seq(S) /\ Contents(Append(q, x)) = Contents(q) \union {x}
<1>1. /\ Append(q, x) \in Seq(S) /\ Len(q) \in Nat /\ DOMAIN q = 1 .. Len(q)
      /\ DOMAIN Append(q, x) = 1 .. Len(q) + 1 /\ Append(q, x)[Len(q) + 1] = x
      /\ \A i \in 1 .. Len(q) : Append(q, x)[i] = q[i]
  OBVIOUS
<1>2. \A i \in 1 .. Len(q) + 1 : Append(q, x)[i] \in Contents(q) \union {x}
  <2> TAKE i \in 1 .. Len(q) + 1
  <2>1. CASE i = Len(q) + 1
    BY <1>1, <2>1
  <2>2. CASE i # Len(q) + 1
    <3>1. i \in 1 .. Len(q)
      BY <1>1, <2>2
    <3> QED
      BY <1>1, <3>1 DEF Contents
  <2> QED
    BY <2>1, <2>2
<1>3. \A i \in 1 .. Len(q) : q[i] \in Contents(Append(q, x))
  BY <1>1 DEF Contents
<1>4. x \in Contents(Append(q, x))
  <2>1. Len(q) + 1 \in 1 .. Len(q) + 1
    BY <1>1
  <2> QED
    BY <1>1, <2>1 DEF Contents
<1> QED
  BY <1>1, <1>2, <1>3, <1>4 DEF Contents

LEMMA ContentsTail ==
  ASSUME NEW S, NEW q \in Seq(S), q # <<>>
  PROVE  /\ Head(q) \in S /\ Tail(q) \in Seq(S)
         /\ Contents(q) = {Head(q)} \union Contents(Tail(q))
<1>1. /\ Head(q) \in S /\ Tail(q) \in Seq(S) /\ Len(q) \in Nat \ {0}
      /\ Len(Tail(q)) = Len(q) - 1 /\ DOMAIN Tail(q) = 1 .. Len(q) - 1
      /\ \A i \in 1 .. Len(q) - 1 : Tail(q)[i] = q[i + 1]
      /\ Head(q) = q[1] /\ DOMAIN q = 1 .. Len(q)
  OBVIOUS
<1>2. Contents(q) \subseteq {Head(q)} \union Contents(Tail(q))
  <2>1. ASSUME NEW i \in 1 .. Len(q), i # 1 PROVE q[i] \in Contents(Tail(q))
    <3>1. i - 1 \in 1 .. Len(q) - 1 /\ (i - 1) + 1 = i
      BY <1>1, <2>1
    <3>2. Tail(q)[i - 1] = q[i]
      BY <1>1, <3>1
    <3> QED
      BY <1>1, <3>1, <3>2 DEF Contents
  <2> QED
    BY <1>1, <2>1 DEF Contents
<1>3. {Head(q)} \union Contents(Tail(q)) \subseteq Contents(q)
  BY <1>1 DEF Contents
<1> QED
  BY <1>1, <1>2, <1>3

LEMMA OrderAppend ==
  ASSUME NEW q \in Seq(LogItem), NEW x \in LogItem, InOrderHere(q),
         x # Sentinel => \A y \in Contents(q) : y[1] = x[1] => y[2] < x[2]
  PROVE  InOrderHere(Append(q, x))
<1>1. /\ DOMAIN Append(q, x) = 1 .. Len(q) + 1 /\ Append(q, x)[Len(q) + 1] = x /\ Len(q) \in Nat
      /\ \A i \in 1 .. Len(q) : Append(q, x)[i] = q[i]
      /\ DOMAIN q = 1 .. Len(q)
  OBVIOUS
<1> SUFFICES ASSUME NEW i \in 1 .. Len(q) + 1, NEW j \in 1 .. Len(q) + 1, i < j,
                    Append(q, x)[i][1] = Append(q, x)[j][1], Append(q, x)[j] # Sentinel
             PROVE  Append(q, x)[i][2] < Append(q, x)[j][2]
  BY <1>1 DEF InOrderHere
<1>2. i \in 1 .. Len(q)
  BY <1>1
<1>3. CASE j = Len(q) + 1
  BY <1>1, <1>2, <1>3 DEF Contents
<1>4. CASE j # Len(q) + 1
  <2>1. j \in 1 .. Len(q)
    BY <1>1, <1>4
  <2> QED
    BY <1>1, <1>2, <2>1 DEF InOrderHere
<1> QED
  BY <1>3, <1>4

LEMMA OrderTail ==
  ASSUME NEW q \in Seq(LogItem), q # <<>>, InOrderHere(q)
  PROVE  /\ InOrderHere(Tail(q))
         /\ \A y \in Contents(Tail(q)) : Head(q)[1] = y[1] /\ y # Sentinel => Head(q)[2] < y[2]
<1>1. /\ Len(q) \in Nat \ {0} /\ DOMAIN Tail(q) = 1 .. Len(q) - 1
      /\ \A i \in 1 .. Len(q) - 1 : Tail(q)[i] = q[i + 1] /\ i + 1 \in 1 .. Len(q)
      /\ Head(q) = q[1] /\ DOMAIN q = 1 .. Len(q) /\ 1 \in 1 .. Len(q)
  OBVIOUS
<1>2. InOrderHere(Tail(q))
  BY <1>1 DEF InOrderHere
<1>3. \A i \in 1 .. Len(q) - 1 :
        Head(q)[1] = Tail(q)[i][1] /\ Tail(q)[i] # Sentinel => Head(q)[2] < Tail(q)[i][2]
  BY <1>1 DEF InOrderHere
<1> QED
  BY <1>1, <1>2, <1>3 DEF Contents

LEMMA BeforeContents ==
  ASSUME NEW q, NEW s
  PROVE  Before(q, s) <=> \A x \in Contents(q), y \in Contents(s) :
                            x[1] = y[1] /\ y # Sentinel => x[2] < y[2]
BY DEF Before, Contents

LEMMA LastTail ==
  ASSUME NEW q \in Seq(LogItem), LastOf(q), Head(q) # Sentinel
  PROVE  LastOf(Tail(q))
<1>1. /\ Len(q) \in Nat \ {0} /\ DOMAIN Tail(q) = 1 .. Len(q) - 1 /\ Len(Tail(q)) = Len(q) - 1
      /\ \A i \in 1 .. Len(q) - 1 : Tail(q)[i] = q[i + 1] /\ i + 1 \in 1 .. Len(q)
      /\ Head(q) = q[1] /\ DOMAIN q = 1 .. Len(q)
  BY DEF LastOf
<1>2. Len(q) # 1
  BY <1>1 DEF LastOf
<1>3. Len(Tail(q)) # 0 /\ Len(q) - 1 \in 1 .. Len(q) - 1
  BY <1>1, <1>2
<1>4. Tail(q)[Len(q) - 1] = Sentinel
  BY <1>1, <1>3 DEF LastOf
<1>5. ASSUME NEW i \in 1 .. Len(q) - 1, Tail(q)[i] = Sentinel PROVE i = Len(q) - 1
  <2>1. i + 1 \in DOMAIN q /\ q[i + 1] = Sentinel
    BY <1>1, <1>5
  <2>2. i + 1 = Len(q)
    BY <2>1 DEF LastOf
  <2>3. Len(q) \in Nat /\ i \in Nat
    BY <1>1
  <2> QED
    BY <2>2, <2>3
<1>6. Tail(q) # <<>>
  <2>1. Len(<<>>) = 0
    OBVIOUS
  <2> QED
    BY <1>3, <2>1
<1> QED
  BY <1>1, <1>3, <1>4, <1>5, <1>6 DEF LastOf

LEMMA LastHead ==
  ASSUME NEW q \in Seq(LogItem), LastOf(q), Head(q) = Sentinel
  PROVE  Tail(q) = <<>>
<1>1. Len(q) \in Nat \ {0} /\ Head(q) = q[1] /\ DOMAIN q = 1 .. Len(q) /\ 1 \in 1 .. Len(q)
  BY DEF LastOf
<1>2. Len(q) = 1
  BY <1>1 DEF LastOf
<1> QED
  BY SMTT(20), <1>2

LEMMA LastAppend ==
  ASSUME NEW q \in Seq(LogItem), Sentinel \notin Contents(q)
  PROVE  LastOf(Append(q, Sentinel))
<1>1. /\ DOMAIN Append(q, Sentinel) = 1 .. Len(q) + 1 /\ Len(Append(q, Sentinel)) = Len(q) + 1
      /\ Append(q, Sentinel)[Len(q) + 1] = Sentinel /\ Len(q) \in Nat
      /\ \A i \in 1 .. Len(q) : Append(q, Sentinel)[i] = q[i]
      /\ DOMAIN q = 1 .. Len(q)
  BY DEF LogItem
<1>2. \A i \in 1 .. Len(q) : q[i] # Sentinel
  BY <1>1 DEF Contents
<1>3. Append(q, Sentinel) # <<>>
  BY <1>1
<1> QED
  BY <1>1, <1>2, <1>3 DEF LastOf

LEMMA LogInitInv == LogInit => LogInv
<1> SUFFICES ASSUME LogInit PROVE LogInv
  OBVIOUS
<1>1. <<>> \in Seq(LogItem) /\ Contents(<<>>) = {} /\ DOMAIN <<>> = {}
  BY DEF Contents
<1>2. LogTypes
  <2>1. Parent \in Producer /\ 0 <= MaxRecords
    BY LogAssumption DEF Producer
  <2>2. buffer \in [Producer -> Seq(LogItem)] /\ pipe \in Seq(LogItem) /\ recorded \in Seq(LogItem)
    BY <1>1 DEF LogInit
  <2>3. writer \in [thread : {"running", "ended"}, stopping : BOOLEAN]
    BY DEF LogInit
  <2> QED
    BY <2>1, <2>2, <2>3, LogAssumption DEF LogInit, LogTypes
<1>3. NothingLost
  BY DEF LogInit, NothingLost, Emitted, Records
<1>4. StreamInv
  BY <1>1 DEF LogInit, StreamInv, InOrderHere, Before
<1>5. SentinelInv
  BY <1>1 DEF LogInit, SentinelInv, Producer
<1> QED
  BY <1>2, <1>3, <1>4, <1>5 DEF LogInv

(* What the invariant says of places, in terms of what they contain.       *)
LEMMA StreamFacts ==
  ASSUME LogInv, NEW p \in Producer
  PROVE  /\ \A x \in Contents(recorded), y \in Contents(pipe) :
              x[1] = y[1] /\ y # Sentinel => x[2] < y[2]
         /\ \A x \in Contents(recorded), y \in Contents(buffer[p]) :
              x[1] = y[1] /\ y # Sentinel => x[2] < y[2]
         /\ \A x \in Contents(pipe), y \in Contents(buffer[p]) :
              x[1] = y[1] /\ y # Sentinel => x[2] < y[2]
BY BeforeContents DEF LogInv, StreamInv

LEMMA ItemNumbers ==
  ASSUME NEW q \in Seq(LogItem), NEW x \in Contents(q)
  PROVE  x \in LogItem /\ x[1] \in Producer /\ x[2] \in Nat /\ x = <<x[1], x[2]>>
<1>1. x \in LogItem
  BY DEF Contents
<1> QED
  BY <1>1 DEF LogItem, Sentinel, Producer

LEMMA EmitKeeps ==
  ASSUME LogInv, NEW p \in Producer, Emit(p)
  PROVE  LogInv'
<1> DEFINE r == <<p, emitted[p] + 1>>
<1>1. /\ emitted[p] \in Nat /\ emitted[p] < MaxRecords /\ process[p] = "logging"
      /\ emitted' = [emitted EXCEPT ![p] = emitted[p] + 1] /\ emitted \in [Producer -> Nat]
      /\ UNCHANGED <<pipe, jammed, recorded, excused, writer, process, kills>>
  BY DEF LogInv, LogTypes, Emit
<1>2. r \in LogItem /\ r # Sentinel /\ r[1] = p /\ r[2] = emitted[p] + 1
  BY <1>1 DEF LogItem, Sentinel
<1>3. \A s \in Emitted' : s = r \/ s \in Emitted
  BY <1>1, LogAssumption DEF Emitted, Records
<1>4. \A q \in Producer : emitted'[q] \in Nat /\ emitted'[q] >= emitted[q] /\ emitted'[q] <= MaxRecords
  BY <1>1, LogAssumption DEF LogInv, LogTypes
<1> HIDE DEF r
<1>5. CASE room > 0
  <2>1. room' = room - 1 /\ dropped' = dropped /\ buffer' = [buffer EXCEPT ![p] = Append(buffer[p], r)]
    BY <1>5 DEF Emit, r
  <2>2. /\ buffer[p] \in Seq(LogItem) /\ buffer'[p] = Append(buffer[p], r)
        /\ \A q \in Producer \ {p} : buffer'[q] = buffer[q]
    BY <2>1 DEF LogInv, LogTypes
  <2>3. buffer'[p] \in Seq(LogItem) /\ Contents(buffer'[p]) = Contents(buffer[p]) \union {r}
    BY <1>2, <2>2, ContentsAppend
  <2>4. LogTypes'
    BY <1>1, <1>4, <1>5, <2>1, <2>3 DEF LogInv, LogTypes
  <2>5. NothingLost'
    <3>1. Buffered \subseteq Buffered' /\ r \in Buffered'
      BY <2>2, <2>3 DEF Buffered
    <3> QED
      BY <1>1, <1>3, <2>1, <3>1 DEF LogInv, NothingLost
  <2>6. StreamInv'
    <3>1. \A x \in Contents(recorded) \union Contents(pipe) :
            x[1] \in Producer /\ x[2] \in Nat /\ x[2] <= emitted[x[1]]
      BY ItemNumbers DEF LogInv, LogTypes, StreamInv
    <3>2. \A x \in Contents(recorded) \union Contents(pipe) : x[2] <= emitted'[x[1]]
      <4> TAKE x \in Contents(recorded) \union Contents(pipe)
      <4>1. x[1] \in Producer /\ x[2] \in Nat /\ x[2] <= emitted[x[1]]
        BY <3>1
      <4>2. emitted'[x[1]] \in Nat /\ emitted'[x[1]] >= emitted[x[1]] /\ emitted[x[1]] \in Nat
        BY <1>1, <1>4, <4>1
      <4> QED
        BY <4>1, <4>2
    <3>3. \A q \in Producer : \A x \in Contents(buffer[q]) :
            x[1] = q /\ x[2] \in Nat /\ x[2] <= emitted[q] /\ x[2] <= emitted'[q]
      BY <1>1, <1>4, ItemNumbers DEF LogInv, LogTypes, StreamInv
    <3>4. InOrderHere(buffer'[p])
      <4>1. \A y \in Contents(buffer[p]) : y[2] < r[2]
        BY <1>1, <1>2, <3>3
      <4> QED
        BY <1>2, <2>2, <4>1, OrderAppend DEF LogInv, StreamInv
    <3>5. Before(recorded, buffer'[p]) /\ Before(pipe, buffer'[p])
      <4>1. \A x \in Contents(recorded) \union Contents(pipe) : x[1] = p => x[2] < r[2]
        BY <1>1, <1>2, <3>1
      <4> QED
        BY <1>2, <2>3, <4>1, StreamFacts, BeforeContents
    <3>6. \A x \in Contents(buffer'[p]) : x[1] = p /\ x[2] <= emitted'[p]
      BY <1>1, <1>2, <2>3, <3>3
    <3>7. \A q \in Producer :
            /\ InOrderHere(buffer'[q]) /\ Before(recorded, buffer'[q]) /\ Before(pipe, buffer'[q])
            /\ \A x \in Contents(buffer'[q]) : x[1] = q /\ x[2] <= emitted'[q]
      <4> TAKE q \in Producer
      <4>1. CASE q = p
        BY <3>4, <3>5, <3>6, <4>1
      <4>2. CASE q # p
        BY <2>2, <3>3, <4>2 DEF LogInv, StreamInv
      <4> QED
        BY <4>1, <4>2
    <3>8. UNCHANGED <<recorded, pipe>>
      BY <1>1
    <3> QED
      BY <3>2, <3>7, <3>8 DEF LogInv, StreamInv
  <2>7. SentinelInv'
    <3>1. p \in Loggers => process[Parent] = "logging"
      BY <1>1 DEF LogInv, SentinelInv, WorkersGone
    <3>2. process[Parent] = "logging"
      BY <1>1, <3>1 DEF Producer
    <3>3. \A q \in Producer : Sentinel \notin Contents(buffer'[q])
      BY <1>2, <2>2, <2>3, <3>2 DEF LogInv, SentinelInv
    <3>4. \A q \in Loggers : process'[q] \in {"closed", "killed"} => buffer'[q] = <<>>
      BY <1>1, <2>2 DEF LogInv, SentinelInv, Producer
    <3> QED
      BY <1>1, <3>2, <3>3, <3>4 DEF LogInv, SentinelInv
  <2> QED
    BY <2>4, <2>5, <2>6, <2>7 DEF LogInv
<1>6. CASE ~(room > 0)
  <2>1. UNCHANGED <<room, buffer>> /\ dropped' = dropped \union {r}
    BY <1>6 DEF Emit, r
  <2>2. LogTypes'
    BY <1>1, <1>4, <2>1 DEF LogInv, LogTypes
  <2>3. NothingLost'
    <3>1. Buffered' = Buffered
      BY <2>1 DEF Buffered
    <3> QED
      BY <1>1, <1>3, <2>1, <3>1 DEF LogInv, NothingLost
  <2>4. StreamInv'
    <3>1. \A x \in Contents(recorded) \union Contents(pipe) :
            x[1] \in Producer /\ x[2] \in Nat /\ x[2] <= emitted[x[1]]
      BY ItemNumbers DEF LogInv, LogTypes, StreamInv
    <3>2. \A q \in Producer : \A x \in Contents(buffer[q]) : x[2] \in Nat /\ x[2] <= emitted[q]
      BY ItemNumbers DEF LogInv, LogTypes, StreamInv
    <3>3. \A x \in Contents(recorded) \union Contents(pipe) : x[2] <= emitted'[x[1]]
      <4> TAKE x \in Contents(recorded) \union Contents(pipe)
      <4>1. x[1] \in Producer /\ x[2] \in Nat /\ x[2] <= emitted[x[1]]
        BY <3>1
      <4>2. emitted'[x[1]] \in Nat /\ emitted'[x[1]] >= emitted[x[1]] /\ emitted[x[1]] \in Nat
        BY <1>1, <1>4, <4>1
      <4> QED
        BY <4>1, <4>2
    <3>4. \A q \in Producer : \A x \in Contents(buffer[q]) : x[2] <= emitted'[q]
      BY <1>1, <1>4, <3>2
    <3>5. UNCHANGED <<recorded, pipe, buffer>>
      BY <1>1, <2>1
    <3> QED
      BY <3>3, <3>4, <3>5 DEF LogInv, StreamInv
  <2>5. SentinelInv'
    <3>1. p \in Loggers => process[Parent] = "logging"
      BY <1>1 DEF LogInv, SentinelInv, WorkersGone
    <3>2. process[Parent] = "logging"
      BY <1>1, <3>1 DEF Producer
    <3> QED
      BY <1>1, <2>1, <3>2 DEF LogInv, SentinelInv
  <2> QED
    BY <2>2, <2>3, <2>4, <2>5 DEF LogInv
<1> QED
  BY <1>5, <1>6

LEMMA FeedKeeps ==
  ASSUME LogInv, NEW p \in Producer, Feed(p)
  PROVE  LogInv'
<1> DEFINE h == Head(buffer[p])
<1>1. /\ buffer[p] # <<>> /\ buffer[p] \in Seq(LogItem) /\ pipe' = Append(pipe, h)
      /\ buffer' = [buffer EXCEPT ![p] = Tail(buffer[p])] /\ buffer \in [Producer -> Seq(LogItem)]
      /\ UNCHANGED <<emitted, room, jammed, recorded, dropped, excused, writer, process, kills>>
      /\ pipe \in Seq(LogItem)
  BY DEF LogInv, LogTypes, Feed
<1>2. /\ h \in LogItem /\ Tail(buffer[p]) \in Seq(LogItem)
      /\ Contents(buffer[p]) = {h} \union Contents(Tail(buffer[p]))
  BY <1>1, ContentsTail
<1>3. pipe' \in Seq(LogItem) /\ Contents(pipe') = Contents(pipe) \union {h}
  BY <1>1, <1>2, ContentsAppend
<1>4. buffer'[p] = Tail(buffer[p]) /\ \A q \in Producer \ {p} : buffer'[q] = buffer[q]
  BY <1>1
<1>5. h[1] = p /\ h[2] \in Nat /\ h[2] <= emitted[p]
  BY <1>1, <1>2, ItemNumbers DEF LogInv, StreamInv
<1> HIDE DEF h
<1>6. LogTypes'
  BY <1>1, <1>2, <1>3 DEF LogInv, LogTypes
<1>7. NothingLost'
  <2>1. \A x \in Buffered : x = h \/ x \in Buffered'
    BY <1>2, <1>4 DEF Buffered
  <2>2. Emitted' = Emitted
    BY <1>1 DEF Emitted
  <2> QED
    BY <1>1, <1>3, <2>1, <2>2 DEF LogInv, NothingLost
<1>8. StreamInv'
  <2>1. InOrderHere(pipe')
    <3>1. h # Sentinel => \A y \in Contents(pipe) : y[1] = h[1] => y[2] < h[2]
      BY <1>2, <1>5, StreamFacts
    <3> QED
      BY <1>1, <1>2, <3>1, OrderAppend DEF LogInv, StreamInv
  <2>2. Before(recorded, pipe')
    <3>1. \A x \in Contents(recorded) : x[1] = h[1] /\ h # Sentinel => x[2] < h[2]
      BY <1>2, StreamFacts
    <3> QED
      BY <1>3, <3>1, StreamFacts, BeforeContents
  <2>3. InOrderHere(Tail(buffer[p])) /\
        \A y \in Contents(Tail(buffer[p])) : h[1] = y[1] /\ y # Sentinel => h[2] < y[2]
    BY <1>1, OrderTail DEF LogInv, StreamInv, h
  <2>4. ASSUME NEW q \in Producer
        PROVE  /\ InOrderHere(buffer'[q]) /\ Before(recorded, buffer'[q]) /\ Before(pipe', buffer'[q])
               /\ \A x \in Contents(buffer'[q]) : x[1] = q /\ x[2] <= emitted[q]
    <3>1. CASE q = p
      <4>1. \A x \in Contents(pipe'), y \in Contents(Tail(buffer[p])) :
              x[1] = y[1] /\ y # Sentinel => x[2] < y[2]
        BY <1>2, <1>3, <2>3, StreamFacts
      <4>2. \A x \in Contents(recorded), y \in Contents(Tail(buffer[p])) :
              x[1] = y[1] /\ y # Sentinel => x[2] < y[2]
        BY <1>2, StreamFacts
      <4>3. \A x \in Contents(Tail(buffer[p])) : x[1] = p /\ x[2] <= emitted[p]
        BY <1>2 DEF LogInv, StreamInv
      <4> QED
        BY <1>4, <2>3, <3>1, <4>1, <4>2, <4>3, BeforeContents
    <3>2. CASE q # p
      <4>1. \A y \in Contents(buffer[q]) : y[1] = q
        BY DEF LogInv, StreamInv
      <4>2. \A x \in Contents(pipe'), y \in Contents(buffer[q]) :
              x[1] = y[1] /\ y # Sentinel => x[2] < y[2]
        BY <1>3, <1>5, <3>2, <4>1, StreamFacts
      <4> QED
        BY <1>4, <3>2, <4>2, BeforeContents DEF LogInv, StreamInv
    <3> QED
      BY <3>1, <3>2
  <2>5. \A x \in Contents(recorded) \union Contents(pipe') : x[2] <= emitted[x[1]]
    BY <1>3, <1>5 DEF LogInv, StreamInv
  <2> QED
    BY <1>1, <2>1, <2>2, <2>4, <2>5 DEF LogInv, StreamInv
<1>9. SentinelInv'
  <2>1. \A q \in Loggers : process[q] \in {"closed", "killed"} => buffer'[q] = <<>>
    BY <1>1, <1>4 DEF LogInv, SentinelInv, Producer
  <2>2. process[Parent] = "logging" =>
          /\ Sentinel \notin Contents(pipe')
          /\ \A q \in Producer : Sentinel \notin Contents(buffer'[q])
    BY <1>2, <1>3, <1>4 DEF LogInv, SentinelInv
  <2>3. ASSUME process[Parent] # "logging", ~writer.stopping
        PROVE  \/ /\ writer.thread = "running" /\ Sentinel \notin Contents(pipe')
                  /\ LastOf(buffer'[Parent])
               \/ writer.thread = "running" /\ LastOf(pipe') /\ NoBuffers'
    <3>1. ~NoBuffers
      BY <1>1 DEF NoBuffers
    <3>2. /\ writer.thread = "running" /\ Sentinel \notin Contents(pipe)
          /\ LastOf(buffer[Parent])
      BY <2>3, <3>1 DEF LogInv, SentinelInv
    <3>3. p = Parent
      BY <1>1, <2>3 DEF LogInv, SentinelInv, WorkersGone, Producer
    <3>4. CASE h = Sentinel
      <4>1. buffer'[p] = <<>>
        BY <1>1, <1>4, <3>2, <3>3, <3>4, LastHead DEF h
      <4>2. NoBuffers'
        BY <1>4, <2>1, <2>3, <3>3, <4>1 DEF NoBuffers, LogInv, SentinelInv, WorkersGone, Producer
      <4>3. LastOf(pipe')
        BY <1>1, <3>2, <3>4, LastAppend
      <4> QED
        BY <3>2, <4>2, <4>3
    <3>5. CASE h # Sentinel
      <4>1. LastOf(buffer'[Parent])
        BY <1>1, <1>4, <3>2, <3>3, <3>5, LastTail DEF h
      <4> QED
        BY <1>3, <3>2, <3>5, <4>1
    <3> QED
      BY <3>4, <3>5
  <2>4. Emitted' = Emitted
    BY <1>1 DEF Emitted
  <2> QED
    BY <1>1, <2>1, <2>2, <2>3, <2>4 DEF LogInv, SentinelInv, WorkersGone
<1> QED
  BY <1>6, <1>7, <1>8, <1>9 DEF LogInv

LEMMA WriterTakesKeeps ==
  ASSUME LogInv, WriterTakes
  PROVE  LogInv'
<1> DEFINE h == Head(pipe)
<1>1. /\ writer.thread = "running" /\ pipe # <<>> /\ pipe' = Tail(pipe) /\ room' = room + 1
      /\ pipe \in Seq(LogItem) /\ recorded \in Seq(LogItem)
      /\ UNCHANGED <<emitted, buffer, jammed, excused, process, kills>>
  BY DEF LogInv, LogTypes, WriterTakes
<1>2. /\ h \in LogItem /\ pipe' \in Seq(LogItem)
      /\ Contents(pipe) = {h} \union Contents(pipe')
  BY <1>1, ContentsTail
<1>3. /\ InOrderHere(pipe')
      /\ \A y \in Contents(pipe') : h[1] = y[1] /\ y # Sentinel => h[2] < y[2]
  BY <1>1, OrderTail DEF LogInv, StreamInv
<1>4. Emitted' = Emitted /\ Buffered' = Buffered
  BY <1>1 DEF Emitted, Buffered
<1>5. LastOf(pipe) => IF h = Sentinel THEN pipe' = <<>> ELSE LastOf(pipe')
  BY <1>1, LastTail, LastHead
<1>6. /\ h = Sentinel => /\ writer' = [writer EXCEPT !.thread = "ended"]
                         /\ UNCHANGED <<recorded, dropped>>
      /\ h # Sentinel => /\ UNCHANGED writer
                         /\ \/ recorded' = Append(recorded, h) /\ UNCHANGED dropped
                            \/ dropped' = dropped \union {h} /\ UNCHANGED recorded
  BY DEF WriterTakes
<1> HIDE DEF h
<1>7. /\ recorded' \in Seq(LogItem)
      /\ Contents(recorded) \subseteq Contents(recorded')
      /\ Contents(recorded') \subseteq Contents(recorded) \union {h}
      /\ dropped \subseteq dropped'
      /\ h = Sentinel \/ h \in Contents(recorded') \union dropped'
  <2>1. /\ Append(recorded, h) \in Seq(LogItem)
        /\ Contents(Append(recorded, h)) = Contents(recorded) \union {h}
    BY <1>1, <1>2, ContentsAppend
  <2>2. CASE h = Sentinel
    BY <1>1, <1>6, <2>2
  <2>3. CASE h # Sentinel
    BY <1>1, <1>6, <2>1, <2>3
  <2> QED
    BY <2>2, <2>3
<1>8. LogTypes'
  <2>1. room' \in Nat /\ writer' \in [thread : {"running", "ended"}, stopping : BOOLEAN]
    <3>1. room \in Nat /\ writer \in [thread : {"running", "ended"}, stopping : BOOLEAN]
      BY DEF LogInv, LogTypes
    <3>2. room' \in Nat
      BY <1>1, <3>1
    <3>3. writer' = writer \/ writer' = [writer EXCEPT !.thread = "ended"]
      BY <1>6
    <3> QED
      BY <3>1, <3>2, <3>3
  <2> QED
    BY <1>1, <1>2, <1>7, <2>1 DEF LogInv, LogTypes
<1>9. NothingLost'
  <2>1. Sentinel \notin Emitted
    BY DEF Emitted, Records, Sentinel
  <2> QED
    BY <1>1, <1>2, <1>4, <1>7, <2>1 DEF LogInv, NothingLost
<1>10. StreamInv'
  <2>1. Sentinel \notin Contents(recorded')
    BY <1>6, <1>7 DEF LogInv, StreamInv
  <2>2. InOrderHere(recorded')
    <3>1. h # Sentinel => \A y \in Contents(recorded) : y[1] = h[1] => y[2] < h[2]
      BY <1>2, BeforeContents DEF LogInv, StreamInv
    <3> QED
      BY <1>1, <1>2, <1>6, <3>1, OrderAppend DEF LogInv, StreamInv
  <2>3. Before(recorded', pipe')
    <3>1. \A x \in Contents(recorded'), y \in Contents(pipe') :
            x[1] = y[1] /\ y # Sentinel => x[2] < y[2]
      <4>1. \A x \in Contents(recorded), y \in Contents(pipe') :
              x[1] = y[1] /\ y # Sentinel => x[2] < y[2]
        BY <1>2, BeforeContents DEF LogInv, StreamInv
      <4> QED
        BY <1>3, <1>7, <4>1
    <3> QED
      BY <3>1, BeforeContents
  <2>4. \A x \in Contents(recorded') \union Contents(pipe') : x[2] <= emitted[x[1]]
    BY <1>2, <1>7 DEF LogInv, StreamInv
  <2>5. \A q \in Producer : Before(recorded', buffer[q]) /\ Before(pipe', buffer[q])
    BY <1>2, <1>7, StreamFacts, BeforeContents
  <2> QED
    BY <1>1, <1>3, <2>1, <2>2, <2>3, <2>4, <2>5 DEF LogInv, StreamInv
<1>11. SentinelInv'
  <2>1. process[Parent] = "logging" => Sentinel \notin Contents(pipe') /\ h # Sentinel
    BY <1>2 DEF LogInv, SentinelInv
  <2>2. NoBuffers' = NoBuffers /\ WorkersGone' = WorkersGone
    BY <1>1 DEF NoBuffers, WorkersGone
  <2>3. ASSUME process[Parent] # "logging", ~writer.stopping
        PROVE  \/ writer'.thread = "running" /\ Sentinel \notin Contents(pipe') /\ LastOf(buffer[Parent])
               \/ writer'.thread = "running" /\ LastOf(pipe') /\ NoBuffers
               \/ writer'.thread = "ended" /\ pipe' = <<>> /\ NoBuffers
    <3>1. \/ Sentinel \notin Contents(pipe) /\ LastOf(buffer[Parent])
          \/ LastOf(pipe) /\ NoBuffers
      BY <1>1, <2>3 DEF LogInv, SentinelInv
    <3>2. CASE Sentinel \notin Contents(pipe) /\ LastOf(buffer[Parent])
      BY <1>1, <1>2, <1>6, <3>2
    <3>3. CASE LastOf(pipe) /\ NoBuffers
      BY <1>1, <1>5, <1>6, <3>3 DEF LogInv, LogTypes
    <3> QED
      BY <3>1, <3>2, <3>3
  <2>4. writer'.stopping = writer.stopping
    BY <1>6 DEF LogInv, LogTypes
  <2>5. process[Parent] = "logging" => writer'.thread = "running"
    BY <1>1, <1>6, <2>1
  <2>6. process[Parent] = "closed" /\ ~writer.stopping =>
          Emitted \subseteq Contents(recorded') \union dropped' \union excused
    BY <1>7 DEF LogInv, SentinelInv
  <2> QED
    BY <1>1, <1>4, <2>1, <2>2, <2>3, <2>4, <2>5, <2>6 DEF LogInv, SentinelInv
<1> QED
  BY <1>8, <1>9, <1>10, <1>11 DEF LogInv

LEMMA FindsNothingKeeps ==
  ASSUME LogInv, WriterFindsNothing
  PROVE  LogInv'
<1>1. /\ writer.stopping /\ writer' = [writer EXCEPT !.thread = "ended"]
      /\ UNCHANGED <<emitted, buffer, room, pipe, jammed, recorded, dropped, excused, process, kills>>
  BY DEF WriterFindsNothing
<1>2. writer'.stopping /\ Emitted' = Emitted /\ Buffered' = Buffered /\ WorkersGone' = WorkersGone
  BY <1>1 DEF LogInv, LogTypes, Emitted, Buffered, WorkersGone
<1> QED
  BY <1>1, <1>2 DEF LogInv, LogTypes, NothingLost, StreamInv, SentinelInv

(* A worker closes or is killed: what its feeder had left is excused.      *)
LEMMA WorkerKeeps ==
  ASSUME LogInv, NEW p \in Loggers, CloseWorker(p) \/ WorkerClosed(p) \/ KillWorker(p)
  PROVE  LogInv'
<1>1. /\ UNCHANGED <<emitted, room, pipe, recorded, dropped, writer>>
      /\ process[p] \in {"logging", "closing"}
      /\ p \in Producer /\ p # Parent /\ Parent \in Producer
  BY LogAssumption DEF CloseWorker, WorkerClosed, KillWorker, Producer
<1>2. \/ UNCHANGED <<buffer, excused>>
      \/ buffer' = [buffer EXCEPT ![p] = <<>>] /\ excused' = excused \union Contents(buffer[p])
  BY DEF CloseWorker, WorkerClosed, KillWorker
<1>3. /\ jammed' \in BOOLEAN
      /\ \/ process' = [process EXCEPT ![p] = "closing"]
         \/ process' = [process EXCEPT ![p] = "closed"] /\ buffer' = [buffer EXCEPT ![p] = <<>>]
         \/ process' = [process EXCEPT ![p] = "killed"] /\ buffer' = [buffer EXCEPT ![p] = <<>>]
  BY DEF CloseWorker, WorkerClosed, KillWorker, LogInv, LogTypes
<1>4. <<>> \in Seq(LogItem) /\ Contents(<<>>) = {} /\ DOMAIN <<>> = {}
  BY DEF Contents
<1>5. \A q \in Producer : buffer'[q] = buffer[q] \/ (buffer'[q] = <<>> /\ q = p)
  <2>1. buffer \in [Producer -> Seq(LogItem)]
    BY DEF LogInv, LogTypes
  <2> QED
    BY <1>2, <2>1
<1>6. LogTypes'
  BY <1>1, <1>2, <1>3, <1>4 DEF LogInv, LogTypes
<1>7. NothingLost'
  <2>1. \A x \in Buffered : x \in Buffered' \union excused'
    <3>1. buffer \in [Producer -> Seq(LogItem)]
      BY DEF LogInv, LogTypes
    <3>2. CASE UNCHANGED <<buffer, excused>>
      BY <3>2 DEF Buffered
    <3>3. CASE buffer' = [buffer EXCEPT ![p] = <<>>] /\ excused' = excused \union Contents(buffer[p])
      <4>1. \A q \in Producer \ {p} : buffer'[q] = buffer[q]
        BY <3>1, <3>3
      <4> QED
        BY <3>3, <4>1 DEF Buffered
    <3> QED
      BY <1>2, <3>2, <3>3
  <2>2. Emitted' = Emitted /\ excused \subseteq excused'
    BY <1>1, <1>2 DEF Emitted
  <2> QED
    BY <1>1, <2>1, <2>2 DEF LogInv, NothingLost
<1>8. StreamInv'
  <2>1. ASSUME NEW q \in Producer
        PROVE  /\ InOrderHere(buffer'[q]) /\ Before(recorded, buffer'[q]) /\ Before(pipe, buffer'[q])
               /\ \A x \in Contents(buffer'[q]) : x[1] = q /\ x[2] <= emitted[q]
    BY <1>4, <1>5 DEF LogInv, StreamInv, InOrderHere, Before
  <2> QED
    BY <1>1, <2>1 DEF LogInv, StreamInv
<1>9. SentinelInv'
  <2>1. process[Parent] = "logging" /\ process'[Parent] = "logging"
    BY <1>1, <1>3 DEF LogInv, LogTypes, SentinelInv, WorkersGone
  <2>2. \A q \in Loggers : process'[q] \in {"closed", "killed"} => buffer'[q] = <<>>
    BY <1>1, <1>3, <1>5 DEF LogInv, LogTypes, SentinelInv, Producer
  <2>3. \A q \in Producer : Sentinel \notin Contents(buffer'[q])
    BY <1>4, <1>5, <2>1 DEF LogInv, SentinelInv
  <2> QED
    BY <1>1, <2>1, <2>2, <2>3 DEF LogInv, SentinelInv
<1> QED
  BY <1>6, <1>7, <1>8, <1>9 DEF LogInv

LEMMA CloseWriterKeeps ==
  ASSUME LogInv, CloseWriter
  PROVE  LogInv'
<1>1. /\ process[Parent] = "logging" /\ WorkersGone /\ Parent \in Producer
      /\ process' = [process EXCEPT ![Parent] = "closing"] /\ process'[Parent] = "closing"
      /\ UNCHANGED <<emitted, pipe, jammed, recorded, dropped, excused, kills>>
      /\ buffer[Parent] \in Seq(LogItem)
      /\ \A q \in Loggers : process'[q] = process[q]
  BY LogAssumption DEF LogInv, LogTypes, CloseWriter, Producer
<1>2. /\ writer.thread = "running" /\ ~writer.stopping /\ Sentinel \notin Contents(pipe)
      /\ \A q \in Producer : Sentinel \notin Contents(buffer[q])
  BY <1>1 DEF LogInv, SentinelInv
<1>3. Emitted' = Emitted /\ WorkersGone'
  BY <1>1 DEF Emitted, WorkersGone
<1>4. CASE room = 0 /\ writer' = [writer EXCEPT !.stopping = TRUE] /\ UNCHANGED <<buffer, room>>
  <2>1. writer'.stopping
    BY <1>4 DEF LogInv, LogTypes
  <2>2. LogTypes'
    BY <1>1, <1>4 DEF LogInv, LogTypes
  <2>3. NothingLost' /\ StreamInv'
    BY <1>1, <1>3, <1>4 DEF LogInv, NothingLost, StreamInv, Buffered
  <2>4. SentinelInv'
    BY <1>1, <1>3, <1>4, <2>1 DEF LogInv, SentinelInv
  <2> QED
    BY <2>2, <2>3, <2>4 DEF LogInv
<1>5. CASE /\ room > 0 /\ room' = room - 1 /\ UNCHANGED writer
           /\ buffer' = [buffer EXCEPT ![Parent] = Append(@, Sentinel)]
  <2>1. /\ buffer'[Parent] = Append(buffer[Parent], Sentinel) /\ Sentinel \in LogItem
        /\ \A q \in Producer \ {Parent} : buffer'[q] = buffer[q]
    BY <1>1, <1>5 DEF LogInv, LogTypes, LogItem
  <2>2. /\ buffer'[Parent] \in Seq(LogItem)
        /\ Contents(buffer'[Parent]) = Contents(buffer[Parent]) \union {Sentinel}
    BY <1>1, <2>1, ContentsAppend
  <2>3. LogTypes'
    BY <1>1, <1>5, <2>1, <2>2 DEF LogInv, LogTypes
  <2>4. NothingLost'
    <3>1. Buffered \subseteq Buffered'
      BY <2>1, <2>2 DEF Buffered
    <3> QED
      BY <1>1, <1>3, <3>1 DEF LogInv, NothingLost
  <2>5. StreamInv'
    <3>1. InOrderHere(buffer'[Parent])
      BY <1>1, <2>1, OrderAppend DEF LogInv, StreamInv
    <3>2. Before(recorded, buffer'[Parent]) /\ Before(pipe, buffer'[Parent])
      BY <1>1, <2>2, StreamFacts, BeforeContents
    <3>3. \A x \in Contents(buffer'[Parent]) : x[1] = Parent /\ x[2] <= emitted[Parent]
      <4>1. Sentinel[1] = Parent /\ Sentinel[2] = 0 /\ emitted[Parent] \in Nat
        BY <1>1 DEF Sentinel, LogInv, LogTypes
      <4> QED
        BY <1>1, <2>2, <4>1 DEF LogInv, StreamInv
    <3>4. ASSUME NEW q \in Producer
          PROVE  /\ InOrderHere(buffer'[q]) /\ Before(recorded, buffer'[q]) /\ Before(pipe, buffer'[q])
                 /\ \A x \in Contents(buffer'[q]) : x[1] = q /\ x[2] <= emitted[q]
      <4>1. CASE q = Parent
        BY <3>1, <3>2, <3>3, <4>1
      <4>2. CASE q # Parent
        BY <2>1, <4>2 DEF LogInv, StreamInv
      <4> QED
        BY <4>1, <4>2
    <3> QED
      BY <1>1, <3>4 DEF LogInv, StreamInv
  <2>6. SentinelInv'
    <3>1. LastOf(buffer'[Parent])
      BY <1>1, <1>2, <2>1, LastAppend
    <3>2. \A q \in Loggers : process'[q] \in {"closed", "killed"} => buffer'[q] = <<>>
      BY <1>1, <2>1, LogAssumption DEF LogInv, SentinelInv, Producer
    <3> QED
      BY <1>1, <1>2, <1>3, <1>5, <3>1, <3>2 DEF SentinelInv
  <2> QED
    BY <2>3, <2>4, <2>5, <2>6 DEF LogInv
<1> QED
  BY <1>4, <1>5 DEF CloseWriter

LEMMA WriterClosedKeeps ==
  ASSUME LogInv, WriterClosed
  PROVE  LogInv'
<1>1. /\ process[Parent] = "closing" /\ process' = [process EXCEPT ![Parent] = "closed"]
      /\ UNCHANGED <<emitted, buffer, room, pipe, jammed, recorded, dropped, writer, kills>>
      /\ Parent \in Producer /\ process'[Parent] = "closed"
      /\ \A q \in Loggers : process'[q] = process[q]
      /\ excused \subseteq excused'
      /\ writer.thread # "ended" => Contents(pipe) \union Contents(buffer[Parent]) \subseteq excused'
  BY LogAssumption DEF LogInv, LogTypes, WriterClosed, Producer
<1>2. Emitted' = Emitted /\ WorkersGone' = WorkersGone /\ Buffered' = Buffered /\ NoBuffers' = NoBuffers
  BY <1>1 DEF Emitted, WorkersGone, Buffered, NoBuffers
<1>3. LogTypes' /\ NothingLost' /\ StreamInv'
  BY <1>1, <1>2 DEF LogInv, LogTypes, NothingLost, StreamInv
<1>4. ASSUME ~writer.stopping
      PROVE  Emitted \subseteq Contents(recorded) \union dropped \union excused'
  <2>1. \A q \in Loggers : buffer[q] = <<>>
    BY <1>1 DEF LogInv, SentinelInv, WorkersGone
  <2>2. Buffered \subseteq Contents(buffer[Parent])
    BY <2>1 DEF Buffered, Producer, Contents
  <2>3. CASE writer.thread = "ended"
    <3>1. pipe = <<>> /\ buffer[Parent] = <<>>
      BY <1>1, <1>4, <2>3 DEF LogInv, SentinelInv, NoBuffers
    <3>2. Contents(pipe) = {} /\ Buffered = {}
      BY <2>2, <3>1 DEF Contents
    <3> QED
      BY <1>1, <3>2 DEF LogInv, NothingLost
  <2>4. CASE writer.thread # "ended"
    BY <1>1, <2>2, <2>4 DEF LogInv, NothingLost
  <2> QED
    BY <2>3, <2>4
<1>5. SentinelInv'
  BY <1>1, <1>2, <1>4 DEF LogInv, SentinelInv
<1> QED
  BY <1>3, <1>5 DEF LogInv

LEMMA LogNextInv == LogInv /\ [LogNext]_logVars => LogInv'
<1> SUFFICES ASSUME LogInv, [LogNext]_logVars PROVE LogInv'
  OBVIOUS
<1>1. CASE UNCHANGED logVars
  <2>1. UNCHANGED <<Emitted, Buffered, WorkersGone, NoBuffers>>
    BY <1>1 DEF logVars, Emitted, Buffered, WorkersGone, NoBuffers
  <2> QED
    BY <1>1, <2>1 DEF logVars, LogInv, LogTypes, NothingLost, StreamInv, SentinelInv
<1>2. CASE LogNext
  BY <1>2, EmitKeeps, FeedKeeps, WriterTakesKeeps, FindsNothingKeeps, WorkerKeeps, CloseWriterKeeps,
     WriterClosedKeeps DEF LogNext
<1> QED
  BY <1>1, <1>2

(* No record is lost without a trace, and the file keeps the order of each *)
(* process, for any number of workers, records and kills and any capacity  *)
(* of the queue (_file.py:61-73, 131-171).                                 *)
THEOREM LogLosesNothing == LogSpec => []NoSilentLoss
<1>1. LogInv => NoSilentLoss
  <2> SUFFICES ASSUME LogInv PROVE NoSilentLoss
    OBVIOUS
  <2>1. \A i \in DOMAIN recorded : recorded[i] # Sentinel
    BY DEF LogInv, StreamInv, Contents
  <2> QED
    BY <2>1 DEF LogInv, SentinelInv, StreamInv, InOrderHere, NoSilentLoss
<1> QED
  BY <1>1, LogInitInv, LogNextInv, PTL DEF LogSpec

----------------------------------------------------------------------------
(* Shared blocks                                                           *)

BlockNames == RunIds \X NamedBlocks

BlocksTypes ==
  /\ run \in [RunIds -> [phase : {"off", "sweep", "alloc", "spawn", "stop", "gone"}, next : Nat,
                         recorded : SUBSET ToSet(BlockOrder), listing : SUBSET BlockNames]]
  /\ shm \subseteq BlockNames /\ headers \subseteq shm /\ strangers \subseteq RunIds
  /\ worker \in [RunIds \X (1 .. WorkersPerRun) ->
                   [at : {"off", "attaching", "up", "died"}, attached : Nat]]
  /\ blockMark \in [broken : SUBSET RunIds, bells : SUBSET RunIds,
                    dead : [RunIds -> SUBSET BlockNames], lost : BOOLEAN, mishaps : Nat]
  /\ \A w \in DOMAIN worker : worker[w].at = "attaching" => worker[w].attached < Len(BlockOrder)

(* What a run owns in each of its phases, and what its books say of it.    *)
Holdings(r) ==
  /\ run[r].phase \in {"off", "sweep"} => Mine(r) = {} /\ run[r].next = 1
  /\ run[r].phase = "alloc" =>
       /\ run[r].next \in 1 .. Len(BlockOrder)
       /\ Mine(r) \subseteq {r} \X (run[r].recorded \union {Step(r)})
       /\ \A i \in 1 .. run[r].next - 1 :
            FamilyOf[BlockOrder[i]] # "bells" => <<r, BlockOrder[i]>> \in headers
  /\ run[r].phase \in {"spawn", "stop"} =>
       {r} \X NamedBlocks \subseteq headers /\ Mine(r) \subseteq {r} \X run[r].recorded
  /\ run[r].phase = "gone" /\ r \notin blockMark.broken \union blockMark.bells => Mine(r) = {}

(* Workers exist from the first spawn until a run that was not killed ends. *)
Crew(r) ==
  /\ run[r].phase \in {"off", "sweep", "alloc"} =>
       \A w \in 1 .. WorkersPerRun : worker[<<r, w>>].at = "off"
  /\ run[r].phase = "gone" /\ r \notin blockMark.broken => WorkersEnded(r)

(* The sweep of a run has every orphan still before it or behind it.       *)
Sweeping(r) ==
  /\ \A n \in blockMark.dead[r] : run[n[1]].phase = "gone"
  /\ run[r].phase = "sweep" =>
       \A n \in blockMark.dead[r] \intersect shm : n \in run[r].listing \/ n[1] \in strangers
  /\ run[r].phase \in {"alloc", "spawn", "stop"} =>
       \A n \in blockMark.dead[r] \intersect shm : n[1] \in strangers

BlocksInv ==
  /\ BlocksTypes /\ ~blockMark.lost
  /\ \A r \in RunIds : Holdings(r) /\ Crew(r) /\ Sweeping(r)

LEMMA BlocksInitInv == BlocksInit => BlocksInv
<1> SUFFICES ASSUME BlocksInit PROVE BlocksInv
  OBVIOUS
<1>1. BlocksTypes
  <2>1. run \in [RunIds -> [phase : {"off", "sweep", "alloc", "spawn", "stop", "gone"}, next : Nat,
                            recorded : SUBSET ToSet(BlockOrder), listing : SUBSET BlockNames]]
    BY DEF BlocksInit
  <2>2. blockMark \in [broken : SUBSET RunIds, bells : SUBSET RunIds,
                       dead : [RunIds -> SUBSET BlockNames], lost : BOOLEAN, mishaps : Nat]
    BY DEF BlocksInit
  <2> QED
    BY <2>1, <2>2 DEF BlocksInit, BlocksTypes
<1>2. ~blockMark.lost
  BY DEF BlocksInit
<1>3. \A r \in RunIds : Holdings(r) /\ Crew(r) /\ Sweeping(r)
  BY DEF BlocksInit, Holdings, Crew, Sweeping, Mine
<1> QED
  BY <1>1, <1>2, <1>3 DEF BlocksInv

(* What a step of run r leaves to the others: their state, their blocks    *)
(* while they live, and the graves.                                        *)
Spares(r) ==
  /\ \A s \in RunIds \ {r} :
       /\ run'[s] = run[s] /\ blockMark'.dead[s] = blockMark.dead[s]
       /\ \A w \in 1 .. WorkersPerRun : worker'[<<s, w>>] = worker[<<s, w>>]
  /\ run[r].phase = "gone" => run'[r].phase = "gone" /\ shm' \subseteq shm
  /\ strangers \subseteq strangers'
  /\ blockMark.broken \subseteq blockMark'.broken /\ blockMark.bells \subseteq blockMark'.bells
  /\ \A n \in shm' : n[1] # r => n \in shm
  /\ \A n \in headers : n[1] # r /\ ~Gone(n[1]) => n \in headers'

LEMMA OthersStand ==
  ASSUME BlocksInv, NEW r \in RunIds, Spares(r), NEW s \in RunIds, s # r
  PROVE  Holdings(s)' /\ Crew(s)' /\ Sweeping(s)'
<1>1. run'[s] = run[s] /\ blockMark'.dead[s] = blockMark.dead[s] /\ Step(s)' = Step(s)
  BY DEF Spares, Step
<1>2. Mine(s)' \subseteq Mine(s)
  BY DEF Spares, Mine
<1>3. run[s].phase \in {"alloc", "spawn", "stop"} => \A n \in headers : n[1] = s => n \in headers'
  BY DEF Spares, Gone
<1>4. Holdings(s)'
  <2>1. Holdings(s)
    BY DEF BlocksInv
  <2>2. run[s].phase = "alloc" =>
          \A i \in 1 .. run[s].next - 1 :
            FamilyOf[BlockOrder[i]] # "bells" => <<s, BlockOrder[i]>> \in headers'
    BY <1>3, <2>1 DEF Holdings
  <2>3. run[s].phase \in {"spawn", "stop"} => {s} \X NamedBlocks \subseteq headers'
    BY <1>3, <2>1 DEF Holdings
  <2> QED
    BY <1>1, <1>2, <2>1, <2>2, <2>3 DEF Holdings, Spares
<1>5. Crew(s)'
  BY <1>1 DEF BlocksInv, Crew, Spares, WorkersEnded
<1>6. Sweeping(s)'
  <2>1. Sweeping(s) /\ \A n \in blockMark.dead[s] : n[1] \in RunIds
    BY DEF BlocksInv, BlocksTypes, BlockNames
  <2>2. \A n \in blockMark.dead[s] : run'[n[1]].phase = "gone"
    BY <2>1 DEF Sweeping, Spares
  <2>3. \A n \in blockMark.dead[s] \intersect shm' : n \in shm \/ n[1] = r
    BY DEF Spares
  <2>4. \A n \in blockMark.dead[s] \intersect shm' : n[1] = r => n \in shm
    BY <2>1 DEF Sweeping, Spares
  <2> QED
    BY <1>1, <2>1, <2>2, <2>3, <2>4 DEF Sweeping, Spares
<1> QED
  BY <1>4, <1>5, <1>6

LEMMA OwnStep ==
  ASSUME BlocksInv, NEW r \in RunIds, Spares(r), BlocksTypes', ~blockMark'.lost,
         Holdings(r)', Crew(r)', Sweeping(r)'
  PROVE  BlocksInv'
<1>1. \A s \in RunIds : Holdings(s)' /\ Crew(s)' /\ Sweeping(s)'
  BY OthersStand
<1> QED
  BY <1>1 DEF BlocksInv

LEMMA RunState ==
  ASSUME BlocksInv, NEW r \in RunIds
  PROVE  /\ run[r] \in [phase : {"off", "sweep", "alloc", "spawn", "stop", "gone"}, next : Nat,
                        recorded : SUBSET ToSet(BlockOrder), listing : SUBSET BlockNames]
         /\ run \in [RunIds -> [phase : {"off", "sweep", "alloc", "spawn", "stop", "gone"},
                      next : Nat, recorded : SUBSET ToSet(BlockOrder), listing : SUBSET BlockNames]]
         /\ Holdings(r) /\ Crew(r) /\ Sweeping(r)
         /\ \A w \in 1 .. WorkersPerRun : <<r, w>> \in DOMAIN worker
BY DEF BlocksInv, BlocksTypes

LEMMA OrderFacts ==
  /\ BlockOrder \in Seq(DOMAIN FamilyOf) /\ Len(BlockOrder) \in Nat \ {0}
  /\ DOMAIN BlockOrder = 1 .. Len(BlockOrder)
  /\ \A i \in 1 .. Len(BlockOrder) : BlockOrder[i] \in ToSet(BlockOrder)
  /\ \A b \in NamedBlocks : \E i \in 1 .. Len(BlockOrder) : BlockOrder[i] = b /\ FamilyOf[b] # "bells"
<1>1. BlockOrder \in Seq(DOMAIN FamilyOf) /\ BlockOrder # <<>>
  BY BlocksAssumption
<1>2. Len(BlockOrder) \in Nat \ {0} /\ DOMAIN BlockOrder = 1 .. Len(BlockOrder)
  BY <1>1
<1> QED
  BY <1>1, <1>2 DEF ToSet, NamedBlocks

LEMMA SweepStartsKeeps ==
  ASSUME BlocksInv, NEW r \in RunIds, SweepStarts(r) PROVE BlocksInv'
<1>1. /\ run[r].phase = "off" /\ UNCHANGED <<shm, headers, socketFile, strangers, worker>>
      /\ run' = [run EXCEPT ![r] = [run[r] EXCEPT !.phase = "sweep", !.listing = shm]]
      /\ blockMark' = [blockMark EXCEPT !.dead = [@ EXCEPT ![r] = {n \in shm : Gone(n[1])}]]
  BY RunState DEF SweepStarts
<1>2. /\ run'[r].phase = "sweep" /\ run'[r].listing = shm
      /\ blockMark'.dead[r] = {n \in shm : Gone(n[1])} /\ blockMark'.broken = blockMark.broken
      /\ blockMark'.bells = blockMark.bells /\ blockMark'.lost = blockMark.lost
  BY <1>1, RunState DEF BlocksInv, BlocksTypes
<1>3. Spares(r)
  BY <1>1, <1>2 DEF Spares, BlocksInv, BlocksTypes
<1>4. BlocksTypes'
  BY ZenonT(60), <1>1 DEF BlocksInv, BlocksTypes
<1>5. Holdings(r)' /\ Crew(r)'
  BY <1>1, <1>2, RunState DEF Holdings, Crew, Mine
<1>6. Sweeping(r)'
  <2>1. \A n \in shm : n[1] \in RunIds /\ n \in Mine(n[1])
    BY DEF BlocksInv, BlocksTypes, BlockNames, Mine
  <2>2. \A n \in shm : Gone(n[1]) => run[n[1]].phase = "gone" /\ n[1] # r
    BY <1>1, <2>1 DEF BlocksInv, Holdings, Gone
  <2>3. \A n \in shm : Gone(n[1]) => run'[n[1]].phase = "gone"
    BY <1>3, <2>1, <2>2 DEF Spares
  <2> QED
    BY <1>1, <1>2, <2>3 DEF Sweeping
<1> QED
  BY <1>2, <1>3, <1>4, <1>5, <1>6, OwnStep DEF BlocksInv

LEMMA SweepLooksKeeps ==
  ASSUME BlocksInv, NEW r \in RunIds, NEW n \in run[r].listing, SweepLooks(r, n) PROVE BlocksInv'
<1>1. /\ run[r].phase = "sweep" /\ UNCHANGED <<socketFile, strangers, worker, blockMark>>
      /\ run' = [run EXCEPT ![r] = [run[r] EXCEPT !.listing = run[r].listing \ {n}]]
      /\ shm' = IF Sweepable(n) THEN shm \ {n} ELSE shm
      /\ headers' = headers \intersect shm'
  BY RunState DEF SweepLooks
<1>2. run'[r].phase = "sweep" /\ run'[r].listing = run[r].listing \ {n}
  BY <1>1, RunState
<1>3. n[1] \in RunIds
  BY RunState DEF BlockNames
<1>4. Spares(r)
  BY <1>1, <1>2 DEF Spares, BlocksInv, BlocksTypes, Sweepable
<1>5. BlocksTypes'
  BY ZenonT(60), <1>1 DEF BlocksInv, BlocksTypes
<1>6. Holdings(r)' /\ Crew(r)'
  BY <1>1, <1>2, RunState DEF Holdings, Crew, Mine
<1>7. Sweeping(r)'
  <2>1. \A m \in blockMark.dead[r] : m[1] \in RunIds /\ run[m[1]].phase = "gone" /\ m[1] # r
    BY <1>1, RunState DEF BlocksInv, BlocksTypes, BlockNames, Sweeping
  <2>2. \A m \in blockMark.dead[r] : run'[m[1]].phase = "gone"
    BY <1>4, <2>1 DEF Spares
  <2>3. \A m \in blockMark.dead[r] \intersect shm' : m \in run'[r].listing \/ m[1] \in strangers
    BY <1>1, <1>2, <2>1, RunState DEF Sweeping, Sweepable, Gone
  <2> QED
    BY <1>1, <1>2, <2>2, <2>3 DEF Sweeping
<1> QED
  BY <1>1, <1>4, <1>5, <1>6, <1>7, OwnStep DEF BlocksInv

LEMMA BindsKeeps ==
  ASSUME BlocksInv, NEW r \in RunIds, Binds(r) \/ BindFails(r) PROVE BlocksInv'
<1>1. /\ run[r].phase = "sweep" /\ run[r].listing = {}
      /\ UNCHANGED <<shm, headers, strangers, worker>>
      /\ \/ run' = [run EXCEPT ![r].phase = "alloc"] /\ blockMark' = blockMark
         \/ /\ run' = [run EXCEPT ![r].phase = "gone"]
            /\ blockMark' = [blockMark EXCEPT !.mishaps = blockMark.mishaps + 1]
  BY DEF Binds, BindFails, Phase
<1>2. /\ run'[r].phase \in {"alloc", "gone"} /\ run'[r].next = run[r].next
      /\ \A s \in RunIds \ {r} : run'[s] = run[s]
      /\ blockMark'.dead = blockMark.dead /\ blockMark'.broken = blockMark.broken
      /\ blockMark'.bells = blockMark.bells /\ blockMark'.lost = blockMark.lost
  BY <1>1, RunState DEF BlocksInv, BlocksTypes
<1>3. Spares(r)
  BY <1>1, <1>2 DEF Spares
<1>4. BlocksTypes'
  <2>1. /\ blockMark.mishaps + 1 \in Nat
        /\ blockMark \in [broken : SUBSET RunIds, bells : SUBSET RunIds,
                          dead : [RunIds -> SUBSET BlockNames], lost : BOOLEAN, mishaps : Nat]
    BY DEF BlocksInv, BlocksTypes
  <2>2. blockMark' \in [broken : SUBSET RunIds, bells : SUBSET RunIds,
                        dead : [RunIds -> SUBSET BlockNames], lost : BOOLEAN, mishaps : Nat]
    BY <1>1, <2>1
  <2>3. [run[r] EXCEPT !.phase = "alloc"] \in
          [phase : {"off", "sweep", "alloc", "spawn", "stop", "gone"}, next : Nat,
           recorded : SUBSET ToSet(BlockOrder), listing : SUBSET BlockNames]
        /\ [run[r] EXCEPT !.phase = "gone"] \in
          [phase : {"off", "sweep", "alloc", "spawn", "stop", "gone"}, next : Nat,
           recorded : SUBSET ToSet(BlockOrder), listing : SUBSET BlockNames]
    BY RunState
  <2>4. run' \in [RunIds -> [phase : {"off", "sweep", "alloc", "spawn", "stop", "gone"}, next : Nat,
                  recorded : SUBSET ToSet(BlockOrder), listing : SUBSET BlockNames]]
    BY <1>1, <2>3, RunState
  <2> QED
    BY <1>1, <2>2, <2>4 DEF BlocksInv, BlocksTypes
<1>5. Holdings(r)'
  <2>1. Mine(r) = {} /\ run[r].next = 1
    BY <1>1, RunState DEF Holdings
  <2>2. 1 \in 1 .. Len(BlockOrder) /\ 1 .. (1 - 1) = {}
    BY OrderFacts
  <2> QED
    BY <1>1, <1>2, <2>1, <2>2 DEF Holdings, Mine
<1>6. Crew(r)'
  BY <1>1, <1>2, RunState DEF Crew, WorkersEnded
<1>7. Sweeping(r)'
  <2>1. \A n \in blockMark.dead[r] : n[1] \in RunIds /\ run[n[1]].phase = "gone"
    BY RunState DEF Sweeping, BlocksInv, BlocksTypes, BlockNames
  <2>2. \A n \in blockMark.dead[r] : run'[n[1]].phase = "gone"
    <3>1. \A n \in blockMark.dead[r] : n[1] # r
      BY <1>1, <2>1
    <3> QED
      BY <1>2, <2>1, <3>1
  <2> QED
    BY <1>1, <1>2, <2>2, RunState DEF Sweeping
<1> QED
  BY <1>2, <1>3, <1>4, <1>5, <1>6, <1>7, OwnStep DEF BlocksInv

LEMMA CreatesKeeps ==
  ASSUME BlocksInv, NEW r \in RunIds, CreatesBlock(r) PROVE BlocksInv'
<1>1. /\ run[r].phase = "alloc" /\ FamilyOf[Step(r)] # "bells"
      /\ shm' = shm \union {<<r, Step(r)>>}
      /\ UNCHANGED <<run, headers, socketFile, strangers, worker, blockMark>>
  BY DEF CreatesBlock
<1>2. <<r, Step(r)>> \in BlockNames
  BY <1>1, RunState, OrderFacts DEF Holdings, Step, BlockNames, NamedBlocks
<1>3. Spares(r)
  BY <1>1 DEF Spares
<1>4. BlocksTypes'
  BY <1>1, <1>2 DEF BlocksInv, BlocksTypes
<1>5. Holdings(r)'
  BY <1>1, RunState DEF Holdings, Mine, Step
<1>6. Crew(r)'
  BY <1>1, RunState DEF Crew, WorkersEnded
<1>7. Sweeping(r)'
  <2>1. \A n \in blockMark.dead[r] \intersect shm' : n \in shm
    BY <1>1, RunState DEF Sweeping
  <2> QED
    BY <1>1, <2>1, RunState DEF Sweeping
<1> QED
  BY <1>1, <1>3, <1>4, <1>5, <1>6, <1>7, OwnStep DEF BlocksInv

LEMMA RecordsKeeps ==
  ASSUME BlocksInv, NEW r \in RunIds, RecordsBlock(r) PROVE BlocksInv'
<1> DEFINE last == run[r].next = Len(BlockOrder)
<1>1. /\ run[r].phase = "alloc" /\ UNCHANGED <<shm, socketFile, strangers, worker, blockMark>>
      /\ FamilyOf[Step(r)] = "bells" \/ <<r, Step(r)>> \in shm
      /\ headers' = headers \union ({<<r, Step(r)>>} \intersect shm)
      /\ run' = [run EXCEPT ![r] = [run[r] EXCEPT !.recorded = @ \union {Step(r)}, !.next = @ + 1,
                                    !.phase = IF last THEN "spawn" ELSE "alloc"]]
  BY RunState DEF RecordsBlock
<1>2. /\ run[r].next \in 1 .. Len(BlockOrder) /\ Len(BlockOrder) \in Nat
      /\ Mine(r) \subseteq {r} \X (run[r].recorded \union {Step(r)})
      /\ \A i \in 1 .. run[r].next - 1 :
           FamilyOf[BlockOrder[i]] # "bells" => <<r, BlockOrder[i]>> \in headers
      /\ Step(r) \in ToSet(BlockOrder)
  BY <1>1, RunState, OrderFacts DEF Holdings, Step
<1>3. /\ run'[r].phase = (IF last THEN "spawn" ELSE "alloc") /\ run'[r].next = run[r].next + 1
      /\ run'[r].recorded = run[r].recorded \union {Step(r)}
      /\ \A s \in RunIds \ {r} : run'[s] = run[s]
  BY <1>1, RunState
<1>4. Spares(r)
  BY <1>1, <1>3 DEF Spares
<1>5. BlocksTypes'
  <2>1. run'[r] \in [phase : {"off", "sweep", "alloc", "spawn", "stop", "gone"}, next : Nat,
                     recorded : SUBSET ToSet(BlockOrder), listing : SUBSET BlockNames]
    <3>1. run[r].next + 1 \in Nat /\ run[r].recorded \union {Step(r)} \subseteq ToSet(BlockOrder)
      BY <1>2, RunState
    <3> QED
      BY <1>1, <3>1, RunState
  <2>2. run' \in [RunIds -> [phase : {"off", "sweep", "alloc", "spawn", "stop", "gone"}, next : Nat,
                     recorded : SUBSET ToSet(BlockOrder), listing : SUBSET BlockNames]]
    BY <1>1, <2>1, RunState
  <2>3. headers' \subseteq shm'
    BY <1>1 DEF BlocksInv, BlocksTypes
  <2> QED
    BY <1>1, <2>2, <2>3 DEF BlocksInv, BlocksTypes
<1>6. \A i \in 1 .. run[r].next : FamilyOf[BlockOrder[i]] # "bells" => <<r, BlockOrder[i]>> \in headers'
  <2> TAKE i \in 1 .. run[r].next
  <2>1. CASE i = run[r].next
    BY <1>1, <2>1 DEF Step
  <2>2. CASE i # run[r].next
    <3>1. i \in 1 .. run[r].next - 1
      BY <1>2, <2>2
    <3> QED
      BY <1>1, <1>2, <3>1
  <2> QED
    BY <2>1, <2>2
<1>7. Holdings(r)'
  <2>1. Mine(r)' = Mine(r) /\ Mine(r)' \subseteq {r} \X run'[r].recorded
    BY <1>1, <1>2, <1>3 DEF Mine
  <2>2. CASE last
    <3>1. \A b \in NamedBlocks : <<r, b>> \in headers'
      BY <1>6, <2>2, OrderFacts
    <3> QED
      BY <1>3, <2>1, <2>2, <3>1 DEF Holdings
  <2>3. CASE ~last
    <3>1. run'[r].next \in 1 .. Len(BlockOrder) /\ run'[r].next - 1 = run[r].next
      BY <1>2, <1>3, <2>3
    <3>2. Mine(r)' \subseteq {r} \X (run'[r].recorded \union {Step(r)'})
      BY <2>1
    <3> QED
      BY <1>3, <1>6, <2>3, <3>1, <3>2 DEF Holdings
  <2> QED
    BY <2>2, <2>3
<1>8. Crew(r)'
  <2>1. \A w \in 1 .. WorkersPerRun : worker[<<r, w>>].at = "off"
    BY <1>1, RunState DEF Crew
  <2> QED
    BY <1>1, <1>3, <2>1 DEF Crew
<1>9. Sweeping(r)'
  <2>1. \A n \in blockMark.dead[r] : run'[n[1]].phase = "gone"
    BY <1>1, <1>3, RunState DEF Sweeping, BlocksInv, BlocksTypes, BlockNames
  <2> QED
    BY <1>1, <1>3, <2>1, RunState DEF Sweeping
<1> QED
  BY <1>1, <1>4, <1>5, <1>7, <1>8, <1>9, OwnStep DEF BlocksInv

(* The supervisor of run r ends and takes back the blocks it gives up.     *)
LEMMA EndsKeeps ==
  ASSUME BlocksInv, NEW r \in RunIds, ~Gone(r), run' = [run EXCEPT ![r].phase = "gone"],
         UNCHANGED <<strangers, worker>>, NEW given, shm' = shm \ ({r} \X given),
         headers' = headers \intersect shm',
         blockMark' \in [broken : SUBSET RunIds, bells : SUBSET RunIds,
                         dead : [RunIds -> SUBSET BlockNames], lost : BOOLEAN, mishaps : Nat],
         blockMark'.dead = blockMark.dead, blockMark'.lost = blockMark.lost,
         blockMark.broken \subseteq blockMark'.broken, blockMark.bells \subseteq blockMark'.bells,
         r \notin blockMark'.broken \union blockMark'.bells => Mine(r)' = {},
         r \notin blockMark'.broken => WorkersEnded(r)
  PROVE  BlocksInv'
<1>1. /\ run'[r].phase = "gone" /\ run[r].phase # "gone"
      /\ \A s \in RunIds \ {r} : run'[s] = run[s]
  BY RunState DEF Gone
<1>2. \A s \in RunIds \ {r} : Mine(s)' = Mine(s)
  BY DEF Mine, BlocksInv, BlocksTypes
<1>3. Spares(r)
  BY <1>1 DEF Spares, BlocksInv, BlocksTypes, BlockNames
<1>4. BlocksTypes'
  <2> DEFINE RunTypes == [phase : {"off", "sweep", "alloc", "spawn", "stop", "gone"}, next : Nat,
                          recorded : SUBSET ToSet(BlockOrder), listing : SUBSET BlockNames]
  <2>1. run[r] \in RunTypes /\ run \in [RunIds -> RunTypes]
    BY DEF BlocksInv, BlocksTypes
  <2>2. [run[r] EXCEPT !.phase = "gone"] \in RunTypes
    BY <2>1
  <2>3. run' \in [RunIds -> RunTypes]
    <3> HIDE DEF RunTypes
    <3> QED BY <2>1, <2>2
  <2>4. shm' \subseteq BlockNames /\ headers' \subseteq shm'
    BY DEF BlocksInv, BlocksTypes
  <2> QED BY <2>3, <2>4 DEF BlocksInv, BlocksTypes
<1>5. Holdings(r)' /\ Crew(r)'
  BY <1>1 DEF Holdings, Crew, WorkersEnded
<1>6. Sweeping(r)'
  BY <1>1, RunState DEF Sweeping, BlocksInv, BlocksTypes, BlockNames
<1> QED
  BY <1>3, <1>4, <1>5, <1>6, OwnStep DEF BlocksInv

LEMMA EndingsKeep ==
  ASSUME BlocksInv, NEW r \in RunIds,
         AllocationFails(r) \/ Interrupted(r) \/ Releases(r) \/ Killed(r)
  PROVE  BlocksInv'
<1> DEFINE MarkTypes == [broken : SUBSET RunIds, bells : SUBSET RunIds,
                         dead : [RunIds -> SUBSET BlockNames], lost : BOOLEAN, mishaps : Nat]
<1>1. blockMark \in MarkTypes /\ blockMark.mishaps + 1 \in Nat
  BY DEF BlocksInv, BlocksTypes
<1>2. CASE AllocationFails(r)
  <2>1. /\ run[r].phase = "alloc" /\ <<r, Step(r)>> \notin shm /\ UNCHANGED <<strangers, worker>>
        /\ run' = [run EXCEPT ![r].phase = "gone"]
        /\ shm' = shm \ ({r} \X TakenBack(r, Step(r))) /\ headers' = headers \intersect shm'
        /\ blockMark' = [blockMark EXCEPT !.mishaps = blockMark.mishaps + 1,
             !.bells = IF FamilyOf[Step(r)] = "bells" THEN blockMark.bells \union {r}
                       ELSE blockMark.bells]
    BY <1>2 DEF AllocationFails, Phase, Unlinks
  <2>2. blockMark' \in MarkTypes /\ blockMark'.dead = blockMark.dead
    BY <1>1, <2>1
  <2>3. /\ blockMark'.lost = blockMark.lost /\ blockMark'.broken = blockMark.broken
        /\ blockMark'.bells = IF FamilyOf[Step(r)] = "bells" THEN blockMark.bells \union {r}
                              ELSE blockMark.bells
    BY <1>1, <2>1
  <2>4. Mine(r) \subseteq {r} \X run[r].recorded
    <3>1. Mine(r) \subseteq {r} \X (run[r].recorded \union {Step(r)})
      BY <2>1, RunState DEF Holdings
    <3>2. <<r, Step(r)>> \notin Mine(r)
      BY <2>1 DEF Mine
    <3> QED
      BY <3>1, <3>2
  <2>5. r \notin blockMark'.bells => Mine(r)' = {}
    BY <2>1, <2>3, <2>4 DEF TakenBack, Mine
  <2>6. WorkersEnded(r) /\ ~Gone(r)
    BY <2>1, RunState DEF Crew, WorkersEnded, Gone
  <2> QED
    BY <2>1, <2>2, <2>3, <2>5, <2>6, EndsKeeps
<1>3. CASE Interrupted(r)
  <2>1. /\ run[r].phase = "alloc" /\ UNCHANGED <<strangers, worker>>
        /\ run' = [run EXCEPT ![r].phase = "gone"]
        /\ shm' = shm \ ({r} \X TakenBack(r, Step(r))) /\ headers' = headers \intersect shm'
        /\ blockMark' = [blockMark EXCEPT !.mishaps = blockMark.mishaps + 1,
                                          !.broken = blockMark.broken \union {r}]
    BY <1>3 DEF Interrupted, Phase, Unlinks
  <2>2. /\ blockMark' \in MarkTypes /\ blockMark'.dead = blockMark.dead
        /\ blockMark'.lost = blockMark.lost /\ blockMark'.broken = blockMark.broken \union {r}
        /\ blockMark'.bells = blockMark.bells
    BY <1>1, <2>1
  <2>3. ~Gone(r)
    BY <2>1 DEF Gone
  <2> QED
    BY <2>1, <2>2, <2>3, EndsKeeps
<1>4. CASE Releases(r)
  <2>1. /\ run[r].phase = "stop" /\ WorkersEnded(r) /\ UNCHANGED <<strangers, worker, blockMark>>
        /\ run' = [run EXCEPT ![r].phase = "gone"]
        /\ shm' = shm \ ({r} \X run[r].recorded) /\ headers' = headers \intersect shm'
    BY <1>4 DEF Releases, Phase, Unlinks
  <2>2. Mine(r)' = {} /\ ~Gone(r)
    BY <2>1, RunState DEF Holdings, Mine, Gone
  <2> QED
    BY <1>1, <2>1, <2>2, EndsKeeps
<1>5. CASE Killed(r)
  <2>1. /\ ~Gone(r) /\ UNCHANGED <<shm, headers, strangers, worker>>
        /\ run' = [run EXCEPT ![r].phase = "gone"]
        /\ blockMark' = [blockMark EXCEPT !.mishaps = blockMark.mishaps + 1,
                                          !.broken = blockMark.broken \union {r}]
    BY <1>5 DEF Killed, Phase
  <2>2. /\ blockMark' \in MarkTypes /\ blockMark'.dead = blockMark.dead
        /\ blockMark'.lost = blockMark.lost /\ blockMark'.broken = blockMark.broken \union {r}
        /\ blockMark'.bells = blockMark.bells
    BY <1>1, <2>1
  <2>3. shm' = shm \ ({r} \X {}) /\ headers' = headers \intersect shm'
    BY <2>1 DEF BlocksInv, BlocksTypes
  <2> QED
    BY <2>1, <2>2, <2>3, EndsKeeps
<1> QED
  BY <1>2, <1>3, <1>4, <1>5

(* Steps that leave runs and blocks alone but for a phase.                 *)
LEMMA StopsKeeps ==
  ASSUME BlocksInv, NEW r \in RunIds, StopsRun(r) PROVE BlocksInv'
<1>1. /\ run[r].phase = "spawn" /\ run' = [run EXCEPT ![r].phase = "stop"]
      /\ UNCHANGED <<shm, headers, strangers, worker, blockMark>>
  BY DEF StopsRun, Phase
<1>2. /\ run'[r].phase = "stop" /\ run'[r].recorded = run[r].recorded
      /\ \A s \in RunIds \ {r} : run'[s] = run[s]
  BY <1>1, RunState
<1>3. Spares(r)
  BY <1>1, <1>2 DEF Spares
<1>4. BlocksTypes'
  BY ZenonT(60), <1>1 DEF BlocksInv, BlocksTypes
<1>5. Holdings(r)' /\ Crew(r)'
  BY <1>1, <1>2, RunState DEF Holdings, Crew, Mine
<1>6. Sweeping(r)'
  BY <1>1, <1>2, RunState DEF Sweeping, BlocksInv, BlocksTypes, BlockNames
<1> QED
  BY <1>1, <1>3, <1>4, <1>5, <1>6, OwnStep DEF BlocksInv

(* A worker of run r starts, attaches or ends.                             *)
LEMMA WorkersKeep ==
  ASSUME BlocksInv, NEW r \in RunIds, NEW w \in 1 .. WorkersPerRun,
         StartsWorker(r, w) \/ Attaches(<<r, w>>) \/ WorkerExits(<<r, w>>)
  PROVE  BlocksInv'
<1> DEFINE me == <<r, w>>
           WorkerTypes == [at : {"off", "attaching", "up", "died"}, attached : Nat]
<1>0. /\ me \in RunIds \X (1 .. WorkersPerRun) /\ me[1] = r
      /\ worker \in [RunIds \X (1 .. WorkersPerRun) -> WorkerTypes] /\ worker[me] \in WorkerTypes
      /\ worker[me].at = "attaching" => worker[me].attached < Len(BlockOrder)
  BY DEF BlocksInv, BlocksTypes
<1>1. UNCHANGED <<run, shm, headers, strangers>>
  BY DEF StartsWorker, Attaches, WorkerExits
<1>2. \E x \in WorkerTypes :
        /\ worker' = [worker EXCEPT ![me] = x]
        /\ x.at = "attaching" => x.attached < Len(BlockOrder)
        /\ \/ run[r].phase = "spawn"
           \/ worker[me].at \in {"attaching", "up"} /\ x.at # "off"
        /\ run[r].phase = "gone" => worker[me].at \in {"attaching", "up"}
  <2>1. CASE StartsWorker(r, w)
    <3>1. [at |-> "attaching", attached |-> 0] \in WorkerTypes /\ 0 < Len(BlockOrder)
      BY OrderFacts
    <3> QED
      BY <2>1, <3>1 DEF StartsWorker
  <2>2. CASE WorkerExits(me)
    <3>1. [worker[me] EXCEPT !.at = "died"] \in WorkerTypes
      BY <1>0
    <3>2. worker' = [worker EXCEPT ![me] = [worker[me] EXCEPT !.at = "died"]]
      BY <1>0, <2>2 DEF WorkerExits
    <3>3. worker[me].at \in {"attaching", "up"}
      BY <2>2 DEF WorkerExits
    <3> HIDE DEF me
    <3> QED
      BY <1>0, <3>1, <3>2, <3>3
  <2>3. CASE Attaches(me)
    <3> DEFINE k == worker[me].attached
               y == [worker[me] EXCEPT !.attached = k + 1,
                       !.at = IF k + 1 = Len(BlockOrder) THEN "up" ELSE "attaching"]
               z == [worker[me] EXCEPT !.at = "died"]
    <3>1. worker' = [worker EXCEPT ![me] = y] \/ worker' = [worker EXCEPT ![me] = z]
      BY <1>0, <2>3 DEF Attaches
    <3>2. worker[me].at = "attaching" /\ k \in Nat /\ k < Len(BlockOrder) /\ Len(BlockOrder) \in Nat
      BY <1>0, <2>3, OrderFacts DEF Attaches
    <3>3. /\ y \in WorkerTypes /\ y.at # "off" /\ y.attached = k + 1
          /\ y.at = "attaching" => k + 1 # Len(BlockOrder)
      <4>1. k + 1 \in Nat
        BY <3>2
      <4> HIDE DEF me
      <4>2. y.attached = k + 1 /\ y.at = IF k + 1 = Len(BlockOrder) THEN "up" ELSE "attaching"
        BY <1>0
      <4>3. y \in WorkerTypes
        BY <1>0, <4>1
      <4> QED
        BY <4>2, <4>3
    <3>4. z \in WorkerTypes /\ z.at = "died"
      BY <1>0
    <3>5. y.at = "attaching" => y.attached < Len(BlockOrder)
      BY <3>2, <3>3
    <3> HIDE DEF me, y, z, k
    <3> QED
      BY <3>1, <3>2, <3>3, <3>4, <3>5
  <2> QED
    BY <2>1, <2>2, <2>3
<1>3. PICK x \in WorkerTypes :
        /\ worker' = [worker EXCEPT ![me] = x]
        /\ x.at = "attaching" => x.attached < Len(BlockOrder)
        /\ \/ run[r].phase = "spawn"
           \/ worker[me].at \in {"attaching", "up"} /\ x.at # "off"
        /\ run[r].phase = "gone" => worker[me].at \in {"attaching", "up"}
  BY <1>2
<1>4. run[r].phase \notin {"off", "sweep", "alloc"}
  BY <1>3, RunState DEF Crew
<1>5. ~(run[r].phase = "gone" /\ r \notin blockMark.broken)
  BY <1>3, RunState DEF Crew, WorkersEnded
<1>6. /\ blockMark'.broken = blockMark.broken /\ blockMark'.bells = blockMark.bells
      /\ blockMark'.dead = blockMark.dead /\ ~blockMark'.lost
      /\ blockMark' \in [broken : SUBSET RunIds, bells : SUBSET RunIds,
                         dead : [RunIds -> SUBSET BlockNames], lost : BOOLEAN, mishaps : Nat]
  <2>1. blockMark \in [broken : SUBSET RunIds, bells : SUBSET RunIds,
                       dead : [RunIds -> SUBSET BlockNames], lost : BOOLEAN, mishaps : Nat]
        /\ ~blockMark.lost /\ blockMark.mishaps + 1 \in Nat
    BY DEF BlocksInv, BlocksTypes
  <2>2. CASE StartsWorker(r, w)
    BY <2>1, <2>2 DEF StartsWorker
  <2>3. CASE WorkerExits(me)
    <3>1. blockMark' = [blockMark EXCEPT !.mishaps = blockMark.mishaps] \/
          blockMark' = [blockMark EXCEPT !.mishaps = blockMark.mishaps + 1]
      BY <2>3 DEF WorkerExits
    <3> QED
      BY <2>1, <3>1
  <2>4. CASE Attaches(me)
    <3> DEFINE b == BlockOrder[worker[me].attached + 1]
    <3>1. \/ blockMark' = blockMark
          \/ /\ blockMark' = [blockMark EXCEPT !.lost = @ \/ ~Gone(r)]
             /\ FamilyOf[b] # "bells" /\ ~(<<r, b>> \in shm /\ <<r, b>> \in headers)
      BY <1>0, <2>4 DEF Attaches, HeaderFits
    <3>2. b \in ToSet(BlockOrder)
      <4>1. worker[me].attached + 1 \in 1 .. Len(BlockOrder)
        BY <1>0, <2>4, OrderFacts DEF Attaches
      <4> QED
        BY <4>1, OrderFacts
    <3>3. ~Gone(r) => FamilyOf[b] = "bells" \/ (<<r, b>> \in headers /\ <<r, b>> \in shm)
      <4>1. ~Gone(r) => run[r].phase \in {"spawn", "stop"}
        BY <1>4, RunState DEF Gone
      <4>2. ~Gone(r) => {r} \X NamedBlocks \subseteq headers
        BY <4>1, RunState DEF Holdings
      <4> HIDE DEF b
      <4>3. FamilyOf[b] # "bells" => b \in NamedBlocks
        BY <3>2 DEF NamedBlocks
      <4> QED
        BY <4>2, <4>3 DEF BlocksInv, BlocksTypes
    <3> HIDE DEF b
    <3>4. blockMark' = blockMark \/
          (blockMark' = [blockMark EXCEPT !.lost = blockMark.lost \/ ~Gone(r)] /\ Gone(r))
      BY <3>1, <3>3
    <3> QED
      BY <2>1, <3>4
  <2> QED
    BY <2>2, <2>3, <2>4
<1>7. \A v \in RunIds \X (1 .. WorkersPerRun) : v # me => worker'[v] = worker[v]
  BY <1>0, <1>3
<1>8. Spares(r)
  <2>1. \A s \in RunIds \ {r}, u \in 1 .. WorkersPerRun :
          <<s, u>> \in RunIds \X (1 .. WorkersPerRun) /\ <<s, u>> # me
    OBVIOUS
  <2>2. \A s \in RunIds \ {r}, u \in 1 .. WorkersPerRun : worker'[<<s, u>>] = worker[<<s, u>>]
    BY <1>7, <2>1
  <2> QED
    BY <1>1, <1>6, <2>2 DEF Spares
<1>9. BlocksTypes'
  <2>1. worker' \in [RunIds \X (1 .. WorkersPerRun) -> WorkerTypes]
    BY <1>0, <1>3
  <2>2. \A v \in DOMAIN worker' : worker'[v].at = "attaching" => worker'[v].attached < Len(BlockOrder)
    BY <1>0, <1>3 DEF BlocksInv, BlocksTypes
  <2> QED
    BY <1>1, <1>6, <2>1, <2>2 DEF BlocksInv, BlocksTypes
<1>10. Holdings(r)' /\ Sweeping(r)'
  BY <1>1, <1>6, RunState DEF Holdings, Mine, Step, Sweeping
<1>11. Crew(r)'
  BY <1>1, <1>4, <1>5, <1>6 DEF Crew
<1> QED
  BY <1>6, <1>8, <1>9, <1>10, <1>11, OwnStep

LEMMA OutsideKeeps ==
  ASSUME BlocksInv, NEW r \in RunIds, PidIsReused(r) \/ TrackerRemoves(r) PROVE BlocksInv'
<1>1. /\ run[r].phase = "gone" /\ UNCHANGED <<run, worker, blockMark>>
      /\ \/ strangers' = strangers \union {r} /\ UNCHANGED <<shm, headers>>
         \/ /\ shm' = shm \ Mine(r) /\ headers' = headers \ Mine(r) /\ UNCHANGED strangers
  BY DEF PidIsReused, TrackerRemoves
<1>2. Spares(r)
  BY <1>1 DEF Spares, Mine
<1>3. BlocksTypes'
  BY <1>1 DEF BlocksInv, BlocksTypes
<1>4. Holdings(r)' /\ Crew(r)'
  BY <1>1, RunState DEF Holdings, Crew, Mine, WorkersEnded
<1>5. Sweeping(r)'
  BY <1>1, RunState DEF Sweeping
<1> QED
  BY <1>1, <1>2, <1>3, <1>4, <1>5, OwnStep DEF BlocksInv

LEMMA BlocksNextInv ==
  ASSUME BlocksInv, [BlocksNext]_blocksVars PROVE BlocksInv'
<1>1. CASE UNCHANGED blocksVars
  BY <1>1 DEF blocksVars, BlocksInv, BlocksTypes, Holdings, Crew, Sweeping, Mine, Step, WorkersEnded
<1>2. ASSUME NEW r \in RunIds,
             \/ Binds(r) \/ BindFails(r) \/ CreatesBlock(r) \/ RecordsBlock(r)
             \/ AllocationFails(r) \/ Interrupted(r) \/ StopsRun(r) \/ Releases(r) \/ Killed(r)
             \/ SweepStarts(r) \/ PidIsReused(r) \/ TrackerRemoves(r)
             \/ \E n \in run[r].listing : SweepLooks(r, n)
             \/ \E w \in 1 .. WorkersPerRun : StartsWorker(r, w)
      PROVE  BlocksInv'
  BY <1>2, BindsKeeps, CreatesKeeps, RecordsKeeps, EndingsKeep, StopsKeeps, SweepStartsKeeps,
     OutsideKeeps, SweepLooksKeeps, WorkersKeep
<1>3. ASSUME NEW v \in DOMAIN worker, Attaches(v) \/ WorkerExits(v) PROVE BlocksInv'
  <2>1. PICK r \in RunIds, w \in 1 .. WorkersPerRun : v = <<r, w>>
    BY <1>3 DEF BlocksInv, BlocksTypes
  <2> QED
    BY <1>3, <2>1, WorkersKeep
<1> QED
  BY <1>1, <1>2, <1>3 DEF BlocksNext

(* Blocks of a living run stay, a run that ended by itself leaves nothing, *)
(* and a sweep finds what was dead when it began: after any sequence of    *)
(* failures, kills, reused pids and overlapping runs.                      *)
THEOREM BlocksStaySound == BlocksSpec => []BlocksAreSound
<1>1. BlocksInv => BlocksAreSound
  <2> SUFFICES ASSUME BlocksInv PROVE BlocksAreSound
    OBVIOUS
  <2>1. LiveBlocksStay
    BY DEF BlocksInv, Holdings, Crew, LiveBlocksStay
  <2>2. NothingStays
    BY DEF BlocksInv, Holdings, NothingStays
  <2>3. SweepFinds
    BY DEF BlocksInv, Sweeping, SweepFinds
  <2> QED
    BY <2>1, <2>2, <2>3 DEF BlocksAreSound
<1> QED
  BY <1>1, BlocksInitInv, BlocksNextInv, PTL DEF BlocksSpec

----------------------------------------------------------------------------
(* Parts that meet the same outside world                                  *)

(* Every configuration the topology accepts keeps its adapters reachable,  *)
(* the numbers of the wire stay with the fields they were given to, and    *)
(* what main.py declares is built, run and stopped whole (_processes.py,   *)
(* _supervisor.py, application.py; grpc/codefirst/_lock.py;                *)
(* core/container).                                                        *)
THEOREM StartupStaysSound ==
  TopologySpec /\ ProtoSpec /\ MainSpec /\ WiringSpec => []StartupIsSound
<1>1. TopologyIsSound /\ NumbersNeverReused /\ ProgramIsSound /\ WiringIsSound
        => StartupIsSound
  BY DEF StartupIsSound
<1> QED
  BY <1>1, TopologyHolds, NumbersStayUnique, ProgramStaysSound, WiringStaysSound, PTL

(* Whatever is put, replaced, downloaded, logged and swept, readers see    *)
(* whole objects, lost records are counted and a living run keeps its      *)
(* blocks (localfs/_storage.py, web/files/_download.py,                    *)
(* core/logging/_file.py, _cleanup.py).                                    *)
THEOREM FilesStaySound == StorageSpec /\ LogSpec /\ BlocksSpec => []FilesAreSound
<1>1. StorageIsSound /\ NoSilentLoss /\ BlocksAreSound => FilesAreSound
  BY DEF FilesAreSound
<1> QED BY <1>1, StorageStaysSound, LogLosesNothing, BlocksStaySound, PTL
=============================================================================
