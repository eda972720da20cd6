---------------------------- MODULE WorkerWatch ----------------------------
(***************************************************************************)
(* Who notices that an event loop has stopped: the heartbeat cells of      *)
(* _watchdog.py, the supervisor that reads them between its respawns, the  *)
(* stall reporter of each worker and its short deadline for accept() under *)
(* the lock of _accept_lock.py, and the orphan guard.  Time is discrete:   *)
(* with every tick the tasks and threads of a worker that can run do, and  *)
(* the supervisor makes one round, a step at a time, between which loops   *)
(* block and return, processes boot, close and die.                        *)
(***************************************************************************)
EXTENDS Integers, FiniteSets

CONSTANTS
  Watched,      \* number of workers
  Silence,      \* SILENCE_SECONDS, in ticks as everything below
  BootGrace,    \* STARTUP_GRACE_SECONDS
  AcceptLimit,  \* HAN_CHOT_ACCEPT
  CutGrace,     \* EXIT_GRACE_SECONDS
  Delay,        \* _RESPAWN_DELAY
  DelayMax,     \* _RESPAWN_DELAY_MAX
  ResetAfter,   \* _RESPAWN_RESET_AFTER
  MaxTroubles   \* bound: loops that block, and processes that die by themselves

Index == 1 .. Watched

ASSUME WatchAssumption ==
  /\ Watched \in Nat \ {0}
  /\ Silence \in Nat \ {0} /\ BootGrace \in Nat \ {0} /\ CutGrace \in Nat \ {0}
  /\ AcceptLimit \in 1 .. Silence
  /\ Delay \in Nat /\ DelayMax \in Nat /\ ResetAfter \in Nat
  /\ MaxTroubles \in Nat

VARIABLES
  boss,      \* the supervisor: where it is, whom it reads or respawns, the mark it
             \* read, and, as history, how long that loop had really been quiet
  proc,      \* proc[w]: the process in slot w
  beat,      \* beat[w]: the cell in shared memory: age of the mark, pats counted
  lock,      \* who is inside accept() under the lock
  lockAge,   \* for how long
  due,       \* the supervisor has not made its round in this tick
  troubles

watchVars == <<boss, proc, beat, lock, lockAge, due, troubles>>

Never == -1
Blank == [moc |-> Never, so |-> 0]       \* what reset() leaves: never patted

Newborn(deaths) ==
  [life |-> "up", loop |-> "booting", age |-> 0, quiet |-> 0, told |-> FALSE, alone |-> 0,
   deaths |-> deaths, verdict |-> "none"]

Watching == [at |-> "watch", who |-> 0, todo |-> {}, moc |-> Never, seen |-> 0, sleep |-> 0]
Absent   == [Watching EXCEPT !.at = "gone"]

WatchInit ==
  /\ boss = Watching
  /\ proc = [w \in Index |-> Newborn(0)]
  /\ beat = [w \in Index |-> Blank]
  /\ lock = 0 /\ lockAge = 0
  /\ due = TRUE
  /\ troubles = 0

Smaller(a, b) == IF a < b THEN a ELSE b
Up(w) == proc[w].life = "up"

\* Where the counters saturate: past the last value that is told apart.
AgeCap   == (IF BootGrace > ResetAfter THEN BootGrace ELSE ResetAfter) + 1
QuietCap == (IF BootGrace > Silence THEN BootGrace ELSE Silence) + 1
LockCap  == Silence + 3 + Watched * DelayMax
-----------------------------------------------------------------------------
(* The worker: Watchdog, StallReporter, OrphanGuard *)

\* Heartbeats.pat: the mark and the count, written together.
Patted == [moc |-> 0, so |-> 1]

\* ClusterMember.listen: the guards start, and the first pat is given at once.
Boots(w) ==
  /\ Up(w) /\ proc[w].loop = "booting"
  /\ beat' = [beat EXCEPT ![w] = Patted]
  /\ proc' = [proc EXCEPT ![w].loop = "free", ![w].quiet = 0]
  /\ UNCHANGED <<boss, lock, lockAge, due, troubles>>

\* The loop blocks: anywhere, or in accept() with the lock taken.
Hangs(w, where) ==
  /\ troubles < MaxTroubles /\ troubles' = troubles + 1
  /\ Up(w) /\ proc[w].loop = "free"
  /\ proc' = [proc EXCEPT ![w].loop = where]
  /\ IF where = "accept" THEN lock = 0 /\ lock' = w /\ lockAge' = 0
     ELSE UNCHANGED <<lock, lockAge>>
  /\ UNCHANGED <<boss, beat, due>>

\* The call returns; accept() gives the lock back.
Unblocks(w) ==
  /\ Up(w) /\ proc[w].loop \in {"stuck", "accept"}
  /\ proc' = [proc EXCEPT ![w].loop = "free"]
  /\ lock' = IF lock = w THEN 0 ELSE lock
  /\ lockAge' = IF lock = w THEN 0 ELSE lockAge
  /\ UNCHANGED <<boss, beat, due, troubles>>

\* StallReporter._kiem_khoa_accept: late in accept() and holding the lock.
Overdue(w) == beat[w].moc >= AcceptLimit /\ lock = w /\ lockAge >= AcceptLimit

\* The turn of a worker that is up: a pat if the loop turns, SIGTERM from one of
\* the two guard threads, and in the end _cut.  The orphan guard starts with
\* listen() and is stopped by quiesce().
Guarded(w) == proc[w].loop \in {"free", "stuck", "accept"}
CutNever(w) == FALSE                              \* mutant: no timer behind the signal
Cut(w) == proc[w].alone > CutGrace

Turned(w) ==
  LET alone == IF boss.at = "gone" /\ (Guarded(w) \/ proc[w].alone > 0)
               THEN Smaller(proc[w].alone + 1, CutGrace + 1) ELSE 0
      turns == proc[w].loop = "free"
  IN  [proc[w] EXCEPT !.age = Smaller(@ + 1, AgeCap),
                      !.quiet = IF turns THEN 0 ELSE Smaller(@ + 1, QuietCap),
                      !.alone = alone,
                      !.told = @ \/ Overdue(w) \/ (alone > 0 /\ Guarded(w)),
                      !.life = IF Cut(w) THEN "dead" ELSE @]

\* run_with_signals: the handler of SIGTERM runs on the main thread, when the
\* call that blocks it has returned.  Watchdog and guards stop in quiesce().
Obeys(w) ==
  /\ Up(w) /\ proc[w].told /\ proc[w].loop = "free"
  /\ proc' = [proc EXCEPT ![w].loop = "closing"]
  /\ UNCHANGED <<boss, beat, lock, lockAge, due, troubles>>

\* Of a process that is gone only its age matters, and why it was killed.
Departed(p) == [p EXCEPT !.life = "dead", !.loop = "free", !.quiet = 0, !.told = FALSE, !.alone = 0]

Quits(w) ==
  /\ Up(w) /\ proc[w].loop = "closing"
  /\ proc' = [proc EXCEPT ![w] = Departed(@)]
  /\ UNCHANGED <<boss, beat, lock, lockAge, due, troubles>>

\* The process dies of something else; the system gives the lock to the next.
Crashes(w) ==
  /\ troubles < MaxTroubles /\ troubles' = troubles + 1
  /\ Up(w)
  /\ proc' = [proc EXCEPT ![w] = Departed(@)]
  /\ lock' = IF lock = w THEN 0 ELSE lock
  /\ UNCHANGED <<boss, beat, lockAge, due>>
-----------------------------------------------------------------------------
(* The supervisor: _watch, _respawn, _reap_hung_children *)

NextOf(S) == CHOOSE w \in S : \A v \in S : w <= v

\* _respawn: longer and longer between attempts, in the one thread there is.
Deaths(w) == IF proc[w].age >= ResetAfter THEN 0 ELSE proc[w].deaths

\* _watch goes on: to the next child that had exited, or to the reading.
GoesOn(exited) ==
  \/ /\ exited = {}
     /\ boss' = [boss EXCEPT !.at = "read", !.todo = {w \in Index : Up(w)'}]
  \/ /\ exited # {}
     /\ \E pause \in 0 .. DelayMax :
          /\ pause = Smaller(Delay * 2 ^ Deaths(NextOf(exited)), DelayMax)
          /\ boss' = [boss EXCEPT !.at = "sleep", !.todo = exited, !.who = NextOf(exited),
                                  !.sleep = pause]

\* mp_connection.wait: the children that have exited.
Wakes ==
  /\ boss.at = "watch" /\ due
  /\ UNCHANGED <<proc, beat, lock, lockAge, due, troubles>>
  /\ GoesOn({w \in Index : ~Up(w)})

Dozes ==
  /\ boss.at = "sleep" /\ boss.sleep > 0 /\ due
  /\ boss' = [boss EXCEPT !.sleep = @ - 1]
  /\ due' = FALSE
  /\ UNCHANGED <<proc, beat, lock, lockAge, troubles>>

Kept(w)  == beat[w]                               \* mutant: no reset() at a respawn
Reset(w) == Blank

Spawns ==
  /\ boss.at = "sleep" /\ boss.sleep = 0 /\ due
  /\ LET w == boss.who
     IN  /\ proc' = [proc EXCEPT ![w] = Newborn(Smaller(Deaths(w) + 1, DelayMax))]
         /\ beat' = [beat EXCEPT ![w] = Reset(w)]
         /\ GoesOn(boss.todo \ {w})
  /\ UNCHANGED <<lock, lockAge, due, troubles>>

\* _reap_hung_children goes over the children; silent_for reads the cell in two
\* accesses, first the mark, then the count.
ReadsMark ==
  /\ boss.at = "read" /\ boss.todo # {}
  /\ LET w == NextOf(boss.todo)
     IN  boss' = [boss EXCEPT !.at = "judge", !.who = w, !.moc = beat[w].moc, !.seen = proc[w].quiet]
  /\ UNCHANGED <<proc, beat, lock, lockAge, due, troubles>>

Hung(w, so) ==
  \/ so = 0 /\ proc[w].age > BootGrace
  \/ so > 0 /\ (boss.moc = Never \/ boss.moc > Silence)

Judges ==
  /\ boss.at = "judge"
  /\ LET w == boss.who
         hung == Up(w) /\ Hung(w, beat[w].so)
     IN  /\ boss' = [boss EXCEPT !.at = "read", !.todo = @ \ {w}, !.moc = Never, !.seen = 0]
         /\ proc' = IF hung THEN [proc EXCEPT ![w].life = "dead", ![w].told = FALSE, ![w].quiet = boss.seen,
                                    ![w].verdict = IF boss.moc = Never /\ beat[w].so > 0
                                                   THEN "torn" ELSE "hung"]
                    ELSE proc
         /\ lock' = IF hung /\ lock = w THEN 0 ELSE lock
  /\ UNCHANGED <<beat, lockAge, due, troubles>>

RoundEnds ==
  /\ boss.at = "read" /\ boss.todo = {}
  /\ boss' = [boss EXCEPT !.at = "watch", !.who = 0]
  /\ due' = FALSE
  /\ UNCHANGED <<proc, beat, lock, lockAge, troubles>>

\* The supervisor is killed: nobody reads the cells any more.
BossDies ==
  /\ boss.at # "gone" /\ troubles < MaxTroubles /\ troubles' = troubles + 1
  /\ boss' = Absent
  /\ due' = FALSE
  /\ UNCHANGED <<proc, beat, lock, lockAge>>
-----------------------------------------------------------------------------
Tick ==
  /\ ~due
  /\ proc' = [w \in Index |-> IF Up(w) THEN Turned(w) ELSE proc[w]]
  /\ beat' = [w \in Index |->
                IF Up(w) /\ proc[w].loop = "free" THEN Patted
                ELSE IF beat[w].moc = Never THEN beat[w]
                ELSE [beat[w] EXCEPT !.moc = Smaller(@ + 1, QuietCap)]]
  /\ lock' = IF lock # 0 /\ proc'[lock].life = "dead" THEN 0 ELSE lock
  /\ lockAge' = IF lock = 0 THEN 0 ELSE Smaller(lockAge + 1, LockCap)
  /\ due' = (boss.at # "gone")
  /\ UNCHANGED <<boss, troubles>>

BossTurn == Wakes \/ Dozes \/ Spawns \/ ReadsMark \/ Judges \/ RoundEnds
Goes(w) == Obeys(w) \/ Quits(w)

WatchNext ==
  \/ BossTurn \/ BossDies \/ Tick
  \/ \E w \in Index : Goes(w) \/ Boots(w) \/ Unblocks(w) \/ Crashes(w)
  \/ \E w \in Index, where \in {"stuck", "accept"} : Hangs(w, where)

WatchSpec == WatchInit /\ [][WatchNext]_watchVars
-----------------------------------------------------------------------------
WatchTypeOK ==
  /\ boss \in [at : {"watch", "sleep", "read", "judge", "gone"}, who : 0 .. Watched,
               todo : SUBSET Index, moc : {Never} \cup Nat, seen : Nat, sleep : 0 .. DelayMax]
  /\ proc \in [Index -> [life : {"up", "dead"},
                         loop : {"booting", "free", "stuck", "accept", "closing"}, age : Nat,
                         quiet : Nat, told : BOOLEAN, alone : 0 .. CutGrace + 1, deaths : Nat,
                         verdict : {"none", "hung", "torn"}]]
  /\ beat \in [Index -> [moc : {Never} \cup Nat, so : {0, 1}]]
  /\ lock \in {0} \cup Index /\ lockAge \in Nat
  /\ due \in BOOLEAN
  /\ troubles \in 0 .. MaxTroubles

\* The supervisor kills for silence only a process whose own loop has given no
\* sign for longer than it may, since its last pat or since its birth: never for
\* the mark its predecessor in the slot left, however respawns, boots and reads
\* interleave.  (A first pat between the two accesses of a read is told apart.)
KillsOnlyTheSilent ==
  \A w \in Index : proc[w].verdict = "hung" =>
    proc[w].quiet > (IF proc[w].loop = "booting" THEN BootGrace ELSE Silence)

\* While the supervisor lives, nobody keeps the others out of accept() for longer
\* than the silence it allows, the tick it takes to see it, and the sleeps of the
\* respawns it may be in: those of all the other workers.
LockHeldBounded ==
  boss.at # "gone" => lockAge <= Silence + 1 + (Watched - 1) * DelayMax

\* A blocked loop does not stay: it comes back, or its process is ended - by the
\* supervisor, or by the timer of the orphan guard when the supervisor is gone.
BlockedEnds ==
  \A w \in Index :
    (Up(w) /\ proc[w].loop \in {"stuck", "accept"}) ~> (~Up(w) \/ proc[w].loop = "free")

\* The watchdog and the accept lock: nobody is killed that turns its loop, and
\* nobody keeps the others out for good (_watchdog.py:186-338, _accept_lock.py).
WatchdogIsSound == KillsOnlyTheSilent /\ LockHeldBounded
=============================================================================
