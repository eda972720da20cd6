---------------------------- MODULE PrimaryRole ----------------------------
(***************************************************************************)
(* Who is primary: the supervisor of xime/core/bootstrap/_supervisor.py,   *)
(* its workers (application.py, _cluster.py) and the control channel       *)
(* between them.  The supervisor is one thread; each worker is one event   *)
(* loop on which the startup sequence and the handler of the control       *)
(* channel interleave at every await.  A worker dies or hangs anywhere and *)
(* is respawned; what it had not read of the control channel stays in      *)
(* shared memory and is read by the process that replaces it.              *)
(***************************************************************************)
EXTENDS Integers, Sequences, FiniteSets

CONSTANTS
  WorkerCount,     \* workers, numbered as in the `processes:' configuration
  FirstPrimary,    \* topology.primary_id
  Scaling,         \* Scaling[k]: "replicated" or "singleton", in order of use()
  PromotionLimit,  \* _PROMOTION_LIMIT
  MaxFaults,       \* bound: crashes and hangs over the behaviour
  MaxRefusals      \* bound: promotions that fail

Worker  == 0 .. WorkerCount - 1
Adapter == DOMAIN Scaling
Nobody  == -1

ASSUME RoleAssumption ==
  /\ WorkerCount \in Nat \ {0}
  /\ FirstPrimary \in Worker
  /\ Scaling \in Seq({"replicated", "singleton"})
  /\ PromotionLimit \in Nat \ {0}
  /\ MaxFaults \in Nat
  /\ MaxRefusals \in Nat

VARIABLES
  boss,      \* the supervisor: program counter and attributes
  worker,    \* worker[w]: the process and its Application
  mail,      \* mail[w]: PROMOTE messages for w that are unread, oldest first
  inbox,     \* what the supervisor has not read: run-once-done, promote-failed
  onceEver,  \* history: some run_once() of the cluster has returned
  misled,    \* history: a worker obeyed a PROMOTE sent to its predecessor
  faults, refusals

vars == <<boss, worker, mail, inbox, onceEver, misled, faults, refusals>>

Unborn ==
  [life |-> "unborn", lives |-> 0, pc |-> "boot", k |-> 0, role |-> FALSE, needed |-> FALSE,
   ctl |-> "idle", waiting |-> {}, launched |-> {}, standby |-> {}, started |-> {},
   serving |-> [k \in Adapter |-> 0]]

Init ==
  /\ boss = [pc |-> "first", ready |-> {}, who |-> Nobody, batch |-> <<>>, children |-> {},
             primary |-> FirstPrimary, onceDone |-> FALSE, recent |-> 0, stopped |-> FALSE]
  /\ worker = [w \in Worker |-> Unborn]
  /\ mail = [w \in Worker |-> <<>>]
  /\ inbox = <<>>
  /\ onceEver = FALSE
  /\ misled = FALSE
  /\ faults = 0
  /\ refusals = 0

Least(S)  == CHOOSE x \in S : \A y \in S : x <= y
Exists(w) == worker[w].life \in {"alive", "hung"}
-----------------------------------------------------------------------------
(* The supervisor *)

SpawnAsPrimary(b, w) == w = b.primary

NeverOnce(b) == FALSE                             \* mutant: the flag is always 0
StillOnce(b) == ~b.onceDone                       \* does a primary have to run_once?

\* _spawn: a fresh process, told whether it is primary and has to run_once.
Spawned(b, w) ==
  [worker EXCEPT ![w] = [Unborn EXCEPT !.life = "alive", !.lives = worker[w].lives + 1,
                                       !.role = SpawnAsPrimary(b, w),
                                       !.needed = SpawnAsPrimary(b, w) /\ StillOnce(b)]]

SpawnFirst ==
  /\ boss.pc = "first"
  /\ boss' = [boss EXCEPT !.pc = "await", !.children = {FirstPrimary}]
  /\ worker' = Spawned(boss, FirstPrimary)
  /\ UNCHANGED <<mail, inbox, onceEver, misled, faults, refusals>>

\* _await_run_once gives up waiting: done, the first worker died, or 60 s.
AwaitEnds(timeout) ==
  /\ boss.pc = "await" /\ boss.batch = <<>>
  /\ boss.onceDone \/ ~Exists(FirstPrimary) \/ timeout
  /\ boss' = [boss EXCEPT !.pc = "rest"]
  /\ UNCHANGED <<worker, mail, inbox, onceEver, misled, faults, refusals>>

\* run: the remaining workers, then _watch.
SpawnRest ==
  /\ boss.pc = "rest"
  /\ LET rest == Worker \ boss.children
     IN  IF rest = {}
         THEN /\ boss' = [boss EXCEPT !.pc = "wait"]
              /\ UNCHANGED worker
         ELSE /\ boss' = [boss EXCEPT !.children = @ \cup {Least(rest)}]
              /\ worker' = Spawned(boss, Least(rest))
  /\ UNCHANGED <<mail, inbox, onceEver, misled, faults, refusals>>

\* _watch: the sentinels of the children that have exited.
Wait ==
  /\ boss.pc = "wait"
  /\ boss' = [boss EXCEPT !.pc = "control", !.ready = {w \in boss.children : ~Exists(w)},
                          !.batch = inbox]
  /\ inbox' = <<>>
  /\ UNCHANGED <<worker, mail, onceEver, misled, faults, refusals>>

\* _pump_control inside _await_run_once.
AwaitPumps ==
  /\ boss.pc = "await" /\ ~boss.onceDone /\ boss.batch = <<>> /\ inbox # <<>>
  /\ boss' = [boss EXCEPT !.batch = inbox]
  /\ inbox' = <<>>
  /\ UNCHANGED <<worker, mail, onceEver, misled, faults, refusals>>

\* _promote_someone: the first live worker in the order of the configuration,
\* else the one about to be restarted, unless there were too many promotions.
Candidate(b, exclude, restart) ==
  LET alive == {w \in b.children \ {exclude} : Exists(w)}
  IN  IF alive = {} THEN restart ELSE Least(alive)

PromoteUnlimited(b, exclude, restart) ==          \* mutant: no domino guard
  [b EXCEPT !.primary = Candidate(b, exclude, restart),
            !.recent = IF Candidate(b, exclude, restart) = Nobody THEN @ ELSE @ + 1]

Promote(b, exclude, restart) ==
  LET c == Candidate(b, exclude, restart)
  IN  IF b.stopped THEN b
      ELSE IF b.recent >= PromotionLimit THEN [b EXCEPT !.stopped = TRUE, !.primary = Nobody]
      ELSE IF c = Nobody THEN [b EXCEPT !.primary = Nobody]
      ELSE [b EXCEPT !.recent = @ + 1, !.primary = c]

ToldNobody(b, restart) == mail                    \* mutant: nothing is announced

\* The PROMOTE that goes with a change of role; a reserved role needs none.
Told(b, restart) ==
  IF b.recent > boss.recent /\ b.primary # restart
  THEN [mail EXCEPT ![b.primary] =
          Append(@, [once |-> StillOnce(b), life |-> worker[b.primary].lives])]
  ELSE mail

\* _on_control, for the two reports that change the supervisor.
HandleReport ==
  /\ boss.pc \in {"await", "control"} /\ boss.batch # <<>>
  /\ LET report == Head(boss.batch)
         b == [boss EXCEPT !.batch = Tail(@)]
     IN  \/ /\ report.key = "run-once-done"
            /\ boss' = [b EXCEPT !.onceDone = TRUE]
            /\ UNCHANGED mail
         \/ /\ report.key = "promote-failed"
            /\ boss' = Promote(b, report.who, Nobody)
            /\ mail' = Told(boss', Nobody)
  /\ UNCHANGED <<worker, inbox, onceEver, misled, faults, refusals>>

\* _respawn: join() has returned, so the process is gone; hand the role on.
Bury(w) ==
  /\ boss.pc = "control" /\ boss.batch = <<>>
  /\ w \in boss.ready
  /\ LET b == [boss EXCEPT !.pc = "sleep", !.who = w, !.ready = @ \ {w}, !.children = @ \ {w}]
     IN  IF w = boss.primary
         THEN /\ boss' = Promote([b EXCEPT !.primary = Nobody], w, w)
              /\ mail' = Told(boss', w)
         ELSE /\ boss' = b
              /\ UNCHANGED mail
  /\ UNCHANGED <<worker, inbox, onceEver, misled, faults, refusals>>

\* _respawn after its delay.
Respawn ==
  /\ boss.pc = "sleep"
  /\ boss' = [boss EXCEPT !.pc = "control", !.who = Nobody, !.children = @ \cup {boss.who}]
  /\ worker' = Spawned(boss, boss.who)
  /\ UNCHANGED <<mail, inbox, onceEver, misled, faults, refusals>>

\* _reap_hung_children: kill, and nothing else.
Reap ==
  /\ boss.pc = "control" /\ boss.batch = <<>> /\ boss.ready = {}
  /\ boss' = [boss EXCEPT !.pc = "wait"]
  /\ worker' = [w \in Worker |-> IF worker[w].life = "hung"
                                 THEN [worker[w] EXCEPT !.life = "dead"] ELSE worker[w]]
  /\ UNCHANGED <<mail, inbox, onceEver, misled, faults, refusals>>

\* A promotion leaves the window of 60 s.
WindowSlides ==
  /\ boss.recent > 0
  /\ boss' = [boss EXCEPT !.recent = @ - 1]
  /\ UNCHANGED <<worker, mail, inbox, onceEver, misled, faults, refusals>>
-----------------------------------------------------------------------------
(* A worker: the startup sequence *)

Report(w, key) == inbox' = Append(inbox, [key |-> key, who |-> w])

\* _start_adapters and _serve_adapters up to the next await: singletons are put
\* on standby unless the worker is primary, and once every adapter has had its
\* turn all that are started are served.
RunFrom(x, k) ==
  LET ends == {j \in k .. Len(Scaling) + 1 :
                 j \in Adapter => x.role \/ Scaling[j] # "singleton"}
      j    == Least(ends)
      y    == [x EXCEPT !.standby = @ \cup (k .. j - 1), !.k = j, !.pc = "starting"]
  IN  IF j \in Adapter THEN y
      ELSE [y EXCEPT !.pc = "serving",
                     !.serving = [i \in Adapter |-> IF i \in x.started THEN @[i] + 1 ELSE @[i]]]

\* _start_runtime up to and including ClusterMember.listen.
Listen(w) ==
  /\ worker[w].life = "alive" /\ worker[w].pc = "boot"
  /\ worker' = [worker EXCEPT ![w] = IF @.role /\ @.needed THEN [@ EXCEPT !.pc = "once"]
                                     ELSE RunFrom(@, 1)]
  /\ UNCHANGED <<boss, mail, inbox, onceEver, misled, faults, refusals>>

\* run_once() of the startup returns.
StartupOnce(w) ==
  /\ worker[w].life = "alive" /\ worker[w].pc = "once"
  /\ worker' = [worker EXCEPT ![w] = RunFrom(@, 1)]
  /\ onceEver' = TRUE
  /\ Report(w, "run-once-done")
  /\ UNCHANGED <<boss, mail, misled, faults, refusals>>

\* adapter.start() of the startup returns.
AdapterStarts(w) ==
  /\ worker[w].life = "alive" /\ worker[w].pc = "starting"
  /\ LET x == worker[w]
     IN  worker' = [worker EXCEPT ![w] = RunFrom([x EXCEPT !.started = @ \cup {x.k}], x.k + 1)]
  /\ UNCHANGED <<boss, mail, inbox, onceEver, misled, faults, refusals>>
-----------------------------------------------------------------------------
(* A worker: the handler of the control channel *)

\* _start_standby_adapters up to its first await or its end.
Launch(x) ==
  IF x.standby = {} THEN [x EXCEPT !.ctl = "idle"]
  ELSE [x EXCEPT !.ctl = "standby", !.waiting = x.standby, !.launched = {}, !.standby = {}]

\* _on_control and _accept_promotion up to the first await.
ReadPromote(w) ==
  /\ worker[w].life = "alive" /\ worker[w].pc # "boot" /\ worker[w].ctl = "idle"
  /\ mail[w] # <<>>
  /\ LET x == worker[w]
         m == Head(mail[w])
     IN  IF x.role
         THEN UNCHANGED <<worker, misled>>
         ELSE /\ worker' = [worker EXCEPT ![w] =
                              IF m.once THEN [x EXCEPT !.role = TRUE, !.ctl = "once"]
                              ELSE Launch([x EXCEPT !.role = TRUE])]
              /\ misled' = (misled \/ m.life # x.lives)
  /\ mail' = [mail EXCEPT ![w] = Tail(@)]
  /\ UNCHANGED <<boss, inbox, onceEver, faults, refusals>>

\* run_once() of a promotion returns.
PromotionOnce(w) ==
  /\ worker[w].life = "alive" /\ worker[w].ctl = "once"
  /\ worker' = [worker EXCEPT ![w] = Launch(@)]
  /\ onceEver' = TRUE
  /\ Report(w, "run-once-done")
  /\ UNCHANGED <<boss, mail, misled, faults, refusals>>

\* mutant: the promoted adapters are listed but not served
ListLaunched(x, launched) ==
  [x EXCEPT !.ctl = "idle", !.waiting = {}, !.launched = {}, !.started = @ \cup launched]
ServeLaunched(x, launched) ==
  [x EXCEPT !.ctl = "idle", !.waiting = {}, !.launched = {}, !.started = @ \cup launched,
            !.serving = [i \in Adapter |-> IF i \in launched THEN @[i] + 1 ELSE @[i]]]

\* start() of the next standby adapter returns; after the last one all of them
\* are listed as started and served.
StandbyStarts(w) ==
  /\ worker[w].life = "alive" /\ worker[w].ctl = "standby"
  /\ LET x == worker[w]
         launched == x.launched \cup {Least(x.waiting \ x.launched)}
     IN  worker' = [worker EXCEPT ![w] =
           IF launched = x.waiting THEN ServeLaunched(x, launched)
           ELSE [x EXCEPT !.launched = launched]]
  /\ UNCHANGED <<boss, mail, inbox, onceEver, misled, faults, refusals>>

RefusedKeepsRole(x) ==                            \* mutant: the role is kept
  [x EXCEPT !.ctl = "idle", !.standby = x.waiting, !.waiting = {}, !.launched = {}]
RefusedForgets(x) ==                              \* mutant: standby is lost
  [x EXCEPT !.role = FALSE, !.ctl = "idle", !.waiting = {}, !.launched = {}]

\* The rollback of a promotion: what was launched is stopped and all of it waits
\* again.
Refused(x) ==
  [x EXCEPT !.role = FALSE, !.ctl = "idle", !.waiting = {}, !.launched = {},
            !.standby = IF x.ctl = "standby" THEN x.waiting ELSE @]

\* run_once() or start() raises during a promotion: the worker goes on without.
Refuse(w) ==
  /\ refusals < MaxRefusals
  /\ worker[w].life = "alive" /\ worker[w].ctl # "idle"
  /\ worker' = [worker EXCEPT ![w] = Refused(@)]
  /\ Report(w, "promote-failed")
  /\ refusals' = refusals + 1
  /\ UNCHANGED <<boss, mail, onceEver, misled, faults>>
-----------------------------------------------------------------------------
(* Faults *)

\* A worker dies: a crash, a kill, or an error that startup lets through.
Crash(w) ==
  /\ faults < MaxFaults
  /\ Exists(w)
  /\ worker' = [worker EXCEPT ![w].life = "dead"]
  /\ faults' = faults + 1
  /\ UNCHANGED <<boss, mail, inbox, onceEver, misled, refusals>>

\* The event loop of a worker blocks for longer than SILENCE_SECONDS.
Hang(w) ==
  /\ faults < MaxFaults
  /\ worker[w].life = "alive"
  /\ worker' = [worker EXCEPT ![w].life = "hung"]
  /\ faults' = faults + 1
  /\ UNCHANGED <<boss, mail, inbox, onceEver, misled, refusals>>

\* It comes back before the supervisor has killed it.
Wake(w) ==
  /\ worker[w].life = "hung"
  /\ worker' = [worker EXCEPT ![w].life = "alive"]
  /\ UNCHANGED <<boss, mail, inbox, onceEver, misled, faults, refusals>>

BossStep ==
  \/ SpawnFirst \/ AwaitEnds(FALSE) \/ AwaitPumps \/ SpawnRest \/ Wait
  \/ HandleReport \/ (\E w \in Worker : Bury(w)) \/ Respawn \/ Reap

Startup(w) == Listen(w) \/ StartupOnce(w) \/ AdapterStarts(w)
Control(w) == ReadPromote(w) \/ PromotionOnce(w) \/ StandbyStarts(w)

Next ==
  \/ BossStep
  \/ AwaitEnds(TRUE)
  \/ WindowSlides
  \/ \E w \in Worker : Startup(w) \/ Control(w) \/ Refuse(w) \/ Crash(w) \/ Hang(w) \/ Wake(w)

Spec == Init /\ [][Next]_vars

\* The supervisor loops, the deadline of _await_run_once passes, and the tasks
\* of a live worker run; nothing forces a fault, a refusal or a slow minute.
Fairness ==
  /\ WF_vars(BossStep)
  /\ WF_vars(AwaitEnds(TRUE))
  /\ \A w \in Worker : WF_vars(Startup(w)) /\ WF_vars(Control(w))

FairSpec == Spec /\ Fairness
-----------------------------------------------------------------------------
Reports == [key : {"run-once-done", "promote-failed"}, who : Worker]
Process ==
  [life : {"unborn", "alive", "hung", "dead"}, lives : Nat,
   pc : {"boot", "once", "starting", "serving"}, k : 0 .. Len(Scaling) + 1, role : BOOLEAN,
   needed : BOOLEAN, ctl : {"idle", "once", "standby"}, waiting : SUBSET Adapter,
   launched : SUBSET Adapter, standby : SUBSET Adapter, started : SUBSET Adapter,
   serving : [Adapter -> Nat]]
Boss ==
  [pc : {"first", "await", "rest", "wait", "control", "sleep"}, ready : SUBSET Worker,
   who : Worker \cup {Nobody}, batch : Seq(Reports), children : SUBSET Worker,
   primary : Worker \cup {Nobody}, onceDone : BOOLEAN, recent : 0 .. PromotionLimit,
   stopped : BOOLEAN]

\* Every variable has the shape _supervisor.py and application.py give it; in
\* particular the promotions of the window never exceed the limit.
TypeOK ==
  /\ boss \in Boss
  /\ worker \in [Worker -> Process]
  /\ mail \in [Worker -> Seq([once : BOOLEAN, life : Nat])]
  /\ inbox \in Seq(Reports)
  /\ onceEver \in BOOLEAN /\ misled \in BOOLEAN
  /\ faults \in Nat /\ refusals \in Nat

HasRole(w) == Exists(w) /\ worker[w].role
InFlight(w, reports) == \E i \in DOMAIN reports : reports[i] = [key |-> "promote-failed", who |-> w]

\* At most one live process believes it is primary (multi-process.md: the role
\* is handed on only when A "is genuinely dead", so no "two primaries").
OnePrimary == \A v, w \in Worker : HasRole(v) /\ HasRole(w) => v = w

\* Two primaries come about in one way only: a worker obeyed a PROMOTE that was
\* sent to the process it replaces and was still unread on the bus.  Hangs,
\* wake-ups, refusals and deaths at every point of a promotion do not do it.
OnePrimaryUnlessMisled == misled \/ OnePrimary

\* The role is never lost between the supervisor and a worker: the live worker
\* the supervisor takes for primary has the role, or will read about it, or has
\* refused it and its refusal is on the way.
RoleIsNeverLost ==
  \A w \in Worker : boss.primary = w /\ Exists(w) =>
    \/ worker[w].role
    \/ mail[w] # <<>>
    \/ InFlight(w, inbox) \/ InFlight(w, boss.batch)

\* A worker that has settled in the role knows that some run_once() of the
\* cluster has returned, however the flag reached it (handle or PROMOTE).
SettledAfterRunOnce ==
  \A w \in Worker :
    HasRole(w) /\ worker[w].ctl = "idle" /\ worker[w].pc \in {"starting", "serving"} => onceEver

\* No adapter falls between the lists when a promotion meets the startup loop or
\* is rolled back: what startup has passed is started or can still be promoted,
\* and not both.
NoAdapterIsLost ==
  \A w \in Worker : Exists(w) =>
    LET x == worker[w]
    IN  /\ \A k \in Adapter : k < x.k => k \in x.standby \cup x.waiting \cup x.started
        /\ (x.standby \cup x.waiting) \cap x.started = {}

\* What a serving worker has started it serves.
StartedIsServed ==
  \A w \in Worker : Exists(w) /\ worker[w].pc = "serving"
    => \A k \in worker[w].started : worker[w].serving[k] > 0

\* A singleton adapter starts only after run_once() (application.py: run_once
\* "AFTER post_construct and BEFORE every adapter ... everything else waits").
JobsWaitForRunOnce ==
  \A w \in Worker : Exists(w) =>
    \A k \in worker[w].started : Scaling[k] = "singleton" => onceEver

\* A cluster without a primary gets one, unless promotions were stopped or there
\* was nobody left to promote.
RoleIsTakenUp ==
  (\A w \in Worker : ~HasRole(w))
    ~> ((\E w \in Worker : HasRole(w)) \/ boss.stopped \/ boss.primary = Nobody)
=============================================================================
