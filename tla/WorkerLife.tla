----------------------------- MODULE WorkerLife -----------------------------
(***************************************************************************)
(* One worker from Application._run_async to its end (application.py,      *)
(* orchestrator.py, lifecycle/manager.py, _signals.py, _cluster.py): hooks *)
(* and adapters go up, serve, and come down again, while any step of the   *)
(* startup may fail, the stop signal may arrive at any await, an adapter   *)
(* may break, and the supervisor may promote the worker at the worst time. *)
(* An action is what one task of the event loop does between two awaits.   *)
(***************************************************************************)
EXTENDS Integers, FiniteSets

CONSTANTS
  Beans,          \* number of instances with hooks, numbered as constructed
  AdapterCount,   \* adapters, numbered in the order of use()
  SingletonAdapters      \* those with scaling = "singleton"

Bean    == 1 .. Beans
Adapter == 1 .. AdapterCount

ASSUME WorkerLifeAssumption ==
  /\ Beans \in Nat
  /\ AdapterCount \in Nat
  /\ SingletonAdapters \subseteq Adapter

VARIABLES
  main,     \* the main task: where it waits, and for which bean or adapter
  bean,     \* LifecycleManager: what has completed post_construct, pre_destroy
  held,     \* adapters that hold what start() acquires
  shelf,    \* Application._standby
  started,  \* Application._started
  served,   \* adapters whose serve() runs in the gather() of _serve_adapters
  extra,    \* adapters whose serve() runs in a task that a promotion added
  broken,   \* Application._isolated
  role,     \* Application._is_primary
  promo,    \* the coroutine of _accept_promotion
  cluster,  \* ClusterMember: closed, open, listening
  stop,     \* run_with_signals: none, asked (cancel pending), used
  late,     \* history: a promotion was under way when or after adapters stopped
  hurt      \* history: kinds of teardown ("stop", "hook") that raised or were cancelled

lifeVars == <<main, bean, held, shelf, started, served, extra, broken, role, promo, cluster,
              stop, late, hurt>>

NoPromotion == [at |-> "idle", todo |-> {}, done |-> {}]

LifeInit ==
  /\ main = [at |-> "boot", k |-> 0]
  /\ bean = [i \in Bean |-> "absent"]
  /\ held = {} /\ shelf = {} /\ started = {} /\ served = {} /\ extra = {} /\ broken = {}
  /\ role \in BOOLEAN
  /\ promo = NoPromotion
  /\ cluster = "closed"
  /\ stop = "none"
  /\ late = FALSE /\ hurt = {}

Lowest(S)  == CHOOSE x \in S : \A y \in S : x <= y
Highest(S) == CHOOSE x \in S : \A y \in S : x >= y
-----------------------------------------------------------------------------
(* Going up: Application.start, then _start_adapters *)

UnwindStarted ==                                  \* mutant: stop what _started lists
  /\ main' = [at |-> "stop", k |-> IF started = {} THEN 0 ELSE Highest(started)]
  /\ late' = (late \/ promo.at # "idle")

\* The finally of _run_async: whatever happened, stop every adapter there is.
Unwind ==
  /\ main' = [at |-> "stop", k |-> AdapterCount]
  /\ late' = (late \/ promo.at # "idle")

\* _open_refdata, ClusterMember.open and the container, before the first await.
Boot ==
  /\ main.at = "boot"
  /\ main' = [at |-> "construct", k |-> 1]
  /\ cluster' = "open"
  /\ UNCHANGED <<bean, held, shelf, started, served, extra, broken, role, promo, stop, late, hurt>>

\* LifecycleManager.start: post_construct() of the next bean returns.
PostConstructs ==
  /\ main.at = "construct" /\ main.k <= Beans
  /\ bean' = [bean EXCEPT ![main.k] = "up"]
  /\ main' = [main EXCEPT !.k = @ + 1]
  /\ UNCHANGED <<held, shelf, started, served, extra, broken, role, promo, cluster, stop, late, hurt>>

\* The next adapter that starts here, once those in `up' have; singletons wait
\* on the shelf unless the worker is primary.  After the last one all are served.
StartFrom(k, up) ==
  LET due  == {a \in k .. AdapterCount : role \/ a \notin SingletonAdapters}
      next == IF due = {} THEN AdapterCount + 1 ELSE Lowest(due)
  IN  /\ shelf' = shelf \cup (k .. next - 1)
      /\ main' = IF due = {} THEN [at |-> "serve", k |-> 0] ELSE [at |-> "start", k |-> next]
      /\ served' = IF due = {} THEN up ELSE served

\* ClusterMember.listen; a primary that has to runs run_once().
Listen ==
  /\ main.at = "construct" /\ main.k > Beans
  /\ cluster' = "listening"
  /\ \/ role /\ main' = [at |-> "once", k |-> 0] /\ UNCHANGED <<shelf, served>>
     \/ StartFrom(1, started)
  /\ UNCHANGED <<bean, held, started, extra, broken, role, promo, stop, late, hurt>>

RunOnceReturns ==
  /\ main.at = "once"
  /\ StartFrom(1, started)
  /\ UNCHANGED <<bean, held, started, extra, broken, role, promo, cluster, stop, late, hurt>>

StartReturns ==
  /\ main.at = "start"
  /\ held' = held \cup {main.k}
  /\ started' = started \cup {main.k}
  /\ StartFrom(main.k + 1, started')
  /\ UNCHANGED <<bean, extra, broken, role, promo, cluster, stop, late, hurt>>

\* start() was left in the middle: it may have acquired what it needs, or not.
Halfway(starting) == held' \in {held, held \cup starting}

\* A hook, run_once() or start() raises: the process comes down.
StartupFails ==
  /\ main.at \in {"boot", "construct", "once", "start"}
  /\ Unwind
  /\ Halfway(IF main.at = "start" THEN {main.k} ELSE {})
  /\ UNCHANGED <<bean, shelf, started, served, extra, broken, role, promo, cluster, stop, hurt>>
-----------------------------------------------------------------------------
(* Serving: _serve_adapters, _serve_one *)

\* serve() raises: this adapter is isolated and the others go on.
Break(a) ==
  /\ a \in held
  /\ \/ a \in served /\ served' = served \ {a} /\ UNCHANGED extra
     \/ a \in extra /\ extra' = extra \ {a} /\ UNCHANGED served
  /\ broken' = broken \cup {a}
  /\ UNCHANGED <<main, bean, held, shelf, started, role, promo, cluster, stop, late, hurt>>

\* serve() ends: its task was cancelled, or its adapter told to stop.
ServeEnds(a) ==
  /\ \/ a \in served /\ (main.at = "drain" \/ a \notin held)
        /\ served' = served \ {a} /\ UNCHANGED extra
     \/ a \in extra /\ (main.at \in {"stop", "quiesce", "destroy"} \/ a \notin held)
        /\ extra' = extra \ {a} /\ UNCHANGED served
  /\ UNCHANGED <<main, bean, held, shelf, started, broken, role, promo, cluster, stop, late, hurt>>
-----------------------------------------------------------------------------
(* Promotion: _accept_promotion, _start_standby_adapters *)

\* The shelf is emptied and its adapters started one by one.
Launch ==
  /\ promo' = IF shelf = {} THEN NoPromotion ELSE [at |-> "start", todo |-> shelf, done |-> {}]
  /\ shelf' = {}

Promote ==
  /\ cluster = "listening" /\ promo.at = "idle" /\ ~role
  /\ role' = TRUE
  /\ \/ promo' = [NoPromotion EXCEPT !.at = "once"] /\ UNCHANGED shelf
     \/ Launch
  /\ late' = (late \/ main.at \in {"stop", "quiesce"})
  /\ UNCHANGED <<main, bean, held, started, served, extra, broken, cluster, stop, hurt>>

PromotionOnce ==
  /\ promo.at = "once"
  /\ Launch
  /\ UNCHANGED <<main, bean, held, started, served, extra, broken, role, cluster, stop, late, hurt>>

Launching == Lowest(promo.todo \ promo.done)

\* The last start() of a promotion lists and serves all it has launched.
PromotionStart ==
  /\ promo.at = "start"
  /\ held' = held \cup {Launching}
  /\ LET done == promo.done \cup {Launching}
     IN  IF done = promo.todo
         THEN /\ promo' = NoPromotion
              /\ started' = started \cup done
              /\ extra' = extra \cup done
         ELSE /\ promo' = [promo EXCEPT !.done = done]
              /\ UNCHANGED <<started, extra>>
  /\ UNCHANGED <<main, bean, shelf, served, broken, role, cluster, stop, late, hurt>>

ToStop         == promo.done \cup {Launching}

PromotionFails ==
  /\ \/ /\ promo.at = "once"
        /\ promo' = NoPromotion /\ role' = FALSE
        /\ UNCHANGED held
     \/ /\ promo.at = "start"
        /\ Halfway({Launching})
        /\ promo' = [promo EXCEPT !.at = "rollback", !.done = ToStop]
        /\ UNCHANGED role
  /\ UNCHANGED <<main, bean, shelf, started, served, extra, broken, cluster, stop, late, hurt>>

\* What was launched is stopped, the last first; then the role is refused.
RollBack ==
  /\ promo.at = "rollback"
  /\ IF promo.done = {}
     THEN /\ promo' = NoPromotion /\ role' = FALSE /\ shelf' = promo.todo
          /\ UNCHANGED held
     ELSE /\ held' = held \ {Highest(promo.done)}
          /\ promo' = [promo EXCEPT !.done = @ \ {Highest(promo.done)}]
          /\ UNCHANGED <<role, shelf>>
  /\ UNCHANGED <<main, bean, started, served, extra, broken, cluster, stop, late, hurt>>
-----------------------------------------------------------------------------
(* Coming down: the signal, _stop_adapters, Application.stop *)

\* request_stop: a signal counts once, wherever the main task is.
Signal ==
  /\ stop = "none" /\ main.at # "over"
  /\ stop' = "asked"
  /\ UNCHANGED <<main, bean, held, shelf, started, served, extra, broken, role, promo, cluster, late, hurt>>

\* The cancellation reaches the await the main task is at: gather() hands it on
\* to the serve() tasks and waits for them, _stop_adapters and quiesce swallow
\* it, and a pre_destroy() lets it through.
Cancelled ==
  /\ stop = "asked" /\ stop' = "used"
  /\ \/ /\ main.at \in {"construct", "once", "start"}
        /\ Unwind
        /\ Halfway(IF main.at = "start" THEN {main.k} ELSE {})
        /\ UNCHANGED hurt
     \/ /\ main.at = "serve"
        /\ main' = [at |-> "drain", k |-> 0]
        /\ UNCHANGED <<held, late, hurt>>
     \/ /\ main.at = "stop" /\ main.k > 0
        /\ main' = [main EXCEPT !.k = @ - 1]
        /\ held' \in {held, held \ {main.k}}
        /\ hurt' = hurt \cup {"stop"}
        /\ UNCHANGED late
     \/ /\ main.at = "quiesce"
        /\ UNCHANGED <<main, held, late, hurt>>
     \/ /\ main.at = "destroy"
        /\ main' = [at |-> "over", k |-> 0]
        /\ hurt' = hurt \cup {"hook"}
        /\ UNCHANGED <<held, late>>
  /\ UNCHANGED <<bean, shelf, started, served, extra, broken, role, promo, cluster>>

GatheredAll == served \cup extra                  \* mutant: waits for promoted ones too
Gathered    == served

\* gather() returns; the tasks that a promotion added are cancelled and left.
ServesDrained ==
  /\ main.at = "drain" /\ Gathered = {}
  /\ Unwind
  /\ UNCHANGED <<bean, held, shelf, started, served, extra, broken, role, promo, cluster, stop, hurt>>

\* adapter.stop() returns, or raises and is logged.
StopAdapter ==
  /\ main.at = "stop" /\ main.k > 0
  /\ main' = [main EXCEPT !.k = @ - 1]
  /\ \/ held' = held \ {main.k} /\ UNCHANGED hurt
     \/ UNCHANGED held /\ hurt' = hurt \cup {"stop"}
  /\ UNCHANGED <<bean, shelf, started, served, extra, broken, role, promo, cluster, stop, late>>

\* ClusterMember.quiesce: the control handler is cancelled where it waits, and
\* an `except Exception' rolls nothing back.
Quiesce ==
  /\ main.at = "stop" /\ main.k = 0
  /\ main' = [at |-> "quiesce", k |-> 0]
  /\ UNCHANGED <<bean, held, shelf, started, served, extra, broken, role, promo, cluster, stop, late, hurt>>

Quiesced ==
  /\ main.at = "quiesce"
  /\ main' = [at |-> "destroy", k |-> 0]
  /\ promo' = NoPromotion
  /\ Halfway(IF promo.at = "start" THEN {Launching} ELSE {})
  /\ cluster' = IF cluster = "listening" THEN "open" ELSE cluster
  /\ UNCHANGED <<bean, shelf, started, served, extra, broken, role, stop, late, hurt>>

\* LifecycleManager.stop goes over what has completed post_construct.
ToDestroy    == {i \in Bean : bean[i] = "up"}

\* pre_destroy() of the last one returns, or raises and is collected.
Destroy ==
  /\ main.at = "destroy" /\ ToDestroy # {}
  /\ bean' = [bean EXCEPT ![Highest(ToDestroy)] = "down"]
  /\ hurt' \in {hurt, hurt \cup {"hook"}}
  /\ UNCHANGED <<main, held, shelf, started, served, extra, broken, role, promo, cluster, stop, late>>

\* The collected errors are raised now: then the cluster stays open.
Close ==
  /\ main.at = "destroy" /\ ToDestroy = {}
  /\ main' = [at |-> "over", k |-> 0]
  /\ cluster' = IF "hook" \in hurt THEN cluster ELSE "closed"
  /\ UNCHANGED <<bean, held, shelf, started, served, extra, broken, role, promo, stop, late, hurt>>

MainStep == Boot \/ PostConstructs \/ Listen \/ RunOnceReturns \/ StartReturns \/ Cancelled \/ ServesDrained
              \/ StopAdapter \/ Quiesce \/ Quiesced \/ Destroy \/ Close
PromotionStep == PromotionOnce \/ PromotionStart \/ RollBack

LifeNext ==
  \/ MainStep \/ PromotionStep \/ StartupFails \/ Promote \/ PromotionFails \/ Signal
  \/ \E a \in Adapter : Break(a) \/ ServeEnds(a)

LifeSpec == LifeInit /\ [][LifeNext]_lifeVars
-----------------------------------------------------------------------------
\* health(): what the report says of an adapter, if it has it at all.
Health(a) == IF a \in broken THEN "isolated" ELSE IF a \in shelf THEN "standby"
             ELSE IF a \in started THEN "serving" ELSE "absent"

LifeTypeOK ==
  /\ main \in [at : {"boot", "construct", "once", "start", "serve", "drain", "stop", "quiesce",
                     "destroy", "over"}, k : 0 .. Beans + AdapterCount + 1]
  /\ bean \in [Bean -> {"absent", "up", "down"}]
  /\ held \in SUBSET Adapter /\ shelf \in SUBSET Adapter /\ started \in SUBSET Adapter
  /\ served \in SUBSET Adapter /\ extra \in SUBSET Adapter /\ broken \in SUBSET Adapter
  /\ role \in BOOLEAN /\ late \in BOOLEAN
  /\ promo \in [at : {"idle", "once", "start", "rollback"}, todo : SUBSET Adapter, done : SUBSET Adapter]
  /\ cluster \in {"closed", "open", "listening"}
  /\ stop \in {"none", "asked", "used"}
  /\ hurt \in SUBSET {"stop", "hook"}

\* adapter.py: "4. adapter.stop() ... 5. app.stop() PreDestroy": when the
\* components are torn down nothing that uses them is up any more.
AdaptersStopFirst == main.at \in {"destroy", "over"} /\ "stop" \notin hurt => held = {}

\* Whatever failed or was cancelled on the way, half-started adapters included,
\* an adapter is up during the teardown of the components only if its own stop()
\* broke, or if a promotion was being obeyed while adapters were stopped.
OnlyLatePromotionsOutlive == late \/ AdaptersStopFirst

\* core-concepts.md: pre_destroy runs in the reverse order, and "only for
\* instances whose post_construct() COMPLETED"; at the end no component is left
\* up and the bus is given back, unless a pre_destroy() raised or was cancelled.
TornDownInReverse ==
  /\ \A i, j \in Bean : i < j /\ bean[i] = "down" => bean[j] # "up"
  /\ \A i, j \in Bean : i < j /\ bean[j] = "down" => bean[i] # "absent"
  /\ main.at = "over" /\ "hook" \notin hurt
       => cluster = "closed" /\ \A i \in Bean : bean[i] # "up"

\* An adapter that is reported as serving holds its resources until the process
\* comes down, and one on standby holds nothing: no order of startup, promotion
\* and rollback leaves a half-started adapter behind on the shelf.
HealthIsTrue ==
  main.at \in {"boot", "construct", "once", "start", "serve", "drain"} =>
    \A a \in Adapter : /\ Health(a) = "serving" => a \in held
                       /\ Health(a) = "standby" => a \notin held

\* A worker that is told to stop, or whose startup failed, ends.
WorkerEnds == (stop = "asked" \/ main.at = "stop") ~> main.at = "over"

\* The life of a worker, startup, promotion and shutdown interleaved: resources,
\* components and the health report agree (application.py:281-438, 711-917).
LifeIsOrderly == OnlyLatePromotionsOutlive /\ TornDownInReverse /\ HealthIsTrue
=============================================================================
