------------------------------ MODULE EventBus ------------------------------
(***************************************************************************)
(* The in-process event bus (core/event/bus.py, _config.py): publishers    *)
(* and handlers schedule background tasks up to a ceiling, events above it *)
(* are dropped whole, and drain() waits.  A task leaves _pending in a      *)
(* callback that the loop runs some time after the task is done.           *)
(***************************************************************************)
EXTENDS Integers, FiniteSets

CONSTANTS
  Events,      \* the events published, each once
  Exempt,      \* those of a type in never_drop
  Handlers,    \* Handlers[e]: the number of handlers subscribed for e's type
  MaxPending   \* EventBusConfig.max_pending

ASSUME BusAssumption ==
  Exempt \subseteq Events /\ Handlers \in [Events -> Nat] /\ MaxPending \in Nat \ {0}

VARIABLES
  outcome,   \* outcome[e]: what publish(e) returned, or "unpublished"
  inHandler,  \* the tasks, a pair of event and handler each, whose handler runs
  pending,   \* _pending
  finished,       \* the tasks whose handler returned or raised
  drops,   \* _dropped
  awaited    \* what a running drain() gathers, or NotDraining

busVars == <<outcome, inHandler, pending, finished, drops, awaited>>

NotDraining == {}   \* drain() returns at once if nothing is pending
TasksOf(e) == {<<e, h>> : h \in 1 .. Handlers[e]}

BusInit ==
  /\ outcome = [e \in Events |-> "unpublished"]
  /\ inHandler = {} /\ pending = {} /\ finished = {} /\ drops = 0
  /\ awaited = NotDraining

HasRoomForOne(e) == e \in Exempt \/ Cardinality(pending) < MaxPending      \* mutant
HasRoom(e) == e \in Exempt \/ Cardinality(pending) + Handlers[e] <= MaxPending

\* publish has no await: it schedules every handler or none.  It is called from
\* outside or by a handler that runs.
Publish(e) ==
  /\ outcome[e] = "unpublished"
  /\ \/ /\ Handlers[e] = 0
        /\ outcome' = [outcome EXCEPT ![e] = "no_handlers"]
        /\ UNCHANGED <<inHandler, pending, drops>>
     \/ /\ Handlers[e] > 0 /\ ~HasRoom(e)
        /\ outcome' = [outcome EXCEPT ![e] = "dropped"]
        /\ drops' = drops + 1
        /\ UNCHANGED <<inHandler, pending>>
     \/ /\ Handlers[e] > 0 /\ HasRoom(e)
        /\ outcome' = [outcome EXCEPT ![e] = "scheduled"]
        /\ inHandler' = inHandler \cup TasksOf(e)
        /\ pending' = pending \cup TasksOf(e)
        /\ UNCHANGED drops
  /\ UNCHANGED <<finished, awaited>>

\* _dispatch: an exception of the handler is logged and ends there.
BusHandlerEnds(t) ==
  /\ t \in inHandler
  /\ inHandler' = inHandler \ {t}
  /\ finished' = finished \cup {t}
  /\ UNCHANGED <<outcome, pending, drops, awaited>>

\* The done callback.
MayLeave(t) == t \in pending /\ t \notin inHandler
Discard(t) ==
  /\ MayLeave(t)
  /\ pending' = pending \ {t}
  /\ UNCHANGED <<outcome, inHandler, finished, drops, awaited>>

\* drain() gathers what is pending when it is called; what handlers publish in the
\* meantime it does not wait for.
Drain ==
  /\ awaited = NotDraining /\ pending # {} /\ awaited' = pending
  /\ UNCHANGED <<outcome, inHandler, pending, finished, drops>>
DrainReturns ==
  /\ awaited # NotDraining /\ awaited \cap inHandler = {}
  /\ awaited' = NotDraining
  /\ UNCHANGED <<outcome, inHandler, pending, finished, drops>>

BusNext ==
  \/ \E e \in Events : Publish(e) \/ \E t \in TasksOf(e) : BusHandlerEnds(t) \/ Discard(t)
  \/ Drain \/ DrainReturns

BusSpec == BusInit /\ [][BusNext]_busVars
-----------------------------------------------------------------------------
BusTypeOK ==
  /\ outcome \in [Events -> {"unpublished", "no_handlers", "dropped", "scheduled"}]
  /\ inHandler \cap finished = {}
  /\ drops = Cardinality({e \in Events : outcome[e] = "dropped"})

\* The ceiling is one of handlers at work, not of events: whatever the order of
\* publishers, nested publishers and late callbacks, no more handlers of types that
\* may be dropped run than max_pending allows, and a handler that runs is counted.
CeilingHolds ==
  /\ Cardinality({t \in inHandler : t[1] \notin Exempt}) <= MaxPending
  /\ inHandler \subseteq pending

\* What publish told its caller stays true: the handlers of an event it scheduled
\* are at work or done, all of them, and no handler of another event ever ran.
OutcomeIsTrue ==
  \A e \in Events :
    TasksOf(e) \cap (inHandler \cup finished) = IF outcome[e] = "scheduled" THEN TasksOf(e) ELSE {}

\* The bus keeps its ceiling and its word (bus.py:133-234).
BusIsHonest == CeilingHolds /\ OutcomeIsTrue
=============================================================================
