----------------------------- MODULE Container -----------------------------
(***************************************************************************)
(* The dependency container (core/container): build() checks the graph of  *)
(* constructor dependencies and sorts it with the order rules of the       *)
(* application (graph.py, validator.py, __init__.py); afterwards threads   *)
(* get components, which are built when first asked for (registry.py).     *)
(***************************************************************************)
EXTENDS Integers, Sequences, FiniteSets

CONSTANTS
  Classes,      \* 1 .. n, in the order in which they were registered
  Threads,
  MaxFailures   \* bound: constructors that raise

ASSUME ContainerAssumption ==
  IsFiniteSet(Classes) /\ Classes = 1 .. Cardinality(Classes) /\ MaxFailures \in Nat

VARIABLES
  needs,      \* needs[c]: the classes that the constructor of c takes
  rule,       \* an order rule: its first class before its second; or none
  stage,      \* "checking", "sorting", "cyclic", "rule refused", "built"
  ready,      \* the queue of topological_order
  order,      \* its result
  objects,    \* _instances: the classes with a component
  frames,     \* frames[t]: the classes thread t is building, outermost first
  got,        \* got[t]: the classes that get returned to t
  constructed, \* constructed[c]: how many constructors of c returned
  failures

containerVars == <<needs, rule, stage, ready, order, objects, frames, got, constructed, failures>>

ContainerInit ==
  /\ needs \in [Classes -> SUBSET Classes]
  /\ rule \in {<<>>} \cup {<<c, d>> : c \in Classes, d \in Classes}
  /\ stage = "checking" /\ ready = <<>> /\ order = <<>>
  /\ objects = {} /\ frames = [t \in Threads |-> <<>>] /\ got = [t \in Threads |-> {}]
  /\ constructed = [c \in Classes |-> 0] /\ failures = 0

-----------------------------------------------------------------------------
\* build(): the graph, with the edges of the rules.
Elements(s) == {s[i] : i \in DOMAIN s}
RuleBefore(c) == IF rule # <<>> /\ rule[2] = c THEN {rule[1]} ELSE {}
Combined(c) == needs[c] \cup RuleBefore(c)
InOrder(S) == CHOOSE s \in [1 .. Cardinality(S) -> S] : \A i, j \in DOMAIN s : i < j => s[i] < s[j]

\* detect_cycles: a depth-first search meets a class that it is in.
Reach[n \in Nat] ==
  IF n = 0 THEN [c \in Classes |-> needs[c]]
  ELSE [c \in Classes |-> Reach[n - 1][c] \cup UNION {needs[d] : d \in Reach[n - 1][c]}]
CyclicDependencies == \E c \in Classes : c \in Reach[Cardinality(Classes)][c]

Validate ==
  /\ stage = "checking"
  /\ IF CyclicDependencies THEN stage' = "cyclic" /\ UNCHANGED ready
     ELSE stage' = "sorting" /\ ready' = InOrder({c \in Classes : Combined(c) = {}})
  /\ UNCHANGED <<needs, rule, order, objects, frames, got, constructed, failures>>

\* topological_order(_with_rules): Kahn's algorithm; a class is ready when the last
\* of what must come before it is placed.
Place ==
  /\ stage = "sorting" /\ ready # <<>>
  /\ LET c      == Head(ready)
         placed == Elements(order) \cup {c}
     IN /\ order' = Append(order, c)
        /\ ready' = Tail(ready) \o InOrder({d \in Classes : c \in Combined(d) /\ Combined(d) \subseteq placed})
  /\ UNCHANGED <<needs, rule, stage, objects, frames, got, constructed, failures>>

Sorted ==
  /\ stage = "sorting" /\ ready = <<>>
  /\ stage' = IF Len(order) = Cardinality(Classes) THEN "built" ELSE "rule refused"
  /\ UNCHANGED <<needs, rule, ready, order, objects, frames, got, constructed, failures>>

-----------------------------------------------------------------------------
\* registry.get: a component that exists is returned without the lock.
Take(t, c) == got' = [got EXCEPT ![t] = @ \cup {c}]
GetExisting(t, c) ==
  /\ stage = "built" /\ frames[t] = <<>> /\ c \in objects
  /\ Take(t, c)
  /\ UNCHANGED <<needs, rule, stage, ready, order, objects, frames, constructed, failures>>

\* Otherwise the thread waits for the lock; who holds it has frames.
Unlocked == \A t \in Threads : frames[t] = <<>>
GetMissing(t, c) ==
  /\ stage = "built" /\ Unlocked /\ c \notin objects
  /\ frames' = [frames EXCEPT ![t] = <<c>>]
  /\ UNCHANGED <<needs, rule, stage, ready, order, objects, got, constructed, failures>>

\* _instantiate: a dependency that is missing is built first ...
Top(t) == frames[t][Len(frames[t])]
MissingFor(c) == needs[c] \ objects
Descend(t) ==
  /\ frames[t] # <<>> /\ MissingFor(Top(t)) # {}
  /\ frames' = [frames EXCEPT ![t] = Append(@, Head(InOrder(MissingFor(Top(t)))))]
  /\ UNCHANGED <<needs, rule, stage, ready, order, objects, got, constructed, failures>>

\* ... then the constructor runs, and only when it has returned the object is stored.
StoresFirst(t) == objects' = objects \cup Elements(frames[t])       \* mutant
Stores(t) == objects' = objects \cup {Top(t)}
ConstructorReturns(t) ==
  /\ frames[t] # <<>> /\ MissingFor(Top(t)) = {}
  /\ Stores(t)
  /\ constructed' = [constructed EXCEPT ![Top(t)] = @ + 1]
  /\ IF Len(frames[t]) = 1 THEN Take(t, Top(t)) ELSE UNCHANGED got
  /\ frames' = [frames EXCEPT ![t] = SubSeq(@, 1, Len(@) - 1)]
  /\ UNCHANGED <<needs, rule, stage, ready, order, failures>>

\* A constructor that raises leaves nothing; what was built below it stays.
ConstructFails(t) ==
  /\ frames[t] # <<>> /\ MissingFor(Top(t)) = {} /\ failures < MaxFailures
  /\ failures' = failures + 1
  /\ frames' = [frames EXCEPT ![t] = <<>>]
  /\ UNCHANGED <<needs, rule, stage, ready, order, objects, got, constructed>>

ContainerNext ==
  \/ Validate \/ Place \/ Sorted
  \/ \E t \in Threads : \/ Descend(t) \/ ConstructorReturns(t) \/ ConstructFails(t)
                        \/ \E c \in Classes : GetExisting(t, c) \/ GetMissing(t, c)

ContainerSpec == ContainerInit /\ [][ContainerNext]_containerVars
-----------------------------------------------------------------------------
ContainerTypeOK ==
  /\ needs \in [Classes -> SUBSET Classes]
  /\ stage \in {"checking", "sorting", "cyclic", "rule refused", "built"}
  /\ Elements(order) \subseteq Classes /\ objects \subseteq Classes
  /\ \A t \in Threads : got[t] \subseteq Classes

\* The components come up, and are torn down in reverse, in an order that respects
\* every constructor and every order rule; and an application is refused for a rule
\* only if no such order exists.
BuiltBefore(c, d) == \E i, j \in DOMAIN order : i < j /\ order[i] = c /\ order[j] = d
Respects(s) == \A i, j \in DOMAIN s : i <= j => s[j] \notin Combined(s[i])
OrderIsRight ==
  /\ stage = "built" =>
       /\ Len(order) = Cardinality(Classes) /\ Elements(order) = Classes
       /\ \A d \in Classes : \A c \in needs[d] : BuiltBefore(c, d)
       /\ rule # <<>> => BuiltBefore(rule[1], rule[2])
  /\ stage = "rule refused" =>
       \A s \in [Classes -> Classes] : Elements(s) = Classes => ~Respects(s)

\* There is one component per class, however many threads ask for it at the same
\* time and whatever constructors failed before, and a thread that got it finds all
\* that it depends on complete too.
OneObjectEach == \A c \in Classes : constructed[c] <= 1
NothingHalfBuilt == \A t \in Threads : \A c \in got[t] : constructed[c] = 1 /\ \A d \in needs[c] : constructed[d] = 1
OneCompleteObject == OneObjectEach /\ NothingHalfBuilt

\* Build order and lazy construction (graph.py:117-205, __init__.py:160-262).
ContainerIsSound == OrderIsRight /\ OneCompleteObject
=============================================================================
