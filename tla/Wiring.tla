------------------------------- MODULE Wiring -------------------------------
(***************************************************************************)
(* What becomes of the declarations of an application: the calls on its    *)
(* BindingConfig (core/config/binding.py), XimeContainer.build() with the  *)
(* scanner, the resolver, the factories and the validator, the hooks of    *)
(* the components in order, and the implementations that a Switcher        *)
(* exchanges behind a proxy while calls run (container/switcher.py,        *)
(* proxy.py).  How threads construct the components is Container's matter. *)
(***************************************************************************)
EXTENDS Integers, Sequences, FiniteSets

CONSTANTS
  Types,        \* the classes and Protocols of the application
  KindOf,       \* "plain", "protocol", "abstract" or "model" (of Pydantic)
  SegmentOf,    \* the segment of the module path that says where a type lives
  MethodsOf,    \* the methods that a class has, or a Protocol asks for
  TakesOf,      \* the parameters of a constructor: [type, hint, optional]
  DefaultSegments,
  Packages,     \* package -> [kind, holds]
  Exclusions, BindTargets, Registered, Factories, Rules,  \* what declarations may say
  Overrides,    \* the types that may have a pre-built instance
  MaxDeclared   \* bound: declarations after the first scan

\* bind() maps a Protocol to the classes that implement it, and those are not Protocols.
ASSUME WiringAssumption ==
  \A t \in BindTargets :
    t.impls \in Seq(Types) /\ \A k \in DOMAIN t.impls : KindOf[t.impls[k]] # "protocol"

VARIABLES
  declared,   \* what the BindingConfig holds
  dynamic,    \* xime.di.dynamic-binding
  prebuilt,   \* types with an instance from the framework or from a test
  wiring,     \* "declaring", "refused", "built", "raised", "hooking", "running"
  pointers,    \* the Switcher's pointers
  hooked,     \* post_construct has been called: of the instances, of the components
  calling     \* a call that has looked its target up

wiringVars == <<declared, dynamic, prebuilt, wiring, pointers, hooked, calling>>

NotCalling == [by |-> "none", asked |-> "none", to |-> "none", proxy |-> FALSE]
WiringInit ==
  /\ declared = [count |-> 0, packages |-> {}, excluded |-> [said |-> FALSE, segments |-> {}],
                 bindings |-> <<>>, explicit |-> {}, factories |-> <<>>, rules |-> {}]
  /\ dynamic \in BOOLEAN /\ prebuilt \in Overrides
  /\ wiring = "declaring" /\ pointers = <<>>
  /\ hooked = [instances |-> {}, components |-> {}] /\ calling = NotCalling

-----------------------------------------------------------------------------
\* config/dependency.py: scan, register, configure and order collect; bind overwrites
\* the same key; exclude_segments keeps the last call.
Declare(d) ==
  /\ wiring = "declaring" /\ declared.count < MaxDeclared
  /\ declared' = [d EXCEPT !.count = @ + 1]
  /\ UNCHANGED <<dynamic, prebuilt, wiring, pointers, hooked, calling>>
Scan(p) == p \notin declared.packages /\ Declare([declared EXCEPT !.packages = @ \cup {p}])
ExcludeSegments(s) == Declare([declared EXCEPT !.excluded = [said |-> TRUE, segments |-> s]])
Bind(i, t) ==
  Declare([declared EXCEPT !.bindings =
             [j \in DOMAIN @ \cup {i} |-> IF j = i THEN t ELSE declared.bindings[j]]])
Register(c) == c \notin declared.explicit /\ Declare([declared EXCEPT !.explicit = @ \cup {c}])
Configure(f) == Declare([declared EXCEPT !.factories = Append(@, f)])
Order(r) == Declare([declared EXCEPT !.rules = @ \cup {r}])

-----------------------------------------------------------------------------
\* _prepare_dynamic_binding: a tuple of several is switched, or stands for its first.
Impls(i) == declared.bindings[i].impls
Tuples == {i \in DOMAIN declared.bindings : Len(Impls(i)) > 1}
ImplsIn(i) == {Impls(i)[k] : k \in DOMAIN Impls(i)}
EmptyTuple == \E i \in DOMAIN declared.bindings : Impls(i) = <<>>
BoundStatically == IF dynamic THEN DOMAIN declared.bindings \ Tuples ELSE DOMAIN declared.bindings
Managed == IF dynamic THEN UNION {ImplsIn(i) : i \in Tuples} ELSE {}
Proxied == IF dynamic THEN Tuples \ prebuilt ELSE {}
Instances == prebuilt \cup Proxied

\* PackageScanner: segments that no exclusion was ever declared for have the default.
Excluded == IF declared.excluded.said THEN declared.excluded.segments ELSE DefaultSegments
InPackage(p) ==
  {c \in Packages[p].holds :
      KindOf[c] = "plain" /\ (Packages[p].kind = "listed" \/ SegmentOf[c] \notin Excluded)}
Hinted(c) == \A p \in TakesOf[c] : p.hint = "known"
ScanRaises == \E p \in declared.packages :
                \/ Packages[p].kind = "gone"
                \/ \E c \in InPackage(p) : \E q \in TakesOf[c] : q.hint = "unresolvable"
Scanned == {c \in UNION {InPackage(p) : p \in declared.packages} : Hinted(c)}
Components == Scanned \cup declared.explicit \cup Managed

\* Of two factories for a type the last counts, and before the class itself.
Provided == {declared.factories[k].provides : k \in DOMAIN declared.factories}
FactoryOf(t) ==
  LET n == CHOOSE k \in DOMAIN declared.factories :
             /\ declared.factories[k].provides = t
             /\ \A m \in k + 1 .. Len(declared.factories) : declared.factories[m].provides # t
  IN declared.factories[n]
Nodes == Components \cup Provided
Available == Nodes \cup Instances

\* TypeHintResolver: only a Protocol is replaced, by what it is bound to ...
ResolvedType(t) == IF KindOf[t] = "protocol" /\ t \in BoundStatically THEN Impls(t)[1] ELSE t
HintsOf(t) == IF t \in Provided THEN FactoryOf(t).takes
              ELSE {p \in TakesOf[t] : p.hint = "known"}
\* ... and a parameter that has a default is dropped when nobody supplies it.
PlanOf(t) == {ResolvedType(p.type) : p \in {q \in HintsOf(t) : ~q.optional \/ ResolvedType(q.type) \in Available}}
Edges(t) == PlanOf(t) \cap Nodes
RuleEdges(t) == Edges(t) \cup {r[1] : r \in {q \in declared.rules : q[2] = t}}

-----------------------------------------------------------------------------
\* GraphValidator.validate, and the order rules.
Circular(edges) == \E S \in SUBSET Nodes \ {{}} : \A t \in S : edges[t] \cap S # {}
UnboundProtocol ==
  \E t \in Nodes : \E d \in PlanOf(t) : KindOf[d] = "protocol" /\ d \notin Instances \cup Provided
MissingConcrete ==
  \E t \in Nodes : \E d \in PlanOf(t) : KindOf[d] # "protocol" /\ d \notin Available
Validated(i) == IF dynamic /\ i \in Tuples THEN ImplsIn(i) ELSE {Impls(i)[1]}
BadBinding ==
  \E i \in DOMAIN declared.bindings : KindOf[i] = "protocol"
    /\ \E c \in Validated(i) : ~(MethodsOf[i] \subseteq MethodsOf[c])
BadRule == \E r \in declared.rules : r[1] \notin Nodes \/ r[2] \notin Nodes
BuildRefused == \/ EmptyTuple \/ ScanRaises
           \/ Circular([t \in Nodes |-> Edges(t)]) \/ UnboundProtocol \/ BadBinding \/ MissingConcrete
           \/ BadRule \/ Circular([t \in Nodes |-> RuleEdges(t)])

Build ==
  /\ wiring = "declaring"
  /\ wiring' = IF BuildRefused THEN "refused" ELSE "built"
  /\ pointers' = IF BuildRefused THEN <<>> ELSE [i \in Tuples |-> Impls(i)[1]]
  /\ UNCHANGED <<declared, dynamic, prebuilt, hooked, calling>>

\* get_all_in_order constructs every component that has no instance; arguments are
\* passed for what the plan names and the registry knows, so that a constructor
\* raises when another of its parameters has no default.
Passed(t) == {d \in PlanOf(t) : d \in Available}
Complete(t) ==
  /\ \A p \in HintsOf(t) : ~p.optional => ResolvedType(p.type) \in Passed(t)
  /\ t \in Provided \/ \A p \in TakesOf[t] : p.hint = "known" \/ p.optional
Construct ==
  /\ wiring = "built"
  /\ wiring' = IF \A t \in Nodes \ Instances : Complete(t) THEN "hooking" ELSE "raised"
  /\ UNCHANGED <<declared, dynamic, prebuilt, pointers, hooked, calling>>

\* LifecycleManager.start: pre-built instances first (a proxy has no hooks), then
\* the components in topological order; which of several is Container's matter.
HookInstance(c) ==
  /\ wiring = "hooking" /\ c \in prebuilt \ hooked.instances
  /\ hooked' = [hooked EXCEPT !.instances = @ \cup {c}]
  /\ UNCHANGED <<declared, dynamic, prebuilt, wiring, pointers, calling>>
HookComponent(c) ==
  /\ wiring = "hooking" /\ hooked.instances = prebuilt /\ calling = NotCalling
  /\ c \in Nodes \ hooked.components /\ RuleEdges(c) \subseteq hooked.components
  /\ hooked' = [hooked EXCEPT !.components = @ \cup {c}]
  /\ UNCHANGED <<declared, dynamic, prebuilt, wiring, pointers, calling>>
AllStarted ==
  /\ wiring = "hooking" /\ hooked.instances = prebuilt /\ hooked.components = Nodes
  /\ calling = NotCalling
  /\ wiring' = "running"
  /\ UNCHANGED <<declared, dynamic, prebuilt, pointers, hooked, calling>>

-----------------------------------------------------------------------------
\* Switcher.use and reset refuse without the flag and outside the tuple.
Point(f) == /\ wiring = "running" /\ dynamic /\ pointers' = f
            /\ UNCHANGED <<declared, dynamic, prebuilt, wiring, hooked, calling>>
Use(i, c) == i \in DOMAIN pointers /\ c \in ImplsIn(i) /\ Point([pointers EXCEPT ![i] = c])
ResetPointer(i) == i \in DOMAIN pointers /\ Point([pointers EXCEPT ![i] = Impls(i)[1]])
ResetPointers == DOMAIN pointers # {} /\ Point([i \in DOMAIN pointers |-> Impls(i)[1]])

\* A component whose hook has begun calls what it was given; a proxy looks its target
\* up when the attribute is read, the call itself comes later.
LookUp(u, p) ==
  /\ wiring \in {"hooking", "running"} /\ calling = NotCalling
  /\ u \in hooked.components \ Instances /\ p \in HintsOf(u)
  /\ ResolvedType(p.type) \in Passed(u)
  /\ LET d == ResolvedType(p.type)
     IN calling' = [by |-> u, asked |-> p.type, proxy |-> d \in Proxied,
                     to |-> IF d \in Proxied THEN pointers[d] ELSE d]
  /\ UNCHANGED <<declared, dynamic, prebuilt, wiring, pointers, hooked>>
Returns ==
  /\ calling # NotCalling /\ calling' = NotCalling
  /\ UNCHANGED <<declared, dynamic, prebuilt, wiring, pointers, hooked>>

WiringNext ==
  \/ \E p \in DOMAIN Packages : Scan(p)
  \/ \E s \in Exclusions : ExcludeSegments(s)
  \/ \E i \in Types : KindOf[i] = "protocol" /\ \E t \in BindTargets : Bind(i, t)
  \/ \E c \in Registered : Register(c)
  \/ \E c \in Types : HookInstance(c) \/ HookComponent(c)
  \/ \E f \in Factories : Configure(f)
  \/ \E r \in Rules : Order(r)
  \/ Build \/ Construct \/ AllStarted
  \/ \E i, c \in Types : Use(i, c)
  \/ \E i \in Types : ResetPointer(i)
  \/ ResetPointers
  \/ \E u \in hooked.components : \E p \in HintsOf(u) : LookUp(u, p)
  \/ Returns

WiringSpec == WiringInit /\ [][WiringNext]_wiringVars

-----------------------------------------------------------------------------
WiringTypeOK ==
  /\ wiring \in {"declaring", "refused", "built", "raised", "hooking", "running"}
  /\ declared.packages \subseteq DOMAIN Packages /\ declared.explicit \subseteq Types
  /\ hooked.instances \subseteq prebuilt /\ hooked.components \subseteq Types
  /\ DOMAIN pointers \subseteq Types

\* What build() accepts can be constructed, except for a registered class that has a
\* parameter without a type hint (the scanner skips such classes, nobody else looks),
\* and there is an order in which all hooks can be called.
AcceptedIsComplete ==
  /\ wiring = "raised" => \E c \in (declared.explicit \cup Managed) \ Provided : ~Hinted(c)
  /\ wiring = "hooking" /\ hooked.components # Nodes =>
       \E c \in Nodes \ hooked.components : RuleEdges(c) \subseteq hooked.components

\* Whatever a component calls has had its post_construct, before the hook of the
\* caller already; through a proxy, once the application runs.
CallsReachTheReady ==
  calling # NotCalling /\ (wiring = "running" \/ ~calling.proxy) =>
    calling.to \in hooked.instances \cup hooked.components

\* A call for a Protocol reaches an object with its methods: what the Protocol is
\* bound to, or one of the tuple; what was supplied pre-built or by a factory stands
\* for itself, and only where no binding says otherwise - a pre-built instance under
\* a bound Protocol is not used, which testing/_app.py:35-52 promises.
CallsFitTheProtocol ==
  calling # NotCalling /\ KindOf[calling.asked] = "protocol" =>
    \/ /\ calling.to = calling.asked /\ calling.asked \in prebuilt \cup Provided
       /\ calling.asked \notin BoundStatically
    \/ /\ calling.asked \in BoundStatically \/ calling.asked \notin prebuilt
       /\ calling.to \in IF dynamic THEN ImplsIn(calling.asked) ELSE {Impls(calling.asked)[1]}
       /\ MethodsOf[calling.asked] \subseteq MethodsOf[calling.to]
       /\ calling.to \in Nodes \cup prebuilt

\* From declarations to calls (core/container, core/config/binding.py).
WiringIsSound == AcceptedIsComplete /\ CallsReachTheReady /\ CallsFitTheProtocol
=============================================================================
