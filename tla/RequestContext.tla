--------------------------- MODULE RequestContext ---------------------------
(***************************************************************************)
(* The request context: one context variable that holds a dict, bound anew *)
(* by every set and delete.  A task started by another inherits the        *)
(* binding, not a copy of the dict; entry points (the web middleware, the  *)
(* gRPC interceptor, the dispatchers) set request_id and clear at the end. *)
(***************************************************************************)
EXTENDS Naturals, FiniteSets

CONSTANTS
  CtxTasks,   \* tasks
  CtxKeys,    \* keys; "request_id" is the entry points'
  MaxDicts    \* bound: dicts ever bound

ASSUME ContextAssumption == MaxDicts \in Nat

NoDict == 0
Absence == "absent"

VARIABLES
  bound,   \* the dict each task's context variable is bound to
  dicts,   \* the dicts: key -> the task that set it, or absent
  made,    \* dicts made so far
  living,  \* tasks that run
  meant    \* history: what each task's own operations made of its context

contextVars == <<bound, dicts, made, living, meant>>

EmptyDict == [k \in CtxKeys |-> Absence]
Seen(t) == IF bound[t] = NoDict THEN EmptyDict ELSE dicts[bound[t]]

ContextInit ==
  /\ bound = [t \in CtxTasks |-> NoDict]
  /\ dicts = [i \in 1 .. MaxDicts |-> EmptyDict] /\ made = 0
  /\ \E t \in CtxTasks : living = {t}
  /\ meant = [t \in CtxTasks |-> EmptyDict]

(* dict(self._var.get() or {}), changed, bound to the variable             *)
Rebinds(t, d) ==
  /\ made < MaxDicts /\ made' = made + 1
  /\ dicts' = [dicts EXCEPT ![made + 1] = d]
  /\ bound' = [bound EXCEPT ![t] = made + 1]

SetKey(t, k) ==
  /\ t \in living
  /\ Rebinds(t, [Seen(t) EXCEPT ![k] = t])
  /\ meant' = [meant EXCEPT ![t][k] = t]
  /\ UNCHANGED living

DeleteKey(t, k) ==
  /\ t \in living /\ Seen(t)[k] # Absence
  /\ Rebinds(t, [Seen(t) EXCEPT ![k] = Absence])
  /\ meant' = [meant EXCEPT ![t][k] = Absence]
  /\ UNCHANGED living

(* asyncio.create_task: the new task runs in a copy of the context         *)
StartsAnother(t, u) ==
  /\ t \in living /\ u \notin living
  /\ living' = living \union {u}
  /\ bound' = [bound EXCEPT ![u] = bound[t]]
  /\ meant' = [meant EXCEPT ![u] = meant[t]]
  /\ UNCHANGED <<dicts, made>>

(* clear() in the `finally` of an entry point                              *)
ClearsContext(t) ==
  /\ t \in living
  /\ bound' = [bound EXCEPT ![t] = NoDict]
  /\ meant' = [meant EXCEPT ![t] = EmptyDict]
  /\ UNCHANGED <<dicts, made, living>>

ContextNext ==
  \E t \in CtxTasks :
    \/ \E k \in CtxKeys : SetKey(t, k) \/ DeleteKey(t, k)
    \/ \E u \in CtxTasks : StartsAnother(t, u)
    \/ ClearsContext(t)

ContextSpec == ContextInit /\ [][ContextNext]_contextVars

-----------------------------------------------------------------------------
(* Type correctness of the bindings.                                       *)
ContextTypeOK ==
  /\ bound \in [CtxTasks -> 0 .. MaxDicts]
  /\ dicts \in [1 .. MaxDicts -> [CtxKeys -> CtxTasks \union {Absence}]]
  /\ living \subseteq CtxTasks /\ made \in 0 .. MaxDicts

(* A task sees what it set itself and what it inherited when it started,   *)
(* whatever the tasks it shares dicts with set, delete or clear in the     *)
(* meantime (request_context.py:23-58).                                    *)
ContextIsOwn == \A t \in living : Seen(t) = meant[t]
=============================================================================
