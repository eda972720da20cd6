-------------------------- MODULE TransactionScope --------------------------
(***************************************************************************)
(* The blocks `async with transaction()` and `async with read_only()` of   *)
(* starters/sqlalchemy: transaction.py, readonly.py, session.py and        *)
(* _cleanup.py.  A block publishes its session in a context variable,      *)
(* where the repositories find it; a task that is created in a block       *)
(* starts with a copy of the variable.  begin, commit, rollback and close  *)
(* may each fail.  The session itself is SQLAlchemy's: it begins on its    *)
(* own at the first statement, and may be used again after close.          *)
(***************************************************************************)
EXTENDS Naturals, Sequences

CONSTANTS
  RequestTask, SpawnedTask,  \* a task, and the one that it may create
  MaxDepth,          \* bound: nested blocks of a task
  MaxSessions        \* bound: sessions in a run

ASSUME ScopeAssumption == MaxDepth \in Nat /\ MaxSessions \in Nat /\ RequestTask # SpawnedTask

ScopeTasks == {RequestTask, SpawnedTask}
NoSession == 0

VARIABLES
  current,    \* current[t]: _current_session in the context of t
  inherited,  \* inherited[t]: its value when t was created
  openBlocks,     \* blocks[t]: the open blocks of t, innermost last
  sessionState,    \* session[n]: "unused", "idle", "active" or "closed"
  stray       \* sessions in use after their block closed them

scopeVars == <<current, inherited, openBlocks, sessionState, stray>>

ScopeInit ==
  /\ current = [t \in ScopeTasks |-> NoSession] /\ inherited = current
  /\ openBlocks = [t \in ScopeTasks |-> <<>>]
  /\ sessionState = [n \in 1 .. MaxSessions |-> "unused"] /\ stray = {}

\* A block remembers its session (NoSession if it borrows) and the token of the
\* variable, which is the value to go back to.
OpenBlock(kind, n, before) == [kind |-> kind, own |-> n, before |-> before]
Innermost(t) == openBlocks[t][Len(openBlocks[t])]
Inside(t) == openBlocks[t] # <<>>
Fresh(n) == sessionState[n] = "unused" /\ \A m \in 1 .. n - 1 : sessionState[m] # "unused"
MayEnter(t) == Len(openBlocks[t]) < MaxDepth

Enter(t, block, now) ==
  /\ openBlocks' = [openBlocks EXCEPT ![t] = Append(@, block)]
  /\ current' = [current EXCEPT ![t] = now]
  /\ UNCHANGED <<inherited, stray>>

\* transaction(): a session of its own, in a transaction block or not.
EnterTransaction(t, n) ==
  /\ MayEnter(t) /\ Fresh(n)
  /\ sessionState' = [sessionState EXCEPT ![n] = "active"]
  /\ Enter(t, OpenBlock("transaction", n, current[t]), n)

\* begin() failed: the session is closed, and the variable put back.
BeginFails(t, n) ==
  /\ MayEnter(t) /\ Fresh(n)
  /\ sessionState' = [sessionState EXCEPT ![n] = "closed"]
  /\ UNCHANGED <<current, inherited, openBlocks, stray>>

\* read_only(): borrows the session in flight.
EnterReadOnly(t, n) ==
  /\ MayEnter(t) /\ Fresh(n)
  /\ IF current[t] # NoSession
     THEN Enter(t, OpenBlock("read", NoSession, current[t]), current[t]) /\ UNCHANGED sessionState
     ELSE Enter(t, OpenBlock("read", n, NoSession), n) /\ sessionState' = [sessionState EXCEPT ![n] = "idle"]

\* A statement of a repository, on whatever session the variable names.
Statement(t) ==
  /\ current[t] # NoSession
  /\ sessionState' = [sessionState EXCEPT ![current[t]] = "active"]
  /\ stray' = IF sessionState[current[t]] = "closed" THEN stray \union {current[t]} ELSE stray
  /\ UNCHANGED <<current, inherited, openBlocks>>

\* The end of a block: commit, or rollback after an exception; then close, whatever
\* failed before; then the variable goes back, whatever failed before.  A block that
\* borrowed leaves its session alone.
EndsAnyway(t) == {current[t]}                                           \* mutant
EndsSession(t) == {Innermost(t).own} \ {NoSession}
Exit(t) ==
  /\ Inside(t)
  /\ sessionState' = [n \in 1 .. MaxSessions |-> IF n \in EndsSession(t) THEN "closed" ELSE sessionState[n]]
  /\ current' = IF Innermost(t).own = NoSession THEN current
                ELSE [current EXCEPT ![t] = Innermost(t).before]
  /\ openBlocks' = [openBlocks EXCEPT ![t] = SubSeq(@, 1, Len(@) - 1)]
  /\ stray' = stray \ EndsSession(t)
  /\ UNCHANGED inherited

\* asyncio.create_task copies the context.
Spawn ==
  /\ ~Inside(SpawnedTask) /\ current[SpawnedTask] = NoSession /\ current[RequestTask] # NoSession
  /\ current' = [current EXCEPT ![SpawnedTask] = current[RequestTask]]
  /\ inherited' = [inherited EXCEPT ![SpawnedTask] = current[RequestTask]]
  /\ UNCHANGED <<openBlocks, sessionState, stray>>

ScopeNext ==
  \/ \E t \in ScopeTasks : \/ Statement(t) \/ Exit(t)
                           \/ \E n \in 1 .. MaxSessions : \/ EnterTransaction(t, n)
                                                          \/ BeginFails(t, n)
                                                          \/ EnterReadOnly(t, n)
  \/ Spawn

ScopeSpec == ScopeInit /\ [][ScopeNext]_scopeVars
-----------------------------------------------------------------------------
ScopeTypeOK ==
  /\ current \in [ScopeTasks -> 0 .. MaxSessions] /\ inherited \in [ScopeTasks -> 0 .. MaxSessions]
  /\ \A t \in ScopeTasks : Len(openBlocks[t]) <= MaxDepth
  /\ sessionState \in [1 .. MaxSessions -> {"unused", "idle", "active", "closed"}]
  /\ stray \subseteq 1 .. MaxSessions

\* What the repositories of a task use is the session of its innermost block that
\* has one, or what the task was created with; so it is after a begin that failed
\* and after a block in a block.
InForce(blocks, first, k, n) ==
  LET owners == {i \in 1 .. k : blocks[i].own # NoSession}
  IN  IF owners = {} THEN n = first
      ELSE \E i \in owners : (\A j \in owners : j <= i) /\ n = blocks[i].own
RightSession ==
  \A t \in ScopeTasks : InForce(openBlocks[t], inherited[t], Len(openBlocks[t]), current[t])

\* A session stays usable until its own block ends - a block that borrowed it does
\* not close it - and no session is left open when its block has ended, unless a task
\* that the block created used it after that.
SessionsHaveOwners ==
  \A n \in 1 .. MaxSessions :
    sessionState[n] \in {"idle", "active"} <=>
      (n \in stray \/ \E t \in ScopeTasks : \E i \in DOMAIN openBlocks[t] : openBlocks[t][i].own = n)

ScopesAreSound == RightSession /\ SessionsHaveOwners
=============================================================================
