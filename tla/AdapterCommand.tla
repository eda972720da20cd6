--------------------------- MODULE AdapterCommand ---------------------------
(***************************************************************************)
(* A command to one adapter of every worker, and the answer of each: the   *)
(* request, relay, execution and acknowledgement of _cluster.py,           *)
(* _control.py and _supervisor.py, with the one command the framework      *)
(* sends, the reload of the certificates of a web listener                 *)
(* (web/_tls_reload.py).  The bus loses what it overwrites; workers die    *)
(* and read, once respawned, what was sent to their predecessor.           *)
(***************************************************************************)
EXTENDS Integers, Sequences, FiniteSets

CONSTANTS
  Members,      \* worker processes
  Targets,      \* those that have the listener: _targets_for
  Requests,     \* request ids; tokens in the code, numbered here as they are drawn
  Askers,       \* the workers that are asked to reload
  MaxVersion,   \* bound: versions of the certificate files, 0 the first
  MaxEvents     \* bound: requests, crashes, messages overwritten, failed reloads

ASSUME CommandAssumption ==
  /\ Targets \subseteq Members /\ Targets # {} /\ Askers \subseteq Members
  /\ Requests \subseteq Nat
  /\ MaxVersion \in Nat /\ MaxEvents \in Nat

VARIABLES
  disk,      \* the version of the files
  serves,    \* serves[w]: the version that w answers with, or Down
  request,   \* request[r]: who asked, what was on disk then, the answers so far
  toBoss,    \* requests the supervisor has not relayed
  mailbox,   \* mailbox[w]: commands and acknowledgements w has not read
  running,   \* running[w]: commands whose task runs (_adapter_tasks)
  mishaps

commandVars == <<disk, serves, request, toBoss, mailbox, running, mishaps>>

Down   == -1
Nobody == "nobody"
Unasked == [at |-> "unasked", by |-> Nobody, since |-> 0, answers |-> <<>>]

CommandInit ==
  /\ disk = 0
  /\ serves = [w \in Members |-> 0]
  /\ request = [r \in Requests |-> Unasked]
  /\ toBoss = {}
  /\ mailbox = [w \in Members |-> {}]
  /\ running = [w \in Members |-> {}]
  /\ mishaps = 0

Serving(w) == serves[w] # Down
MoreEvents == mishaps + Cardinality({r \in Requests : request[r].at # "unasked"}) < MaxEvents
NoAnswer == [w \in {} |-> "reloaded"]

\* The files are replaced.
Rotate ==
  /\ disk < MaxVersion
  /\ disk' = disk + 1
  /\ UNCHANGED <<serves, request, toBoss, mailbox, running, mishaps>>

\* request_adapter_command: a waiter is filed, then the request announced.
Asks(r, w) ==
  /\ Serving(w) /\ w \in Askers /\ request[r].at = "unasked" /\ MoreEvents
  /\ \A q \in Requests : q < r => request[q].at # "unasked"
  /\ request' = [request EXCEPT ![r] = [at |-> "asked", by |-> w, since |-> disk, answers |-> NoAnswer]]
  /\ toBoss' = toBoss \cup {r}
  /\ UNCHANGED <<disk, serves, mailbox, running, mishaps>>

CommandOf(r) == [kind |-> "command", of |-> r]
Ack(r, w, result) == [kind |-> "ack", of |-> r, from |-> w, result |-> result]

\* Supervisor._on_control: the request goes out again, to every worker.
Relay(r) ==
  /\ r \in toBoss
  /\ toBoss' = toBoss \ {r}
  /\ mailbox' = [w \in Members |-> mailbox[w] \cup {CommandOf(r)}]
  /\ UNCHANGED <<disk, serves, request, running, mishaps>>

\* ClusterMember._on_control: a worker that is meant starts a task.
TakeCommand(w, m) ==
  /\ Serving(w) /\ m \in mailbox[w] /\ m.kind = "command"
  /\ mailbox' = [mailbox EXCEPT ![w] = @ \ {m}]
  /\ running' = IF w \in Targets THEN [running EXCEPT ![w] = @ \cup {m.of}] ELSE running
  /\ UNCHANGED <<disk, serves, request, toBoss, mishaps>>

\* _record_adapter_ack: the waiters of w that an acknowledgement of r is for.
WaitersAny(r, w) == {q \in Requests : request[q].at = "asked" /\ request[q].by = w}  \* mutant
Waiters(r, w)    == {q \in {r} : request[q].at = "asked" /\ request[q].by = w}

\* The first answer of a worker counts.
WithResult(r, w, from, result) ==
  [q \in Requests |->
     IF q \in Waiters(r, w) /\ from \in Targets /\ from \notin DOMAIN request[q].answers
     THEN [request[q] EXCEPT !.answers = [v \in DOMAIN @ \cup {from} |-> IF v = from THEN result ELSE @[v]]]
     ELSE request[q]]

\* _execute_adapter_command: _reload_local, then the answer to oneself and to all;
\* who has no waiter for it drops it.
Executes(w, r, result) ==
  /\ r \in running[w]
  /\ running' = [running EXCEPT ![w] = @ \ {r}]
  /\ IF result = "failed" THEN MoreEvents /\ mishaps' = mishaps + 1 /\ UNCHANGED serves
     ELSE /\ result = (IF serves[w] = disk THEN "unchanged" ELSE "reloaded")
          /\ serves' = [serves EXCEPT ![w] = disk]
          /\ UNCHANGED mishaps
  /\ request' = WithResult(r, w, w, result)
  /\ mailbox' = [v \in Members |-> IF v # w /\ v = request[r].by THEN mailbox[v] \cup {Ack(r, w, result)}
                                   ELSE mailbox[v]]
  /\ UNCHANGED <<disk, toBoss>>

TakeAck(w, m) ==
  /\ Serving(w) /\ m \in mailbox[w] /\ m.kind = "ack"
  /\ mailbox' = [mailbox EXCEPT ![w] = @ \ {m}]
  /\ request' = WithResult(m.of, w, m.from, m.result)
  /\ UNCHANGED <<disk, serves, toBoss, running, mishaps>>

\* The wait ends, complete or at the timeout, and the waiter is dropped.
Report(r) ==
  /\ request[r].at = "asked"
  /\ request' = [request EXCEPT ![r].at = "reported"]
  /\ UNCHANGED <<disk, serves, toBoss, mailbox, running, mishaps>>

\* The bus overwrites a row that was not read.
Lose(w) ==
  /\ MoreEvents /\ mishaps' = mishaps + 1
  /\ \E m \in mailbox[w] : mailbox' = [mailbox EXCEPT ![w] = @ \ {m}]
  /\ UNCHANGED <<disk, serves, request, toBoss, running>>

\* A worker dies with its tasks and waiters; its rows stay in shared memory.
Crash(w) ==
  /\ MoreEvents /\ mishaps' = mishaps + 1
  /\ Serving(w)
  /\ serves' = [serves EXCEPT ![w] = Down]
  /\ running' = [running EXCEPT ![w] = {}]
  /\ request' = [r \in Requests |-> IF request[r].at = "asked" /\ request[r].by = w
                                    THEN [request[r] EXCEPT !.at = "gone"] ELSE request[r]]
  /\ UNCHANGED <<disk, toBoss, mailbox>>

\* The new process loads the files that are there (ssl_context_factory).
Restart(w) ==
  /\ ~Serving(w)
  /\ serves' = [serves EXCEPT ![w] = disk]
  /\ UNCHANGED <<disk, request, toBoss, mailbox, running, mishaps>>

CommandNext ==
  \/ Rotate
  \/ \E r \in Requests : Relay(r) \/ Report(r) \/ \E w \in Members : Asks(r, w)
  \/ \E w \in Members : Lose(w) \/ Crash(w) \/ Restart(w)
  \/ \E w \in Members : \E m \in mailbox[w] : TakeCommand(w, m) \/ TakeAck(w, m)
  \/ \E w \in Members, r \in Requests, result \in {"reloaded", "unchanged", "failed"} :
       Executes(w, r, result)

CommandSpec == CommandInit /\ [][CommandNext]_commandVars
-----------------------------------------------------------------------------
\* reload_tls: what the caller is told.
Missing(r) == Targets \ DOMAIN request[r].answers
Results(r) == {request[r].answers[w] : w \in DOMAIN request[r].answers}
Outcome(r) ==
  IF Missing(r) # {} THEN IF Results(r) = {} THEN "timeout" ELSE "partial"
  ELSE IF Results(r) = {"unchanged"} THEN "unchanged"
  ELSE IF Results(r) = {"failed"} THEN "failed"
  ELSE IF "failed" \in Results(r) THEN "partial" ELSE "reloaded"

CommandTypeOK ==
  /\ disk \in 0 .. MaxVersion
  /\ serves \in [Members -> {Down} \cup 0 .. MaxVersion]
  /\ \A r \in Requests :
       /\ request[r].at \in {"unasked", "asked", "reported", "gone"}
       /\ DOMAIN request[r].answers \subseteq Targets
  /\ toBoss \subseteq Requests
  /\ running \in [Members -> SUBSET Requests]

\* Who is told that a reload succeeded ("reloaded" or "unchanged") may delete the
\* old files: every target that is up serves what was on disk when the request
\* was made, or something newer - although commands and answers may be lost, come
\* after the timeout, or be read by the successor of the process they were for,
\* and requests overlap.
ReloadReachesAll ==
  \A r \in Requests :
    request[r].at = "reported" /\ Outcome(r) \in {"reloaded", "unchanged"} =>
      \A w \in Targets : Serving(w) => serves[w] >= request[r].since
=============================================================================
