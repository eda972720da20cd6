------------------------------ MODULE Topology ------------------------------
(***************************************************************************)
(* The `processes` block of the configuration: what it may declare         *)
(* (core/bootstrap/_processes.py, and validate_against_adapters of         *)
(* _supervisor.py), and what the workers then listen on: the sockets that  *)
(* the supervisor binds for them, prepare_worker, and the singleton        *)
(* adapters that follow the primary role.                                  *)
(***************************************************************************)
EXTENDS Integers, FiniteSets

CONSTANTS
  Blocks,      \* names of process blocks
  Doors,       \* the adapters that main.py registered
  Scaling,     \* Scaling[d]: "replicated", "singleton", "sharded"
  ShareBy,     \* ShareBy[d]: share_port_by, "inherit", "reuseport", "none"
  Ports

ASSUME TopologyAssumption ==
  /\ IsFiniteSet(Blocks) /\ IsFiniteSet(Doors) /\ "nobody" \notin Blocks
  /\ Scaling \in [Doors -> {"replicated", "singleton", "sharded"}]
  /\ ShareBy \in [Doors -> {"inherit", "reuseport", "none"}]

VARIABLES
  blocks,     \* the configuration: blocks[b]
  admitted,   \* "unread", "refused", "started"
  alive,      \* the worker processes that run
  primary,    \* the one with the primary role, or Unassigned
  listening   \* what they listen on: process, adapter, port, how

topologyVars == <<blocks, admitted, alive, primary, listening>>

NoSpec == [port |-> 0, shared |-> FALSE]
Spec(b, d) == blocks[b].doors[d]
Declares(b, d) == Spec(b, d) # NoSpec
Unassigned == <<"nobody", 0>>

Block == [count : 1 .. 2, primary : BOOLEAN,
          doors : [Doors -> {NoSpec} \cup [port : Ports, shared : BOOLEAN]]]

TopologyInit ==
  /\ blocks \in [Blocks -> Block]
  /\ admitted = "unread" /\ alive = {} /\ primary = Unassigned /\ listening = {}

\* _expand_count: x, or x-1 .. x-n.
Processes == UNION {IF blocks[b].count = 1 THEN {<<b, 0>>} ELSE {b} \X (1 .. blocks[b].count) : b \in Blocks}

-----------------------------------------------------------------------------
\* What is refused.
PrimaryCount == \E b \in Blocks : blocks[b].count > 1 /\ blocks[b].primary
UnsharedCount ==
  \E b \in Blocks, d \in Doors : blocks[b].count > 1 /\ Declares(b, d) /\ ~Spec(b, d).shared
DuplicateInBlock ==
  \E b \in Blocks : \E d, e \in Doors :
    d # e /\ Declares(b, d) /\ Declares(b, e) /\ Spec(b, d).port = Spec(b, e).port
PrimaryBlocks == {b \in Blocks : blocks[b].primary}

\* _reject_conflicting_endpoints: an address of several processes is shared by all
\* of them, and belongs to one adapter.
Users(port) ==
  {u \in Processes \X Doors : Declares(u[1][1], u[2]) /\ Spec(u[1][1], u[2]).port = port}
ConflictingUnshared ==                                                     \* mutant
  \E port \in Ports : Cardinality(Users(port)) > 1 /\ \E u \in Users(port) : ~Spec(u[1][1], u[2]).shared
Conflicting ==
  \E port \in Ports :
    /\ Cardinality(Users(port)) > 1
    /\ \/ \E u \in Users(port) : ~Spec(u[1][1], u[2]).shared
       \/ \E u, v \in Users(port) : u[2] # v[2]

\* validate_against_adapters
Orphans == {d \in Doors : \A b \in Blocks : ~Declares(b, d)}
CannotShare == \E b \in Blocks, d \in Doors : Spec(b, d).shared /\ ShareBy[d] = "none"
SingletonElsewhere ==
  \E b \in Blocks, d \in Doors : Scaling[d] = "singleton" /\ Declares(b, d) /\ ~blocks[b].primary
Sharded == \E d \in Doors : Scaling[d] = "sharded"

Refused ==
  \/ PrimaryCount \/ UnsharedCount \/ DuplicateInBlock
  \/ Cardinality(PrimaryBlocks) # 1
  \/ Conflicting
  \/ Orphans # {} \/ CannotShare \/ SingletonElsewhere \/ Sharded

-----------------------------------------------------------------------------
TheBlock == CHOOSE b \in Blocks : blocks[b].primary

\* bind_shared_sockets: the addresses that the supervisor holds.
Bound == {port \in Ports : \E u \in Users(port) : Spec(u[1][1], u[2]).shared /\ ShareBy[u[2]] = "inherit"}

\* prepare_worker, and the start of an adapter: a worker that does not declare a
\* singleton takes the cell of the primary block, without the socket.
Opens(p, d) ==
  LET own  == Declares(p[1], d)
      cell == IF own THEN Spec(p[1], d) ELSE Spec(TheBlock, d)
  IN [process |-> p, door |-> d, port |-> cell.port,
      how |-> IF cell.shared /\ ShareBy[d] = "reuseport" THEN "reuseport"
              ELSE IF cell.shared /\ own THEN "inherited" ELSE "alone"]
Replicated(p) == {Opens(p, d) : d \in {e \in Doors : Scaling[e] # "singleton" /\ Declares(p[1], e)}}
Singletons(p) == {Opens(p, d) : d \in {e \in Doors : Scaling[e] = "singleton"}}

\* The supervisor reads the configuration, binds and spawns.
Start ==
  /\ admitted = "unread"
  /\ IF Refused THEN admitted' = "refused" /\ UNCHANGED <<alive, primary, listening>>
     ELSE /\ admitted' = "started"
          /\ alive' = Processes
          /\ primary' = <<TheBlock, 0>>
          /\ listening' = (UNION {Replicated(p) : p \in Processes}) \cup Singletons(<<TheBlock, 0>>)
  /\ UNCHANGED blocks

Dies(p) ==
  /\ p \in alive /\ alive' = alive \ {p}
  /\ listening' = {l \in listening : l.process # p}
  /\ primary' = IF primary = p THEN Unassigned ELSE primary
  /\ UNCHANGED <<blocks, admitted>>

\* A process that is spawned again does not get its old role back.
Respawned(p) ==
  /\ admitted = "started" /\ p \in Processes \ alive /\ alive' = alive \cup {p}
  /\ listening' = listening \cup Replicated(p)
  /\ UNCHANGED <<blocks, admitted, primary>>

Promoted(p) ==
  /\ p \in alive /\ primary = Unassigned /\ primary' = p
  /\ listening' = listening \cup Singletons(p)
  /\ UNCHANGED <<blocks, admitted, alive>>

TopologyNext == Start \/ \E p \in Blocks \X (0 .. 2) : Dies(p) \/ Respawned(p) \/ Promoted(p)
TopologySpec == TopologyInit /\ [][TopologyNext]_topologyVars
-----------------------------------------------------------------------------
TopologyTypeOK ==
  /\ blocks \in [Blocks -> Block] /\ admitted \in {"unread", "refused", "started"}
  /\ alive \subseteq Processes /\ primary \in alive \cup {Unassigned}

\* In a cluster whose configuration was accepted no two processes ever need one
\* address that they cannot share, nor do two adapters meet on a socket, through all
\* the crashes and promotions that move a singleton to a process that never declared
\* it.  Excepted is a singleton that is declared shared: the supervisor holds its
\* socket, and the worker that is promoted binds the address again.
SharedSingleton(l) == Scaling[l.door] = "singleton" /\ Spec(TheBlock, l.door).shared
NoAddressTaken ==
  \A l, k \in listening :
    l.port = k.port /\ l # k => l.door = k.door /\ l.how = k.how /\ l.how # "alone"
NoBoundAddressTaken ==
  \A l \in listening : l.how = "alone" /\ l.port \in Bound => SharedSingleton(l)
AddressesSuffice == NoAddressTaken /\ NoBoundAddressTaken

\* While every process runs and one is primary, every adapter of main.py is served
\* by somebody, and a singleton by exactly one process.
EveryDoorOpen ==
  admitted = "started" /\ alive = Processes /\ primary # Unassigned =>
    \A d \in Doors :
      LET at == {l \in listening : l.door = d}
      IN at # {} /\ (Scaling[d] = "singleton" => Cardinality(at) = 1)

\* What parse_topology and validate_against_adapters accept can be run, through
\* crashes and promotions too (_processes.py:375-491, _supervisor.py:160-642).
TopologyIsSound == AddressesSuffice /\ EveryDoorOpen
=============================================================================
