----------------------------- MODULE StoreTable -----------------------------
(***************************************************************************)
(* How the processes of a service open one table of the store at start:    *)
(* LmdbEnvironment._check_parts and _open of starters/lmdb/_env.py, one    *)
(* step per call of the file system.  A deployment changed the number of   *)
(* partitions from Old to New, or the table is new.                        *)
(***************************************************************************)
EXTENDS Integers, FiniteSets

CONSTANTS Starters    \* the processes that start

VARIABLES
  table,     \* the directory under the table's name: an inode, or 0
  marker,    \* marker[i]: what .parts holds in directory i
  filled,    \* the directories that hold data files
  starter    \* starter[p]: where p is, what it read, the directory whose file it opened

tableVars == <<table, marker, filled, starter>>

Inode == 1 .. Cardinality(Starters) + 1
Missing == "missing"
Empty   == "empty"
Old     == "old"
New     == "new"

TableInit ==
  /\ \/ table = 0 /\ marker = [i \in Inode |-> Missing] /\ filled = {}
     \/ table = 1 /\ marker = [i \in Inode |-> IF i = 1 THEN Old ELSE Missing] /\ filled = {1}
  /\ starter = [p \in Starters |-> [at |-> "read", recorded |-> Missing, file |-> 0]]

Goes(p, at) == starter' = [starter EXCEPT ![p].at = at]

\* marker.read_text: an empty or a missing marker counts as none.
ReadMarker(p) ==
  /\ starter[p].at = "read"
  /\ LET text == IF table = 0 THEN Missing ELSE marker[table]
     IN starter' = [starter EXCEPT ![p].recorded = text,
                                   ![p].at = IF text = New THEN "open" ELSE "look"]
  /\ UNCHANGED <<table, marker, filled>>

\* table_dir.exists(), and it has a marker or any entry.
HasEntries == table # 0 /\ (marker[table] # Missing \/ table \in filled)
Look(p) ==
  /\ starter[p].at = "look"
  /\ IF table # 0 /\ (starter[p].recorded = Old \/ HasEntries) THEN Goes(p, "rename")
     ELSE Goes(p, "mkdir")
  /\ UNCHANGED <<table, marker, filled>>

\* os.rename moves whatever directory has the name by now; rmtree follows.
Rename(p) ==
  /\ starter[p].at = "rename" /\ Goes(p, "mkdir")
  /\ table' = 0
  /\ UNCHANGED <<marker, filled>>

\* mkdir(exist_ok=True): the next unused inode.
Unused == {i \in Inode : i # table /\ marker[i] = Missing /\ i \notin filled
                         /\ \A p \in Starters : starter[p].file # i}
Mkdir(p) ==
  /\ starter[p].at = "mkdir" /\ Goes(p, "mark")
  /\ IF table # 0 THEN UNCHANGED table ELSE \E i \in Unused : table' = i
  /\ UNCHANGED <<marker, filled>>

\* os.open with O_TRUNC empties the marker, write fills it.  If the directory is gone
\* the start ends with the error.
Truncate(p) ==
  /\ starter[p].at = "mark"
  /\ IF table = 0 THEN Goes(p, "failed") /\ UNCHANGED marker
     ELSE /\ starter' = [starter EXCEPT ![p].at = "write", ![p].file = table]
          /\ marker' = [marker EXCEPT ![table] = Empty]
  /\ UNCHANGED <<table, filled>>
Write(p) ==
  /\ starter[p].at = "write" /\ Goes(p, "open")
  /\ marker' = [marker EXCEPT ![starter[p].file] = New]
  /\ UNCHANGED <<table, filled>>

\* _open: mkdir(parents, exist_ok), then the data file of whatever directory is there.
OpenFile(p) ==
  /\ starter[p].at = "open"
  /\ \E i \in IF table # 0 THEN {table} ELSE Unused :
       /\ table' = i
       /\ starter' = [starter EXCEPT ![p].at = "serving", ![p].file = i]
       /\ filled' = filled \cup {i}
  /\ UNCHANGED marker

\* The start is over for all of them.
Over == \A p \in Starters : starter[p].at \in {"serving", "failed"}
TableNext ==
  \E p \in Starters : \/ ReadMarker(p) \/ Look(p) \/ Rename(p) \/ Mkdir(p)
                      \/ Truncate(p) \/ Write(p) \/ OpenFile(p)

TableSpec == TableInit /\ [][TableNext]_tableVars
-----------------------------------------------------------------------------
\* The comment in _check_parts: exactly one process moves the old directory away,
\* and every file made after that is in the new one.  So the processes that serve
\* share one file: what one of them stores the others find.
OneTable ==
  \A p, q \in Starters :
    starter[p].at = "serving" /\ starter[q].at = "serving" => starter[p].file = starter[q].file
=============================================================================
