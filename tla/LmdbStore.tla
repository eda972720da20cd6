----------------------------- MODULE LmdbStore -----------------------------
(***************************************************************************)
(* One file of the store that the processes of a service share:            *)
(* starters/lmdb/_store.py, _env.py and _cleanup.py.  A transaction is one *)
(* step, since LMDB admits one writer per file; what the framework does    *)
(* around it - retries, growth of the map, the sweep in two transactions - *)
(* interleaves.  The record that is followed is a lock taken with          *)
(* set_if_absent; the others only fill the file.                           *)
(***************************************************************************)
EXTENDS Integers, FiniteSets

CONSTANTS
  Procs,     \* processes of the service
  TTL,       \* seconds that a claim holds
  TotalMax,  \* lmdb.total_max, in units of map_size; a unit holds one record
  MaxClock   \* bound: seconds

ASSUME StoreAssumption == TTL \in Nat \ {0} /\ TotalMax \in Nat \ {0} /\ MaxClock \in Nat

VARIABLES
  clock,     \* time.time()
  deadline,  \* the stamp of the lock record, or NoLock
  fillers,   \* other records in the file
  fileSize,  \* the map size that the file records
  mapped,    \* mapped[p]: the map size of p's environment, also its _sizes entry
  op,        \* op[p]: the operation p is in
  lease,     \* lease[p]: until when p was told that it holds the lock
  scan       \* scan[p]: the sweep of p has found the lock record expired

storeVars == <<clock, deadline, fillers, fileSize, mapped, op, lease, scan>>

NoLock == -1
MaxTries == 4      \* _MAX_ATTEMPTS
NoOp == [kind |-> "none", stamp |-> 0, tries |-> 0]

StoreInit ==
  /\ clock = 0 /\ deadline = NoLock /\ fillers = 0 /\ fileSize = 1
  /\ mapped = [p \in Procs |-> 1]
  /\ op = [p \in Procs |-> NoOp]
  /\ lease = [p \in Procs |-> 0]
  /\ scan = [p \in Procs |-> FALSE]

PagesUsed == fillers + IF deadline = NoLock THEN 0 ELSE 1
Expired == deadline <= clock      \* _expired; an absent record has stamp -1
Larger(m, n) == IF m > n THEN m ELSE n

StoreTick ==
  /\ clock < MaxClock /\ clock' = clock + 1
  /\ UNCHANGED <<deadline, fillers, fileSize, mapped, op, lease, scan>>

\* set_if_absent, set and delete (of other records) compute their arguments; the
\* stamp of a claim is taken before any transaction.  A get re-maps like a claim that
\* is refused.
StoreBegin(p, kind) ==
  /\ op[p].kind = "none" /\ (kind = "drop" => fillers > 0)
  /\ op' = [op EXCEPT ![p] = [kind |-> kind, tries |-> 1,
                                 stamp |-> IF kind = "claim" THEN clock + TTL ELSE 0]]
  /\ UNCHANGED <<clock, deadline, fillers, fileSize, mapped, lease, scan>>

\* What a transaction of p meets (_run): another process grew the file, ...
Resized(p) == fileSize > mapped[p]
\* ... or the record does not fit in the map.
Full(p) ==
  /\ PagesUsed >= mapped[p]
  /\ \/ op[p].kind = "fill"
     \/ op[p].kind = "claim" /\ deadline = NoLock

TryAgain(p) == op' = IF op[p].tries = MaxTries THEN [op EXCEPT ![p].kind = "unsettled"]
                     ELSE [op EXCEPT ![p].tries = @ + 1]

\* adopt_external_size
Adopt(p) ==
  /\ op[p].kind \notin {"none", "unsettled"} /\ Resized(p)
  /\ mapped' = [mapped EXCEPT ![p] = fileSize]
  /\ TryAgain(p)
  /\ UNCHANGED <<clock, deadline, fillers, fileSize, lease, scan>>

\* grow doubles the map, unless _reserve refuses (StoreFullError).
Grown(p) == 2 * mapped[p]
Grow(p) ==
  /\ ~Resized(p) /\ Full(p)
  /\ IF Grown(p) > TotalMax THEN op' = [op EXCEPT ![p] = NoOp] /\ UNCHANGED mapped
     ELSE mapped' = [mapped EXCEPT ![p] = Grown(p)] /\ TryAgain(p)
  /\ UNCHANGED <<clock, deadline, fillers, fileSize, lease, scan>>

\* The transaction that succeeds; a commit makes p's map size that of the file.
Commit(p) ==
  /\ op[p].kind \notin {"none", "unsettled"} /\ ~Resized(p) /\ ~Full(p)
  /\ op' = [op EXCEPT ![p] = NoOp]
  /\ IF op[p].kind = "claim" /\ Expired
     THEN /\ deadline' = op[p].stamp
          /\ lease' = [lease EXCEPT ![p] = op[p].stamp]
     ELSE UNCHANGED <<deadline, lease>>
  /\ fillers' = CASE op[p].kind = "fill" -> fillers + 1
                  [] op[p].kind = "drop" /\ fillers > 0 -> fillers - 1
                  [] OTHER -> fillers
  /\ fileSize' = Larger(fileSize, mapped[p])
  /\ UNCHANGED <<clock, mapped, scan>>

\* The sweep: a read transaction collects, a write transaction deletes what is
\* still expired then.  A sweep that meets a resized file re-maps and ends.
Collect(p) ==
  /\ op[p].kind = "none" /\ ~scan[p]
  /\ IF Resized(p) THEN mapped' = [mapped EXCEPT ![p] = fileSize] /\ UNCHANGED scan
     ELSE deadline # NoLock /\ Expired /\ scan' = [scan EXCEPT ![p] = TRUE] /\ UNCHANGED mapped
  /\ UNCHANGED <<clock, deadline, fillers, fileSize, op, lease>>

DeletesAll == TRUE                                              \* mutant
Deletes == deadline # NoLock /\ Expired
DeleteBatch(p) ==
  /\ scan[p] /\ scan' = [scan EXCEPT ![p] = FALSE]
  /\ deadline' = IF ~Resized(p) /\ Deletes THEN NoLock ELSE deadline
  /\ fileSize' = IF Resized(p) THEN fileSize ELSE Larger(fileSize, mapped[p])
  /\ UNCHANGED <<clock, fillers, mapped, op, lease>>

StoreNext ==
  \/ StoreTick
  \/ \E p \in Procs :
       \/ \E kind \in {"claim", "fill", "drop"} : StoreBegin(p, kind)
       \/ Adopt(p) \/ Grow(p) \/ Commit(p) \/ Collect(p) \/ DeleteBatch(p)

StoreSpec == StoreInit /\ [][StoreNext]_storeVars
-----------------------------------------------------------------------------
StoreTypeOK ==
  /\ clock \in 0 .. MaxClock /\ deadline \in NoLock .. MaxClock + TTL
  /\ fileSize \in 1 .. TotalMax /\ mapped \in [Procs -> 1 .. TotalMax]
  /\ fillers \in 0 .. fileSize
  /\ \A p \in Procs : op[p].tries \in 0 .. MaxTries /\ lease[p] \in 0 .. MaxClock + TTL
  /\ scan \in [Procs -> BOOLEAN]

\* A lock that set_if_absent granted is held by one process at a time until its
\* time is over: neither an expiry at the same instant, nor a claim whose stamp was
\* computed before the file had to grow, nor the sweep of a process that had found
\* the record expired before it was written afresh, hands it to a second one.
OneHolder == Cardinality({p \in Procs : clock < lease[p]}) <= 1

\* Four attempts are enough where total_max is at most eight times map_size: every
\* failed attempt leaves the process with twice the map, its own growth or another's
\* (the settings of the framework allow a larger ratio, where the error that says
\* "did not settle" can be met).
OperationsSettle == \A p \in Procs : op[p].kind # "unsettled"

\* Locks and growth of the shared file (_store.py:298-385, _env.py:336-413).
StoreIsSound == OneHolder /\ OperationsSettle
=============================================================================
