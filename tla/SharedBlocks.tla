--------------------------- MODULE SharedBlocks ----------------------------
(***************************************************************************)
(* The life of a run under a supervisor, as far as it concerns what the    *)
(* system keeps by name: blocks of shared memory (reference data, link     *)
(* channels, heartbeats) and the file of a shared Unix socket.  A          *)
(* supervisor sweeps what dead runs have left, binds, allocates, spawns    *)
(* workers that attach, and takes everything down; any of these steps may  *)
(* fail or be the last before a kill.  Runs of one application follow one  *)
(* another; those of different applications overlap on one host.           *)
(***************************************************************************)
EXTENDS Integers, Sequences, SequencesExt

CONSTANTS
  RunApp,          \* the application of each run: a sequence of names
  BlockOrder,      \* what allocate_shared_memory makes, in order: "ref..", "link..",
                   \* then "bells", which have no name, and "beats"
  FamilyOf,        \* block -> "refdata", "link", "bells", "beats"
  WorkersPerRun,
  MaxMishaps       \* bound: failures, interrupts and kills

RunIds == DOMAIN RunApp
Steps == DOMAIN BlockOrder
NamedBlocks == {b \in ToSet(BlockOrder) : FamilyOf[b] # "bells"}

ASSUME BlocksAssumption == BlockOrder \in Seq(DOMAIN FamilyOf) \ {<<>>} /\ MaxMishaps \in Nat

VARIABLES
  run,        \* run -> [phase, next: the step of the allocation, recorded: the blocks
              \* in its books, listing: names that its sweep has yet to look at]
  shm,        \* the names in /dev/shm: <<run, block>>
  headers,    \* those whose header is written
  socketFile, \* application -> the run whose socket has the path, 0 if there is none
  strangers,  \* ended runs whose supervisor's pid another process has
  worker,     \* <<run, w>> -> [at, attached: the steps of BlockOrder it has been through]
  blockMark   \* history: runs that were killed or interrupted, that failed at the bells;
              \* what was dead when a sweep began; whether a worker that was wanted did
              \* not find a block; a count

blocksVars == <<run, shm, headers, socketFile, strangers, worker, blockMark>>

Gone(r) == run[r].phase \in {"off", "gone"}
Mine(r) == {n \in shm : n[1] = r}
Mishap == blockMark.mishaps < MaxMishaps

BlocksInit ==
  /\ run = [r \in RunIds |-> [phase |-> "off", next |-> 1, recorded |-> {}, listing |-> {}]]
  /\ shm = {} /\ headers = {} /\ strangers = {}
  /\ socketFile = [a \in ToSet(RunApp) |-> 0]
  /\ worker = [w \in RunIds \X (1 .. WorkersPerRun) |-> [at |-> "off", attached |-> 0]]
  /\ blockMark = [broken |-> {}, bells |-> {}, dead |-> [r \in RunIds |-> {}],
                  lost |-> FALSE, mishaps |-> 0]

Phase(r, p) == run' = [run EXCEPT ![r].phase = p]

----------------------------------------------------------------------------
(* run_supervisor                                                          *)

(* The name of a block carries the pid of who made it: it has an owner     *)
(* while a process has that pid                                            *)
Sweepable(n) == Gone(n[1]) /\ n[1] \notin strangers

(* The listing of the directory                                            *)
SweepStarts(r) ==
  /\ run[r].phase = "off"
  /\ \A s \in RunIds : s < r /\ RunApp[s] = RunApp[r] => run[s].phase = "gone"
  /\ run' = [run EXCEPT ![r].phase = "sweep", ![r].listing = shm]
  /\ blockMark' = [blockMark EXCEPT !.dead[r] = {n \in shm : Gone(n[1])}]
  /\ UNCHANGED <<shm, headers, socketFile, strangers, worker>>

(* a name without a living owner goes; somebody may have removed it already *)
SweepLooks(r, n) ==
  /\ run[r].phase = "sweep" /\ n \in run[r].listing
  /\ run' = [run EXCEPT ![r].listing = @ \ {n}]
  /\ shm' = IF Sweepable(n) THEN shm \ {n} ELSE shm
  /\ headers' = headers \intersect shm'
  /\ UNCHANGED <<socketFile, strangers, worker, blockMark>>

(* bind_shared_sockets: what stands at the path is removed first.  A bind  *)
(* that fails ends the run before anything was allocated                   *)
Binds(r) ==
  /\ run[r].phase = "sweep" /\ run[r].listing = {}
  /\ Phase(r, "alloc") /\ socketFile' = [socketFile EXCEPT ![RunApp[r]] = r]
  /\ UNCHANGED <<shm, headers, strangers, worker, blockMark>>

BindFails(r) ==
  /\ run[r].phase = "sweep" /\ run[r].listing = {} /\ Mishap
  /\ Phase(r, "gone")
  /\ socketFile' = [socketFile EXCEPT ![RunApp[r]] = 0]
  /\ blockMark' = [blockMark EXCEPT !.mishaps = @ + 1]
  /\ UNCHANGED <<shm, headers, strangers, worker>>

----------------------------------------------------------------------------
(* allocate_shared_memory                                                  *)
Step(r) == BlockOrder[run[r].next]

CreatesBlock(r) ==
  /\ run[r].phase = "alloc" /\ FamilyOf[Step(r)] # "bells" /\ <<r, Step(r)>> \notin shm
  /\ shm' = shm \union {<<r, Step(r)>>}
  /\ UNCHANGED <<run, headers, socketFile, strangers, worker, blockMark>>

(* write_header, and the block is entered in the dictionary; the bells are *)
(* semaphores without a name                                               *)
RecordsBlock(r) ==
  /\ run[r].phase = "alloc"
  /\ FamilyOf[Step(r)] = "bells" \/ <<r, Step(r)>> \in shm
  /\ headers' = headers \union ({<<r, Step(r)>>} \intersect shm)
  /\ run' = [run EXCEPT ![r].recorded = @ \union {Step(r)},
                        ![r].next = @ + 1,
                        ![r].phase = IF run[r].next = Len(BlockOrder) THEN "spawn" ELSE "alloc"]
  /\ UNCHANGED <<shm, socketFile, strangers, worker, blockMark>>

(* What the `except` clauses take back when step b fails: create() its own *)
(* family, allocate_shared_memory the others.  The semaphores are made     *)
(* after the `try` of ProcessLink.create, and the link is not yet assigned *)
TakenBack(r, b) ==
  IF FamilyOf[b] = "bells"
  THEN {c \in run[r].recorded : FamilyOf[c] # "link"} ELSE run[r].recorded

(* close() of an owner: whatever is in its dictionary is closed, unlinked   *)
Unlinks(r, blocks) ==
  shm' = shm \ ({r} \X blocks) /\ headers' = headers \intersect shm'

AllocationFails(r) ==
  /\ run[r].phase = "alloc" /\ <<r, Step(r)>> \notin shm /\ Mishap
  /\ Unlinks(r, TakenBack(r, Step(r))) /\ Phase(r, "gone")
  /\ blockMark' = [blockMark EXCEPT !.mishaps = @ + 1,
                     !.bells = IF FamilyOf[Step(r)] = "bells" THEN @ \union {r} ELSE @]
  /\ UNCHANGED <<socketFile, strangers, worker>>

(* KeyboardInterrupt, while no handler is installed; it may come between   *)
(* the creation of a block and its entry                                   *)
Interrupted(r) ==
  /\ run[r].phase = "alloc" /\ <<r, Step(r)>> \in shm /\ Mishap
  /\ Unlinks(r, TakenBack(r, Step(r))) /\ Phase(r, "gone")
  /\ blockMark' = [blockMark EXCEPT !.mishaps = @ + 1, !.broken = @ \union {r}]
  /\ UNCHANGED <<socketFile, strangers, worker>>

----------------------------------------------------------------------------
(* Supervisor.run, and the workers                                         *)
StartsWorker(r, w) ==
  /\ run[r].phase = "spawn" /\ worker[<<r, w>>].at \in {"off", "died"}
  /\ worker' = [worker EXCEPT ![<<r, w>>] = [at |-> "attaching", attached |-> 0]]
  /\ UNCHANGED <<run, shm, headers, socketFile, strangers, blockMark>>

(* verify_header: a block that is not (yet) what this process expects      *)
HeaderFits(n) == n \in headers

(* RefDataArena.attach, ProcessLink.attach, Heartbeats.attach: each block  *)
(* by its name; the bells came with the start of the process               *)
Attaches(w) ==
  LET r == w[1]
      b == BlockOrder[worker[w].attached + 1]
  IN /\ worker[w].at = "attaching"
     /\ IF FamilyOf[b] = "bells" \/ (<<r, b>> \in shm /\ HeaderFits(<<r, b>>))
        THEN /\ worker' = [worker EXCEPT ![w].attached = @ + 1,
                 ![w].at = IF worker[w].attached + 1 = Len(BlockOrder) THEN "up" ELSE "attaching"]
             /\ UNCHANGED blockMark
        ELSE /\ worker' = [worker EXCEPT ![w].at = "died"]
             /\ blockMark' = [blockMark EXCEPT !.lost = @ \/ ~Gone(r)]
     /\ UNCHANGED <<run, shm, headers, socketFile, strangers>>

(* crash, SIGTERM, or the orphan guard after the supervisor's death        *)
WorkerExits(w) ==
  /\ worker[w].at \in {"attaching", "up"}
  /\ run[w[1]].phase = "stop" \/ Gone(w[1]) \/ Mishap
  /\ worker' = [worker EXCEPT ![w].at = "died"]
  /\ blockMark' = [blockMark EXCEPT
       !.mishaps = IF run[w[1]].phase = "stop" \/ Gone(w[1]) THEN @ ELSE @ + 1]
  /\ UNCHANGED <<run, shm, headers, socketFile, strangers>>

(* a signal, or a constructor that refuses the application's main module   *)
StopsRun(r) ==
  /\ run[r].phase = "spawn" /\ Phase(r, "stop")
  /\ UNCHANGED <<shm, headers, socketFile, strangers, worker, blockMark>>

WorkersEnded(r) == \A w \in 1 .. WorkersPerRun : worker[<<r, w>>].at \notin {"attaching", "up"}

(* _shutdown joins or kills every child, then _close_sockets removes the   *)
(* path; the `finally` of run_supervisor unlinks                           *)
Releases(r) ==
  /\ run[r].phase = "stop" /\ WorkersEnded(r)
  /\ Phase(r, "gone")
  /\ Unlinks(r, run[r].recorded)
  /\ socketFile' = [socketFile EXCEPT ![RunApp[r]] = 0]
  /\ UNCHANGED <<strangers, worker, blockMark>>

Killed(r) ==
  /\ ~Gone(r) /\ Mishap
  /\ Phase(r, "gone")
  /\ blockMark' = [blockMark EXCEPT !.mishaps = @ + 1, !.broken = @ \union {r}]
  /\ UNCHANGED <<shm, headers, socketFile, strangers, worker>>

----------------------------------------------------------------------------
(* Other processes of the host; and Python's resource tracker, which may   *)
(* remove what a dead run has left                                         *)
PidIsReused(r) ==
  /\ run[r].phase = "gone" /\ Mine(r) # {} /\ strangers' = strangers \union {r}
  /\ UNCHANGED <<run, shm, headers, socketFile, worker, blockMark>>

TrackerRemoves(r) ==
  /\ run[r].phase = "gone" /\ WorkersEnded(r)
  /\ shm' = shm \ Mine(r) /\ headers' = headers \ Mine(r)
  /\ UNCHANGED <<run, socketFile, strangers, worker, blockMark>>

BlocksNext ==
  \/ \E r \in RunIds :
       \/ Binds(r) \/ BindFails(r) \/ CreatesBlock(r) \/ RecordsBlock(r) \/ AllocationFails(r)
       \/ Interrupted(r) \/ StopsRun(r) \/ Releases(r) \/ Killed(r)
       \/ SweepStarts(r) \/ PidIsReused(r) \/ TrackerRemoves(r)
       \/ \E n \in run[r].listing : SweepLooks(r, n)
       \/ \E w \in 1 .. WorkersPerRun : StartsWorker(r, w)
  \/ \E w \in DOMAIN worker : Attaches(w) \/ WorkerExits(w)

BlocksSpec == BlocksInit /\ [][BlocksNext]_blocksVars

----------------------------------------------------------------------------
BlocksTypeOK ==
  /\ shm \subseteq RunIds \X NamedBlocks /\ headers \subseteq shm
  /\ \A r \in RunIds : run[r].phase \in {"off", "sweep", "alloc", "spawn", "stop", "gone"}
  /\ \A r \in RunIds : run[r].listing \subseteq RunIds \X NamedBlocks
  /\ strangers \subseteq RunIds

\* The blocks of a run that lives are there, headers written, from the first worker
\* to the last, whatever sweeps of other applications look at meanwhile; no worker
\* that is wanted fails to attach, and none outlives a supervisor that was not killed.
LiveBlocksStay ==
  /\ \A r \in RunIds : run[r].phase \in {"spawn", "stop"} => {r} \X NamedBlocks \subseteq headers
  /\ ~blockMark.lost
  /\ \A r \in RunIds : run[r].phase = "gone" /\ r \notin blockMark.broken => WorkersEnded(r)

\* A run that ended by itself has left nothing behind, whichever step of its
\* allocation failed, but for semaphores that could not be made (then the blocks of
\* the link stay until the next sweep) and an interrupt inside a step.
NothingStays ==
  \A r \in RunIds : run[r].phase = "gone" /\ r \notin blockMark.broken \union blockMark.bells
    => Mine(r) = {}

\* What was an orphan when a sweep began is gone when it ends, unless the pid in its
\* name has gone to another process.
SweepFinds ==
  \A r \in RunIds : run[r].phase \in {"alloc", "spawn", "stop"} =>
    \A n \in blockMark.dead[r] : n \in shm => n[1] \in strangers

BlocksAreSound == LiveBlocksStay /\ NothingStays /\ SweepFinds
=============================================================================
