------------------------------ MODULE RefData ------------------------------
(***************************************************************************)
(* One table of xime/core/refdata: two slots, a pointer to the one in use  *)
(* and a generation in shared memory; every process reads without a lock,  *)
(* the primary publishes into the slot that is not in use.                 *)
(*                                                                         *)
(* _write and read are synchronous, so each of them runs alone on the      *)
(* event loop of its process and interleaves with the other processes at   *)
(* every access to shared memory; a payload is copied in two halves.       *)
(* Between the check of the role and _write lies an await (encode in a     *)
(* thread).  The role itself changes as the supervisor decides (module     *)
(* PrimaryRole): here it is granted, refused or lost with its process.     *)
(***************************************************************************)
EXTENDS Integers, FiniteSets

CONSTANTS
  ProcessCount,   \* processes that hold the table, numbered from 0
  FirstPrimary,   \* the process that starts as primary
  MaxSpins,       \* MAX_SPINS
  MaxPublishes,   \* bound: calls of publish() over the behaviour
  MaxCrashes,     \* bound: processes that die and are restarted
  MaxGrants       \* bound: promotions

Proc   == 0 .. ProcessCount - 1
Slot   == {0, 1}
Nobody == -1

ASSUME RefDataAssumption ==
  /\ ProcessCount \in 1 .. 255
  /\ FirstPrimary \in Proc
  /\ MaxSpins \in Nat \ {0}
  /\ {MaxPublishes, MaxCrashes, MaxGrants} \subseteq Nat

\* A payload is known by the version its length and its halves come from.
Empty == [length |-> 0, low |-> 0, high |-> 0]
Payload == [length : Nat, low : Nat, high : Nat]
Whole(x) == x.length = x.low /\ x.low = x.high

VARIABLES
  \* shared memory
  slot,        \* slot[s]: length and bytes of the slot
  pointer,     \* con_tro
  generation,  \* so_doi
  stale,       \* FLAG_STALE
  \* the role
  primary,     \* the process for which arena.primary holds
  \* each process
  encoding,    \* encoding[p]: the publish() calls of p that await encode_segments
  loop,        \* loop[p]: the synchronous code running in p
  cache,       \* cache[p]: _cached and _cached_generation, what read() returned last
  \* history
  version,     \* versions written so far
  acked,       \* the newest version whose generation has been written
  newest,      \* the newest publish() call that has ended: was it too large?
  overlapped,  \* some publish() was called before another one had ended
  intruded,    \* some process wrote without being primary
  cut,         \* where writers died that had moved the pointer
  calls, crashes, grants

memory  == <<slot, pointer, generation, stale>>
history == <<version, acked, newest, overlapped, intruded, cut>>
bounds  == <<calls, crashes, grants>>
vars    == <<memory, primary, encoding, loop, cache, history, bounds>>

Idle == [pc |-> "free", call |-> 0, target |-> 0, version |-> 0, first |-> 0, chunk |-> Empty,
         spins |-> 0, floor |-> 0]
Uncached == [generation |-> 0, value |-> Empty]

Init ==
  /\ slot = [s \in Slot |-> Empty]
  /\ pointer = 0
  /\ generation = 0
  /\ stale = FALSE
  /\ primary = FirstPrimary
  /\ encoding = [p \in Proc |-> {}]
  /\ loop = [p \in Proc |-> Idle]
  /\ cache = [p \in Proc |-> Uncached]
  /\ version = 0
  /\ acked = 0
  /\ newest = [call |-> 0, refused |-> FALSE]
  /\ overlapped = FALSE
  /\ intruded = FALSE
  /\ cut = {}
  /\ calls = 0 /\ crashes = 0 /\ grants = 0
-----------------------------------------------------------------------------
(* publish *)

Field == {"low", "high", "length", "pointer", "count", "generation", "stale"}
Writing(p) == loop[p].pc \in Field

\* publish(): the role is checked, then encode_segments runs in a thread.
Publish(p) ==
  /\ calls < MaxPublishes
  /\ loop[p].pc = "free"
  /\ primary = p
  /\ calls' = calls + 1
  /\ encoding' = [encoding EXCEPT ![p] = @ \cup {calls + 1}]
  /\ overlapped' = (overlapped \/ \E q \in Proc : encoding[q] # {} \/ Writing(q))
  /\ UNCHANGED <<memory, primary, loop, cache, version, acked, newest, intruded, cut,
                 crashes, grants>>

SilentRefusal(flag) == flag                       \* mutant: the flag is not set
StaleAfterRefusal(flag) == TRUE

Ended(call, refused) ==
  newest' = IF call > newest.call THEN [call |-> call, refused |-> refused] ELSE newest

\* _write, when the new version is larger than max_bytes: the flag, then raise.
\* Encodings end in any order.
RefuseTooLarge(p, call) ==
  /\ loop[p].pc = "free" /\ call \in encoding[p]
  /\ encoding' = [encoding EXCEPT ![p] = @ \ {call}]
  /\ stale' = StaleAfterRefusal(stale)
  /\ Ended(call, TRUE)
  /\ UNCHANGED <<slot, pointer, generation, primary, loop, cache, version, acked, overlapped,
                 intruded, cut, bounds>>

SlotInUse(used) == used                           \* mutant: written in place
SpareSlot(used) == 1 - used

\* _write, when it fits: choose the spare slot.
BeginWrite(p, call) ==
  /\ loop[p].pc = "free" /\ call \in encoding[p]
  /\ encoding' = [encoding EXCEPT ![p] = @ \ {call}]
  /\ version' = version + 1
  /\ loop' = [loop EXCEPT ![p] = [Idle EXCEPT !.pc = "low", !.call = call,
                                              !.target = SpareSlot(pointer),
                                              !.version = version + 1]]
  /\ intruded' = (intruded \/ primary # p)
  /\ UNCHANGED <<memory, primary, cache, acked, newest, overlapped, cut, bounds>>

\* The order of the writes; mutant: the generation goes first.
GenerationFirst == [low |-> "high", high |-> "length", length |-> "count", count |-> "generation",
                    generation |-> "pointer", pointer |-> "stale", stale |-> "free"]
Then == [low |-> "high", high |-> "length", length |-> "pointer", pointer |-> "count",
         count |-> "generation", generation |-> "stale", stale |-> "free"]

\* The fields _write writes, one after the other; at "count" it reads the
\* generation it is about to raise.
Write(p, field) ==
  LET x == loop[p] IN
  /\ x.pc = field
  /\ loop' = [loop EXCEPT ![p] =
       IF field = "stale" THEN Idle
       ELSE [x EXCEPT !.pc = Then[field],
                      !.first = IF field = "count" THEN generation ELSE x.first]]
  /\ slot' = IF field \in {"low", "high", "length"}
             THEN [slot EXCEPT ![x.target][field] = x.version] ELSE slot
  /\ pointer' = IF field = "pointer" THEN x.target ELSE pointer
  /\ generation' = IF field = "generation" THEN x.first + 1 ELSE generation
  /\ acked' = IF field = "generation" THEN x.version ELSE acked
  /\ stale' = IF field = "stale" THEN FALSE ELSE stale
  /\ IF field = "stale" THEN Ended(x.call, FALSE) ELSE UNCHANGED newest
  /\ UNCHANGED <<primary, encoding, cache, version, overlapped, intruded, cut, bounds>>
-----------------------------------------------------------------------------
(* read *)

\* read() looks at the generation, at its start and after an attempt that failed.
Looking(p) == loop[p].pc \in {"free", "r-again"} /\ generation # 0
Floor(p)   == IF loop[p].pc = "free" THEN acked ELSE loop[p].floor

\* The cached version is the current one.
ReadCached(p) ==
  /\ Looking(p)
  /\ generation = cache[p].generation
  /\ loop' = [loop EXCEPT ![p] = Idle]
  /\ UNCHANGED <<memory, primary, encoding, cache, version, acked, newest, overlapped, intruded,
                 cut, bounds>>

\* The generation has moved.
BeginRead(p) ==
  /\ Looking(p)
  /\ generation # cache[p].generation
  /\ loop' = [loop EXCEPT ![p] = [Idle EXCEPT !.pc = "r-pointer", !.first = generation,
                                              !.floor = Floor(p), !.spins = loop[p].spins]]
  /\ UNCHANGED <<memory, primary, encoding, cache, history, bounds>>

ReadPointer(p) ==
  /\ loop[p].pc = "r-pointer"
  /\ loop' = [loop EXCEPT ![p].target = pointer, ![p].pc = "r-length"]
  /\ UNCHANGED <<memory, primary, encoding, cache, history, bounds>>

\* slot_view, then bytes().
Copy(p) ==
  /\ LET x == loop[p]
         s == slot[x.target]
     IN  \/ /\ x.pc = "r-length"
            /\ loop' = [loop EXCEPT ![p] = [x EXCEPT !.pc = "r-low", !.chunk.length = s.length]]
         \/ /\ x.pc = "r-low"
            /\ loop' = [loop EXCEPT ![p] = [x EXCEPT !.pc = "r-high", !.chunk.low = s.low]]
         \/ /\ x.pc = "r-high"
            /\ loop' = [loop EXCEPT ![p] = [x EXCEPT !.pc = "r-confirm", !.chunk.high = s.high]]
  /\ UNCHANGED <<memory, primary, encoding, cache, history, bounds>>

AlwaysConfirmed(first) == TRUE                    \* mutant: no second look
Confirmed(first) == generation = first

SpentLate(spins) == spins = MaxSpins              \* mutant: one attempt too many
Spent(spins) == spins + 1 = MaxSpins              \* was that the last attempt?

\* The generation is looked at again: the copy is good, or one more attempt, or
\* RefDataTornError.
Confirm(p) ==
  /\ loop[p].pc = "r-confirm"
  /\ LET x == loop[p]
     IN  \/ /\ Confirmed(x.first)
            /\ cache' = [cache EXCEPT ![p] = [generation |-> x.first, value |-> x.chunk]]
            /\ loop' = [loop EXCEPT ![p] = Idle]
         \/ /\ ~Confirmed(x.first)
            /\ loop' = [loop EXCEPT ![p] =
                 IF Spent(x.spins) THEN Idle
                 ELSE [Idle EXCEPT !.pc = "r-again", !.floor = x.floor, !.spins = x.spins + 1]]
            /\ UNCHANGED cache
  /\ UNCHANGED <<memory, primary, encoding, version, acked, newest, overlapped, intruded, cut,
                 bounds>>
-----------------------------------------------------------------------------
(* The role and the processes *)

\* The supervisor promotes p, or restarts it as primary.
Grant(p) ==
  /\ grants < MaxGrants
  /\ primary = Nobody
  /\ loop[p].pc = "free"
  /\ primary' = p
  /\ grants' = grants + 1
  /\ UNCHANGED <<memory, encoding, loop, cache, history, calls, crashes>>

\* _accept_promotion of p fails: p goes on without the role.
GiveUpRole(p) ==
  /\ primary = p
  /\ loop[p].pc = "free"
  /\ primary' = Nobody
  /\ UNCHANGED <<memory, encoding, loop, cache, history, bounds>>

\* p dies between any two accesses and is restarted.
CrashAndRespawn(p) ==
  /\ crashes < MaxCrashes
  /\ crashes' = crashes + 1
  /\ primary' = IF primary = p THEN Nobody ELSE primary
  /\ encoding' = [encoding EXCEPT ![p] = {}]
  /\ loop' = [loop EXCEPT ![p] = Idle]
  /\ cache' = [cache EXCEPT ![p] = Uncached]
  /\ cut' = cut \cup ({"count", "generation", "stale"} \cap {loop[p].pc})
  /\ UNCHANGED <<memory, version, acked, newest, overlapped, intruded, calls, grants>>

Next ==
  \E p \in Proc :
    \/ Publish(p)
    \/ \E call \in encoding[p] : RefuseTooLarge(p, call) \/ BeginWrite(p, call)
    \/ \E field \in Field : Write(p, field)
    \/ ReadCached(p) \/ BeginRead(p) \/ ReadPointer(p) \/ Copy(p) \/ Confirm(p)
    \/ Grant(p) \/ GiveUpRole(p) \/ CrashAndRespawn(p)

Spec == Init /\ [][Next]_vars
-----------------------------------------------------------------------------
ReadPC == {"r-again", "r-pointer", "r-length", "r-low", "r-high", "r-confirm"}

\* Every variable has the shape _layout.py and _refdata.py give it.
TypeOK ==
  /\ slot \in [Slot -> Payload]
  /\ pointer \in Slot
  /\ generation \in Nat
  /\ stale \in BOOLEAN
  /\ primary \in Proc \cup {Nobody}
  /\ encoding \in [Proc -> SUBSET (1 .. calls)]
  /\ loop \in [Proc -> [pc : Field \cup ReadPC \cup {"free"}, call : Nat, target : Slot,
                        version : Nat, first : Nat, chunk : Payload,
                        spins : 0 .. MaxSpins - 1, floor : Nat]]
  /\ cache \in [Proc -> [generation : Nat, value : Payload]]
  /\ version \in Nat /\ acked \in Nat
  /\ newest \in [call : Nat, refused : BOOLEAN]
  /\ overlapped \in BOOLEAN /\ intruded \in BOOLEAN /\ cut \subseteq Field
  /\ calls \in Nat /\ crashes \in Nat /\ grants \in Nat

ReadsAreWhole == \A p \in Proc : Whole(cache[p].value)

\* As long as only the primary writes, read() returns one version as it was
\* published, never parts of two (refdata.md: two versions are kept "so a reader
\* never sees a half-written one").
WholeWithOneWriter == intruded \/ ReadsAreWhole

CutBeforeGeneration == cut \cap {"count", "generation"} # {}

\* Half a version is read in two ways only: a process wrote without being
\* primary, or a writer died between the pointer and the generation.
WholeUnlessDisturbed == intruded \/ CutBeforeGeneration \/ ReadsAreWhole

\* read() returns no version older than the newest that was published before
\* the call, also across crashes of the writer.
ReadsAreFresh ==
  intruded \/ \A p \in Proc :
    /\ cache[p].generation = generation => cache[p].value.low >= acked
    /\ loop[p].pc = "r-confirm" /\ loop[p].first = generation
         => loop[p].chunk.low >= loop[p].floor

\* What a process reads never goes back to an older version.
ReadsNeverGoBack ==
  [][\A p \in Proc :
       intruded' \/ crashes' # crashes \/ cache'[p].value.low >= cache[p].value.low]_vars

\* Once a publication is over, processes that have the current generation in
\* their cache have the same version.
SameGenerationSameVersion ==
  (~intruded /\ ~CutBeforeGeneration /\ \A p \in Proc : ~Writing(p)) =>
    \A p, q \in Proc :
      cache[p].generation = generation /\ cache[q].generation = generation
        => cache[p].value = cache[q].value

\* The flag `stale' tells whether the newest version was too large and an older
\* one is served, to every process and across changes of the primary (_layout.py
\* on FLAG_STALE).  Two things make it lie: calls of publish() that overlap (an
\* older version that fits is written last and takes the flag down), and a
\* writer that dies between the generation and the flag.
StaleTellsTheTruth ==
  \/ overlapped
  \/ "stale" \in cut
  \/ stale <=> newest.refused
=============================================================================
