--------------------------- MODULE RefDataProofs ---------------------------
(***************************************************************************)
(* Theorems about RefData, for every number of processes, publications,    *)
(* attempts, crashes and promotions.                                       *)
(***************************************************************************)
EXTENDS RefData, TLAPS

\* The record type of the synchronous code of one process.
LoopState == [pc : Field \cup ReadPC \cup {"free"}, call : Nat, target : Slot, version : Nat,
              first : Nat, chunk : Payload, spins : 0 .. MaxSpins - 1, floor : Nat]
CacheState == [generation : Nat, value : Payload]

LEMMA Defaults == Empty \in Payload /\ Idle \in LoopState /\ Uncached \in CacheState
<1>1. Empty \in Payload
  BY DEF Empty, Payload
<1> QED
  BY <1>1, RefDataAssumption DEF Idle, LoopState, Uncached, CacheState, Slot

LEMMA InitTypeOK == Init => TypeOK
<1> SUFFICES ASSUME Init PROVE TypeOK
  OBVIOUS
<1> USE Defaults
<1>1. slot \in [Slot -> Payload] /\ pointer \in Slot
  BY DEF Init, Slot
<1>2. loop \in [Proc -> LoopState] /\ cache \in [Proc -> CacheState]
  BY DEF Init
<1>3. primary \in Proc \cup {Nobody} /\ cut \subseteq Field
  BY RefDataAssumption DEF Init
<1>4. newest \in [call : Nat, refused : BOOLEAN] /\ encoding \in [Proc -> SUBSET (1 .. calls)]
  BY DEF Init
<1> QED
  BY <1>1, <1>2, <1>3, <1>4 DEF Init, TypeOK, LoopState, CacheState

\* A step that changes the code of p alone, to a well-typed record.
LEMMA LoopMoves ==
  ASSUME TypeOK, NEW p \in Proc, NEW s \in LoopState, loop' = [loop EXCEPT ![p] = s]
  PROVE  /\ loop' \in [Proc -> LoopState]
         /\ loop'[p] = s
         /\ \A q \in Proc : q # p => loop'[q] = loop[q]
BY DEF TypeOK, LoopState

\* Every step keeps the types.
LEMMA NextTypeOK == TypeOK /\ [Next]_vars => TypeOK'
<1> SUFFICES ASSUME TypeOK, [Next]_vars PROVE TypeOK'
  OBVIOUS
<1> USE Defaults DEF Payload
<1>a. /\ loop \in [Proc -> LoopState] /\ cache \in [Proc -> CacheState]
      /\ \A p \in Proc : loop[p] \in LoopState
  BY DEF TypeOK, LoopState, CacheState
<1>b. ASSUME loop' \in [Proc -> LoopState], cache' \in [Proc -> CacheState],
             UNCHANGED <<memory, primary, version, acked, newest, overlapped, intruded, cut>>,
             UNCHANGED <<encoding, bounds>>
      PROVE  TypeOK'
  BY <1>b DEF TypeOK, LoopState, CacheState, memory, bounds
<1>1. CASE UNCHANGED vars
  BY <1>1 DEF vars, memory, history, bounds, TypeOK
<1>2. ASSUME NEW p \in Proc, Publish(p) PROVE TypeOK'
  BY <1>2 DEF Publish, TypeOK, memory
<1>3. ASSUME NEW p \in Proc, NEW call \in encoding[p], RefuseTooLarge(p, call) PROVE TypeOK'
  <2>1. call \in Nat
    BY DEF TypeOK
  <2> QED
    BY <1>3, <2>1 DEF RefuseTooLarge, StaleAfterRefusal, Ended, TypeOK, bounds
<1>4. ASSUME NEW p \in Proc, NEW call \in encoding[p], BeginWrite(p, call) PROVE TypeOK'
  <2>1. call \in Nat /\ SpareSlot(pointer) \in Slot /\ version + 1 \in Nat
    BY DEF TypeOK, SpareSlot, Slot
  <2>2. [Idle EXCEPT !.pc = "low", !.call = call, !.target = SpareSlot(pointer),
                     !.version = version + 1] \in LoopState
    BY <2>1, RefDataAssumption DEF Idle, LoopState, Field
  <2>3. loop' \in [Proc -> LoopState]
    BY <1>4, <2>2, <1>a DEF BeginWrite
  <2> QED
    BY <1>4, <2>1, <2>3 DEF BeginWrite, TypeOK, LoopState, memory, bounds
<1>5. ASSUME NEW p \in Proc, NEW field \in Field, Write(p, field) PROVE TypeOK'
  <2> DEFINE x == loop[p]
  <2>1. x \in LoopState
    BY <1>a
  <2>2. loop' \in [Proc -> LoopState]
    <3>1. CASE field = "stale"
      BY <3>1, <1>5, <1>a DEF Write
    <3>2. CASE field # "stale"
      <4>1. Then[field] \in Field \cup {"free"}
        BY <3>2 DEF Then, Field
      <4>2. (IF field = "count" THEN generation ELSE x.first) \in Nat
        BY <2>1 DEF TypeOK, LoopState
      <4>3. [x EXCEPT !.pc = Then[field], !.first = IF field = "count" THEN generation ELSE x.first]
              \in LoopState
        BY <2>1, <4>1, <4>2 DEF LoopState
      <4>4. loop' = [loop EXCEPT ![p] = [x EXCEPT !.pc = Then[field],
                              !.first = IF field = "count" THEN generation ELSE x.first]]
        BY <3>2, <1>5 DEF Write
      <4> QED
        BY <4>3, <4>4, <1>a
    <3> QED
      BY <3>1, <3>2
  <2>3. slot' \in [Slot -> Payload]
    <3>1. x.target \in Slot /\ x.version \in Nat /\ slot \in [Slot -> Payload]
      BY <2>1 DEF TypeOK, LoopState
    <3>2. CASE field = "low"
      BY <3>1, <3>2, <1>5 DEF Write
    <3>3. CASE field = "high"
      BY <3>1, <3>3, <1>5 DEF Write
    <3>4. CASE field = "length"
      BY <3>1, <3>4, <1>5 DEF Write
    <3>5. CASE field \notin {"low", "high", "length"}
      BY <3>1, <3>5, <1>5 DEF Write
    <3> QED
      BY <3>2, <3>3, <3>4, <3>5
  <2>4. pointer' \in Slot /\ generation' \in Nat /\ acked' \in Nat /\ stale' \in BOOLEAN
    <3>1. x.target \in Slot /\ x.first + 1 \in Nat /\ x.version \in Nat
      BY <2>1 DEF LoopState
    <3>2. pointer \in Slot /\ generation \in Nat /\ acked \in Nat /\ stale \in BOOLEAN
      BY DEF TypeOK
    <3>3. pointer' = (IF field = "pointer" THEN x.target ELSE pointer)
      BY <1>5 DEF Write
    <3>4. generation' = (IF field = "generation" THEN x.first + 1 ELSE generation)
      BY <1>5 DEF Write
    <3>5. acked' = (IF field = "generation" THEN x.version ELSE acked)
      BY <1>5 DEF Write
    <3>6. stale' = (IF field = "stale" THEN FALSE ELSE stale)
      BY <1>5 DEF Write
    <3> HIDE DEF x
    <3>7. stale' \in BOOLEAN
      BY <3>2, <3>6, Zenon
    <3> QED
      BY <3>1, <3>2, <3>3, <3>4, <3>5, <3>7
  <2>5. newest' \in [call : Nat, refused : BOOLEAN]
    <3>1. x.call \in Nat /\ newest \in [call : Nat, refused : BOOLEAN]
      BY <2>1 DEF LoopState, TypeOK
    <3>2. newest' = newest \/ newest' = [call |-> x.call, refused |-> FALSE]
      BY <1>5 DEF Write, Ended
    <3>3. [call |-> x.call, refused |-> FALSE] \in [call : Nat, refused : BOOLEAN]
      BY <3>1
    <3> QED
      BY <3>1, <3>2, <3>3, Zenon
  <2> QED
    BY <1>5, <2>2, <2>3, <2>4, <2>5 DEF Write, TypeOK, LoopState, bounds
<1>6. ASSUME NEW p \in Proc, ReadCached(p) PROVE TypeOK'
  BY <1>6, <1>a, <1>b DEF ReadCached, LoopState
<1>7. ASSUME NEW p \in Proc, BeginRead(p) PROVE TypeOK'
  <2>1. Floor(p) \in Nat /\ generation \in Nat /\ loop[p].spins \in 0 .. MaxSpins - 1
    BY <1>a DEF TypeOK, Floor, LoopState
  <2>2. [Idle EXCEPT !.pc = "r-pointer", !.first = generation, !.floor = Floor(p),
                     !.spins = loop[p].spins] \in LoopState
    BY <2>1 DEF Idle, LoopState, ReadPC, Slot
  <2> QED
    BY <1>7, <2>2, <1>a, <1>b DEF BeginRead, history
<1>8. ASSUME NEW p \in Proc, ReadPointer(p) PROVE TypeOK'
  <2>1. loop' \in [Proc -> LoopState]
    BY <1>8, <1>a DEF ReadPointer, LoopState, TypeOK, ReadPC
  <2> QED
    BY <1>8, <2>1, <1>a, <1>b DEF ReadPointer, history
<1>9. ASSUME NEW p \in Proc, Copy(p) PROVE TypeOK'
  <2>1. loop' \in [Proc -> LoopState]
    <3>1. loop[p].target \in Slot /\ slot[loop[p].target] \in Payload /\ loop[p].chunk \in Payload
      BY <1>a DEF LoopState, TypeOK
    <3>2. /\ [loop[p] EXCEPT !.pc = "r-low", !.chunk.length = slot[loop[p].target].length]
               \in LoopState
          /\ [loop[p] EXCEPT !.pc = "r-high", !.chunk.low = slot[loop[p].target].low]
               \in LoopState
          /\ [loop[p] EXCEPT !.pc = "r-confirm", !.chunk.high = slot[loop[p].target].high]
               \in LoopState
      BY <3>1, <1>a DEF LoopState, ReadPC
    <3> QED
      BY <1>9, <1>a, <3>2 DEF Copy
  <2> QED
    BY <1>9, <2>1, <1>a, <1>b DEF Copy, history
<1>10. ASSUME NEW p \in Proc, Confirm(p) PROVE TypeOK'
  <2>1. loop' \in [Proc -> LoopState] /\ cache' \in [Proc -> CacheState]
    <3> DEFINE x == loop[p]
    <3>1. x \in LoopState
      BY <1>a
    <3>2. CASE Confirmed(x.first) /\ loop' = [loop EXCEPT ![p] = Idle]
               /\ cache' = [cache EXCEPT ![p] = [generation |-> x.first, value |-> x.chunk]]
      <4>1. [generation |-> x.first, value |-> x.chunk] \in CacheState
        BY <3>1 DEF LoopState, CacheState
      <4> QED
        BY <3>2, <4>1, <1>a
    <3>3. CASE cache' = cache /\ loop' = [loop EXCEPT ![p] =
                 IF Spent(x.spins) THEN Idle
                 ELSE [Idle EXCEPT !.pc = "r-again", !.floor = x.floor, !.spins = x.spins + 1]]
      <4>1. CASE Spent(x.spins)
        BY <3>3, <4>1, <1>a
      <4>2. CASE ~Spent(x.spins)
        <5>1. x.floor \in Nat /\ x.spins + 1 \in 0 .. MaxSpins - 1
          BY <3>1, <4>2, RefDataAssumption DEF LoopState, Spent
        <5>2. [Idle EXCEPT !.pc = "r-again", !.floor = x.floor, !.spins = x.spins + 1] \in LoopState
          BY <5>1 DEF Idle, LoopState, ReadPC, Slot
        <5> QED
          BY <3>3, <4>2, <5>2, <1>a
      <4> QED
        BY <4>1, <4>2
    <3> QED
      BY <1>10, <3>2, <3>3 DEF Confirm
  <2> QED
    BY <1>10, <2>1, <1>b DEF Confirm
<1>11. ASSUME NEW p \in Proc, Grant(p) PROVE TypeOK'
  BY <1>11 DEF Grant, TypeOK, memory, history
<1>12. ASSUME NEW p \in Proc, GiveUpRole(p) PROVE TypeOK'
  BY <1>12 DEF GiveUpRole, TypeOK, memory, history, bounds
<1>13. ASSUME NEW p \in Proc, CrashAndRespawn(p) PROVE TypeOK'
  <2>1. loop' \in [Proc -> LoopState] /\ cache' \in [Proc -> CacheState]
    BY <1>13, <1>a DEF CrashAndRespawn
  <2>2. primary' \in Proc \cup {Nobody} /\ cut' \subseteq Field
    BY <1>13 DEF CrashAndRespawn, TypeOK, Field
  <2> QED
    BY <1>13, <2>1, <2>2 DEF CrashAndRespawn, TypeOK, LoopState, CacheState, memory
<1> QED
  BY <1>1, <1>2, <1>3, <1>4, <1>5, <1>6, <1>7, <1>8, <1>9, <1>10, <1>11, <1>12, <1>13 DEF Next

\* In every reachable state each variable has its type; in particular no read
\* makes more attempts than MAX_SPINS.
THEOREM RefDataTypes == Spec => []TypeOK
<1> QED
  BY InitTypeOK, NextTypeOK, PTL DEF Spec
-----------------------------------------------------------------------------
(* Freshness: the invariant behind ReadsAreFresh and ReadsNeverGoBack.  While *)
(* nobody writes without the role there is one writer, the versions it writes *)
(* are newer than all others, and the slot a reader copies, as long as its    *)
(* generation is the current one, is not older than the newest published.     *)

Reading(p) == loop[p].pc \in {"r-pointer", "r-length", "r-low", "r-high", "r-confirm"}
Past(p)    == loop[p].pc \in {"r-length", "r-low", "r-high", "r-confirm"}

Bounds ==
  /\ \A s \in Slot : slot[s].low <= version
  /\ acked <= version /\ acked <= slot[pointer].low
  /\ generation = 0 => acked = 0

WriterFresh(p) ==
  Writing(p) =>
    /\ primary = p /\ loop[p].version = version
    /\ loop[p].pc \in {"low", "high", "length", "pointer"} => loop[p].target = 1 - pointer
    /\ loop[p].pc \in {"high", "length", "pointer"} => slot[loop[p].target].low = version
    /\ loop[p].pc \in {"count", "generation"} => slot[pointer].low = version
    /\ loop[p].pc = "generation" => loop[p].first = generation

ReaderFresh(p) ==
  /\ loop[p].chunk.low <= version
  /\ Reading(p) \/ loop[p].pc = "r-again" => loop[p].floor <= acked
  /\ Reading(p) => loop[p].first <= generation /\ loop[p].first # cache[p].generation
  /\ Past(p) /\ loop[p].first = generation => acked <= slot[loop[p].target].low
  /\ loop[p].pc \in {"r-high", "r-confirm"} /\ loop[p].first = generation
       => acked <= loop[p].chunk.low

CacheFresh(p) ==
  /\ cache[p].generation <= generation
  /\ cache[p].value.low <= version
  /\ cache[p].generation = generation => acked <= cache[p].value.low
  /\ cache[p].generation < generation => cache[p].value.low <= acked

Fresh == Bounds /\ \A p \in Proc : WriterFresh(p) /\ ReaderFresh(p) /\ CacheFresh(p)

FreshInv == TypeOK /\ (intruded \/ Fresh)

LEMMA InitFresh == Init => FreshInv
<1> SUFFICES ASSUME Init PROVE Fresh
  BY InitTypeOK DEF FreshInv
<1>1. Bounds
  BY DEF Init, Bounds, Empty, Slot
<1>2. \A p \in Proc : WriterFresh(p) /\ ReaderFresh(p) /\ CacheFresh(p)
  BY DEF Init, WriterFresh, ReaderFresh, CacheFresh, Idle, Empty, Uncached, Writing, Field,
         Reading, Past
<1> QED
  BY <1>1, <1>2 DEF Fresh

\* Arithmetic on versions: what the types say of the numbers involved.
LEMMA Numbers ==
  ASSUME TypeOK
  PROVE  /\ version \in Nat /\ acked \in Nat /\ generation \in Nat /\ pointer \in {0, 1}
         /\ \A s \in Slot : slot[s].low \in Nat /\ slot[s].high \in Nat /\ slot[s].length \in Nat
         /\ \A p \in Proc :
              /\ loop[p].version \in Nat /\ loop[p].first \in Nat /\ loop[p].floor \in Nat
              /\ loop[p].target \in Slot /\ loop[p].chunk.low \in Nat /\ loop[p].call \in Nat
              /\ cache[p].generation \in Nat /\ cache[p].value.low \in Nat
BY DEF TypeOK, Payload, Slot

\* A process whose code, cache and view of shared memory stay the same.
LEMMA UntouchedFresh ==
  ASSUME Fresh, NEW q \in Proc, loop'[q] = loop[q], cache'[q] = cache[q],
         UNCHANGED <<slot, pointer, generation, primary, acked, version>>
  PROVE  (WriterFresh(q) /\ ReaderFresh(q) /\ CacheFresh(q))'
BY DEF Fresh, WriterFresh, ReaderFresh, CacheFresh, Writing, Reading, Past

LEMMA NextFresh == FreshInv /\ [Next]_vars => FreshInv'
<1> SUFFICES ASSUME FreshInv, [Next]_vars, ~intruded' PROVE Fresh'
  BY NextTypeOK DEF FreshInv
<1>t. TypeOK
  BY DEF FreshInv
<1> USE Numbers
<1>i. ~intruded
  <2>1. intruded \in BOOLEAN
    BY <1>t DEF TypeOK
  <2> QED
    BY <2>1 DEF Next, vars, history, Publish, RefuseTooLarge, BeginWrite, Write, ReadCached, BeginRead,
          ReadPointer, Copy, Confirm, Grant, GiveUpRole, CrashAndRespawn
<1>f. Fresh
  BY <1>i DEF FreshInv
<1>a. /\ loop \in [Proc -> LoopState] /\ cache \in [Proc -> CacheState]
      /\ \A p \in Proc : loop[p] \in LoopState
  BY <1>t DEF TypeOK, LoopState, CacheState
<1>w. \A p, q \in Proc : Writing(p) /\ Writing(q) => p = q
  BY <1>f DEF Fresh, WriterFresh
<1>1. CASE UNCHANGED vars
  BY <1>1, <1>f DEF vars, memory, history, bounds, Fresh, Bounds, WriterFresh, ReaderFresh, CacheFresh,
       Writing, Reading, Past
<1>2. ASSUME NEW p \in Proc, Publish(p) PROVE Fresh'
  BY <1>2, <1>f DEF Publish, memory, Fresh, Bounds, WriterFresh, ReaderFresh, CacheFresh,
       Writing, Reading, Past
<1>3. ASSUME NEW p \in Proc, NEW call \in encoding[p], RefuseTooLarge(p, call) PROVE Fresh'
  BY <1>3, <1>f DEF RefuseTooLarge, memory, Fresh, Bounds, WriterFresh, ReaderFresh, CacheFresh,
       Writing, Reading, Past
<1>4. ASSUME NEW p \in Proc, NEW call \in encoding[p], BeginWrite(p, call) PROVE Fresh'
  <2>1. primary = p
    BY <1>4 DEF BeginWrite
  <2>2. \A q \in Proc : ~Writing(q)
    BY <1>4, <1>f, <2>1 DEF BeginWrite, Fresh, WriterFresh, Writing, Field
  <2>3. /\ \A q \in Proc : q # p => loop'[q] = loop[q]
        /\ loop'[p] = [Idle EXCEPT !.pc = "low", !.call = call, !.target = SpareSlot(pointer),
                                   !.version = version + 1]
    BY <1>4, <1>a DEF BeginWrite
  <2>4. /\ loop'[p].pc = "low" /\ loop'[p].target = 1 - pointer
        /\ loop'[p].version = version + 1 /\ loop'[p].chunk.low = 0
    BY <2>3 DEF Idle, Empty, SpareSlot
  <2>5. UNCHANGED <<slot, pointer, generation, primary, cache, acked>> /\ version' = version + 1
    BY <1>4 DEF BeginWrite, memory
  <2>6. Bounds'
    BY <2>5, <1>f, <1>t DEF Fresh, Bounds
  <2>7. ASSUME NEW q \in Proc PROVE (WriterFresh(q) /\ ReaderFresh(q) /\ CacheFresh(q))'
    <3>1. CASE q = p
      BY <3>1, <2>1, <2>4, <2>5, <1>f, <1>t DEF Fresh, WriterFresh, ReaderFresh, CacheFresh,
         Writing, Field, Reading, Past
    <3>2. CASE q # p
      BY <3>2, <2>2, <2>3, <2>5, <1>f, <1>t DEF Fresh, WriterFresh, ReaderFresh, CacheFresh,
         Writing, Reading, Past
    <3> QED
      BY <3>1, <3>2
  <2> QED
    BY <2>6, <2>7 DEF Fresh
<1>5. ASSUME NEW p \in Proc, NEW field \in Field, Write(p, field) PROVE Fresh'
  <2> DEFINE x == loop[p]
  <2>1. /\ x.pc = field /\ Writing(p) /\ x.version = version /\ primary = p
        /\ x \in LoopState /\ x.target \in Slot
    BY <1>5, <1>a, <1>f DEF Write, Writing, Fresh, WriterFresh, LoopState
  <2>2. /\ \A q \in Proc : q # p => loop'[q] = loop[q] /\ ~Writing(q)
        /\ UNCHANGED <<primary, cache, version>>
    BY <1>5, <1>a, <1>w, <2>1 DEF Write
  <2>3. CASE field = "stale"
    <3>1. loop'[p] = Idle /\ UNCHANGED <<slot, pointer, generation, acked>>
      BY <2>3, <1>5, <1>a DEF Write
    <3>2. Bounds' /\ WriterFresh(p)' /\ ReaderFresh(p)' /\ CacheFresh(p)'
      BY <3>1, <2>2, <1>f, <1>t DEF Fresh, Bounds, WriterFresh, ReaderFresh, CacheFresh,
         Writing, Field, Reading, Past, Idle, Empty
    <3> QED
      BY <3>1, <3>2, <2>2, <1>f, UntouchedFresh DEF Fresh
  <2>4. CASE field # "stale"
    <3>1. /\ loop'[p].pc = Then[field] /\ loop'[p].version = x.version
          /\ loop'[p].target = x.target /\ loop'[p].chunk = x.chunk
          /\ loop'[p].first = IF field = "count" THEN generation ELSE x.first
      BY <2>4, <2>1, <1>5, <1>a DEF Write, LoopState
    <3>2. CASE field \in {"low", "high", "length"}
      <4>1. UNCHANGED <<pointer, generation, acked>>
        BY <3>2, <1>5 DEF Write
      <4>2. /\ slot'[1 - x.target] = slot[1 - x.target]
            /\ slot'[x.target].low = IF field = "low" THEN version ELSE slot[x.target].low
        <5>1. slot \in [Slot -> Payload] /\ slot[x.target] \in Payload
          BY <2>1, <1>t DEF TypeOK
        <5>2. CASE field = "low"
          BY <5>1, <5>2, <2>1, <1>5 DEF Write, Payload, Slot
        <5>3. CASE field = "high"
          BY <5>1, <5>3, <2>1, <1>5 DEF Write, Payload, Slot
        <5>4. CASE field = "length"
          BY <5>1, <5>4, <2>1, <1>5 DEF Write, Payload, Slot
        <5> QED
          BY <3>2, <5>2, <5>3, <5>4
      <4>3. x.target = 1 - pointer
        BY <3>2, <2>1, <1>f DEF Fresh, WriterFresh
      <4>4. \A s \in Slot : /\ slot'[s].low \in Nat
                           /\ slot[s].low <= slot'[s].low /\ slot'[s].low <= version
        BY <4>2, <2>1, <1>f, <1>t DEF Fresh, Bounds, Slot
      <4>5. Bounds'
        BY <4>1, <4>4, <2>2, <1>f, <1>t DEF Fresh, Bounds, Slot
      <4>6. WriterFresh(p)' /\ ReaderFresh(p)' /\ CacheFresh(p)'
        BY <4>1, <4>2, <4>3, <3>1, <3>2, <2>1, <2>2, <1>f, <1>t DEF Fresh, WriterFresh, ReaderFresh,
           CacheFresh, Writing, Field, Reading, Past, Then
      <4>7. ASSUME NEW q \in Proc, q # p PROVE (WriterFresh(q) /\ ReaderFresh(q) /\ CacheFresh(q))'
        BY <4>1, <4>4, <4>7, <2>2, <1>f, <1>t DEF Fresh, WriterFresh, ReaderFresh,
           CacheFresh, Writing, Reading, Past
      <4> QED
        BY <4>5, <4>6, <4>7 DEF Fresh
    <3>3. CASE field = "pointer"
      <4>1. UNCHANGED <<slot, generation, acked>> /\ pointer' = x.target
        BY <3>3, <1>5 DEF Write
      <4>2. slot[x.target].low = version
        BY <3>3, <2>1, <1>f DEF Fresh, WriterFresh
      <4>3. Bounds'
        BY <4>1, <4>2, <2>2, <1>f DEF Fresh, Bounds
      <4>4. WriterFresh(p)' /\ ReaderFresh(p)' /\ CacheFresh(p)'
        BY <4>1, <4>2, <3>1, <3>3, <2>1, <2>2, <1>f, <1>t DEF Fresh, WriterFresh, ReaderFresh,
           CacheFresh, Writing, Field, Reading, Past, Then
      <4>5. ASSUME NEW q \in Proc, q # p PROVE (WriterFresh(q) /\ ReaderFresh(q) /\ CacheFresh(q))'
        BY <4>1, <4>5, <2>2, <1>f, <1>t DEF Fresh, WriterFresh, ReaderFresh,
           CacheFresh, Writing, Field, Reading, Past
      <4> QED
        BY <4>3, <4>4, <4>5 DEF Fresh
    <3>4. CASE field = "count"
      <4>1. UNCHANGED <<slot, pointer, generation, acked>>
        BY <3>4, <1>5 DEF Write
      <4>2. Bounds' /\ WriterFresh(p)' /\ ReaderFresh(p)' /\ CacheFresh(p)'
        BY <4>1, <3>1, <3>4, <2>1, <2>2, <1>f, <1>t DEF Fresh, Bounds, WriterFresh, ReaderFresh,
           CacheFresh, Writing, Field, Reading, Past, Then
      <4> QED
        BY <4>1, <4>2, <2>2, <1>f, UntouchedFresh DEF Fresh
    <3>5. CASE field = "generation"
      <4>1. UNCHANGED <<slot, pointer>> /\ acked' = version /\ generation' = generation + 1
        BY <3>5, <2>1, <1>5, <1>f DEF Write, Fresh, WriterFresh
      <4>2. slot[pointer].low = version
        BY <3>5, <2>1, <1>f DEF Fresh, WriterFresh
      <4>3. Bounds'
        BY <4>1, <4>2, <2>2, <1>f, <1>t DEF Fresh, Bounds
      <4>4. WriterFresh(p)' /\ ReaderFresh(p)' /\ CacheFresh(p)'
        BY <4>1, <4>2, <3>1, <3>5, <2>1, <2>2, <1>f, <1>t DEF Fresh, Bounds, WriterFresh, ReaderFresh,
           CacheFresh, Writing, Field, Reading, Past, Then
      <4>5. ASSUME NEW q \in Proc, q # p PROVE (WriterFresh(q) /\ ReaderFresh(q) /\ CacheFresh(q))'
        BY <4>1, <4>2, <4>5, <2>2, <1>f, <1>t DEF Fresh, Bounds, WriterFresh, ReaderFresh,
           CacheFresh, Writing, Field, Reading, Past
      <4> QED
        BY <4>3, <4>4, <4>5 DEF Fresh
    <3> QED
      BY <2>4, <3>2, <3>3, <3>4, <3>5 DEF Field
  <2> QED
    BY <2>3, <2>4
<1>6. ASSUME NEW p \in Proc, ReadCached(p) PROVE Fresh'
  <2>1. loop'[p] = Idle /\ \A q \in Proc : q # p => loop'[q] = loop[q]
    BY <1>6, <1>a DEF ReadCached
  <2> QED
    BY <2>1, <1>6, <1>f, <1>t DEF ReadCached, memory, Fresh, Bounds, WriterFresh, ReaderFresh, CacheFresh,
       Writing, Field, Reading, Past, Idle, Empty
<1>7. ASSUME NEW p \in Proc, BeginRead(p) PROVE Fresh'
  <2>1. /\ loop'[p] = [Idle EXCEPT !.pc = "r-pointer", !.first = generation, !.floor = Floor(p),
                                    !.spins = loop[p].spins]
        /\ \A q \in Proc : q # p => loop'[q] = loop[q]
    BY <1>7, <1>a DEF BeginRead
  <2>2. /\ loop'[p].pc = "r-pointer" /\ loop'[p].first = generation /\ loop'[p].floor = Floor(p)
        /\ loop'[p].chunk.low = 0
    BY <2>1 DEF Idle, Empty
  <2>3. Floor(p) <= acked
    BY <1>7, <1>f, <1>t DEF BeginRead, Looking, Floor, Fresh, ReaderFresh
  <2>4. generation # cache[p].generation
    BY <1>7 DEF BeginRead
  <2>5. UNCHANGED <<slot, pointer, generation, primary, cache, acked, version>>
    BY <1>7 DEF BeginRead, memory, history
  <2>6. Bounds'
    BY <2>5, <1>f DEF Fresh, Bounds
  <2>7. WriterFresh(p)' /\ ReaderFresh(p)' /\ CacheFresh(p)'
    BY <2>2, <2>3, <2>4, <2>5, <1>f, <1>t DEF Fresh, WriterFresh, ReaderFresh, CacheFresh,
       Writing, Field, Reading, Past
  <2> QED
    BY <2>1, <2>5, <2>6, <2>7, <1>f, UntouchedFresh DEF Fresh
<1>8. ASSUME NEW p \in Proc, ReadPointer(p) PROVE Fresh'
  <2>1. /\ loop'[p] = [loop[p] EXCEPT !.target = pointer, !.pc = "r-length"]
        /\ \A q \in Proc : q # p => loop'[q] = loop[q]
    BY <1>8, <1>a DEF ReadPointer
  <2>2. /\ loop'[p].pc = "r-length" /\ loop'[p].target = pointer /\ loop'[p].first = loop[p].first
        /\ loop'[p].floor = loop[p].floor /\ loop'[p].chunk = loop[p].chunk
        /\ loop[p].pc = "r-pointer"
    BY <2>1, <1>8, <1>a DEF LoopState, ReadPointer
  <2>5. UNCHANGED <<slot, pointer, generation, primary, cache, acked, version>>
    BY <1>8 DEF ReadPointer, memory, history
  <2>6. Bounds'
    BY <2>5, <1>f DEF Fresh, Bounds
  <2>7. WriterFresh(p)' /\ ReaderFresh(p)' /\ CacheFresh(p)'
    BY <2>2, <2>5, <1>f, <1>t DEF Fresh, Bounds, WriterFresh, ReaderFresh, CacheFresh,
       Writing, Field, Reading, Past
  <2> QED
    BY <2>1, <2>5, <2>6, <2>7, <1>f, UntouchedFresh DEF Fresh
<1>9. ASSUME NEW p \in Proc, Copy(p) PROVE Fresh'
  <2>1. \A q \in Proc : q # p => loop'[q] = loop[q]
    BY <1>9, <1>a DEF Copy
  <2>2. /\ loop'[p].target = loop[p].target /\ loop'[p].first = loop[p].first
        /\ loop'[p].floor = loop[p].floor
        /\ \/ /\ loop[p].pc = "r-length" /\ loop'[p].pc = "r-low"
              /\ loop'[p].chunk.low = loop[p].chunk.low
           \/ /\ loop[p].pc = "r-low" /\ loop'[p].pc = "r-high"
              /\ loop'[p].chunk.low = slot[loop[p].target].low
           \/ /\ loop[p].pc = "r-high" /\ loop'[p].pc = "r-confirm"
              /\ loop'[p].chunk.low = loop[p].chunk.low
    <3>1. /\ loop[p] \in LoopState /\ loop[p].chunk \in Payload
          /\ slot[loop[p].target] \in Payload
      BY <1>a, <1>t DEF LoopState, TypeOK
    <3>2. CASE /\ loop[p].pc = "r-length"
               /\ loop'[p] = [loop[p] EXCEPT !.pc = "r-low",
                                             !.chunk.length = slot[loop[p].target].length]
      BY <3>1, <3>2 DEF LoopState, Payload
    <3>3. CASE /\ loop[p].pc = "r-low"
               /\ loop'[p] = [loop[p] EXCEPT !.pc = "r-high",
                                             !.chunk.low = slot[loop[p].target].low]
      BY <3>1, <3>3 DEF LoopState, Payload
    <3>4. CASE /\ loop[p].pc = "r-high"
               /\ loop'[p] = [loop[p] EXCEPT !.pc = "r-confirm",
                                             !.chunk.high = slot[loop[p].target].high]
      BY <3>1, <3>4 DEF LoopState, Payload
    <3> QED
      BY <1>9, <1>a, <3>2, <3>3, <3>4 DEF Copy
  <2>5. UNCHANGED <<slot, pointer, generation, primary, cache, acked, version>>
    BY <1>9 DEF Copy, memory, history
  <2>6. Bounds'
    BY <2>5, <1>f DEF Fresh, Bounds
  <2>7. WriterFresh(p)' /\ ReaderFresh(p)' /\ CacheFresh(p)'
    BY <2>2, <2>5, <1>f, <1>t DEF Fresh, Bounds, WriterFresh, ReaderFresh, CacheFresh,
       Writing, Field, Reading, Past
  <2> QED
    BY <2>1, <2>5, <2>6, <2>7, <1>f, UntouchedFresh DEF Fresh
<1>10. ASSUME NEW p \in Proc, Confirm(p) PROVE Fresh'
  <2> DEFINE x == loop[p]
  <2>1. /\ \A q \in Proc : q # p => loop'[q] = loop[q] /\ cache'[q] = cache[q]
        /\ UNCHANGED <<slot, pointer, generation, primary, acked, version>>
    BY <1>10, <1>a DEF Confirm, memory
  <2>2. Bounds'
    BY <2>1, <1>f DEF Fresh, Bounds
  <2>3. WriterFresh(p)' /\ ReaderFresh(p)' /\ CacheFresh(p)'
    <3>1. x.pc = "r-confirm" /\ x \in LoopState
      BY <1>10, <1>a DEF Confirm
    <3>2. CASE /\ x.first = generation /\ loop'[p] = Idle
               /\ cache'[p] = [generation |-> x.first, value |-> x.chunk]
      <4>1. cache'[p].generation = generation /\ cache'[p].value.low = x.chunk.low
        BY <3>2
      <4> QED
        BY <4>1, <3>1, <3>2, <2>1, <1>f, <1>t DEF Fresh, WriterFresh, ReaderFresh, CacheFresh,
           Writing, Field, Reading, Past, Idle, Empty
    <3>3. CASE cache'[p] = cache[p] /\ loop'[p] = Idle
      BY <3>3, <2>1, <1>f, <1>t DEF Fresh, WriterFresh, ReaderFresh, CacheFresh,
         Writing, Field, Reading, Past, Idle, Empty
    <3>4. CASE cache'[p] = cache[p]
               /\ loop'[p] = [Idle EXCEPT !.pc = "r-again", !.floor = x.floor, !.spins = x.spins + 1]
      <4>1. loop'[p].pc = "r-again" /\ loop'[p].floor = x.floor /\ loop'[p].chunk.low = 0
        BY <3>4 DEF Idle, Empty
      <4> QED
        BY <4>1, <3>1, <3>4, <2>1, <1>f, <1>t DEF Fresh, WriterFresh, ReaderFresh, CacheFresh,
           Writing, Field, Reading, Past
    <3> QED
      BY <1>10, <1>a, <3>2, <3>3, <3>4 DEF Confirm, Confirmed
  <2> QED
    BY <2>1, <2>2, <2>3, <1>f, UntouchedFresh DEF Fresh
<1>11. ASSUME NEW p \in Proc, Grant(p) PROVE Fresh'
  BY <1>11, <1>f DEF Grant, memory, history, Fresh, Bounds, WriterFresh, ReaderFresh, CacheFresh,
       Writing, Reading, Past, Nobody, Proc
<1>12. ASSUME NEW p \in Proc, GiveUpRole(p) PROVE Fresh'
  <2>1. \A q \in Proc : ~Writing(q)
    BY <1>12, <1>f DEF GiveUpRole, Fresh, WriterFresh, Writing, Field
  <2> QED
    BY <1>12, <1>f, <2>1 DEF GiveUpRole, memory, history, Fresh, Bounds, WriterFresh, ReaderFresh,
       CacheFresh, Writing, Reading, Past
<1>13. ASSUME NEW p \in Proc, CrashAndRespawn(p) PROVE Fresh'
  <2>1. /\ loop'[p] = Idle /\ cache'[p] = Uncached
        /\ \A q \in Proc : q # p => loop'[q] = loop[q] /\ cache'[q] = cache[q]
        /\ UNCHANGED <<slot, pointer, generation, acked, version>>
        /\ primary' # primary => primary = p
    BY <1>13, <1>a DEF CrashAndRespawn, memory
  <2>2. Bounds'
    BY <2>1, <1>f DEF Fresh, Bounds
  <2>3. WriterFresh(p)' /\ ReaderFresh(p)' /\ CacheFresh(p)'
    BY <2>1, <1>f, <1>t DEF Fresh, Bounds, WriterFresh, ReaderFresh, CacheFresh,
       Writing, Field, Reading, Past, Idle, Empty, Uncached
  <2>4. ASSUME NEW q \in Proc, q # p PROVE (WriterFresh(q) /\ ReaderFresh(q) /\ CacheFresh(q))'
    BY <2>1, <2>4, <1>f DEF Fresh, WriterFresh, ReaderFresh, CacheFresh, Writing, Reading, Past
  <2> QED
    BY <2>2, <2>3, <2>4 DEF Fresh
<1> QED
  BY <1>1, <1>2, <1>3, <1>4, <1>5, <1>6, <1>7, <1>8, <1>9, <1>10, <1>11, <1>12, <1>13 DEF Next

LEMMA AlwaysFresh == Spec => []FreshInv
<1> QED
  BY InitFresh, NextFresh, PTL DEF Spec

\* read() never returns a version older than the newest that was published
\* before the call, whatever writers die, as long as only the primary writes.
THEOREM FreshReads == Spec => []ReadsAreFresh
<1>1. FreshInv => ReadsAreFresh
  <2> SUFFICES ASSUME TypeOK, Fresh, NEW p \in Proc
               PROVE  /\ cache[p].generation = generation => cache[p].value.low >= acked
                      /\ loop[p].pc = "r-confirm" /\ loop[p].first = generation
                           => loop[p].chunk.low >= loop[p].floor
    BY DEF FreshInv, ReadsAreFresh
  <2> QED
    BY Numbers DEF Fresh, ReaderFresh, CacheFresh, Reading
<1> QED
  BY <1>1, AlwaysFresh, PTL

\* What a process reads never goes back to an older version.
THEOREM ForwardReads == Spec => ReadsNeverGoBack
<1>1. FreshInv /\ FreshInv' /\ [Next]_vars
        => [\A p \in Proc : intruded' \/ crashes' # crashes
                              \/ cache'[p].value.low >= cache[p].value.low]_vars
  <2> SUFFICES ASSUME TypeOK, TypeOK', intruded \/ Fresh, Next, ~intruded', crashes' = crashes,
                      NEW p \in Proc
               PROVE  cache'[p].value.low >= cache[p].value.low
    BY DEF FreshInv
  <2> USE Numbers
  <2>1. CASE cache' = cache
    BY <2>1
  <2>2. ASSUME NEW q \in Proc, Confirm(q), Fresh PROVE cache'[p].value.low >= cache[p].value.low
    <3>1. cache \in [Proc -> CacheState]
      BY DEF TypeOK, CacheState
    <3>2. CASE p # q \/ cache' = cache
      BY <3>1, <3>2, <2>2 DEF Confirm
    <3>3. CASE p = q /\ loop[p].first = generation /\ loop[p].pc = "r-confirm"
               /\ cache'[p].value = loop[p].chunk
      BY <3>3, <2>2 DEF Fresh, ReaderFresh, CacheFresh, Reading
    <3> QED
      BY <3>1, <3>2, <3>3, <2>2 DEF Confirm, Confirmed
  <2>3. ASSUME NEW q \in Proc, CrashAndRespawn(q) PROVE FALSE
    BY <2>3 DEF CrashAndRespawn, TypeOK
  <2>4. ~(\E q \in Proc : Confirm(q) \/ CrashAndRespawn(q)) => cache' = cache
    BY DEF Next, Publish, RefuseTooLarge, BeginWrite, Write, ReadCached, BeginRead, ReadPointer, Copy,
       Grant, GiveUpRole
  <2>5. ASSUME NEW q \in Proc, Confirm(q) PROVE intruded' = intruded
    BY <2>5 DEF Confirm
  <2> QED
    BY <2>1, <2>2, <2>3, <2>4, <2>5
<1> QED
  BY <1>1, AlwaysFresh, PTL DEF Spec, ReadsNeverGoBack
-----------------------------------------------------------------------------
(* Wholeness.  The slot the pointer names is whole; the other one is, too,    *)
(* between the moves of the pointer and of the generation, when readers that  *)
(* the check will still let through may be copying either of them.            *)

Quiet == ~intruded /\ ~CutBeforeGeneration

\* p has moved the pointer and not yet the generation.
Between(p) == loop[p].pc \in {"count", "generation"}
Settled    == \A p \in Proc : ~Between(p)

SlotsWhole ==
  /\ Whole(slot[pointer])
  /\ ~Settled => Whole(slot[1 - pointer])
  /\ Settled /\ generation = 0 => slot[pointer].low = 0

WriterWhole(p) ==
  /\ loop[p].pc \in {"length", "pointer"} => slot[loop[p].target].high = version
  /\ loop[p].pc = "pointer" => slot[loop[p].target].length = version

ReaderWhole(p) ==
  Past(p) /\ loop[p].first = generation =>
    /\ Settled => loop[p].target = pointer
    /\ loop[p].pc # "r-length" => loop[p].chunk.length = slot[loop[p].target].length
    /\ loop[p].pc \in {"r-high", "r-confirm"} => loop[p].chunk.low = slot[loop[p].target].low
    /\ loop[p].pc = "r-confirm" => loop[p].chunk.high = slot[loop[p].target].high

CacheWhole(p) ==
  /\ Whole(cache[p].value)
  /\ Settled /\ cache[p].generation = generation => cache[p].value.low = slot[pointer].low

AllWhole == SlotsWhole /\ \A p \in Proc : WriterWhole(p) /\ ReaderWhole(p) /\ CacheWhole(p)

WholeInv == FreshInv /\ (Quiet => AllWhole)

LEMMA InitWhole == Init => WholeInv
<1> SUFFICES ASSUME Init PROVE AllWhole
  BY InitFresh DEF WholeInv
<1>1. SlotsWhole
  BY DEF Init, SlotsWhole, Whole, Empty, Slot, Settled, Between, Idle
<1>2. \A p \in Proc : WriterWhole(p) /\ ReaderWhole(p) /\ CacheWhole(p)
  BY DEF Init, WriterWhole, ReaderWhole, CacheWhole, Idle, Empty, Uncached, Whole, Past, Slot
<1> QED
  BY <1>1, <1>2 DEF AllWhole

\* A process whose code and cache stay the same, when nothing it can see moves.
LEMMA UntouchedWhole ==
  ASSUME AllWhole, NEW q \in Proc, loop'[q] = loop[q], cache'[q] = cache[q],
         UNCHANGED <<slot, pointer, generation, version>>, Settled' <=> Settled
  PROVE  (WriterWhole(q) /\ ReaderWhole(q) /\ CacheWhole(q))'
BY DEF AllWhole, WriterWhole, ReaderWhole, CacheWhole, Past

\* A step of p that neither moves shared memory nor enters or leaves the gap.
LEMMA LocalWhole ==
  ASSUME AllWhole, NEW p \in Proc,
         \A q \in Proc : q # p => loop'[q] = loop[q] /\ cache'[q] = cache[q],
         UNCHANGED <<slot, pointer, generation, version>>,
         ~Between(p), ~Between(p)',
         WriterWhole(p)' /\ ReaderWhole(p)' /\ CacheWhole(p)'
  PROVE  AllWhole'
<1>1. Settled' <=> Settled
  BY DEF Settled, Between
<1>2. SlotsWhole'
  BY <1>1 DEF AllWhole, SlotsWhole, Whole
<1> QED
  BY <1>1, <1>2, UntouchedWhole DEF AllWhole

LEMMA NextWhole == WholeInv /\ [Next]_vars => WholeInv'
<1> SUFFICES ASSUME WholeInv, [Next]_vars, Quiet' PROVE AllWhole'
  BY NextFresh DEF WholeInv
<1> USE Numbers
<1>t. TypeOK
  BY DEF WholeInv, FreshInv
<1>a. /\ loop \in [Proc -> LoopState] /\ cache \in [Proc -> CacheState]
      /\ \A p \in Proc : loop[p] \in LoopState
  BY <1>t DEF TypeOK, LoopState, CacheState
<1>i. Quiet
  <2>1. intruded \in BOOLEAN
    BY <1>t DEF TypeOK
  <2>2. intruded' = intruded \/ \E p \in Proc : intruded' = (intruded \/ primary # p)
    BY DEF Next, vars, history, Publish, RefuseTooLarge, BeginWrite,
       Write, ReadCached, BeginRead, ReadPointer, Copy, Confirm, Grant, GiveUpRole, CrashAndRespawn
  <2>3. cut \subseteq cut'
    BY DEF Next, vars, history, Publish, RefuseTooLarge, BeginWrite,
       Write, ReadCached, BeginRead, ReadPointer, Copy, Confirm, Grant, GiveUpRole, CrashAndRespawn
  <2>4. ~intruded
    BY <2>1, <2>2 DEF Quiet
  <2> QED
    BY <2>3, <2>4 DEF Quiet, CutBeforeGeneration
<1>f. Fresh /\ AllWhole
  BY <1>i DEF WholeInv, FreshInv, Quiet
<1>w. \A p, q \in Proc : Writing(p) /\ Writing(q) => p = q
  BY <1>f DEF Fresh, WriterFresh
<1>1. CASE UNCHANGED <<slot, pointer, generation, version, loop, cache>>
  <2>1. (Settled' <=> Settled) /\ SlotsWhole'
    BY <1>1, <1>f DEF AllWhole, SlotsWhole, Whole, Settled, Between
  <2> QED
    BY <1>1, <1>f, <2>1, UntouchedWhole DEF AllWhole
<1>2. ASSUME NEW p \in Proc,
             UNCHANGED vars \/ Publish(p) \/ (\E call \in encoding[p] : RefuseTooLarge(p, call))
             \/ Grant(p) \/ GiveUpRole(p)
      PROVE  AllWhole'
  BY <1>1, <1>2 DEF vars, Publish, RefuseTooLarge, Grant, GiveUpRole, memory, history
<1>4. ASSUME NEW p \in Proc, NEW call \in encoding[p], BeginWrite(p, call) PROVE AllWhole'
  <2>1. primary = p
    BY <1>4, <1>i DEF BeginWrite, Quiet
  <2>2. \A q \in Proc : ~Writing(q)
    BY <1>4, <1>f, <2>1 DEF BeginWrite, Fresh, WriterFresh, Writing, Field
  <2>3. /\ \A q \in Proc : q # p => loop'[q] = loop[q]
        /\ loop'[p].pc = "low" /\ loop[p].pc = "free"
        /\ UNCHANGED <<slot, pointer, generation, cache>>
    BY <1>4, <1>a DEF BeginWrite, memory, Idle
  <2>4. (Settled' <=> Settled) /\ SlotsWhole'
    BY <2>3, <1>f DEF AllWhole, SlotsWhole, Whole, Settled, Between
  <2>5. ASSUME NEW q \in Proc PROVE (WriterWhole(q) /\ ReaderWhole(q) /\ CacheWhole(q))'
    BY <2>2, <2>3, <2>4, <1>f DEF AllWhole, WriterWhole, ReaderWhole, CacheWhole, Past, Writing, Field
  <2> QED
    BY <2>4, <2>5 DEF AllWhole
<1>5. ASSUME NEW p \in Proc, NEW field \in Field, Write(p, field) PROVE AllWhole'
  <2> DEFINE x == loop[p]
  <2>1. /\ x.pc = field /\ Writing(p) /\ x.version = version
        /\ x \in LoopState /\ x.target \in Slot
    BY <1>5, <1>a, <1>f DEF Write, Writing, Fresh, WriterFresh, LoopState
  <2>2. /\ \A q \in Proc : q # p => loop'[q] = loop[q] /\ ~Writing(q)
        /\ UNCHANGED <<cache, version>>
    BY <1>5, <1>a, <1>w, <2>1 DEF Write
  <2>3. \A q \in Proc : q # p => ~Between(q) /\ ~Between(q)'
    BY <2>2 DEF Between, Writing, Field
  <2>4. (Settled <=> ~Between(p)) /\ (Settled' <=> ~Between(p)')
    BY <2>3 DEF Settled
  <2>5. CASE field = "stale"
    <3>1. loop'[p] = Idle /\ UNCHANGED <<slot, pointer, generation>>
      BY <2>5, <1>5, <1>a DEF Write
    <3>2. ~Between(p) /\ ~Between(p)'
      BY <3>1, <2>1, <2>5 DEF Between, Idle
    <3>3. WriterWhole(p)' /\ ReaderWhole(p)' /\ CacheWhole(p)'
      BY <3>1, <3>2, <2>2, <2>4, <1>f DEF AllWhole, WriterWhole, ReaderWhole, CacheWhole, Past, Idle
    <3> QED
      BY <3>1, <3>2, <3>3, <2>2, <1>f, LocalWhole
  <2>6. CASE field # "stale"
    <3>1. /\ loop'[p].pc = Then[field] /\ loop'[p].target = x.target
      BY <2>6, <2>1, <1>5, <1>a DEF Write, LoopState
    <3>2. CASE field \in {"low", "high", "length"}
      <4>1. UNCHANGED <<pointer, generation>> /\ x.target = 1 - pointer
        BY <3>2, <2>1, <1>5, <1>f DEF Write, Fresh, WriterFresh
      <4>2. /\ slot'[pointer] = slot[pointer]
            /\ slot'[x.target].high = IF field = "high" THEN version ELSE slot[x.target].high
            /\ slot'[x.target].length = IF field = "length" THEN version ELSE slot[x.target].length
        <5>1. slot \in [Slot -> Payload] /\ slot[x.target] \in Payload /\ pointer # x.target
          BY <2>1, <4>1, <1>t DEF TypeOK
        <5>2. CASE field = "low"
          BY <5>1, <5>2, <2>1, <1>5, <1>t DEF Write, Payload, Slot
        <5>3. CASE field = "high"
          BY <5>1, <5>3, <2>1, <1>5, <1>t DEF Write, Payload, Slot
        <5>4. CASE field = "length"
          BY <5>1, <5>4, <2>1, <1>5, <1>t DEF Write, Payload, Slot
        <5> QED
          BY <3>2, <5>2, <5>3, <5>4
      <4>3. loop'[p].pc \in {"high", "length", "pointer"} /\ Settled /\ Settled'
        BY <3>1, <3>2, <2>1, <2>4 DEF Then, Between
      <4>4. SlotsWhole'
        BY <4>1, <4>2, <4>3, <1>f DEF AllWhole, SlotsWhole, Whole
      <4>5. WriterWhole(p)'
        BY <4>2, <3>1, <3>2, <2>1, <2>2, <1>f DEF AllWhole, WriterWhole, Then
      <4>6. ReaderWhole(p)' /\ CacheWhole(p)'
        BY <4>1, <4>2, <4>3, <2>2, <1>f DEF AllWhole, ReaderWhole, CacheWhole, Past
      <4>7. ASSUME NEW q \in Proc, q # p PROVE (WriterWhole(q) /\ ReaderWhole(q) /\ CacheWhole(q))'
        BY <4>1, <4>2, <4>3, <4>7, <2>2, <1>f DEF AllWhole, WriterWhole, ReaderWhole, CacheWhole,
           Past, Writing, Field
      <4> QED
        BY <4>4, <4>5, <4>6, <4>7 DEF AllWhole
    <3>3. CASE field = "pointer"
      <4>1. /\ UNCHANGED <<slot, generation>> /\ pointer' = x.target /\ x.target = 1 - pointer
            /\ 1 - x.target = pointer
        BY <3>3, <2>1, <1>5, <1>f, <1>t DEF Write, Fresh, WriterFresh
      <4>2. Whole(slot[x.target]) /\ Whole(slot[pointer])
        BY <3>3, <2>1, <1>f DEF Fresh, WriterFresh, AllWhole, WriterWhole, SlotsWhole, Whole
      <4>3. loop'[p].pc = "count" /\ ~Settled' /\ Settled
        BY <3>1, <3>3, <2>1, <2>4 DEF Then, Between
      <4>4. SlotsWhole'
        BY <4>1, <4>2, <4>3 DEF SlotsWhole, Whole
      <4>5. ASSUME NEW q \in Proc PROVE (WriterWhole(q) /\ ReaderWhole(q) /\ CacheWhole(q))'
        BY <4>1, <4>3, <2>2, <1>f DEF AllWhole, WriterWhole, ReaderWhole, CacheWhole,
           Past, Writing, Field
      <4> QED
        BY <4>4, <4>5 DEF AllWhole
    <3>4. CASE field = "count"
      <4>1. UNCHANGED <<slot, pointer, generation>> /\ loop'[p].pc = "generation"
        BY <3>1, <3>4, <1>5 DEF Write, Then
      <4>2. ~Settled /\ ~Settled'
        BY <4>1, <3>4, <2>1, <2>4 DEF Between
      <4>3. SlotsWhole'
        BY <4>1, <4>2, <1>f DEF AllWhole, SlotsWhole, Whole
      <4>4. WriterWhole(p)' /\ ReaderWhole(p)' /\ CacheWhole(p)'
        BY <4>1, <4>2, <2>2, <1>f DEF AllWhole, WriterWhole, ReaderWhole, CacheWhole, Past
      <4> QED
        BY <4>1, <4>2, <4>3, <4>4, <2>2, <1>f, UntouchedWhole DEF AllWhole
    <3>5. CASE field = "generation"
      <4>1. UNCHANGED <<slot, pointer>> /\ generation' = generation + 1 /\ loop'[p].pc = "stale"
        BY <3>1, <3>5, <2>1, <1>5, <1>f DEF Write, Then, Fresh, WriterFresh
      <4>2. ~Settled /\ Settled'
        BY <4>1, <3>5, <2>1, <2>4 DEF Between
      <4>3. SlotsWhole'
        BY <4>1, <4>2, <1>f, <1>t DEF AllWhole, SlotsWhole, Whole
      <4>4. ASSUME NEW q \in Proc PROVE (WriterWhole(q) /\ ReaderWhole(q) /\ CacheWhole(q))'
        BY <4>1, <2>2, <1>f, <1>t DEF AllWhole, WriterWhole, ReaderWhole, CacheWhole,
           Past, Fresh, ReaderFresh, CacheFresh, Reading, Writing, Field
      <4> QED
        BY <4>3, <4>4 DEF AllWhole
    <3> QED
      BY <2>6, <3>2, <3>3, <3>4, <3>5 DEF Field
  <2> QED
    BY <2>5, <2>6
<1>6. ASSUME NEW p \in Proc, ReadCached(p) PROVE AllWhole'
  <2>1. /\ \A q \in Proc : q # p => loop'[q] = loop[q]
        /\ loop'[p] = Idle /\ loop[p].pc \in {"free", "r-again"}
        /\ UNCHANGED <<slot, pointer, generation, cache, version>>
    BY <1>6, <1>a DEF ReadCached, Looking, memory
  <2>2. ~Between(p) /\ ~Between(p)' /\ (Settled' <=> Settled)
    BY <2>1 DEF Between, Idle, Settled
  <2>3. WriterWhole(p)' /\ ReaderWhole(p)' /\ CacheWhole(p)'
    BY <2>1, <2>2, <1>f DEF AllWhole, WriterWhole, ReaderWhole, CacheWhole, Past, Idle
  <2> QED
    BY <2>1, <2>2, <2>3, <1>f, LocalWhole
<1>7. ASSUME NEW p \in Proc, BeginRead(p) PROVE AllWhole'
  <2>1. /\ \A q \in Proc : q # p => loop'[q] = loop[q]
        /\ loop'[p].pc = "r-pointer" /\ loop[p].pc \in {"free", "r-again"}
        /\ UNCHANGED <<slot, pointer, generation, cache, version>>
    BY <1>7, <1>a DEF BeginRead, Looking, memory, history, Idle
  <2>2. ~Between(p) /\ ~Between(p)' /\ (Settled' <=> Settled)
    BY <2>1 DEF Between, Settled
  <2>3. WriterWhole(p)' /\ ReaderWhole(p)' /\ CacheWhole(p)'
    BY <2>1, <2>2, <1>f DEF AllWhole, WriterWhole, ReaderWhole, CacheWhole, Past
  <2> QED
    BY <2>1, <2>2, <2>3, <1>f, LocalWhole
<1>8. ASSUME NEW p \in Proc, ReadPointer(p) PROVE AllWhole'
  <2>1. /\ \A q \in Proc : q # p => loop'[q] = loop[q]
        /\ loop'[p].pc = "r-length" /\ loop[p].pc = "r-pointer" /\ loop'[p].target = pointer
        /\ UNCHANGED <<slot, pointer, generation, cache, version>>
    BY <1>8, <1>a DEF ReadPointer, memory, history, LoopState
  <2>2. ~Between(p) /\ ~Between(p)' /\ (Settled' <=> Settled)
    BY <2>1 DEF Between, Settled
  <2>3. WriterWhole(p)' /\ ReaderWhole(p)' /\ CacheWhole(p)'
    BY <2>1, <2>2, <1>f DEF AllWhole, WriterWhole, ReaderWhole, CacheWhole, Past
  <2> QED
    BY <2>1, <2>2, <2>3, <1>f, LocalWhole
<1>9. ASSUME NEW p \in Proc, Copy(p) PROVE AllWhole'
  <2>1. /\ \A q \in Proc : q # p => loop'[q] = loop[q]
        /\ UNCHANGED <<slot, pointer, generation, cache, version>>
    BY <1>9, <1>a DEF Copy, memory, history
  <2> DEFINE x == loop[p]
             s == slot[x.target]
  <2>2. /\ loop'[p].target = x.target /\ loop'[p].first = x.first
        /\ \/ /\ x.pc = "r-length" /\ loop'[p].pc = "r-low"
              /\ loop'[p].chunk.length = s.length
           \/ /\ x.pc = "r-low" /\ loop'[p].pc = "r-high"
              /\ loop'[p].chunk.length = x.chunk.length /\ loop'[p].chunk.low = s.low
           \/ /\ x.pc = "r-high" /\ loop'[p].pc = "r-confirm"
              /\ loop'[p].chunk.length = x.chunk.length /\ loop'[p].chunk.low = x.chunk.low
              /\ loop'[p].chunk.high = s.high
    <3>1. x \in LoopState /\ x.chunk \in Payload /\ s \in Payload
      BY <1>a, <1>t DEF LoopState, TypeOK
    <3>2. CASE x.pc = "r-length" /\ loop'[p] = [x EXCEPT !.pc = "r-low", !.chunk.length = s.length]
      BY <3>1, <3>2 DEF LoopState, Payload
    <3>3. CASE x.pc = "r-low" /\ loop'[p] = [x EXCEPT !.pc = "r-high", !.chunk.low = s.low]
      BY <3>1, <3>3 DEF LoopState, Payload
    <3>4. CASE x.pc = "r-high" /\ loop'[p] = [x EXCEPT !.pc = "r-confirm", !.chunk.high = s.high]
      BY <3>1, <3>4 DEF LoopState, Payload
    <3> QED
      BY <1>9, <1>a, <3>2, <3>3, <3>4 DEF Copy
  <2>3. ~Between(p) /\ ~Between(p)' /\ (Settled' <=> Settled)
    BY <2>1, <2>2 DEF Between, Settled
  <2>4. WriterWhole(p)' /\ ReaderWhole(p)' /\ CacheWhole(p)'
    BY <2>1, <2>2, <2>3, <1>f DEF AllWhole, WriterWhole, ReaderWhole, CacheWhole, Past
  <2> QED
    BY <2>1, <2>3, <2>4, <1>f, LocalWhole
<1>10. ASSUME NEW p \in Proc, Confirm(p) PROVE AllWhole'
  <2> DEFINE x == loop[p]
  <2>1. /\ \A q \in Proc : q # p => loop'[q] = loop[q] /\ cache'[q] = cache[q]
        /\ x.pc = "r-confirm" /\ x \in LoopState /\ loop'[p].pc \in {"free", "r-again"}
        /\ UNCHANGED <<slot, pointer, generation, version>>
    <3>1. loop'[p] = Idle \/ loop'[p] = [Idle EXCEPT !.pc = "r-again", !.floor = x.floor,
                                                     !.spins = x.spins + 1]
      BY <1>10, <1>a DEF Confirm
    <3>2. Idle.pc = "free" /\ [Idle EXCEPT !.pc = "r-again", !.floor = x.floor,
                                          !.spins = x.spins + 1].pc = "r-again"
      BY DEF Idle
    <3> QED
      BY <1>10, <1>a, <3>1, <3>2 DEF Confirm, memory
  <2>2. ~Between(p) /\ ~Between(p)' /\ (Settled' <=> Settled)
    BY <2>1 DEF Between, Settled
  <2>3. CacheWhole(p)'
    <3>1. CASE x.first = generation
               /\ cache'[p] = [generation |-> x.first, value |-> x.chunk]
      <4>1. slot[x.target].length = slot[x.target].low /\ slot[x.target].low = slot[x.target].high
        BY <1>f, <1>t, <2>1, <3>1 DEF AllWhole, SlotsWhole, ReaderWhole, Past, Whole, Slot
      <4>2. /\ x.chunk.length = slot[x.target].length /\ x.chunk.low = slot[x.target].low
            /\ x.chunk.high = slot[x.target].high
            /\ Settled => x.target = pointer
        BY <1>f, <2>1, <3>1 DEF AllWhole, ReaderWhole, Past
      <4> QED
        BY <2>1, <2>2, <3>1, <4>1, <4>2 DEF CacheWhole, Whole
    <3>2. CASE cache'[p] = cache[p]
      BY <2>1, <2>2, <3>2, <1>f DEF AllWhole, CacheWhole
    <3> QED
      BY <1>10, <1>a, <3>1, <3>2 DEF Confirm, Confirmed
  <2>4. WriterWhole(p)' /\ ReaderWhole(p)'
    BY <2>1 DEF WriterWhole, ReaderWhole, Past
  <2> QED
    BY <2>1, <2>2, <2>3, <2>4, <1>f, LocalWhole
<1>13. ASSUME NEW p \in Proc, CrashAndRespawn(p) PROVE AllWhole'
  <2>1. /\ \A q \in Proc : q # p => loop'[q] = loop[q] /\ cache'[q] = cache[q]
        /\ loop'[p] = Idle /\ cache'[p] = Uncached
        /\ UNCHANGED <<slot, pointer, generation, version>>
        /\ loop[p].pc \notin {"count", "generation"}
    BY <1>13, <1>a DEF CrashAndRespawn, memory, Quiet, CutBeforeGeneration
  <2>2. ~Between(p) /\ ~Between(p)' /\ (Settled' <=> Settled)
    BY <2>1 DEF Between, Settled, Idle
  <2>3. WriterWhole(p)' /\ ReaderWhole(p)' /\ CacheWhole(p)'
    BY <2>1, <2>2, <1>f DEF AllWhole, SlotsWhole, WriterWhole, ReaderWhole, CacheWhole, Past, Idle,
       Uncached, Empty, Whole
  <2> QED
    BY <2>1, <2>2, <2>3, <1>f, LocalWhole
<1> QED
  BY <1>1, <1>2, <1>4, <1>5, <1>6, <1>7, <1>8, <1>9, <1>10, <1>13 DEF Next, vars, memory, history

LEMMA AlwaysWhole == Spec => []WholeInv
<1> QED
  BY InitWhole, NextWhole, PTL DEF Spec

\* read() returns one version as it was published, unless some process wrote
\* without the role or a writer died between the pointer and the generation.
THEOREM WholeReads == Spec => []WholeUnlessDisturbed
<1>1. WholeInv => WholeUnlessDisturbed
  BY DEF WholeInv, WholeUnlessDisturbed, Quiet, AllWhole, CacheWhole, ReadsAreWhole
<1> QED
  BY <1>1, AlwaysWhole, PTL

\* Processes that cached the current generation cached the same version.
THEOREM SameReads == Spec => []SameGenerationSameVersion
<1>1. WholeInv => SameGenerationSameVersion
  <2> SUFFICES ASSUME TypeOK, AllWhole, \A p \in Proc : ~Writing(p), NEW p \in Proc, NEW q \in Proc,
                      cache[p].generation = generation, cache[q].generation = generation
               PROVE  cache[p].value = cache[q].value
    BY DEF WholeInv, FreshInv, SameGenerationSameVersion, Quiet
  <2>1. Settled
    BY DEF Settled, Between, Writing, Field
  <2>2. cache[p].value \in Payload /\ cache[q].value \in Payload
    BY DEF TypeOK
  <2>3. /\ cache[p].value.low = cache[q].value.low /\ cache[p].value.high = cache[q].value.high
        /\ cache[p].value.length = cache[q].value.length
    BY <2>1 DEF AllWhole, CacheWhole, Whole
  <2> QED
    BY <2>2, <2>3 DEF Payload
<1> QED
  BY <1>1, AlwaysWhole, PTL
-----------------------------------------------------------------------------
(* The stale flag.  As long as calls of publish() do not overlap, at most one *)
(* is pending, and it is newer than all that have ended.                      *)

PendingCall(p) ==
  /\ \A c \in encoding[p] : newest.call < c
  /\ Writing(p) => newest.call < loop[p].call /\ loop[p].call <= calls

OneCall(p, q) ==
  /\ Writing(p) => encoding[q] = {}
  /\ Writing(p) /\ Writing(q) => p = q
  /\ \A c \in encoding[p], d \in encoding[q] : p = q /\ c = d

Honest ==
  /\ newest.call <= calls
  /\ \A p \in Proc : PendingCall(p)
  /\ \A p, q \in Proc : OneCall(p, q)
  /\ "stale" \notin cut => (stale <=> newest.refused)

TruthInv == TypeOK /\ (overlapped \/ Honest)

LEMMA InitTruth == Init => TruthInv
BY InitTypeOK DEF Init, TruthInv, Honest, PendingCall, OneCall, Writing, Field, Idle

\* Steps that leave the calls alone, or take p out of the middle of one.
LEMMA QuietTruth ==
  ASSUME TypeOK, Honest, NEW p \in Proc,
         \A q \in Proc : q # p => loop'[q] = loop[q] /\ encoding'[q] = encoding[q],
         ~Writing(p)', encoding'[p] \subseteq encoding[p],
         UNCHANGED <<newest, stale, calls>>, cut \subseteq cut'
  PROVE  Honest'
BY DEF Honest, PendingCall, OneCall, Writing

LEMMA NextTruth == TruthInv /\ [Next]_vars => TruthInv'
<1> SUFFICES ASSUME TruthInv, [Next]_vars, ~overlapped' PROVE Honest'
  BY NextTypeOK DEF TruthInv
<1>t. /\ TypeOK /\ newest.call \in Nat /\ calls \in Nat
      /\ loop \in [Proc -> LoopState] /\ encoding \in [Proc -> SUBSET (1 .. calls)]
      /\ \A p \in Proc : loop[p] \in LoopState /\ loop[p].call \in Nat
      /\ overlapped \in BOOLEAN
  BY DEF TruthInv, TypeOK, LoopState
<1>o. ~overlapped
  BY <1>t DEF Next, vars, history, Publish, RefuseTooLarge, BeginWrite,
     Write, ReadCached, BeginRead, ReadPointer, Copy, Confirm, Grant, GiveUpRole, CrashAndRespawn
<1>h. Honest
  BY <1>o DEF TruthInv
<1>1. CASE UNCHANGED <<encoding, loop, newest, stale, calls, cut>>
  BY <1>1, <1>h DEF Honest, PendingCall, OneCall, Writing
<1>2. ASSUME NEW p \in Proc, Publish(p) PROVE Honest'
  <2>1. \A q \in Proc : encoding[q] = {} /\ ~Writing(q)
    BY <1>2 DEF Publish
  <2>2. /\ \A q \in Proc : encoding'[q] = IF q = p THEN {calls + 1} ELSE {}
        /\ UNCHANGED <<loop, newest, stale, cut>> /\ calls' = calls + 1
    BY <1>2, <1>t, <2>1 DEF Publish, memory
  <2> QED
    BY <2>1, <2>2, <1>h, <1>t DEF Honest, PendingCall, OneCall, Writing
<1>3. ASSUME NEW p \in Proc, NEW call \in encoding[p], RefuseTooLarge(p, call) PROVE Honest'
  <2>1. /\ \A q \in Proc : encoding'[q] = {} /\ ~Writing(q)
        /\ newest.call < call /\ call <= calls
    BY <1>3, <1>t, <1>h DEF RefuseTooLarge, Honest, OneCall, PendingCall
  <2>2. newest' = [call |-> call, refused |-> TRUE] /\ stale' = TRUE /\ UNCHANGED <<loop, calls>>
    BY <2>1, <1>3, <1>t DEF RefuseTooLarge, Ended, StaleAfterRefusal, bounds
  <2> QED
    BY <2>1, <2>2, <1>t DEF Honest, PendingCall, OneCall, Writing
<1>4. ASSUME NEW p \in Proc, NEW call \in encoding[p], BeginWrite(p, call) PROVE Honest'
  <2>1. /\ \A q \in Proc : encoding'[q] = {} /\ ~Writing(q)
        /\ newest.call < call /\ call <= calls
    BY <1>4, <1>t, <1>h DEF BeginWrite, Honest, OneCall, PendingCall
  <2>2. /\ \A q \in Proc : q # p => loop'[q] = loop[q]
        /\ loop'[p].call = call /\ UNCHANGED <<newest, stale, calls, cut>>
    BY <1>4, <1>t DEF BeginWrite, memory, bounds, Idle
  <2> QED
    BY <2>1, <2>2, <1>h, <1>t DEF Honest, PendingCall, OneCall, Writing
<1>5. ASSUME NEW p \in Proc, NEW field \in Field, Write(p, field) PROVE Honest'
  <2>1. /\ Writing(p) /\ \A q \in Proc : encoding'[q] = {} /\ (q # p => ~Writing(q) /\ loop'[q] = loop[q])
        /\ newest.call < loop[p].call /\ loop[p].call <= calls /\ UNCHANGED <<calls, cut>>
    BY <1>5, <1>t, <1>h DEF Write, Writing, Honest, OneCall, PendingCall, bounds
  <2>2. CASE field = "stale"
    <3>1. newest' = [call |-> loop[p].call, refused |-> FALSE] /\ stale' = FALSE /\ ~Writing(p)'
      BY <2>1, <2>2, <1>5, <1>t DEF Write, Ended, Writing, Field, Idle
    <3> QED
      BY <2>1, <3>1, <1>t DEF Honest, PendingCall, OneCall, Writing
  <2>3. CASE field # "stale"
    <3>1. newest' = newest /\ stale' = stale /\ loop'[p].call = loop[p].call
      BY <2>1, <2>3, <1>5, <1>t DEF Write, LoopState
    <3> QED
      BY <2>1, <3>1, <1>t, <1>h DEF Honest, PendingCall, OneCall, Writing
  <2> QED
    BY <2>2, <2>3
<1>6. ASSUME NEW p \in Proc, ReadCached(p) \/ BeginRead(p) \/ ReadPointer(p) \/ Copy(p) PROVE Honest'
  <2>1. loop'[p].pc \notin Field /\ \A q \in Proc : q # p => loop'[q] = loop[q]
    <3>1. ReadCached(p) => loop'[p].pc \notin Field
      BY <1>t DEF ReadCached, Idle, Field
    <3>2. BeginRead(p) => loop'[p].pc \notin Field
      BY <1>t DEF BeginRead, Idle, Field
    <3>3. ReadPointer(p) => loop'[p].pc \notin Field
      BY <1>t DEF ReadPointer, LoopState, Field
    <3>4. Copy(p) => loop'[p].pc \in {"r-low", "r-high", "r-confirm"}
      BY <1>t DEF Copy, LoopState
    <3>5. \A q \in Proc : q # p => loop'[q] = loop[q]
      BY <1>6, <1>t DEF ReadCached, BeginRead, ReadPointer, Copy
    <3> QED
      BY <1>6, <3>1, <3>2, <3>3, <3>4, <3>5 DEF Field
  <2>2. UNCHANGED <<encoding, newest, stale, calls, cut>>
    BY <1>6 DEF ReadCached, BeginRead, ReadPointer, Copy, memory, history, bounds
  <2> QED
    BY <2>1, <2>2, <1>t, <1>h, QuietTruth DEF Writing
<1>10. ASSUME NEW p \in Proc, Confirm(p) PROVE Honest'
  <2>1. \/ loop'[p] = Idle
        \/ loop'[p] = [Idle EXCEPT !.pc = "r-again", !.floor = loop[p].floor,
                                   !.spins = loop[p].spins + 1]
    BY <1>10, <1>t DEF Confirm
  <2>2. Idle.pc = "free" /\ [Idle EXCEPT !.pc = "r-again", !.floor = loop[p].floor,
                                        !.spins = loop[p].spins + 1].pc = "r-again"
    BY DEF Idle
  <2>3. loop'[p].pc \notin Field
    BY <2>1, <2>2 DEF Field
  <2>4. UNCHANGED <<encoding, newest, stale, calls, cut>> /\ \A q \in Proc : q # p => loop'[q] = loop[q]
    BY <1>10, <1>t DEF Confirm, memory, bounds
  <2> QED
    BY <2>3, <2>4, <1>t, <1>h, QuietTruth DEF Writing
<1>13. ASSUME NEW p \in Proc, CrashAndRespawn(p) PROVE Honest'
  <2>1. loop'[p].pc \notin Field /\ encoding'[p] = {}
        /\ \A q \in Proc : q # p => loop'[q] = loop[q] /\ encoding'[q] = encoding[q]
    BY <1>13, <1>t DEF CrashAndRespawn, Idle, Field
  <2>2. UNCHANGED <<newest, stale, calls>> /\ cut \subseteq cut'
    BY <1>13 DEF CrashAndRespawn, memory
  <2> QED
    BY <2>1, <2>2, <1>t, <1>h, QuietTruth DEF Writing
<1> QED
  BY <1>1, <1>2, <1>3, <1>4, <1>5, <1>6, <1>10, <1>13
     DEF Next, vars, memory, history, bounds, Grant, GiveUpRole

\* The stale flag tells every process, across changes of the primary, whether
\* the newest version was too large.
THEOREM HonestFlag == Spec => []StaleTellsTheTruth
<1>1. TruthInv => StaleTellsTheTruth
  BY DEF TruthInv, Honest, StaleTellsTheTruth
<1> QED
  BY <1>1, InitTruth, NextTruth, PTL DEF Spec
=============================================================================
