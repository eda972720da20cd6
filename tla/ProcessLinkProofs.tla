------------------------- MODULE ProcessLinkProofs -------------------------
(***************************************************************************)
(* Theorems about ProcessLink, for every number of processes and rows and  *)
(* every set of channels.                                                  *)
(***************************************************************************)
EXTENDS ProcessLink, WellFoundedInduction, FiniteSetTheorems, TLAPS

\* Code that publishes or reads knows its channel, and once it has claimed or
\* picked a row it knows the row: the fact behind every index into the table
\* in _link.py, which type correctness alone does not tell.
Placed(s) ==
  /\ s.pc # "free" => s.ch \in Channel
  /\ s.pc \notin {"free", "claim", "next"} => s.row \in Row

Located == \A p \in Proc : Placed(loop[p])

TypeInv == TypeOK /\ Located

\* The writer's side of the order contract of _publish: who has reset the row
\* it writes, and when the row is whole.
WriterOK(p) ==
  /\ loop[p].pc \in PublishPC \ {"claim"} => loop[p].row.owner = p
  /\ loop[p].pc = "lap" => \A r \in Proc \ loop[p].readers : loop[p].row \notin unread[r]
  /\ loop[p].pc \in {"invalidate", "number", "body", "complete"}
       => \A r \in Proc : loop[p].row \notin unread[r]
  /\ loop[p].pc \in {"mark", "ring"} => memory[loop[p].row].complete

WriterInv == \A p \in Proc : WriterOK(p)

BitInv == TypeInv /\ WriterInv /\ BitMeansComplete
-----------------------------------------------------------------------------
\* One update of a band that does not collide changes one bit.
LEMMA WrittenIsOneBit ==
  ASSUME ~RacyUpdates, NEW p \in Proc, NEW r \in Proc, NEW row \in Row
  PROVE  /\ Raised(p, r, row) = unread[r] \cup {row}
         /\ Lowered(p, r, row) = unread[r] \ {row}
<1>1. row \in ByteOf(row)
  BY DEF ByteOf
<1> QED
  BY <1>1 DEF Raised, Lowered, Loaded

\* An update of a band, colliding or not, leaves rows in it.
LEMMA WrittenInRow ==
  ASSUME TypeOK, NEW p \in Proc, NEW r \in Proc, NEW row \in Row
  PROVE  Raised(p, r, row) \subseteq Row /\ Lowered(p, r, row) \subseteq Row
BY DEF Raised, Lowered, Loaded, TypeOK, LoopState, ByteOf

\* The initial values of the private records are well typed.
LEMMA Defaults ==
  /\ NoCorr \in Corr /\ NoMsg \in Msg
  /\ Free \in LoopState /\ Asleep \in PumpState /\ NotAsking \in AskState
<1>1. NoCorr \in Corr /\ NoMsg \in Msg
  BY DEF NoCorr, Corr, NoMsg, Msg
<1> QED
  BY <1>1 DEF Free, LoopState, LoopPC, Asleep, PumpState, NotAsking, AskState

\* A step of the code on p's loop leaves every loop well placed when it leaves
\* p's so, and needs nothing else for the loops.
LEMMA LoopMoves ==
  ASSUME TypeInv, NEW p \in Proc, NEW s \in LoopState, Placed(s),
         loop' = [loop EXCEPT ![p] = s]
  PROVE  loop' \in [Proc -> LoopState] /\ Located'
<1>1. loop' \in [Proc -> LoopState]
  BY DEF TypeInv, TypeOK
<1>2. \A q \in Proc : loop'[q] = IF q = p THEN s ELSE loop[q]
  BY DEF TypeInv, TypeOK
<1>3. \A q \in Proc : Placed(loop'[q])
  BY <1>2 DEF TypeInv, Located
<1> QED
  BY <1>1, <1>3 DEF Located

\* So does a step that leaves the loops alone.
LEMMA LoopStays ==
  ASSUME TypeInv, UNCHANGED loop
  PROVE  loop' \in [Proc -> LoopState] /\ Located'
BY DEF TypeInv, TypeOK, Located, Placed

\* The code of p, once it has a channel or a row, indexes the table with it.
LEMMA AtRow ==
  ASSUME TypeInv, NEW p \in Proc
  PROVE  /\ loop[p] \in LoopState
         /\ loop[p].pc # "free" => loop[p].ch \in Channel
         /\ loop[p].pc \notin {"free", "claim", "next"}
              => loop[p].row \in Row /\ memory[loop[p].row] \in RowData
BY DEF TypeInv, TypeOK, Located, Placed

LEMMA InitTypeInv == Init => TypeInv
<1> SUFFICES ASSUME Init PROVE TypeInv
  OBVIOUS
<1> USE Defaults
<1>1. memory \in [Row -> RowData]
  BY DEF Init, RowData
<1>2. cursor \in [Proc -> [Channel -> Slot]]
  BY LinkAssumption DEF Init, Slot
<1>3. TypeOK
  <2>1. /\ loop \in [Proc -> LoopState]
        /\ pump \in [Proc -> [Channel -> PumpState]]
        /\ asking \in [Proc -> AskState]
    BY DEF Init
  <2>2. delivered \in [Proc -> Seq([ch : Channel, head : Msg, body : Msg])]
    BY DEF Init
  <2> QED
    BY <1>1, <1>2, <2>1, <2>2 DEF Init, TypeOK
<1>4. Located
  BY DEF Init, Located, Placed, Free
<1> QED
  BY <1>3, <1>4 DEF TypeInv

\* Every step keeps the types and the places.
LEMMA NextTypeInv == TypeInv /\ [Next]_vars => TypeInv'
<1> SUFFICES ASSUME TypeInv, [Next]_vars PROVE TypeInv'
  OBVIOUS
<1>0. TypeOK /\ Located
  BY DEF TypeInv
<1> USE Defaults, <1>0
<1>1. ASSUME NEW p \in Proc, NEW c \in Channel, NEW how \in Posts, Post(p, c, how)
      PROVE  TypeInv'
  <2> DEFINE id == <<p, posted[p] + 1>>
             m  == [from |-> p, n |-> posted[p] + 1,
                    kind |-> IF how = "announce" THEN "announce" ELSE "request",
                    corr |-> IF how = "ask" THEN id ELSE NoCorr]
             s  == Publishing(p, c, m, FALSE)
             a  == [NotAsking EXCEPT !.pc = "posting", !.corr = id]
  <2>1. id \in Corr /\ posted[p] + 1 \in Nat \ {0}
    BY DEF TypeOK, Corr
  <2>2. m \in Msg
    BY <2>1 DEF Msg, Kind
  <2>3. s \in LoopState /\ Placed(s)
    BY <2>2 DEF Publishing, Free, LoopState, LoopPC, PublishPC, Placed
  <2>4. loop' \in [Proc -> LoopState] /\ Located'
    <3>1. loop' = [loop EXCEPT ![p] = s]
      BY <1>1 DEF Post
    <3> QED
      BY <2>3, <3>1, LoopMoves
  <2>5. a \in AskState
    BY <2>1 DEF AskState
  <2>6. asking' \in [Proc -> AskState] /\ posted' \in [Proc -> Nat]
    BY <1>1, <2>5 DEF Post, TypeOK
  <2> QED
    BY <1>1, <2>4, <2>6 DEF Post, TypeInv, TypeOK, shared
<1>2. ASSUME NEW p \in Proc, ClaimRow(p) PROVE TypeInv'
  <2> DEFINE row == [ch |-> loop[p].ch, owner |-> p, slot |-> cursor[p][loop[p].ch]]
             stale == Stale(row)
             pc  == IF stale = {} THEN "invalidate" ELSE "lap"
             s   == [loop[p] EXCEPT !.row = row, !.readers = stale, !.pc = pc]
  <2>1. loop[p] \in LoopState /\ loop[p].ch \in Channel
    BY <1>2, AtRow DEF ClaimRow
  <2>2. row \in Row /\ stale \in SUBSET Proc /\ pc \in LoopPC
    BY <2>1 DEF Row, TypeOK, Stale, LoopPC, PublishPC
  <2>3. NextCursor(cursor[p][loop[p].ch]) \in Slot
    BY <2>1, LinkAssumption DEF NextCursor, Slot, TypeOK
  <2>4. cursor' \in [Proc -> [Channel -> Slot]]
    BY <1>2, <2>1, <2>3 DEF ClaimRow, TypeOK
  <2>5. loop' = [loop EXCEPT ![p] = s]
    BY <1>2 DEF ClaimRow, TypeOK
  <2> HIDE DEF row, stale, pc
  <2>6. s \in LoopState /\ Placed(s)
    BY <2>1, <2>2 DEF LoopState, Placed
  <2>7. loop' \in [Proc -> LoopState] /\ Located'
    BY <2>5, <2>6, LoopMoves
  <2> QED
    BY <1>2, <2>4, <2>7 DEF ClaimRow, TypeInv, TypeOK, shared, history
<1>3. ASSUME NEW p \in Proc, CountMissed(p) PROVE TypeInv'
  <2> DEFINE r    == Least(loop[p].readers)
             rest == loop[p].readers \ {r}
             byte == unread[r] \cap ByteOf(loop[p].row)
             load == [loop[p] EXCEPT !.loaded = TRUE, !.byte = byte]
             pc   == IF rest = {} THEN "invalidate" ELSE "lap"
             done == [loop[p] EXCEPT !.readers = rest, !.byte = {}, !.loaded = FALSE, !.pc = pc]
             band == Lowered(p, r, loop[p].row)
  <2>1. loop[p] \in LoopState /\ loop[p].ch \in Channel /\ loop[p].row \in Row
    BY <1>3, AtRow DEF CountMissed
  <2>2. missed' = [missed EXCEPT ![r] = @ \cup {loop[p].ch}]
    BY <1>3 DEF CountMissed
  <2>3. \/ UNCHANGED unread /\ loop' = [loop EXCEPT ![p] = load]
        \/ unread' = [unread EXCEPT ![r] = band] /\ loop' = [loop EXCEPT ![p] = done]
    BY <1>3 DEF CountMissed, LoadByte, TypeOK
  <2>4. pc \in LoopPC /\ rest \in SUBSET Proc /\ byte \in SUBSET Row
    BY <2>1 DEF LoopPC, PublishPC, LoopState, ByteOf
  <2>5. r \in Proc => band \in SUBSET Row
    BY <2>1, WrittenInRow
  <2> HIDE DEF r, rest, byte, pc, band
  <2>6. load \in LoopState /\ done \in LoopState /\ Placed(load) /\ Placed(done)
    BY <2>1, <2>4 DEF LoopState, Placed
  <2>7. missed' \in [Proc -> SUBSET Channel]
    BY <2>1, <2>2 DEF TypeOK
  <2>8. unread' \in [Proc -> SUBSET Row]
    BY <2>3, <2>5 DEF TypeOK
  <2> HIDE DEF load, done
  <2>9. loop' \in [Proc -> LoopState] /\ Located'
    BY <2>3, <2>6, LoopMoves
  <2> QED
    BY <1>3, <2>7, <2>8, <2>9 DEF CountMissed, TypeInv, TypeOK, history
<1>4. ASSUME NEW p \in Proc, Invalidate(p) PROVE TypeInv'
  <2> DEFINE d == [memory[loop[p].row] EXCEPT !.complete = FALSE]
             s == [loop[p] EXCEPT !.pc = "number"]
  <2>1. loop[p] \in LoopState /\ loop[p].ch \in Channel
        /\ loop[p].row \in Row /\ memory[loop[p].row] \in RowData
    BY <1>4, AtRow DEF Invalidate
  <2>2. d \in RowData
    BY <2>1 DEF RowData
  <2>3. s \in LoopState /\ Placed(s)
    BY <2>1 DEF LoopState, LoopPC, PublishPC, Placed
  <2>4. memory' = [memory EXCEPT ![loop[p].row] = d] /\ loop' = [loop EXCEPT ![p] = s]
    BY <1>4 DEF Invalidate, TypeOK
  <2> HIDE DEF d, s
  <2>5. memory' \in [Row -> RowData]
    BY <2>2, <2>4 DEF TypeOK
  <2>6. loop' \in [Proc -> LoopState] /\ Located'
    BY <2>3, <2>4, LoopMoves
  <2> QED
    BY <1>4, <2>5, <2>6 DEF Invalidate, TypeInv, TypeOK, history
<1>5. ASSUME NEW p \in Proc, TakeNumber(p) PROVE TypeInv'
  <2> DEFINE next == counter[loop[p].ch] + 1
             n    == IF RacyUpdates THEN loop[p].seq ELSE next
             d    == [memory[loop[p].row] EXCEPT !.seq = n, !.head = loop[p].head]
             load == [loop[p] EXCEPT !.loaded = TRUE, !.seq = next]
             done == [loop[p] EXCEPT !.pc = "body", !.seq = n, !.loaded = FALSE]
  <2>1. loop[p] \in LoopState /\ loop[p].ch \in Channel
        /\ loop[p].row \in Row /\ memory[loop[p].row] \in RowData
    BY <1>5, AtRow DEF TakeNumber
  <2>2. next \in Nat /\ n \in Nat
    BY <2>1 DEF TypeOK, LoopState
  <2>3. \/ UNCHANGED <<memory, counter>> /\ loop' = [loop EXCEPT ![p] = load]
        \/ /\ counter' = [counter EXCEPT ![loop[p].ch] = n]
           /\ memory' = [memory EXCEPT ![loop[p].row] = d]
           /\ loop' = [loop EXCEPT ![p] = done]
    <3>1. CASE loop' = [loop EXCEPT ![p].loaded = TRUE, ![p].seq = next]
               /\ UNCHANGED <<memory, counter>>
      BY <3>1 DEF TypeOK
    <3>2. CASE /\ counter' = [counter EXCEPT ![loop[p].ch] = n]
               /\ memory' = [memory EXCEPT ![loop[p].row].seq = n,
                                           ![loop[p].row].head = loop[p].head]
               /\ loop' = [loop EXCEPT ![p].pc = "body", ![p].seq = n, ![p].loaded = FALSE]
      <4> HIDE DEF n, next
      <4>1. memory' = [memory EXCEPT ![loop[p].row] = d]
        BY <2>1, <3>2 DEF TypeOK
      <4>2. loop' = [loop EXCEPT ![p] = done]
        BY <3>2 DEF TypeOK
      <4> QED
        BY <3>2, <4>1, <4>2
    <3> QED
      BY <1>5, <3>1, <3>2 DEF TakeNumber
  <2> HIDE DEF next, n
  <2>4. d \in RowData
    BY <2>1, <2>2 DEF RowData, LoopState
  <2>5. load \in LoopState /\ done \in LoopState /\ Placed(load) /\ Placed(done)
    BY <2>1, <2>2 DEF LoopState, LoopPC, PublishPC, Placed
  <2> HIDE DEF d, load, done
  <2>6. memory' \in [Row -> RowData] /\ counter' \in [Channel -> Nat]
    <3>1. memory \in [Row -> RowData] /\ counter \in [Channel -> Nat]
      BY DEF TypeOK
    <3>2. memory' \in [Row -> RowData]
      BY <2>3, <2>4, <3>1
    <3>3. counter' \in [Channel -> Nat]
      BY <2>2, <2>3, <3>1
    <3> QED
      BY <3>2, <3>3
  <2>7. loop' \in [Proc -> LoopState] /\ Located'
    BY <2>3, <2>5, LoopMoves
  <2> QED
    BY <1>5, <2>6, <2>7 DEF TakeNumber, TypeInv, TypeOK, history
<1>6. ASSUME NEW p \in Proc, WriteBody(p) PROVE TypeInv'
  <2> DEFINE d == [memory[loop[p].row] EXCEPT !.body = loop[p].body, !.taker = NoTaker]
             s == [loop[p] EXCEPT !.pc = "complete"]
  <2>1. loop[p] \in LoopState /\ loop[p].ch \in Channel
        /\ loop[p].row \in Row /\ memory[loop[p].row] \in RowData
    BY <1>6, AtRow DEF WriteBody
  <2>2. d \in RowData
    <3>1. loop[p].body \in Msg /\ NoTaker \in 0 .. 255
      BY <2>1 DEF LoopState, NoTaker
    <3> HIDE DEF NoTaker
    <3> QED
      BY <2>1, <3>1 DEF RowData
  <2>3. s \in LoopState /\ Placed(s)
    BY <2>1 DEF LoopState, LoopPC, PublishPC, Placed
  <2>4. memory' = [memory EXCEPT ![loop[p].row] = d]
    BY <1>6, <2>1 DEF WriteBody, TypeOK
  <2>5. loop' = [loop EXCEPT ![p] = s]
    BY <1>6 DEF WriteBody, TypeOK
  <2> HIDE DEF d, s
  <2>6. memory' \in [Row -> RowData]
    BY <2>2, <2>4 DEF TypeOK
  <2>7. loop' \in [Proc -> LoopState] /\ Located'
    BY <2>3, <2>5, LoopMoves
  <2> QED
    BY <1>6, <2>6, <2>7 DEF WriteBody, TypeInv, TypeOK, history
<1>7. ASSUME NEW p \in Proc, Complete(p) PROVE TypeInv'
  <2> DEFINE d  == [memory[loop[p].row] EXCEPT !.complete = TRUE]
             pc == IF Others(p) = {} THEN "ring" ELSE "mark"
             s  == [loop[p] EXCEPT !.readers = Others(p), !.pc = pc]
  <2>1. loop[p] \in LoopState /\ loop[p].ch \in Channel
        /\ loop[p].row \in Row /\ memory[loop[p].row] \in RowData
    BY <1>7, AtRow DEF Complete
  <2>2. d \in RowData
    BY <2>1 DEF RowData
  <2>3. pc \in LoopPC /\ Others(p) \in SUBSET Proc
    BY DEF LoopPC, PublishPC, Others
  <2>4. memory' = [memory EXCEPT ![loop[p].row] = d] /\ loop' = [loop EXCEPT ![p] = s]
    BY <1>7 DEF Complete, TypeOK
  <2> HIDE DEF pc
  <2>5. s \in LoopState /\ Placed(s)
    BY <2>1, <2>3 DEF LoopState, Placed
  <2> HIDE DEF d, s
  <2>6. memory' \in [Row -> RowData]
    BY <2>2, <2>4 DEF TypeOK
  <2>7. loop' \in [Proc -> LoopState] /\ Located'
    BY <2>4, <2>5, LoopMoves
  <2> QED
    BY <1>7, <2>6, <2>7 DEF Complete, TypeInv, TypeOK, history
<1>8. ASSUME NEW p \in Proc, MarkUnread(p) PROVE TypeInv'
  <2> DEFINE r    == Least(loop[p].readers)
             rest == loop[p].readers \ {r}
             byte == unread[r] \cap ByteOf(loop[p].row)
             load == [loop[p] EXCEPT !.loaded = TRUE, !.byte = byte]
             pc   == IF rest = {} THEN "ring" ELSE "mark"
             done == [loop[p] EXCEPT !.readers = rest, !.byte = {}, !.loaded = FALSE, !.pc = pc]
             band == Raised(p, r, loop[p].row)
  <2>1. loop[p] \in LoopState /\ loop[p].ch \in Channel /\ loop[p].row \in Row
    BY <1>8, AtRow DEF MarkUnread
  <2>2. \/ UNCHANGED unread /\ loop' = [loop EXCEPT ![p] = load]
        \/ unread' = [unread EXCEPT ![r] = band] /\ loop' = [loop EXCEPT ![p] = done]
    BY <1>8 DEF MarkUnread, LoadByte, TypeOK
  <2>3. pc \in LoopPC /\ rest \in SUBSET Proc /\ byte \in SUBSET Row
    BY <2>1 DEF LoopPC, PublishPC, LoopState, ByteOf
  <2>4. r \in Proc => band \in SUBSET Row
    BY <2>1, WrittenInRow
  <2> HIDE DEF r, rest, byte, pc, band
  <2>5. load \in LoopState /\ done \in LoopState /\ Placed(load) /\ Placed(done)
    BY <2>1, <2>3 DEF LoopState, Placed
  <2>6. unread' \in [Proc -> SUBSET Row]
    BY <2>2, <2>4 DEF TypeOK
  <2> HIDE DEF load, done
  <2>7. loop' \in [Proc -> LoopState] /\ Located'
    BY <2>2, <2>5, LoopMoves
  <2> QED
    BY <1>8, <2>6, <2>7 DEF MarkUnread, TypeInv, TypeOK, history
<1>9. ASSUME NEW p \in Proc, Ring(p) PROVE TypeInv'
  <2> DEFINE s == IF loop[p].reply THEN [Free EXCEPT !.pc = "next", !.ch = loop[p].ch] ELSE Free
             a == [asking[p] EXCEPT !.pc = "waiting", !.row = loop[p].row,
                                    !.seq = memory[loop[p].row].seq]
  <2>1. loop[p] \in LoopState /\ loop[p].ch \in Channel
        /\ loop[p].row \in Row /\ memory[loop[p].row] \in RowData
    BY <1>9, AtRow DEF Ring
  <2>2. bell' \in [Proc -> Nat]
    BY <1>9 DEF Ring, Rung, TypeOK
  <2>3. s \in LoopState /\ Placed(s)
    BY <2>1 DEF Free, LoopState, LoopPC, Placed
  <2>4. a \in AskState
    BY <2>1 DEF TypeOK, AskState, RowData
  <2>5. /\ loop' = [loop EXCEPT ![p] = s]
        /\ UNCHANGED asking \/ asking' = [asking EXCEPT ![p] = a]
    BY <1>9 DEF Ring, TypeOK
  <2> HIDE DEF s, a
  <2>6. asking' \in [Proc -> AskState]
    BY <2>4, <2>5 DEF TypeOK
  <2>7. loop' \in [Proc -> LoopState] /\ Located'
    BY <2>3, <2>5, LoopMoves
  <2> QED
    BY <1>9, <2>2, <2>6, <2>7 DEF Ring, TypeInv, TypeOK, history
<1>10. ASSUME NEW p \in Proc, NEW c \in Channel, Acquire(p, c) PROVE TypeInv'
  <2> DEFINE w == [pump[p][c] EXCEPT !.pc = "awake"]
  <2>1. w \in PumpState
    <3>1. pump[p][c] \in PumpState
      BY DEF TypeOK
    <3> QED
      BY <3>1 DEF PumpState
  <2>2. pump' = [pump EXCEPT ![p] = [pump[p] EXCEPT ![c] = w]]
    BY <1>10 DEF Acquire, TypeOK
  <2> HIDE DEF w
  <2>3. pump' \in [Proc -> [Channel -> PumpState]]
    BY <2>1, <2>2 DEF TypeOK
  <2>4. bell' \in [Proc -> Nat]
    BY <1>10 DEF Acquire, TypeOK
  <2> QED
    BY <1>10, <2>3, <2>4 DEF Acquire, TypeInv, TypeOK, Located, history
<1>11. ASSUME NEW p \in Proc, NEW c \in Channel, Scan(p, c) PROVE TypeInv'
  <2> DEFINE todo == {[row |-> row, seq |-> memory[row].seq] :
                        row \in {x \in unread[p] : x.ch = c}}
             w == [Asleep EXCEPT !.pc = "draining", !.todo = todo]
             s == [Free EXCEPT !.pc = "next", !.ch = c]
  <2>1. todo \in SUBSET [row : Row, seq : Nat]
    BY DEF TypeOK, RowData
  <2>2. s \in LoopState /\ Placed(s)
    BY DEF Free, LoopState, LoopPC, Placed
  <2>3. \/ pump' = [pump EXCEPT ![p][c] = Asleep] /\ UNCHANGED loop
        \/ pump' = [pump EXCEPT ![p][c] = w] /\ loop' = [loop EXCEPT ![p] = s]
    BY <1>11 DEF Scan
  <2> HIDE DEF todo
  <2>4. w \in PumpState
    BY <2>1 DEF PumpState, Asleep
  <2> HIDE DEF w, s
  <2>5. pump' \in [Proc -> [Channel -> PumpState]]
    <3>1. pump \in [Proc -> [Channel -> PumpState]]
      BY DEF TypeOK
    <3> QED
      BY <2>3, <2>4, <3>1
  <2>6. loop' \in [Proc -> LoopState] /\ Located'
    <3>1. CASE UNCHANGED loop
      BY <3>1, LoopStays
    <3>2. CASE loop' = [loop EXCEPT ![p] = s]
      BY <2>2, <3>2, LoopMoves
    <3> QED
      BY <2>3, <3>1, <3>2
  <2> QED
    BY <1>11, <2>5, <2>6 DEF Scan, TypeInv, TypeOK, shared, history
<1>12. ASSUME NEW p \in Proc, NextRow(p) PROVE TypeInv'
  <2> DEFINE c    == loop[p].ch
             todo == pump[p][c].todo
  <2>1. loop[p] \in LoopState /\ c \in Channel
    BY <1>12, AtRow DEF NextRow
  <2>2. CASE todo = {} /\ pump' = [pump EXCEPT ![p][c] = Asleep] /\ loop' = [loop EXCEPT ![p] = Free]
    <3>1. pump' \in [Proc -> [Channel -> PumpState]]
      BY <2>1, <2>2 DEF TypeOK
    <3>2. Placed(Free)
      BY DEF Placed, Free
    <3>3. loop' \in [Proc -> LoopState] /\ Located'
      BY <2>2, <3>2, LoopMoves
    <3> QED
      BY <1>12, <3>1, <3>3 DEF NextRow, TypeInv, TypeOK, shared, history
  <2>3. ASSUME NEW item \in todo,
               pump' = [pump EXCEPT ![p][c].todo = todo \ {item}],
               loop' = IF memory[item.row].complete
                       THEN [loop EXCEPT ![p].pc = "head", ![p].row = item.row] ELSE loop
        PROVE  TypeInv'
    <3> DEFINE w == [pump[p][c] EXCEPT !.todo = todo \ {item}]
               s == [loop[p] EXCEPT !.pc = "head", !.row = item.row]
    <3>1. pump[p][c] \in PumpState /\ item.row \in Row
      BY <2>1 DEF TypeOK, PumpState
    <3>2. w \in PumpState
      BY <3>1 DEF PumpState
    <3>3. s \in LoopState /\ Placed(s)
      BY <2>1, <3>1 DEF LoopState, LoopPC, Placed
    <3>4. pump' = [pump EXCEPT ![p] = [pump[p] EXCEPT ![c] = w]]
      BY <2>1, <2>3 DEF TypeOK
    <3>5. UNCHANGED loop \/ loop' = [loop EXCEPT ![p] = s]
      BY <2>3 DEF TypeOK
    <3> HIDE DEF w, s
    <3>6. pump' \in [Proc -> [Channel -> PumpState]]
      BY <2>1, <3>2, <3>4 DEF TypeOK
    <3>7. loop' \in [Proc -> LoopState] /\ Located'
      <4>1. CASE UNCHANGED loop
        BY <4>1, LoopStays
      <4>2. CASE loop' = [loop EXCEPT ![p] = s]
        BY <3>3, <4>2, LoopMoves
      <4> QED
        BY <3>5, <4>1, <4>2
    <3> QED
      BY <1>12, <3>6, <3>7 DEF NextRow, TypeInv, TypeOK, shared, history
  <2> QED
    BY <1>12, <2>2, <2>3 DEF NextRow
<1>13. ASSUME NEW p \in Proc, ReadHead(p) PROVE TypeInv'
  <2> DEFINE row == memory[loop[p].row]
             head == [row.head EXCEPT !.kind = row.body.kind]
             s == [loop[p] EXCEPT !.head = head, !.pc = "rest"]
  <2>1. loop[p] \in LoopState /\ loop[p].ch \in Channel
        /\ loop[p].row \in Row /\ head \in Msg
    <3>1. loop[p].row \in Row /\ row.head \in Msg /\ row.body \in Msg
      BY <1>13, AtRow DEF ReadHead, RowData
    <3>2. head \in Msg
      BY <3>1 DEF Msg
    <3> QED
      BY <1>13, <3>1, <3>2, AtRow DEF ReadHead
  <2> HIDE DEF head
  <2>2. s \in LoopState /\ Placed(s)
    BY <2>1 DEF LoopState, LoopPC, Placed
  <2>3. loop' = [loop EXCEPT ![p] = s]
    BY <1>13 DEF ReadHead, TypeOK, head
  <2> HIDE DEF s
  <2>4. loop' \in [Proc -> LoopState] /\ Located'
    BY <2>2, <2>3, LoopMoves
  <2> QED
    BY <1>13, <2>4 DEF ReadHead, TypeInv, TypeOK, shared, history
<1>14. ASSUME NEW p \in Proc, ReadBody(p) PROVE TypeInv'
  <2> DEFINE s == [loop[p] EXCEPT !.body = memory[loop[p].row].body, !.pc = "lower"]
  <2>1. loop[p] \in LoopState /\ loop[p].ch \in Channel
        /\ loop[p].row \in Row /\ memory[loop[p].row].body \in Msg
    BY <1>14, AtRow DEF ReadBody, RowData
  <2>2. s \in LoopState /\ Placed(s)
    BY <2>1 DEF LoopState, LoopPC, Placed
  <2>3. loop' = [loop EXCEPT ![p] = s]
    BY <1>14 DEF ReadBody, TypeOK
  <2> HIDE DEF s
  <2>4. loop' \in [Proc -> LoopState] /\ Located'
    BY <2>2, <2>3, LoopMoves
  <2> QED
    BY <1>14, <2>4 DEF ReadBody, TypeInv, TypeOK, shared, history
<1>15. ASSUME NEW p \in Proc, LowerBit(p) PROVE TypeInv'
  <2> DEFINE c    == loop[p].ch
             row  == loop[p].row
             head == loop[p].head
             body == loop[p].body
             byte == unread[p] \cap ByteOf(row)
             load == [loop[p] EXCEPT !.loaded = TRUE, !.byte = byte]
             goOn == [Free EXCEPT !.pc = "next", !.ch = c]
             band == Lowered(p, p, row)
             took == [ch |-> c, head |-> head, body |-> body]
             w    == [pump[p][c] EXCEPT !.pc = "handling", !.row = row, !.head = head, !.body = body]
             a    == [asking[p] EXCEPT !.pc = "over", !.value = body.corr,
                                       !.outcome = IF head.kind = "reply" THEN "Done" ELSE "Failed"]
  <2>1. /\ loop[p] \in LoopState /\ c \in Channel /\ row \in Row
        /\ head \in Msg /\ body \in Msg /\ body.corr \in Corr
    <3>1. loop[p] \in LoopState /\ c \in Channel /\ row \in Row
      BY <1>15, AtRow DEF LowerBit
    <3>2. head \in Msg /\ body \in Msg
      BY <3>1 DEF LoopState
    <3> QED
      BY <3>1, <3>2 DEF Msg, NoMsg
  <2>2. CASE LoadByte(p, p) /\ UNCHANGED <<unread, pump, asking, delivered>>
    <3>1. byte \in SUBSET Row
      BY <2>1 DEF ByteOf
    <3> HIDE DEF byte
    <3>2. load \in LoopState /\ Placed(load)
      BY <2>1, <3>1 DEF LoopState, Placed
    <3>3. loop' = [loop EXCEPT ![p] = load]
      BY <2>2 DEF LoadByte, TypeOK, byte
    <3> HIDE DEF load
    <3>4. loop' \in [Proc -> LoopState] /\ Located'
      BY <3>2, <3>3, LoopMoves
    <3> QED
      BY <1>15, <2>2, <3>4 DEF LowerBit, TypeInv, TypeOK
  <2>3. CASE /\ unread' = [unread EXCEPT ![p] = band]
             /\ delivered' = [delivered EXCEPT ![p] = Append(@, took)]
             /\ \/ /\ UNCHANGED asking \/ asking' = [asking EXCEPT ![p] = a]
                   /\ loop' = [loop EXCEPT ![p] = goOn]
                   /\ UNCHANGED pump
                \/ /\ loop' = [loop EXCEPT ![p] = Free]
                   /\ pump' = [pump EXCEPT ![p][c] = w]
                   /\ UNCHANGED asking
    <3>1. unread' \in [Proc -> SUBSET Row]
      <4>1. band \subseteq Row
        BY <2>1, WrittenInRow
      <4> HIDE DEF band
      <4> QED
        BY <2>3, <4>1 DEF TypeOK
    <3>2. delivered' \in [Proc -> Seq([ch : Channel, head : Msg, body : Msg])]
      <4> DEFINE Took == [ch : Channel, head : Msg, body : Msg]
      <4>1. took \in Took
        BY <2>1
      <4>2. delivered \in [Proc -> Seq(Took)] /\ delivered[p] \in Seq(Took)
        BY DEF TypeOK
      <4> HIDE DEF took, Took
      <4>3. Append(delivered[p], took) \in Seq(Took)
        BY <4>1, <4>2
      <4>4. delivered' = [delivered EXCEPT ![p] = Append(delivered[p], took)]
        BY <2>3
      <4>5. delivered' \in [Proc -> Seq(Took)]
        BY <4>2, <4>3, <4>4
      <4> QED
        BY <4>5 DEF Took
    <3>3. asking' \in [Proc -> AskState]
      <4>1. a \in AskState
        BY <2>1 DEF TypeOK, AskState
      <4>2. asking \in [Proc -> AskState]
        BY DEF TypeOK
      <4> HIDE DEF a
      <4> QED
        BY <2>3, <4>1, <4>2
    <3>4. pump' \in [Proc -> [Channel -> PumpState]]
      <4>1. pump[p][c] \in PumpState
        BY <2>1 DEF TypeOK
      <4>2. w \in PumpState
        BY <2>1, <4>1 DEF PumpState
      <4>3. pump \in [Proc -> [Channel -> PumpState]]
        BY DEF TypeOK
      <4> HIDE DEF w
      <4> QED
        BY <2>1, <2>3, <4>2, <4>3
    <3>5. loop' \in [Proc -> LoopState] /\ Located'
      <4>1. goOn \in LoopState /\ Placed(goOn) /\ Placed(Free)
        BY <2>1 DEF Free, LoopState, LoopPC, Placed
      <4> HIDE DEF goOn
      <4> QED
        BY <2>3, <4>1, LoopMoves
    <3> QED
      BY <1>15, <3>1, <3>2, <3>3, <3>4, <3>5 DEF LowerBit, TypeInv, TypeOK
  <2> QED
    <3>1. Settle(p, head, body) => UNCHANGED asking \/ asking' = [asking EXCEPT ![p] = a]
      BY DEF Settle, TypeOK
    <3> HIDE DEF a
    <3> QED
      BY <1>15, <2>2, <2>3, <3>1 DEF LowerBit
<1>16. ASSUME NEW p \in Proc, NEW c \in Channel, NEW v \in Outcomes(p, c), HandlerReturns(p, c, v)
       PROVE  TypeInv'
  <2> DEFINE row    == pump[p][c].row
             corr   == pump[p][c].head.corr
             isReq  == pump[p][c].head.kind = "request"
             wants  == isReq /\ corr # NoCorr
             takes  == isReq /\ (v \in {"answered", "oversized"} \/ (v = "failed" /\ wants))
             aborts == v = "error" \/ (v = "oversized" /\ wants)
             replies == takes /\ wants /\ ~aborts
             m == [from |-> p, n |-> posted[p] + 1, corr |-> corr,
                   kind |-> IF v = "answered" THEN "reply" ELSE "failure"]
             w == [Asleep EXCEPT !.pc = "draining", !.todo = pump[p][c].todo]
             s == IF replies THEN Publishing(p, c, m, TRUE) ELSE [Free EXCEPT !.pc = "next", !.ch = c]
  <2>1. pump[p][c] \in PumpState /\ pump[p][c].head \in Msg /\ corr \in Corr
    <3>1. pump[p][c] \in PumpState
      BY DEF TypeOK
    <3>2. pump[p][c].head \in Msg
      BY <3>1 DEF PumpState
    <3> QED
      BY <3>1, <3>2 DEF Msg, NoMsg
  <2>2. m \in Msg /\ posted[p] + 1 \in Nat
    <3>1. posted[p] + 1 \in Nat \ {0}
      BY DEF TypeOK
    <3> QED
      BY <2>1, <3>1 DEF Msg, Kind
  <2>3. w \in PumpState
    BY <2>1 DEF PumpState, Asleep
  <2>4. /\ memory' = [memory EXCEPT ![row].taker = p] \/ UNCHANGED memory
        /\ answered' = answered \cup {corr} \/ UNCHANGED answered
        /\ \/ pump' = [pump EXCEPT ![p][c] = Asleep] /\ UNCHANGED <<loop, posted>>
           \/ /\ pump' = [pump EXCEPT ![p][c] = w]
              /\ loop' = [loop EXCEPT ![p] = s]
              /\ posted' = [posted EXCEPT ![p] = @ + 1] \/ UNCHANGED posted
    BY <1>16 DEF HandlerReturns
  <2> HIDE DEF corr, m, w, replies
  <2>5. s \in LoopState /\ Placed(s)
    BY <2>2 DEF Publishing, Free, LoopState, LoopPC, PublishPC, Placed
  <2> HIDE DEF s
  <2>6. memory' \in [Row -> RowData]
    <3> DEFINE d == [memory[row] EXCEPT !.taker = p]
    <3>1. p \in 0 .. 255
      BY LinkAssumption DEF Proc
    <3>2. row \in Row => d \in RowData
      <4>1. row \in Row => memory[row] \in RowData
        BY DEF TypeOK
      <4> QED
        BY <3>1, <4>1 DEF RowData
    <3>3. memory' = [memory EXCEPT ![row] = d] \/ UNCHANGED memory
      BY <2>4
    <3> HIDE DEF row, d
    <3> QED
      BY <3>2, <3>3 DEF TypeOK
  <2>7. answered' \subseteq Corr
    BY <2>1, <2>4 DEF TypeOK
  <2>8. pump' \in [Proc -> [Channel -> PumpState]] /\ posted' \in [Proc -> Nat]
    <3>1. pump \in [Proc -> [Channel -> PumpState]] /\ posted \in [Proc -> Nat]
      BY DEF TypeOK
    <3>2. pump' \in [Proc -> [Channel -> PumpState]]
      <4>1. pump' = [pump EXCEPT ![p][c] = Asleep] \/ pump' = [pump EXCEPT ![p][c] = w]
        BY <2>4
      <4> QED
        BY <2>3, <3>1, <4>1
    <3>3. posted' \in [Proc -> Nat]
      BY <2>2, <2>4, <3>1
    <3> QED
      BY <3>2, <3>3
  <2>9. loop' \in [Proc -> LoopState] /\ Located'
    BY <2>4, <2>5, LoopMoves, LoopStays
  <2> QED
    BY <1>16, <2>6, <2>7, <2>8, <2>9 DEF HandlerReturns, TypeInv, TypeOK
<1>17. ASSUME NEW p \in Proc, AskTimesOut(p) PROVE TypeInv'
  <2> DEFINE v == TimeoutVerdict(memory[asking[p].row], asking[p].seq)
             a == [asking[p] EXCEPT !.pc = "over", !.outcome = v]
  <2>1. v \in {"NoOwner", "NoAnswer"}
    BY DEF TimeoutVerdict
  <2>2. asking' = [asking EXCEPT ![p] = a]
    BY <1>17 DEF AskTimesOut, TypeOK
  <2> HIDE DEF v
  <2>3. a \in AskState
    BY <2>1 DEF TypeOK, AskState
  <2> HIDE DEF a
  <2>4. asking' \in [Proc -> AskState]
    BY <2>2, <2>3 DEF TypeOK
  <2>5. loop' \in [Proc -> LoopState] /\ Located'
    BY <1>17, LoopStays DEF AskTimesOut
  <2> QED
    BY <1>17, <2>4, <2>5 DEF AskTimesOut, TypeInv, TypeOK, shared, history
<1>18. ASSUME NEW p \in Proc, CrashAndRespawn(p) PROVE TypeInv'
  <2>1. loop' \in [Proc -> LoopState] /\ Located'
    BY <1>18, LoopMoves DEF CrashAndRespawn, Placed, Free
  <2>2. cursor' \in [Proc -> [Channel -> Slot]]
    BY <1>18, LinkAssumption DEF CrashAndRespawn, TypeOK, Slot
  <2>3. pump' \in [Proc -> [Channel -> PumpState]] /\ asking' \in [Proc -> AskState]
    BY <1>18 DEF CrashAndRespawn, TypeOK
  <2>4. crashes' \in Nat
    BY <1>18 DEF CrashAndRespawn, TypeOK
  <2> QED
    BY <1>18, <2>1, <2>2, <2>3, <2>4 DEF CrashAndRespawn, TypeInv, TypeOK, shared
<1>19. ASSUME UNCHANGED vars PROVE TypeInv'
  <2>1. loop' \in [Proc -> LoopState] /\ Located'
    BY <1>19, LoopStays DEF vars, private
  <2> QED
    BY <1>19, <2>1 DEF vars, shared, private, history, TypeInv, TypeOK
<1> QED
  BY <1>1, <1>2, <1>3, <1>4, <1>5, <1>6, <1>7, <1>8, <1>9, <1>10, <1>11, <1>12, <1>13, <1>14,
     <1>15, <1>16, <1>17, <1>18, <1>19 DEF Next, LoopStep, PumpStep

\* The code of _link.py keeps the shape of the shared table and of its own
\* state, whatever the numbers of processes and rows and however accesses to
\* shared memory interleave or collide: no row outside the table is indexed.
THEOREM LinkTypes == Spec => []TypeOK
<1>1. Spec => []TypeInv
  BY InitTypeInv, NextTypeInv, PTL DEF Spec
<1>2. TypeInv => TypeOK
  BY DEF TypeInv
<1> QED
  BY <1>1, <1>2, PTL
-----------------------------------------------------------------------------
LEMMA InitBitInv == Init => WriterInv /\ BitMeansComplete
BY DEF Init, WriterInv, WriterOK, BitMeansComplete, Free, PublishPC

\* A step that sets no bit, changes no key and leaves p outside the writing of
\* a row disturbs no writer.
LEMMA QuietStep ==
  ASSUME WriterInv, BitMeansComplete, TypeOK, Located, NEW p \in Proc,
         \A row \in Row : memory'[row].complete = memory[row].complete,
         \A r \in Proc : unread'[r] \subseteq unread[r],
         \A q \in Proc \ {p} : loop'[q] = loop[q],
         loop'[p] = loop[p] \/ loop'[p].pc \notin PublishPC \ {"claim"}
  PROVE  WriterInv' /\ BitMeansComplete'
<1>1. BitMeansComplete'
  BY DEF BitMeansComplete, TypeOK
<1>2. ASSUME NEW q \in Proc PROVE WriterOK(q)'
  <2>1. CASE loop'[q] = loop[q]
    <3>1. loop[q].pc \notin {"free", "claim", "next"} => loop[q].row \in Row
      BY DEF Located, Placed
    <3> QED
      BY <2>1, <3>1 DEF WriterInv, WriterOK
  <2>2. CASE loop'[q].pc \notin PublishPC \ {"claim"}
    BY <2>2 DEF WriterOK, PublishPC
  <2> QED
    BY <2>1, <2>2
<1> QED
  BY <1>1, <1>2 DEF WriterInv

\* Two writers never write the same row: a step of p that touches only rows of
\* p's own region disturbs no other writer.
LEMMA OtherWriters ==
  ASSUME WriterInv, Located, NEW p \in Proc,
         \A q \in Proc \ {p} : loop'[q] = loop[q],
         \A x \in Row : x.owner # p =>
           /\ memory'[x].complete = memory[x].complete
           /\ \A r \in Proc : x \in unread'[r] => x \in unread[r]
  PROVE  \A q \in Proc \ {p} : WriterOK(q)'
<1> SUFFICES ASSUME NEW q \in Proc \ {p} PROVE WriterOK(q)'
  OBVIOUS
<1>1. WriterOK(q) /\ loop'[q] = loop[q]
  BY DEF WriterInv
<1>2. loop[q].pc \in PublishPC \ {"claim"} => loop[q].row \in Row /\ loop[q].row.owner # p
  BY <1>1 DEF WriterOK, Located, Placed, PublishPC
<1> QED
  BY <1>1, <1>2 DEF WriterOK, PublishPC

\* When updates do not collide, every step keeps the writer's side of the order
\* contract and with it the reader's side.
LEMMA NextBitInv ==
  ASSUME ~RacyUpdates, BitInv, [Next]_vars
  PROVE  WriterInv' /\ BitMeansComplete'
<1>0. /\ TypeOK /\ Located /\ TypeInv /\ WriterInv /\ BitMeansComplete
      /\ \A p \in Proc : loop[p] \in LoopState
      /\ unread \in [Proc -> SUBSET Row] /\ memory \in [Row -> RowData]
      /\ loop \in [Proc -> LoopState]
  BY DEF BitInv, TypeInv, TypeOK
<1> USE <1>0
<1>1. ASSUME NEW p \in Proc, NEW c \in Channel, NEW how \in Posts, Post(p, c, how)
      PROVE  WriterInv' /\ BitMeansComplete'
  <2>1. loop'[p].pc = "claim" /\ \A q \in Proc \ {p} : loop'[q] = loop[q]
    BY <1>1 DEF Post, Publishing, Free
  <2> QED
    BY <1>1, <2>1, QuietStep DEF Post, shared
<1>2. ASSUME NEW p \in Proc, Ring(p) PROVE WriterInv' /\ BitMeansComplete'
  <2>1. loop'[p].pc \in {"free", "next"} /\ \A q \in Proc \ {p} : loop'[q] = loop[q]
    BY <1>2 DEF Ring, Free
  <2> QED
    BY <1>2, <2>1, QuietStep DEF Ring, PublishPC
<1>3. ASSUME NEW p \in Proc, NEW c \in Channel, Acquire(p, c)
      PROVE  WriterInv' /\ BitMeansComplete'
  BY <1>3, QuietStep DEF Acquire
<1>4. ASSUME NEW p \in Proc, NEW c \in Channel, Scan(p, c)
      PROVE  WriterInv' /\ BitMeansComplete'
  <2>1. loop'[p].pc \in {"free", "next"} /\ \A q \in Proc \ {p} : loop'[q] = loop[q]
    BY <1>4 DEF Scan, Free
  <2> QED
    BY <1>4, <2>1, QuietStep DEF Scan, PublishPC, shared
<1>5. ASSUME NEW p \in Proc, NextRow(p) PROVE WriterInv' /\ BitMeansComplete'
  <2>1. loop'[p].pc \in {"free", "next", "head"} /\ \A q \in Proc \ {p} : loop'[q] = loop[q]
    <3>1. CASE loop' = [loop EXCEPT ![p] = Free]
      BY <3>1 DEF Free
    <3>2. CASE \E item \in pump[p][loop[p].ch].todo :
                 loop' = [loop EXCEPT ![p].pc = "head", ![p].row = item.row]
      BY <3>2 DEF LoopState
    <3>3. CASE UNCHANGED loop
      BY <1>5, <3>3 DEF NextRow
    <3> QED
      BY <1>5, <3>1, <3>2, <3>3 DEF NextRow
  <2> QED
    BY <1>5, <2>1, QuietStep DEF NextRow, PublishPC, shared
<1>6. ASSUME NEW p \in Proc, ReadHead(p) PROVE WriterInv' /\ BitMeansComplete'
  <2>1. loop'[p].pc = "rest" /\ \A q \in Proc \ {p} : loop'[q] = loop[q]
    BY <1>6 DEF ReadHead, LoopState
  <2> QED
    BY <1>6, <2>1, QuietStep DEF ReadHead, PublishPC, shared
<1>7. ASSUME NEW p \in Proc, ReadBody(p) PROVE WriterInv' /\ BitMeansComplete'
  <2>1. loop'[p].pc = "lower" /\ \A q \in Proc \ {p} : loop'[q] = loop[q]
    BY <1>7 DEF ReadBody, LoopState
  <2> QED
    BY <1>7, <2>1, QuietStep DEF ReadBody, PublishPC, shared
<1>8. ASSUME NEW p \in Proc, LowerBit(p) PROVE WriterInv' /\ BitMeansComplete'
  <2>1. loop[p].row \in Row
    BY <1>8, AtRow DEF LowerBit
  <2>2. \A r \in Proc : unread'[r] \subseteq unread[r]
    <3>1. unread' = [unread EXCEPT ![p] = Lowered(p, p, loop[p].row)]
      BY <1>8 DEF LowerBit, LoadByte
    <3>2. Lowered(p, p, loop[p].row) = unread[p] \ {loop[p].row}
      BY <2>1, WrittenIsOneBit
    <3> QED
      BY <3>1, <3>2
  <2>3. loop'[p].pc \in {"free", "next"} /\ \A q \in Proc \ {p} : loop'[q] = loop[q]
    <3>1. \/ loop' = [loop EXCEPT ![p] = [Free EXCEPT !.pc = "next", !.ch = loop[p].ch]]
          \/ loop' = [loop EXCEPT ![p] = Free]
      BY <1>8 DEF LowerBit, LoadByte
    <3>2. [Free EXCEPT !.pc = "next", !.ch = loop[p].ch].pc = "next" /\ Free.pc = "free"
      BY DEF Free
    <3> QED
      BY <3>1, <3>2
  <2> QED
    BY <1>8, <2>2, <2>3, QuietStep DEF LowerBit, PublishPC
<1>9. ASSUME NEW p \in Proc, NEW c \in Channel, NEW v \in Outcomes(p, c), HandlerReturns(p, c, v)
      PROVE  WriterInv' /\ BitMeansComplete'
  <2>1. /\ loop'[p].pc \in {"free", "next", "claim"}
        /\ \A q \in Proc \ {p} : loop'[q] = loop[q]
    BY <1>9 DEF HandlerReturns, Publishing, Free
  <2>2. \A row \in Row : memory'[row].complete = memory[row].complete
    BY <1>9 DEF HandlerReturns, RowData
  <2> QED
    BY <1>9, <2>1, <2>2, QuietStep DEF HandlerReturns, PublishPC
<1>10. ASSUME NEW p \in Proc, AskTimesOut(p) PROVE WriterInv' /\ BitMeansComplete'
  BY <1>10, QuietStep DEF AskTimesOut, shared
<1>11. ASSUME NEW p \in Proc, CrashAndRespawn(p) PROVE WriterInv' /\ BitMeansComplete'
  <2>1. loop'[p].pc = "free" /\ \A q \in Proc \ {p} : loop'[q] = loop[q]
    BY <1>11 DEF CrashAndRespawn, Free
  <2> QED
    BY <1>11, <2>1, QuietStep DEF CrashAndRespawn, PublishPC, shared
<1>12. ASSUME UNCHANGED vars PROVE WriterInv' /\ BitMeansComplete'
  BY <1>12 DEF vars, shared, private, WriterInv, WriterOK, BitMeansComplete
<1>13. ASSUME NEW p \in Proc, ClaimRow(p) PROVE WriterInv' /\ BitMeansComplete'
  <2> DEFINE row == [ch |-> loop[p].ch, owner |-> p, slot |-> cursor[p][loop[p].ch]]
  <2>1. \A q \in Proc \ {p} : loop'[q] = loop[q]
    BY <1>13 DEF ClaimRow
  <2>2. /\ loop'[p].row = row /\ loop'[p].readers = Stale(row)
        /\ loop'[p].pc = IF Stale(row) = {} THEN "invalidate" ELSE "lap"
    BY <1>13 DEF ClaimRow, LoopState
  <2>3. UNCHANGED <<memory, unread>>
    BY <1>13 DEF ClaimRow, shared
  <2>4. WriterOK(p)'
    BY <2>2, <2>3 DEF WriterOK, Stale
  <2>5. \A q \in Proc \ {p} : WriterOK(q)'
    BY <2>1, <2>3 DEF WriterInv, WriterOK
  <2> QED
    BY <2>3, <2>4, <2>5 DEF WriterInv, BitMeansComplete
<1>14. ASSUME NEW p \in Proc, CountMissed(p) PROVE WriterInv' /\ BitMeansComplete'
  <2> DEFINE r    == Least(loop[p].readers)
             rest == loop[p].readers \ {r}
             row  == loop[p].row
             pc   == IF rest = {} THEN "invalidate" ELSE "lap"
  <2>1. loop[p].row \in Row
    BY <1>14, AtRow DEF CountMissed
  <2>2. r \in Proc => Lowered(p, r, row) = unread[r] \ {row}
    BY <2>1, WrittenIsOneBit
  <2>3. /\ unread' = [unread EXCEPT ![r] = Lowered(p, r, row)]
        /\ loop' = [loop EXCEPT ![p].readers = rest, ![p].byte = {}, ![p].loaded = FALSE,
                                ![p].pc = pc]
        /\ UNCHANGED memory
    BY <1>14 DEF CountMissed, LoadByte
  <2>4. loop[p].pc = "lap"
    BY <1>14 DEF CountMissed
  <2> HIDE DEF r
  <2>5. \A q \in Proc : unread'[q] = IF q = r THEN unread[q] \ {row} ELSE unread[q]
    BY <2>2, <2>3
  <2>6. /\ loop'[p].row = row /\ loop'[p].readers = rest /\ loop'[p].pc = pc
        /\ \A q \in Proc \ {p} : loop'[q] = loop[q]
    <3> HIDE DEF rest, pc
    <3> QED
      BY <2>3 DEF LoopState
  <2>7. WriterOK(p)'
    <3>1. loop[p].row.owner = p /\ \A q \in Proc \ loop[p].readers : row \notin unread[q]
      BY <2>4 DEF WriterInv, WriterOK, PublishPC
    <3>2. \A q \in Proc \ rest : row \notin unread'[q]
      BY <2>5, <3>1
    <3> QED
      BY <2>6, <3>1, <3>2 DEF WriterOK
  <2>8. \A q \in Proc \ {p} : WriterOK(q)'
    <3>1. \A x \in Row : \A q \in Proc : x \in unread'[q] => x \in unread[q]
      BY <2>5
    <3> QED
      BY <2>3, <2>6, <3>1, OtherWriters
  <2>9. BitMeansComplete'
    BY <2>3, <2>5 DEF BitMeansComplete
  <2> QED
    BY <2>7, <2>8, <2>9 DEF WriterInv
<1>15. ASSUME NEW p \in Proc, Invalidate(p) PROVE WriterInv' /\ BitMeansComplete'
  <2> DEFINE row == loop[p].row
  <2>1. row \in Row /\ row.owner = p /\ \A r \in Proc : row \notin unread[r]
    BY <1>15, AtRow DEF Invalidate, WriterInv, WriterOK, PublishPC
  <2>2. \A x \in Row \ {row} : memory'[x] = memory[x]
    BY <1>15 DEF Invalidate
  <2>3. /\ loop'[p].row = row /\ loop'[p].pc = "number" /\ UNCHANGED unread
        /\ \A q \in Proc \ {p} : loop'[q] = loop[q]
    BY <1>15 DEF Invalidate, LoopState
  <2>4. WriterOK(p)'
    BY <2>1, <2>3 DEF WriterOK
  <2>5. \A q \in Proc \ {p} : WriterOK(q)'
    BY <2>1, <2>2, <2>3, OtherWriters
  <2>6. BitMeansComplete'
    BY <2>1, <2>2, <2>3 DEF BitMeansComplete
  <2> QED
    BY <2>4, <2>5, <2>6 DEF WriterInv
<1>16. ASSUME NEW p \in Proc, TakeNumber(p) PROVE WriterInv' /\ BitMeansComplete'
  <2> DEFINE row == loop[p].row
  <2>1. row \in Row /\ row.owner = p /\ \A r \in Proc : row \notin unread[r]
    BY <1>16, AtRow DEF TakeNumber, WriterInv, WriterOK, PublishPC
  <2>2. \A x \in Row \ {row} : memory'[x] = memory[x]
    BY <1>16 DEF TakeNumber
  <2>3. /\ loop'[p].row = row /\ loop'[p].pc = "body" /\ UNCHANGED unread
        /\ \A q \in Proc \ {p} : loop'[q] = loop[q]
    BY <1>16 DEF TakeNumber, LoopState
  <2>4. WriterOK(p)'
    BY <2>1, <2>3 DEF WriterOK
  <2>5. \A q \in Proc \ {p} : WriterOK(q)'
    BY <2>1, <2>2, <2>3, OtherWriters
  <2>6. BitMeansComplete'
    BY <2>1, <2>2, <2>3 DEF BitMeansComplete
  <2> QED
    BY <2>4, <2>5, <2>6 DEF WriterInv
<1>17. ASSUME NEW p \in Proc, WriteBody(p) PROVE WriterInv' /\ BitMeansComplete'
  <2> DEFINE row == loop[p].row
  <2>1. row \in Row /\ row.owner = p /\ \A r \in Proc : row \notin unread[r]
    BY <1>17, AtRow DEF WriteBody, WriterInv, WriterOK, PublishPC
  <2>2. \A x \in Row \ {row} : memory'[x] = memory[x]
    BY <1>17 DEF WriteBody
  <2>3. /\ loop'[p].row = row /\ loop'[p].pc = "complete" /\ UNCHANGED unread
        /\ \A q \in Proc \ {p} : loop'[q] = loop[q]
    BY <1>17 DEF WriteBody, LoopState
  <2>4. WriterOK(p)'
    BY <2>1, <2>3 DEF WriterOK
  <2>5. \A q \in Proc \ {p} : WriterOK(q)'
    BY <2>1, <2>2, <2>3, OtherWriters
  <2>6. BitMeansComplete'
    BY <2>1, <2>2, <2>3 DEF BitMeansComplete
  <2> QED
    BY <2>4, <2>5, <2>6 DEF WriterInv
<1>18. ASSUME NEW p \in Proc, Complete(p) PROVE WriterInv' /\ BitMeansComplete'
  <2> DEFINE row == loop[p].row
  <2>1. row \in Row /\ row.owner = p /\ memory[row] \in RowData
    BY <1>18, AtRow DEF Complete, WriterInv, WriterOK, PublishPC
  <2>2. memory'[row].complete /\ \A x \in Row \ {row} : memory'[x] = memory[x]
    BY <1>18, <2>1 DEF Complete, RowData
  <2>3. /\ loop'[p].row = row /\ loop'[p].pc \in {"mark", "ring"} /\ UNCHANGED unread
        /\ \A q \in Proc \ {p} : loop'[q] = loop[q]
    BY <1>18 DEF Complete, LoopState
  <2>4. WriterOK(p)'
    BY <2>1, <2>2, <2>3 DEF WriterOK
  <2>5. \A q \in Proc \ {p} : WriterOK(q)'
    BY <2>1, <2>2, <2>3, OtherWriters
  <2>6. BitMeansComplete'
    BY <2>1, <2>2, <2>3 DEF BitMeansComplete
  <2> QED
    BY <2>4, <2>5, <2>6 DEF WriterInv
<1>19. ASSUME NEW p \in Proc, MarkUnread(p) PROVE WriterInv' /\ BitMeansComplete'
  <2> DEFINE r    == Least(loop[p].readers)
             rest == loop[p].readers \ {r}
             row  == loop[p].row
             pc   == IF rest = {} THEN "ring" ELSE "mark"
  <2>1. row \in Row /\ row.owner = p /\ memory[row].complete
    BY <1>19, AtRow DEF MarkUnread, WriterInv, WriterOK, PublishPC
  <2>2. r \in Proc => Raised(p, r, row) = unread[r] \cup {row}
    BY <2>1, WrittenIsOneBit
  <2>3. /\ unread' = [unread EXCEPT ![r] = Raised(p, r, row)]
        /\ loop' = [loop EXCEPT ![p].readers = rest, ![p].byte = {}, ![p].loaded = FALSE,
                                ![p].pc = pc]
        /\ UNCHANGED memory
    BY <1>19 DEF MarkUnread, LoadByte
  <2> HIDE DEF r
  <2>4. \A q \in Proc : unread'[q] = IF q = r THEN unread[q] \cup {row} ELSE unread[q]
    BY <2>2, <2>3
  <2>5. /\ loop'[p].row = row /\ loop'[p].pc \in {"mark", "ring"}
        /\ \A q \in Proc \ {p} : loop'[q] = loop[q]
    BY <2>3 DEF LoopState
  <2>6. WriterOK(p)'
    BY <2>1, <2>3, <2>5 DEF WriterOK
  <2>7. \A q \in Proc \ {p} : WriterOK(q)'
    <3>1. \A x \in Row : x.owner # p => \A q \in Proc : x \in unread'[q] => x \in unread[q]
      BY <2>1, <2>4
    <3> QED
      BY <2>3, <2>5, <3>1, OtherWriters
  <2>8. BitMeansComplete'
    <3> SUFFICES ASSUME NEW q \in Proc, NEW x \in unread'[q] PROVE memory[x].complete
      BY <2>3 DEF BitMeansComplete
    <3> QED
      BY <2>1, <2>4 DEF BitMeansComplete
  <2> QED
    BY <2>6, <2>7, <2>8 DEF WriterInv
<1> QED
  BY <1>1, <1>2, <1>3, <1>4, <1>5, <1>6, <1>7, <1>8, <1>9, <1>10, <1>11, <1>12, <1>13, <1>14,
     <1>15, <1>16, <1>17, <1>18, <1>19 DEF Next, LoopStep, PumpStep

\* Only complete rows are marked unread, for every number of processes and rows
\* and a crash anywhere, as long as updates do not collide: the order of
\* _publish (key down, fields, key up, bits, bell) does what its comment claims.
THEOREM LinkBits == ~RacyUpdates => (Spec => []BitMeansComplete)
<1> SUFFICES ASSUME ~RacyUpdates PROVE Spec => []BitMeansComplete
  OBVIOUS
<1>1. Init => BitInv
  BY InitTypeInv, InitBitInv DEF BitInv
<1>2. BitInv /\ [Next]_vars => BitInv'
  BY NextTypeInv, NextBitInv DEF BitInv
<1>3. BitInv => BitMeansComplete
  BY DEF BitInv
<1> QED
  BY <1>1, <1>2, <1>3, PTL DEF Spec
-----------------------------------------------------------------------------
(* No pump sleeps on its mail                                              *)

ReadingPC == {"head", "rest", "lower"}

\* Code with a loaded byte is about to store it, code that writes a row owns it,
\* and it marks only a complete row.
Tidy(p) ==
  /\ loop[p].loaded => loop[p].pc \in {"lap", "number", "mark", "lower"}
  /\ loop[p].pc \in PublishPC \ {"claim"} => loop[p].row.owner = p
  /\ loop[p].pc = "mark" => memory[loop[p].row].complete

\* The bits of a reader, those in a loaded byte too, are rows of other writers.
Foreign(p) ==
  /\ \A x \in unread[p] : x.owner # p
  /\ loop[p].pc \in {"lap", "mark"} =>
       /\ loop[p].readers # {} /\ p \notin loop[p].readers
       /\ loop[p].loaded => \A x \in loop[p].byte : x.owner # Least(loop[p].readers)
  /\ loop[p].pc = "lower" /\ loop[p].loaded => \A x \in loop[p].byte : x.owner # p

\* A row that a band or a loaded byte tells of is complete, or its writer is at
\* work on it.
Seen(x) == \E r \in Proc : x \in unread[r] \/ x \in loop[r].byte
Midway(x) == loop[x.owner].pc \in {"number", "body", "complete"} /\ loop[x.owner].row = x
RowsTold == \A x \in Row : Seen(x) => memory[x].complete \/ Midway(x)

MarksInv == RowsTold /\ \A p \in Proc : Tidy(p) /\ Foreign(p)

OtherLoopsStay(p) == \A q \in Proc \ {p} : loop'[q] = loop[q]

\* The readers that are still to be told are finitely many numbers: there is a
\* least one.
LEMMA LeastIsLeast ==
  ASSUME NEW S \in SUBSET Proc, S # {}
  PROVE  Least(S) \in S /\ \A y \in S : Least(S) <= y
<1> DEFINE R == OpToRel(<, Nat)
<1>1. S \subseteq Nat
  BY LinkAssumption DEF Proc
<1>2. IsWellFoundedOn(R, Nat)
  BY NatLessThanWellFounded
<1>3. \A x, y \in Nat : y < x => <<y, x>> \in R
  BY DEF OpToRel
<1> HIDE DEF R
<1>4. PICK x \in S : \A y \in S : ~(<<y, x>> \in R)
  BY <1>1, <1>2, WFMin
<1>5. ASSUME NEW y \in S PROVE x <= y
  <2>1. ~(y < x)
    BY <1>1, <1>3, <1>4
  <2> QED
    BY <1>1, <2>1
<1> QED
  BY <1>5 DEF Least

\* What a store of a byte may leave in a band: bits that are there and bits of
\* the byte that was loaded.
LEMMA StoredByte ==
  ASSUME NEW p \in Proc, NEW r \in Proc, NEW row \in Row, ReadyToStore(p)
  PROVE  /\ \A x \in Lowered(p, r, row) :
              x # row /\ (x \in unread[r] \/ (loop[p].loaded /\ x \in loop[p].byte))
         /\ \A x \in Raised(p, r, row) :
              x = row \/ x \in unread[r] \/ (loop[p].loaded /\ x \in loop[p].byte)
BY DEF Lowered, Raised, Loaded, ReadyToStore, ByteOf

\* A step of p that touches only its own rows, and sets no bit of a writer's own
\* rows, leaves the others as tidy as they were.
LEMMA OthersTidy ==
  ASSUME MarksInv, Located, NEW p \in Proc, OtherLoopsStay(p),
         \A x \in Row : x.owner # p => memory'[x].complete = memory[x].complete,
         \A q \in Proc \ {p} : \A x \in unread'[q] : x \in unread[q] \/ x.owner # q
  PROVE  \A q \in Proc \ {p} : Tidy(q)' /\ Foreign(q)'
<1> SUFFICES ASSUME NEW q \in Proc \ {p} PROVE Tidy(q)' /\ Foreign(q)'
  OBVIOUS
<1>1. Tidy(q) /\ Foreign(q) /\ loop'[q] = loop[q]
  BY DEF MarksInv, OtherLoopsStay
<1>2. loop[q].pc = "mark" => loop[q].row \in Row /\ loop[q].row.owner = q
  BY <1>1 DEF Tidy, Located, Placed, PublishPC
<1>3. Tidy(q)'
  BY <1>1, <1>2 DEF Tidy
<1>4. Foreign(q)'
  BY <1>1 DEF Foreign
<1> QED
  BY <1>3, <1>4

\* Such a step keeps what the bands tell when it shows no row that is not
\* complete and gives up no row of its own half-way.
LEMMA StillTold ==
  ASSUME MarksInv, NEW p \in Proc, OtherLoopsStay(p),
         \A x \in Row : x.owner # p => memory'[x].complete = memory[x].complete,
         \A x \in Row : x.owner = p /\ (memory[x].complete \/ Midway(x))
                          => memory'[x].complete \/ Midway(x)',
         \A x \in Row : Seen(x)' => Seen(x) \/ memory'[x].complete
  PROVE  RowsTold'
<1> SUFFICES ASSUME NEW x \in Row, Seen(x)', ~memory'[x].complete PROVE Midway(x)'
  BY DEF RowsTold
<1>1. memory[x].complete \/ Midway(x)
  BY DEF MarksInv, RowsTold
<1>2. CASE x.owner = p
  BY <1>1, <1>2
<1>3. CASE x.owner # p
  <2>1. x.owner \in Proc
    BY DEF Row
  <2> QED
    BY <1>1, <1>3, <2>1 DEF Midway, OtherLoopsStay
<1> QED
  BY <1>2, <1>3

\* A step that leaves the rows alone, sets no bit and leaves p with nothing
\* loaded where it neither laps, writes nor marks.
LEMMA CalmMarks ==
  ASSUME TypeInv, MarksInv, NEW p \in Proc, OtherLoopsStay(p),
         \A x \in Row : memory'[x].complete = memory[x].complete, UNCHANGED unread,
         loop[p].pc \notin {"number", "body", "complete"},
         loop'[p].pc \notin PublishPC \ {"claim"}, ~loop'[p].loaded,
         loop'[p].byte \subseteq loop[p].byte
  PROVE  MarksInv'
<1>1. \A q \in Proc \ {p} : Tidy(q)' /\ Foreign(q)'
  BY OthersTidy DEF TypeInv
<1>2. Tidy(p)' /\ Foreign(p)'
  BY DEF MarksInv, Tidy, Foreign, PublishPC
<1>3. \A x \in Row : x.owner = p => ~Midway(x)
  BY DEF Midway
<1>4. \A x \in Row : Seen(x)' => Seen(x)
  BY DEF Seen, OtherLoopsStay
<1>5. RowsTold'
  BY <1>3, <1>4, StillTold
<1> QED
  BY <1>1, <1>2, <1>5 DEF MarksInv

\* A step that touches neither bands nor loops, and no row's key.
LEMMA SameMarks ==
  ASSUME TypeInv, MarksInv, UNCHANGED <<loop, unread>>,
         \A x \in Row : memory'[x].complete = memory[x].complete
  PROVE  MarksInv'
<1>1. RowsTold'
  BY DEF MarksInv, RowsTold, Seen, Midway
<1>2. ASSUME NEW p \in Proc PROVE Tidy(p)' /\ Foreign(p)'
  <2>1. Tidy(p) /\ Foreign(p)
    BY DEF MarksInv
  <2>2. loop[p].pc = "mark" => loop[p].row \in Row
    BY DEF TypeInv, Located, Placed
  <2>3. Tidy(p)'
    BY <2>1, <2>2 DEF Tidy
  <2> QED
    BY <2>1, <2>3 DEF Foreign
<1> QED
  BY <1>1, <1>2 DEF MarksInv


\* What an update of p's entry leaves of the loops.
LEMMA LoopIs ==
  ASSUME TypeInv, NEW p \in Proc, NEW s, loop' = [loop EXCEPT ![p] = s]
  PROVE  loop'[p] = s /\ OtherLoopsStay(p)
BY DEF TypeInv, TypeOK, OtherLoopsStay

\* Nothing is marked at the start.
LEMMA InitMarks == Init => MarksInv
BY DEF Init, MarksInv, RowsTold, Seen, Tidy, Foreign, Free, PublishPC

\* Claiming a row touches no band, and the readers that have the old row in
\* theirs are not its writer.
LEMMA ClaimRowMarks ==
  ASSUME TypeInv, MarksInv, NEW p \in Proc, ClaimRow(p)
  PROVE  MarksInv'
<1> DEFINE row   == [ch |-> loop[p].ch, owner |-> p, slot |-> cursor[p][loop[p].ch]]
           stale == Stale(row)
           pc    == IF stale = {} THEN "invalidate" ELSE "lap"
           s     == [loop[p] EXCEPT !.row = row, !.readers = stale, !.pc = pc]
<1>1. /\ loop[p] \in LoopState /\ loop[p].pc = "claim" /\ loop[p].ch \in Channel
      /\ ~loop[p].loaded
  BY AtRow DEF ClaimRow, MarksInv, Tidy
<1>2. loop' = [loop EXCEPT ![p] = s]
  BY DEF ClaimRow, TypeInv, TypeOK
<1>3. stale \in SUBSET Proc /\ p \notin stale
  BY DEF Stale, MarksInv, Foreign
<1>4. row.owner = p
  OBVIOUS
<1> HIDE DEF row, stale, pc
<1>5. /\ s.pc = pc /\ s.readers = stale /\ s.row = row /\ s.loaded = loop[p].loaded
      /\ s.byte = loop[p].byte
  BY <1>1 DEF LoopState
<1> HIDE DEF s
<1>6. loop'[p] = s /\ OtherLoopsStay(p)
  BY <1>2, LoopIs
<1>7. UNCHANGED <<memory, unread>>
  BY DEF ClaimRow, shared
<1>8. Tidy(p)' /\ Foreign(p)'
  <2>1. pc \in {"invalidate", "lap"} /\ (pc = "lap" => stale # {})
    BY DEF pc
  <2>2. Tidy(p)'
    BY <1>1, <1>4, <1>5, <1>6, <2>1 DEF Tidy
  <2>3. \A x \in unread'[p] : x.owner # p
    BY <1>7 DEF MarksInv, Foreign
  <2> QED
    BY <1>1, <1>3, <1>5, <1>6, <2>1, <2>2, <2>3 DEF Foreign
<1>9. \A q \in Proc \ {p} : Tidy(q)' /\ Foreign(q)'
  BY <1>6, <1>7, OthersTidy DEF TypeInv
<1>10. RowsTold'
  <2>1. \A x \in Row : x.owner = p => ~Midway(x)
    BY <1>1 DEF Midway
  <2>2. \A x \in Row : Seen(x)' => Seen(x)
    BY <1>5, <1>6, <1>7 DEF Seen, OtherLoopsStay
  <2> QED
    BY <1>6, <1>7, <2>1, <2>2, StillTold
<1> QED
  BY <1>8, <1>9, <1>10 DEF MarksInv

\* Lapping a reader lowers the bit of the row in its band, and may bring back
\* bits of a byte that was loaded before: rows that are told of already.
LEMMA CountMissedMarks ==
  ASSUME TypeInv, MarksInv, NEW p \in Proc, CountMissed(p)
  PROVE  MarksInv'
<1> DEFINE r    == Least(loop[p].readers)
           rest == loop[p].readers \ {r}
           row  == loop[p].row
           byte == unread[r] \cap ByteOf(row)
           pc   == IF rest = {} THEN "invalidate" ELSE "lap"
           load == [loop[p] EXCEPT !.loaded = TRUE, !.byte = byte]
           done == [loop[p] EXCEPT !.readers = rest, !.byte = {}, !.loaded = FALSE, !.pc = pc]
<1>1. /\ loop[p] \in LoopState /\ loop[p].pc = "lap" /\ row \in Row /\ row.owner = p
      /\ loop[p].readers # {} /\ loop[p].readers \subseteq Proc /\ p \notin loop[p].readers
      /\ loop[p].loaded => \A x \in loop[p].byte : x.owner # r
      /\ unread \in [Proc -> SUBSET Row]
  BY AtRow DEF CountMissed, MarksInv, Tidy, Foreign, PublishPC, LoopState, TypeInv, TypeOK
<1>2. r \in Proc /\ r # p
  BY <1>1, LeastIsLeast
<1>3. UNCHANGED memory /\ \A x \in Row : x.owner = p => ~Midway(x)
  BY <1>1 DEF CountMissed, Midway
<1>4. CASE loop' = [loop EXCEPT ![p] = load] /\ UNCHANGED unread
  <2>1. \A x \in byte : x.owner # r /\ x \in unread[r]
    BY <1>2 DEF MarksInv, Foreign
  <2> HIDE DEF byte
  <2>2. /\ load.pc = "lap" /\ load.row = row /\ load.readers = loop[p].readers
        /\ load.byte = byte /\ load.loaded
    BY <1>1 DEF LoopState
  <2> HIDE DEF load
  <2>3. loop'[p] = load /\ OtherLoopsStay(p)
    BY <1>4, LoopIs
  <2>4. Tidy(p)' /\ Foreign(p)'
    <3>1. \A x \in unread'[p] : x.owner # p
      BY <1>4 DEF MarksInv, Foreign
    <3> QED
      BY <1>1, <2>1, <2>2, <2>3, <3>1 DEF Tidy, Foreign
  <2>5. \A q \in Proc \ {p} : Tidy(q)' /\ Foreign(q)'
    BY <1>3, <1>4, <2>3, OthersTidy DEF TypeInv
  <2>6. \A x \in Row : Seen(x)' => Seen(x)
    BY <1>2, <1>4, <2>1, <2>2, <2>3 DEF Seen, OtherLoopsStay
  <2> QED
    BY <1>3, <2>3, <2>4, <2>5, <2>6, StillTold DEF MarksInv
<1>5. CASE /\ ReadyToStore(p) /\ unread' = [unread EXCEPT ![r] = Lowered(p, r, row)]
           /\ loop' = [loop EXCEPT ![p] = done]
  <2>1. \A x \in Lowered(p, r, row) : x \in unread[r] \/ (loop[p].loaded /\ x \in loop[p].byte)
    BY <1>1, <1>2, <1>5, StoredByte
  <2> DEFINE band == Lowered(p, r, row)
  <2> HIDE DEF band, rest, pc
  <2>2. /\ done.pc = pc /\ done.row = row /\ done.readers = rest
        /\ done.byte = {} /\ ~done.loaded
    BY <1>1 DEF LoopState
  <2> HIDE DEF done
  <2>3. loop'[p] = done /\ OtherLoopsStay(p)
    BY <1>5, LoopIs
  <2>4. unread'[r] = band /\ \A q \in Proc \ {r} : unread'[q] = unread[q]
    BY <1>1, <1>2, <1>5 DEF band
  <2>5. Tidy(p)' /\ Foreign(p)'
    <3>1. \A x \in unread'[p] : x.owner # p
      BY <1>2, <2>4 DEF MarksInv, Foreign
    <3>2. pc \in {"invalidate", "lap"} /\ (pc = "lap" => rest # {}) /\ p \notin rest
      BY <1>1 DEF pc, rest
    <3> QED
      BY <1>1, <2>2, <2>3, <3>1, <3>2 DEF Tidy, Foreign
  <2>6. \A x \in band : x \in unread[r] \/ x.owner # r
    BY <1>1, <2>1 DEF band
  <2>7. \A q \in Proc \ {p} : Tidy(q)' /\ Foreign(q)'
    BY <1>3, <2>3, <2>4, <2>6, OthersTidy DEF TypeInv
  <2>8. \A x \in Row : Seen(x)' => Seen(x)
    BY <1>2, <2>1, <2>2, <2>3, <2>4 DEF Seen, OtherLoopsStay, band
  <2> QED
    BY <1>3, <2>3, <2>5, <2>7, <2>8, StillTold DEF MarksInv
<1> QED
  BY <1>4, <1>5, <1>1 DEF CountMissed, LoadByte, TypeInv, TypeOK

\* A step that writes p's own row and goes on with it, loading no byte.
LEMMA OwnRowMarks ==
  ASSUME TypeInv, MarksInv, NEW p \in Proc, OtherLoopsStay(p), UNCHANGED unread,
         loop[p].row.owner = p,
         loop'[p].row = loop[p].row, loop'[p].byte = loop[p].byte,
         loop'[p].pc \in {"number", "body", "complete", "mark", "ring"},
         loop'[p].loaded => loop'[p].pc = "number",
         \A x \in Row \ {loop[p].row} : memory'[x].complete = memory[x].complete,
         loop'[p].pc \in {"mark", "ring"} =>
           loop'[p].readers = Others(p) /\ memory'[loop[p].row].complete
             /\ (loop'[p].pc = "mark" => Others(p) # {}),
         loop[p].pc \in {"number", "body", "complete"} \/ loop'[p].pc = "number"
  PROVE  MarksInv'
<1>1. \A q \in Proc \ {p} : Tidy(q)' /\ Foreign(q)'
  BY OthersTidy DEF TypeInv
<1>2. Tidy(p)' /\ Foreign(p)'
  BY DEF MarksInv, Tidy, Foreign, Others
<1>3. \A x \in Row : Seen(x)' => Seen(x)
  BY DEF Seen, OtherLoopsStay
<1>4. ASSUME NEW x \in Row, x.owner = p, memory[x].complete \/ Midway(x)
      PROVE  memory'[x].complete \/ Midway(x)'
  <2>1. CASE x = loop[p].row
    BY <1>4, <2>1 DEF Midway
  <2>2. CASE x # loop[p].row
    BY <1>4, <2>2 DEF Midway
  <2> QED
    BY <2>1, <2>2
<1>5. RowsTold'
  BY <1>3, <1>4, StillTold
<1> QED
  BY <1>1, <1>2, <1>5 DEF MarksInv

\* The steps that write the row keep it complete or half-way.
LEMMA InvalidateMarks ==
  ASSUME TypeInv, MarksInv, NEW p \in Proc, Invalidate(p)
  PROVE  MarksInv'
<1> DEFINE s == [loop[p] EXCEPT !.pc = "number"]
<1>1. /\ loop[p] \in LoopState /\ loop[p].row \in Row /\ loop[p].row.owner = p
      /\ ~loop[p].loaded
  BY AtRow DEF Invalidate, MarksInv, Tidy, PublishPC
<1>2. loop' = [loop EXCEPT ![p] = s]
  BY DEF Invalidate, TypeInv, TypeOK
<1>3. /\ s.pc = "number" /\ s.row = loop[p].row /\ s.byte = loop[p].byte
      /\ s.loaded = loop[p].loaded
  BY <1>1 DEF LoopState
<1> HIDE DEF s
<1>4. loop'[p] = s /\ OtherLoopsStay(p)
  BY <1>2, LoopIs
<1>5. UNCHANGED unread /\ \A x \in Row \ {loop[p].row} : memory'[x] = memory[x]
  BY DEF Invalidate, TypeInv, TypeOK
<1> QED
  BY <1>1, <1>3, <1>4, <1>5, OwnRowMarks

\* The number and the head are written half-way,
LEMMA TakeNumberMarks ==
  ASSUME TypeInv, MarksInv, NEW p \in Proc, TakeNumber(p)
  PROVE  MarksInv'
<1> DEFINE next == counter[loop[p].ch] + 1
           n    == IF RacyUpdates THEN loop[p].seq ELSE next
           load == [loop[p] EXCEPT !.loaded = TRUE, !.seq = next]
           done == [loop[p] EXCEPT !.pc = "body", !.seq = n, !.loaded = FALSE]
<1>1. /\ loop[p] \in LoopState /\ loop[p].row \in Row /\ loop[p].row.owner = p
      /\ loop[p].pc = "number"
  BY AtRow DEF TakeNumber, MarksInv, Tidy, PublishPC
<1>2. UNCHANGED unread /\ \A x \in Row \ {loop[p].row} : memory'[x] = memory[x]
  BY DEF TakeNumber, TypeInv, TypeOK
<1>3. loop' = [loop EXCEPT ![p] = load] \/ loop' = [loop EXCEPT ![p] = done]
  BY DEF TakeNumber, TypeInv, TypeOK
<1> HIDE DEF next, n
<1>4. CASE loop' = [loop EXCEPT ![p] = load]
  <2>1. load.pc = "number" /\ load.row = loop[p].row /\ load.byte = loop[p].byte
    BY <1>1 DEF LoopState
  <2> HIDE DEF load
  <2>2. loop'[p] = load /\ OtherLoopsStay(p)
    BY <1>4, LoopIs
  <2> QED
    BY <1>1, <1>2, <2>1, <2>2, OwnRowMarks
<1>5. CASE loop' = [loop EXCEPT ![p] = done]
  <2>1. done.pc = "body" /\ done.row = loop[p].row /\ done.byte = loop[p].byte /\ ~done.loaded
    BY <1>1 DEF LoopState
  <2> HIDE DEF done
  <2>2. loop'[p] = done /\ OtherLoopsStay(p)
    BY <1>5, LoopIs
  <2> QED
    BY <1>1, <1>2, <2>1, <2>2, OwnRowMarks
<1> QED
  BY <1>3, <1>4, <1>5

\* so is the payload,
LEMMA WriteBodyMarks ==
  ASSUME TypeInv, MarksInv, NEW p \in Proc, WriteBody(p)
  PROVE  MarksInv'
<1> DEFINE s == [loop[p] EXCEPT !.pc = "complete"]
<1>1. /\ loop[p] \in LoopState /\ loop[p].row \in Row /\ loop[p].row.owner = p
      /\ ~loop[p].loaded /\ loop[p].pc = "body"
  BY AtRow DEF WriteBody, MarksInv, Tidy, PublishPC
<1>2. loop' = [loop EXCEPT ![p] = s]
  BY DEF WriteBody, TypeInv, TypeOK
<1>3. /\ s.pc = "complete" /\ s.row = loop[p].row /\ s.byte = loop[p].byte
      /\ s.loaded = loop[p].loaded
  BY <1>1 DEF LoopState
<1> HIDE DEF s
<1>4. loop'[p] = s /\ OtherLoopsStay(p)
  BY <1>2, LoopIs
<1>5. UNCHANGED unread /\ \A x \in Row \ {loop[p].row} : memory'[x] = memory[x]
  BY DEF WriteBody, TypeInv, TypeOK
<1> QED
  BY <1>1, <1>3, <1>4, <1>5, OwnRowMarks

\* and the row is complete before the first reader is told.
LEMMA CompleteMarks ==
  ASSUME TypeInv, MarksInv, NEW p \in Proc, Complete(p)
  PROVE  MarksInv'
<1> DEFINE pc == IF Others(p) = {} THEN "ring" ELSE "mark"
           s  == [loop[p] EXCEPT !.readers = Others(p), !.pc = pc]
<1>1. /\ loop[p] \in LoopState /\ loop[p].row \in Row /\ loop[p].row.owner = p
      /\ ~loop[p].loaded /\ loop[p].pc = "complete" /\ memory[loop[p].row] \in RowData
  BY AtRow DEF Complete, MarksInv, Tidy, PublishPC
<1>2. loop' = [loop EXCEPT ![p] = s]
  BY DEF Complete, TypeInv, TypeOK
<1>3. pc \in {"ring", "mark"} /\ (pc = "mark" => Others(p) # {})
  OBVIOUS
<1> HIDE DEF pc
<1>4. /\ s.pc = pc /\ s.row = loop[p].row /\ s.byte = loop[p].byte
      /\ s.loaded = loop[p].loaded /\ s.readers = Others(p)
  BY <1>1 DEF LoopState
<1> HIDE DEF s
<1>5. loop'[p] = s /\ OtherLoopsStay(p)
  BY <1>2, LoopIs
<1>6. /\ UNCHANGED unread /\ memory'[loop[p].row].complete
      /\ \A x \in Row \ {loop[p].row} : memory'[x] = memory[x]
  BY <1>1 DEF Complete, TypeInv, TypeOK, RowData
<1> QED
  BY <1>1, <1>3, <1>4, <1>5, <1>6, OwnRowMarks

\* Marking shows a reader a complete row, and may bring back others, all rows of
\* other writers than the reader.
LEMMA MarkUnreadTidy ==
  ASSUME TypeInv, MarksInv, NEW p \in Proc, MarkUnread(p)
  PROVE  MarksInv'
<1> DEFINE r    == Least(loop[p].readers)
           rest == loop[p].readers \ {r}
           row  == loop[p].row
           byte == unread[r] \cap ByteOf(row)
           pc   == IF rest = {} THEN "ring" ELSE "mark"
           load == [loop[p] EXCEPT !.loaded = TRUE, !.byte = byte]
           done == [loop[p] EXCEPT !.readers = rest, !.byte = {}, !.loaded = FALSE, !.pc = pc]
<1>1. /\ loop[p] \in LoopState /\ loop[p].pc = "mark" /\ row \in Row /\ row.owner = p
      /\ loop[p].readers # {} /\ loop[p].readers \subseteq Proc /\ p \notin loop[p].readers
      /\ loop[p].loaded => \A x \in loop[p].byte : x.owner # r
      /\ unread \in [Proc -> SUBSET Row] /\ memory[row].complete
  BY AtRow DEF MarkUnread, MarksInv, Tidy, Foreign, PublishPC, LoopState, TypeInv, TypeOK
<1>2. r \in Proc /\ r # p
  BY <1>1, LeastIsLeast
<1>3. UNCHANGED memory /\ \A x \in Row : x.owner = p => ~Midway(x)
  BY <1>1 DEF MarkUnread, Midway
<1>4. CASE loop' = [loop EXCEPT ![p] = load] /\ UNCHANGED unread
  <2>1. \A x \in byte : x.owner # r /\ x \in unread[r]
    BY <1>2 DEF MarksInv, Foreign
  <2> HIDE DEF byte
  <2>2. /\ load.pc = "mark" /\ load.row = row /\ load.readers = loop[p].readers
        /\ load.byte = byte /\ load.loaded
    BY <1>1 DEF LoopState
  <2> HIDE DEF load
  <2>3. loop'[p] = load /\ OtherLoopsStay(p)
    BY <1>4, LoopIs
  <2>4. Tidy(p)' /\ Foreign(p)'
    <3>1. \A x \in unread'[p] : x.owner # p
      BY <1>4 DEF MarksInv, Foreign
    <3> QED
      BY <1>1, <1>3, <2>1, <2>2, <2>3, <3>1 DEF Tidy, Foreign
  <2>5. \A q \in Proc \ {p} : Tidy(q)' /\ Foreign(q)'
    BY <1>3, <1>4, <2>3, OthersTidy DEF TypeInv
  <2>6. \A x \in Row : Seen(x)' => Seen(x)
    BY <1>2, <1>4, <2>1, <2>2, <2>3 DEF Seen, OtherLoopsStay
  <2> QED
    BY <1>3, <2>3, <2>4, <2>5, <2>6, StillTold DEF MarksInv
<1>5. CASE /\ ReadyToStore(p) /\ unread' = [unread EXCEPT ![r] = Raised(p, r, row)]
           /\ loop' = [loop EXCEPT ![p] = done]
  <2> DEFINE band == Raised(p, r, row)
  <2>1. \A x \in band : x = row \/ x \in unread[r] \/ (loop[p].loaded /\ x \in loop[p].byte)
    BY <1>1, <1>2, <1>5, StoredByte
  <2> HIDE DEF band, rest, pc
  <2>2. /\ done.pc = pc /\ done.row = row /\ done.readers = rest
        /\ done.byte = {} /\ ~done.loaded
    BY <1>1 DEF LoopState
  <2> HIDE DEF done
  <2>3. loop'[p] = done /\ OtherLoopsStay(p)
    BY <1>5, LoopIs
  <2>4. unread'[r] = band /\ \A q \in Proc \ {r} : unread'[q] = unread[q]
    BY <1>1, <1>2, <1>5 DEF band
  <2>5. Tidy(p)' /\ Foreign(p)'
    <3>1. \A x \in unread'[p] : x.owner # p
      BY <1>2, <2>4 DEF MarksInv, Foreign
    <3>2. pc \in {"ring", "mark"} /\ (pc = "mark" => rest # {}) /\ p \notin rest
      BY <1>1 DEF pc, rest
    <3> QED
      BY <1>1, <1>3, <2>2, <2>3, <3>1, <3>2 DEF Tidy, Foreign
  <2>6. \A x \in band : x \in unread[r] \/ x.owner # r
    BY <1>1, <1>2, <2>1
  <2>7. \A q \in Proc \ {p} : Tidy(q)' /\ Foreign(q)'
    BY <1>3, <2>3, <2>4, <2>6, OthersTidy DEF TypeInv
  <2>8. \A x \in Row : Seen(x)' => Seen(x) \/ memory'[x].complete
    BY <1>1, <1>2, <1>3, <2>1, <2>2, <2>3, <2>4 DEF Seen, OtherLoopsStay
  <2> QED
    BY <1>3, <2>3, <2>5, <2>7, <2>8, StillTold DEF MarksInv
<1> QED
  BY <1>4, <1>5, <1>1 DEF MarkUnread, LoadByte, TypeInv, TypeOK

\* What the last step of _consume does to the reader's band and loop: it loads
\* the byte, or stores it without the row and goes on or leaves the loop free.
LEMMA LowerBitSteps ==
  ASSUME TypeInv, MarksInv, NEW p \in Proc, LowerBit(p)
  PROVE  /\ loop[p] \in LoopState /\ loop[p].pc = "lower" /\ loop[p].row \in Row
         /\ OtherLoopsStay(p) /\ \A q \in Proc \ {p} : unread'[q] = unread[q]
         /\ UNCHANGED <<memory, bell, crashes>>
         /\ \/ /\ UNCHANGED <<unread, pump>> /\ loop'[p].pc = "lower" /\ loop'[p].loaded
               /\ loop'[p].row = loop[p].row /\ loop'[p].reply = loop[p].reply
               /\ loop'[p].byte \subseteq unread[p]
            \/ /\ ReadyToStore(p) /\ unread'[p] = Lowered(p, p, loop[p].row)
               /\ loop'[p].pc \in {"next", "free"} /\ ~loop'[p].loaded /\ loop'[p].byte = {}
<1> DEFINE row  == loop[p].row
           byte == unread[p] \cap ByteOf(row)
           load == [loop[p] EXCEPT !.loaded = TRUE, !.byte = byte]
           goOn == [Free EXCEPT !.pc = "next", !.ch = loop[p].ch]
<1>1. /\ loop[p] \in LoopState /\ loop[p].pc = "lower" /\ row \in Row
      /\ unread \in [Proc -> SUBSET Row]
  BY AtRow DEF LowerBit, TypeInv, TypeOK
<1>2. UNCHANGED <<memory, bell, crashes>>
  BY DEF LowerBit
<1>3. CASE loop' = [loop EXCEPT ![p] = load] /\ UNCHANGED <<unread, pump>>
  <2>1. byte \subseteq unread[p]
    OBVIOUS
  <2> HIDE DEF byte
  <2>2. /\ load.pc = "lower" /\ load.row = row /\ load.byte = byte /\ load.loaded
        /\ load.reply = loop[p].reply
    BY <1>1 DEF LoopState
  <2> HIDE DEF load
  <2>3. loop'[p] = load /\ OtherLoopsStay(p)
    BY <1>3, LoopIs
  <2> QED
    BY <1>1, <1>2, <1>3, <2>1, <2>2, <2>3
<1>4. CASE /\ ReadyToStore(p) /\ unread' = [unread EXCEPT ![p] = Lowered(p, p, row)]
           /\ loop' = [loop EXCEPT ![p] = goOn] \/ loop' = [loop EXCEPT ![p] = Free]
  <2>1. /\ goOn.pc = "next" /\ ~goOn.loaded /\ goOn.byte = {}
        /\ Free.pc = "free" /\ ~Free.loaded /\ Free.byte = {}
    BY DEF Free
  <2> HIDE DEF goOn
  <2>2. /\ loop'[p] \in {goOn, Free} /\ OtherLoopsStay(p)
    BY <1>4, LoopIs
  <2>3. unread'[p] = Lowered(p, p, row) /\ \A q \in Proc \ {p} : unread'[q] = unread[q]
    BY <1>1, <1>4
  <2> QED
    BY <1>1, <1>2, <1>4, <2>1, <2>2, <2>3
<1> QED
  BY <1>1, <1>3, <1>4 DEF LowerBit, LoadByte, TypeInv, TypeOK

\* So does the reader when it lowers a bit.
LEMMA LowerBitMarks ==
  ASSUME TypeInv, MarksInv, NEW p \in Proc, LowerBit(p)
  PROVE  MarksInv'
<1>1. /\ loop[p].pc = "lower" /\ OtherLoopsStay(p) /\ loop[p].row \in Row
      /\ \A q \in Proc \ {p} : unread'[q] = unread[q]
      /\ UNCHANGED memory /\ loop'[p].pc \in {"lower", "next", "free"}
      /\ loop'[p].loaded => loop'[p].pc = "lower"
  BY LowerBitSteps
<1>2. /\ \A x \in unread'[p] : x \in unread[p] \/ (loop[p].loaded /\ x \in loop[p].byte)
      /\ loop'[p].byte \subseteq unread[p]
  <2>1. CASE UNCHANGED unread /\ loop'[p].byte \subseteq unread[p]
    BY <2>1
  <2>2. CASE ReadyToStore(p) /\ unread'[p] = Lowered(p, p, loop[p].row) /\ loop'[p].byte = {}
    BY <1>1, <2>2, StoredByte
  <2> QED
    BY <2>1, <2>2, LowerBitSteps
<1>3. \A q \in Proc \ {p} : Tidy(q)' /\ Foreign(q)'
  BY <1>1, OthersTidy DEF TypeInv
<1>4. Tidy(p)' /\ Foreign(p)'
  BY <1>1, <1>2 DEF MarksInv, Tidy, Foreign, PublishPC
<1>5. \A x \in Row : Seen(x)' => Seen(x)
  BY <1>1, <1>2 DEF Seen, OtherLoopsStay
<1>6. \A x \in Row : x.owner = p => ~Midway(x)
  BY <1>1 DEF Midway
<1> QED
  BY <1>1, <1>3, <1>4, <1>5, <1>6, StillTold DEF MarksInv

\* Every step but a crash keeps what the bands tell, also when updates collide.
LEMMA NextMarks ==
  ASSUME TypeInv, MarksInv, [Next]_vars, MaxCrashes = 0
  PROVE  MarksInv'
<1>0. Free.pc = "free" /\ ~Free.loaded /\ Free.byte = {}
  BY DEF Free
<1>1. ASSUME NEW p \in Proc, NEW c \in Channel, NEW how \in Posts, Post(p, c, how)
      PROVE  MarksInv'
  <2>1. loop[p].pc = "free" /\ UNCHANGED <<memory, unread>>
    BY <1>1 DEF Post, shared
  <2>2. PICK m : loop' = [loop EXCEPT ![p] = Publishing(p, c, m, FALSE)]
    BY <1>1 DEF Post
  <2>3. LET s == Publishing(p, c, m, FALSE) IN s.pc = "claim" /\ ~s.loaded /\ s.byte = {}
    BY DEF Publishing, Free
  <2>4. loop'[p] = Publishing(p, c, m, FALSE) /\ OtherLoopsStay(p)
    BY <2>2, LoopIs
  <2> QED
    BY <2>1, <2>3, <2>4, CalmMarks
<1>2. ASSUME NEW p \in Proc, Ring(p) PROVE MarksInv'
  <2>1. loop[p].pc = "ring" /\ UNCHANGED <<memory, unread>>
    BY <1>2 DEF Ring
  <2>2. LET s == [Free EXCEPT !.pc = "next", !.ch = loop[p].ch]
        IN  s.pc = "next" /\ ~s.loaded /\ s.byte = {}
    BY DEF Free
  <2>3. /\ loop'[p] \in {Free, [Free EXCEPT !.pc = "next", !.ch = loop[p].ch]}
        /\ OtherLoopsStay(p)
    BY <1>2, LoopIs DEF Ring
  <2> QED
    BY <1>0, <2>1, <2>2, <2>3, CalmMarks DEF PublishPC
<1>3. ASSUME NEW p \in Proc, NEW c \in Channel, Acquire(p, c) PROVE MarksInv'
  BY <1>3, SameMarks DEF Acquire
<1>4. ASSUME NEW p \in Proc, NEW c \in Channel, Scan(p, c) PROVE MarksInv'
  <2>1. loop[p].pc = "free" /\ UNCHANGED <<memory, unread>>
    BY <1>4 DEF Scan, shared
  <2>2. CASE UNCHANGED loop
    BY <2>1, <2>2, SameMarks
  <2>3. CASE loop' = [loop EXCEPT ![p] = [Free EXCEPT !.pc = "next", !.ch = c]]
    <3>1. LET s == [Free EXCEPT !.pc = "next", !.ch = c]
          IN  s.pc = "next" /\ ~s.loaded /\ s.byte = {}
      BY DEF Free
    <3>2. loop'[p] = [Free EXCEPT !.pc = "next", !.ch = c] /\ OtherLoopsStay(p)
      BY <2>3, LoopIs
    <3> QED
      BY <2>1, <3>1, <3>2, CalmMarks DEF PublishPC
  <2> QED
    BY <1>4, <2>2, <2>3 DEF Scan
<1>5. ASSUME NEW p \in Proc, NextRow(p) PROVE MarksInv'
  <2>1. loop[p] \in LoopState /\ loop[p].pc = "next" /\ UNCHANGED <<memory, unread>>
        /\ ~loop[p].loaded
    BY <1>5 DEF NextRow, shared, TypeInv, TypeOK, MarksInv, Tidy
  <2>2. CASE UNCHANGED loop
    BY <2>1, <2>2, SameMarks
  <2>3. CASE loop' = [loop EXCEPT ![p] = Free]
    <3>1. loop'[p] = Free /\ OtherLoopsStay(p)
      BY <2>3, LoopIs
    <3> QED
      BY <1>0, <2>1, <3>1, CalmMarks DEF PublishPC
  <2>4. CASE \E row : loop' = [loop EXCEPT ![p].pc = "head", ![p].row = row]
    <3>1. PICK row : loop' = [loop EXCEPT ![p].pc = "head", ![p].row = row]
      BY <2>4
    <3> DEFINE s == [loop[p] EXCEPT !.pc = "head", !.row = row]
    <3>2. loop' = [loop EXCEPT ![p] = s]
      BY <3>1 DEF TypeInv, TypeOK
    <3>3. s.pc = "head" /\ s.loaded = loop[p].loaded /\ s.byte = loop[p].byte
      BY <2>1 DEF LoopState
    <3> HIDE DEF s
    <3>4. loop'[p] = s /\ OtherLoopsStay(p)
      BY <3>2, LoopIs
    <3> QED
      BY <2>1, <3>3, <3>4, CalmMarks DEF PublishPC
  <2> QED
    BY <1>5, <2>2, <2>3, <2>4 DEF NextRow
<1>6. ASSUME NEW p \in Proc, ReadHead(p) PROVE MarksInv'
  <2> DEFINE row == memory[loop[p].row]
             s   == [loop[p] EXCEPT !.head = [row.head EXCEPT !.kind = row.body.kind], !.pc = "rest"]
  <2>1. loop[p] \in LoopState /\ loop[p].pc = "head" /\ UNCHANGED <<memory, unread>>
        /\ ~loop[p].loaded
    BY <1>6 DEF ReadHead, shared, TypeInv, TypeOK, MarksInv, Tidy
  <2>2. loop' = [loop EXCEPT ![p] = s]
    BY <1>6 DEF ReadHead, TypeInv, TypeOK
  <2>3. s.pc = "rest" /\ s.loaded = loop[p].loaded /\ s.byte = loop[p].byte
    BY <2>1 DEF LoopState
  <2> HIDE DEF s
  <2>4. loop'[p] = s /\ OtherLoopsStay(p)
    BY <2>2, LoopIs
  <2> QED
    BY <2>1, <2>3, <2>4, CalmMarks DEF PublishPC
<1>7. ASSUME NEW p \in Proc, ReadBody(p) PROVE MarksInv'
  <2> DEFINE s == [loop[p] EXCEPT !.body = memory[loop[p].row].body, !.pc = "lower"]
  <2>1. loop[p] \in LoopState /\ loop[p].pc = "rest" /\ UNCHANGED <<memory, unread>>
        /\ ~loop[p].loaded
    BY <1>7 DEF ReadBody, shared, TypeInv, TypeOK, MarksInv, Tidy
  <2>2. loop' = [loop EXCEPT ![p] = s]
    BY <1>7 DEF ReadBody, TypeInv, TypeOK
  <2>3. s.pc = "lower" /\ s.loaded = loop[p].loaded /\ s.byte = loop[p].byte
    BY <2>1 DEF LoopState
  <2> HIDE DEF s
  <2>4. loop'[p] = s /\ OtherLoopsStay(p)
    BY <2>2, LoopIs
  <2> QED
    BY <2>1, <2>3, <2>4, CalmMarks DEF PublishPC
<1>8. ASSUME NEW p \in Proc, NEW c \in Channel, NEW v \in Outcomes(p, c), HandlerReturns(p, c, v)
      PROVE  MarksInv'
  <2>1. loop[p].pc = "free" /\ UNCHANGED unread
    BY <1>8 DEF HandlerReturns
  <2>2. \A x \in Row : memory'[x].complete = memory[x].complete
    BY <1>8 DEF HandlerReturns, TypeInv, TypeOK, RowData
  <2>3. CASE UNCHANGED loop
    BY <2>1, <2>2, <2>3, SameMarks
  <2>4. CASE \E m : loop' = [loop EXCEPT ![p] = Publishing(p, c, m, TRUE)]
    <3>1. PICK m : loop' = [loop EXCEPT ![p] = Publishing(p, c, m, TRUE)]
      BY <2>4
    <3>2. LET s == Publishing(p, c, m, TRUE) IN s.pc = "claim" /\ ~s.loaded /\ s.byte = {}
      BY DEF Publishing, Free
    <3>3. loop'[p] = Publishing(p, c, m, TRUE) /\ OtherLoopsStay(p)
      BY <3>1, LoopIs
    <3> QED
      BY <2>1, <2>2, <3>2, <3>3, CalmMarks
  <2>5. CASE loop' = [loop EXCEPT ![p] = [Free EXCEPT !.pc = "next", !.ch = c]]
    <3>1. LET s == [Free EXCEPT !.pc = "next", !.ch = c]
          IN  s.pc = "next" /\ ~s.loaded /\ s.byte = {}
      BY DEF Free
    <3>2. loop'[p] = [Free EXCEPT !.pc = "next", !.ch = c] /\ OtherLoopsStay(p)
      BY <2>5, LoopIs
    <3> QED
      BY <2>1, <2>2, <3>1, <3>2, CalmMarks DEF PublishPC
  <2> QED
    BY <1>8, <2>3, <2>4, <2>5 DEF HandlerReturns
<1>9. ASSUME NEW p \in Proc, AskTimesOut(p) PROVE MarksInv'
  BY <1>9, SameMarks DEF AskTimesOut, shared
<1>10. ASSUME NEW p \in Proc, CrashAndRespawn(p) PROVE MarksInv'
  BY <1>10 DEF CrashAndRespawn, TypeInv, TypeOK
<1>11. ASSUME UNCHANGED vars PROVE MarksInv'
  BY <1>11, SameMarks DEF vars, shared, private
<1> QED
  BY <1>1, <1>2, <1>3, <1>4, <1>5, <1>6, <1>7, <1>8, <1>9, <1>10, <1>11, ClaimRowMarks,
     CountMissedMarks, InvalidateMarks, TakeNumberMarks, WriteBodyMarks, CompleteMarks,
     MarkUnreadTidy, LowerBitMarks DEF Next, LoopStep, PumpStep

\* With one channel, each step is one of the following for the pump of its
\* process and its channel c.
TheChannel(c) == Channel = {c}

Advances(p) ==
  \/ ClaimRow(p) \/ CountMissed(p) \/ Invalidate(p) \/ TakeNumber(p)
  \/ WriteBody(p) \/ Complete(p) \/ MarkUnread(p)

Stays(p, c) == UNCHANGED <<loop, pump, unread, bell>>
Publishes(p, c) ==
  /\ Advances(p)
  /\ UNCHANGED <<bell, pump>> /\ unread'[p] = unread[p]
  /\ loop[p].pc \in PublishPC /\ loop'[p].pc \in PublishPC /\ loop'[p].reply = loop[p].reply
Rings(p, c) ==
  /\ UNCHANGED <<unread, pump>> /\ bell' = Rung(p)
  /\ loop[p].pc = "ring" /\ loop'[p].pc = IF loop[p].reply THEN "next" ELSE "free"
Begins(p, c) ==
  /\ UNCHANGED <<unread, bell, pump>>
  /\ loop[p].pc = "free" /\ loop'[p].pc = "claim" /\ ~loop'[p].reply
Wakes(p, c) ==
  /\ UNCHANGED <<loop, unread>>
  /\ bell[p] > 0 /\ bell'[p] = bell[p] - 1
  /\ pump[p][c].pc = "asleep" /\ pump'[p][c].pc = "awake"
  /\ pump'[p][c].todo = pump[p][c].todo
Looks(p, c) ==
  /\ UNCHANGED <<unread, bell>>
  /\ loop[p].pc = "free" /\ pump[p][c].pc = "awake"
  /\ pump'[p][c].todo = {[row |-> x, seq |-> memory[x].seq] : x \in unread[p]}
  /\ \/ unread[p] = {} /\ pump'[p][c].pc = "asleep" /\ loop'[p].pc = "free"
     \/ unread[p] # {} /\ pump'[p][c].pc = "draining" /\ loop'[p].pc = "next"
Finishes(p, c) ==
  /\ UNCHANGED <<unread, bell>>
  /\ loop[p].pc = "next" /\ loop'[p].pc = "free"
  /\ pump[p][c].todo = {} /\ pump'[p][c].pc = "asleep" /\ pump'[p][c].todo = {}
Picks(p, c) ==
  /\ UNCHANGED <<unread, bell>>
  /\ loop[p].pc = "next" /\ pump'[p][c].pc = pump[p][c].pc
  /\ \E item \in pump[p][c].todo :
       /\ pump'[p][c].todo = pump[p][c].todo \ {item}
       /\ \/ memory[item.row].complete /\ loop'[p].pc = "head" /\ loop'[p].row = item.row
          \/ ~memory[item.row].complete /\ loop'[p].pc = "next"
ReadsOn(p, c) ==
  /\ UNCHANGED <<unread, bell, pump>>
  /\ loop[p].pc \in {"head", "rest"} /\ loop'[p].pc \in {"rest", "lower"}
  /\ loop'[p].row = loop[p].row /\ ~loop'[p].loaded
LoadsByte(p, c) ==
  /\ UNCHANGED <<unread, bell, pump>>
  /\ loop[p].pc = "lower" /\ loop'[p].pc = "lower" /\ loop'[p].row = loop[p].row
  /\ loop'[p].byte \subseteq unread[p]
StoresByte(p, c) ==
  /\ UNCHANGED bell
  /\ loop[p].pc = "lower" /\ loop[p].row \in Row /\ ReadyToStore(p)
  /\ unread'[p] = Lowered(p, p, loop[p].row)
  /\ pump'[p][c].todo = pump[p][c].todo
  /\ \/ pump'[p][c].pc = pump[p][c].pc /\ loop'[p].pc = "next"
     \/ pump'[p][c].pc = "handling" /\ loop'[p].pc = "free"
GivesUp(p, c) ==
  /\ UNCHANGED <<loop, unread, bell>>
  /\ Verdicts \cap {"error", "oversized"} # {}
  /\ loop[p].pc = "free" /\ pump[p][c].pc = "handling"
  /\ pump'[p][c].pc = "asleep" /\ pump'[p][c].todo = {}
GoesOn(p, c) ==
  /\ UNCHANGED <<unread, bell>>
  /\ loop[p].pc = "free" /\ loop'[p].pc \in {"next", "claim"}
  /\ pump[p][c].pc = "handling" /\ pump'[p][c].pc = "draining"
  /\ pump'[p][c].todo = pump[p][c].todo

PumpTurn(p, c) ==
  \/ Stays(p, c) \/ Publishes(p, c) \/ Rings(p, c) \/ Begins(p, c) \/ Wakes(p, c)
  \/ Looks(p, c) \/ Finishes(p, c) \/ Picks(p, c) \/ ReadsOn(p, c) \/ LoadsByte(p, c)
  \/ StoresByte(p, c) \/ GivesUp(p, c) \/ GoesOn(p, c)

\* What it does not touch: the loops, pumps and tokens of the others.
LeavesOthers(p) ==
  /\ OtherLoopsStay(p)
  /\ \A q \in Proc \ {p} :
       /\ pump'[q] = pump[q]
       /\ \/ bell'[q] = bell[q] /\ (loop[p].pc \in PublishPC => loop'[p].pc \in PublishPC)
          \/ bell'[q] = bell[q] + 1
       /\ loop'[p].pc \in PublishPC \/ unread'[q] = unread[q]

\* A step of _publish between two accesses is no turn of a pump.
LEMMA PublishTurns ==
  ASSUME TypeInv, MarksInv, NEW c, NEW p \in Proc, Advances(p)
  PROVE  Publishes(p, c) /\ LeavesOthers(p)
<1>0. loop[p] \in LoopState
  BY DEF TypeInv, TypeOK
<1>1. loop[p].pc \in PublishPC /\ UNCHANGED <<bell, pump>>
  BY DEF Advances, ClaimRow, CountMissed, Invalidate, TakeNumber, WriteBody, Complete, MarkUnread,
         shared, PublishPC
<1>2. unread'[p] = unread[p]
  <2>1. CASE UNCHANGED unread
    BY <2>1
  <2>2. CASE loop[p].pc \in {"lap", "mark"}
    <3>1. Least(loop[p].readers) # p
      BY <1>0, <2>2, LeastIsLeast DEF MarksInv, Foreign, LoopState
    <3> QED
      BY <3>1 DEF Advances, ClaimRow, CountMissed, Invalidate, TakeNumber, WriteBody, Complete,
                  MarkUnread, LoadByte, shared, TypeInv, TypeOK
  <2> QED
    BY <2>1, <2>2 DEF Advances, ClaimRow, CountMissed, Invalidate, TakeNumber, WriteBody, Complete,
                      MarkUnread, shared
<1>3. \E s : loop' = [loop EXCEPT ![p] = s] /\ s.pc \in PublishPC /\ s.reply = loop[p].reply
  <2> DEFINE Goal == \E s : /\ loop' = [loop EXCEPT ![p] = s]
                            /\ s.pc \in PublishPC /\ s.reply = loop[p].reply
  <2>0. \A s : /\ loop' = [loop EXCEPT ![p] = s]
               /\ s.pc \in PublishPC /\ s.reply = loop[p].reply
               => Goal
    OBVIOUS
  <2> HIDE DEF Goal
  <2>1. ASSUME ClaimRow(p) PROVE Goal
    <3> DEFINE row == [ch |-> loop[p].ch, owner |-> p, slot |-> cursor[p][loop[p].ch]]
               pc  == IF Stale(row) = {} THEN "invalidate" ELSE "lap"
               s   == [loop[p] EXCEPT !.row = row, !.readers = Stale(row), !.pc = pc]
    <3>1. loop' = [loop EXCEPT ![p] = s]
      BY <2>1 DEF ClaimRow, TypeInv, TypeOK
    <3>2. pc \in PublishPC
      BY DEF PublishPC
    <3> HIDE DEF row, pc
    <3>3. s.pc = pc /\ s.reply = loop[p].reply
      BY <1>0 DEF LoopState
    <3> HIDE DEF s
    <3> QED
      BY <2>0, <3>1, <3>2, <3>3
  <2>2. ASSUME NEW rest, NEW pc \in PublishPC,
               loop' = [loop EXCEPT ![p].readers = rest, ![p].byte = {}, ![p].loaded = FALSE,
                                    ![p].pc = pc]
        PROVE  Goal
    <3> DEFINE s == [loop[p] EXCEPT !.readers = rest, !.byte = {}, !.loaded = FALSE, !.pc = pc]
    <3>1. loop' = [loop EXCEPT ![p] = s]
      BY <2>2 DEF TypeInv, TypeOK
    <3>2. s.pc = pc /\ s.reply = loop[p].reply
      BY <1>0 DEF LoopState
    <3> HIDE DEF s
    <3> QED
      BY <2>0, <3>1, <3>2
  <2>3. ASSUME NEW r, LoadByte(p, r) PROVE Goal
    <3> DEFINE byte == unread[r] \cap ByteOf(loop[p].row)
               s == [loop[p] EXCEPT !.loaded = TRUE, !.byte = byte]
    <3>1. loop' = [loop EXCEPT ![p] = s]
      BY <2>3 DEF LoadByte, TypeInv, TypeOK
    <3> HIDE DEF byte
    <3>2. s.pc = loop[p].pc /\ s.reply = loop[p].reply
      BY <1>0 DEF LoopState
    <3> HIDE DEF s
    <3> QED
      BY <1>1, <2>0, <3>1, <3>2
  <2>4. ASSUME CountMissed(p) PROVE Goal
    <3> DEFINE rest == loop[p].readers \ {Least(loop[p].readers)}
               pc   == IF rest = {} THEN "invalidate" ELSE "lap"
    <3>1. pc \in PublishPC
      BY DEF PublishPC
    <3>2. \/ LoadByte(p, Least(loop[p].readers))
          \/ loop' = [loop EXCEPT ![p].readers = rest, ![p].byte = {}, ![p].loaded = FALSE,
                                  ![p].pc = pc]
      BY <2>4 DEF CountMissed
    <3> HIDE DEF rest, pc
    <3> QED
      BY <2>2, <2>3, <3>1, <3>2
  <2>5. ASSUME MarkUnread(p) PROVE Goal
    <3> DEFINE rest == loop[p].readers \ {Least(loop[p].readers)}
               pc   == IF rest = {} THEN "ring" ELSE "mark"
    <3>1. pc \in PublishPC
      BY DEF PublishPC
    <3>2. \/ LoadByte(p, Least(loop[p].readers))
          \/ loop' = [loop EXCEPT ![p].readers = rest, ![p].byte = {}, ![p].loaded = FALSE,
                                  ![p].pc = pc]
      BY <2>5 DEF MarkUnread
    <3> HIDE DEF rest, pc
    <3> QED
      BY <2>2, <2>3, <3>1, <3>2
  <2>6. ASSUME Invalidate(p) \/ WriteBody(p) PROVE Goal
    <3>1. PICK pc \in {"number", "complete"} : loop' = [loop EXCEPT ![p].pc = pc]
      BY <2>6 DEF Invalidate, WriteBody
    <3> DEFINE s == [loop[p] EXCEPT !.pc = pc]
    <3>2. loop' = [loop EXCEPT ![p] = s]
      BY <3>1 DEF TypeInv, TypeOK
    <3>3. s.pc \in PublishPC /\ s.reply = loop[p].reply
      BY <1>0 DEF LoopState, PublishPC
    <3> HIDE DEF s
    <3> QED
      BY <2>0, <3>2, <3>3
  <2>7. ASSUME TakeNumber(p) PROVE Goal
    <3> DEFINE next == counter[loop[p].ch] + 1
               n    == IF RacyUpdates THEN loop[p].seq ELSE next
               load == [loop[p] EXCEPT !.loaded = TRUE, !.seq = next]
               done == [loop[p] EXCEPT !.pc = "body", !.seq = n, !.loaded = FALSE]
    <3>1. loop' = [loop EXCEPT ![p] = load] \/ loop' = [loop EXCEPT ![p] = done]
      BY <2>7 DEF TakeNumber, TypeInv, TypeOK
    <3> HIDE DEF next, n
    <3>2. /\ load.pc = loop[p].pc /\ load.reply = loop[p].reply
          /\ done.pc \in PublishPC /\ done.reply = loop[p].reply
      BY <1>0 DEF LoopState, PublishPC
    <3> HIDE DEF load, done
    <3> QED
      BY <1>1, <2>0, <3>1, <3>2
  <2>8. ASSUME Complete(p) PROVE Goal
    <3> DEFINE pc == IF Others(p) = {} THEN "ring" ELSE "mark"
               s  == [loop[p] EXCEPT !.readers = Others(p), !.pc = pc]
    <3>1. loop' = [loop EXCEPT ![p] = s]
      BY <2>8 DEF Complete, TypeInv, TypeOK
    <3>2. pc \in PublishPC
      BY DEF PublishPC
    <3> HIDE DEF pc
    <3>3. s.pc = pc /\ s.reply = loop[p].reply
      BY <1>0 DEF LoopState
    <3> HIDE DEF s
    <3> QED
      BY <2>0, <3>1, <3>2, <3>3
  <2>9. Goal
    BY <2>1, <2>4, <2>5, <2>6, <2>7, <2>8 DEF Advances
  <2> QED
    BY <2>9 DEF Goal
<1>4. PICK s : loop' = [loop EXCEPT ![p] = s] /\ s.pc \in PublishPC /\ s.reply = loop[p].reply
  BY <1>3
<1>5. loop'[p] = s /\ OtherLoopsStay(p)
  BY <1>4, LoopIs
<1> QED
  BY <1>1, <1>2, <1>4, <1>5 DEF Publishes, LeavesOthers

\* Every step is a turn of one process that leaves the others alone.
LEMMA PumpTurns ==
  ASSUME TypeInv, MarksInv, NEW c, TheChannel(c), MaxCrashes = 0, [Next]_vars
  PROVE  \E p \in Proc : PumpTurn(p, c) /\ LeavesOthers(p)
<1> DEFINE Turn(p) == PumpTurn(p, c) /\ LeavesOthers(p)
<1>0. /\ c \in Channel /\ \A d \in Channel : d = c
      /\ loop \in [Proc -> LoopState] /\ pump \in [Proc -> [Channel -> PumpState]]
      /\ unread \in [Proc -> SUBSET Row] /\ bell \in [Proc -> Nat]
      /\ memory \in [Row -> RowData]
  BY DEF TheChannel, TypeInv, TypeOK
<1>a. ASSUME NEW p \in Proc, NEW s, loop' = [loop EXCEPT ![p] = s], UNCHANGED <<unread, bell>>,
             \A q \in Proc \ {p} : pump'[q] = pump[q], loop[p].pc \notin PublishPC
      PROVE  LeavesOthers(p) /\ loop'[p] = s
  <2>1. loop'[p] = s /\ OtherLoopsStay(p)
    BY <1>a, LoopIs
  <2> QED
    BY <1>a, <2>1 DEF LeavesOthers
<1>b. ASSUME NEW p \in Proc, NEW u, pump' = [pump EXCEPT ![p][c] = u]
      PROVE  pump'[p][c] = u /\ \A q \in Proc \ {p} : pump'[q] = pump[q]
  BY <1>0, <1>b
<1>c. \A p \in Proc : loop[p] \in LoopState /\ pump[p][c] \in PumpState
  BY <1>0
<1>1. ASSUME NEW p \in Proc, NEW d \in Channel, NEW how \in Posts, Post(p, d, how)
      PROVE  Turn(p)
  <2>1. loop[p].pc = "free" /\ UNCHANGED <<unread, bell, pump>>
    BY <1>1 DEF Post, shared
  <2>2. PICK m : loop' = [loop EXCEPT ![p] = Publishing(p, d, m, FALSE)]
    BY <1>1 DEF Post
  <2>3. LET s == Publishing(p, d, m, FALSE) IN s.pc = "claim" /\ ~s.reply
    BY DEF Publishing, Free
  <2>4. loop'[p] = Publishing(p, d, m, FALSE) /\ LeavesOthers(p)
    BY <1>a, <2>1, <2>2 DEF PublishPC
  <2>5. Begins(p, c)
    BY <2>1, <2>3, <2>4 DEF Begins
  <2> QED
    BY <2>4, <2>5 DEF PumpTurn
<1>2. ASSUME NEW p \in Proc, Ring(p) PROVE Turn(p)
  <2> DEFINE s == IF loop[p].reply THEN [Free EXCEPT !.pc = "next", !.ch = loop[p].ch] ELSE Free
  <2>1. loop' = [loop EXCEPT ![p] = s] /\ bell' = Rung(p) /\ UNCHANGED <<unread, pump>>
        /\ loop[p].pc = "ring"
    BY <1>2 DEF Ring
  <2>2. s.pc = IF loop[p].reply THEN "next" ELSE "free"
    BY DEF Free
  <2> HIDE DEF s
  <2>3. loop'[p] = s /\ OtherLoopsStay(p)
    BY <2>1, LoopIs
  <2>4. \A q \in Proc \ {p} : bell'[q] = bell[q] + 1
    BY <2>1 DEF Rung
  <2>5. Rings(p, c) /\ LeavesOthers(p)
    BY <2>1, <2>2, <2>3, <2>4 DEF Rings, LeavesOthers
  <2> QED
    BY <2>5 DEF PumpTurn
<1>3. ASSUME NEW p \in Proc, NEW d \in Channel, Acquire(p, d) PROVE Turn(p)
  <2> DEFINE u == [pump[p][c] EXCEPT !.pc = "awake"]
  <2>1. /\ pump[p][c].pc = "asleep" /\ bell[p] > 0 /\ bell' = [bell EXCEPT ![p] = @ - 1]
        /\ pump' = [pump EXCEPT ![p][c] = u] /\ UNCHANGED <<loop, unread>>
    BY <1>0, <1>3 DEF Acquire
  <2>2. u.pc = "awake" /\ u.todo = pump[p][c].todo
    BY <1>c DEF PumpState
  <2> HIDE DEF u
  <2>3. /\ bell'[p] = bell[p] - 1 /\ \A q \in Proc \ {p} : bell'[q] = bell[q]
        /\ pump'[p][c] = u /\ \A q \in Proc \ {p} : pump'[q] = pump[q]
    BY <1>0, <1>b, <2>1
  <2>4. Wakes(p, c) /\ LeavesOthers(p)
    BY <2>1, <2>2, <2>3 DEF Wakes, LeavesOthers, OtherLoopsStay
  <2> QED
    BY <2>4 DEF PumpTurn
<1>4. ASSUME NEW p \in Proc, NEW d \in Channel, Scan(p, d) PROVE Turn(p)
  <2> DEFINE todo == {[row |-> x, seq |-> memory[x].seq] : x \in unread[p]}
             u    == [Asleep EXCEPT !.pc = "draining", !.todo = todo]
             s    == [Free EXCEPT !.pc = "next", !.ch = c]
  <2>1. d = c /\ {x \in unread[p] : x.ch = c} = unread[p]
    BY <1>0 DEF Row
  <2>2. /\ pump[p][c].pc = "awake" /\ loop[p].pc = "free" /\ UNCHANGED <<unread, bell>>
        /\ IF todo = {}
           THEN pump' = [pump EXCEPT ![p][c] = Asleep] /\ UNCHANGED loop
           ELSE pump' = [pump EXCEPT ![p][c] = u] /\ loop' = [loop EXCEPT ![p] = s]
    BY <1>4, <2>1 DEF Scan, shared
  <2>3. todo = {} <=> unread[p] = {}
    OBVIOUS
  <2> HIDE DEF todo
  <2>4. /\ u.pc = "draining" /\ u.todo = todo /\ s.pc = "next"
        /\ Asleep.pc = "asleep" /\ Asleep.todo = {}
    BY DEF Asleep, Free
  <2> HIDE DEF u, s
  <2>5. CASE todo = {}
    <3>1. pump'[p][c] = Asleep /\ (\A q \in Proc \ {p} : pump'[q] = pump[q]) /\ UNCHANGED loop
      BY <1>b, <2>2, <2>5
    <3>2. Looks(p, c)
      BY <2>2, <2>3, <2>4, <2>5, <3>1 DEF Looks, todo
    <3>3. LeavesOthers(p)
      BY <2>2, <3>1 DEF LeavesOthers, OtherLoopsStay, PublishPC
    <3> QED
      BY <3>2, <3>3 DEF PumpTurn
  <2>6. CASE todo # {}
    <3>1. pump'[p][c] = u /\ (\A q \in Proc \ {p} : pump'[q] = pump[q])
      BY <1>b, <2>2, <2>6
    <3>2. loop'[p] = s /\ LeavesOthers(p)
      BY <1>a, <2>2, <2>6, <3>1 DEF PublishPC
    <3>3. Looks(p, c)
      BY <2>2, <2>3, <2>4, <2>6, <3>1, <3>2 DEF Looks, todo
    <3> QED
      BY <3>2, <3>3 DEF PumpTurn
  <2> QED
    BY <2>5, <2>6
<1>5. ASSUME NEW p \in Proc, NextRow(p) PROVE Turn(p)
  <2>1. loop[p].pc = "next" /\ loop[p].ch = c /\ UNCHANGED <<unread, bell>>
    BY <1>0, <1>5, AtRow DEF NextRow, shared
  <2>2. CASE /\ pump[p][c].todo = {} /\ pump' = [pump EXCEPT ![p][c] = Asleep]
             /\ loop' = [loop EXCEPT ![p] = Free]
    <3>1. pump'[p][c] = Asleep /\ \A q \in Proc \ {p} : pump'[q] = pump[q]
      BY <1>b, <2>2
    <3>2. loop'[p] = Free /\ LeavesOthers(p)
      BY <1>a, <2>1, <2>2, <3>1 DEF PublishPC
    <3>3. Finishes(p, c)
      BY <2>1, <2>2, <3>1, <3>2 DEF Finishes, Asleep, Free
    <3> QED
      BY <3>2, <3>3 DEF PumpTurn
  <2>3. CASE \E item \in pump[p][c].todo :
               /\ pump' = [pump EXCEPT ![p][c].todo = pump[p][c].todo \ {item}]
               /\ loop' = IF memory[item.row].complete
                          THEN [loop EXCEPT ![p].pc = "head", ![p].row = item.row]
                          ELSE loop
    <3>1. PICK item \in pump[p][c].todo :
               /\ pump' = [pump EXCEPT ![p][c].todo = pump[p][c].todo \ {item}]
               /\ loop' = IF memory[item.row].complete
                          THEN [loop EXCEPT ![p].pc = "head", ![p].row = item.row]
                          ELSE loop
      BY <2>3
    <3> DEFINE left == pump[p][c].todo \ {item}
               u    == [pump[p][c] EXCEPT !.todo = left]
               s    == [loop[p] EXCEPT !.pc = "head", !.row = item.row]
    <3>2. /\ pump' = [pump EXCEPT ![p][c] = u]
          /\ loop' = IF memory[item.row].complete THEN [loop EXCEPT ![p] = s] ELSE loop
      BY <1>0, <3>1
    <3> HIDE DEF left
    <3>3. u.pc = pump[p][c].pc /\ u.todo = left /\ s.pc = "head" /\ s.row = item.row
      BY <1>c DEF PumpState, LoopState
    <3> HIDE DEF u, s
    <3>4. pump'[p][c] = u /\ \A q \in Proc \ {p} : pump'[q] = pump[q]
      BY <1>b, <3>2
    <3>5. CASE memory[item.row].complete
      <4>1. loop'[p] = s /\ LeavesOthers(p)
        BY <1>a, <2>1, <3>2, <3>4, <3>5 DEF PublishPC
      <4>2. Picks(p, c)
        BY <2>1, <3>3, <3>4, <3>5, <4>1 DEF Picks, left
      <4> QED
        BY <4>1, <4>2 DEF PumpTurn
    <3>6. CASE ~memory[item.row].complete
      <4>1. UNCHANGED loop
        BY <3>2, <3>6
      <4>2. LeavesOthers(p)
        BY <2>1, <3>4, <4>1 DEF LeavesOthers, OtherLoopsStay, PublishPC
      <4>3. Picks(p, c)
        BY <2>1, <3>3, <3>4, <3>6, <4>1 DEF Picks, left
      <4> QED
        BY <4>2, <4>3 DEF PumpTurn
    <3> QED
      BY <3>5, <3>6
  <2> QED
    BY <1>5, <2>1, <2>2, <2>3 DEF NextRow
<1>6. ASSUME NEW p \in Proc, ReadHead(p) PROVE Turn(p)
  <2> DEFINE row == memory[loop[p].row]
             s   == [loop[p] EXCEPT !.head = [row.head EXCEPT !.kind = row.body.kind], !.pc = "rest"]
  <2>1. loop[p].pc = "head" /\ UNCHANGED <<unread, bell, pump>> /\ ~loop[p].loaded
    BY <1>6 DEF ReadHead, shared, MarksInv, Tidy
  <2>2. loop' = [loop EXCEPT ![p] = s]
    BY <1>0, <1>6 DEF ReadHead
  <2>3. s.pc = "rest" /\ s.loaded = loop[p].loaded /\ s.row = loop[p].row
    BY <1>c DEF LoopState
  <2> HIDE DEF s
  <2>4. loop'[p] = s /\ LeavesOthers(p)
    BY <1>a, <2>1, <2>2 DEF PublishPC
  <2>5. ReadsOn(p, c)
    BY <2>1, <2>3, <2>4 DEF ReadsOn
  <2> QED
    BY <2>4, <2>5 DEF PumpTurn
<1>7. ASSUME NEW p \in Proc, ReadBody(p) PROVE Turn(p)
  <2> DEFINE s == [loop[p] EXCEPT !.body = memory[loop[p].row].body, !.pc = "lower"]
  <2>1. loop[p].pc = "rest" /\ UNCHANGED <<unread, bell, pump>> /\ ~loop[p].loaded
    BY <1>7 DEF ReadBody, shared, MarksInv, Tidy
  <2>2. loop' = [loop EXCEPT ![p] = s]
    BY <1>0, <1>7 DEF ReadBody
  <2>3. s.pc = "lower" /\ s.loaded = loop[p].loaded /\ s.row = loop[p].row
    BY <1>c DEF LoopState
  <2> HIDE DEF s
  <2>4. loop'[p] = s /\ LeavesOthers(p)
    BY <1>a, <2>1, <2>2 DEF PublishPC
  <2>5. ReadsOn(p, c)
    BY <2>1, <2>3, <2>4 DEF ReadsOn
  <2> QED
    BY <2>4, <2>5 DEF PumpTurn
<1>8. ASSUME NEW p \in Proc, LowerBit(p) PROVE Turn(p)
  <2>1. /\ loop[p].pc = "lower" /\ loop[p].row \in Row /\ loop[p].ch = c
        /\ OtherLoopsStay(p) /\ \A q \in Proc \ {p} : unread'[q] = unread[q]
        /\ UNCHANGED bell
    BY <1>0, <1>8, LowerBitSteps, AtRow DEF LowerBit
  <2>2. CASE /\ UNCHANGED <<unread, pump>> /\ loop'[p].pc = "lower" /\ loop'[p].loaded
             /\ loop'[p].row = loop[p].row /\ loop'[p].reply = loop[p].reply
             /\ loop'[p].byte \subseteq unread[p]
    <3>1. LoadsByte(p, c) /\ LeavesOthers(p)
      BY <2>1, <2>2 DEF LoadsByte, LeavesOthers, PublishPC
    <3> QED
      BY <3>1 DEF PumpTurn
  <2>3. CASE /\ ReadyToStore(p) /\ unread'[p] = Lowered(p, p, loop[p].row)
             /\ loop'[p].pc \in {"next", "free"} /\ ~loop'[p].loaded /\ loop'[p].byte = {}
    <3> DEFINE goOn == [Free EXCEPT !.pc = "next", !.ch = loop[p].ch]
    <3>0. Free.pc = "free" /\ goOn.pc = "next"
      BY DEF Free
    <3> DEFINE u == [pump[p][c] EXCEPT !.pc = "handling", !.row = loop[p].row,
                                       !.head = loop[p].head, !.body = loop[p].body]
    <3>1. \/ UNCHANGED pump /\ loop' = [loop EXCEPT ![p] = goOn]
          \/ /\ loop' = [loop EXCEPT ![p] = Free]
             /\ pump' = [pump EXCEPT ![p][c] = u]
      <4>1. ~LoadByte(p, p)
        <5>1. LoadByte(p, p) => loop'[p].pc = loop[p].pc
          BY <1>0 DEF LoadByte, LoopState
        <5> QED
          BY <2>1, <2>3, <5>1
      <4> HIDE DEF goOn
      <4>2. \/ UNCHANGED pump /\ loop' = [loop EXCEPT ![p] = goOn]
            \/ /\ loop' = [loop EXCEPT ![p] = Free]
               /\ pump' = [pump EXCEPT ![p][loop[p].ch] =
                             [@ EXCEPT !.pc = "handling", !.row = loop[p].row,
                                       !.head = loop[p].head, !.body = loop[p].body]]
        BY <1>8, <4>1 DEF LowerBit, goOn
      <4>3. [pump EXCEPT ![p][loop[p].ch] =
                [@ EXCEPT !.pc = "handling", !.row = loop[p].row,
                          !.head = loop[p].head, !.body = loop[p].body]]
              = [pump EXCEPT ![p][c] = u]
        BY <1>0, <2>1
      <4> QED
        BY <4>2, <4>3
    <3>2. CASE UNCHANGED pump /\ loop' = [loop EXCEPT ![p] = goOn]
      <4> HIDE DEF goOn
      <4>1. loop'[p] = goOn
        BY <3>2, LoopIs
      <4>2. StoresByte(p, c) /\ LeavesOthers(p)
        BY <2>1, <2>3, <3>0, <3>2, <4>1 DEF StoresByte, LeavesOthers, PublishPC
      <4> QED
        BY <4>2 DEF PumpTurn
    <3>3. CASE loop' = [loop EXCEPT ![p] = Free] /\ pump' = [pump EXCEPT ![p][c] = u]
      <4>3. u.pc = "handling" /\ u.todo = pump[p][c].todo
        BY <1>c DEF PumpState
      <4> HIDE DEF u
      <4>4. pump'[p][c] = u /\ \A q \in Proc \ {p} : pump'[q] = pump[q]
        BY <1>b, <3>3
      <4>5. loop'[p] = Free
        BY <3>3, LoopIs
      <4>6. StoresByte(p, c) /\ LeavesOthers(p)
        BY <2>1, <2>3, <3>0, <4>3, <4>4, <4>5 DEF StoresByte, LeavesOthers, PublishPC
      <4> QED
        BY <4>6 DEF PumpTurn
    <3> QED
      BY <3>1, <3>2, <3>3
  <2> QED
    BY <1>8, <2>2, <2>3, LowerBitSteps
<1>9. ASSUME NEW p \in Proc, NEW d \in Channel, NEW v \in Outcomes(p, d), HandlerReturns(p, d, v)
      PROVE  Turn(p)
  <2>0. d = c
    BY <1>0
  <2> DEFINE u == [Asleep EXCEPT !.pc = "draining", !.todo = pump[p][c].todo]
             goOn == [Free EXCEPT !.pc = "next", !.ch = c]
  <2>1. loop[p].pc = "free" /\ pump[p][c].pc = "handling" /\ UNCHANGED <<unread, bell>>
    BY <1>9, <2>0 DEF HandlerReturns
  <2>2. /\ u.pc = "draining" /\ u.todo = pump[p][c].todo /\ goOn.pc = "next"
        /\ Asleep.pc = "asleep" /\ Asleep.todo = {}
        /\ \A m : Publishing(p, c, m, TRUE).pc = "claim"
    BY DEF Asleep, Free, Publishing
  <2>3. \/ /\ v \in {"error", "oversized"}
           /\ pump' = [pump EXCEPT ![p][c] = Asleep] /\ UNCHANGED loop
        \/ /\ pump' = [pump EXCEPT ![p][c] = u]
           /\ \/ loop' = [loop EXCEPT ![p] = goOn]
              \/ \E m : loop' = [loop EXCEPT ![p] = Publishing(p, c, m, TRUE)]
    BY <1>9, <2>0 DEF HandlerReturns
  <2>4. v \in Verdicts
    BY <1>9 DEF Outcomes
  <2> HIDE DEF u, goOn
  <2>5. CASE /\ v \in {"error", "oversized"}
             /\ pump' = [pump EXCEPT ![p][c] = Asleep]
             /\ UNCHANGED loop
    <3>1. pump'[p][c] = Asleep /\ \A q \in Proc \ {p} : pump'[q] = pump[q]
      BY <1>b, <2>5
    <3>2. GivesUp(p, c)
      BY <2>1, <2>2, <2>4, <2>5, <3>1 DEF GivesUp
    <3>3. LeavesOthers(p)
      BY <2>1, <2>5, <3>1 DEF LeavesOthers, OtherLoopsStay
    <3> QED
      BY <3>2, <3>3 DEF PumpTurn
  <2>6. CASE /\ pump' = [pump EXCEPT ![p][c] = u]
             /\ \E s : loop' = [loop EXCEPT ![p] = s] /\ s.pc \in {"next", "claim"}
    <3>1. pump'[p][c] = u /\ \A q \in Proc \ {p} : pump'[q] = pump[q]
      BY <1>b, <2>6
    <3>2. PICK s : loop' = [loop EXCEPT ![p] = s] /\ s.pc \in {"next", "claim"}
      BY <2>6
    <3>3. loop'[p] = s /\ LeavesOthers(p)
      BY <1>a, <2>1, <3>1, <3>2 DEF PublishPC
    <3>4. GoesOn(p, c)
      BY <2>1, <2>2, <3>1, <3>2, <3>3 DEF GoesOn
    <3> QED
      BY <3>3, <3>4 DEF PumpTurn
  <2> QED
    BY <2>2, <2>3, <2>5, <2>6
<1>10. ASSUME NEW p \in Proc, AskTimesOut(p) PROVE Turn(p)
  <2>1. Stays(p, c) /\ LeavesOthers(p)
    BY <1>10 DEF AskTimesOut, shared, Stays, LeavesOthers, OtherLoopsStay
  <2> QED
    BY <2>1 DEF PumpTurn
<1>11. ASSUME NEW p \in Proc, CrashAndRespawn(p) PROVE FALSE
  BY <1>11 DEF CrashAndRespawn, TypeInv, TypeOK
<1>12. ASSUME UNCHANGED vars PROVE \E p \in Proc : Turn(p)
  <2>1. 0 \in Proc
    BY LinkAssumption DEF Proc
  <2>2. Stays(0, c) /\ LeavesOthers(0)
    BY <1>12 DEF vars, shared, private, Stays, LeavesOthers, OtherLoopsStay
  <2> QED
    BY <2>1, <2>2 DEF PumpTurn
<1>13. ASSUME NEW p \in Proc, Advances(p) PROVE Turn(p)
  BY <1>13, PublishTurns DEF PumpTurn
<1>14. (\E p \in Proc : Turn(p)) => \E p \in Proc : PumpTurn(p, c) /\ LeavesOthers(p)
  OBVIOUS
<1> HIDE DEF Turn
<1>15. \E p \in Proc : Turn(p)
  BY <1>1, <1>2, <1>3, <1>4, <1>5, <1>6, <1>7, <1>8, <1>9, <1>10, <1>11, <1>12, <1>13
     DEF Next, LoopStep, PumpStep, Advances
<1> QED
  BY <1>14, <1>15

\* The pump whose code reads, or publishes a reply, is draining, and one that
\* waits for the bell has no snapshot.
PumpOK(p, c) ==
  /\ loop[p].pc \in ReadingPC \cup {"next"} => pump[p][c].pc = "draining"
  /\ loop[p].pc \in PublishPC /\ loop[p].reply => pump[p][c].pc = "draining"
  /\ pump[p][c].pc \in {"asleep", "awake"} => pump[p][c].todo = {}

\* A reader of one row only, which is that of the only other process.
OneRow == ProcessCount <= 2 /\ RowsPerWriter = 1
AtMostOne(p, c) ==
  OneRow =>
    /\ \A i, j \in pump[p][c].todo : i = j
    /\ loop[p].pc \in ReadingPC \/ pump[p][c].pc = "handling" => pump[p][c].todo = {}

\* p has a token, or a writer is on its way to give it one.
Covered(p) == bell[p] > 0 \/ \E w \in Others(p) : loop[w].pc \in PublishPC

\* What the pump has still in hand: its snapshot and the row it reads.
InHand(p, c) ==
  {item.row : item \in pump[p][c].todo}
    \cup (IF loop[p].pc \in ReadingPC THEN {loop[p].row} ELSE {})

\* Whatever is unread, or will be when the loaded byte is stored, is in hand,
\* unless the pump is about to look again.
Mindful(p, c) ==
  \/ pump[p][c].pc = "awake"
  \/ Covered(p)
  \/ /\ unread[p] \subseteq InHand(p, c)
     /\ loop[p].pc = "lower" /\ loop[p].loaded => loop[p].byte \subseteq InHand(p, c)

PumpsInv(c) == \A p \in Proc : PumpOK(p, c) /\ AtMostOne(p, c)
MindfulInv(c) == \A p \in Proc : Mindful(p, c)

\* At the start every pump sleeps and there is no mail.
LEMMA InitPumps == \A c \in Channel : Init => PumpsInv(c) /\ MindfulInv(c)
BY DEF Init, PumpsInv, PumpOK, AtMostOne, MindfulInv, Mindful, Asleep, Free, PublishPC, ReadingPC

\* Two unread rows of the only reader of one row are the same.
LEMMA OneRowOnly ==
  ASSUME TypeInv, MarksInv, NEW c, TheChannel(c), OneRow, NEW p \in Proc,
         NEW x \in unread[p], NEW y \in unread[p]
  PROVE  x = y
<1>1. x \in Row /\ y \in Row
  BY DEF TypeInv, TypeOK
<1>2. x.owner = y.owner
  <2>1. x.owner # p /\ y.owner # p /\ x.owner \in Proc /\ y.owner \in Proc
    BY <1>1 DEF MarksInv, Foreign, Row
  <2>2. Proc \subseteq {0, 1}
    BY LinkAssumption DEF Proc, OneRow
  <2> QED
    BY <2>1, <2>2
<1>3. x.slot = y.slot
  <2>1. Slot = {0}
    BY DEF Slot, OneRow
  <2> QED
    BY <1>1, <2>1 DEF Row
<1>4. x.ch = y.ch
  BY <1>1 DEF Row, TheChannel
<1> QED
  BY <1>1, <1>2, <1>3, <1>4 DEF Row

\* Every step but a crash keeps the pumps in step with the code of their loops,
\* and a reader of one row with at most that row in hand.
LEMMA NextPumps ==
  ASSUME TypeInv, MarksInv, NEW c, TheChannel(c), PumpsInv(c), MaxCrashes = 0, [Next]_vars
  PROVE  PumpsInv(c)'
<1>1. PICK p \in Proc : PumpTurn(p, c) /\ LeavesOthers(p)
  BY PumpTurns
<1>2. \A q \in Proc \ {p} : PumpOK(q, c)' /\ AtMostOne(q, c)'
  BY <1>1 DEF PumpsInv, PumpOK, AtMostOne, LeavesOthers, OtherLoopsStay
<1>3. PumpOK(p, c)'
  <2>1. PumpOK(p, c) /\ "ring" \in PublishPC
    BY DEF PumpsInv, PublishPC
  <2>2. CASE Stays(p, c) \/ Publishes(p, c) \/ Rings(p, c) \/ Begins(p, c)
    BY <2>1, <2>2 DEF Stays, Publishes, Rings, Begins, PumpOK, ReadingPC, PublishPC
  <2>3. CASE Wakes(p, c) \/ Looks(p, c) \/ Finishes(p, c)
    BY <2>1, <2>3 DEF Wakes, Looks, Finishes, PumpOK, ReadingPC, PublishPC
  <2>4. CASE Picks(p, c) \/ ReadsOn(p, c) \/ LoadsByte(p, c)
    BY <2>1, <2>4 DEF Picks, ReadsOn, LoadsByte, PumpOK, ReadingPC, PublishPC
  <2>5. CASE StoresByte(p, c) \/ GivesUp(p, c) \/ GoesOn(p, c)
    BY <2>1, <2>5 DEF StoresByte, GivesUp, GoesOn, PumpOK, ReadingPC, PublishPC
  <2> QED
    BY <1>1, <2>2, <2>3, <2>4, <2>5 DEF PumpTurn
<1>4. AtMostOne(p, c)'
  <2> SUFFICES ASSUME OneRow
               PROVE  /\ \A i, j \in pump'[p][c].todo : i = j
                      /\ loop'[p].pc \in ReadingPC \/ pump'[p][c].pc = "handling"
                           => pump'[p][c].todo = {}
    BY DEF AtMostOne
  <2>1. /\ \A i, j \in pump[p][c].todo : i = j
        /\ loop[p].pc \in ReadingPC \/ pump[p][c].pc = "handling" => pump[p][c].todo = {}
        /\ PumpOK(p, c)
    BY DEF PumpsInv, AtMostOne
  <2>2. CASE Stays(p, c) \/ Publishes(p, c) \/ Rings(p, c) \/ Begins(p, c)
    BY <2>1, <2>2 DEF Stays, Publishes, Rings, Begins, ReadingPC, PublishPC
  <2>3. CASE Looks(p, c)
    <3>1. \A x, y \in unread[p] : x = y
      BY OneRowOnly
    <3> QED
      BY <2>3, <3>1 DEF Looks, ReadingPC
  <2>4. CASE Wakes(p, c) \/ Finishes(p, c)
    BY <2>1, <2>4 DEF Wakes, Finishes, ReadingPC, PumpOK
  <2>5. CASE Picks(p, c) \/ ReadsOn(p, c) \/ LoadsByte(p, c)
    BY <2>1, <2>5 DEF Picks, ReadsOn, LoadsByte, ReadingPC, PumpOK
  <2>6. CASE StoresByte(p, c) \/ GivesUp(p, c) \/ GoesOn(p, c)
    BY <2>1, <2>6 DEF StoresByte, GivesUp, GoesOn, ReadingPC
  <2> QED
    BY <1>1, <2>2, <2>3, <2>4, <2>5, <2>6 DEF PumpTurn
<1> QED
  BY <1>2, <1>3, <1>4 DEF PumpsInv

\* A handler raises LinkError, or answers with more than a row holds.
MayGiveUp == Verdicts \cap {"error", "oversized"} # {}

\* Unless a handler makes the pump give up, no row that is unread escapes it,
\* also when updates collide: a bit that is brought back is in hand, or its
\* writer has yet to ring.
LEMMA NextMindful ==
  ASSUME TypeInv, MarksInv, NEW c, TheChannel(c), PumpsInv(c), MindfulInv(c), MaxCrashes = 0,
         MayGiveUp => OneRow, [Next]_vars
  PROVE  MindfulInv(c)'
<1>1. PICK p \in Proc : PumpTurn(p, c) /\ LeavesOthers(p)
  BY PumpTurns
<1>0. bell \in [Proc -> Nat] /\ unread \in [Proc -> SUBSET Row]
  BY DEF TypeInv, TypeOK
<1>2. ASSUME NEW q \in Proc \ {p} PROVE Mindful(q, c)'
  <2>1. Mindful(q, c) /\ loop'[q] = loop[q] /\ pump'[q] = pump[q] /\ p \in Others(q)
    BY <1>1 DEF MindfulInv, LeavesOthers, OtherLoopsStay, Others
  <2>2. InHand(q, c)' = InHand(q, c)
    BY <2>1 DEF InHand
  <2>3. Covered(q) => Covered(q)'
    BY <1>0, <1>1 DEF Covered, LeavesOthers, OtherLoopsStay, Others
  <2>4. Covered(q)' \/ unread'[q] = unread[q]
    BY <1>1, <2>1 DEF Covered, LeavesOthers
  <2> QED
    BY <2>1, <2>2, <2>3, <2>4 DEF Mindful
<1>3. Mindful(p, c)'
  <2>1. Mindful(p, c) /\ PumpOK(p, c) /\ AtMostOne(p, c)
    BY DEF PumpsInv, MindfulInv
  <2>2. bell'[p] = bell[p] => Covered(p)' = Covered(p)
    BY <1>1 DEF Covered, LeavesOthers, OtherLoopsStay, Others
  <2>3. Rings(p, c) => bell'[p] = bell[p]
    BY DEF Rings, Rung
  <2> USE DEF ReadingPC
  <2>4. CASE Stays(p, c) \/ Publishes(p, c) \/ Rings(p, c) \/ Begins(p, c)
    BY <2>1, <2>2, <2>3, <2>4 DEF Stays, Publishes, Rings, Begins, Mindful, InHand, PublishPC
  <2>5. CASE Wakes(p, c)
    BY <2>5 DEF Wakes, Mindful
  <2>6. CASE Looks(p, c)
    <3>1. ASSUME NEW x \in unread'[p] PROVE x \in InHand(p, c)'
      <4>1. [row |-> x, seq |-> memory[x].seq] \in pump'[p][c].todo
        BY <2>6 DEF Looks
      <4> QED
        BY <4>1 DEF InHand
    <3> QED
      BY <2>6, <3>1 DEF Looks, Mindful
  <2>7. CASE Finishes(p, c)
    BY <2>1, <2>2, <2>7 DEF Finishes, Mindful, PumpOK, InHand
  <2>8. CASE Picks(p, c)
    <3> SUFFICES ASSUME ~Covered(p)' PROVE unread'[p] \subseteq InHand(p, c)' /\ loop'[p].pc # "lower"
      BY DEF Mindful
    <3>1. unread[p] \subseteq InHand(p, c) /\ UNCHANGED unread /\ ~Covered(p)
      BY <2>1, <2>2, <2>8 DEF Picks, Mindful, PumpOK
    <3>2. PICK item \in pump[p][c].todo :
            /\ pump'[p][c].todo = pump[p][c].todo \ {item}
            /\ \/ memory[item.row].complete /\ loop'[p].pc = "head" /\ loop'[p].row = item.row
               \/ ~memory[item.row].complete /\ loop'[p].pc = "next"
      BY <2>8 DEF Picks
    <3>3. ASSUME NEW x \in unread[p] PROVE x \in InHand(p, c)'
      <4>1. PICK i \in pump[p][c].todo : x = i.row
        BY <2>8, <3>1 DEF Picks, InHand
      <4>2. CASE i # item
        BY <3>2, <4>1, <4>2 DEF InHand
      <4>3. CASE i = item /\ memory[item.row].complete
        BY <3>2, <4>1, <4>3 DEF InHand
      <4>4. CASE i = item /\ ~memory[item.row].complete
        <5>1. x \in Row /\ x.owner # p /\ x.owner \in Proc
          BY <1>0 DEF MarksInv, Foreign, Row
        <5>2. Midway(x)
          BY <4>1, <4>4, <5>1 DEF MarksInv, RowsTold, Seen
        <5> QED
          BY <3>1, <5>1, <5>2 DEF Midway, Covered, Others, PublishPC
      <4> QED
        BY <4>2, <4>3, <4>4
    <3> QED
      BY <3>1, <3>2, <3>3
  <2>9. CASE ReadsOn(p, c)
    BY <2>1, <2>2, <2>9 DEF ReadsOn, Mindful, InHand
  <2>10. CASE LoadsByte(p, c)
    BY <2>1, <2>2, <2>10 DEF LoadsByte, Mindful, InHand
  <2>11. CASE StoresByte(p, c)
    <3> SUFFICES ASSUME ~Covered(p)' PROVE unread'[p] \subseteq InHand(p, c)' /\ loop'[p].pc # "lower"
      BY DEF Mindful
    <3>1. /\ unread[p] \subseteq InHand(p, c)
          /\ loop[p].loaded => loop[p].byte \subseteq InHand(p, c)
      BY <2>1, <2>2, <2>11 DEF StoresByte, Mindful, PumpOK
    <3>2. \A x \in unread'[p] :
            x # loop[p].row /\ (x \in unread[p] \/ (loop[p].loaded /\ x \in loop[p].byte))
      BY <2>11, StoredByte DEF StoresByte
    <3>3. \A x \in InHand(p, c) : x # loop[p].row => x \in InHand(p, c)'
      BY <2>11 DEF StoresByte, InHand
    <3> QED
      BY <2>11, <3>1, <3>2, <3>3 DEF StoresByte
  <2>12. CASE GivesUp(p, c)
    <3>1. pump[p][c].todo = {}
      BY <2>1, <2>12 DEF GivesUp, MayGiveUp, AtMostOne
    <3> QED
      BY <2>1, <2>2, <2>12, <3>1 DEF GivesUp, Mindful, InHand
  <2>13. CASE GoesOn(p, c)
    BY <2>1, <2>2, <2>13 DEF GoesOn, Mindful, InHand
  <2> QED
    BY <1>1, <2>4, <2>5, <2>6, <2>7, <2>8, <2>9, <2>10, <2>11, <2>12, <2>13 DEF PumpTurn
<1> QED
  BY <1>2, <1>3 DEF MindfulInv

\* w has marked q's bit of the row that it writes and has not rung yet.
OwesRing(w, q) == loop[w].pc \in {"mark", "ring"} /\ q \notin loop[w].readers

\* The tokens of p, those that are on their way too.
Ringers(p) == {w \in Others(p) : OwesRing(w, p)}
Tokens(p) == bell[p] + Cardinality(Ringers(p))
Mail(p)   == Cardinality(unread[p])

\* The pump that gives up, or waits, has as many tokens as unread rows; the one
\* that has taken a token is one short until it lowers the bit of a row it has in
\* hand.  Updates must not collide: a stored byte may bring back many bits.
Counted(p, c) ==
  /\ IsFiniteSet(unread[p])
  /\ Mail(p) <= Tokens(p) + 1
  /\ pump[p][c].pc \in {"asleep", "handling"} => Mail(p) <= Tokens(p)
  /\ pump[p][c].pc = "draining" =>
       \/ Mail(p) <= Tokens(p)
       \/ InHand(p, c) # {} /\ InHand(p, c) \subseteq unread[p]

CountInv(c) == \A p \in Proc : Counted(p, c)

\* Those who are yet to ring are finitely many, before a step
LEMMA RingersFinite ==
  /\ IsFiniteSet(Proc)
  /\ \A p : IsFiniteSet(Ringers(p)) /\ Cardinality(Ringers(p)) \in Nat
<1>1. IsFiniteSet(Proc)
  <2>1. 0 \in Int /\ ProcessCount - 1 \in Int
    BY LinkAssumption
  <2> QED
    BY <2>1, FS_Interval DEF Proc
<1> SUFFICES ASSUME NEW p PROVE IsFiniteSet(Ringers(p)) /\ Cardinality(Ringers(p)) \in Nat
  BY <1>1
<1>2. Ringers(p) \subseteq Proc
  BY DEF Ringers, Others
<1>3. IsFiniteSet(Ringers(p))
  BY <1>1, <1>2, FS_Subset
<1> QED
  BY <1>3, FS_CardinalityType

\* and after it.
LEMMA RingersFiniteNext ==
  \A p : IsFiniteSet(Ringers(p)') /\ Cardinality(Ringers(p)') \in Nat
<1> SUFFICES ASSUME NEW p PROVE IsFiniteSet(Ringers(p)') /\ Cardinality(Ringers(p)') \in Nat
  OBVIOUS
<1>1. Ringers(p)' \subseteq Proc
  BY DEF Ringers, Others
<1>2. IsFiniteSet(Ringers(p)')
  BY <1>1, RingersFinite, FS_Subset
<1> QED
  BY <1>2, FS_CardinalityType

\* A step of p costs q no token on its way and brings q at most one row, with
\* another token; or it lowers a bit of q.
Costs(p, q) ==
  \/ /\ bell'[q] = bell[q] /\ (OwesRing(p, q) => OwesRing(p, q)')
     /\ \/ unread'[q] = unread[q]
        \/ \E x : unread'[q] = unread[q] \ {x}
        \/ /\ ~OwesRing(p, q) /\ OwesRing(p, q)'
           /\ \E x : unread'[q] = unread[q] \cup {x}
  \/ bell'[q] = bell[q] + 1 /\ unread'[q] = unread[q]

\* When updates do not collide, this is all that a step does to another process.
LEMMA StepCosts ==
  ASSUME ~RacyUpdates, TypeInv, MarksInv, NEW c, NEW p \in Proc, PumpTurn(p, c), LeavesOthers(p),
         NEW q \in Proc \ {p}
  PROVE  Costs(p, q)
<1>0. loop[p] \in LoopState /\ unread \in [Proc -> SUBSET Row] /\ loop \in [Proc -> LoopState]
  BY DEF TypeInv, TypeOK
<1>1. CASE ~Publishes(p, c)
  <2>1. CASE Rings(p, c)
    BY <2>1 DEF Rings, Rung, Costs
  <2>2. CASE ~Rings(p, c)
    <3>1. bell'[q] = bell[q] \/ bell'[q] = bell[q] + 1
      BY DEF LeavesOthers
    <3>2. UNCHANGED loop \/ loop[p].pc \notin {"mark", "ring"}
      BY <1>1, <2>2 DEF PumpTurn, Stays, Begins, Wakes, Looks, Finishes, Picks, ReadsOn, LoadsByte,
                  StoresByte, GivesUp, GoesOn
    <3>3. unread'[q] = unread[q]
      <4>1. CASE UNCHANGED unread
        BY <4>1
      <4>2. CASE StoresByte(p, c)
        BY <4>2 DEF StoresByte, LeavesOthers, PublishPC
      <4> QED
        BY <1>1, <2>2, <4>1, <4>2 DEF PumpTurn, Stays, Begins, Wakes, Looks, Finishes, Picks, ReadsOn,
                                LoadsByte, GivesUp, GoesOn
    <3>5. OwesRing(p, q) => OwesRing(p, q)'
      BY <3>2 DEF OwesRing
    <3> QED
      BY <3>1, <3>3, <3>5 DEF Costs
  <2> QED
    BY <2>1, <2>2
<1>2. CASE Publishes(p, c)
  <2>0. UNCHANGED bell
    BY <1>2 DEF Publishes
  <2>1. CASE loop[p].pc \notin {"lap", "mark"}
    <3>1. loop[p].pc \notin {"mark", "ring"} /\ UNCHANGED unread
      BY <1>2, <2>1 DEF Publishes, Advances, ClaimRow, CountMissed, Invalidate, TakeNumber,
                        WriteBody, Complete, MarkUnread, shared
    <3> QED
      BY <2>0, <3>1 DEF Costs, OwesRing
  <2> DEFINE r == Least(loop[p].readers)
  <2>2. CASE loop[p].pc = "lap"
    <3>1. loop[p].row \in Row
      BY <2>2, AtRow
    <3>2. unread' = [unread EXCEPT ![r] = Lowered(p, r, loop[p].row)]
      BY <1>2, <2>2 DEF Publishes, Advances, ClaimRow, CountMissed, Invalidate, TakeNumber,
                        WriteBody, Complete, MarkUnread, LoadByte
    <3>3. r \in Proc => Lowered(p, r, loop[p].row) = unread[r] \ {loop[p].row}
      BY <3>1, WrittenIsOneBit
    <3> HIDE DEF r
    <3>4. unread'[q] = unread[q] \/ unread'[q] = unread[q] \ {loop[p].row}
      BY <1>0, <3>2, <3>3
    <3> QED
      BY <2>0, <2>2, <3>4 DEF Costs, OwesRing
  <2>3. CASE loop[p].pc = "mark"
    <3>1. loop[p].row \in Row
      BY <2>3, AtRow
    <3> DEFINE rest == loop[p].readers \ {r}
               pc   == IF rest = {} THEN "ring" ELSE "mark"
               done == [loop[p] EXCEPT !.readers = rest, !.byte = {}, !.loaded = FALSE, !.pc = pc]
    <3>2. /\ unread' = [unread EXCEPT ![r] = Raised(p, r, loop[p].row)]
          /\ loop' = [loop EXCEPT ![p] = done]
      BY <1>0, <1>2, <2>3 DEF Publishes, Advances, ClaimRow, CountMissed, Invalidate, TakeNumber,
                              WriteBody, Complete, MarkUnread, LoadByte
    <3>3. r \in Proc => Raised(p, r, loop[p].row) = unread[r] \cup {loop[p].row}
      BY <3>1, WrittenIsOneBit
    <3>4. r \in loop[p].readers
      BY <1>0, <2>3, LeastIsLeast DEF MarksInv, Foreign, LoopState
    <3>5. pc \in {"ring", "mark"}
      OBVIOUS
    <3> HIDE DEF r, rest, pc
    <3>6. done.pc = pc /\ done.readers = rest
      BY <1>0 DEF LoopState
    <3> HIDE DEF done
    <3>7. loop'[p] = done
      BY <3>2, LoopIs
    <3>8. CASE q = r
      <4>1. ~OwesRing(p, q) /\ OwesRing(p, q)'
        BY <3>4, <3>5, <3>6, <3>7, <3>8 DEF OwesRing, rest
      <4>2. unread'[q] = unread[q] \cup {loop[p].row}
        BY <1>0, <3>2, <3>3, <3>8
      <4> QED
        BY <2>0, <4>1, <4>2 DEF Costs
    <3>9. CASE q # r
      <4>1. OwesRing(p, q) => OwesRing(p, q)'
        BY <3>5, <3>6, <3>7 DEF OwesRing, rest
      <4>2. unread'[q] = unread[q]
        BY <1>0, <3>2, <3>9
      <4> QED
        BY <2>0, <4>1, <4>2 DEF Costs
    <3> QED
      BY <3>8, <3>9
  <2> QED
    BY <2>1, <2>2, <2>3
<1> QED
  BY <1>1, <1>2

\* Adding or taking one member of a finite set.
LEMMA OneMember ==
  ASSUME NEW S, IsFiniteSet(S), NEW x
  PROVE  /\ IsFiniteSet(S \cup {x}) /\ Cardinality(S \cup {x}) <= Cardinality(S) + 1
         /\ IsFiniteSet(S \ {x}) /\ Cardinality(S \ {x}) <= Cardinality(S)
         /\ x \in S => Cardinality(S \ {x}) = Cardinality(S) - 1
         /\ Cardinality(S) \in Nat
         /\ Cardinality(S \cup {x}) \in Nat /\ Cardinality(S \ {x}) \in Nat
<1>1. /\ IsFiniteSet(S \cup {x})
      /\ Cardinality(S \cup {x}) = IF x \in S THEN Cardinality(S) ELSE Cardinality(S) + 1
  BY FS_AddElement
<1>2. /\ IsFiniteSet(S \ {x})
      /\ Cardinality(S \ {x}) = IF x \in S THEN Cardinality(S) - 1 ELSE Cardinality(S)
  BY FS_RemoveElement
<1>3. /\ Cardinality(S) \in Nat
      /\ Cardinality(S \cup {x}) \in Nat /\ Cardinality(S \ {x}) \in Nat
  BY <1>1, <1>2, FS_CardinalityType
<1> QED
  BY <1>1, <1>2, <1>3

\* What p's own turn leaves of its tokens: the ringers are other processes.
LEMMA OwnTokens ==
  ASSUME NEW p \in Proc, OtherLoopsStay(p)
  PROVE  Ringers(p)' = Ringers(p)
BY DEF Ringers, Others, OwesRing, OtherLoopsStay

\* Nobody else's turn makes p's pump miss a token.
LEMMA OthersCounted ==
  ASSUME TypeInv, NEW c, NEW p \in Proc, NEW q \in Proc \ {p}, LeavesOthers(p), Costs(p, q),
         Counted(q, c)
  PROVE  Counted(q, c)'
<1>1. /\ bell[q] \in Nat /\ loop'[q] = loop[q] /\ pump'[q] = pump[q] /\ IsFiniteSet(unread[q])
      /\ IsFiniteSet(Ringers(q)) /\ Cardinality(Ringers(q)) \in Nat
      /\ IsFiniteSet(Ringers(q)') /\ Cardinality(Ringers(q)') \in Nat /\ Mail(q) \in Nat
      /\ p \in Others(q)
  BY RingersFinite, RingersFiniteNext, FS_CardinalityType
     DEF TypeInv, TypeOK, LeavesOthers, OtherLoopsStay, Counted, Mail, Others
<1>2. InHand(q, c)' = InHand(q, c)
  BY <1>1 DEF InHand
<1>3. \A w \in Proc \ {p} : OwesRing(w, q)' <=> OwesRing(w, q)
  BY DEF LeavesOthers, OtherLoopsStay, OwesRing
<1>4. ASSUME OwesRing(p, q) => OwesRing(p, q)'
      PROVE  Cardinality(Ringers(q)') >= Cardinality(Ringers(q))
  <2>1. Ringers(q) \subseteq Ringers(q)'
    BY <1>3, <1>4 DEF Ringers, Others
  <2> QED
    BY <1>1, <2>1, FS_Subset
<1>5. ASSUME ~OwesRing(p, q), OwesRing(p, q)'
      PROVE  Cardinality(Ringers(q)') = Cardinality(Ringers(q)) + 1
  <2>1. Ringers(q)' = Ringers(q) \cup {p} /\ p \notin Ringers(q)
    BY <1>1, <1>3, <1>5 DEF Ringers, Others
  <2> QED
    BY <1>1, <2>1, FS_AddElement
<1>6. Cardinality(Ringers(q)') >= Cardinality(Ringers(q)) - 1
  <2>1. Ringers(q) \ {p} \subseteq Ringers(q)'
    BY <1>3 DEF Ringers, Others
  <2>2. /\ IsFiniteSet(Ringers(q) \ {p}) /\ Cardinality(Ringers(q) \ {p}) \in Nat
        /\ Cardinality(Ringers(q) \ {p}) >= Cardinality(Ringers(q)) - 1
    <3>1. /\ IsFiniteSet(Ringers(q) \ {p}) /\ Cardinality(Ringers(q) \ {p}) \in Nat
          /\ Cardinality(Ringers(q) \ {p}) <= Cardinality(Ringers(q))
          /\ p \in Ringers(q) => Cardinality(Ringers(q) \ {p}) = Cardinality(Ringers(q)) - 1
      BY <1>1, OneMember
    <3>2. p \notin Ringers(q) => Cardinality(Ringers(q) \ {p}) = Cardinality(Ringers(q))
      <4>1. p \notin Ringers(q) => Ringers(q) \ {p} = Ringers(q)
        OBVIOUS
      <4> QED
        BY <4>1
    <3> DEFINE all == Cardinality(Ringers(q))
               rest == Cardinality(Ringers(q) \ {p})
    <3>3. all \in Nat /\ rest \in Nat /\ (rest = all \/ rest = all - 1)
      BY <1>1, <3>1, <3>2
    <3> HIDE DEF all, rest
    <3>4. rest >= all - 1
      BY <3>3
    <3> QED
      BY <3>1, <3>4 DEF all, rest
  <2>3. Cardinality(Ringers(q) \ {p}) <= Cardinality(Ringers(q)')
    BY <1>1, <2>1, FS_Subset
  <2> QED
    BY <1>1, <2>2, <2>3
<1>7. /\ Mail(q) <= Tokens(q) + 1
      /\ pump[q][c].pc \in {"asleep", "handling"} => Mail(q) <= Tokens(q)
      /\ pump[q][c].pc = "draining" =>
           \/ Mail(q) <= Tokens(q)
           \/ InHand(q, c) # {} /\ InHand(q, c) \subseteq unread[q]
  BY DEF Counted
<1>8. Tokens(q) \in Nat /\ Tokens(q)' = bell'[q] + Cardinality(Ringers(q)') /\ Tokens(q)' \in Int
      /\ Tokens(q) = bell[q] + Cardinality(Ringers(q))
  <2>1. bell'[q] \in Nat
    BY <1>1 DEF LeavesOthers
  <2> QED
    BY <1>1, <2>1 DEF Tokens
<1>9. CASE unread'[q] = unread[q] /\ Tokens(q)' >= Tokens(q)
  <2>1. Mail(q)' = Mail(q) /\ IsFiniteSet(unread'[q])
    BY <1>1, <1>9 DEF Mail
  <2>2. /\ Mail(q)' <= Tokens(q)' + 1
        /\ pump'[q][c].pc \in {"asleep", "handling"} => Mail(q)' <= Tokens(q)'
        /\ pump'[q][c].pc = "draining" =>
             \/ Mail(q)' <= Tokens(q)'
             \/ InHand(q, c)' # {} /\ InHand(q, c)' \subseteq unread'[q]
    BY <1>1, <1>2, <1>7, <1>8, <1>9, <2>1
  <2> QED
    BY <2>1, <2>2 DEF Counted
<1>10. CASE (\E x : unread'[q] = unread[q] \ {x}) /\ Tokens(q)' >= Tokens(q)
  <2>1. PICK x : unread'[q] = unread[q] \ {x}
    BY <1>10
  <2>2. CASE x \notin unread[q]
    BY <1>9, <1>10, <2>1, <2>2
  <2>3. CASE x \in unread[q]
    <3>1. Mail(q)' = Mail(q) - 1 /\ IsFiniteSet(unread'[q])
      BY <1>1, <2>1, <2>3, OneMember DEF Mail
    <3>2. Mail(q)' <= Tokens(q)'
      BY <1>1, <1>7, <1>8, <1>10, <3>1
    <3>3. Mail(q)' <= Tokens(q)' + 1
      BY <1>1, <1>8, <3>1, <3>2
    <3> QED
      BY <3>1, <3>2, <3>3 DEF Counted
  <2> QED
    BY <2>2, <2>3
<1>11. CASE (\E x : unread'[q] = unread[q] \cup {x}) /\ Tokens(q)' = Tokens(q) + 1
  <2>1. PICK x : unread'[q] = unread[q] \cup {x}
    BY <1>11
  <2>2. Mail(q)' <= Mail(q) + 1 /\ Mail(q)' \in Nat /\ IsFiniteSet(unread'[q])
    BY <1>1, <2>1, OneMember DEF Mail
  <2>3. unread[q] \subseteq unread'[q]
    BY <2>1
  <2>4. Mail(q)' <= Tokens(q)' + 1
    BY <1>1, <1>7, <1>8, <1>11, <2>2
  <2>5. Mail(q) <= Tokens(q) => Mail(q)' <= Tokens(q)'
    BY <1>1, <1>8, <1>11, <2>2
  <2> QED
    BY <1>1, <1>2, <1>7, <2>2, <2>3, <2>4, <2>5 DEF Counted
<1>12. CASE bell'[q] = bell[q] /\ (OwesRing(p, q) => OwesRing(p, q)')
            /\ (unread'[q] = unread[q] \/ \E x : unread'[q] = unread[q] \ {x})
  <2>1. Tokens(q)' >= Tokens(q)
    BY <1>1, <1>4, <1>8, <1>12
  <2> QED
    BY <1>9, <1>10, <1>12, <2>1
<1>13. CASE bell'[q] = bell[q] /\ ~OwesRing(p, q) /\ OwesRing(p, q)'
            /\ \E x : unread'[q] = unread[q] \cup {x}
  <2>1. Tokens(q)' = Tokens(q) + 1
    BY <1>1, <1>5, <1>8, <1>13
  <2> QED
    BY <1>11, <1>13, <2>1
<1>14. CASE bell'[q] = bell[q] + 1 /\ unread'[q] = unread[q]
  <2>1. Tokens(q)' >= Tokens(q)
    BY <1>1, <1>6, <1>8, <1>14
  <2> QED
    BY <1>9, <1>14, <2>1
<1> QED
  BY <1>12, <1>13, <1>14 DEF Costs

\* Nor does the pump's own turn: it takes one token and lowers one bit at least
\* before it gives up, or finds that a writer has lowered one.
LEMMA OwnCounted ==
  ASSUME ~RacyUpdates, TypeInv, BitMeansComplete, NEW c, NEW p \in Proc, PumpOK(p, c),
         PumpTurn(p, c), LeavesOthers(p), Counted(p, c)
  PROVE  Counted(p, c)'
<1>1. /\ bell[p] \in Nat /\ IsFiniteSet(unread[p]) /\ Mail(p) \in Nat
      /\ Cardinality(Ringers(p)) \in Nat /\ Ringers(p)' = Ringers(p)
  BY RingersFinite, OwnTokens, FS_CardinalityType
     DEF TypeInv, TypeOK, LeavesOthers, Counted, Mail
<1>2. /\ Mail(p) <= Tokens(p) + 1
      /\ pump[p][c].pc \in {"asleep", "handling"} => Mail(p) <= Tokens(p)
      /\ pump[p][c].pc = "draining" =>
           \/ Mail(p) <= Tokens(p)
           \/ InHand(p, c) # {} /\ InHand(p, c) \subseteq unread[p]
  BY DEF Counted
<1>3. Tokens(p) \in Nat /\ (bell'[p] = bell[p] => Tokens(p)' = Tokens(p))
      /\ (bell'[p] = bell[p] - 1 => Tokens(p)' = Tokens(p) - 1)
  BY <1>1 DEF Tokens
<1>4. Rings(p, c) => bell'[p] = bell[p]
  BY DEF Rings, Rung
<1>5. unread'[p] = unread[p] => Mail(p)' = Mail(p) /\ IsFiniteSet(unread'[p])
  BY <1>1 DEF Mail
<1>a. ASSUME unread'[p] = unread[p], bell'[p] = bell[p],
             pump'[p][c].pc \in {"asleep", "handling"} => Mail(p) <= Tokens(p),
             pump'[p][c].pc = "draining" =>
               \/ Mail(p) <= Tokens(p)
               \/ InHand(p, c)' # {} /\ InHand(p, c)' \subseteq unread[p]
      PROVE  Counted(p, c)'
  <2>1. Tokens(p)' = Tokens(p) /\ Mail(p)' = Mail(p) /\ IsFiniteSet(unread'[p])
    BY <1>a, <1>3, <1>5
  <2>2. Mail(p)' <= Tokens(p)' + 1
    BY <1>2, <2>1
  <2> QED
    BY <1>a, <2>1, <2>2 DEF Counted
<1> USE DEF ReadingPC
<1>6. CASE Stays(p, c) \/ Publishes(p, c) \/ Rings(p, c) \/ Begins(p, c)
  <2>1. unread'[p] = unread[p] /\ bell'[p] = bell[p] /\ pump'[p] = pump[p]
    BY <1>4, <1>6 DEF Stays, Publishes, Rings, Begins
  <2>2. InHand(p, c)' = InHand(p, c)
    <3>1. loop'[p] = loop[p] \/ (loop[p].pc \notin ReadingPC /\ loop'[p].pc \notin ReadingPC)
      BY <1>6 DEF Stays, Publishes, Rings, Begins, PublishPC
    <3> QED
      BY <2>1, <3>1 DEF InHand
  <2> QED
    BY <1>a, <1>2, <2>1, <2>2
<1>7. CASE Wakes(p, c)
  <2>1. Tokens(p)' = Tokens(p) - 1 /\ Mail(p)' = Mail(p) /\ IsFiniteSet(unread'[p])
        /\ pump'[p][c].pc = "awake" /\ Mail(p) <= Tokens(p)
    BY <1>2, <1>3, <1>5, <1>7 DEF Wakes
  <2>2. Mail(p)' <= Tokens(p)' + 1
    BY <1>1, <1>3, <2>1
  <2> QED
    BY <2>1, <2>2 DEF Counted
<1>8. CASE Looks(p, c)
  <2>1. /\ UNCHANGED <<unread, bell>>
        /\ pump'[p][c].todo = {[row |-> x, seq |-> memory[x].seq] : x \in unread[p]}
        /\ \/ unread[p] = {} /\ pump'[p][c].pc = "asleep" /\ loop'[p].pc = "free"
           \/ unread[p] # {} /\ pump'[p][c].pc = "draining" /\ loop'[p].pc = "next"
    BY <1>8 DEF Looks
  <2>2. unread[p] = {} => Mail(p) = 0
    BY FS_EmptySet DEF Mail
  <2>3. InHand(p, c)' = unread[p]
    <3>1. InHand(p, c)' = {item.row : item \in pump'[p][c].todo}
      BY <2>1 DEF InHand
    <3>2. \A x \in unread[p] : [row |-> x, seq |-> memory[x].seq] \in pump'[p][c].todo
      BY <2>1
    <3>3. \A i \in pump'[p][c].todo : i.row \in unread[p]
      BY <2>1
    <3>4. ASSUME NEW x \in unread[p] PROVE x \in InHand(p, c)'
      <4>1. [row |-> x, seq |-> memory[x].seq].row = x
        OBVIOUS
      <4> QED
        BY <3>1, <3>2, <4>1
    <3>5. ASSUME NEW x \in InHand(p, c)' PROVE x \in unread[p]
      BY <3>1, <3>3
    <3> QED
      BY <3>4, <3>5
  <2>4. Mail(p) = 0 => Mail(p) <= Tokens(p)
    BY <1>3
  <2> QED
    BY <1>a, <2>1, <2>2, <2>3, <2>4
<1>9. CASE Finishes(p, c)
  <2>1. InHand(p, c) = {} /\ pump[p][c].pc = "draining"
    BY <1>9 DEF Finishes, InHand, PumpOK
  <2> QED
    BY <1>a, <1>2, <1>9, <2>1 DEF Finishes
<1>10. CASE Picks(p, c)
  <2>1. PICK item \in pump[p][c].todo :
          /\ pump'[p][c].todo = pump[p][c].todo \ {item}
          /\ \/ memory[item.row].complete /\ loop'[p].pc = "head" /\ loop'[p].row = item.row
             \/ ~memory[item.row].complete /\ loop'[p].pc = "next"
    BY <1>10 DEF Picks
  <2>2. /\ UNCHANGED <<unread, bell>> /\ loop[p].pc = "next"
        /\ pump[p][c].pc = "draining" /\ pump'[p][c].pc = "draining"
    BY <1>10 DEF Picks, PumpOK
  <2>3. item.row \in InHand(p, c)
    BY <2>1 DEF InHand
  <2>4. CASE memory[item.row].complete
    <3>1. InHand(p, c)' # {} /\ InHand(p, c)' \subseteq InHand(p, c)
      BY <2>1, <2>2, <2>3, <2>4 DEF InHand
    <3> QED
      BY <1>a, <1>2, <2>2, <3>1
  <2>5. CASE ~memory[item.row].complete
    <3>1. item.row \notin unread[p]
      BY <2>5 DEF BitMeansComplete
    <3> QED
      BY <1>a, <1>2, <2>2, <2>3, <3>1
  <2> QED
    BY <2>4, <2>5
<1>11. CASE ReadsOn(p, c) \/ LoadsByte(p, c)
  <2>1. UNCHANGED <<unread, bell, pump>> /\ InHand(p, c)' = InHand(p, c)
    BY <1>11 DEF ReadsOn, LoadsByte, InHand
  <2> QED
    BY <1>a, <1>2, <2>1
<1>12. CASE StoresByte(p, c)
  <2>1. loop[p].row \in InHand(p, c) /\ pump[p][c].pc = "draining"
    BY <1>12 DEF StoresByte, InHand, PumpOK
  <2>2. unread'[p] = unread[p] \ {loop[p].row} /\ bell'[p] = bell[p]
    BY <1>12, WrittenIsOneBit DEF StoresByte
  <2>3. /\ IsFiniteSet(unread'[p]) /\ Mail(p)' \in Nat /\ Mail(p)' <= Mail(p)
        /\ loop[p].row \in unread[p] => Mail(p)' = Mail(p) - 1
    BY <1>1, <2>2, OneMember DEF Mail
  <2>4. Mail(p)' <= Tokens(p)
    BY <1>1, <1>2, <1>3, <2>1, <2>3
  <2>5. Tokens(p)' = Tokens(p) /\ Mail(p)' <= Tokens(p)' + 1
    BY <1>3, <2>2, <2>3, <2>4
  <2> QED
    BY <2>3, <2>4, <2>5 DEF Counted
<1>13. CASE GivesUp(p, c) \/ GoesOn(p, c)
  <2>1. /\ UNCHANGED <<unread, bell>> /\ pump[p][c].pc = "handling"
    BY <1>13 DEF GivesUp, GoesOn
  <2> QED
    BY <1>a, <1>2, <2>1
<1> QED
  BY <1>6, <1>7, <1>8, <1>9, <1>10, <1>11, <1>12, <1>13 DEF PumpTurn

\* At the start there are no tokens and no mail.
LEMMA InitCounted == \A c \in Channel : Init => CountInv(c)
<1> SUFFICES ASSUME NEW c \in Channel, Init, NEW p \in Proc PROVE Counted(p, c)
  BY DEF CountInv
<1>1. unread[p] = {} /\ bell[p] = 0 /\ pump[p][c] = Asleep
  BY DEF Init
<1>2. IsFiniteSet(unread[p]) /\ Mail(p) = 0
  BY <1>1, FS_EmptySet DEF Mail
<1>3. Tokens(p) \in Nat
  BY <1>1, RingersFinite DEF Tokens
<1>4. Mail(p) <= Tokens(p) /\ Mail(p) <= Tokens(p) + 1
  BY <1>2, <1>3
<1> QED
  BY <1>2, <1>4 DEF Counted

\* When updates do not collide, every step but a crash keeps a token for each
\* unread row, whatever handlers end with.
LEMMA NextCounted ==
  ASSUME ~RacyUpdates, TypeInv, MarksInv, BitMeansComplete, NEW c, TheChannel(c), PumpsInv(c),
         CountInv(c), MaxCrashes = 0, [Next]_vars
  PROVE  CountInv(c)'
<1>1. PICK p \in Proc : PumpTurn(p, c) /\ LeavesOthers(p)
  BY PumpTurns
<1>2. Counted(p, c)'
  BY <1>1, OwnCounted DEF CountInv, PumpsInv
<1>3. \A q \in Proc \ {p} : Counted(q, c)'
  BY <1>1, StepCosts, OthersCounted DEF CountInv
<1> QED
  BY <1>2, <1>3 DEF CountInv

\* No pump sleeps on its mail, for every number of processes and rows, when the
\* bus has one channel and nobody dies: neither collisions of updates nor
\* handlers that raise LinkError or answer too much, each alone, make the bell
\* of _publish too few.  Both together do, unless a reader has one row to read.
THEOREM LinkWakes ==
  (/\ \E c : Channel = {c}
   /\ MaxCrashes = 0
   /\ RacyUpdates /\ MayGiveUp => OneRow)
    => (Spec => []NeverAsleepOnMail)
<1> SUFFICES ASSUME NEW c, TheChannel(c), MaxCrashes = 0, RacyUpdates /\ MayGiveUp => OneRow
             PROVE  Spec => []NeverAsleepOnMail
  BY DEF TheChannel
<1>0. c \in Channel
  BY DEF TheChannel
<1> DEFINE Base == TypeInv /\ MarksInv /\ PumpsInv(c)
<1>1. Init => Base
  BY <1>0, InitTypeInv, InitMarks, InitPumps
<1>2. Base /\ [Next]_vars => Base'
  BY NextTypeInv, NextMarks, NextPumps
<1>3. CASE MayGiveUp => OneRow
  <2>1. Init => MindfulInv(c)
    BY <1>0, InitPumps
  <2>2. Base /\ MindfulInv(c) /\ [Next]_vars => MindfulInv(c)'
    BY <1>3, NextMindful
  <2>3. Base /\ MindfulInv(c) => NeverAsleepOnMail
    <3> SUFFICES ASSUME Base, MindfulInv(c), NEW p \in Proc, NEW d \in Channel,
                        pump[p][d].pc = "asleep", unread[p] # {}, ~(bell[p] > 0)
                 PROVE  \E w \in Others(p) : loop[w].ch = d /\ loop[w].pc \in PublishPC
      BY DEF NeverAsleepOnMail
    <3>1. d = c /\ Mindful(p, c) /\ PumpOK(p, c)
      BY DEF TheChannel, MindfulInv, PumpsInv
    <3>2. InHand(p, c) = {}
      BY <3>1 DEF InHand, PumpOK
    <3>3. PICK w \in Others(p) : loop[w].pc \in PublishPC
      BY <3>1, <3>2 DEF Mindful, Covered
    <3>4. loop[w].ch = c
      BY <3>3 DEF TypeInv, Located, Placed, TheChannel, Others, PublishPC
    <3> QED
      BY <3>1, <3>3, <3>4
  <2> HIDE DEF Base
  <2> QED
    BY <1>1, <1>2, <2>1, <2>2, <2>3, PTL DEF Spec
<1>4. CASE ~RacyUpdates
  <2>1. Init => CountInv(c) /\ WriterInv /\ BitMeansComplete
    BY <1>0, InitCounted, InitBitInv
  <2>2. Base /\ WriterInv /\ BitMeansComplete /\ [Next]_vars => WriterInv' /\ BitMeansComplete'
    BY <1>4, NextBitInv DEF BitInv
  <2>3. Base /\ BitMeansComplete /\ CountInv(c) /\ [Next]_vars => CountInv(c)'
    BY <1>4, NextCounted
  <2>4. Base /\ CountInv(c) => NeverAsleepOnMail
    <3> SUFFICES ASSUME Base, CountInv(c), NEW p \in Proc, NEW d \in Channel,
                        pump[p][d].pc = "asleep", unread[p] # {}, ~(bell[p] > 0)
                 PROVE  \E w \in Others(p) : loop[w].ch = d /\ loop[w].pc \in PublishPC
      BY DEF NeverAsleepOnMail
    <3>1. d = c /\ Counted(p, c) /\ bell[p] = 0
      BY DEF TheChannel, CountInv, TypeInv, TypeOK
    <3>2. IsFiniteSet(unread[p]) /\ Mail(p) <= Tokens(p)
      BY <3>1 DEF Counted
    <3>3. Mail(p) \in Nat /\ Mail(p) # 0
      BY <3>2, FS_CardinalityType, FS_EmptySet DEF Mail
    <3>4. Cardinality(Ringers(p)) # 0
      BY <3>1, <3>2, <3>3, RingersFinite DEF Tokens
    <3>5. PICK w \in Ringers(p) : TRUE
      BY <3>4, FS_EmptySet
    <3>6. w \in Others(p) /\ loop[w].pc \in PublishPC
      BY <3>5 DEF Ringers, OwesRing, PublishPC
    <3>7. loop[w].ch = c
      BY <3>6 DEF TypeInv, Located, Placed, TheChannel, Others, PublishPC
    <3> QED
      BY <3>1, <3>6, <3>7
  <2> HIDE DEF Base
  <2> QED
    BY <1>1, <1>2, <2>1, <2>2, <2>3, <2>4, PTL DEF Spec
<1> QED
  BY <1>3, <1>4
=============================================================================
