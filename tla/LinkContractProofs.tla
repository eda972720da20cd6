------------------------- MODULE LinkContractProofs -------------------------
(***************************************************************************)
(* The bus keeps the contract of LinkContract, for every number of         *)
(* processes and rows, as long as updates of shared memory do not collide: *)
(* the inductive invariant of the rows, of the readers that were not       *)
(* lapped and of what they have taken, and the step of the contract that   *)
(* each step of the code makes.                                            *)
(***************************************************************************)
EXTENDS ProcessLinkProofs

\* What the writer p has in hand, and what of it is in its row.
Writing(p) ==
  /\ loop[p].pc \in PublishPC =>
       /\ loop[p].head = loop[p].body
       /\ loop[p].body.from = p
       /\ loop[p].body.n = posted[p]
  /\ loop[p].pc \in PublishPC \ {"claim"} => loop[p].row.ch = loop[p].ch
  /\ loop[p].pc \in {"number", "body", "complete"} => ~memory[loop[p].row].complete
  /\ loop[p].pc \in {"body", "complete"} =>
       /\ memory[loop[p].row].head = loop[p].body
       /\ memory[loop[p].row].seq <= counter[loop[p].ch]
       /\ \A x \in Row : x.owner = p /\ x.ch = loop[p].ch /\ memory[x].complete
                           => memory[x].seq < memory[loop[p].row].seq
  /\ loop[p].pc \in {"complete", "mark", "ring"} => memory[loop[p].row].body = loop[p].body
  /\ loop[p].pc = "mark" =>
       loop[p].readers # {} /\ \A r \in loop[p].readers : loop[p].row \notin unread[r]
  /\ loop[p].pc = "ring" => loop[p].readers = {}

\* p publishes a message that is in no complete row but, once the row is
\* complete, in the row x.
NotYetIn(p, x) ==
  loop[p].pc \in PublishPC /\ ~(loop[p].pc \in {"mark", "ring"} /\ loop[p].row = x)

\* A complete row holds one message of its owner, older than the one the owner
\* is still publishing elsewhere.
WholeRow(x) ==
  memory[x].complete =>
    /\ memory[x].head = memory[x].body
    /\ memory[x].body.from = x.owner
    /\ memory[x].body.n <= posted[x.owner]
    /\ memory[x].seq <= counter[x.ch]
    /\ NotYetIn(x.owner, x) => memory[x].body.n < posted[x.owner]

\* The numbers of a writer's rows on a channel are in the order of its messages.
InOrder(x, y) ==
  (x # y /\ x.ch = y.ch /\ x.owner = y.owner /\ memory[x].complete /\ memory[y].complete)
    => \/ memory[x].seq < memory[y].seq /\ memory[x].body.n < memory[y].body.n
       \/ memory[y].seq < memory[x].seq /\ memory[y].body.n < memory[x].body.n

RowsInv ==
  /\ \A p \in Proc : Writing(p)
  /\ \A x \in Row : WholeRow(x)
  /\ \A x, y \in Row : InOrder(x, y)

Source(x, y) == x.ch = y.ch /\ x.owner = y.owner
NotNewer(x, y) == memory[x].body.n <= memory[y].body.n

Reads(r, x) == loop[r].pc \in ReadingPC /\ loop[r].row = x
Picked(r, c, x) == (\E i \in pump[r][c].todo : i.row = x) \/ Reads(r, x)

\* The snapshot of a pump that was not lapped: its rows are unread, and what is
\* unread besides is newer.
Snapshot(r, c) ==
  c \notin missed[r] =>
    \A i \in pump[r][c].todo :
      /\ i.row \in unread[r]
      /\ i.seq = memory[i.row].seq
      /\ \A x \in unread[r] : Source(x, i.row) => NotNewer(i.row, x) \/ Picked(r, c, x)

\* The row a pump that was not lapped is reading: unread, and the oldest that
\* its writer owes the reader.
Reading(r) ==
  (loop[r].pc \in ReadingPC /\ loop[r].ch \notin missed[r]) =>
    /\ loop[r].row \in unread[r]
    /\ \A i \in pump[r][loop[r].ch].todo : i.row # loop[r].row
    /\ \A x \in unread[r] : Source(x, loop[r].row) => NotNewer(loop[r].row, x)
    /\ loop[r].pc \in {"rest", "lower"} => loop[r].head = memory[loop[r].row].body
    /\ loop[r].pc = "lower" => loop[r].body = memory[loop[r].row].body

\* Lapped or not, a pump reads rows of its own channel.
OnChannel(r) ==
  /\ \A c \in Channel : \A i \in pump[r][c].todo : i.row.ch = c
  /\ loop[r].pc \in ReadingPC => loop[r].row.ch = loop[r].ch

ReaderOK(r) == OnChannel(r) /\ Reading(r) /\ \A c \in Channel : Snapshot(r, c)
ReadersInv == \A r \in Proc : ReaderOK(r)

\* w publishes a message that it has not yet marked for r.
NotYetFor(w, r) ==
  loop[w].pc \in PublishPC /\ ~(loop[w].pc \in {"mark", "ring"} /\ r \notin loop[w].readers)

\* What r has taken is older than what its writer is still to mark for it.
Past(r) ==
  \A i \in DOMAIN delivered[r] :
    LET d == delivered[r][i]
    IN  (d.ch \notin missed[r] /\ d.body.from \in Proc) =>
          /\ d.body.n <= posted[d.body.from]
          /\ NotYetFor(d.body.from, r) => d.body.n < posted[d.body.from]

PastInv == \A r \in Proc : Past(r)

ContractInv == BitInv /\ RowsInv /\ ReadersInv /\ PastInv
-----------------------------------------------------------------------------
(* What a step may do without disturbing the invariant                     *)

SameRow(x) ==
  /\ memory'[x].seq = memory[x].seq
  /\ memory'[x].head = memory[x].head
  /\ memory'[x].body = memory[x].body
  /\ memory'[x].complete = memory[x].complete

\* What the types say of rows, writers, pumps and loops.
Shapes ==
  /\ \A x \in Row : /\ memory[x] \in RowData /\ memory[x].seq \in Nat
                    /\ memory[x].body.n \in Nat /\ x.owner \in Proc /\ x.ch \in Channel
  /\ \A p \in Proc : posted[p] \in Nat /\ loop[p] \in LoopState
  /\ \A c \in Channel : counter[c] \in Nat
  /\ \A r \in Proc : unread[r] \subseteq Row
  /\ \A p \in Proc, c \in Channel :
       /\ pump[p][c] \in PumpState
       /\ \A i \in pump[p][c].todo : i \in [row : Row, seq : Nat]
  /\ \A p \in Proc : loop[p].pc \notin {"free", "claim", "next"} => loop[p].row \in Row
  /\ \A p \in Proc : loop[p].pc # "free" => loop[p].ch \in Channel

\* Well-typed states have these shapes ...
LEMMA Typed == TypeInv => Shapes
<1> SUFFICES ASSUME TypeInv PROVE Shapes
  OBVIOUS
<1>1. TypeOK /\ Located
  BY DEF TypeInv
<1>2. \A x \in Row : /\ memory[x] \in RowData /\ memory[x].seq \in Nat
                     /\ memory[x].body.n \in Nat /\ x.owner \in Proc /\ x.ch \in Channel
  <2>1. \A x \in Row : memory[x] \in RowData
    BY <1>1 DEF TypeOK
  <2>2. \A d \in RowData : d.seq \in Nat /\ d.body \in Msg
    BY DEF RowData
  <2>3. \A m \in Msg : m.n \in Nat
    BY DEF Msg
  <2> QED
    BY <2>1, <2>2, <2>3 DEF Row
<1>3. \A p \in Proc, c \in Channel :
        /\ pump[p][c] \in PumpState
        /\ \A i \in pump[p][c].todo : i \in [row : Row, seq : Nat]
  <2>1. \A p \in Proc, c \in Channel : pump[p][c] \in PumpState
    BY <1>1 DEF TypeOK
  <2> QED
    BY <2>1 DEF PumpState
<1>4. \A p \in Proc : /\ loop[p].pc \notin {"free", "claim", "next"} => loop[p].row \in Row
                      /\ loop[p].pc # "free" => loop[p].ch \in Channel
  BY <1>1 DEF Located, Placed
<1> QED
  BY <1>1, <1>2, <1>3, <1>4 DEF TypeOK, Shapes

\* ... in the next state too.
LEMMA TypedNext == TypeInv' => Shapes'
BY Typed, PTL

\* A step of p that writes at most an incomplete row of p, marks at most a row
\* of p, and leaves p's own business in order, leaves all rows in order.
LEMMA RowsFrame ==
  ASSUME TypeInv, TypeInv', WriterInv, RowsInv, NEW p \in Proc, Writing(p)',
         \A q \in Proc \ {p} : loop'[q] = loop[q] /\ posted'[q] = posted[q],
         posted'[p] >= posted[p],
         \A c \in Channel : counter'[c] >= counter[c],
         \A x \in Row : SameRow(x) \/ (x.owner = p /\ ~memory'[x].complete),
         \A r \in Proc, x \in Row : x.owner # p /\ x \in unread'[r] => x \in unread[r],
         \A x \in Row : x.owner = p /\ NotYetIn(p, x)'
                          => NotYetIn(p, x) \/ posted'[p] > posted[p]
  PROVE  RowsInv'
<1> USE Typed, TypedNext DEF Shapes
<1>1. \A x \in Row : posted[x.owner] \in Nat /\ posted'[x.owner] \in Nat
                     /\ counter[x.ch] \in Nat /\ counter'[x.ch] \in Nat
                     /\ memory[x].seq \in Nat /\ memory[x].body.n \in Nat /\ x.owner \in Proc
  OBVIOUS
<1>2. ASSUME NEW q \in Proc \ {p} PROVE Writing(q)'
  <2>1. Writing(q) /\ loop'[q] = loop[q] /\ posted'[q] = posted[q]
    BY DEF RowsInv
  <2>2. loop[q].pc \in PublishPC \ {"claim"} =>
          /\ loop[q].row \in Row /\ loop[q].row.owner = q
          /\ loop[q].ch \in Channel
          /\ SameRow(loop[q].row)
          /\ memory[loop[q].row].seq \in Nat
          /\ counter[loop[q].ch] \in Nat /\ counter'[loop[q].ch] \in Nat
          /\ \A r \in Proc : loop[q].row \in unread'[r] => loop[q].row \in unread[r]
    BY DEF WriterInv, WriterOK, PublishPC
  <2>3. \A x \in Row : x.owner = q => SameRow(x)
    OBVIOUS
  <2>4. loop[q].readers \subseteq Proc
    BY DEF LoopState
  <2> QED
    BY <2>1, <2>2, <2>3, <2>4 DEF Writing, SameRow, PublishPC
<1>3. ASSUME NEW x \in Row PROVE WholeRow(x)'
  <2>1. WholeRow(x)
    BY DEF RowsInv
  <2>2. CASE ~memory'[x].complete
    BY <2>2 DEF WholeRow
  <2>3. CASE SameRow(x)
    <3>1. NotYetIn(x.owner, x)' => NotYetIn(x.owner, x) \/ posted'[x.owner] > posted[x.owner]
      BY <1>1 DEF NotYetIn
    <3>2. posted'[x.owner] >= posted[x.owner] /\ counter'[x.ch] >= counter[x.ch]
      BY <1>1
    <3> QED
      BY <1>1, <2>1, <2>3, <3>1, <3>2 DEF WholeRow, SameRow
  <2> QED
    BY <2>2, <2>3
<1>4. ASSUME NEW x \in Row, NEW y \in Row PROVE InOrder(x, y)'
  <2>1. InOrder(x, y)
    BY DEF RowsInv
  <2>2. \A z \in Row : memory'[z].complete => SameRow(z)
    OBVIOUS
  <2> QED
    BY <2>1, <2>2 DEF InOrder, SameRow
<1> QED
  BY <1>2, <1>3, <1>4 DEF RowsInv

\* The pumps of r read on where they were, or drop what they had to read.
KeepsSnapshots(r) ==
  /\ \A c \in Channel : pump'[r][c].todo \in {pump[r][c].todo, {}}
  /\ \/ loop'[r] = loop[r]
     \/ /\ loop'[r].pc \notin ReadingPC
        /\ loop[r].pc \notin ReadingPC \/ \A c \in Channel : pump'[r][c].todo = {}

\* A reader that was not lapped notices of a step of another process at most
\* rows that are newer than what the same writer owes it.
LEMMA ReaderFrame ==
  ASSUME TypeInv, TypeInv', NEW r \in Proc, ReaderOK(r), KeepsSnapshots(r),
         missed[r] \subseteq missed'[r],
         \A x \in Row : x.ch \notin missed'[r] =>
           /\ x \in unread[r] =>
                /\ x \in unread'[r]
                /\ memory'[x].seq = memory[x].seq /\ memory'[x].body = memory[x].body
           /\ x \in unread'[r] =>
                \/ x \in unread[r]
                \/ \A y \in unread[r] : Source(x, y) => memory[y].body.n <= memory'[x].body.n
  PROVE  ReaderOK(r)'
<1> USE Typed, TypedNext DEF Shapes
<1>0. OnChannel(r)'
  BY DEF ReaderOK, OnChannel, KeepsSnapshots
<1>1. ASSUME NEW c \in Channel PROVE Snapshot(r, c)'
  <2> SUFFICES ASSUME c \notin missed'[r], NEW i \in pump'[r][c].todo
               PROVE  /\ i.row \in unread'[r]
                      /\ i.seq = memory'[i.row].seq
                      /\ \A x \in unread'[r] : Source(x, i.row) => NotNewer(i.row, x)' \/ Picked(r, c, x)'
    BY DEF Snapshot, Source
  <2>1. i \in pump[r][c].todo /\ pump'[r][c].todo = pump[r][c].todo /\ c \notin missed[r]
    BY DEF KeepsSnapshots
  <2>2. i.row \in unread[r] /\ i.row.ch = c /\ i.seq = memory[i.row].seq
    BY <2>1 DEF ReaderOK, Snapshot, OnChannel
  <2>3. i.row \in Row /\ i.row \in unread'[r] /\ memory'[i.row].seq = memory[i.row].seq
        /\ memory'[i.row].body = memory[i.row].body
    BY <2>2
  <2>4. ASSUME NEW x \in unread'[r], Source(x, i.row) PROVE NotNewer(i.row, x)' \/ Picked(r, c, x)'
    <3>1. x \in Row /\ x.ch = c
      BY <2>2, <2>4 DEF Source
    <3>2. CASE x \in unread[r]
      <4>1. NotNewer(i.row, x) \/ Picked(r, c, x)
        BY <2>1, <2>4, <3>2 DEF ReaderOK, Snapshot
      <4>2. memory'[x].body = memory[x].body
        BY <3>1, <3>2
      <4>3. NotNewer(i.row, x) => NotNewer(i.row, x)'
        BY <2>3, <4>2 DEF NotNewer
      <4>4. Picked(r, c, x) => Picked(r, c, x)'
        BY <2>1 DEF Picked, Reads, KeepsSnapshots
      <4> QED
        BY <4>1, <4>3, <4>4
    <3>3. CASE x \notin unread[r]
      <4>1. \A y \in unread[r] : Source(x, y) => memory[y].body.n <= memory'[x].body.n
        BY <3>1, <3>3
      <4> QED
        BY <2>2, <2>3, <2>4, <4>1 DEF NotNewer
    <3> QED
      BY <3>2, <3>3
  <2> QED
    BY <2>2, <2>3, <2>4
<1>2. Reading(r)'
  <2> SUFFICES ASSUME loop'[r].pc \in ReadingPC, loop'[r].ch \notin missed'[r]
               PROVE  Reading(r)'
    BY DEF Reading
  <2> DEFINE row == loop[r].row
             c   == loop[r].ch
  <2>1. loop'[r] = loop[r] /\ c \in Channel /\ row \in Row /\ c \notin missed[r]
    BY DEF ReadingPC, KeepsSnapshots
  <2>2. Reading(r) /\ row \in unread[r] /\ row.ch = c
    BY <2>1 DEF ReaderOK, Reading, OnChannel
  <2>3. row \in unread'[r] /\ memory'[row].body = memory[row].body
    BY <2>1, <2>2
  <2>4. \A i \in pump'[r][c].todo : i.row # row
    BY <2>1, <2>2 DEF Reading, KeepsSnapshots
  <2>5. ASSUME NEW x \in unread'[r], Source(x, row) PROVE NotNewer(row, x)'
    <3>1. x \in Row /\ x.ch = c
      BY <2>2, <2>5 DEF Source
    <3>2. CASE x \in unread[r]
      <4>1. NotNewer(row, x)
        BY <2>1, <2>2, <2>5, <3>2 DEF Reading
      <4>2. memory'[x].body = memory[x].body
        BY <2>1, <3>1, <3>2
      <4> QED
        BY <2>1, <2>3, <4>1, <4>2 DEF NotNewer
    <3>3. CASE x \notin unread[r]
      <4>1. memory[row].body.n <= memory'[x].body.n
        BY <2>1, <2>2, <2>5, <3>1, <3>3
      <4> QED
        BY <2>1, <2>3, <4>1 DEF NotNewer
    <3> QED
      BY <3>2, <3>3
  <2> QED
    BY <2>1, <2>2, <2>3, <2>4, <2>5 DEF Reading, Source
<1> QED
  BY <1>0, <1>1, <1>2 DEF ReaderOK

\* Nothing r has taken becomes newer.
LEMMA PastFrame ==
  ASSUME TypeInv, TypeInv', NEW r \in Proc, Past(r),
         delivered'[r] = delivered[r], missed[r] \subseteq missed'[r],
         \A w \in Proc : /\ posted'[w] >= posted[w]
                         /\ NotYetFor(w, r)' => NotYetFor(w, r) \/ posted'[w] > posted[w]
  PROVE  Past(r)'
<1> SUFFICES ASSUME NEW i \in DOMAIN delivered[r],
                    delivered[r][i].ch \notin missed'[r], delivered[r][i].body.from \in Proc
             PROVE  /\ delivered[r][i].body.n <= posted'[delivered[r][i].body.from]
                    /\ NotYetFor(delivered[r][i].body.from, r)'
                         => delivered[r][i].body.n < posted'[delivered[r][i].body.from]
  BY DEF Past
<1> DEFINE d == delivered[r][i]
           w == d.body.from
<1>1. d.body.n \in Nat
  <2> DEFINE Took == [ch : Channel, head : Msg, body : Msg]
  <2>1. delivered[r] \in Seq(Took)
    BY DEF TypeInv, TypeOK
  <2>2. d \in Took
    <3> HIDE DEF Took
    <3> QED
      BY <2>1
  <2> QED
    BY <2>2 DEF Msg
<1>2. d.body.n <= posted[w] /\ (NotYetFor(w, r) => d.body.n < posted[w])
  BY DEF Past
<1>3. posted[w] \in Nat /\ posted'[w] \in Nat
  BY Typed, TypedNext DEF Shapes
<1> QED
  BY <1>1, <1>2, <1>3
-----------------------------------------------------------------------------
(* The steps of a process, as far as the invariant sees them               *)

\* p neither writes nor marks, and is not publishing unless it was so before.
Bystands(p) ==
  /\ \A q \in Proc \ {p} : /\ loop'[q] = loop[q] /\ pump'[q] = pump[q]
                           /\ unread'[q] = unread[q] /\ delivered'[q] = delivered[q]
  /\ loop'[p] = loop[p] \/ loop'[p].pc \notin PublishPC
  /\ \A x \in Row : SameRow(x)
  /\ unread'[p] \subseteq unread[p]
  /\ UNCHANGED <<counter, posted, missed>>

\* ... and reads nothing either.
Idles(p) ==
  /\ Bystands(p) /\ KeepsSnapshots(p)
  /\ UNCHANGED <<unread, delivered>>

\* p starts to publish a message of its own.
Starts(p) ==
  /\ \A q \in Proc \ {p} : loop'[q] = loop[q] /\ pump'[q] = pump[q]
  /\ loop'[p].pc = "claim" /\ loop'[p].head = loop'[p].body
  /\ loop'[p].body.from = p /\ loop'[p].body.n = posted[p] + 1
  /\ KeepsSnapshots(p)
  /\ posted' = [posted EXCEPT ![p] = @ + 1]
  /\ \A x \in Row : SameRow(x)
  /\ UNCHANGED <<unread, counter, missed, delivered>>

\* p is at one of the steps of _publish, or of _drain and _consume.
Writes(p) ==
  \/ ClaimRow(p) \/ CountMissed(p) \/ Invalidate(p) \/ TakeNumber(p)
  \/ WriteBody(p) \/ Complete(p) \/ MarkUnread(p) \/ Ring(p)
Takes(p) ==
  \/ NextRow(p) \/ ReadHead(p) \/ ReadBody(p) \/ LowerBit(p)
  \/ \E c \in Channel : Scan(p, c)

\* Every step is one of those four: a step of _publish, the start of one, a
\* step that touches neither rows nor readers, or one of _drain and _consume.
LEMMA Steps ==
  ASSUME ~RacyUpdates, TypeInv, [Next]_vars
  PROVE  \/ \E p \in Proc : Writes(p) \/ Starts(p) \/ Idles(p) \/ (Takes(p) /\ Bystands(p))
         \/ UNCHANGED vars
<1>0. /\ TypeOK /\ loop \in [Proc -> LoopState] /\ memory \in [Row -> RowData]
      /\ unread \in [Proc -> SUBSET Row] /\ posted \in [Proc -> Nat]
      /\ pump \in [Proc -> [Channel -> PumpState]]
      /\ delivered \in [Proc -> Seq([ch : Channel, head : Msg, body : Msg])]
  BY DEF TypeInv, TypeOK
<1>1. UNCHANGED memory => \A x \in Row : SameRow(x)
  BY DEF SameRow
<1> USE <1>0
<1>2. ASSUME NEW p \in Proc, NEW c \in Channel, NEW how \in Posts, Post(p, c, how)
      PROVE  Starts(p)
  <2> DEFINE m == [from |-> p, n |-> posted[p] + 1,
                   kind |-> IF how = "announce" THEN "announce" ELSE "request",
                   corr |-> IF how = "ask" THEN <<p, posted[p] + 1>> ELSE NoCorr]
  <2>1. loop' = [loop EXCEPT ![p] = Publishing(p, c, m, FALSE)]
    BY <1>2 DEF Post
  <2>2. /\ m.from = p /\ m.n = posted[p] + 1
    OBVIOUS
  <2> HIDE DEF m
  <2>3. /\ loop'[p].pc = "claim" /\ loop'[p].head = m /\ loop'[p].body = m
        /\ \A q \in Proc \ {p} : loop'[q] = loop[q]
    BY <2>1 DEF Publishing, Free
  <2>4. KeepsSnapshots(p)
    BY <1>2, <2>3 DEF Post, KeepsSnapshots, ReadingPC
  <2> QED
    BY <1>1, <1>2, <2>2, <2>3, <2>4 DEF Post, Starts, shared
<1>3. ASSUME NEW p \in Proc, NEW c \in Channel, Acquire(p, c) PROVE Idles(p)
  <2>1. /\ \A q \in Proc \ {p} : pump'[q] = pump[q]
        /\ \A d \in Channel : pump'[p][d].todo = pump[p][d].todo
    <3>1. pump' = [pump EXCEPT ![p][c].pc = "awake"]
      BY <1>3 DEF Acquire
    <3> QED
      BY <3>1 DEF PumpState
  <2> QED
    BY <1>1, <1>3, <2>1 DEF Acquire, Idles, Bystands, KeepsSnapshots, history
<1>4. ASSUME NEW p \in Proc, NEW c \in Channel, Scan(p, c) PROVE Bystands(p)
  <2>1. /\ \A q \in Proc \ {p} : loop'[q] = loop[q]
        /\ loop'[p] = loop[p] \/ loop'[p].pc = "next"
    BY <1>4 DEF Scan, Free
  <2>2. \A q \in Proc \ {p} : pump'[q] = pump[q]
    BY <1>4 DEF Scan
  <2> QED
    BY <1>1, <1>4, <2>1, <2>2 DEF Scan, Bystands, shared, history, PublishPC
<1>5. ASSUME NEW p \in Proc, NextRow(p) PROVE Bystands(p)
  <2>1. /\ \A q \in Proc \ {p} : loop'[q] = loop[q]
        /\ loop'[p] = loop[p] \/ loop'[p].pc \in {"free", "head"}
    <3>1. CASE loop' = [loop EXCEPT ![p] = Free]
      BY <3>1 DEF Free
    <3>2. CASE \E item \in pump[p][loop[p].ch].todo :
                 loop' = [loop EXCEPT ![p].pc = "head", ![p].row = item.row]
      BY <3>2 DEF LoopState
    <3>3. CASE UNCHANGED loop
      BY <1>5, <3>3 DEF NextRow
    <3> QED
      BY <1>5, <3>1, <3>2, <3>3 DEF NextRow
  <2>2. \A q \in Proc \ {p} : pump'[q] = pump[q]
    BY <1>5 DEF NextRow
  <2> QED
    BY <1>1, <1>5, <2>1, <2>2 DEF NextRow, Bystands, shared, history, PublishPC
<1>6. ASSUME NEW p \in Proc, ReadHead(p) PROVE Bystands(p)
  <2>1. loop'[p].pc = "rest" /\ \A q \in Proc \ {p} : loop'[q] = loop[q]
    BY <1>6 DEF ReadHead, LoopState
  <2> QED
    BY <1>1, <1>6, <2>1 DEF ReadHead, Bystands, shared, history, PublishPC
<1>7. ASSUME NEW p \in Proc, ReadBody(p) PROVE Bystands(p)
  <2>1. loop'[p].pc = "lower" /\ \A q \in Proc \ {p} : loop'[q] = loop[q]
    BY <1>7 DEF ReadBody, LoopState
  <2> QED
    BY <1>1, <1>7, <2>1 DEF ReadBody, Bystands, shared, history, PublishPC
<1>8. ASSUME NEW p \in Proc, LowerBit(p) PROVE Bystands(p)
  <2>1. loop[p].row \in Row
    BY <1>8, AtRow DEF LowerBit
  <2>2. unread' = [unread EXCEPT ![p] = unread[p] \ {loop[p].row}]
    BY <1>8, <2>1, WrittenIsOneBit DEF LowerBit, LoadByte
  <2>3. loop'[p].pc \in {"free", "next"} /\ \A q \in Proc \ {p} : loop'[q] = loop[q]
    <3>1. \/ loop' = [loop EXCEPT ![p] = [Free EXCEPT !.pc = "next", !.ch = loop[p].ch]]
          \/ loop' = [loop EXCEPT ![p] = Free]
      BY <1>8 DEF LowerBit, LoadByte
    <3>2. [Free EXCEPT !.pc = "next", !.ch = loop[p].ch].pc = "next" /\ Free.pc = "free"
      BY DEF Free
    <3> QED
      BY <3>1, <3>2
  <2>4. \A q \in Proc \ {p} : pump'[q] = pump[q] /\ delivered'[q] = delivered[q]
    <3> DEFINE row  == loop[p].row
               head == loop[p].head
               body == loop[p].body
               c    == loop[p].ch
    <3>1. \/ UNCHANGED pump
          \/ pump' = [pump EXCEPT ![p][c] =
                        [@ EXCEPT !.pc = "handling", !.row = row, !.head = head, !.body = body]]
      BY <1>8 DEF LowerBit, LoadByte
    <3>2. delivered' = [delivered EXCEPT ![p] = Append(@, [ch |-> c, head |-> head, body |-> body])]
      BY <1>8 DEF LowerBit, LoadByte
    <3> QED
      BY <3>1, <3>2
  <2> QED
    BY <1>1, <1>8, <2>2, <2>3, <2>4 DEF LowerBit, Bystands, PublishPC
<1>9. ASSUME NEW p \in Proc, NEW c \in Channel, NEW v \in Outcomes(p, c), HandlerReturns(p, c, v)
      PROVE  Starts(p) \/ Idles(p)
  <2> DEFINE corr == pump[p][c].head.corr
             m == [from |-> p, n |-> posted[p] + 1, corr |-> corr,
                   kind |-> IF v = "answered" THEN "reply" ELSE "failure"]
             w == [Asleep EXCEPT !.pc = "draining", !.todo = pump[p][c].todo]
  <2>1. \A x \in Row : SameRow(x)
    BY <1>9 DEF HandlerReturns, RowData, SameRow
  <2>2. \/ UNCHANGED <<loop, posted>>
        \/ loop' = [loop EXCEPT ![p] = [Free EXCEPT !.pc = "next", !.ch = c]] /\ UNCHANGED posted
        \/ /\ loop' = [loop EXCEPT ![p] = Publishing(p, c, m, TRUE)]
           /\ posted' = [posted EXCEPT ![p] = @ + 1]
    BY <1>9 DEF HandlerReturns
  <2>3. m.from = p /\ m.n = posted[p] + 1
    OBVIOUS
  <2> HIDE DEF m
  <2>4. UNCHANGED <<unread, counter, missed, delivered>> /\ loop[p].pc = "free"
    BY <1>9 DEF HandlerReturns
  <2>5. /\ \A q \in Proc \ {p} : pump'[q] = pump[q]
        /\ \A d \in Channel : pump'[p][d].todo \in {pump[p][d].todo, {}}
    <3>1. pump' = [pump EXCEPT ![p][c] = Asleep] \/ pump' = [pump EXCEPT ![p][c] = w]
      BY <1>9 DEF HandlerReturns
    <3>2. Asleep.todo = {} /\ w.todo = pump[p][c].todo
      BY DEF Asleep
    <3> HIDE DEF w
    <3> QED
      BY <3>1, <3>2
  <2>6. CASE UNCHANGED <<loop, posted>>
    BY <2>1, <2>4, <2>5, <2>6 DEF Idles, Bystands, KeepsSnapshots
  <2>7. CASE loop' = [loop EXCEPT ![p] = [Free EXCEPT !.pc = "next", !.ch = c]] /\ UNCHANGED posted
    <3>1. loop'[p].pc = "next" /\ \A q \in Proc \ {p} : loop'[q] = loop[q]
      BY <2>7 DEF Free
    <3> QED
      BY <2>1, <2>4, <2>5, <2>7, <3>1 DEF Idles, Bystands, KeepsSnapshots, PublishPC, ReadingPC
  <2>8. CASE /\ loop' = [loop EXCEPT ![p] = Publishing(p, c, m, TRUE)]
             /\ posted' = [posted EXCEPT ![p] = @ + 1]
    <3>1. /\ loop'[p].pc = "claim" /\ loop'[p].head = m /\ loop'[p].body = m
          /\ \A q \in Proc \ {p} : loop'[q] = loop[q]
      BY <2>8 DEF Publishing, Free
    <3> QED
      BY <2>1, <2>3, <2>4, <2>5, <2>8, <3>1 DEF Starts, KeepsSnapshots, ReadingPC
  <2> QED
    BY <2>2, <2>6, <2>7, <2>8
<1>10. ASSUME NEW p \in Proc, AskTimesOut(p) PROVE Idles(p)
  BY <1>1, <1>10 DEF AskTimesOut, Idles, Bystands, KeepsSnapshots, shared, history
<1>11. ASSUME NEW p \in Proc, CrashAndRespawn(p) PROVE Idles(p)
  <2>1. loop'[p].pc = "free" /\ \A q \in Proc \ {p} : loop'[q] = loop[q] /\ pump'[q] = pump[q]
    BY <1>11 DEF CrashAndRespawn, Free
  <2>2. \A c \in Channel : pump'[p][c].todo = {}
    <3>1. pump'[p] = [c \in Channel |-> Asleep] /\ Asleep.todo = {}
      BY <1>11 DEF CrashAndRespawn, Asleep
    <3> QED
      BY <3>1
  <2> QED
    BY <1>1, <1>11, <2>1, <2>2
       DEF CrashAndRespawn, Idles, Bystands, KeepsSnapshots, PublishPC, ReadingPC, shared
<1> QED
  BY <1>2, <1>3, <1>4, <1>5, <1>6, <1>7, <1>8, <1>9, <1>10, <1>11
     DEF Next, LoopStep, PumpStep, Writes, Takes

-----------------------------------------------------------------------------
(* What each step of _publish does                                         *)

\* p alone moves, and it stays on its channel with its message in hand.
Proceeds(p) ==
  /\ loop[p].ch \in Channel
  /\ loop'[p].ch = loop[p].ch /\ loop'[p].head = loop[p].head /\ loop'[p].body = loop[p].body
  /\ loop'[p].reply = loop[p].reply
  /\ \A q \in Proc \ {p} : loop'[q] = loop[q]
  /\ UNCHANGED <<pump, posted, delivered>>

\* ... and on its row, of which it is the owner.
AtOwnRow(p) ==
  /\ loop[p].row \in Row /\ loop[p].row.owner = p
  /\ loop'[p].row = loop[p].row
  /\ \A x \in Row \ {loop[p].row} : memory'[x] = memory[x]
  /\ memory[loop[p].row] \in RowData

\* What each step of _publish does: ClaimRow picks the row and finds who has
\* not read it,
LEMMA ClaimRowDoes ==
  ASSUME TypeInv, NEW p \in Proc, ClaimRow(p)
  PROVE  LET row == [ch |-> loop[p].ch, owner |-> p, slot |-> cursor[p][loop[p].ch]]
         IN  /\ Proceeds(p) /\ loop[p].pc = "claim"
             /\ row \in Row /\ loop'[p].row = row /\ loop'[p].readers = Stale(row)
             /\ loop'[p].pc \in {"lap", "invalidate"}
             /\ UNCHANGED <<memory, unread, missed, counter>>
<1>1. /\ loop \in [Proc -> LoopState] /\ loop[p] \in LoopState /\ loop[p].ch \in Channel
      /\ cursor[p][loop[p].ch] \in Slot
  BY AtRow DEF ClaimRow, TypeInv, TypeOK
<1> DEFINE row == [ch |-> loop[p].ch, owner |-> p, slot |-> cursor[p][loop[p].ch]]
           stale == Stale(row)
           pc == IF stale = {} THEN "invalidate" ELSE "lap"
           s == [loop[p] EXCEPT !.row = row, !.readers = stale, !.pc = pc]
<1>2. row \in Row
  BY <1>1 DEF Row
<1>3. loop' = [loop EXCEPT ![p] = s]
  BY <1>1 DEF ClaimRow
<1> HIDE DEF row, stale, pc
<1>4. /\ s.row = row /\ s.readers = stale /\ s.pc = pc /\ s.ch = loop[p].ch
      /\ s.head = loop[p].head /\ s.body = loop[p].body /\ s.reply = loop[p].reply
  BY <1>1 DEF LoopState
<1> HIDE DEF s
<1>5. loop'[p] = s /\ \A q \in Proc \ {p} : loop'[q] = loop[q]
  BY <1>1, <1>3
<1> QED
  BY <1>1, <1>2, <1>4, <1>5 DEF ClaimRow, Proceeds, shared, history, row, stale, pc

\* CountMissed counts the miss of the least of them and lowers its bit,
LEMMA CountMissedDoes ==
  ASSUME ~RacyUpdates, TypeInv, WriterInv, NEW p \in Proc, CountMissed(p)
  PROVE  LET r == Least(loop[p].readers)
         IN  /\ Proceeds(p) /\ AtOwnRow(p) /\ loop[p].pc = "lap"
             /\ loop'[p].readers = loop[p].readers \ {r}
             /\ loop'[p].pc \in {"lap", "invalidate"}
             /\ missed' = [missed EXCEPT ![r] = @ \cup {loop[p].ch}]
             /\ r \in Proc => unread' = [unread EXCEPT ![r] = @ \ {loop[p].row}]
             /\ r \notin Proc => UNCHANGED unread
             /\ UNCHANGED <<memory, counter>>
<1>1. /\ loop \in [Proc -> LoopState] /\ loop[p] \in LoopState /\ loop[p].ch \in Channel
      /\ loop[p].row \in Row /\ memory[loop[p].row] \in RowData
      /\ unread \in [Proc -> SUBSET Row]
  BY AtRow DEF CountMissed, TypeInv, TypeOK
<1>2. loop[p].pc = "lap" /\ loop[p].row.owner = p
  BY DEF CountMissed, WriterInv, WriterOK, PublishPC
<1> DEFINE r == Least(loop[p].readers)
           rest == loop[p].readers \ {r}
           pc == IF rest = {} THEN "invalidate" ELSE "lap"
           s == [loop[p] EXCEPT !.readers = rest, !.byte = {}, !.loaded = FALSE, !.pc = pc]
<1>3. loop' = [loop EXCEPT ![p] = s]
  BY <1>1 DEF CountMissed, LoadByte
<1>4. unread' = [unread EXCEPT ![r] = Lowered(p, r, loop[p].row)]
  BY DEF CountMissed, LoadByte
<1>5. r \in Proc => Lowered(p, r, loop[p].row) = unread[r] \ {loop[p].row}
  BY <1>1, WrittenIsOneBit
<1>6. missed' = [missed EXCEPT ![r] = @ \cup {loop[p].ch}]
  BY DEF CountMissed
<1> HIDE DEF r, rest, pc
<1>7. /\ s.row = loop[p].row /\ s.readers = rest /\ s.pc = pc /\ s.ch = loop[p].ch
      /\ s.head = loop[p].head /\ s.body = loop[p].body /\ s.reply = loop[p].reply
  BY <1>1 DEF LoopState
<1> HIDE DEF s
<1>8. loop'[p] = s /\ \A q \in Proc \ {p} : loop'[q] = loop[q]
  BY <1>1, <1>3
<1>9. /\ r \in Proc => unread' = [unread EXCEPT ![r] = @ \ {loop[p].row}]
      /\ r \notin Proc => UNCHANGED unread
  BY <1>1, <1>4, <1>5
<1>10. UNCHANGED <<memory, counter, pump, posted, delivered>>
  BY DEF CountMissed, history
<1>11. Proceeds(p) /\ AtOwnRow(p)
  BY <1>1, <1>2, <1>7, <1>8, <1>10 DEF Proceeds, AtOwnRow
<1>12. loop'[p].readers = rest /\ loop'[p].pc \in {"lap", "invalidate"}
  BY <1>7, <1>8 DEF pc
<1> QED
  BY <1>2, <1>6, <1>9, <1>10, <1>11, <1>12 DEF r, rest

\* Invalidate clears the complete flag,
LEMMA InvalidateDoes ==
  ASSUME TypeInv, WriterInv, NEW p \in Proc, Invalidate(p)
  PROVE  /\ Proceeds(p) /\ AtOwnRow(p) /\ loop[p].pc = "invalidate" /\ loop'[p].pc = "number"
         /\ ~memory'[loop[p].row].complete
         /\ memory'[loop[p].row].head = memory[loop[p].row].head
         /\ memory'[loop[p].row].seq = memory[loop[p].row].seq
         /\ memory'[loop[p].row].body = memory[loop[p].row].body
         /\ memory'[loop[p].row].taker = memory[loop[p].row].taker
         /\ UNCHANGED <<unread, missed, counter>>
<1>1. /\ loop \in [Proc -> LoopState] /\ loop[p] \in LoopState /\ loop[p].ch \in Channel
      /\ loop[p].row \in Row /\ memory[loop[p].row] \in RowData /\ memory \in [Row -> RowData]
  BY AtRow DEF Invalidate, TypeInv, TypeOK
<1>2. loop[p].pc = "invalidate" /\ loop[p].row.owner = p
  BY DEF Invalidate, WriterInv, WriterOK, PublishPC
<1>3. /\ \A x \in Row \ {loop[p].row} : memory'[x] = memory[x]
      /\ ~memory'[loop[p].row].complete
      /\ memory'[loop[p].row].head = memory[loop[p].row].head
      /\ memory'[loop[p].row].seq = memory[loop[p].row].seq
      /\ memory'[loop[p].row].body = memory[loop[p].row].body
      /\ memory'[loop[p].row].taker = memory[loop[p].row].taker
  BY <1>1 DEF Invalidate, RowData
<1>4. /\ loop'[p].row = loop[p].row /\ loop'[p].pc = "number" /\ loop'[p].ch = loop[p].ch
      /\ loop'[p].head = loop[p].head /\ loop'[p].body = loop[p].body
      /\ loop'[p].reply = loop[p].reply
      /\ \A q \in Proc \ {p} : loop'[q] = loop[q]
  BY <1>1 DEF Invalidate, LoopState
<1> QED
  BY <1>1, <1>2, <1>3, <1>4 DEF Invalidate, Proceeds, AtOwnRow, history

\* TakeNumber numbers the row and writes the head,
LEMMA TakeNumberDoes ==
  ASSUME ~RacyUpdates, TypeInv, WriterInv, NEW p \in Proc, TakeNumber(p)
  PROVE  /\ Proceeds(p) /\ AtOwnRow(p) /\ loop[p].pc = "number" /\ loop'[p].pc = "body"
         /\ memory'[loop[p].row].complete = memory[loop[p].row].complete
         /\ memory'[loop[p].row].head = loop[p].head
         /\ memory'[loop[p].row].seq = counter[loop[p].ch] + 1
         /\ memory'[loop[p].row].body = memory[loop[p].row].body
         /\ memory'[loop[p].row].taker = memory[loop[p].row].taker
         /\ counter' = [counter EXCEPT ![loop[p].ch] = @ + 1]
         /\ UNCHANGED <<unread, missed>>
<1>1. /\ loop \in [Proc -> LoopState] /\ loop[p] \in LoopState /\ loop[p].ch \in Channel
      /\ loop[p].row \in Row /\ memory[loop[p].row] \in RowData /\ memory \in [Row -> RowData]
  BY AtRow DEF TakeNumber, TypeInv, TypeOK
<1>2. loop[p].pc = "number" /\ loop[p].row.owner = p
  BY DEF TakeNumber, WriterInv, WriterOK, PublishPC
<1> DEFINE n == counter[loop[p].ch] + 1
           s == [loop[p] EXCEPT !.pc = "body", !.seq = n, !.loaded = FALSE]
<1>3. /\ counter' = [counter EXCEPT ![loop[p].ch] = n]
      /\ memory' = [memory EXCEPT ![loop[p].row].seq = n, ![loop[p].row].head = loop[p].head]
      /\ loop' = [loop EXCEPT ![p].pc = "body", ![p].seq = n, ![p].loaded = FALSE]
  BY DEF TakeNumber
<1>4. counter' = [counter EXCEPT ![loop[p].ch] = @ + 1]
  BY <1>3
<1> HIDE DEF n
<1>5. /\ \A x \in Row \ {loop[p].row} : memory'[x] = memory[x]
      /\ memory'[loop[p].row].complete = memory[loop[p].row].complete
      /\ memory'[loop[p].row].head = loop[p].head
      /\ memory'[loop[p].row].seq = n
      /\ memory'[loop[p].row].body = memory[loop[p].row].body
      /\ memory'[loop[p].row].taker = memory[loop[p].row].taker
  BY <1>1, <1>3 DEF RowData
<1>6. loop' = [loop EXCEPT ![p] = s]
  BY <1>1, <1>3
<1>7. /\ s.row = loop[p].row /\ s.pc = "body" /\ s.ch = loop[p].ch
      /\ s.head = loop[p].head /\ s.body = loop[p].body /\ s.reply = loop[p].reply
  BY <1>1 DEF LoopState
<1> HIDE DEF s
<1>8. loop'[p] = s /\ \A q \in Proc \ {p} : loop'[q] = loop[q]
  BY <1>1, <1>6
<1>9. UNCHANGED <<unread, missed, pump, posted, delivered>>
  BY DEF TakeNumber, history
<1>10. Proceeds(p) /\ AtOwnRow(p)
  BY <1>1, <1>2, <1>5, <1>7, <1>8, <1>9 DEF Proceeds, AtOwnRow
<1> QED
  BY <1>2, <1>4, <1>5, <1>7, <1>8, <1>9, <1>10 DEF n

\* WriteBody writes the body and no taker,
LEMMA WriteBodyDoes ==
  ASSUME TypeInv, WriterInv, NEW p \in Proc, WriteBody(p)
  PROVE  /\ Proceeds(p) /\ AtOwnRow(p) /\ loop[p].pc = "body" /\ loop'[p].pc = "complete"
         /\ memory'[loop[p].row].complete = memory[loop[p].row].complete
         /\ memory'[loop[p].row].head = memory[loop[p].row].head
         /\ memory'[loop[p].row].seq = memory[loop[p].row].seq
         /\ memory'[loop[p].row].body = loop[p].body
         /\ memory'[loop[p].row].taker = NoTaker
         /\ UNCHANGED <<unread, missed, counter>>
<1>1. /\ loop \in [Proc -> LoopState] /\ loop[p] \in LoopState /\ loop[p].ch \in Channel
      /\ loop[p].row \in Row /\ memory[loop[p].row] \in RowData /\ memory \in [Row -> RowData]
  BY AtRow DEF WriteBody, TypeInv, TypeOK
<1>2. loop[p].pc = "body" /\ loop[p].row.owner = p
  BY DEF WriteBody, WriterInv, WriterOK, PublishPC
<1>3. /\ \A x \in Row \ {loop[p].row} : memory'[x] = memory[x]
      /\ memory'[loop[p].row].complete = memory[loop[p].row].complete
      /\ memory'[loop[p].row].head = memory[loop[p].row].head
      /\ memory'[loop[p].row].seq = memory[loop[p].row].seq
      /\ memory'[loop[p].row].body = loop[p].body
      /\ memory'[loop[p].row].taker = NoTaker
  BY <1>1 DEF WriteBody, RowData
<1>4. /\ loop'[p].row = loop[p].row /\ loop'[p].pc = "complete" /\ loop'[p].ch = loop[p].ch
      /\ loop'[p].head = loop[p].head /\ loop'[p].body = loop[p].body
      /\ loop'[p].reply = loop[p].reply
      /\ \A q \in Proc \ {p} : loop'[q] = loop[q]
  BY <1>1 DEF WriteBody, LoopState
<1>5. UNCHANGED <<unread, missed, counter, pump, posted, delivered>>
  BY DEF WriteBody, history
<1> QED
  BY <1>1, <1>2, <1>3, <1>4, <1>5 DEF Proceeds, AtOwnRow

\* Complete sets the flag,
LEMMA CompleteDoes ==
  ASSUME TypeInv, WriterInv, NEW p \in Proc, Complete(p)
  PROVE  /\ Proceeds(p) /\ AtOwnRow(p) /\ loop[p].pc = "complete"
         /\ \/ loop'[p].pc = "mark" /\ loop'[p].readers # {}
            \/ loop'[p].pc = "ring" /\ loop'[p].readers = {}
         /\ loop'[p].readers = Others(p)
         /\ memory'[loop[p].row].complete
         /\ memory'[loop[p].row].head = memory[loop[p].row].head
         /\ memory'[loop[p].row].seq = memory[loop[p].row].seq
         /\ memory'[loop[p].row].body = memory[loop[p].row].body
         /\ memory'[loop[p].row].taker = memory[loop[p].row].taker
         /\ UNCHANGED <<unread, missed, counter>>
<1>1. /\ loop \in [Proc -> LoopState] /\ loop[p] \in LoopState /\ loop[p].ch \in Channel
      /\ loop[p].row \in Row /\ memory[loop[p].row] \in RowData /\ memory \in [Row -> RowData]
  BY AtRow DEF Complete, TypeInv, TypeOK
<1>2. loop[p].pc = "complete" /\ loop[p].row.owner = p
  BY DEF Complete, WriterInv, WriterOK, PublishPC
<1>3. /\ \A x \in Row \ {loop[p].row} : memory'[x] = memory[x]
      /\ memory'[loop[p].row].complete
      /\ memory'[loop[p].row].head = memory[loop[p].row].head
      /\ memory'[loop[p].row].seq = memory[loop[p].row].seq
      /\ memory'[loop[p].row].body = memory[loop[p].row].body
      /\ memory'[loop[p].row].taker = memory[loop[p].row].taker
  BY <1>1 DEF Complete, RowData
<1> DEFINE others == Others(p)
           pc == IF others = {} THEN "ring" ELSE "mark"
           s == [loop[p] EXCEPT !.readers = others, !.pc = pc]
<1>4. loop' = [loop EXCEPT ![p] = s]
  BY <1>1 DEF Complete
<1> HIDE DEF others, pc
<1>5. /\ s.row = loop[p].row /\ s.pc = pc /\ s.ch = loop[p].ch /\ s.readers = others
      /\ s.head = loop[p].head /\ s.body = loop[p].body /\ s.reply = loop[p].reply
  BY <1>1 DEF LoopState
<1> HIDE DEF s
<1>6. loop'[p] = s /\ \A q \in Proc \ {p} : loop'[q] = loop[q]
  BY <1>1, <1>4
<1>7. UNCHANGED <<unread, missed, counter, pump, posted, delivered>>
  BY DEF Complete, history
<1>8. Proceeds(p) /\ AtOwnRow(p)
  BY <1>1, <1>2, <1>3, <1>5, <1>6, <1>7 DEF Proceeds, AtOwnRow
<1>9. \/ loop'[p].pc = "mark" /\ loop'[p].readers # {}
      \/ loop'[p].pc = "ring" /\ loop'[p].readers = {}
  BY <1>5, <1>6 DEF pc
<1> QED
  BY <1>2, <1>3, <1>5, <1>6, <1>7, <1>8, <1>9 DEF others

\* MarkUnread raises one bit,
LEMMA MarkUnreadDoes ==
  ASSUME ~RacyUpdates, TypeInv, WriterInv, NEW p \in Proc, MarkUnread(p)
  PROVE  LET r == Least(loop[p].readers)
         IN  /\ Proceeds(p) /\ AtOwnRow(p) /\ loop[p].pc = "mark"
             /\ loop'[p].readers = loop[p].readers \ {r}
             /\ \/ loop'[p].pc = "mark" /\ loop'[p].readers # {}
                \/ loop'[p].pc = "ring" /\ loop'[p].readers = {}
             /\ r \in Proc => unread' = [unread EXCEPT ![r] = @ \cup {loop[p].row}]
             /\ r \notin Proc => UNCHANGED unread
             /\ UNCHANGED <<memory, missed, counter>>
<1>1. /\ loop \in [Proc -> LoopState] /\ loop[p] \in LoopState /\ loop[p].ch \in Channel
      /\ loop[p].row \in Row /\ memory[loop[p].row] \in RowData
      /\ unread \in [Proc -> SUBSET Row]
  BY AtRow DEF MarkUnread, TypeInv, TypeOK
<1>2. loop[p].pc = "mark" /\ loop[p].row.owner = p
  BY DEF MarkUnread, WriterInv, WriterOK, PublishPC
<1> DEFINE r == Least(loop[p].readers)
           rest == loop[p].readers \ {r}
           pc == IF rest = {} THEN "ring" ELSE "mark"
           s == [loop[p] EXCEPT !.readers = rest, !.byte = {}, !.loaded = FALSE, !.pc = pc]
<1>3. loop' = [loop EXCEPT ![p] = s]
  BY <1>1 DEF MarkUnread, LoadByte
<1>4. unread' = [unread EXCEPT ![r] = Raised(p, r, loop[p].row)]
  BY DEF MarkUnread, LoadByte
<1>5. r \in Proc => Raised(p, r, loop[p].row) = unread[r] \cup {loop[p].row}
  BY <1>1, WrittenIsOneBit
<1> HIDE DEF r, rest, pc
<1>6. /\ s.row = loop[p].row /\ s.readers = rest /\ s.pc = pc /\ s.ch = loop[p].ch
      /\ s.head = loop[p].head /\ s.body = loop[p].body /\ s.reply = loop[p].reply
  BY <1>1 DEF LoopState
<1> HIDE DEF s
<1>7. loop'[p] = s /\ \A q \in Proc \ {p} : loop'[q] = loop[q]
  BY <1>1, <1>3
<1>8. /\ r \in Proc => unread' = [unread EXCEPT ![r] = @ \cup {loop[p].row}]
      /\ r \notin Proc => UNCHANGED unread
  BY <1>1, <1>4, <1>5
<1>9. UNCHANGED <<memory, missed, counter, pump, posted, delivered>>
  BY DEF MarkUnread, history
<1>10. Proceeds(p) /\ AtOwnRow(p)
  BY <1>1, <1>2, <1>6, <1>7, <1>9 DEF Proceeds, AtOwnRow
<1>11. /\ loop'[p].readers = rest
       /\ (loop'[p].pc = "mark" /\ rest # {}) \/ (loop'[p].pc = "ring" /\ rest = {})
  BY <1>6, <1>7 DEF pc
<1> QED
  BY <1>2, <1>8, <1>9, <1>10, <1>11 DEF r, rest

\* and Ring ends the publication.
LEMMA RingDoes ==
  ASSUME TypeInv, NEW p \in Proc, Ring(p)
  PROVE  /\ loop[p].pc = "ring" /\ loop'[p].pc \in {"free", "next"}
         /\ \A q \in Proc \ {p} : loop'[q] = loop[q]
         /\ UNCHANGED <<memory, unread, missed, counter, pump, posted, delivered>>
<1>1. loop \in [Proc -> LoopState]
  BY DEF TypeInv, TypeOK
<1> QED
  BY <1>1 DEF Ring, Free, history
-----------------------------------------------------------------------------
(* The rows                                                                *)

\* At the start no row is complete.
LEMMA InitRows == Init => RowsInv
BY DEF Init, RowsInv, Writing, WholeRow, InOrder, Free, PublishPC

\* A step that only looks leaves the rows in order.
LEMMA BystandsRows ==
  ASSUME TypeInv, TypeInv', WriterInv, RowsInv, NEW p \in Proc, Bystands(p)
  PROVE  RowsInv'
<1> USE Typed, TypedNext DEF Shapes
<1>1. Writing(p)'
  <2>1. CASE loop'[p].pc \notin PublishPC
    BY <2>1 DEF Writing, PublishPC
  <2>2. CASE loop'[p] = loop[p]
    <3>1. Writing(p) /\ UNCHANGED <<counter, posted>>
      BY DEF RowsInv, Bystands
    <3>2. loop[p].pc \in PublishPC \ {"claim"} =>
            SameRow(loop[p].row) /\ \A r \in Proc : loop[p].row \in unread'[r] => loop[p].row \in unread[r]
      BY DEF Bystands, PublishPC
    <3>3. \A x \in Row : SameRow(x)
      BY DEF Bystands
    <3>4. loop[p].readers \subseteq Proc
      BY DEF LoopState
    <3> QED
      BY <2>2, <3>1, <3>2, <3>3, <3>4 DEF Writing, SameRow, PublishPC
  <2> QED
    BY <2>1, <2>2 DEF Bystands
<1>2. \A x \in Row : x.owner = p /\ NotYetIn(p, x)' => NotYetIn(p, x)
  BY DEF Bystands, NotYetIn
<1>3. \A r \in Proc : unread'[r] \subseteq unread[r]
  BY DEF Bystands
<1> QED
  BY <1>1, <1>2, <1>3, RowsFrame DEF Bystands

\* So does the start of a publication.
LEMMA StartsRows ==
  ASSUME TypeInv, TypeInv', WriterInv, RowsInv, NEW p \in Proc, Starts(p)
  PROVE  RowsInv'
<1> USE Typed, TypedNext DEF Shapes
<1>1. posted'[p] = posted[p] + 1 /\ \A q \in Proc \ {p} : posted'[q] = posted[q]
  BY DEF Starts, TypeInv, TypeOK
<1>2. Writing(p)'
  BY <1>1 DEF Starts, Writing
<1> QED
  BY <1>1, <1>2, RowsFrame DEF Starts

\* Every step keeps the rows in order: a writer numbers a row above all it has
\* written before it completes it, and overwrites only what it has reset.
LEMMA NextRows ==
  ASSUME ~RacyUpdates, BitInv, TypeInv', RowsInv, [Next]_vars
  PROVE  RowsInv'
<1>0. TypeInv /\ WriterInv /\ \A p \in Proc : WriterOK(p) /\ Writing(p)
  BY DEF BitInv, WriterInv, RowsInv
<1> USE <1>0, Typed, TypedNext DEF Shapes
<1>1. ASSUME NEW p \in Proc, ClaimRow(p) PROVE RowsInv'
  <2> DEFINE row == [ch |-> loop[p].ch, owner |-> p, slot |-> cursor[p][loop[p].ch]]
  <2>1. /\ Proceeds(p) /\ loop[p].pc = "claim" /\ row \in Row /\ loop'[p].row = row
        /\ loop'[p].pc \in {"lap", "invalidate"}
        /\ UNCHANGED <<memory, unread, missed, counter>>
    BY <1>1, ClaimRowDoes
  <2>2. row.ch = loop[p].ch
    OBVIOUS
  <2> HIDE DEF row
  <2>3. Writing(p)'
    BY <2>1, <2>2 DEF Proceeds, Writing, PublishPC
  <2>4. \A x \in Row : NotYetIn(p, x)
    BY <2>1 DEF NotYetIn, PublishPC
  <2> QED
    BY <2>1, <2>3, <2>4, RowsFrame DEF Proceeds, SameRow
<1>2. ASSUME NEW p \in Proc, CountMissed(p) PROVE RowsInv'
  <2>1. /\ Proceeds(p) /\ AtOwnRow(p) /\ loop[p].pc = "lap"
        /\ loop'[p].pc \in {"lap", "invalidate"}
        /\ UNCHANGED <<memory, counter>>
    BY <1>2, CountMissedDoes
  <2>2. \A r \in Proc : unread'[r] \subseteq unread[r]
    <3> DEFINE r == Least(loop[p].readers)
    <3>1. \/ unread' = [unread EXCEPT ![r] = @ \ {loop[p].row}]
          \/ UNCHANGED unread
      BY <1>2, CountMissedDoes
    <3> HIDE DEF r
    <3>2. unread \in [Proc -> SUBSET Row]
      BY DEF TypeInv, TypeOK
    <3> QED
      BY <3>1, <3>2
  <2>3. Writing(p)'
    BY <2>1 DEF Proceeds, AtOwnRow, Writing, PublishPC
  <2>4. \A x \in Row : NotYetIn(p, x)
    BY <2>1 DEF NotYetIn, PublishPC
  <2> QED
    BY <2>1, <2>2, <2>3, <2>4, RowsFrame DEF Proceeds, SameRow
<1>3. ASSUME NEW p \in Proc, Invalidate(p) PROVE RowsInv'
  <2>1. /\ Proceeds(p) /\ AtOwnRow(p) /\ loop[p].pc = "invalidate" /\ loop'[p].pc = "number"
        /\ ~memory'[loop[p].row].complete
        /\ UNCHANGED <<unread, missed, counter>>
    BY <1>3, InvalidateDoes
  <2>2. Writing(p)'
    BY <2>1 DEF Proceeds, AtOwnRow, Writing, PublishPC
  <2>3. \A x \in Row : NotYetIn(p, x)
    BY <2>1 DEF NotYetIn, PublishPC
  <2>4. \A x \in Row : SameRow(x) \/ (x.owner = p /\ ~memory'[x].complete)
    BY <2>1 DEF AtOwnRow, SameRow
  <2> QED
    BY <2>1, <2>2, <2>3, <2>4, RowsFrame DEF Proceeds
<1>4. ASSUME NEW p \in Proc, TakeNumber(p) PROVE RowsInv'
  <2> DEFINE row == loop[p].row
             c == loop[p].ch
  <2>1. /\ Proceeds(p) /\ AtOwnRow(p) /\ loop[p].pc = "number" /\ loop'[p].pc = "body"
        /\ memory'[row].complete = memory[row].complete
        /\ memory'[row].head = loop[p].head
        /\ memory'[row].seq = counter[c] + 1
        /\ counter' = [counter EXCEPT ![c] = @ + 1]
        /\ UNCHANGED <<unread, missed>>
    BY <1>4, TakeNumberDoes
  <2>2. /\ ~memory[row].complete /\ loop[p].head = loop[p].body /\ row.ch = c /\ c \in Channel
        /\ loop[p].body.from = p /\ loop[p].body.n = posted[p]
    BY <2>1 DEF Writing, PublishPC, Proceeds
  <2>3. \A d \in Channel : counter'[d] >= counter[d]
    <3>1. counter \in [Channel -> Nat]
      BY DEF TypeInv, TypeOK
    <3> QED
      BY <2>1, <3>1
  <2>4. counter'[c] = counter[c] + 1
    <3>1. counter \in [Channel -> Nat]
      BY DEF TypeInv, TypeOK
    <3> QED
      BY <2>1, <2>2, <3>1
  <2>5. ASSUME NEW x \in Row, x.owner = p, x.ch = c, memory'[x].complete
        PROVE  memory'[x].seq < memory'[row].seq
    <3>1. x # row
      BY <2>1, <2>2, <2>5
    <3>2. memory'[x] = memory[x]
      BY <2>1, <3>1 DEF AtOwnRow
    <3>3. memory[x].seq <= counter[c]
      BY <2>5, <3>2 DEF RowsInv, WholeRow
    <3> QED
      BY <2>1, <2>2, <3>2, <3>3
  <2>6. Writing(p)'
    BY <2>1, <2>2, <2>4, <2>5 DEF Proceeds, AtOwnRow, Writing, PublishPC
  <2>7. \A x \in Row : NotYetIn(p, x)
    BY <2>1 DEF NotYetIn, PublishPC
  <2>8. \A x \in Row : SameRow(x) \/ (x.owner = p /\ ~memory'[x].complete)
    BY <2>1, <2>2 DEF AtOwnRow, SameRow
  <2> QED
    BY <2>1, <2>3, <2>6, <2>7, <2>8, RowsFrame DEF Proceeds
<1>5. ASSUME NEW p \in Proc, WriteBody(p) PROVE RowsInv'
  <2> DEFINE row == loop[p].row
  <2>1. /\ Proceeds(p) /\ AtOwnRow(p) /\ loop[p].pc = "body" /\ loop'[p].pc = "complete"
        /\ memory'[row].complete = memory[row].complete
        /\ memory'[row].head = memory[row].head
        /\ memory'[row].seq = memory[row].seq
        /\ memory'[row].body = loop[p].body
        /\ UNCHANGED <<unread, missed, counter>>
    BY <1>5, WriteBodyDoes
  <2>2. ~memory[row].complete
    BY <2>1 DEF Writing
  <2>3. ASSUME NEW x \in Row, x.owner = p, x.ch = loop[p].ch, memory'[x].complete
        PROVE  memory'[x].seq < memory'[row].seq
    <3>1. x # row
      BY <2>1, <2>2, <2>3
    <3>2. memory'[x] = memory[x]
      BY <2>1, <3>1 DEF AtOwnRow
    <3> QED
      BY <2>1, <2>3, <3>2 DEF Writing
  <2>4. Writing(p)'
    BY <2>1, <2>2, <2>3 DEF Proceeds, AtOwnRow, Writing, PublishPC
  <2>5. \A x \in Row : NotYetIn(p, x)
    BY <2>1 DEF NotYetIn, PublishPC
  <2>6. \A x \in Row : SameRow(x) \/ (x.owner = p /\ ~memory'[x].complete)
    BY <2>1, <2>2 DEF AtOwnRow, SameRow
  <2> QED
    BY <2>1, <2>4, <2>5, <2>6, RowsFrame DEF Proceeds
<1>6. ASSUME NEW p \in Proc, Complete(p) PROVE RowsInv'
  <2> DEFINE row == loop[p].row
  <2>1. /\ Proceeds(p) /\ AtOwnRow(p) /\ loop[p].pc = "complete"
        /\ \/ loop'[p].pc = "mark" /\ loop'[p].readers # {}
           \/ loop'[p].pc = "ring" /\ loop'[p].readers = {}
        /\ loop'[p].readers = Others(p)
        /\ memory'[row].complete
        /\ memory'[row].head = memory[row].head
        /\ memory'[row].seq = memory[row].seq
        /\ memory'[row].body = memory[row].body
        /\ UNCHANGED <<unread, missed, counter>>
    BY <1>6, CompleteDoes
  <2>2. /\ ~memory[row].complete /\ row.ch = loop[p].ch
        /\ loop[p].body.from = p /\ loop[p].body.n = posted[p]
        /\ memory[row].head = loop[p].body /\ memory[row].body = loop[p].body
        /\ memory[row].seq <= counter[row.ch]
    BY <2>1 DEF Writing, PublishPC
  <2>3. \A r \in Proc : row \notin unread[r]
    BY <2>1 DEF WriterOK
  <2>4. Writing(p)'
    <3>1. Others(p) \subseteq Proc
      BY DEF Others
    <3> QED
      BY <2>1, <2>2, <2>3, <3>1 DEF Proceeds, AtOwnRow, Writing, PublishPC
  <2>5. ASSUME NEW q \in Proc \ {p} PROVE Writing(q)'
    <3>1. Writing(q) /\ loop'[q] = loop[q] /\ UNCHANGED <<posted, counter, unread>>
      BY <2>1 DEF Proceeds
    <3>2. loop[q].pc \in PublishPC \ {"claim"} =>
            loop[q].row \in Row /\ memory'[loop[q].row] = memory[loop[q].row]
      BY <2>1 DEF WriterOK, PublishPC, AtOwnRow
    <3>3. \A x \in Row : x.owner = q => memory'[x] = memory[x]
      BY <2>1 DEF AtOwnRow
    <3> QED
      BY <3>1, <3>2, <3>3 DEF Writing, PublishPC
  <2>6. ASSUME NEW x \in Row PROVE WholeRow(x)'
    <3>1. CASE x = row
      <4>1. ~NotYetIn(x.owner, x)'
        BY <2>1, <3>1 DEF NotYetIn, AtOwnRow
      <4> QED
        BY <2>1, <2>2, <3>1, <4>1 DEF WholeRow, AtOwnRow, Proceeds
    <3>2. CASE x # row
      <4>1. memory'[x] = memory[x] /\ WholeRow(x) /\ UNCHANGED <<posted, counter>>
        BY <2>1, <3>2 DEF AtOwnRow, Proceeds, RowsInv
      <4>2. NotYetIn(x.owner, x)' => NotYetIn(x.owner, x)
        <5>1. CASE x.owner = p
          BY <2>1, <5>1 DEF NotYetIn, PublishPC
        <5>2. CASE x.owner # p
          BY <2>1, <5>2 DEF NotYetIn, Proceeds
        <5> QED
          BY <5>1, <5>2
      <4> QED
        BY <4>1, <4>2 DEF WholeRow
    <3> QED
      BY <3>1, <3>2
  <2>7. ASSUME NEW x \in Row, x # row, x.ch = row.ch, x.owner = p, memory'[x].complete
        PROVE  memory'[x].seq < memory'[row].seq /\ memory'[x].body.n < memory'[row].body.n
    <3>1. memory'[x] = memory[x] /\ WholeRow(x)
      BY <2>1, <2>7 DEF AtOwnRow, RowsInv
    <3>2. memory[x].seq < memory[row].seq
      BY <2>1, <2>2, <2>7, <3>1 DEF Writing
    <3>3. memory[x].body.n < posted[p]
      BY <2>1, <2>7, <3>1 DEF WholeRow, NotYetIn, PublishPC
    <3> QED
      BY <2>1, <2>2, <3>1, <3>2, <3>3
  <2>8. ASSUME NEW x \in Row, NEW y \in Row PROVE InOrder(x, y)'
    <3> SUFFICES ASSUME x # y, x.ch = y.ch, x.owner = y.owner, memory'[x].complete, memory'[y].complete
                 PROVE  \/ memory'[x].seq < memory'[y].seq /\ memory'[x].body.n < memory'[y].body.n
                        \/ memory'[y].seq < memory'[x].seq /\ memory'[y].body.n < memory'[x].body.n
      BY DEF InOrder
    <3>1. CASE x = row
      BY <2>1, <2>7, <3>1 DEF AtOwnRow
    <3>2. CASE y = row
      BY <2>1, <2>7, <3>2 DEF AtOwnRow
    <3>3. CASE x # row /\ y # row
      <4>1. memory'[x] = memory[x] /\ memory'[y] = memory[y] /\ InOrder(x, y)
        BY <2>1, <3>3 DEF AtOwnRow, RowsInv
      <4> QED
        BY <4>1 DEF InOrder
    <3> QED
      BY <3>1, <3>2, <3>3
  <2> QED
    BY <2>4, <2>5, <2>6, <2>8 DEF RowsInv
<1>7. ASSUME NEW p \in Proc, MarkUnread(p) PROVE RowsInv'
  <2> DEFINE r == Least(loop[p].readers)
             row == loop[p].row
  <2>1. /\ Proceeds(p) /\ AtOwnRow(p) /\ loop[p].pc = "mark"
        /\ loop'[p].readers = loop[p].readers \ {r}
        /\ \/ loop'[p].pc = "mark" /\ loop'[p].readers # {}
           \/ loop'[p].pc = "ring" /\ loop'[p].readers = {}
        /\ UNCHANGED <<memory, missed, counter>>
        /\ \/ unread' = [unread EXCEPT ![r] = @ \cup {row}]
           \/ UNCHANGED unread
    BY <1>7, MarkUnreadDoes
  <2> HIDE DEF r
  <2>2. unread \in [Proc -> SUBSET Row] /\ loop[p].readers \subseteq Proc
    BY DEF TypeInv, TypeOK, LoopState
  <2>3. \A q \in Proc : unread'[q] = unread[q] \/ (q = r /\ unread'[q] = unread[q] \cup {row})
    BY <2>1, <2>2
  <2>4. Writing(p)'
    <3>1. /\ loop[p].head = loop[p].body /\ loop[p].body.from = p /\ loop[p].body.n = posted[p]
          /\ row.ch = loop[p].ch /\ memory[row].body = loop[p].body
          /\ \A q \in loop[p].readers : row \notin unread[q]
      BY <2>1 DEF Writing, PublishPC
    <3>2. \A q \in loop'[p].readers : row \notin unread'[q]
      BY <2>1, <2>2, <2>3, <3>1
    <3> QED
      BY <2>1, <3>1, <3>2 DEF Proceeds, AtOwnRow, Writing, PublishPC
  <2>5. \A x \in Row : NotYetIn(p, x)' => NotYetIn(p, x)
    BY <2>1 DEF NotYetIn, PublishPC, AtOwnRow
  <2>6. \A q \in Proc, x \in Row : x.owner # p /\ x \in unread'[q] => x \in unread[q]
    BY <2>1, <2>3 DEF AtOwnRow
  <2> QED
    BY <2>1, <2>4, <2>5, <2>6, RowsFrame DEF Proceeds, SameRow
<1>8. ASSUME NEW p \in Proc, Ring(p) PROVE RowsInv'
  <2>1. Bystands(p)
    BY <1>8, RingDoes DEF Bystands, SameRow, PublishPC
  <2> QED
    BY <2>1, BystandsRows
<1>9. ASSUME UNCHANGED vars PROVE RowsInv'
  <2>1. \A p \in Proc : Bystands(p)
    BY <1>9 DEF vars, shared, private, history, Bystands, SameRow
  <2>2. 0 \in Proc
    <3>1. ProcessCount \in 1 .. 255
      BY LinkAssumption
    <3> QED
      BY <3>1 DEF Proc
  <2> QED
    BY <2>1, <2>2, BystandsRows
<1> QED
  BY <1>1, <1>2, <1>3, <1>4, <1>5, <1>6, <1>7, <1>8, <1>9, Steps, BystandsRows, StartsRows
     DEF Writes, Idles

-----------------------------------------------------------------------------
(* The readers                                                             *)

\* At the start nothing is read and nothing was taken.
LEMMA InitReaders == Init => ReadersInv /\ PastInv
BY DEF Init, ReadersInv, ReaderOK, OnChannel, Reading, Snapshot, PastInv, Past, Free, Asleep,
       ReadingPC

\* What is unread is complete, so all of WholeRow and InOrder is known of it.
LEMMA UnreadRow ==
  ASSUME BitInv, RowsInv, NEW r \in Proc, NEW x \in unread[r]
  PROVE  /\ x \in Row /\ memory[x].complete
         /\ memory[x].head = memory[x].body
         /\ memory[x].body.from = x.owner
         /\ memory[x].body.n <= posted[x.owner]
         /\ NotYetIn(x.owner, x) => memory[x].body.n < posted[x.owner]
         /\ \A y \in unread[r] : InOrder(x, y)
<1>1. x \in Row /\ memory[x].complete /\ unread[r] \subseteq Row
  BY Typed DEF BitInv, BitMeansComplete, Shapes
<1> QED
  BY <1>1 DEF RowsInv, WholeRow

\* A step of _publish leaves every reader as it was, but for the newest message
\* of the writer or a lap that the reader is told of.
LEMMA WritesReaders ==
  ASSUME ~RacyUpdates, BitInv, TypeInv', RowsInv, ReadersInv, NEW p \in Proc, Writes(p)
  PROVE  ReadersInv'
<1>0. TypeInv /\ WriterInv /\ WriterOK(p) /\ Writing(p) /\ \A r \in Proc : ReaderOK(r)
  BY DEF BitInv, WriterInv, RowsInv, ReadersInv
<1> USE <1>0, Typed, TypedNext DEF Shapes
<1>1. ASSUME Proceeds(p), loop[p].pc \in PublishPC, loop'[p].pc \in PublishPC
      PROVE  \A r \in Proc : KeepsSnapshots(r)
  BY <1>1 DEF Proceeds, KeepsSnapshots, PublishPC, ReadingPC
<1>2. ASSUME Proceeds(p), AtOwnRow(p), loop[p].pc \in PublishPC, loop'[p].pc \in PublishPC,
             \A r \in Proc : loop[p].row \notin unread[r], UNCHANGED <<unread, missed>>
      PROVE  ReadersInv'
  <2>1. \A r \in Proc, x \in Row : x \in unread[r] => memory'[x] = memory[x]
    BY <1>2 DEF AtOwnRow
  <2>2. \A r \in Proc : ReaderOK(r)'
    BY <1>1, <1>2, <2>1, ReaderFrame
  <2> QED
    BY <2>2 DEF ReadersInv
<1>3. CASE ClaimRow(p)
  <2>1. /\ Proceeds(p) /\ loop[p].pc \in PublishPC /\ loop'[p].pc \in PublishPC
        /\ UNCHANGED <<memory, unread, missed>>
    BY <1>3, ClaimRowDoes DEF PublishPC
  <2>2. \A r \in Proc : ReaderOK(r)'
    BY <1>1, <2>1, ReaderFrame
  <2> QED
    BY <2>2 DEF ReadersInv
<1>4. CASE CountMissed(p)
  <2> DEFINE l == Least(loop[p].readers)
             row == loop[p].row
  <2>1. /\ Proceeds(p) /\ AtOwnRow(p) /\ loop[p].pc \in PublishPC /\ loop'[p].pc \in PublishPC
        /\ missed' = [missed EXCEPT ![l] = @ \cup {loop[p].ch}]
        /\ \/ unread' = [unread EXCEPT ![l] = @ \ {row}]
           \/ UNCHANGED unread
        /\ UNCHANGED memory
    BY <1>4, CountMissedDoes DEF PublishPC
  <2>2. row.ch = loop[p].ch
    BY <1>4 DEF CountMissed, Writing, PublishPC
  <2> HIDE DEF l
  <2>3. unread \in [Proc -> SUBSET Row] /\ missed \in [Proc -> SUBSET Channel]
    BY DEF TypeInv, TypeOK
  <2>4. ASSUME NEW r \in Proc PROVE ReaderOK(r)'
    <3>1. missed[r] \subseteq missed'[r]
      BY <2>1, <2>3
    <3>2. \A x \in Row : x.ch \notin missed'[r] => (x \in unread[r] <=> x \in unread'[r])
      BY <2>1, <2>2, <2>3
    <3> QED
      BY <1>1, <2>1, <3>1, <3>2, ReaderFrame
  <2> QED
    BY <2>4 DEF ReadersInv
<1>5. CASE Invalidate(p)
  BY <1>2, <1>5, InvalidateDoes DEF WriterOK, PublishPC
<1>6. CASE TakeNumber(p)
  BY <1>2, <1>6, TakeNumberDoes DEF WriterOK, PublishPC
<1>7. CASE WriteBody(p)
  BY <1>2, <1>7, WriteBodyDoes DEF WriterOK, PublishPC
<1>8. CASE Complete(p)
  BY <1>2, <1>8, CompleteDoes DEF WriterOK, PublishPC
<1>9. CASE MarkUnread(p)
  <2> DEFINE l == Least(loop[p].readers)
             row == loop[p].row
  <2>1. /\ Proceeds(p) /\ AtOwnRow(p) /\ loop[p].pc = "mark" /\ loop'[p].pc \in PublishPC
        /\ \/ unread' = [unread EXCEPT ![l] = @ \cup {row}]
           \/ UNCHANGED unread
        /\ UNCHANGED <<memory, missed>>
    BY <1>9, MarkUnreadDoes DEF PublishPC
  <2> HIDE DEF l
  <2>2. unread \in [Proc -> SUBSET Row]
    BY DEF TypeInv, TypeOK
  <2>3. memory[row].body.n = posted[p] /\ row.owner = p
    BY <2>1 DEF Writing, PublishPC, AtOwnRow
  <2>4. ASSUME NEW r \in Proc PROVE ReaderOK(r)'
    <3>1. \A x \in Row : (x \in unread[r] => x \in unread'[r])
                         /\ (x \in unread'[r] => x \in unread[r] \/ x = row)
      BY <2>1, <2>2
    <3>2. \A y \in unread[r] : Source(row, y) => memory[y].body.n <= memory[row].body.n
      BY <2>3, UnreadRow DEF Source
    <3>3. KeepsSnapshots(r)
      BY <1>1, <2>1 DEF PublishPC
    <3> QED
      BY <2>1, <3>1, <3>2, <3>3, ReaderFrame
  <2> QED
    BY <2>4 DEF ReadersInv
<1>10. CASE Ring(p)
  <2>1. \A r \in Proc : KeepsSnapshots(r)
    BY <1>10, RingDoes DEF KeepsSnapshots, ReadingPC
  <2>2. \A r \in Proc : ReaderOK(r)'
    BY <1>10, <2>1, RingDoes, ReaderFrame
  <2> QED
    BY <2>2 DEF ReadersInv
<1> QED
  BY <1>3, <1>4, <1>5, <1>6, <1>7, <1>8, <1>9, <1>10 DEF Writes

\* A step in which p only looks leaves the readers but p as they were.
LEMMA BystandsReaders ==
  ASSUME BitInv, TypeInv', ReadersInv, NEW p \in Proc, Bystands(p), ReaderOK(p)'
  PROVE  ReadersInv'
<1>1. ASSUME NEW r \in Proc \ {p} PROVE ReaderOK(r)'
  <2>1. ReaderOK(r) /\ KeepsSnapshots(r)
    BY <1>1 DEF ReadersInv, Bystands, KeepsSnapshots
  <2> QED
    BY <2>1, ReaderFrame DEF BitInv, Bystands, SameRow
<1> QED
  BY <1>1 DEF ReadersInv

\* _drain and _consume read on in the order of the snapshot.
LEMMA TakesReaders ==
  ASSUME ~RacyUpdates, BitInv, TypeInv', RowsInv, ReadersInv, NEW p \in Proc,
         Takes(p), Bystands(p)
  PROVE  ReadersInv'
<1>0. /\ TypeInv /\ ReaderOK(p) /\ OnChannel(p) /\ Reading(p) /\ \A c \in Channel : Snapshot(p, c)
      /\ loop \in [Proc -> LoopState] /\ pump \in [Proc -> [Channel -> PumpState]]
      /\ unread \in [Proc -> SUBSET Row] /\ memory \in [Row -> RowData]
  BY DEF BitInv, ReadersInv, ReaderOK, TypeInv, TypeOK
<1> USE <1>0, Typed, TypedNext DEF Shapes
<1>1. ASSUME NEW c \in Channel, Scan(p, c) PROVE ReaderOK(p)'
  <2> DEFINE todo == {[row |-> row, seq |-> memory[row].seq] : row \in {x \in unread[p] : x.ch = c}}
             w == [Asleep EXCEPT !.pc = "draining", !.todo = todo]
  <2>1. UNCHANGED <<memory, unread, missed>> /\ loop[p].pc = "free"
    BY <1>1 DEF Scan, shared
  <2>2. CASE pump' = [pump EXCEPT ![p][c] = Asleep] /\ UNCHANGED loop
    <3>1. \A d \in Channel : pump'[p][d].todo \in {pump[p][d].todo, {}}
      BY <2>2 DEF Asleep
    <3> QED
      BY <2>1, <2>2, <3>1, ReaderFrame DEF KeepsSnapshots
  <2>3. CASE pump' = [pump EXCEPT ![p][c] = w] /\ loop' = [loop EXCEPT ![p] = [Free EXCEPT !.pc = "next", !.ch = c]]
    <3>1. w.todo = todo /\ loop'[p].pc = "next"
      BY <2>3 DEF Asleep, Free
    <3> HIDE DEF w
    <3>2. pump'[p][c].todo = todo /\ \A d \in Channel \ {c} : pump'[p][d] = pump[p][d]
      BY <2>3, <3>1
    <3>3. Reading(p)'
      BY <3>1 DEF Reading, ReadingPC
    <3>6. OnChannel(p)'
      <4>1. \A i \in todo : i.row.ch = c
        OBVIOUS
      <4> HIDE DEF todo
      <4> QED
        BY <3>1, <3>2, <4>1 DEF OnChannel, ReadingPC
    <3>4. Snapshot(p, c)'
      <4>1. \A i \in todo : i.row \in unread[p] /\ i.row.ch = c /\ i.seq = memory[i.row].seq
        OBVIOUS
      <4>2. ASSUME NEW i \in todo, NEW x \in unread[p], Source(x, i.row)
            PROVE  \E j \in todo : j.row = x
        <5>1. x.ch = c
          BY <4>1, <4>2 DEF Source
        <5>2. [row |-> x, seq |-> memory[x].seq] \in todo
          BY <5>1
        <5>3. [row |-> x, seq |-> memory[x].seq].row = x
          OBVIOUS
        <5> HIDE DEF todo
        <5> QED
          BY <5>2, <5>3
      <4> HIDE DEF todo
      <4>3. \A i \in todo, x \in unread[p] : Source(x, i.row) => Picked(p, c, x)'
        BY <3>2, <4>2 DEF Picked
      <4> QED
        BY <2>1, <3>2, <4>1, <4>3 DEF Snapshot, Source
    <3>5. ASSUME NEW d \in Channel \ {c} PROVE Snapshot(p, d)'
      <4>1. Snapshot(p, d) /\ pump'[p][d] = pump[p][d] /\ ~Reads(p, loop[p].row)
        BY <2>1, <3>2 DEF Reads, ReadingPC
      <4>2. \A x : Picked(p, d, x) => Picked(p, d, x)'
        BY <2>1, <4>1 DEF Picked, Reads, ReadingPC
      <4> QED
        BY <2>1, <4>1, <4>2 DEF Snapshot, NotNewer, Source
    <3> QED
      BY <3>3, <3>4, <3>5, <3>6 DEF ReaderOK
  <2> QED
    BY <1>1, <2>2, <2>3 DEF Scan
<1>2. ASSUME NextRow(p) PROVE ReaderOK(p)'
  <2> DEFINE c == loop[p].ch
             todo == pump[p][c].todo
  <2>1. UNCHANGED <<memory, unread, missed>> /\ loop[p].pc = "next" /\ c \in Channel
    BY <1>2 DEF NextRow, shared
  <2>2. CASE todo = {} /\ pump' = [pump EXCEPT ![p][c] = Asleep] /\ loop' = [loop EXCEPT ![p] = Free]
    <3>1. \A d \in Channel : pump'[p][d].todo \in {pump[p][d].todo, {}}
      BY <2>1, <2>2 DEF Asleep
    <3>2. loop'[p].pc = "free"
      BY <2>2 DEF Free
    <3>3. KeepsSnapshots(p)
      BY <2>1, <3>1, <3>2 DEF KeepsSnapshots, ReadingPC
    <3> QED
      BY <2>1, <3>3, ReaderFrame
  <2>3. ASSUME NEW item \in todo, \A other \in todo : Earlier(item, other),
               pump' = [pump EXCEPT ![p][c].todo = todo \ {item}],
               loop' = IF memory[item.row].complete
                       THEN [loop EXCEPT ![p].pc = "head", ![p].row = item.row] ELSE loop
        PROVE  ReaderOK(p)'
    <3>1. /\ pump'[p][c].todo = todo \ {item}
          /\ \A d \in Channel \ {c} : pump'[p][d] = pump[p][d]
      BY <2>1, <2>3 DEF PumpState
    <3>2. /\ memory[item.row].complete =>
               loop'[p].pc = "head" /\ loop'[p].row = item.row /\ loop'[p].ch = c
          /\ ~memory[item.row].complete => loop'[p] = loop[p]
      BY <2>3 DEF LoopState
    <3>3. ASSUME c \notin missed[p]
          PROVE  /\ item.row \in unread[p] /\ item.row.ch = c /\ loop'[p].pc = "head"
                 /\ loop'[p].row = item.row /\ loop'[p].ch = c
                 /\ \A i \in todo \ {item} : i.row # item.row
                 /\ \A x \in unread[p] : Source(x, item.row) => NotNewer(item.row, x)
      <4>1. /\ \A i \in todo : i.row \in unread[p] /\ i.row.ch = c /\ i.seq = memory[i.row].seq
            /\ \A i \in todo : i = [row |-> i.row, seq |-> i.seq] /\ i.seq \in Nat
            /\ \A i \in todo : \A x \in unread[p] :
                 Source(x, i.row) => NotNewer(i.row, x) \/ Picked(p, c, x)
        <5>1. todo \subseteq [row : Row, seq : Nat]
          BY <2>1
        <5>2. \A i \in [row : Row, seq : Nat] : i = [row |-> i.row, seq |-> i.seq] /\ i.seq \in Nat
          OBVIOUS
        <5>3. \A i \in todo : i.row.ch = c
          BY <2>1 DEF OnChannel
        <5>4. Snapshot(p, c)
          BY <2>1
        <5> HIDE DEF todo
        <5>5. \A i \in todo : i = [row |-> i.row, seq |-> i.seq] /\ i.seq \in Nat
          BY <5>1, <5>2
        <5> QED
          BY <3>3, <5>3, <5>4, <5>5 DEF Snapshot, todo
      <4>2. memory[item.row].complete
        BY <4>1, UnreadRow
      <4>3. \A i \in todo \ {item} : i.row # item.row
        <5> HIDE DEF todo
        <5> QED
          BY <2>3, <4>1
      <4>4. ASSUME NEW x \in unread[p], Source(x, item.row) PROVE NotNewer(item.row, x)
        <5>1. CASE NotNewer(item.row, x)
          BY <5>1
        <5>2. CASE \E j \in todo : j.row = x
          <6>1. PICK j \in todo : j.row = x
            BY <5>2
          <6>2. item.seq <= j.seq
            <7> HIDE DEF todo
            <7>1. Earlier(item, j)
              BY <2>3, <6>1
            <7>2. item.seq \in Nat /\ j.seq \in Nat
              BY <2>3, <4>1, <6>1
            <7> QED
              BY <7>1, <7>2 DEF Earlier
          <6>3. memory[item.row].seq <= memory[x].seq
            BY <4>1, <6>1, <6>2
          <6>4. InOrder(item.row, x) /\ memory[x].complete /\ memory[item.row].complete
                /\ x \in Row /\ item.row \in Row
            BY <4>1, <4>2, UnreadRow
          <6> QED
            BY <4>4, <6>3, <6>4 DEF InOrder, NotNewer, Source
        <5> QED
          BY <2>1, <4>1, <4>4, <5>1, <5>2 DEF Picked, Reads, ReadingPC
      <4> QED
        BY <3>2, <4>1, <4>2, <4>3, <4>4
    <3>6. OnChannel(p)'
      <4>1. item.row.ch = c
        BY <2>1 DEF OnChannel
      <4>2. \A d \in Channel : pump'[p][d].todo \subseteq pump[p][d].todo
        BY <3>1
      <4>3. loop'[p].pc \in ReadingPC => loop'[p].row.ch = loop'[p].ch
        BY <2>1, <3>2, <4>1 DEF ReadingPC
      <4> QED
        BY <4>2, <4>3 DEF OnChannel
    <3>4. Reading(p)'
      <4>1. CASE ~memory[item.row].complete
        BY <2>1, <3>2, <4>1 DEF Reading, ReadingPC
      <4>2. CASE memory[item.row].complete
        <5> SUFFICES ASSUME c \notin missed[p] PROVE Reading(p)'
          BY <2>1, <3>2, <4>2 DEF Reading
        <5> QED
          BY <2>1, <3>1, <3>3 DEF Reading, NotNewer, Source
      <4> QED
        BY <4>1, <4>2
    <3>5. ASSUME NEW d \in Channel PROVE Snapshot(p, d)'
      <4> SUFFICES ASSUME d \notin missed[p] PROVE Snapshot(p, d)'
        BY <2>1 DEF Snapshot
      <4>1. pump'[p][d].todo \subseteq pump[p][d].todo
        BY <3>1
      <4>2. ASSUME NEW x, Picked(p, d, x), d = c \/ x.ch # c PROVE Picked(p, d, x)'
        <5>1. \E j \in pump[p][d].todo : j.row = x
          BY <2>1, <4>2 DEF Picked, Reads, ReadingPC
        <5>2. CASE d = c
          BY <3>1, <3>3, <5>1, <5>2 DEF Picked, Reads, ReadingPC
        <5>3. CASE d # c
          BY <3>1, <5>1, <5>3 DEF Picked
        <5> QED
          BY <5>2, <5>3
      <4>3. Snapshot(p, d)
        OBVIOUS
      <4>4. ASSUME NEW i \in pump'[p][d].todo, NEW x \in unread[p], Source(x, i.row)
            PROVE  NotNewer(i.row, x) \/ Picked(p, d, x)'
        <5>1. i \in pump[p][d].todo /\ i.row.ch = d
          BY <4>1 DEF OnChannel
        <5>2. NotNewer(i.row, x) \/ Picked(p, d, x)
          BY <4>3, <4>4, <5>1 DEF Snapshot
        <5>3. d = c \/ x.ch # c
          BY <4>4, <5>1 DEF Source
        <5> QED
          BY <4>2, <5>2, <5>3
      <4> QED
        BY <2>1, <4>1, <4>3, <4>4 DEF Snapshot, NotNewer, Source
    <3> QED
      BY <3>4, <3>5, <3>6 DEF ReaderOK
  <2> QED
    BY <1>2, <2>2, <2>3 DEF NextRow
<1>3. ASSUME ReadHead(p) PROVE ReaderOK(p)'
  <2> DEFINE row == loop[p].row
             head == [memory[row].head EXCEPT !.kind = memory[row].body.kind]
             s == [loop[p] EXCEPT !.head = head, !.pc = "rest"]
  <2>1. /\ UNCHANGED <<memory, unread, missed, pump>> /\ loop[p].pc = "head"
        /\ loop[p].ch \in Channel /\ row \in Row
    BY <1>3 DEF ReadHead, shared
  <2>2. loop' = [loop EXCEPT ![p] = s]
    BY <1>3 DEF ReadHead
  <2> HIDE DEF head
  <2>3. /\ loop'[p].row = row /\ loop'[p].ch = loop[p].ch /\ loop'[p].head = head
        /\ loop'[p].pc = "rest"
    BY <2>2 DEF LoopState
  <2>4. Reading(p)'
    <3> SUFFICES ASSUME loop[p].ch \notin missed[p] PROVE Reading(p)'
      BY <2>1, <2>3 DEF Reading
    <3>1. memory[row].head = memory[row].body
      BY <2>1, UnreadRow DEF Reading, ReadingPC
    <3>2. memory[row].body \in Msg
      BY <2>1 DEF RowData
    <3>3. head = memory[row].body
      BY <3>1, <3>2 DEF head, Msg
    <3> QED
      BY <2>1, <2>3, <3>3 DEF Reading, ReadingPC, NotNewer, Source
  <2>5. ASSUME NEW d \in Channel PROVE Snapshot(p, d)'
    <3>1. \A x : Picked(p, d, x) => Picked(p, d, x)'
      BY <2>1, <2>3 DEF Picked, Reads, ReadingPC
    <3>2. Snapshot(p, d)
      OBVIOUS
    <3> QED
      BY <2>1, <3>1, <3>2 DEF Snapshot, NotNewer, Source
  <2>6. OnChannel(p)'
    BY <2>1, <2>3 DEF OnChannel, ReadingPC
  <2> QED
    BY <2>4, <2>5, <2>6 DEF ReaderOK
<1>4. ASSUME ReadBody(p) PROVE ReaderOK(p)'
  <2> DEFINE row == loop[p].row
             s == [loop[p] EXCEPT !.body = memory[row].body, !.pc = "lower"]
  <2>1. /\ UNCHANGED <<memory, unread, missed, pump>> /\ loop[p].pc = "rest"
        /\ loop[p].ch \in Channel /\ row \in Row
    BY <1>4 DEF ReadBody, shared
  <2>2. loop' = [loop EXCEPT ![p] = s]
    BY <1>4 DEF ReadBody
  <2>3. /\ loop'[p].row = row /\ loop'[p].ch = loop[p].ch /\ loop'[p].head = loop[p].head
        /\ loop'[p].body = memory[row].body /\ loop'[p].pc = "lower"
    BY <2>2 DEF LoopState
  <2>4. Reading(p)'
    BY <2>1, <2>3 DEF Reading, ReadingPC, NotNewer, Source
  <2>5. ASSUME NEW d \in Channel PROVE Snapshot(p, d)'
    <3>1. \A x : Picked(p, d, x) => Picked(p, d, x)'
      BY <2>1, <2>3 DEF Picked, Reads, ReadingPC
    <3>2. Snapshot(p, d)
      OBVIOUS
    <3> QED
      BY <2>1, <3>1, <3>2 DEF Snapshot, NotNewer, Source
  <2>6. OnChannel(p)'
    BY <2>1, <2>3 DEF OnChannel, ReadingPC
  <2> QED
    BY <2>4, <2>5, <2>6 DEF ReaderOK
<1>5. ASSUME LowerBit(p) PROVE ReaderOK(p)'
  <2> DEFINE row == loop[p].row
             c == loop[p].ch
  <2>1. UNCHANGED <<memory, missed>> /\ loop[p].pc = "lower" /\ c \in Channel /\ row \in Row
    BY <1>5 DEF LowerBit
  <2>2. unread'[p] = unread[p] \ {row}
    BY <1>5, <2>1, WrittenIsOneBit DEF LowerBit, LoadByte
  <2>3. loop'[p].pc \in {"free", "next"}
    <3>1. \/ loop' = [loop EXCEPT ![p] = [Free EXCEPT !.pc = "next", !.ch = loop[p].ch]]
          \/ loop' = [loop EXCEPT ![p] = Free]
      BY <1>5 DEF LowerBit, LoadByte
    <3>2. [Free EXCEPT !.pc = "next", !.ch = loop[p].ch].pc = "next" /\ Free.pc = "free"
      BY DEF Free
    <3> QED
      BY <3>1, <3>2
  <2>4. \A d \in Channel : pump'[p][d].todo = pump[p][d].todo
    <3> DEFINE head == loop[p].head
               body == loop[p].body
    <3>1. \/ UNCHANGED pump
          \/ pump' = [pump EXCEPT ![p][c] =
                        [@ EXCEPT !.pc = "handling", !.row = row, !.head = head, !.body = body]]
      BY <1>5 DEF LowerBit, LoadByte
    <3> DEFINE w == [pump[p][c] EXCEPT !.pc = "handling", !.row = row, !.head = head, !.body = body]
    <3>2. pump[p][c] \in PumpState
      BY <2>1
    <3>3. w.todo = pump[p][c].todo
      BY <3>2 DEF PumpState
    <3>4. UNCHANGED pump \/ pump' = [pump EXCEPT ![p][c] = w]
      BY <2>1, <3>1
    <3> HIDE DEF w
    <3>5. pump'[p][c] = pump[p][c] \/ pump'[p][c] = w
      BY <2>1, <3>4
    <3>6. \A d \in Channel \ {c} : pump'[p][d] = pump[p][d]
      BY <2>1, <3>4
    <3> QED
      BY <3>3, <3>5, <3>6
  <2>5. Reading(p)'
    BY <2>3 DEF Reading, ReadingPC
  <2>6. ASSUME NEW d \in Channel PROVE Snapshot(p, d)'
    <3> SUFFICES ASSUME d \notin missed[p] PROVE Snapshot(p, d)'
      BY <2>1 DEF Snapshot
    <3>1. \A i \in pump[p][d].todo :
            /\ i.row \in unread[p] /\ i.row.ch = d /\ i.seq = memory[i.row].seq
            /\ \A x \in unread[p] : Source(x, i.row) => NotNewer(i.row, x) \/ Picked(p, d, x)
      BY DEF Snapshot, OnChannel
    <3>2. \A i \in pump[p][d].todo : i.row # row
      <4>1. CASE d = c
        BY <2>1, <4>1 DEF Reading, ReadingPC
      <4>2. CASE d # c
        <5>1. row.ch = c
          BY <2>1 DEF OnChannel, ReadingPC
        <5> QED
          BY <3>1, <4>2, <5>1
      <4> QED
        BY <4>1, <4>2
    <3>3. \A x \in unread'[p] : Picked(p, d, x) => Picked(p, d, x)'
      BY <2>2, <2>4 DEF Picked, Reads
    <3> QED
      BY <2>1, <2>2, <2>4, <3>1, <3>2, <3>3 DEF Snapshot, NotNewer, Source
  <2>7. OnChannel(p)'
    BY <2>3, <2>4 DEF OnChannel, ReadingPC
  <2> QED
    BY <2>5, <2>6, <2>7 DEF ReaderOK
<1> QED
  BY <1>1, <1>2, <1>3, <1>4, <1>5, BystandsReaders DEF Takes

\* Every step keeps the readers that were not lapped in order.
LEMMA NextReaders ==
  ASSUME ~RacyUpdates, BitInv, TypeInv', RowsInv, ReadersInv, [Next]_vars
  PROVE  ReadersInv'
<1>0. TypeInv /\ \A p \in Proc : ReaderOK(p)
  BY DEF BitInv, ReadersInv
<1>1. ASSUME UNCHANGED <<memory, unread, missed>>, \A p \in Proc : KeepsSnapshots(p)
      PROVE  ReadersInv'
  <2>1. \A p \in Proc : ReaderOK(p)'
    BY <1>0, <1>1, ReaderFrame
  <2> QED
    BY <2>1 DEF ReadersInv
<1>2. ASSUME NEW p \in Proc, \A q \in Proc : KeepsSnapshots(q), UNCHANGED <<unread, missed>>,
             \A x \in Row : SameRow(x)
      PROVE  ReadersInv'
  <2>1. \A q \in Proc : ReaderOK(q)'
    BY <1>0, <1>2, ReaderFrame DEF SameRow
  <2> QED
    BY <2>1 DEF ReadersInv
<1>3. ASSUME NEW p \in Proc, Writes(p) PROVE ReadersInv'
  BY <1>3, WritesReaders
<1>4. ASSUME NEW p \in Proc, Starts(p) PROVE ReadersInv'
  BY <1>2, <1>4 DEF Starts, KeepsSnapshots
<1>5. ASSUME NEW p \in Proc, Idles(p) PROVE ReadersInv'
  BY <1>2, <1>5 DEF Idles, Bystands, KeepsSnapshots
<1>6. ASSUME NEW p \in Proc, Takes(p), Bystands(p) PROVE ReadersInv'
  BY <1>6, TakesReaders
<1>7. ASSUME UNCHANGED vars PROVE ReadersInv'
  BY <1>1, <1>7 DEF vars, shared, private, KeepsSnapshots
<1> QED
  BY <1>0, <1>3, <1>4, <1>5, <1>6, <1>7, Steps
-----------------------------------------------------------------------------
(* What the readers have taken                                             *)

\* A step of _publish brings no writer back before the marks.
LEMMA WritesPast ==
  ASSUME ~RacyUpdates, BitInv, RowsInv, NEW p \in Proc, Writes(p)
  PROVE  /\ UNCHANGED <<posted, delivered>>
         /\ \A r \in Proc : missed[r] \subseteq missed'[r]
         /\ \A w, r \in Proc : NotYetFor(w, r)' => NotYetFor(w, r)
<1>0. TypeInv /\ WriterInv /\ loop[p] \in LoopState /\ missed \in [Proc -> SUBSET Channel]
  BY DEF BitInv, TypeInv, TypeOK
<1>1. /\ Proceeds(p) \/ UNCHANGED <<posted, delivered>>
      /\ \A q \in Proc \ {p} : loop'[q] = loop[q]
  BY <1>0, ClaimRowDoes, CountMissedDoes, InvalidateDoes, TakeNumberDoes, WriteBodyDoes,
     CompleteDoes, MarkUnreadDoes, RingDoes DEF Writes, Proceeds
<1>2. \/ loop[p].pc \in PublishPC \ {"mark", "ring"}
      \/ loop[p].pc = "mark" /\ loop'[p].pc = "mark" /\ loop'[p].readers \subseteq loop[p].readers
      \/ loop'[p].pc = "ring" /\ loop'[p].readers = {}
      \/ loop'[p].pc \notin PublishPC
  BY <1>0, MarkUnreadDoes, RingDoes
     DEF Writes, PublishPC, ClaimRow, CountMissed, Invalidate, TakeNumber, WriteBody, Complete
<1>3. ASSUME NEW r \in Proc, NotYetFor(p, r)' PROVE NotYetFor(p, r)
  BY <1>2, <1>3 DEF NotYetFor, PublishPC
<1>4. \A w, r \in Proc : NotYetFor(w, r)' => NotYetFor(w, r)
  BY <1>1, <1>3 DEF NotYetFor
<1>5. \A r \in Proc : missed[r] \subseteq missed'[r]
  <2>1. \/ UNCHANGED missed
        \/ missed' = [missed EXCEPT ![Least(loop[p].readers)] = @ \cup {loop[p].ch}]
    BY <1>0, ClaimRowDoes, CountMissedDoes, InvalidateDoes, TakeNumberDoes, WriteBodyDoes,
       CompleteDoes, MarkUnreadDoes, RingDoes DEF Writes
  <2> QED
    BY <1>0, <2>1
<1> QED
  BY <1>1, <1>4, <1>5 DEF Proceeds

\* What p takes out of a row is the newest of it, and no newer message of the
\* writer has been marked for p.
LEMMA LowerBitPast ==
  ASSUME ~RacyUpdates, BitInv, TypeInv', RowsInv, ReadersInv, PastInv,
         NEW p \in Proc, LowerBit(p), Bystands(p)
  PROVE  Past(p)'
<1> DEFINE row == loop[p].row
           c   == loop[p].ch
           d   == [ch |-> c, head |-> loop[p].head, body |-> loop[p].body]
<1>1. /\ TypeInv /\ Reading(p) /\ Past(p) /\ loop[p].pc = "lower"
      /\ delivered \in [Proc -> Seq([ch : Channel, head : Msg, body : Msg])]
  BY DEF BitInv, TypeInv, TypeOK, ReadersInv, ReaderOK, PastInv, LowerBit
<1>2. delivered'[p] = Append(delivered[p], d)
  BY <1>1 DEF LowerBit, LoadByte
<1>3. \A i \in DOMAIN delivered'[p] :
        \/ i \in DOMAIN delivered[p] /\ delivered'[p][i] = delivered[p][i]
        \/ delivered'[p][i] = d
  BY <1>1, <1>2
<1>4. UNCHANGED <<posted, missed>> /\ \A w \in Proc : NotYetFor(w, p)' => NotYetFor(w, p)
  BY DEF Bystands, NotYetFor
<1>5. ASSUME c \notin missed[p]
      PROVE  /\ d.body.from \in Proc /\ d.body.n <= posted[d.body.from]
             /\ NotYetFor(d.body.from, p) => d.body.n < posted[d.body.from]
  <2>1. row \in unread[p] /\ d.body = memory[row].body
    BY <1>1, <1>5 DEF Reading, ReadingPC
  <2> DEFINE w == row.owner
  <2>2. /\ row \in Row /\ d.body.from = w /\ d.body.n <= posted[w]
        /\ NotYetIn(w, row) => d.body.n < posted[w]
    BY <2>1, UnreadRow
  <2>3. w \in Proc /\ Writing(w)
    BY <1>1, <2>2, Typed DEF RowsInv, Shapes
  <2>4. NotYetFor(w, p) => NotYetIn(w, row)
    BY <2>1, <2>3 DEF Writing, NotYetFor, NotYetIn
  <2> QED
    BY <2>2, <2>3, <2>4
<1> HIDE DEF d
<1>6. d.ch = c
  BY DEF d
<1> QED
  BY <1>1, <1>3, <1>4, <1>5, <1>6 DEF Past

\* Every step keeps what was taken older than what is still to be marked.
LEMMA NextPast ==
  ASSUME ~RacyUpdates, BitInv, TypeInv', RowsInv, ReadersInv, PastInv, [Next]_vars
  PROVE  PastInv'
<1>0. /\ TypeInv /\ (\A p \in Proc : Past(p) /\ posted[p] \in Nat)
      /\ delivered \in [Proc -> Seq([ch : Channel, head : Msg, body : Msg])]
      /\ posted \in [Proc -> Nat]
  BY DEF BitInv, TypeInv, TypeOK, PastInv
<1>1. ASSUME NEW p \in Proc, Writes(p) PROVE PastInv'
  <2>1. /\ UNCHANGED <<posted, delivered>>
        /\ \A r \in Proc : missed[r] \subseteq missed'[r]
        /\ \A w, r \in Proc : NotYetFor(w, r)' => NotYetFor(w, r)
    BY <1>1, WritesPast
  <2>2. \A w \in Proc : posted'[w] >= posted[w]
    BY <1>0, <2>1
  <2> QED
    BY <1>0, <2>1, <2>2, PastFrame DEF PastInv
<1>2. ASSUME NEW p \in Proc, Starts(p) PROVE PastInv'
  <2>1. /\ posted'[p] = posted[p] + 1 /\ \A w \in Proc \ {p} : posted'[w] = posted[w]
        /\ UNCHANGED <<delivered, missed>>
    BY <1>0, <1>2 DEF Starts
  <2>2. \A w \in Proc : posted'[w] >= posted[w]
    BY <1>0, <2>1
  <2>3. \A w, r \in Proc : NotYetFor(w, r)' => NotYetFor(w, r) \/ posted'[w] > posted[w]
    BY <1>0, <1>2, <2>1 DEF NotYetFor, Starts
  <2> QED
    BY <1>0, <2>1, <2>2, <2>3, PastFrame DEF PastInv
<1>3. ASSUME NEW p \in Proc, Bystands(p)
      PROVE  /\ \A r \in Proc \ {p} : Past(r)'
             /\ delivered'[p] = delivered[p] => Past(p)'
  <2>1. \A w, r \in Proc : NotYetFor(w, r)' => NotYetFor(w, r)
    BY <1>3 DEF Bystands, NotYetFor
  <2>2. UNCHANGED <<missed, posted>> /\ \A r \in Proc \ {p} : delivered'[r] = delivered[r]
    BY <1>3 DEF Bystands
  <2>3. \A w \in Proc : posted'[w] >= posted[w]
    BY <1>0, <2>2
  <2> QED
    BY <1>0, <2>1, <2>2, <2>3, PastFrame
<1>4. ASSUME NEW p \in Proc, Idles(p) PROVE PastInv'
  BY <1>3, <1>4 DEF Idles, PastInv
<1>5. ASSUME NEW p \in Proc, Takes(p), Bystands(p) PROVE PastInv'
  <2>1. delivered'[p] = delivered[p] \/ LowerBit(p)
    BY <1>5 DEF Takes, NextRow, ReadHead, ReadBody, Scan, history
  <2> QED
    BY <1>3, <1>5, <2>1, LowerBitPast DEF PastInv
<1>6. ASSUME UNCHANGED vars PROVE PastInv'
  <2>1. \A w, r \in Proc : NotYetFor(w, r)' => NotYetFor(w, r)
    BY <1>6 DEF vars, private, NotYetFor
  <2> QED
    BY <1>0, <1>6, <2>1, PastFrame DEF vars, shared, history, PastInv
<1> QED
  BY <1>0, <1>1, <1>2, <1>4, <1>5, <1>6, Steps
-----------------------------------------------------------------------------
(* The refinement                                                          *)

OwedTo == [r \in Proc |-> Owed(r)]

\* The rows that r is owed, and the message in a row.
Live(r) == {x \in unread[r] : x.ch \notin missed[r]}
Message(x) == [ch |-> x.ch, msg |-> memory[x].body]

\* What r is owed, by its live rows ...
LEMMA OwedIs == \A r : Owed(r) = {Message(x) : x \in Live(r)}
BY DEF Owed, Message, Live

\* ... after a step that writes no row.
LEMMA OwedIsNext ==
  ASSUME UNCHANGED memory, NEW r
  PROVE  Owed(r)' = {Message(x) : x \in Live(r)'}
BY DEF Owed, Message, Live

\* What r is owed depends on its bits and the bodies they point at.
LEMMA OwedSame ==
  ASSUME NEW r \in Proc, UNCHANGED <<unread[r], missed[r]>>,
         \A x \in unread[r] : memory'[x].body = memory[x].body
  PROVE  Owed(r)' = Owed(r)
BY DEF Owed

\* A step that leaves the live rows and their bodies leaves what is owed.
LEMMA OwedStays ==
  ASSUME UNCHANGED <<unread, missed>>,
         \A r \in Proc : \A x \in unread[r] : memory'[x].body = memory[x].body
  PROVE  OwedTo' = OwedTo
BY OwedSame DEF OwedTo

\* A step that changes the bits of one reader changes what that one is owed.
LEMMA OwedChanges ==
  ASSUME NEW r \in Proc, NEW S, Owed(r)' = S,
         \A q \in Proc \ {r} : UNCHANGED <<unread[q], missed[q]>>, UNCHANGED memory
  PROVE  OwedTo' = [OwedTo EXCEPT ![r] = S]
<1>1. \A q \in Proc \ {r} : Owed(q)' = Owed(q)
  BY OwedSame
<1> QED
  BY <1>1 DEF OwedTo

\* Counting a missed message is a lap of the contract.
LEMMA CountMissedLaps ==
  ASSUME ~RacyUpdates, ContractInv, NEW p \in Proc, CountMissed(p)
  PROVE  [Contract!Next]_(Contract!vars)
<1> DEFINE least == Least(loop[p].readers)
           row == loop[p].row
           c   == loop[p].ch
<1>1. /\ TypeInv /\ WriterInv /\ Writing(p) /\ loop[p].pc = "lap" /\ c \in Channel
      /\ unread \in [Proc -> SUBSET Row] /\ missed \in [Proc -> SUBSET Channel]
  BY AtRow DEF ContractInv, BitInv, RowsInv, TypeInv, TypeOK, CountMissed
<1>2. /\ UNCHANGED <<memory, delivered>> /\ row.ch = c
      /\ missed' = [missed EXCEPT ![least] = @ \cup {c}]
      /\ least \in Proc => unread' = [unread EXCEPT ![least] = @ \ {row}]
      /\ least \notin Proc => UNCHANGED unread
  BY <1>1, CountMissedDoes DEF Proceeds, Writing, PublishPC
<1> HIDE DEF least
<1>3. CASE least \notin Proc
  <2>1. UNCHANGED <<unread, missed, memory, delivered>>
    BY <1>1, <1>2, <1>3
  <2>2. OwedTo' = OwedTo
    BY <2>1, OwedStays
  <2> QED
    BY <2>1, <2>2 DEF Contract!vars, OwedTo
<1>4. ASSUME NEW r \in Proc, r = least PROVE [Contract!Next]_(Contract!vars)
  <2> DEFINE S == {x \in Owed(r) : x.ch # c}
  <2>1. unread'[r] = unread[r] \ {row} /\ missed'[r] = missed[r] \cup {c}
    BY <1>1, <1>2, <1>4
  <2>2. Owed(r)' = S
    <3>1. Live(r)' = {x \in Live(r) : x.ch # c}
      BY <1>2, <2>1 DEF Live
    <3>2. \A x : Message(x).ch = x.ch
      BY DEF Message
    <3>3. Owed(r)' = {Message(x) : x \in Live(r)'} /\ Owed(r) = {Message(x) : x \in Live(r)}
      BY <1>2, OwedIs, OwedIsNext
    <3> QED
      BY <3>1, <3>2, <3>3
  <2> HIDE DEF S
  <2>3. \A q \in Proc \ {r} : UNCHANGED <<unread[q], missed[q]>>
    BY <1>1, <1>2, <1>4
  <2>4. OwedTo' = [OwedTo EXCEPT ![r] = S]
    BY <1>2, <2>2, <2>3, OwedChanges
  <2>5. OwedTo[r] = Owed(r) /\ missed' = [missed EXCEPT ![r] = @ \cup {c}]
    BY <1>2, <1>4 DEF OwedTo
  <2>6. Contract!Lap(r, c)
    BY <1>2, <2>4, <2>5 DEF Contract!Lap, OwedTo, S
  <2> QED
    BY <1>1, <2>6 DEF Contract!Next
<1> QED
  BY <1>3, <1>4

\* Setting the bit of a reader that was not lapped marks a message newer than
\* all it was ever marked for.
LEMMA MarkUnreadMarks ==
  ASSUME ~RacyUpdates, ContractInv, NEW p \in Proc, MarkUnread(p)
  PROVE  [Contract!Next]_(Contract!vars)
<1> DEFINE row == loop[p].row
           x   == Message(row)
<1>1. /\ TypeInv /\ BitInv /\ RowsInv /\ WriterInv /\ Writing(p) /\ loop[p].pc = "mark"
      /\ unread \in [Proc -> SUBSET Row] /\ missed \in [Proc -> SUBSET Channel]
  BY DEF ContractInv, BitInv, RowsInv, MarkUnread, TypeInv, TypeOK
<1>2. Least(loop[p].readers) \in loop[p].readers /\ loop[p].readers \subseteq Proc
  <2>1. loop[p].readers \in SUBSET Proc /\ loop[p].readers # {}
    BY <1>1, AtRow DEF LoopState, Writing
  <2> QED
    BY <2>1, LeastIsLeast
<1> SUFFICES ASSUME NEW r \in Proc, r = Least(loop[p].readers)
             PROVE  [Contract!Next]_(Contract!vars)
  BY <1>2
<1>3. /\ UNCHANGED <<memory, missed, delivered>>
      /\ unread' = [unread EXCEPT ![r] = @ \cup {row}]
      /\ row \in Row /\ row.owner = p
  BY <1>1, MarkUnreadDoes DEF Proceeds, AtOwnRow
<1>4. /\ row \notin unread[r] /\ x.ch = row.ch /\ x.msg = memory[row].body
      /\ x.msg.from = p /\ x.msg.n = posted[p] /\ NotYetFor(p, r)
  BY <1>1, <1>2 DEF Writing, NotYetFor, PublishPC, Message
<1>5. /\ unread'[r] = unread[r] \cup {row}
      /\ \A q \in Proc \ {r} : UNCHANGED <<unread[q], missed[q]>>
  BY <1>1, <1>3
<1> HIDE DEF x
<1>6. CASE row.ch \in missed[r]
  <2>1. Live(r)' = Live(r)
    BY <1>3, <1>5, <1>6 DEF Live
  <2>2. Owed(r)' = Owed(r)
    BY <1>3, <2>1, OwedIs, OwedIsNext
  <2>3. OwedTo' = OwedTo
    <3>1. \A q \in Proc : Owed(q)' = Owed(q)
      BY <1>3, <1>5, <2>2, OwedSame
    <3> QED
      BY <3>1 DEF OwedTo
  <2> QED
    BY <1>3, <2>3 DEF Contract!vars, OwedTo
<1>7. CASE row.ch \notin missed[r]
  <2>1. Owed(r)' = Owed(r) \cup {x}
    <3>1. Live(r)' = Live(r) \cup {row}
      BY <1>3, <1>5, <1>7 DEF Live
    <3> QED
      BY <1>3, <3>1, OwedIs, OwedIsNext DEF x
  <2>2. ASSUME NEW y \in Owed(r), Contract!SameSource(x, y) PROVE y.msg.n < x.msg.n
    <3>1. PICK z \in unread[r] : y = Message(z)
      BY OwedIs DEF Live
    <3>2. y.msg = memory[z].body
      BY <3>1 DEF Message
    <3>3. z # row /\ memory[z].body.from = p
      BY <1>4, <2>2, <3>2 DEF Contract!SameSource
    <3>4. z.owner = p /\ NotYetIn(p, z) => memory[z].body.n < posted[p]
      BY <1>1, <3>3, UnreadRow
    <3>5. z.owner = p /\ NotYetIn(p, z)
      BY <1>1, <3>3, UnreadRow DEF NotYetIn, PublishPC
    <3> QED
      BY <1>4, <3>2, <3>4, <3>5
  <2>3. ASSUME NEW y \in Contract!Taken(r), Contract!SameSource(x, y) PROVE y.msg.n < x.msg.n
    <3>1. PICK i \in DOMAIN delivered[r] :
            y = [ch |-> delivered[r][i].ch, msg |-> delivered[r][i].body]
      BY <2>3 DEF Contract!Taken
    <3>2. delivered[r][i].ch = row.ch /\ delivered[r][i].body.from = p
      BY <1>4, <2>3, <3>1 DEF Contract!SameSource
    <3>3. Past(r)
      BY DEF ContractInv, PastInv
    <3> QED
      BY <1>4, <1>7, <3>1, <3>2, <3>3 DEF Past
  <2>4. OwedTo' = [OwedTo EXCEPT ![r] = Owed(r) \cup {x}] /\ OwedTo[r] = Owed(r)
    BY <1>3, <1>5, <2>1, OwedChanges DEF OwedTo
  <2>5. x \in OwedTo'[r]
    BY <2>4 DEF OwedTo
  <2>6. Contract!Mark(r, x)
    <3>1. \A y \in OwedTo[r] \cup Contract!Taken(r) : Contract!SameSource(x, y) => y.msg.n < x.msg.n
      BY <2>2, <2>3, <2>4
    <3>2. OwedTo' = [OwedTo EXCEPT ![r] = @ \cup {x}]
      BY <2>4
    <3> QED
      BY <1>3, <1>4, <1>7, <3>1, <3>2 DEF Contract!Mark, OwedTo
  <2> QED
    BY <2>5, <2>6 DEF Contract!Next, OwedTo
<1> QED
  BY <1>6, <1>7

\* Lowering the bit hands over the message, the oldest that its writer owes.
LEMMA LowerBitTakes ==
  ASSUME ~RacyUpdates, ContractInv, NEW p \in Proc, LowerBit(p)
  PROVE  [Contract!Next]_(Contract!vars)
<1> DEFINE row == loop[p].row
           c   == loop[p].ch
           x   == [ch |-> c, msg |-> memory[row].body]
           d   == [ch |-> c, head |-> loop[p].head, body |-> loop[p].body]
           S   == Owed(p) \ {x}
<1>1. /\ TypeInv /\ BitInv /\ RowsInv /\ OnChannel(p) /\ Reading(p) /\ loop[p].pc = "lower"
      /\ row \in Row
      /\ unread \in [Proc -> SUBSET Row] /\ missed \in [Proc -> SUBSET Channel]
      /\ delivered \in [Proc -> Seq([ch : Channel, head : Msg, body : Msg])]
  BY AtRow DEF ContractInv, BitInv, ReadersInv, ReaderOK, TypeInv, TypeOK, LowerBit
<1>2. /\ UNCHANGED <<memory, missed>>
      /\ unread' = [unread EXCEPT ![p] = @ \ {row}]
      /\ delivered' = [delivered EXCEPT ![p] = Append(@, d)]
  BY <1>1, WrittenIsOneBit DEF LowerBit, LoadByte
<1>3. /\ unread'[p] = unread[p] \ {row} /\ row.ch = c
      /\ \A q \in Proc \ {p} : UNCHANGED <<unread[q], missed[q]>>
  BY <1>1, <1>2 DEF OnChannel, ReadingPC
<1>4. d.ch = c /\ d.head = loop[p].head /\ d.body = loop[p].body
      /\ x.ch = c /\ x.msg = memory[row].body
  OBVIOUS
<1>5. CASE c \in missed[p]
  <2>1. Owed(p)' = Owed(p)
    BY <1>2, <1>3, <1>5 DEF Owed
  <2>2. OwedTo' = OwedTo
    <3>1. \A q \in Proc : Owed(q)' = Owed(q)
      BY <1>2, <1>3, <2>1, OwedSame
    <3> QED
      BY <3>1 DEF OwedTo
  <2> HIDE DEF d
  <2>3. /\ Len(delivered[p]) + 1 \in DOMAIN delivered'[p]
        /\ delivered'[p][Len(delivered[p]) + 1] = d
    BY <1>1, <1>2
  <2>4. Contract!TakeAnything(p, d)
    BY <1>2, <1>4, <1>5, <2>2 DEF Contract!TakeAnything, OwedTo
  <2> QED
    BY <2>3, <2>4 DEF Contract!Next
<1>6. CASE c \notin missed[p]
  <2>1. row \in unread[p] /\ d.head = x.msg /\ d.body = x.msg
        /\ \A z \in unread[p] : Source(z, row) => NotNewer(row, z)
    BY <1>1, <1>4, <1>6 DEF Reading, ReadingPC
  <2>2. x \in Owed(p)
    BY <1>3, <1>6, <2>1 DEF Owed
  <2>3. ASSUME NEW y \in Owed(p), Contract!SameSource(x, y) PROVE x.msg.n <= y.msg.n
    <3>1. PICK z \in unread[p] : y = [ch |-> z.ch, msg |-> memory[z].body]
      BY DEF Owed
    <3>2. z.ch = row.ch /\ memory[z].body.from = memory[row].body.from
      BY <1>3, <2>3, <3>1 DEF Contract!SameSource
    <3>3. Source(z, row)
      BY <1>1, <2>1, <3>2, UnreadRow DEF Source
    <3> QED
      BY <2>1, <3>1, <3>3 DEF NotNewer
  <2>4. ASSUME NEW z \in unread[p], z # row
        PROVE  [ch |-> z.ch, msg |-> memory[z].body] # x
    <3> SUFFICES ASSUME z.ch = row.ch, memory[z].body = memory[row].body PROVE FALSE
      BY <1>3
    <3>1. z.owner = row.owner /\ InOrder(row, z) /\ memory[z].complete /\ memory[row].complete
      BY <1>1, <2>1, UnreadRow
    <3>2. memory[row].body.n \in Nat
      BY <1>1, Typed DEF Shapes
    <3> QED
      BY <2>4, <3>1, <3>2 DEF InOrder
  <2>5. Owed(p)' = S
    <3>1. Owed(p)' = {[ch |-> z.ch, msg |-> memory[z].body] :
                        z \in {z \in unread[p] \ {row} : z.ch \notin missed[p]}}
      BY <1>2, <1>3 DEF Owed
    <3>2. Owed(p) = {[ch |-> z.ch, msg |-> memory[z].body] :
                       z \in {z \in unread[p] : z.ch \notin missed[p]}}
      BY DEF Owed
    <3>3. x = [ch |-> row.ch, msg |-> memory[row].body]
      BY <1>3
    <3> HIDE DEF x
    <3> QED
      BY <2>4, <3>1, <3>2, <3>3
  <2>6. OwedTo' = [OwedTo EXCEPT ![p] = S] /\ OwedTo[p] = Owed(p)
    <3> HIDE DEF S
    <3> QED
      BY <1>2, <1>3, <2>5, OwedChanges DEF OwedTo
  <2>7. d = [ch |-> x.ch, head |-> x.msg, body |-> x.msg]
    BY <2>1
  <2> HIDE DEF x, d
  <2>8. Contract!Take(p, x)
    <3>1. \A y \in OwedTo[p] : Contract!SameSource(x, y) => x.msg.n <= y.msg.n
      BY <2>3, <2>6
    <3>2. OwedTo' = [OwedTo EXCEPT ![p] = @ \ {x}]
      BY <2>6 DEF S
    <3>3. delivered' = [delivered EXCEPT ![p] = Append(@, [ch |-> x.ch, head |-> x.msg, body |-> x.msg])]
      BY <1>2, <2>7
    <3> QED
      BY <1>2, <3>1, <3>2, <3>3 DEF Contract!Take, OwedTo
  <2> QED
    BY <2>2, <2>6, <2>8 DEF Contract!Next, OwedTo
<1> QED
  BY <1>5, <1>6

\* No other step shows.
LEMMA NextContract ==
  ASSUME ~RacyUpdates, ContractInv, [Next]_vars
  PROVE  [Contract!Next]_(Contract!vars)
<1>0. TypeInv /\ WriterInv /\ \A p \in Proc : WriterOK(p)
  BY DEF ContractInv, BitInv, WriterInv
<1>1. ASSUME UNCHANGED <<unread, missed, delivered>>,
             \A r \in Proc : \A x \in unread[r] : memory'[x].body = memory[x].body
      PROVE  [Contract!Next]_(Contract!vars)
  <2>1. OwedTo' = OwedTo
    BY <1>1, OwedStays
  <2> QED
    BY <1>1, <2>1 DEF Contract!vars, OwedTo
<1>2. \A r \in Proc : unread[r] \subseteq Row
  BY <1>0, Typed DEF Shapes
<1>3. ASSUME NEW p \in Proc, AtOwnRow(p), Proceeds(p), UNCHANGED <<unread, missed>>,
             \A r \in Proc : loop[p].row \notin unread[r]
      PROVE  [Contract!Next]_(Contract!vars)
  <2>1. \A r \in Proc : \A x \in unread[r] : memory'[x].body = memory[x].body
    BY <1>2, <1>3 DEF AtOwnRow
  <2> QED
    BY <1>1, <1>3, <2>1 DEF Proceeds
<1>4. ASSUME NEW p \in Proc, Writes(p) PROVE [Contract!Next]_(Contract!vars)
  <2>1. CASE ClaimRow(p)
    BY <1>0, <1>1, <2>1, ClaimRowDoes DEF Proceeds
  <2>2. CASE CountMissed(p)
    BY <2>2, CountMissedLaps
  <2>3. CASE Invalidate(p)
    BY <1>0, <1>3, <2>3, InvalidateDoes DEF WriterOK
  <2>4. CASE TakeNumber(p)
    BY <1>0, <1>3, <2>4, TakeNumberDoes DEF WriterOK
  <2>5. CASE WriteBody(p)
    BY <1>0, <1>3, <2>5, WriteBodyDoes DEF WriterOK
  <2>6. CASE Complete(p)
    BY <1>0, <1>3, <2>6, CompleteDoes DEF WriterOK
  <2>7. CASE MarkUnread(p)
    BY <2>7, MarkUnreadMarks
  <2>8. CASE Ring(p)
    BY <1>0, <1>1, <2>8, RingDoes
  <2> QED
    BY <1>4, <2>1, <2>2, <2>3, <2>4, <2>5, <2>6, <2>7, <2>8 DEF Writes
<1>5. ASSUME NEW p \in Proc, Starts(p) \/ Idles(p) PROVE [Contract!Next]_(Contract!vars)
  BY <1>1, <1>2, <1>5 DEF Starts, Idles, Bystands, SameRow
<1>6. ASSUME NEW p \in Proc, Takes(p) PROVE [Contract!Next]_(Contract!vars)
  <2>1. LowerBit(p) \/ UNCHANGED <<memory, unread, missed, delivered>>
    BY <1>6 DEF Takes, NextRow, ReadHead, ReadBody, Scan, shared, history
  <2> QED
    BY <1>1, <2>1, LowerBitTakes
<1>7. ASSUME UNCHANGED vars PROVE [Contract!Next]_(Contract!vars)
  BY <1>1, <1>7 DEF vars, shared, history
<1> QED
  BY <1>0, <1>4, <1>5, <1>6, <1>7, Steps

\* The start of the bus is the start of the contract.
LEMMA InitContract == Init => ContractInv /\ Contract!Init
<1> SUFFICES ASSUME Init PROVE ContractInv /\ Contract!Init
  OBVIOUS
<1>1. ContractInv
  BY InitTypeInv, InitBitInv, InitRows, InitReaders DEF ContractInv, BitInv
<1>2. \A r \in Proc : Owed(r) = {}
  BY DEF Init, Owed
<1>3. Contract!Init
  BY <1>2 DEF Init, Contract!Init
<1> QED
  BY <1>1, <1>3

\* Every step keeps the invariant.
LEMMA NextContractInv ==
  ASSUME ~RacyUpdates, ContractInv, [Next]_vars
  PROVE  ContractInv'
<1>1. BitInv'
  BY NextTypeInv, NextBitInv DEF ContractInv, BitInv
<1>2. TypeInv'
  BY <1>1 DEF BitInv
<1> QED
  BY <1>1, <1>2, NextRows, NextReaders, NextPast DEF ContractInv

\* The bus implements its contract, for every number of processes, rows and
\* channels, whoever posts what and whoever dies when, as long as updates of
\* shared memory do not collide: until a reader is told that it was lapped on a
\* channel, each message marked for it comes out of its row once, whole, and in
\* the order its writer sent it.
THEOREM LinkKeepsContract == ~RacyUpdates => (Spec => KeepsContract)
<1> SUFFICES ASSUME ~RacyUpdates PROVE Spec => KeepsContract
  OBVIOUS
<1>1. Init => ContractInv /\ Contract!Init
  BY InitContract
<1>2. ContractInv /\ [Next]_vars => ContractInv'
  BY NextContractInv
<1>3. ContractInv /\ [Next]_vars => [Contract!Next]_(Contract!vars)
  BY NextContract
<1> QED
  BY <1>1, <1>2, <1>3, PTL DEF Spec, KeepsContract, Contract!Spec
=============================================================================
