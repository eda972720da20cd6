--------------------------- MODULE LinkAskProofs ---------------------------
(***************************************************************************)
(* ask(): what an asker learns, for every number of processes and rows, as *)
(* long as updates of shared memory do not collide.  The invariant follows *)
(* each correlation through the rows, the code that writes and reads them  *)
(* and the handlers.                                                       *)
(***************************************************************************)
EXTENDS LinkContractProofs

Asks(p) == asking[p].pc \in {"posting", "waiting"}

\* The row of the question: the one being written, then the one remembered.
AskRow(p) == IF asking[p].pc = "posting" THEN loop[p].row ELSE asking[p].row
AskChannel(p) == IF asking[p].pc = "posting" THEN loop[p].ch ELSE asking[p].row.ch

\* Where a correlation is to be found on channel c.
OnRow(k, x)     == k \in {memory[x].head.corr, memory[x].body.corr}
OnLoop(k, q)    == k \in {loop[q].head.corr, loop[q].body.corr}
OnPump(k, q, c) == k \in {pump[q][c].head.corr, pump[q][c].body.corr}
Carries(k, c) ==
  \/ \E x \in Row : x.ch = c /\ OnRow(k, x)
  \/ \E q \in Proc : loop[q].ch = c /\ OnLoop(k, q)
  \/ \E q \in Proc : OnPump(k, q, c)

\* A correlation is an earlier message of its asker.
Known(p) ==
  \A n \in Nat \ {0} :
    (<<p, n>> \in answered \/ \E c \in Channel : Carries(<<p, n>>, c)) => n <= posted[p]

\* A request that wants an answer is correlated by its own identity.
OwnQuestion(m) == (m.kind = "request" /\ m.corr # NoCorr) => m.corr = <<m.from, m.n>>
Questions ==
  /\ \A x \in Row : OwnQuestion(memory[x].body)
  /\ \A p \in Proc : loop[p].pc \in PublishPC => OwnQuestion(loop[p].body)

Posting(p) ==
  asking[p].pc = "posting" =>
    loop[p].pc \in PublishPC /\ ~loop[p].reply /\ asking[p].corr = <<p, posted[p]>>

\* x holds the question of p.
IsQuestion(x, p) ==
  memory[x].complete /\ memory[x].body.kind = "request" /\ memory[x].body.corr = asking[p].corr

\* While p waits, what it publishes is newer than the question, no other row
\* holds the question, and once p uses the row again its number is another.
Waiting(p) ==
  asking[p].pc = "waiting" =>
    /\ asking[p].row \in Row /\ asking[p].row.owner = p
    /\ asking[p].seq <= counter[asking[p].row.ch]
    /\ \E n \in Nat \ {0} :
         /\ asking[p].corr = <<p, n>> /\ n <= posted[p]
         /\ loop[p].pc \in PublishPC => n < posted[p]
    /\ loop[p].pc \in {"body", "complete", "mark", "ring"} /\ loop[p].row = asking[p].row
         => memory[asking[p].row].seq # asking[p].seq
    /\ \A x \in Row : IsQuestion(x, p) => x = asking[p].row

\* The question is to be found on one channel.
OnlyThere(p) ==
  Asks(p) => \A c \in Channel : Carries(asking[p].corr, c) => c = AskChannel(p)

\* Nobody was lapped on the channel of p's question.
NobodyLapped(p) == \A r \in Proc : AskChannel(p) \notin missed[r]
Handles(r, c, k) ==
  pump[r][c].pc = "handling" /\ pump[r][c].head.kind = "request" /\ pump[r][c].head.corr = k
IsOut(p) == asking[p].pc = "posting" => loop[p].pc \in {"mark", "ring"}
IsStill(p) == asking[p].pc = "waiting" => memory[asking[p].row].seq = asking[p].seq

\* Whoever handles the question has it from that row, and whoever took it has
\* left its mark there, unless the row is used again.
Traced(p) ==
  (Asks(p) /\ NobodyLapped(p)) =>
    /\ \A r \in Proc, c \in Channel :
         Handles(r, c, asking[p].corr) => IsOut(p) /\ pump[r][c].row = AskRow(p)
    /\ asking[p].corr \in answered =>
         IsOut(p) /\ (IsStill(p) => memory[AskRow(p)].taker # NoTaker)

Asker(p) == Known(p) /\ Posting(p) /\ Waiting(p) /\ OnlyThere(p) /\ Traced(p)
AskInv == Questions /\ \A p \in Proc : Asker(p)
-----------------------------------------------------------------------------
(* What a step may do without disturbing the askers                        *)

NoNewCarriers == \A c \in Channel : \A k : k # NoCorr /\ Carries(k, c)' => Carries(k, c)
Contained(p) ==
  \A c \in Channel, n \in Nat \ {0} : Carries(<<p, n>>, c)' => Carries(<<p, n>>, c)

\* A step that brings a correlation nowhere new brings no asker's anywhere new.
LEMMA ContainedIf == NoNewCarriers => \A p \in Proc : Contained(p)
<1>1. \A p \in Proc, n \in Nat \ {0} : <<p, n>> # NoCorr
  BY DEF NoCorr, Proc
<1> QED
  BY <1>1 DEF NoNewCarriers, Contained

\* A correlation is nowhere new when the rows, the loops and the pumps have it
\* from the same channel.
LEMMA CarriersFrame ==
  ASSUME \A x \in Row : \A k : k # NoCorr /\ OnRow(k, x)' => Carries(k, x.ch),
         \A q \in Proc : \A k : k # NoCorr /\ loop'[q].ch \in Channel /\ OnLoop(k, q)'
                                  => Carries(k, loop'[q].ch),
         \A q \in Proc, c \in Channel : \A k : k # NoCorr /\ OnPump(k, q, c)' => Carries(k, c)
  PROVE  NoNewCarriers
BY DEF NoNewCarriers, Carries

\* p goes on asking as it did.
Steady(p) ==
  /\ asking'[p] = asking[p]
  /\ asking[p].pc = "posting" =>
       /\ loop'[p].pc \in PublishPC /\ ~loop'[p].reply /\ loop'[p].ch = loop[p].ch
       /\ posted'[p] = posted[p]
       /\ IsOut(p) => loop'[p].pc \in {"mark", "ring"} /\ loop'[p].row = loop[p].row
  /\ asking[p].pc = "waiting" =>
       /\ \A c \in Channel : counter'[c] >= counter[c]
       /\ loop'[p].pc \in PublishPC => posted'[p] > posted[p] \/ loop[p].pc \in PublishPC
       /\ loop'[p].pc \in {"body", "complete", "mark", "ring"} /\ loop'[p].row = asking[p].row
            => memory'[asking[p].row].seq # asking[p].seq
       /\ \A x \in Row : IsQuestion(x, p)' => IsQuestion(x, p)

\* The traces of p's question remain.
Traces(p) ==
  /\ \A r \in Proc : missed[r] \subseteq missed'[r]
  /\ NobodyLapped(p) =>
       /\ \A r \in Proc, c \in Channel :
            Handles(r, c, asking[p].corr)' =>
              \/ Handles(r, c, asking[p].corr) /\ pump'[r][c].row = pump[r][c].row
              \/ IsOut(p) /\ pump'[r][c].row = AskRow(p)
       /\ asking[p].corr \in answered' =>
            \/ asking[p].corr \in answered
            \/ IsOut(p) /\ memory'[AskRow(p)].taker # NoTaker
       /\ IsOut(p) /\ IsStill(p)' =>
            /\ IsStill(p)
            /\ memory[AskRow(p)].taker # NoTaker => memory'[AskRow(p)].taker # NoTaker

\* An asker that goes on as it did, and whose traces remain, stays in order.
LEMMA AskerFrame ==
  ASSUME TypeInv, TypeInv', NEW p \in Proc, Asker(p), Contained(p),
         posted'[p] >= posted[p],
         \A k \in answered' : k \in answered \/ k = NoCorr \/ \E c \in Channel : Carries(k, c),
         ~Asks(p)' \/ (Steady(p) /\ Traces(p))
  PROVE  Asker(p)'
<1> USE Typed, TypedNext DEF Shapes
<1>1. Known(p)'
  <2> SUFFICES ASSUME NEW n \in Nat \ {0},
                      <<p, n>> \in answered' \/ \E c \in Channel : Carries(<<p, n>>, c)'
               PROVE  n <= posted'[p]
    BY DEF Known
  <2>1. <<p, n>> # NoCorr
    BY DEF NoCorr
  <2>2. <<p, n>> \in answered \/ \E c \in Channel : Carries(<<p, n>>, c)
    BY <2>1 DEF Contained
  <2>3. n <= posted[p] /\ posted[p] \in Nat /\ posted'[p] \in Nat
    BY <2>2 DEF Asker, Known
  <2> QED
    BY <2>3
<1>2. CASE ~Asks(p)'
  BY <1>1, <1>2 DEF Asker, Posting, Waiting, OnlyThere, Traced, Asks
<1>3. CASE Steady(p) /\ Traces(p) /\ Asks(p)'
  <2>1. asking'[p] = asking[p] /\ asking[p].pc \in {"posting", "waiting"}
    BY <1>3 DEF Steady, Asks
  <2>2. Posting(p)'
    BY <1>3, <2>1 DEF Steady, Posting, Asker
  <2>3. Waiting(p)'
    <3> SUFFICES ASSUME asking[p].pc = "waiting" PROVE Waiting(p)'
      BY <2>1 DEF Waiting
    <3>1. Waiting(p) /\ asking[p].row.ch \in Channel
      BY DEF Asker, Waiting
    <3>2. PICK n \in Nat \ {0} : /\ asking[p].corr = <<p, n>> /\ n <= posted[p]
                                 /\ loop[p].pc \in PublishPC => n < posted[p]
      BY <3>1 DEF Waiting
    <3>3. posted[p] \in Nat /\ posted'[p] \in Nat
      OBVIOUS
    <3>4. n <= posted'[p] /\ (loop'[p].pc \in PublishPC => n < posted'[p])
      BY <1>3, <3>2, <3>3 DEF Steady
    <3>5. asking[p].seq <= counter'[asking[p].row.ch]
      <4>1. counter[asking[p].row.ch] \in Nat /\ counter'[asking[p].row.ch] \in Nat
            /\ asking[p].seq \in Nat
        BY <3>1 DEF TypeInv, TypeOK, AskState
      <4>2. counter'[asking[p].row.ch] >= counter[asking[p].row.ch]
        BY <1>3, <3>1 DEF Steady
      <4> QED
        BY <3>1, <4>1, <4>2 DEF Waiting
    <3> QED
      BY <1>3, <2>1, <3>1, <3>2, <3>4, <3>5 DEF Steady, Waiting
  <2>4. \E n \in Nat \ {0} : asking[p].corr = <<p, n>>
    <3>1. asking[p].pc = "posting" => asking[p].corr = <<p, posted[p]>> /\ asking[p].corr \in Corr
      BY DEF Asker, Posting, TypeInv, TypeOK, AskState
    <3>2. <<p, posted[p]>> \in Corr => posted[p] \in Nat \ {0}
      BY DEF Corr, NoCorr, Proc
    <3> QED
      BY <2>1, <3>1, <3>2 DEF Asker, Waiting
  <2>5. AskChannel(p)' = AskChannel(p)
    BY <1>3, <2>1 DEF AskChannel, Steady
  <2>6. OnlyThere(p)'
    BY <2>1, <2>4, <2>5 DEF Asker, OnlyThere, Contained, Asks
  <2>7. Traced(p)'
    <3> SUFFICES ASSUME NobodyLapped(p)' PROVE Traced(p)'
      BY DEF Traced
    <3>1. NobodyLapped(p)
      BY <1>3, <2>5 DEF NobodyLapped, Traces
    <3>2. Traced(p) /\ Asks(p)
      BY <2>1 DEF Asker, Asks
    <3>3. IsOut(p) => IsOut(p)' /\ AskRow(p)' = AskRow(p)
      BY <1>3, <2>1 DEF IsOut, AskRow, Steady
    <3>4. \A r \in Proc, c \in Channel :
            Handles(r, c, asking[p].corr)' => IsOut(p) /\ pump'[r][c].row = AskRow(p)
      BY <1>3, <3>1, <3>2 DEF Traces, Traced
    <3>5. asking[p].corr \in answered' =>
            IsOut(p) /\ (IsStill(p)' => memory'[AskRow(p)].taker # NoTaker)
      BY <1>3, <3>1, <3>2 DEF Traces, Traced
    <3> QED
      BY <2>1, <3>3, <3>4, <3>5 DEF Traced, Handles
  <2> QED
    BY <1>1, <2>2, <2>3, <2>6, <2>7 DEF Asker
<1> QED
  BY <1>2, <1>3

\* A question that is out is in the row its asker knows of.
LEMMA QuestionRow ==
  ASSUME TypeInv, RowsInv, AskInv, NEW p \in Proc, Asks(p), NEW x \in Row, IsQuestion(x, p)
  PROVE  IsOut(p) /\ x = AskRow(p)
<1>1. CASE asking[p].pc = "posting"
  <2>1. asking[p].corr = <<p, posted[p]>>
    BY <1>1 DEF AskInv, Asker, Posting
  <2>2. asking[p].corr # NoCorr
    BY <2>1 DEF NoCorr, Proc
  <2>3. memory[x].body.corr = <<memory[x].body.from, memory[x].body.n>>
    BY <2>2 DEF AskInv, Questions, OwnQuestion, IsQuestion
  <2>4. memory[x].body.from = p /\ memory[x].body.n = posted[p]
    BY <2>1, <2>3 DEF IsQuestion
  <2>5. posted[p] \in Nat
    BY Typed DEF Shapes
  <2>6. x.owner = p
    BY <2>4 DEF RowsInv, WholeRow, IsQuestion
  <2>7. ~NotYetIn(p, x) /\ loop[p].pc \in PublishPC
    <3>1. NotYetIn(p, x) => memory[x].body.n < posted[p]
      BY <2>6 DEF RowsInv, WholeRow, IsQuestion
    <3> QED
      BY <1>1, <2>4, <2>5, <3>1 DEF AskInv, Asker, Posting
  <2> QED
    BY <1>1, <2>7 DEF NotYetIn, IsOut, AskRow
<1>2. CASE asking[p].pc = "waiting"
  BY <1>2 DEF AskInv, Asker, Waiting, IsOut, AskRow
<1> QED
  BY <1>1, <1>2 DEF Asks
-----------------------------------------------------------------------------
(* Publishing                                                              *)

\* What the steps of _publish but the last do to the row in hand.
LEMMA WritesDo ==
  ASSUME ~RacyUpdates, TypeInv, WriterInv, NEW w \in Proc, Writes(w), loop[w].pc # "ring"
  PROVE  LET row == loop[w].row
             pc  == loop[w].pc
         IN  /\ Proceeds(w) /\ pc \in PublishPC /\ loop'[w].pc \in PublishPC
             /\ \A x \in Row : memory'[x] = memory[x] \/ (x = row /\ row.owner = w /\ pc # "claim")
             /\ pc # "claim" /\ memory' # memory =>
                  /\ memory'[row].head.corr \in {memory[row].head.corr, loop[w].head.corr}
                  /\ memory'[row].body \in {memory[row].body, loop[w].body}
                  /\ memory'[row].complete =>
                       memory[row].complete \/ (pc = "complete" /\ memory'[row].body = memory[row].body)
                  /\ memory'[row].body = memory[row].body \/ pc = "body"
                  /\ memory'[row].seq = memory[row].seq
                       \/ (pc = "number" /\ memory'[row].seq = counter[loop[w].ch] + 1)
                  /\ memory'[row].taker = memory[row].taker \/ pc = "body"
             /\ pc = "number" => memory'[row].seq = counter[loop[w].ch] + 1
             /\ loop'[w].pc \in {"body", "complete", "mark", "ring"} =>
                  /\ loop'[w].row = row
                  /\ pc \in {"number", "body", "complete", "mark"}
             /\ pc = "mark" => loop'[w].pc \in {"mark", "ring"} /\ UNCHANGED memory
             /\ \A c \in Channel : counter'[c] >= counter[c]
             /\ \A r \in Proc : missed[r] \subseteq missed'[r]
             /\ UNCHANGED <<asking, answered, pump, posted>>
<1>0. /\ counter \in [Channel -> Nat] /\ missed \in [Proc -> SUBSET Channel]
      /\ memory \in [Row -> RowData]
  BY DEF TypeInv, TypeOK
<1>1. \A c \in Channel : counter'[c] >= counter[c]
  <2>1. UNCHANGED counter \/ counter' = [counter EXCEPT ![loop[w].ch] = @ + 1]
    BY ClaimRowDoes, CountMissedDoes, InvalidateDoes, TakeNumberDoes, WriteBodyDoes,
       CompleteDoes, MarkUnreadDoes, RingDoes DEF Writes
  <2> QED
    BY <1>0, <2>1
<1>2. \A r \in Proc : missed[r] \subseteq missed'[r]
  <2>1. \/ UNCHANGED missed
        \/ missed' = [missed EXCEPT ![Least(loop[w].readers)] = @ \cup {loop[w].ch}]
    BY ClaimRowDoes, CountMissedDoes, InvalidateDoes, TakeNumberDoes, WriteBodyDoes,
       CompleteDoes, MarkUnreadDoes, RingDoes DEF Writes
  <2> QED
    BY <1>0, <2>1
<1>3. UNCHANGED <<asking, answered>> /\ ~Ring(w)
  BY DEF Writes, ClaimRow, CountMissed, Invalidate, TakeNumber, WriteBody, Complete, MarkUnread,
         Ring, history
<1>4. CASE ClaimRow(w)
  BY <1>1, <1>2, <1>3, <1>4, ClaimRowDoes DEF Proceeds, PublishPC
<1>5. CASE CountMissed(w)
  BY <1>1, <1>2, <1>3, <1>5, CountMissedDoes DEF Proceeds, PublishPC
<1>6. CASE Invalidate(w)
  BY <1>1, <1>2, <1>3, <1>6, InvalidateDoes DEF Proceeds, AtOwnRow, PublishPC
<1>7. CASE TakeNumber(w)
  BY <1>1, <1>2, <1>3, <1>7, TakeNumberDoes DEF Proceeds, AtOwnRow, PublishPC
<1>8. CASE WriteBody(w)
  BY <1>1, <1>2, <1>3, <1>8, WriteBodyDoes DEF Proceeds, AtOwnRow, PublishPC
<1>9. CASE Complete(w)
  BY <1>1, <1>2, <1>3, <1>9, CompleteDoes DEF Proceeds, AtOwnRow, PublishPC
<1>10. CASE MarkUnread(w)
  BY <1>1, <1>2, <1>3, <1>10, MarkUnreadDoes DEF Proceeds, AtOwnRow, PublishPC
<1> QED
  BY <1>3, <1>4, <1>5, <1>6, <1>7, <1>8, <1>9, <1>10 DEF Writes

\* They bring no correlation to another channel.
LEMMA WritesCarry ==
  ASSUME ~RacyUpdates, TypeInv, WriterInv, RowsInv, NEW w \in Proc, Writes(w), loop[w].pc # "ring"
  PROVE  NoNewCarriers
<1> DEFINE row == loop[w].row
           c   == loop[w].ch
<1>1. /\ Proceeds(w) /\ loop[w].pc \in PublishPC /\ UNCHANGED pump
      /\ \A x \in Row : memory'[x] = memory[x] \/ (x = row /\ loop[w].pc # "claim")
      /\ loop[w].pc # "claim" /\ memory' # memory =>
           /\ memory'[row].head.corr \in {memory[row].head.corr, loop[w].head.corr}
           /\ memory'[row].body \in {memory[row].body, loop[w].body}
  BY WritesDo
<1>2. c \in Channel /\ (loop[w].pc # "claim" => row.ch = c)
  BY <1>1 DEF Proceeds, RowsInv, Writing, PublishPC
<1>3. ASSUME NEW x \in Row, NEW k, OnRow(k, x)' PROVE Carries(k, x.ch)
  <2>1. CASE memory'[x] = memory[x]
    BY <1>3, <2>1 DEF OnRow, Carries
  <2>2. CASE memory'[x] # memory[x]
    <3>1. x = row /\ x.ch = c
      BY <1>1, <1>2, <1>3, <2>2
    <3>2. OnRow(k, x) \/ OnLoop(k, w)
      BY <1>1, <1>3, <2>2, <3>1 DEF OnRow, OnLoop
    <3> QED
      BY <3>1, <3>2 DEF Carries
  <2> QED
    BY <2>1, <2>2
<1>4. \A q \in Proc : loop'[q].ch = loop[q].ch /\ loop'[q].head = loop[q].head
                      /\ loop'[q].body = loop[q].body
  BY <1>1 DEF Proceeds
<1>5. \A q \in Proc : \A k : OnLoop(k, q)' => Carries(k, loop'[q].ch)
  BY <1>4 DEF OnLoop, Carries
<1>6. \A q \in Proc, d \in Channel : \A k : OnPump(k, q, d)' => Carries(k, d)
  BY <1>1 DEF OnPump, Carries
<1> QED
  BY <1>3, <1>5, <1>6, CarriersFrame

\* They keep the invariant: a row that holds an open question is only used again
\* with a number above that of the question.
LEMMA WritesAskers ==
  ASSUME ~RacyUpdates, BitInv, TypeInv', RowsInv, RowsInv', AskInv,
         NEW w \in Proc, Writes(w), loop[w].pc # "ring"
  PROVE  AskInv'
<1> DEFINE row == loop[w].row
           pc  == loop[w].pc
<1>0. /\ TypeInv /\ WriterInv /\ (\A p \in Proc : WriterOK(p) /\ Writing(p) /\ Asker(p))
      /\ Questions
  BY DEF BitInv, WriterInv, RowsInv, AskInv
<1> USE <1>0, Typed, TypedNext DEF Shapes
<1>1. /\ Proceeds(w) /\ pc \in PublishPC /\ loop'[w].pc \in PublishPC
      /\ \A x \in Row : memory'[x] = memory[x] \/ (x = row /\ row.owner = w /\ pc # "claim")
      /\ pc # "claim" /\ memory' # memory =>
           /\ memory'[row].body \in {memory[row].body, loop[w].body}
           /\ memory'[row].complete =>
                memory[row].complete \/ (pc = "complete" /\ memory'[row].body = memory[row].body)
           /\ memory'[row].body = memory[row].body \/ pc = "body"
           /\ memory'[row].seq = memory[row].seq
                \/ (pc = "number" /\ memory'[row].seq = counter[loop[w].ch] + 1)
           /\ memory'[row].taker = memory[row].taker \/ pc = "body"
      /\ pc = "number" => memory'[row].seq = counter[loop[w].ch] + 1
      /\ loop'[w].pc \in {"body", "complete", "mark", "ring"} =>
           loop'[w].row = row /\ pc \in {"number", "body", "complete", "mark"}
      /\ pc = "mark" => loop'[w].pc \in {"mark", "ring"} /\ UNCHANGED memory
      /\ \A c \in Channel : counter'[c] >= counter[c]
      /\ \A r \in Proc : missed[r] \subseteq missed'[r]
      /\ UNCHANGED <<asking, answered, pump, posted>>
    BY WritesDo
<1>2. Questions'
  <2>1. \A x \in Row : memory'[x].body \in {memory[x].body, loop[w].body}
    BY <1>1
  <2>2. \A p \in Proc : loop'[p].body = loop[p].body /\ (loop'[p].pc \in PublishPC => loop[p].pc \in PublishPC)
    BY <1>1 DEF Proceeds
  <2> QED
    BY <1>1, <2>1, <2>2 DEF Questions, OwnQuestion
<1>3. \A x \in Row : x.owner # w => memory'[x] = memory[x]
  BY <1>1
<1>4. ASSUME NEW p \in Proc, asking[p].pc = "waiting", NEW x \in Row, IsQuestion(x, p)'
      PROVE  IsQuestion(x, p)
  <2> SUFFICES ASSUME memory'[x] # memory[x] PROVE IsQuestion(x, p)
    BY <1>1, <1>4 DEF IsQuestion
  <2>1. PICK n \in Nat \ {0} : /\ asking[p].corr = <<p, n>>
                               /\ loop[p].pc \in PublishPC => n < posted[p]
    BY <1>4 DEF Asker, Waiting
  <2>2. x = row /\ row.owner = w /\ pc # "claim" /\ memory' # memory
    BY <1>1
  <2>3. memory'[x].complete /\ memory'[x].body.kind = "request" /\ memory'[x].body.corr = <<p, n>>
    BY <1>1, <1>4, <2>1 DEF IsQuestion
  <2>4. memory'[x].body.from = p /\ memory'[x].body.n = n
    BY <1>2, <2>3 DEF Questions, OwnQuestion, NoCorr, Proc
  <2>5. p = w
    BY <2>2, <2>3, <2>4 DEF RowsInv, WholeRow
  <2>6. CASE pc = "complete"
    <3>1. memory'[x].body = loop[w].body /\ loop[w].body.n = posted[w]
      BY <1>1, <2>2, <2>6 DEF Writing, PublishPC
    <3> QED
      BY <1>1, <2>1, <2>4, <2>5, <3>1
  <2>7. CASE pc # "complete"
    <3>1. memory[x].complete
      BY <1>1, <2>2, <2>3, <2>7
    <3>2. memory'[x].body = memory[x].body
      BY <1>1, <2>2, <3>1 DEF Writing
    <3> QED
      BY <2>1, <2>3, <3>1, <3>2 DEF IsQuestion
  <2> QED
    BY <2>6, <2>7
<1>5. ASSUME NEW p \in Proc, asking[p].pc = "waiting",
             loop'[p].pc \in {"body", "complete", "mark", "ring"}, loop'[p].row = asking[p].row
      PROVE  memory'[asking[p].row].seq # asking[p].seq
  <2> DEFINE x == asking[p].row
  <2>1. x \in Row /\ x.owner = p /\ asking[p].seq <= counter[x.ch]
    BY <1>5 DEF Asker, Waiting
  <2>2. asking[p].seq \in Nat
    BY DEF TypeInv, TypeOK, AskState
  <2>3. CASE p # w
    BY <1>1, <1>3, <1>5, <2>1, <2>3 DEF Proceeds, Asker, Waiting
  <2>4. CASE p = w /\ pc = "number"
    <3>1. x = row /\ row.ch = loop[w].ch
      BY <1>1, <1>5, <2>4 DEF Writing, PublishPC
    <3> QED
      BY <1>1, <2>1, <2>2, <2>4, <3>1 DEF Proceeds
  <2>5. CASE p = w /\ pc # "number"
    <3>1. x = row /\ pc \in {"body", "complete", "mark", "ring"} /\ memory'[row].seq = memory[row].seq
      BY <1>1, <1>5, <2>1, <2>5
    <3> QED
      BY <1>5, <2>5, <3>1 DEF Asker, Waiting
  <2> QED
    BY <2>3, <2>4, <2>5
<1>6. ASSUME NEW p \in Proc PROVE Steady(p)
  <2>1. CASE asking[p].pc = "posting"
    BY <1>1, <2>1 DEF Proceeds, Steady, Asker, Posting, IsOut
  <2>2. CASE asking[p].pc # "posting"
    BY <1>1, <1>4, <1>5, <2>2 DEF Proceeds, Steady
  <2> QED
    BY <2>1, <2>2
<1>7. ASSUME NEW p \in Proc, Asks(p) PROVE Traces(p)
  <2>1. ASSUME IsOut(p), IsStill(p)'
        PROVE  IsStill(p) /\ memory'[AskRow(p)].taker = memory[AskRow(p)].taker
    <3>1. CASE asking[p].pc = "posting"
      <4>1. loop[p].pc \in {"mark", "ring"} /\ loop[p].row.owner = p /\ AskRow(p) = loop[p].row
            /\ loop[p].row \in Row
        BY <2>1, <3>1 DEF IsOut, AskRow, WriterOK, PublishPC
      <4>2. memory'[loop[p].row] = memory[loop[p].row]
        BY <1>1, <4>1
      <4> QED
        BY <3>1, <4>1, <4>2 DEF IsStill
    <3>2. CASE asking[p].pc = "waiting"
      <4> DEFINE x == asking[p].row
      <4>1. x \in Row /\ x.owner = p /\ AskRow(p) = x /\ memory'[x].seq = asking[p].seq
        BY <1>1, <2>1, <3>2 DEF Asker, Waiting, AskRow, IsStill
      <4>2. asking[p].seq \in Nat /\ asking[p].seq <= counter[x.ch]
        BY <3>2 DEF TypeInv, TypeOK, AskState, Asker, Waiting
      <4>3. CASE memory'[x] = memory[x]
        BY <3>2, <4>1, <4>3 DEF IsStill
      <4>4. CASE memory'[x] # memory[x]
        <5>1. x = row /\ w = p /\ pc # "claim" /\ memory' # memory
          BY <1>1, <4>1, <4>4
        <5>2. row.ch = loop[w].ch
          BY <1>1, <5>1 DEF Writing
        <5>3. pc # "number"
          <6>1. pc = "number" => memory'[x].seq = counter[x.ch] + 1 /\ counter[x.ch] \in Nat
            BY <1>1, <4>1, <5>1, <5>2
          <6> QED
            BY <4>1, <4>2, <6>1
        <5>4. memory[x].seq = asking[p].seq
          BY <1>1, <4>1, <5>1, <5>3
        <5>5. pc # "body"
          BY <3>2, <5>1, <5>4 DEF Asker, Waiting
        <5> QED
          BY <1>1, <3>2, <4>1, <5>1, <5>4, <5>5 DEF IsStill
      <4> QED
        BY <4>3, <4>4
    <3> QED
      BY <1>7, <3>1, <3>2 DEF Asks
  <2> QED
    BY <1>1, <2>1 DEF Traces, Handles
<1>8. ASSUME NEW p \in Proc PROVE Asker(p)'
  <2>1. Contained(p)
    BY <1>1, WritesCarry, ContainedIf
  <2>2. posted'[p] >= posted[p] /\ answered' = answered
    BY <1>1
  <2>3. Asks(p)' => Asks(p)
    BY <1>1 DEF Asks
  <2> QED
    BY <1>6, <1>7, <2>1, <2>2, <2>3, AskerFrame
<1> QED
  BY <1>2, <1>8 DEF AskInv
\* The end of _publish: an asker that was posting remembers its row.
LEMMA RingAskers ==
  ASSUME BitInv, TypeInv', RowsInv, AskInv, NEW w \in Proc, Ring(w)
  PROVE  AskInv'
<1> DEFINE row == loop[w].row
           a   == [asking[w] EXCEPT !.pc = "waiting", !.row = row, !.seq = memory[row].seq]
<1>0. /\ TypeInv /\ WriterOK(w) /\ Writing(w) /\ Questions /\ \A p \in Proc : Asker(p)
      /\ loop \in [Proc -> LoopState] /\ asking \in [Proc -> AskState]
      /\ \A p \in Proc : posted[p] \in Nat /\ asking[p] \in AskState
  BY DEF BitInv, WriterInv, RowsInv, AskInv, TypeInv, TypeOK
<1>1. /\ loop[w].pc = "ring" /\ \A q \in Proc \ {w} : loop'[q] = loop[q]
      /\ UNCHANGED <<memory, missed, counter, pump, posted, answered>>
  BY <1>0 DEF Ring, history
<1>2. /\ loop'[w].pc \in {"free", "next"}
      /\ loop'[w].head = NoMsg /\ loop'[w].body = NoMsg
  <2> DEFINE s == [Free EXCEPT !.pc = "next", !.ch = loop[w].ch]
  <2>1. loop' = [loop EXCEPT ![w] = s] \/ loop' = [loop EXCEPT ![w] = Free]
    BY DEF Ring
  <2>2. /\ s.pc = "next" /\ s.head = NoMsg /\ s.body = NoMsg
        /\ Free.pc = "free" /\ Free.head = NoMsg /\ Free.body = NoMsg
    BY DEF Free
  <2> HIDE DEF s
  <2> QED
    BY <1>0, <2>1, <2>2
<1>3. /\ asking[w].pc # "posting" => UNCHANGED asking
      /\ asking[w].pc = "posting" => asking' = [asking EXCEPT ![w] = a]
  <2>1. asking[w].pc = "posting" => ~loop[w].reply
    BY <1>0 DEF Asker, Posting
  <2>2. asking' = IF ~loop[w].reply /\ asking[w].pc = "posting"
                  THEN [asking EXCEPT ![w] = a] ELSE asking
    BY DEF Ring
  <2> QED
    BY <2>1, <2>2
<1>4. NoNewCarriers
  <2>1. NoMsg.corr = NoCorr
    BY DEF NoMsg
  <2>2. \A q \in Proc : \A k : k # NoCorr /\ OnLoop(k, q)' => OnLoop(k, q) /\ loop'[q] = loop[q]
    BY <1>1, <1>2, <2>1 DEF OnLoop
  <2>3. /\ \A x \in Row : \A k : OnRow(k, x)' => OnRow(k, x)
        /\ \A q \in Proc, c \in Channel : \A k : OnPump(k, q, c)' => OnPump(k, q, c)
    BY <1>1 DEF OnRow, OnPump
  <2>4. \A q \in Proc : \A k : k # NoCorr /\ loop'[q].ch \in Channel /\ OnLoop(k, q)'
                                 => Carries(k, loop'[q].ch)
    BY <2>2 DEF Carries
  <2>5. \A x \in Row : \A k : k # NoCorr /\ OnRow(k, x)' => Carries(k, x.ch)
    BY <2>3 DEF Carries
  <2>6. \A q \in Proc, c \in Channel : \A k : k # NoCorr /\ OnPump(k, q, c)' => Carries(k, c)
    BY <2>3 DEF Carries
  <2> QED
    BY <2>4, <2>5, <2>6, CarriersFrame
<1>5. Questions'
  BY <1>0, <1>1, <1>2 DEF Questions, OwnQuestion, PublishPC
<1>6. \A p \in Proc : counter' = counter /\ posted'[p] >= posted[p] /\ answered' = answered
  BY <1>0, <1>1
<1>7. ASSUME NEW p \in Proc, p # w \/ asking[w].pc # "posting" PROVE Asker(p)'
  <2>1. asking'[p] = asking[p] /\ (asking[p].pc = "posting" => loop'[p] = loop[p])
    BY <1>0, <1>1, <1>3, <1>7
  <2>2. asking[p].pc = "posting" => loop[p].pc \in PublishPC /\ ~loop[p].reply
    BY <1>0 DEF Asker, Posting
  <2>3. loop'[p] = loop[p] \/ loop'[p].pc \notin PublishPC
    BY <1>1, <1>2 DEF PublishPC
  <2>4. \A c \in Channel : counter'[c] >= counter[c]
    BY <1>1, TypedNext DEF Shapes
  <2>5. Steady(p)
    <3>1. asking[p].pc = "waiting" =>
            (loop'[p].pc \in {"body", "complete", "mark", "ring"} /\ loop'[p].row = asking[p].row
               => memory'[asking[p].row].seq # asking[p].seq)
      BY <1>0, <1>1, <2>3 DEF Asker, Waiting, PublishPC
    <3>2. \A x \in Row : IsQuestion(x, p)' => IsQuestion(x, p)
      BY <1>1, <2>1 DEF IsQuestion
    <3> QED
      BY <1>1, <2>1, <2>2, <2>3, <2>4, <3>1, <3>2 DEF Steady, IsOut
  <2>6. Traces(p)
    BY <1>1, <2>1 DEF Traces, Handles, IsStill
  <2> QED
    BY <1>0, <1>4, <1>6, <2>5, <2>6, AskerFrame, ContainedIf
<1>8. ASSUME asking[w].pc = "posting" PROVE Asker(w)'
  <2>1. /\ asking'[w].pc = "waiting" /\ asking'[w].row = row /\ asking'[w].seq = memory[row].seq
        /\ asking'[w].corr = asking[w].corr
    BY <1>0, <1>3, <1>8 DEF AskState
  <2>2. /\ asking[w].corr = <<w, posted[w]>> /\ asking[w].corr # NoCorr /\ posted[w] \in Nat \ {0}
    BY <1>0, <1>8 DEF Asker, Posting, AskState, Corr, NoCorr, Proc
  <2>3. row \in Row /\ row.owner = w /\ row.ch = loop[w].ch /\ memory[row].complete
    BY <1>0, <1>1, AtRow DEF Writing, WriterOK, PublishPC
  <2>4. memory[row].seq <= counter[row.ch]
    BY <2>3 DEF RowsInv, WholeRow
  <2>5. \A x \in Row : IsQuestion(x, w)' => IsQuestion(x, w)
    BY <1>1, <2>1 DEF IsQuestion
  <2>6. \A x \in Row : IsQuestion(x, w) => x = row
    BY <1>0, <1>8, QuestionRow DEF AskRow, Asks
  <2>7. Waiting(w)'
    <3>1. loop'[w].pc \notin PublishPC
      BY <1>2 DEF PublishPC
    <3>2. \E n \in Nat \ {0} : asking'[w].corr = <<w, n>> /\ n <= posted'[w]
      BY <1>1, <2>1, <2>2
    <3> QED
      BY <1>1, <2>1, <2>3, <2>4, <2>5, <2>6, <3>1, <3>2 DEF Waiting, PublishPC
  <2>8. AskChannel(w)' = AskChannel(w) /\ AskRow(w)' = AskRow(w) /\ AskRow(w) = row
    BY <1>8, <2>1, <2>3 DEF AskChannel, AskRow
  <2>9. OnlyThere(w)'
    BY <1>0, <1>4, <1>8, <2>1, <2>2, <2>8 DEF Asker, OnlyThere, NoNewCarriers, Asks
  <2>10. Traced(w)'
    BY <1>0, <1>1, <1>8, <2>1, <2>8
       DEF Asker, Traced, Asks, NobodyLapped, Handles, IsOut, IsStill
  <2>11. Known(w)'
    <3>1. \A n : <<w, n>> # NoCorr
      BY DEF NoCorr, Proc
    <3> QED
      BY <1>0, <1>1, <1>4, <3>1 DEF Asker, Known, NoNewCarriers
  <2> QED
    BY <2>1, <2>7, <2>9, <2>10, <2>11 DEF Asker, Posting
<1> QED
  BY <1>5, <1>7, <1>8 DEF AskInv
-----------------------------------------------------------------------------
(* The other steps                                                         *)

\* w writes nothing into a row but a taker, and publishes what it published or
\* starts to publish a message.
Moves(w) ==
  /\ \A q \in Proc \ {w} : loop'[q] = loop[q] /\ posted'[q] = posted[q]
  /\ \/ loop'[w] = loop[w] /\ posted'[w] = posted[w]
     \/ /\ loop'[w].pc \notin PublishPC /\ posted'[w] = posted[w]
        /\ Asks(w)' => loop[w].pc \notin PublishPC
     \/ loop[w].pc = "free" /\ loop'[w].pc = "claim" /\ posted'[w] = posted[w] + 1
  /\ \A x \in Row : SameRow(x)
  /\ UNCHANGED <<counter, missed>>

\* Such a step keeps an asker in order when its traces remain.
LEMMA MovesAsker ==
  ASSUME TypeInv, TypeInv', AskInv, NEW w \in Proc, Moves(w), NEW p \in Proc, Contained(p),
         \A k \in answered' : k \in answered \/ k = NoCorr \/ \E c \in Channel : Carries(k, c),
         ~Asks(p)' \/ (asking'[p] = asking[p] /\ Traces(p))
  PROVE  Asker(p)'
<1> USE Typed, TypedNext DEF Shapes
<1>1. Asker(p) /\ posted'[p] >= posted[p] /\ posted[p] \in Nat
  BY DEF AskInv, Moves
<1>2. ASSUME Asks(p)', asking'[p] = asking[p] PROVE Steady(p)
  <2>1. asking[p].pc = "posting" => loop[p].pc \in PublishPC /\ ~loop[p].reply
    BY <1>1 DEF Asker, Posting
  <2>2. asking[p].pc = "posting" => loop'[p] = loop[p] /\ posted'[p] = posted[p]
    BY <1>2, <2>1 DEF Moves, PublishPC
  <2>3. \A c \in Channel : counter'[c] >= counter[c]
    BY DEF Moves
  <2>4. \/ loop'[p] = loop[p]
        \/ loop'[p].pc \notin PublishPC
        \/ loop'[p].pc = "claim" /\ posted'[p] > posted[p]
    BY <1>1 DEF Moves
  <2>5. asking[p].pc = "waiting" =>
          (loop'[p].pc \in {"body", "complete", "mark", "ring"} /\ loop'[p].row = asking[p].row
             => memory'[asking[p].row].seq # asking[p].seq)
    BY <1>1, <2>4 DEF Asker, Waiting, PublishPC, Moves, SameRow
  <2>6. \A x \in Row : IsQuestion(x, p)' => IsQuestion(x, p)
    BY <1>2 DEF IsQuestion, Moves, SameRow
  <2> QED
    BY <1>2, <2>1, <2>2, <2>3, <2>4, <2>5, <2>6 DEF Steady, IsOut
<1> QED
  BY <1>1, <1>2, AskerFrame

\* The rows of a question exist.
LEMMA AskRowIs ==
  ASSUME TypeInv, AskInv, NEW p \in Proc, Asks(p), IsOut(p)
  PROVE  AskRow(p) \in Row
<1>1. Waiting(p)
  BY DEF AskInv, Asker
<1> QED
  BY <1>1, AtRow DEF Waiting, Asks, IsOut, AskRow

\* A step that starts no handler and takes no request leaves all traces.
LEMMA TracesStay ==
  ASSUME TypeInv, AskInv, NEW p \in Proc, Asks(p), UNCHANGED <<memory, missed, answered>>,
         asking'[p] = asking[p],
         \A r \in Proc, c \in Channel : \A k :
           Handles(r, c, k)' => Handles(r, c, k) /\ pump'[r][c].row = pump[r][c].row
  PROVE  Traces(p)
BY DEF Traces, IsStill

\* A step that starts no handler and takes no request keeps the invariant.
LEMMA OnlyLooks ==
  ASSUME TypeInv, TypeInv', AskInv, NEW w \in Proc, Moves(w), NoNewCarriers,
         UNCHANGED <<memory, answered>>,
         loop'[w].pc \in PublishPC => OwnQuestion(loop'[w].body),
         \A p \in Proc : asking'[p] = asking[p] \/ ~Asks(p)',
         \A r \in Proc, c \in Channel : \A k :
           Handles(r, c, k)' => Handles(r, c, k) /\ pump'[r][c].row = pump[r][c].row
  PROVE  AskInv'
<1>1. Questions'
  BY DEF Questions, Moves, AskInv
<1>2. ASSUME NEW p \in Proc PROVE Asker(p)'
  <2>1. asking'[p] = asking[p] /\ Asks(p)' => Asks(p)
    BY DEF Asks
  <2>2. asking'[p] = asking[p] /\ Asks(p)' => Traces(p)
    BY <2>1, TracesStay DEF Moves
  <2> QED
    BY <2>2, MovesAsker, ContainedIf
<1> QED
  BY <1>1, <1>2 DEF AskInv

\* The carriers after a step that moves w and its pumps only.
LEMMA CarriersOf ==
  ASSUME NEW w \in Proc, \A q \in Proc \ {w} : loop'[q] = loop[q] /\ pump'[q] = pump[q],
         \A x \in Row : SameRow(x),
         \A k : k # NoCorr /\ loop'[w].ch \in Channel /\ OnLoop(k, w)' => Carries(k, loop'[w].ch),
         \A c \in Channel : \A k : k # NoCorr /\ OnPump(k, w, c)' => Carries(k, c)
  PROVE  NoNewCarriers
<1>1. \A q \in Proc \ {w} : \A k : OnLoop(k, q)' => Carries(k, loop'[q].ch) \/ loop'[q].ch \notin Channel
  BY DEF OnLoop, Carries
<1>2. \A q \in Proc \ {w}, c \in Channel : \A k : OnPump(k, q, c)' => Carries(k, c)
  BY DEF OnPump, Carries
<1>3. \A x \in Row : \A k : OnRow(k, x)' => Carries(k, x.ch)
  BY DEF OnRow, Carries, SameRow
<1> QED
  BY <1>1, <1>2, <1>3, CarriersFrame

\* The fresh records hold no message.
LEMMA Defaulted ==
  /\ NoMsg.corr = NoCorr
  /\ Free.pc = "free" /\ Free.head = NoMsg /\ Free.body = NoMsg
  /\ \A c : LET s == [Free EXCEPT !.pc = "next", !.ch = c]
            IN  s.pc = "next" /\ s.head = NoMsg /\ s.body = NoMsg
  /\ Asleep.pc = "asleep" /\ Asleep.head = NoMsg /\ Asleep.body = NoMsg
  /\ \A todo : LET s == [Asleep EXCEPT !.pc = "draining", !.todo = todo]
               IN  s.pc = "draining" /\ s.head = NoMsg /\ s.body = NoMsg
BY DEF NoMsg, Free, Asleep

\* Waking up, scanning and reading keep the invariant.
LEMMA LooksAskers ==
  ASSUME BitInv, TypeInv', ReadersInv, AskInv, NEW w \in Proc,
         \/ \E c \in Channel : Acquire(w, c) \/ Scan(w, c)
         \/ NextRow(w) \/ ReadHead(w) \/ ReadBody(w)
  PROVE  AskInv'
<1>0. /\ TypeInv /\ OnChannel(w) /\ loop[w] \in LoopState
      /\ loop \in [Proc -> LoopState] /\ pump \in [Proc -> [Channel -> PumpState]]
      /\ memory \in [Row -> RowData] /\ posted \in [Proc -> Nat]
  BY DEF BitInv, TypeInv, TypeOK, ReadersInv, ReaderOK
<1>1. /\ UNCHANGED <<memory, counter, missed, posted, answered, asking>>
      /\ \A x \in Row : SameRow(x)
  BY DEF Acquire, Scan, NextRow, ReadHead, ReadBody, shared, history, SameRow
<1>2. ASSUME \A q \in Proc \ {w} : loop'[q] = loop[q] /\ pump'[q] = pump[q],
             loop'[w] = loop[w] \/ (loop[w].pc \notin PublishPC /\ loop'[w].pc \notin PublishPC),
             \A k : k # NoCorr /\ loop'[w].ch \in Channel /\ OnLoop(k, w)' => Carries(k, loop'[w].ch),
             \A c \in Channel : \/ pump'[w][c] = pump[w][c]
                                \/ /\ pump'[w][c].pc # "handling" \/ pump'[w][c].pc = pump[w][c].pc
                                   /\ pump'[w][c].row = pump[w][c].row \/ pump'[w][c].pc # "handling"
                                   /\ pump'[w][c].head \in {pump[w][c].head, NoMsg}
                                   /\ pump'[w][c].body \in {pump[w][c].body, NoMsg}
      PROVE  AskInv'
  <2>1. \A c \in Channel : \A k : k # NoCorr /\ OnPump(k, w, c)' => Carries(k, c)
    BY <1>2, Defaulted DEF OnPump, Carries
  <2>2. NoNewCarriers
    BY <1>1, <1>2, <2>1, CarriersOf
  <2>3. Moves(w)
    BY <1>1, <1>2 DEF Moves
  <2>4. \A r \in Proc, c \in Channel : \A k :
          Handles(r, c, k)' => Handles(r, c, k) /\ pump'[r][c].row = pump[r][c].row
    <3>1. NoMsg.kind # "request"
      BY DEF NoMsg
    <3> QED
      BY <1>2, <3>1 DEF Handles
  <2>5. loop'[w].pc \in PublishPC => OwnQuestion(loop'[w].body)
    BY <1>2 DEF AskInv, Questions
  <2> QED
    BY <1>0, <1>1, <2>2, <2>3, <2>4, <2>5, OnlyLooks
<1>3. ASSUME NEW c \in Channel, Acquire(w, c) PROVE AskInv'
  <2> DEFINE s == [pump[w][c] EXCEPT !.pc = "awake"]
  <2>1. pump' = [pump EXCEPT ![w][c] = s] /\ UNCHANGED loop
    BY <1>0, <1>3 DEF Acquire
  <2>2. /\ s.pc = "awake" /\ s.head = pump[w][c].head /\ s.body = pump[w][c].body
    BY <1>0 DEF PumpState
  <2> HIDE DEF s
  <2>3. \A d \in Channel : pump'[w][d] = pump[w][d] \/ (d = c /\ pump'[w][d] = s)
    BY <1>0, <2>1
  <2>4. \A k : loop'[w].ch \in Channel /\ OnLoop(k, w)' => Carries(k, loop'[w].ch)
    BY <2>1 DEF OnLoop, Carries
  <2> QED
    BY <1>0, <1>2, <2>1, <2>2, <2>3, <2>4
<1>4. ASSUME NEW c \in Channel, Scan(w, c) PROVE AskInv'
  <2> DEFINE todo == {[row |-> row, seq |-> memory[row].seq] :
                        row \in {x \in unread[w] : x.ch = c}}
             s == [Asleep EXCEPT !.pc = "draining", !.todo = todo]
             l == [Free EXCEPT !.pc = "next", !.ch = c]
  <2>1. /\ loop[w].pc = "free"
        /\ \/ pump' = [pump EXCEPT ![w][c] = Asleep] /\ UNCHANGED loop
           \/ pump' = [pump EXCEPT ![w][c] = s] /\ loop' = [loop EXCEPT ![w] = l]
    BY <1>4 DEF Scan
  <2>2. /\ s.pc = "draining" /\ s.head = NoMsg /\ s.body = NoMsg
        /\ l.pc = "next" /\ l.head = NoMsg /\ l.body = NoMsg
    BY Defaulted
  <2> HIDE DEF s, l
  <2>3. \A d \in Channel : pump'[w][d] = pump[w][d] \/ pump'[w][d] \in {Asleep, s}
    BY <1>0, <2>1
  <2>4. loop'[w] = loop[w] \/ loop'[w] = l
    BY <1>0, <2>1
  <2>5. \A k : k # NoCorr /\ loop'[w].ch \in Channel /\ OnLoop(k, w)' => Carries(k, loop'[w].ch)
    BY <2>2, <2>4, Defaulted DEF OnLoop, Carries
  <2>6. \A q \in Proc \ {w} : loop'[q] = loop[q] /\ pump'[q] = pump[q]
    BY <1>0, <2>1
  <2> QED
    BY <1>2, <2>1, <2>2, <2>3, <2>4, <2>5, <2>6, Defaulted DEF PublishPC
<1>5. ASSUME NextRow(w) PROVE AskInv'
  <2> DEFINE c == loop[w].ch
  <2>1. /\ loop[w].pc = "next" /\ c \in Channel
        /\ \/ pump' = [pump EXCEPT ![w][c] = Asleep] /\ loop' = [loop EXCEPT ![w] = Free]
           \/ \E item \in pump[w][c].todo :
                /\ pump' = [pump EXCEPT ![w][c].todo = pump[w][c].todo \ {item}]
                /\ \/ UNCHANGED loop
                   \/ loop' = [loop EXCEPT ![w].pc = "head", ![w].row = item.row]
    BY <1>0, <1>5, AtRow DEF NextRow
  <2>2. CASE pump' = [pump EXCEPT ![w][c] = Asleep] /\ loop' = [loop EXCEPT ![w] = Free]
    <3>1. \A d \in Channel : pump'[w][d] = pump[w][d] \/ pump'[w][d] = Asleep
      BY <1>0, <2>2
    <3>2. loop'[w] = Free /\ \A q \in Proc \ {w} : loop'[q] = loop[q] /\ pump'[q] = pump[q]
      BY <1>0, <2>2
    <3>3. \A k : k # NoCorr /\ loop'[w].ch \in Channel /\ OnLoop(k, w)' => Carries(k, loop'[w].ch)
      BY <3>2, Defaulted DEF OnLoop
    <3> QED
      BY <1>2, <2>1, <3>1, <3>2, <3>3, Defaulted DEF PublishPC
  <2>3. ASSUME NEW item \in pump[w][c].todo,
               pump' = [pump EXCEPT ![w][c].todo = pump[w][c].todo \ {item}],
               UNCHANGED loop \/ loop' = [loop EXCEPT ![w].pc = "head", ![w].row = item.row]
        PROVE  AskInv'
    <3>1. \A d \in Channel :
            /\ pump'[w][d].pc = pump[w][d].pc /\ pump'[w][d].row = pump[w][d].row
            /\ pump'[w][d].head = pump[w][d].head /\ pump'[w][d].body = pump[w][d].body
      BY <1>0, <2>1, <2>3 DEF PumpState
    <3>2. /\ \A q \in Proc \ {w} : loop'[q] = loop[q] /\ pump'[q] = pump[q]
          /\ loop'[w].pc \in {"next", "head"} /\ loop'[w].ch = c
          /\ loop'[w].head = loop[w].head /\ loop'[w].body = loop[w].body
      BY <1>0, <2>1, <2>3 DEF LoopState
    <3>3. \A k : k # NoCorr /\ loop'[w].ch \in Channel /\ OnLoop(k, w)' => Carries(k, loop'[w].ch)
      BY <3>2 DEF OnLoop, Carries
    <3> QED
      BY <1>2, <2>1, <3>1, <3>2, <3>3 DEF PublishPC
  <2> QED
    BY <2>1, <2>2, <2>3
<1>6. ASSUME ReadHead(w) \/ ReadBody(w) PROVE AskInv'
  <2> DEFINE row == loop[w].row
             c == loop[w].ch
             head == [memory[row].head EXCEPT !.kind = memory[row].body.kind]
  <2>1. /\ loop[w].pc \in {"head", "rest"} /\ c \in Channel /\ row \in Row /\ row.ch = c
        /\ UNCHANGED pump
    BY <1>0, <1>6, AtRow DEF ReadHead, ReadBody, OnChannel, ReadingPC
  <2>2. head.corr = memory[row].head.corr
    <3>1. memory[row].head \in Msg
      BY <1>0, <2>1 DEF RowData
    <3> QED
      BY <3>1 DEF Msg
  <2>3. \/ loop' = [loop EXCEPT ![w].head = head, ![w].pc = "rest"]
        \/ loop' = [loop EXCEPT ![w].body = memory[row].body, ![w].pc = "lower"]
    BY <1>6 DEF ReadHead, ReadBody
  <2> HIDE DEF head
  <2>4. /\ \A q \in Proc \ {w} : loop'[q] = loop[q]
        /\ loop'[w].pc \in {"rest", "lower"} /\ loop'[w].ch = c
        /\ loop'[w].head \in {loop[w].head, head}
        /\ loop'[w].body \in {loop[w].body, memory[row].body}
    BY <1>0, <2>3 DEF LoopState
  <2>5. \A k : k # NoCorr /\ loop'[w].ch \in Channel /\ OnLoop(k, w)' => Carries(k, loop'[w].ch)
    <3> SUFFICES ASSUME NEW k, OnLoop(k, w)' PROVE Carries(k, c)
      BY <2>4
    <3>1. OnLoop(k, w) \/ OnRow(k, row)
      BY <2>2, <2>4 DEF OnLoop, OnRow
    <3> QED
      BY <2>1, <3>1 DEF Carries
  <2> QED
    BY <1>2, <2>1, <2>4, <2>5 DEF PublishPC
<1> QED
  BY <1>3, <1>4, <1>5, <1>6
\* The asker gives up.
LEMMA TimesOutAskers ==
  ASSUME BitInv, TypeInv', AskInv, NEW w \in Proc, AskTimesOut(w)
  PROVE  AskInv'
<1>1. TypeInv /\ asking \in [Proc -> AskState]
  BY DEF BitInv, TypeInv, TypeOK
<1>2. /\ UNCHANGED <<memory, missed, counter, loop, pump, posted, answered>>
      /\ asking'[w].pc = "over" /\ \A p \in Proc \ {w} : asking'[p] = asking[p]
  BY <1>1 DEF AskTimesOut, AskState, shared, history
<1>3. \A x \in Row : SameRow(x)
  BY <1>2 DEF SameRow
<1>4. NoNewCarriers
  BY <1>2, <1>3, CarriersOf DEF OnLoop, OnPump, Carries
<1>5. Moves(w)
  BY <1>2, <1>3 DEF Moves
<1>6. \A p \in Proc : asking'[p] = asking[p] \/ ~Asks(p)'
  BY <1>2 DEF Asks
<1>7. loop'[w].pc \in PublishPC => OwnQuestion(loop'[w].body)
  BY <1>2 DEF AskInv, Questions
<1> QED
  BY <1>1, <1>2, <1>4, <1>5, <1>6, <1>7, OnlyLooks DEF Handles

\* A process dies: what it asked is forgotten, what it wrote stays.
LEMMA CrashAskers ==
  ASSUME BitInv, TypeInv', AskInv, NEW w \in Proc, CrashAndRespawn(w)
  PROVE  AskInv'
<1>1. /\ TypeInv /\ asking \in [Proc -> AskState] /\ loop \in [Proc -> LoopState]
      /\ pump \in [Proc -> [Channel -> PumpState]]
  BY DEF BitInv, TypeInv, TypeOK
<1>2. /\ UNCHANGED <<memory, missed, counter, posted, answered>>
      /\ asking'[w] = NotAsking /\ \A p \in Proc \ {w} : asking'[p] = asking[p]
      /\ loop'[w] = Free /\ pump'[w] = [c \in Channel |-> Asleep]
      /\ \A q \in Proc \ {w} : loop'[q] = loop[q] /\ pump'[q] = pump[q]
  BY <1>1 DEF CrashAndRespawn, shared
<1>3. /\ \A x \in Row : SameRow(x)
      /\ \A c \in Channel : pump'[w][c] = Asleep
  BY <1>2 DEF SameRow
<1>4. NoNewCarriers
  BY <1>2, <1>3, CarriersOf, Defaulted DEF OnLoop, OnPump
<1>5. /\ ~Asks(w)' /\ \A p \in Proc : asking'[p] = asking[p] \/ ~Asks(p)'
  BY <1>2 DEF Asks, NotAsking
<1>6. Moves(w) /\ loop'[w].pc \notin PublishPC
  BY <1>2, <1>3, <1>5, Defaulted DEF Moves, PublishPC
<1>7. \A r \in Proc, c \in Channel : \A k :
        Handles(r, c, k)' => Handles(r, c, k) /\ pump'[r][c].row = pump[r][c].row
  BY <1>2, <1>3, Defaulted DEF Handles
<1> QED
  BY <1>1, <1>2, <1>4, <1>5, <1>6, <1>7, OnlyLooks

\* A question starts with a correlation that nobody has seen.
LEMMA PostAskers ==
  ASSUME BitInv, TypeInv', AskInv, NEW w \in Proc, NEW c \in Channel, NEW how \in Posts,
         Post(w, c, how)
  PROVE  AskInv'
<1> DEFINE id == <<w, posted[w] + 1>>
           m  == [from |-> w, n |-> posted[w] + 1,
                  kind |-> IF how = "announce" THEN "announce" ELSE "request",
                  corr |-> IF how = "ask" THEN id ELSE NoCorr]
           l  == Publishing(w, c, m, FALSE)
           a  == [NotAsking EXCEPT !.pc = "posting", !.corr = id]
<1>1. /\ TypeInv /\ asking \in [Proc -> AskState] /\ loop \in [Proc -> LoopState]
      /\ posted \in [Proc -> Nat] /\ posted[w] \in Nat /\ answered \subseteq Corr
  BY DEF BitInv, TypeInv, TypeOK
<1>2. /\ loop[w].pc = "free" /\ loop' = [loop EXCEPT ![w] = l]
      /\ posted' = [posted EXCEPT ![w] = @ + 1]
      /\ how = "ask" => ~Asks(w) /\ asking' = [asking EXCEPT ![w] = a]
      /\ how # "ask" => UNCHANGED asking
      /\ UNCHANGED <<memory, missed, counter, pump, answered>>
  BY DEF Post, shared, Asks
<1>3. /\ l.pc = "claim" /\ l.ch = c /\ l.head = m /\ l.body = m /\ ~l.reply
      /\ a.pc = "posting" /\ a.corr = id
  BY DEF Publishing, Free, NotAsking
<1>4. OwnQuestion(m) /\ m.corr = IF how = "ask" THEN id ELSE NoCorr
  BY DEF OwnQuestion
<1> HIDE DEF l, a, m
<1>5. /\ loop'[w] = l /\ \A q \in Proc \ {w} : loop'[q] = loop[q]
      /\ posted'[w] = posted[w] + 1 /\ \A q \in Proc \ {w} : posted'[q] = posted[q]
      /\ \A p \in Proc \ {w} : asking'[p] = asking[p]
  BY <1>1, <1>2
<1>6. \A x \in Row : SameRow(x)
  BY <1>2 DEF SameRow
<1>7. Questions'
  BY <1>2, <1>3, <1>4, <1>5 DEF AskInv, Questions
<1>8. Moves(w)
  BY <1>2, <1>3, <1>5, <1>6 DEF Moves
<1>9. ASSUME NEW d \in Channel, NEW k, k # NoCorr, Carries(k, d)'
      PROVE  Carries(k, d) \/ (how = "ask" /\ k = id /\ d = c)
  <2>1. \A x \in Row : OnRow(k, x)' => OnRow(k, x)
    BY <1>2 DEF OnRow
  <2>2. \A q \in Proc : OnPump(k, q, d)' => OnPump(k, q, d)
    BY <1>2 DEF OnPump
  <2>3. \A q \in Proc \ {w} : OnLoop(k, q)' /\ loop'[q].ch = d => OnLoop(k, q) /\ loop[q].ch = d
    BY <1>5 DEF OnLoop
  <2>4. OnLoop(k, w)' /\ loop'[w].ch = d => how = "ask" /\ k = id /\ d = c
    BY <1>3, <1>4, <1>5, <1>9 DEF OnLoop
  <2> QED
    BY <1>9, <2>1, <2>2, <2>3, <2>4 DEF Carries
<1>10. \A p \in Proc : p # w \/ how # "ask" => Contained(p)
  <2>1. \A p \in Proc, n \in Nat \ {0} : <<p, n>> # NoCorr /\ (p # w => <<p, n>> # id)
    BY DEF NoCorr, Proc
  <2> QED
    BY <1>9, <2>1 DEF Contained
<1>11. ASSUME NEW p \in Proc, p # w \/ how # "ask" PROVE Asker(p)'
  <2>1. asking'[p] = asking[p]
    BY <1>2, <1>5, <1>11
  <2>2. Asks(p)' => Traces(p)
    BY <1>1, <1>2, <2>1, TracesStay DEF Handles, Asks
  <2> QED
    BY <1>1, <1>2, <1>8, <1>10, <1>11, <2>1, <2>2, MovesAsker
<1>12. ASSUME how = "ask" PROVE Asker(w)'
  <2>1. /\ asking'[w].pc = "posting" /\ asking'[w].corr = id
        /\ loop'[w].pc = "claim" /\ loop'[w].ch = c /\ ~loop'[w].reply
    BY <1>1, <1>2, <1>3, <1>5, <1>12
  <2>2. Known(w)
    BY DEF AskInv, Asker
  <2>3. \A n : <<w, n>> # NoCorr
    BY DEF NoCorr, Proc
  <2>4. Known(w)'
    <3> SUFFICES ASSUME NEW n \in Nat \ {0},
                        <<w, n>> \in answered' \/ \E d \in Channel : Carries(<<w, n>>, d)'
                 PROVE  n <= posted'[w]
      BY DEF Known
    <3>1. \/ <<w, n>> \in answered \/ \E d \in Channel : Carries(<<w, n>>, d)
          \/ <<w, n>> = id
      BY <1>2, <1>9, <2>3
    <3> QED
      BY <1>1, <1>5, <2>2, <3>1 DEF Known
  <2>5. id \notin answered /\ \A d \in Channel : ~Carries(id, d)
    BY <1>1, <2>2 DEF Known
  <2>6. Posting(w)' /\ Waiting(w)'
    BY <1>1, <1>5, <2>1 DEF Posting, Waiting, PublishPC
  <2>7. OnlyThere(w)'
    BY <1>9, <2>1, <2>3, <2>5 DEF OnlyThere, AskChannel
  <2>8. Traced(w)'
    <3>1. \A r \in Proc, d \in Channel : pump[r][d].head.corr # asking'[w].corr
      BY <2>1, <2>5 DEF Carries, OnPump
    <3> QED
      BY <1>2, <2>1, <2>5, <3>1 DEF Traced, Handles
  <2> QED
    BY <2>4, <2>6, <2>7, <2>8 DEF Asker
<1> QED
  BY <1>7, <1>11, <1>12 DEF AskInv

\* _consume: what is settled or handed to the handler comes from one row.
LEMMA LowerBitAskers ==
  ASSUME ~RacyUpdates, ContractInv, TypeInv', AskInv, NEW w \in Proc, LowerBit(w)
  PROVE  AskInv'
<1> DEFINE c    == loop[w].ch
           row  == loop[w].row
           head == loop[w].head
           body == loop[w].body
           s    == [pump[w][c] EXCEPT !.pc = "handling", !.row = row, !.head = head, !.body = body]
           l    == [Free EXCEPT !.pc = "next", !.ch = c]
<1>1. /\ TypeInv /\ BitInv /\ RowsInv /\ OnChannel(w) /\ Reading(w)
      /\ loop \in [Proc -> LoopState] /\ pump \in [Proc -> [Channel -> PumpState]]
      /\ asking \in [Proc -> AskState] /\ posted \in [Proc -> Nat]
  BY DEF ContractInv, ReadersInv, ReaderOK, BitInv, TypeInv, TypeOK
<1>2. loop[w].pc = "lower" /\ c \in Channel /\ row \in Row /\ row.ch = c
  BY <1>1, AtRow DEF LowerBit, OnChannel, ReadingPC
<1>3. /\ UNCHANGED <<memory, missed, counter, posted, answered>>
      /\ loop' = [loop EXCEPT ![w] = l] \/ loop' = [loop EXCEPT ![w] = Free]
      /\ UNCHANGED pump \/ pump' = [pump EXCEPT ![w][c] = s]
      /\ UNCHANGED asking \/ Settle(w, head, body)
  BY <1>1, <1>2 DEF LowerBit, LoadByte
<1>4. /\ l.pc = "next" /\ l.head = NoMsg /\ l.body = NoMsg
      /\ s.row = row /\ s.head = head /\ s.body = body
  BY <1>1, <1>2, Defaulted DEF PumpState
<1>5. \A p \in Proc : asking'[p] = asking[p] \/ ~Asks(p)'
  <2>1. UNCHANGED asking
          \/ asking' = [asking EXCEPT ![w].pc = "over", ![w].value = body.corr,
                                      ![w].outcome = IF head.kind = "reply" THEN "Done" ELSE "Failed"]
    BY <1>3 DEF Settle
  <2>2. CASE UNCHANGED asking
    BY <2>2
  <2>3. CASE asking' = [asking EXCEPT ![w].pc = "over", ![w].value = body.corr,
                          ![w].outcome = IF head.kind = "reply" THEN "Done" ELSE "Failed"]
    <3> HIDE DEF head, body
    <3>1. asking'[w].pc = "over" /\ \A p \in Proc \ {w} : asking'[p] = asking[p]
      BY <1>1, <2>3 DEF AskState
    <3> QED
      BY <3>1 DEF Asks
  <2> QED
    BY <2>1, <2>2, <2>3
<1> HIDE DEF l, s
<1>6. /\ loop'[w] \in {l, Free} /\ \A q \in Proc \ {w} : loop'[q] = loop[q] /\ pump'[q] = pump[q]
      /\ \A d \in Channel : pump'[w][d] = pump[w][d] \/ (d = c /\ pump'[w][d] = s)
  BY <1>1, <1>2, <1>3
<1>7. \A x \in Row : SameRow(x)
  BY <1>3 DEF SameRow
<1>8. NoNewCarriers
  <2>1. \A k : k # NoCorr => ~OnLoop(k, w)'
    BY <1>4, <1>6, Defaulted DEF OnLoop
  <2>2. \A d \in Channel : \A k : OnPump(k, w, d)' => Carries(k, d)
    <3> SUFFICES ASSUME NEW d \in Channel, NEW k, OnPump(k, w, d)' PROVE Carries(k, d)
      OBVIOUS
    <3>1. OnPump(k, w, d) \/ (d = c /\ OnLoop(k, w))
      BY <1>4, <1>6 DEF OnPump, OnLoop
    <3> QED
      BY <3>1 DEF Carries
  <2> QED
    BY <1>6, <1>7, <2>1, <2>2, CarriersOf
<1>9. Moves(w) /\ loop'[w].pc \notin PublishPC
  BY <1>2, <1>3, <1>4, <1>6, <1>7, Defaulted DEF Moves, PublishPC
<1>10. Questions'
  BY <1>3, <1>6, <1>9 DEF AskInv, Questions
<1>11. ASSUME NEW p \in Proc, Asks(p)', asking'[p] = asking[p] PROVE Traces(p)
  <2> DEFINE k == asking[p].corr
  <2>1. Asks(p)
    BY <1>11 DEF Asks
  <2>2. ASSUME NobodyLapped(p), head.kind = "request", head.corr = k
        PROVE  IsOut(p) /\ row = AskRow(p)
    <3>1. Carries(k, c)
      BY <1>2, <2>2 DEF Carries, OnLoop
    <3>2. AskChannel(p) = c
      BY <1>2, <2>1, <3>1 DEF AskInv, Asker, OnlyThere
    <3>3. c \notin missed[w]
      BY <2>2, <3>2 DEF NobodyLapped
    <3>4. row \in unread[w] /\ head = memory[row].body
      BY <1>1, <1>2, <3>3 DEF Reading, ReadingPC
    <3>5. memory[row].complete
      BY <1>1, <3>4, UnreadRow
    <3>6. IsQuestion(row, p)
      BY <2>2, <3>4, <3>5 DEF IsQuestion
    <3> QED
      BY <1>1, <1>2, <2>1, <3>6, QuestionRow
  <2>3. ASSUME NobodyLapped(p), NEW r \in Proc, NEW d \in Channel, Handles(r, d, k)'
        PROVE  \/ Handles(r, d, k) /\ pump'[r][d].row = pump[r][d].row
               \/ IsOut(p) /\ pump'[r][d].row = AskRow(p)
    <3>1. CASE pump'[r][d] = pump[r][d]
      BY <1>11, <2>3, <3>1 DEF Handles
    <3>2. CASE r = w /\ d = c /\ pump'[r][d] = s
      <4>1. head.kind = "request" /\ head.corr = k
        BY <1>4, <1>11, <2>3, <3>2 DEF Handles
      <4> QED
        BY <1>4, <2>2, <2>3, <3>2, <4>1
    <3> QED
      BY <1>6, <3>1, <3>2
  <2>4. IsStill(p)' => IsStill(p)
    BY <1>3, <1>11 DEF IsStill
  <2> QED
    BY <1>3, <1>11, <2>3, <2>4 DEF Traces, Handles
<1>12. \A p \in Proc : Asker(p)'
  BY <1>1, <1>3, <1>5, <1>8, <1>9, <1>11, MovesAsker, ContainedIf
<1> QED
  BY <1>10, <1>12 DEF AskInv
\* _consume after the handler: the mark of the taker goes on the row of the
\* question, and the reply carries the correlation of the request.
LEMMA HandlerAskers ==
  ASSUME BitInv, TypeInv', AskInv, NEW w \in Proc, NEW c \in Channel,
         NEW v \in Outcomes(w, c), HandlerReturns(w, c, v)
  PROVE  AskInv'
<1> DEFINE row  == pump[w][c].row
           corr == pump[w][c].head.corr
           isReq == pump[w][c].head.kind = "request"
           todo == pump[w][c].todo
           m == [from |-> w, n |-> posted[w] + 1, corr |-> corr,
                 kind |-> IF v = "answered" THEN "reply" ELSE "failure"]
           s == [Asleep EXCEPT !.pc = "draining", !.todo = todo]
           l == Publishing(w, c, m, TRUE)
           n == [Free EXCEPT !.pc = "next", !.ch = c]
<1>1. /\ TypeInv /\ loop \in [Proc -> LoopState] /\ pump \in [Proc -> [Channel -> PumpState]]
      /\ memory \in [Row -> RowData] /\ posted \in [Proc -> Nat] /\ corr \in Corr
  <2>1. /\ TypeInv /\ loop \in [Proc -> LoopState] /\ pump \in [Proc -> [Channel -> PumpState]]
        /\ memory \in [Row -> RowData] /\ posted \in [Proc -> Nat]
    BY DEF BitInv, TypeInv, TypeOK
  <2>2. pump[w][c] \in PumpState
    BY <2>1
  <2>3. pump[w][c].head \in Msg
    BY <2>2 DEF PumpState
  <2>4. corr \in Corr
    BY <2>3 DEF Msg
  <2> QED
    BY <2>1, <2>4
<1>2. /\ pump[w][c].pc = "handling" /\ loop[w].pc = "free"
      /\ UNCHANGED <<missed, counter, asking>>
      /\ \/ UNCHANGED <<memory, answered>>
         \/ isReq /\ memory' = [memory EXCEPT ![row].taker = w] /\ answered' = answered \cup {corr}
      /\ pump' = [pump EXCEPT ![w][c] = Asleep] \/ pump' = [pump EXCEPT ![w][c] = s]
      /\ \/ UNCHANGED <<loop, posted>>
         \/ loop' = [loop EXCEPT ![w] = n] /\ UNCHANGED posted
         \/ loop' = [loop EXCEPT ![w] = l] /\ posted' = [posted EXCEPT ![w] = @ + 1]
  <2>1. /\ pump[w][c].pc = "handling" /\ loop[w].pc = "free"
        /\ UNCHANGED <<missed, counter, asking>>
    BY DEF HandlerReturns
  <2>2. \/ UNCHANGED <<memory, answered>>
        \/ isReq /\ memory' = [memory EXCEPT ![row].taker = w] /\ answered' = answered \cup {corr}
    BY DEF HandlerReturns
  <2>3. pump' = [pump EXCEPT ![w][c] = Asleep] \/ pump' = [pump EXCEPT ![w][c] = s]
    BY DEF HandlerReturns
  <2>4. \/ UNCHANGED <<loop, posted>>
        \/ loop' = [loop EXCEPT ![w] = n] /\ UNCHANGED posted
        \/ loop' = [loop EXCEPT ![w] = l] /\ posted' = [posted EXCEPT ![w] = @ + 1]
    BY DEF HandlerReturns
  <2> QED
    BY <2>1, <2>2, <2>3, <2>4
<1>3. /\ s.pc = "draining" /\ s.head = NoMsg /\ s.body = NoMsg
      /\ n.pc = "next" /\ n.head = NoMsg /\ n.body = NoMsg
      /\ l.pc = "claim" /\ l.ch = c /\ l.head = m /\ l.body = m
      /\ m.corr = corr /\ m.kind # "request"
  BY Defaulted DEF Publishing, Free
<1> HIDE DEF s, l, n, m
<1>4. /\ \A q \in Proc \ {w} : loop'[q] = loop[q] /\ pump'[q] = pump[q] /\ posted'[q] = posted[q]
      /\ \A d \in Channel : pump'[w][d] = pump[w][d] \/ (d = c /\ pump'[w][d] \in {Asleep, s})
      /\ \/ loop'[w] = loop[w] /\ posted'[w] = posted[w]
         \/ loop'[w] = n /\ posted'[w] = posted[w]
         \/ loop'[w] = l /\ posted'[w] = posted[w] + 1
  BY <1>1, <1>2
<1>5. /\ \A x \in Row : SameRow(x)
      /\ \A x \in Row : memory'[x].taker = memory[x].taker \/ memory'[x].taker = w
  <2>1. CASE UNCHANGED memory
    BY <2>1 DEF SameRow
  <2>2. CASE memory' = [memory EXCEPT ![row].taker = w]
    <3> DEFINE d == [memory[row] EXCEPT !.taker = w]
    <3>1. \A x \in Row : memory'[x] = IF x = row THEN d ELSE memory[x]
      BY <1>1, <2>2
    <3>2. row \in Row =>
            /\ d.seq = memory[row].seq /\ d.head = memory[row].head /\ d.body = memory[row].body
            /\ d.complete = memory[row].complete /\ d.taker = w
      BY <1>1 DEF RowData
    <3> HIDE DEF d
    <3> QED
      BY <3>1, <3>2 DEF SameRow
  <2> QED
    BY <1>2, <2>1, <2>2
<1>6. w # NoTaker
  BY LinkAssumption DEF NoTaker, Proc
<1>7. Moves(w)
  BY <1>2, <1>3, <1>4, <1>5 DEF Moves, PublishPC
<1>8. NoNewCarriers
  <2>1. \A k : k # NoCorr /\ loop'[w].ch \in Channel /\ OnLoop(k, w)' => Carries(k, loop'[w].ch)
    <3> SUFFICES ASSUME NEW k, k # NoCorr, loop'[w].ch \in Channel, OnLoop(k, w)'
                 PROVE  Carries(k, loop'[w].ch)
      OBVIOUS
    <3>1. CASE loop'[w] = loop[w]
      BY <3>1 DEF OnLoop, Carries
    <3>2. CASE loop'[w] = n
      BY <1>3, <3>2, Defaulted DEF OnLoop
    <3>3. CASE loop'[w] = l
      BY <1>3, <3>3 DEF OnLoop, OnPump, Carries
    <3> QED
      BY <1>4, <3>1, <3>2, <3>3
  <2>2. \A d \in Channel : \A k : k # NoCorr /\ OnPump(k, w, d)' => Carries(k, d)
    BY <1>3, <1>4, Defaulted DEF OnPump, Carries
  <2> QED
    BY <1>4, <1>5, <2>1, <2>2, CarriersOf
<1>9. Questions'
  <2>1. \A x \in Row : OwnQuestion(memory'[x].body)
    BY <1>5 DEF AskInv, Questions, SameRow
  <2>2. \A p \in Proc : loop'[p] = loop[p] \/ loop'[p].pc \notin PublishPC \/ loop'[p].body = m
    BY <1>3, <1>4 DEF PublishPC
  <2>3. OwnQuestion(m)
    BY <1>3 DEF OwnQuestion
  <2> QED
    BY <2>1, <2>2, <2>3 DEF AskInv, Questions
<1>10. \A k \in answered' : k \in answered \/ k = NoCorr \/ \E d \in Channel : Carries(k, d)
  <2>1. Carries(corr, c)
    BY DEF Carries, OnPump
  <2> QED
    BY <1>2, <2>1
<1>11. ASSUME NEW p \in Proc, Asks(p)' PROVE Traces(p)
  <2> DEFINE k == asking[p].corr
  <2>1. Asks(p) /\ asking'[p] = asking[p]
    BY <1>2, <1>11 DEF Asks
  <2>2. \A r \in Proc, d \in Channel :
          Handles(r, d, asking[p].corr)' =>
            Handles(r, d, asking[p].corr) /\ pump'[r][d].row = pump[r][d].row
    <3>1. \A r \in Proc, d \in Channel :
            pump'[r][d] = pump[r][d] \/ pump'[r][d].pc \in {"asleep", "draining"}
      BY <1>3, <1>4, Defaulted
    <3> QED
      BY <1>2, <3>1 DEF Handles
  <2>3. ASSUME NobodyLapped(p), k \in answered', k \notin answered
        PROVE  IsOut(p) /\ memory'[AskRow(p)].taker # NoTaker
    <3>1. isReq /\ memory' = [memory EXCEPT ![row].taker = w] /\ k = corr
      BY <1>2, <2>3
    <3>2. Handles(w, c, k)
      BY <1>2, <3>1 DEF Handles
    <3>3. IsOut(p) /\ row = AskRow(p)
      BY <2>1, <2>3, <3>2 DEF AskInv, Asker, Traced
    <3>4. AskRow(p) \in Row
      BY <1>1, <2>1, <3>3, AskRowIs
    <3> QED
      BY <1>1, <1>6, <3>1, <3>3, <3>4 DEF RowData
  <2>4. IsOut(p) /\ IsStill(p)' =>
          /\ IsStill(p)
          /\ memory[AskRow(p)].taker # NoTaker => memory'[AskRow(p)].taker # NoTaker
    <3> SUFFICES ASSUME IsOut(p), IsStill(p)'
                 PROVE  /\ IsStill(p)
                        /\ memory[AskRow(p)].taker # NoTaker => memory'[AskRow(p)].taker # NoTaker
      OBVIOUS
    <3>1. AskRow(p) \in Row
      BY <1>1, <2>1, AskRowIs
    <3>2. asking[p].pc = "waiting" => AskRow(p) = asking[p].row
      BY DEF AskRow
    <3> QED
      BY <1>5, <1>6, <2>1, <3>1, <3>2 DEF IsStill, SameRow
  <2> QED
    BY <1>2, <2>1, <2>2, <2>3, <2>4 DEF Traces
<1>12. ASSUME NEW p \in Proc PROVE Asker(p)'
  <2>1. asking'[p] = asking[p]
    BY <1>2
  <2> QED
    BY <1>1, <1>7, <1>8, <1>10, <1>11, <2>1, MovesAsker, ContainedIf
<1> QED
  BY <1>9, <1>12 DEF AskInv
-----------------------------------------------------------------------------
(* The invariant                                                           *)

\* Nobody asks at the start.
LEMMA InitAskInv == Init => AskInv
<1> SUFFICES ASSUME Init PROVE AskInv
  OBVIOUS
<1>1. /\ \A x \in Row : memory[x].head = NoMsg /\ memory[x].body = NoMsg
      /\ \A p \in Proc : loop[p] = Free /\ asking[p] = NotAsking
      /\ \A p \in Proc, c \in Channel : pump[p][c] = Asleep
      /\ answered = {}
  BY DEF Init
<1>2. Questions
  BY <1>1 DEF Questions, OwnQuestion, NoMsg, Free, PublishPC
<1>3. \A p \in Proc : ~Asks(p) /\ asking[p].pc = "none"
  BY <1>1 DEF Asks, NotAsking
<1>4. \A p \in Proc : Known(p)
  <2>1. \A p \in Proc, n \in Nat : <<p, n>> # NoCorr
    BY DEF NoCorr, Proc
  <2>2. \A k, c : k # NoCorr /\ c \in Channel => ~Carries(k, c)
    BY <1>1, Defaulted DEF Carries, OnRow, OnLoop, OnPump
  <2> QED
    BY <1>1, <2>1, <2>2 DEF Known
<1> QED
  BY <1>2, <1>3, <1>4 DEF AskInv, Asker, Posting, Waiting, OnlyThere, Traced, Asks

\* Every step keeps the invariant when updates do not collide.
LEMMA NextAskInv ==
  ASSUME ~RacyUpdates, ContractInv, ContractInv', AskInv, [Next]_vars
  PROVE  AskInv'
<1>1. /\ BitInv /\ RowsInv /\ RowsInv' /\ TypeInv' /\ ReadersInv
  BY DEF ContractInv, BitInv
<1>2. ASSUME NEW w \in Proc, LoopStep(w) PROVE AskInv'
  <2>1. CASE Writes(w) /\ loop[w].pc # "ring"
    BY <1>1, <2>1, WritesAskers
  <2>2. CASE Ring(w)
    BY <1>1, <2>2, RingAskers
  <2>3. CASE NextRow(w) \/ ReadHead(w) \/ ReadBody(w)
    BY <1>1, <2>3, LooksAskers
  <2>4. CASE LowerBit(w)
    BY <1>1, <2>4, LowerBitAskers
  <2>5. Writes(w) /\ loop[w].pc = "ring" => Ring(w)
    BY DEF Writes, ClaimRow, CountMissed, Invalidate, TakeNumber, WriteBody, Complete, MarkUnread
  <2> QED
    BY <1>2, <2>1, <2>2, <2>3, <2>4, <2>5 DEF LoopStep, Writes
<1>3. ASSUME NEW w \in Proc, NEW c \in Channel, PumpStep(w, c) PROVE AskInv'
  BY <1>1, <1>3, LooksAskers, HandlerAskers DEF PumpStep
<1>4. ASSUME NEW w \in Proc, NEW c \in Channel, NEW how \in Posts, Post(w, c, how) PROVE AskInv'
  BY <1>1, <1>4, PostAskers
<1>5. ASSUME NEW w \in Proc, AskTimesOut(w) PROVE AskInv'
  BY <1>1, <1>5, TimesOutAskers
<1>6. ASSUME NEW w \in Proc, CrashAndRespawn(w) PROVE AskInv'
  BY <1>1, <1>6, CrashAskers
<1>7. CASE UNCHANGED vars
  BY <1>7 DEF vars, shared, private, history, AskInv, Questions, Asker, Known, Posting, Waiting,
              OnlyThere, Traced, Carries, OnRow, OnLoop, OnPump, IsQuestion, Asks, AskChannel, AskRow,
              NobodyLapped, Handles, IsOut, IsStill
<1> QED
  BY <1>2, <1>3, <1>4, <1>5, <1>6, <1>7 DEF Next-----------------------------------------------------------------------------
(* What the asker concludes                                                *)

\* While a question is open it has no outcome.
Open == \A p \in Proc : Asks(p) => asking[p].outcome = "none"

\* The step of LowerBit that resolves the pending future of p.
Settles(p) ==
  /\ LowerBit(p)
  /\ asking[p].pc = "waiting" /\ asking[p].corr = loop[p].head.corr
  /\ asking'[p].value = loop[p].body.corr
  /\ asking'[p].row = asking[p].row /\ asking'[p].corr = asking[p].corr
  /\ asking'[p].pc = "over" /\ asking'[p].outcome \in {"Done", "Failed"}
TimesOut(p) ==
  /\ AskTimesOut(p)
  /\ asking[p].pc = "waiting" /\ asking'[p].pc = "over"
  /\ asking'[p].outcome = TimeoutVerdict(memory[asking[p].row], asking[p].seq)

\* What a step does to the ask() of p.
LEMMA AskingDoes ==
  ASSUME TypeInv, [Next]_vars, NEW p \in Proc
  PROVE  \/ asking'[p] = asking[p]
         \/ asking'[p].outcome = "none" /\ asking[p].pc # "waiting"
         \/ asking'[p] = NotAsking
         \/ /\ asking[p].pc = "posting" /\ asking'[p].pc = "waiting"
            /\ asking'[p].outcome = asking[p].outcome
         \/ Settles(p)
         \/ TimesOut(p)
<1>1. asking \in [Proc -> AskState] /\ asking[p] \in AskState
  BY DEF TypeInv, TypeOK
<1> SUFFICES ASSUME asking'[p] # asking[p]
             PROVE  \/ asking'[p].outcome = "none" /\ asking[p].pc # "waiting"
                    \/ asking'[p] = NotAsking
                    \/ /\ asking[p].pc = "posting" /\ asking'[p].pc = "waiting"
                       /\ asking'[p].outcome = asking[p].outcome
                    \/ Settles(p)
                    \/ TimesOut(p)
  OBVIOUS
<1>2. ASSUME NEW w \in Proc, Ring(w)
      PROVE  /\ asking[p].pc = "posting" /\ asking'[p].pc = "waiting"
             /\ asking'[p].outcome = asking[p].outcome
  <2>1. /\ asking[w].pc = "posting"
        /\ asking' = [asking EXCEPT ![w].pc = "waiting", ![w].row = loop[w].row,
                                    ![w].seq = memory[loop[w].row].seq]
    BY <1>2 DEF Ring
  <2> QED
    BY <1>1, <2>1 DEF AskState
<1>3. ASSUME NEW w \in Proc, LowerBit(w) PROVE Settles(p)
  <2> DEFINE head == loop[w].head
             body == loop[w].body
             o    == IF head.kind = "reply" THEN "Done" ELSE "Failed"
  <2>1. Settle(w, head, body)
    BY <1>3 DEF LowerBit
  <2>2. /\ asking[w].pc = "waiting" /\ asking[w].corr = head.corr
        /\ asking' = [asking EXCEPT ![w].pc = "over", ![w].value = body.corr, ![w].outcome = o]
    BY <2>1 DEF Settle
  <2>3. o \in {"Done", "Failed"}
    OBVIOUS
  <2> HIDE DEF head, body, o
  <2>4. p = w
    BY <1>1, <2>2
  <2>5. /\ asking'[p].pc = "over" /\ asking'[p].value = body.corr /\ asking'[p].outcome = o
        /\ asking'[p].row = asking[p].row /\ asking'[p].corr = asking[p].corr
    BY <1>1, <2>2, <2>4 DEF AskState
  <2> QED
    BY <1>3, <2>2, <2>3, <2>4, <2>5 DEF Settles, head, body
<1>4. ASSUME NEW w \in Proc, AskTimesOut(w) PROVE TimesOut(p)
  <2> DEFINE o == TimeoutVerdict(memory[asking[w].row], asking[w].seq)
  <2>1. /\ asking[w].pc = "waiting"
        /\ asking' = [asking EXCEPT ![w].pc = "over", ![w].outcome = o]
    BY <1>4 DEF AskTimesOut
  <2> HIDE DEF o
  <2>2. p = w
    BY <1>1, <2>1
  <2>3. asking'[p].pc = "over" /\ asking'[p].outcome = o
    BY <1>1, <2>1, <2>2 DEF AskState
  <2> QED
    BY <1>4, <2>1, <2>2, <2>3 DEF TimesOut, o
<1>5. ASSUME NEW w \in Proc, NEW c \in Channel, NEW how \in Posts, Post(w, c, how)
      PROVE  asking'[p].outcome = "none" /\ asking[p].pc # "waiting"
  <2> DEFINE a == [NotAsking EXCEPT !.pc = "posting", !.corr = <<w, posted[w] + 1>>]
  <2>1. asking[w].pc \in {"none", "over"} /\ asking' = [asking EXCEPT ![w] = a]
    BY <1>5 DEF Post
  <2>2. a.outcome = "none"
    BY DEF NotAsking
  <2> HIDE DEF a
  <2> QED
    BY <1>1, <2>1, <2>2
<1>6. ASSUME NEW w \in Proc, CrashAndRespawn(w) PROVE asking'[p] = NotAsking
  BY <1>1, <1>6 DEF CrashAndRespawn
<1>7. ASSUME NEW w \in Proc,
             \/ LoopStep(w) /\ ~Ring(w) /\ ~LowerBit(w)
             \/ \E c \in Channel : PumpStep(w, c)
      PROVE  FALSE
  <2>1. UNCHANGED asking
    BY <1>7 DEF LoopStep, PumpStep, ClaimRow, CountMissed, Invalidate, TakeNumber, WriteBody, Complete,
                MarkUnread, NextRow, ReadHead, ReadBody, Acquire, Scan, HandlerReturns
  <2> QED
    BY <2>1
<1>8. asking' # asking
  OBVIOUS
<1> QED
  BY <1>2, <1>3, <1>4, <1>5, <1>6, <1>7, <1>8 DEF Next, vars, private

\* A reader that was lapped stays lapped.
LEMMA LappedStays ==
  ASSUME TypeInv, [Next]_vars, NEW r \in Proc
  PROVE  missed[r] \subseteq missed'[r]
<1>1. missed \in [Proc -> SUBSET Channel]
  BY DEF TypeInv, TypeOK
<1>2. \/ UNCHANGED missed
      \/ \E w \in Proc : missed' = [missed EXCEPT ![Least(loop[w].readers)] = @ \cup {loop[w].ch}]
  <2>1. ASSUME NEW w \in Proc, CountMissed(w)
        PROVE  missed' = [missed EXCEPT ![Least(loop[w].readers)] = @ \cup {loop[w].ch}]
    BY <2>1 DEF CountMissed
  <2>2. ASSUME NEW w \in Proc, LoopStep(w), ~CountMissed(w) PROVE UNCHANGED missed
    BY <2>2 DEF LoopStep, ClaimRow, Invalidate, TakeNumber, WriteBody, Complete, MarkUnread, Ring,
                NextRow, ReadHead, ReadBody, LowerBit, shared
  <2>3. ASSUME NEW w \in Proc, NEW c \in Channel,
               PumpStep(w, c) \/ \E how \in Posts : Post(w, c, how)
        PROVE  UNCHANGED missed
    BY <2>3 DEF PumpStep, Acquire, Scan, HandlerReturns, Post, shared
  <2>4. ASSUME NEW w \in Proc, AskTimesOut(w) \/ CrashAndRespawn(w) PROVE UNCHANGED missed
    BY <2>4 DEF AskTimesOut, CrashAndRespawn, shared
  <2>5. CASE UNCHANGED vars
    BY <2>5 DEF vars, shared
  <2> QED
    BY <2>1, <2>2, <2>3, <2>4, <2>5 DEF Next
<1> QED
  BY <1>1, <1>2

\* What a reader that was not lapped settles is the reply to the question: its
\* head and its payload are of one row.
LEMMA SettlesOwn ==
  ASSUME ContractInv, AskInv, NEW p \in Proc, Settles(p), asking[p].row.ch \notin missed[p]
  PROVE  asking'[p].value = asking'[p].corr
<1>1. TypeInv /\ Reading(p) /\ Asker(p) /\ Asks(p)
  BY DEF ContractInv, BitInv, ReadersInv, ReaderOK, AskInv, Settles, Asks
<1>2. loop[p].pc = "lower" /\ loop[p].ch \in Channel
  BY <1>1, AtRow DEF Settles, LowerBit
<1>3. Carries(asking[p].corr, loop[p].ch)
  BY <1>2 DEF Settles, Carries, OnLoop
<1>4. loop[p].ch = asking[p].row.ch
  BY <1>1, <1>2, <1>3 DEF Asker, OnlyThere, AskChannel, Settles
<1>5. loop[p].head = loop[p].body
  BY <1>1, <1>2, <1>4 DEF Reading, ReadingPC
<1> QED
  BY <1>5 DEF Settles

AnswerInv == ContractInv /\ AskInv /\ Open /\ AnswersItsQuestion

\* Nobody has an outcome at the start.
LEMMA InitAnswerInv == Init => AnswerInv
<1> SUFFICES ASSUME Init PROVE AnswerInv
  OBVIOUS
<1>1. \A p \in Proc : asking[p].outcome = "none"
  BY DEF Init, NotAsking
<1> QED
  BY <1>1, InitContract, InitAskInv DEF AnswerInv, Open, AnswersItsQuestion

\* Every step keeps open questions without outcome, and answers to their
\* question.
LEMMA NextAnswerInv ==
  ASSUME ~RacyUpdates, AnswerInv, [Next]_vars
  PROVE  AnswerInv'
<1>1. ContractInv' /\ AskInv'
  BY NextContractInv, NextAskInv DEF AnswerInv
<1>2. TypeInv
  BY DEF AnswerInv, ContractInv, BitInv
<1>3. ASSUME NEW p \in Proc
      PROVE  /\ Asks(p)' => asking'[p].outcome = "none"
             /\ asking'[p].outcome \in {"Done", "Failed"} /\ asking'[p].row.ch \notin missed'[p]
                  => asking'[p].value = asking'[p].corr
  <2>1. missed[p] \subseteq missed'[p]
    BY <1>2, LappedStays
  <2>2. CASE asking'[p] = asking[p]
    BY <2>1, <2>2 DEF AnswerInv, Open, AnswersItsQuestion, Asks
  <2>3. CASE asking'[p].outcome = "none"
    BY <2>3
  <2>4. CASE asking'[p] = NotAsking
    BY <2>4 DEF NotAsking
  <2>5. CASE asking[p].pc = "posting" /\ asking'[p].outcome = asking[p].outcome
    BY <2>5 DEF AnswerInv, Open, Asks
  <2>6. CASE Settles(p)
    BY <2>1, <2>6, SettlesOwn DEF AnswerInv, Settles, Asks
  <2>7. CASE TimesOut(p)
    BY <2>7 DEF TimesOut, TimeoutVerdict, Asks
  <2> QED
    BY <1>2, <2>2, <2>3, <2>4, <2>5, <2>6, <2>7, AskingDoes
<1> QED
  BY <1>1, <1>3 DEF AnswerInv, Open, AnswersItsQuestion

\* ask() returns the answer to its own question, for every number of processes
\* and rows, unless the asker was lapped on the channel and as long as updates
\* of shared memory do not collide.
THEOREM LinkAnswers == ~RacyUpdates => (Spec => []AnswersItsQuestion)
<1> SUFFICES ASSUME ~RacyUpdates PROVE Spec => []AnswersItsQuestion
  OBVIOUS
<1>1. Init => AnswerInv
  BY InitAnswerInv
<1>2. AnswerInv /\ [Next]_vars => AnswerInv'
  BY NextAnswerInv
<1>3. AnswerInv => AnswersItsQuestion
  BY DEF AnswerInv
<1> QED
  BY <1>1, <1>2, <1>3, PTL DEF Spec

\* ask() concludes NoOwner only of a request that nobody took: the row that still
\* has the number of the question has no mark, and whoever took the question
\* would have left it there.
THEOREM LinkNoOwner == ~RacyUpdates => (Spec => NoOwnerIsHonest)
<1> SUFFICES ASSUME ~RacyUpdates PROVE Spec => NoOwnerIsHonest
  OBVIOUS
<1> DEFINE Honest == \A p \in Proc :
                       asking[p].pc = "waiting" /\ asking'[p].outcome = "NoOwner"
                         => \/ asking[p].corr \notin answered
                            \/ \E r \in Proc : asking[p].row.ch \in missed[r]
<1>1. Init => AnswerInv
  BY InitAnswerInv
<1>2. AnswerInv /\ [Next]_vars => AnswerInv'
  BY NextAnswerInv
<1>3. AnswerInv /\ [Next]_vars => Honest
  <2> SUFFICES ASSUME AnswerInv, [Next]_vars, NEW p \in Proc, asking[p].pc = "waiting",
                      asking'[p].outcome = "NoOwner", asking[p].corr \in answered,
                      \A r \in Proc : asking[p].row.ch \notin missed[r]
               PROVE  FALSE
    OBVIOUS
  <2>1. TypeInv /\ Asks(p) /\ asking[p].outcome = "none" /\ Traced(p)
    BY DEF AnswerInv, ContractInv, BitInv, Open, AskInv, Asker, Asks
  <2>2. TimesOut(p)
    BY <2>1, AskingDoes DEF Settles, NotAsking
  <2>3. memory[asking[p].row].seq = asking[p].seq /\ memory[asking[p].row].taker = NoTaker
    BY <2>2 DEF TimesOut, TimeoutVerdict
  <2> QED
    BY <2>1, <2>3 DEF Traced, NobodyLapped, AskChannel, AskRow, IsStill
<1> QED
  BY <1>1, <1>2, <1>3, PTL DEF Spec, NoOwnerIsHonest
=============================================================================
