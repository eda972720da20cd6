---------------------------- MODULE ProcessLink ----------------------------
(***************************************************************************)
(* The inter-process bus of xime/core/link: one table of rows per channel  *)
(* in shared memory.  Every process owns RowsPerWriter rows of each table  *)
(* and overwrites them in a circle; every reader has one unread bit per    *)
(* row; every process has one counting semaphore, its bell, on which the   *)
(* pumps of all its channels sleep.                                        *)
(*                                                                         *)
(* Each process has one event loop.  Code between two awaits runs alone in *)
(* its own process but interleaves with the other processes at every       *)
(* access to shared memory, so `loop' holds the program counter of that    *)
(* code and each action below is one shared access.  RacyUpdates tells     *)
(* whether a read-modify-write of shared memory (buf[i] |= m, buf[i] &= m, *)
(* counter + 1) is a load and a store, which is what the code executes, or *)
(* one step, which separates what the protocol guarantees from what        *)
(* colliding updates break.                                                *)
(***************************************************************************)
EXTENDS Integers, Sequences, FiniteSets

CONSTANTS
  ProcessCount,   \* processes attached to the bus, numbered from 0
  RowsPerWriter,  \* ChannelSpec.rows
  Channel,        \* the configured channels
  HandlerKind,    \* HandlerKind[p][c]: "none", "announce" or "request"
  Verdicts,       \* what a request handler may end with
  Posts,          \* what the application may post: "announce", "send", "ask"
  MaxPosts,       \* bound: MaxPosts[p] messages posted by the application of p
  MaxCrashes,     \* bound: crashes followed by a respawn, over the behaviour
  RacyUpdates     \* is a read-modify-write two accesses?

Proc == 0 .. ProcessCount - 1
Slot == 0 .. RowsPerWriter - 1
Row  == [ch : Channel, owner : Proc, slot : Slot]

NoCorr == <<-1, 0>>
Corr   == (Proc \X (Nat \ {0})) \cup {NoCorr}
Kind   == {"announce", "request", "reply", "failure"}
NoMsg  == [from |-> -1, n |-> 0, kind |-> "none", corr |-> NoCorr]
Msg    == [from : Proc \cup {-1}, n : Nat, kind : Kind \cup {"none"}, corr : Corr]

NoTaker == 255
NoRow   == [ch |-> "none", owner |-> -1, slot |-> -1]

ASSUME LinkAssumption ==
  /\ ProcessCount \in 1 .. 255
  /\ RowsPerWriter \in Nat \ {0}
  /\ HandlerKind \in [Proc -> [Channel -> {"none", "announce", "request"}]]
  /\ Verdicts \subseteq {"answered", "oversized", "skipped", "failed", "error"}
  /\ Posts \subseteq {"announce", "send", "ask"}
  /\ MaxPosts \in [Proc -> Nat]
  /\ MaxCrashes \in Nat
  /\ RacyUpdates \in BOOLEAN

VARIABLES
  \* shared memory and semaphores
  memory,     \* memory[row]: the row header and payload
  unread,     \* unread[r]: the rows whose bit is set in the bands of reader r
  missed,     \* missed[r]: the channels on which r's missed counter is not 0
  counter,    \* counter[c]: the shared sequence counter of channel c
  bell,       \* bell[p]: the value of p's semaphore
  \* private memory of a process
  cursor,     \* cursor[p][c]: the next slot p writes in c
  loop,       \* loop[p]: the code running on p's event loop
  pump,       \* pump[p][c]: the task that serves channel c
  asking,     \* asking[p]: the ask() in progress in p
  \* history
  posted,     \* posted[p]: messages p has published so far
  delivered,  \* delivered[r]: what r took out of rows, in order
  answered,   \* questions whose taker byte was written
  crashes     \* crashes so far

shared  == <<memory, unread, missed, counter, bell>>
private == <<cursor, loop, pump, asking>>
history == <<posted, delivered, answered, crashes>>
vars    == <<shared, private, history>>

Free ==
  [pc |-> "free", ch |-> "none", row |-> NoRow, head |-> NoMsg,
   body |-> NoMsg, seq |-> 0, readers |-> {}, byte |-> {}, loaded |-> FALSE,
   reply |-> FALSE]
Asleep == [pc |-> "asleep", todo |-> {}, row |-> NoRow, head |-> NoMsg, body |-> NoMsg]
NotAsking ==
  [pc |-> "none", corr |-> NoCorr, row |-> NoRow, seq |-> 0, outcome |-> "none",
   value |-> NoCorr]

Init ==
  /\ memory = [row \in Row |->
                 [seq |-> 0, head |-> NoMsg, body |-> NoMsg,
                  complete |-> FALSE, taker |-> 0]]
  /\ unread = [r \in Proc |-> {}]
  /\ missed = [r \in Proc |-> {}]
  /\ counter = [c \in Channel |-> 0]
  /\ bell = [p \in Proc |-> 0]
  /\ cursor = [p \in Proc |-> [c \in Channel |-> 0]]
  /\ loop = [p \in Proc |-> Free]
  /\ pump = [p \in Proc |-> [c \in Channel |-> Asleep]]
  /\ asking = [p \in Proc |-> NotAsking]
  /\ posted = [p \in Proc |-> 0]
  /\ delivered = [p \in Proc |-> <<>>]
  /\ answered = {}
  /\ crashes = 0
-----------------------------------------------------------------------------
(* Bitmap *)

\* Position of a row in a band, and the rows of the band that share its byte.
RowIndex(row) == row.owner * RowsPerWriter + row.slot
ByteOf(row)   == {x \in Row : x.ch = row.ch /\ RowIndex(x) \div 8 = RowIndex(row) \div 8}

\* The band of reader r after p sets or clears the bit of `row'.  A racy update
\* writes back the byte that p loaded earlier.
Loaded(p, r, row)  == IF RacyUpdates THEN loop[p].byte ELSE unread[r] \cap ByteOf(row)
Raised(p, r, row)  == (unread[r] \ ByteOf(row)) \cup Loaded(p, r, row) \cup {row}
Lowered(p, r, row) == (unread[r] \ ByteOf(row)) \cup (Loaded(p, r, row) \ {row})

\* The load half of a racy update of reader r's band by the code of p.
LoadByte(p, r) ==
  /\ RacyUpdates
  /\ ~loop[p].loaded
  /\ loop' = [loop EXCEPT ![p].loaded = TRUE,
                          ![p].byte = unread[r] \cap ByteOf(loop[p].row)]
ReadyToStore(p) == RacyUpdates => loop[p].loaded

Least(S) == CHOOSE x \in S : \A y \in S : x <= y
Others(p) == Proc \ {p}
-----------------------------------------------------------------------------
(* Publishing: one synchronous run of the event loop *)

Publishing(p, c, m, isReply) ==
  [Free EXCEPT !.pc = "claim", !.ch = c, !.head = m, !.body = m, !.reply = isReply]

\* announce(), send() and ask() start a publication.
Post(p, c, how) ==
  /\ loop[p].pc = "free"
  /\ posted[p] < MaxPosts[p]
  /\ how = "ask" => asking[p].pc \in {"none", "over"}
  /\ LET id == <<p, posted[p] + 1>>
         m  == [from |-> p, n |-> posted[p] + 1,
                kind |-> IF how = "announce" THEN "announce" ELSE "request",
                corr |-> IF how = "ask" THEN id ELSE NoCorr]
     IN  /\ loop' = [loop EXCEPT ![p] = Publishing(p, c, m, FALSE)]
         /\ asking' = IF how = "ask"
                      THEN [asking EXCEPT ![p] = [NotAsking EXCEPT !.pc = "posting", !.corr = id]]
                      ELSE asking
  /\ posted' = [posted EXCEPT ![p] = @ + 1]
  /\ UNCHANGED <<shared, cursor, pump, delivered, answered, crashes>>

NextCursorNoWrap(k) == k + 1                    \* mutant: never goes round
NextCursor(k) == (k + 1) % RowsPerWriter

StaleIgnored(row) == {}                         \* mutant: overwrites unseen
Stale(row) == {r \in Proc : row \in unread[r]}  \* any_unread

\* _claim_row: take the next slot of our region, going round.
ClaimRow(p) ==
  /\ loop[p].pc = "claim"
  /\ LET c   == loop[p].ch
         row == [ch |-> c, owner |-> p, slot |-> cursor[p][c]]
     IN  /\ cursor' = [cursor EXCEPT ![p][c] = NextCursor(@)]
         /\ loop' = [loop EXCEPT ![p].row = row, ![p].readers = Stale(row),
                                 ![p].pc = IF Stale(row) = {} THEN "invalidate" ELSE "lap"]
  /\ UNCHANGED <<shared, pump, asking, history>>

\* _claim_row: a reader that has not read the old row is told it missed it.
CountMissed(p) ==
  /\ loop[p].pc = "lap"
  /\ LET r    == Least(loop[p].readers)
         rest == loop[p].readers \ {r}
     IN  \/ /\ LoadByte(p, r)
            /\ missed' = [missed EXCEPT ![r] = @ \cup {loop[p].ch}]
            /\ UNCHANGED unread
         \/ /\ ReadyToStore(p)
            /\ missed' = [missed EXCEPT ![r] = @ \cup {loop[p].ch}]
            /\ unread' = [unread EXCEPT ![r] = Lowered(p, r, loop[p].row)]
            /\ loop' = [loop EXCEPT ![p].readers = rest, ![p].byte = {}, ![p].loaded = FALSE,
                                    ![p].pc = IF rest = {} THEN "invalidate" ELSE "lap"]
  /\ UNCHANGED <<memory, counter, bell, cursor, pump, asking, history>>

Invalidate(p) ==
  /\ loop[p].pc = "invalidate"
  /\ memory' = [memory EXCEPT ![loop[p].row].complete = FALSE]
  /\ loop' = [loop EXCEPT ![p].pc = "number"]
  /\ UNCHANGED <<unread, missed, counter, bell, cursor, pump, asking, history>>

\* next_sequence, then the fields up to the key.
TakeNumber(p) ==
  /\ loop[p].pc = "number"
  /\ \/ /\ RacyUpdates /\ ~loop[p].loaded
        /\ loop' = [loop EXCEPT ![p].loaded = TRUE, ![p].seq = counter[loop[p].ch] + 1]
        /\ UNCHANGED <<memory, counter>>
     \/ /\ ReadyToStore(p)
        /\ LET c == loop[p].ch
               n == IF RacyUpdates THEN loop[p].seq ELSE counter[c] + 1
           IN  /\ counter' = [counter EXCEPT ![c] = n]
               /\ memory' = [memory EXCEPT ![loop[p].row].seq = n,
                                           ![loop[p].row].head = loop[p].head]
               /\ loop' = [loop EXCEPT ![p].pc = "body", ![p].seq = n, ![p].loaded = FALSE]
  /\ UNCHANGED <<unread, missed, bell, cursor, pump, asking, history>>

\* payload, length, kind, taker, sender
WriteBody(p) ==
  /\ loop[p].pc = "body"
  /\ memory' = [memory EXCEPT ![loop[p].row].body = loop[p].body,
                              ![loop[p].row].taker = NoTaker]
  /\ loop' = [loop EXCEPT ![p].pc = "complete"]
  /\ UNCHANGED <<unread, missed, counter, bell, cursor, pump, asking, history>>

Complete(p) ==
  /\ loop[p].pc = "complete"
  /\ memory' = [memory EXCEPT ![loop[p].row].complete = TRUE]
  /\ loop' = [loop EXCEPT ![p].readers = Others(p),
                          ![p].pc = IF Others(p) = {} THEN "ring" ELSE "mark"]
  /\ UNCHANGED <<unread, missed, counter, bell, cursor, pump, asking, history>>

\* set_bit for every other process, in ascending order.
MarkUnread(p) ==
  /\ loop[p].pc = "mark"
  /\ LET r    == Least(loop[p].readers)
         rest == loop[p].readers \ {r}
     IN  \/ /\ LoadByte(p, r)
            /\ UNCHANGED unread
         \/ /\ ReadyToStore(p)
            /\ unread' = [unread EXCEPT ![r] = Raised(p, r, loop[p].row)]
            /\ loop' = [loop EXCEPT ![p].readers = rest, ![p].byte = {}, ![p].loaded = FALSE,
                                    ![p].pc = IF rest = {} THEN "ring" ELSE "mark"]
  /\ UNCHANGED <<memory, missed, counter, bell, cursor, pump, asking, history>>

RungUnlessReply(p) ==                           \* mutant: replies do not ring
  [r \in Proc |-> IF r = p \/ loop[p].reply THEN bell[r] ELSE bell[r] + 1]
Rung(p) == [r \in Proc |-> IF r = p THEN bell[r] ELSE bell[r] + 1]

\* Ring every other bell; then the caller goes on: a pump that sent a reply
\* looks at its next row, ask() remembers its row and starts to wait.
Ring(p) ==
  /\ loop[p].pc = "ring"
  /\ bell' = Rung(p)
  /\ loop' = [loop EXCEPT ![p] = IF loop[p].reply
                                 THEN [Free EXCEPT !.pc = "next", !.ch = loop[p].ch]
                                 ELSE Free]
  /\ asking' = IF ~loop[p].reply /\ asking[p].pc = "posting"
               THEN [asking EXCEPT ![p].pc = "waiting", ![p].row = loop[p].row,
                                   ![p].seq = memory[loop[p].row].seq]
               ELSE asking
  /\ UNCHANGED <<memory, unread, missed, counter, cursor, pump, history>>
-----------------------------------------------------------------------------
(* Reading *)

\* The thread of a pump gets the semaphore.
Acquire(p, c) ==
  /\ pump[p][c].pc = "asleep"
  /\ bell[p] > 0
  /\ bell' = [bell EXCEPT ![p] = @ - 1]
  /\ pump' = [pump EXCEPT ![p][c].pc = "awake"]
  /\ UNCHANGED <<memory, unread, missed, counter, cursor, loop, asking, history>>

\* _drain: a snapshot of the unread rows of the channel and of their numbers.
Scan(p, c) ==
  /\ pump[p][c].pc = "awake"
  /\ loop[p].pc = "free"
  /\ LET todo == {[row |-> row, seq |-> memory[row].seq] :
                    row \in {x \in unread[p] : x.ch = c}}
     IN  IF todo = {}
         THEN /\ pump' = [pump EXCEPT ![p][c] = Asleep]
              /\ UNCHANGED loop
         ELSE /\ pump' = [pump EXCEPT ![p][c] = [Asleep EXCEPT !.pc = "draining", !.todo = todo]]
              /\ loop' = [loop EXCEPT ![p] = [Free EXCEPT !.pc = "next", !.ch = c]]
  /\ UNCHANGED <<shared, cursor, asking, history>>

EarlierRow(a, b) == RowIndex(a.row) <= RowIndex(b.row)  \* mutant: not by number
Earlier(a, b) ==
  \/ a.seq < b.seq
  \/ a.seq = b.seq /\ RowIndex(a.row) <= RowIndex(b.row)

\* _drain: the next row of the snapshot, or back to sleep.
NextRow(p) ==
  /\ loop[p].pc = "next"
  /\ LET c    == loop[p].ch
         todo == pump[p][c].todo
     IN  \/ /\ todo = {}
            /\ pump' = [pump EXCEPT ![p][c] = Asleep]
            /\ loop' = [loop EXCEPT ![p] = Free]
         \/ \E item \in todo :
              /\ \A other \in todo : Earlier(item, other)
              /\ pump' = [pump EXCEPT ![p][c].todo = todo \ {item}]
              /\ loop' = IF memory[item.row].complete
                         THEN [loop EXCEPT ![p].pc = "head", ![p].row = item.row]
                         ELSE loop
  /\ UNCHANGED <<shared, cursor, asking, history>>

\* _consume reads the kind, the key and the correlation, then the payload and
\* the sender; it goes by the kind of the first read.
ReadHead(p) ==
  /\ loop[p].pc = "head"
  /\ LET row == memory[loop[p].row]
     IN  loop' = [loop EXCEPT ![p].head = [row.head EXCEPT !.kind = row.body.kind],
                              ![p].pc = "rest"]
  /\ UNCHANGED <<shared, cursor, pump, asking, history>>

ReadBody(p) ==
  /\ loop[p].pc = "rest"
  /\ loop' = [loop EXCEPT ![p].body = memory[loop[p].row].body, ![p].pc = "lower"]
  /\ UNCHANGED <<shared, cursor, pump, asking, history>>

SettleAny(p, head, body) ==                     \* mutant: any pending future
  IF asking[p].pc = "waiting"
  THEN asking' = [asking EXCEPT ![p].pc = "over", ![p].value = body.corr,
                                ![p].outcome = IF head.kind = "reply" THEN "Done" ELSE "Failed"]
  ELSE UNCHANGED asking

\* _settle: a reply resolves the pending future it correlates with.
Settle(p, head, body) ==
  IF asking[p].pc = "waiting" /\ asking[p].corr = head.corr
  THEN asking' = [asking EXCEPT ![p].pc = "over", ![p].value = body.corr,
                                ![p].outcome = IF head.kind = "reply" THEN "Done" ELSE "Failed"]
  ELSE UNCHANGED asking

\* _consume: the bit goes down first; then a reply is settled, a row of a
\* channel without handler is dropped, and any other row starts the handler.
LowerBit(p) ==
  /\ loop[p].pc = "lower"
  /\ LET c    == loop[p].ch
         row  == loop[p].row
         head == loop[p].head
         body == loop[p].body
         goOn == [Free EXCEPT !.pc = "next", !.ch = c]
     IN  \/ /\ LoadByte(p, p)
            /\ UNCHANGED <<unread, pump, asking, delivered>>
         \/ /\ ReadyToStore(p)
            /\ unread' = [unread EXCEPT ![p] = Lowered(p, p, row)]
            /\ delivered' = [delivered EXCEPT ![p] = Append(@, [ch |-> c, head |-> head, body |-> body])]
            /\ \/ /\ head.kind \in {"reply", "failure"}
                  /\ Settle(p, head, body)
                  /\ loop' = [loop EXCEPT ![p] = goOn]
                  /\ UNCHANGED pump
               \/ /\ head.kind \notin {"reply", "failure"}
                  /\ HandlerKind[p][c] = "none"
                  /\ loop' = [loop EXCEPT ![p] = goOn]
                  /\ UNCHANGED <<pump, asking>>
               \/ /\ head.kind \notin {"reply", "failure"}
                  /\ HandlerKind[p][c] # "none"
                  /\ loop' = [loop EXCEPT ![p] = Free]
                  /\ pump' = [pump EXCEPT ![p][c] =
                                 [@ EXCEPT !.pc = "handling", !.row = row, !.head = head, !.body = body]]
                  /\ UNCHANGED asking
  /\ UNCHANGED <<memory, missed, counter, bell, cursor, posted, answered, crashes>>

\* What the handler of channel c in p may end with (_invoke): an announce
\* handler never answers, a result that is not bytes raises LinkError ("error"),
\* and so does an answer larger than the channel's payload ("oversized").
Outcomes(p, c) ==
  IF HandlerKind[p][c] = "request" THEN Verdicts ELSE Verdicts \cap {"skipped", "failed"}

\* _consume after the handler returned: the taker byte on the sender's row and
\* the reply or the failure, when the message was a request that wants one.
\* LinkError leaves _drain: the pump sleeps with the rest of its snapshot unread.
HandlerReturns(p, c, verdict) ==
  /\ pump[p][c].pc = "handling"
  /\ loop[p].pc = "free"
  /\ LET row    == pump[p][c].row
         corr   == pump[p][c].head.corr
         isReq  == pump[p][c].head.kind = "request"
         wants  == isReq /\ corr # NoCorr
         takes  == isReq /\ (verdict \in {"answered", "oversized"} \/ (verdict = "failed" /\ wants))
         aborts == verdict = "error" \/ (verdict = "oversized" /\ wants)
         replies == takes /\ wants /\ ~aborts
         m == [from |-> p, n |-> posted[p] + 1, corr |-> corr,
               kind |-> IF verdict = "answered" THEN "reply" ELSE "failure"]
     IN  /\ memory' = IF takes THEN [memory EXCEPT ![row].taker = p] ELSE memory
         /\ answered' = IF takes THEN answered \cup {pump[p][c].head.corr} ELSE answered
         /\ IF aborts
            THEN /\ pump' = [pump EXCEPT ![p][c] = Asleep]
                 /\ UNCHANGED <<loop, posted>>
            ELSE /\ pump' = [pump EXCEPT ![p][c] = [Asleep EXCEPT !.pc = "draining", !.todo = pump[p][c].todo]]
                 /\ loop' = [loop EXCEPT ![p] = IF replies
                                                THEN Publishing(p, c, m, TRUE)
                                                ELSE [Free EXCEPT !.pc = "next", !.ch = c]]
                 /\ posted' = IF replies THEN [posted EXCEPT ![p] = @ + 1] ELSE posted
  /\ UNCHANGED <<unread, missed, counter, bell, cursor, asking, delivered, crashes>>

VerdictByTakerAlone(row, seq) ==                \* mutant: the row may be another
  IF row.taker # NoTaker THEN "NoAnswer" ELSE "NoOwner"

\* The taker byte of the row tells why nobody answered, as long as the row
\* still carries the number it was sent with.
TimeoutVerdict(row, seq) ==
  IF row.seq # seq \/ row.taker # NoTaker THEN "NoAnswer" ELSE "NoOwner"

\* ask() runs out of time.
AskTimesOut(p) ==
  /\ asking[p].pc = "waiting"
  /\ loop[p].pc = "free"
  /\ asking' = [asking EXCEPT ![p].pc = "over",
                   ![p].outcome = TimeoutVerdict(memory[asking[p].row], asking[p].seq)]
  /\ UNCHANGED <<shared, cursor, loop, pump, history>>
-----------------------------------------------------------------------------
\* A process dies between any two accesses and the supervisor respawns it with
\* the same index: shared memory stays, everything private starts afresh.
CrashAndRespawn(p) ==
  /\ crashes < MaxCrashes
  /\ crashes' = crashes + 1
  /\ cursor' = [cursor EXCEPT ![p] = [c \in Channel |-> 0]]
  /\ loop' = [loop EXCEPT ![p] = Free]
  /\ pump' = [pump EXCEPT ![p] = [c \in Channel |-> Asleep]]
  /\ asking' = [asking EXCEPT ![p] = NotAsking]
  /\ UNCHANGED <<shared, posted, delivered, answered>>

LoopStep(p) ==
  \/ ClaimRow(p) \/ CountMissed(p) \/ Invalidate(p) \/ TakeNumber(p)
  \/ WriteBody(p) \/ Complete(p) \/ MarkUnread(p) \/ Ring(p)
  \/ NextRow(p) \/ ReadHead(p) \/ ReadBody(p) \/ LowerBit(p)

PumpStep(p, c) ==
  \/ Acquire(p, c)
  \/ Scan(p, c)
  \/ \E v \in Outcomes(p, c) : HandlerReturns(p, c, v)

Next ==
  \E p \in Proc :
    \/ LoopStep(p)
    \/ \E c \in Channel : PumpStep(p, c) \/ (\E how \in Posts : Post(p, c, how))
    \/ AskTimesOut(p)
    \/ CrashAndRespawn(p)

Spec == Init /\ [][Next]_vars

\* The event loop runs what is ready, pumps get the semaphore when it can be
\* had, and handlers return.  Nothing forces anyone to post or to time out.
Fairness ==
  \A p \in Proc :
    /\ WF_vars(LoopStep(p))
    /\ \A c \in Channel : WF_vars(PumpStep(p, c))

FairSpec == Spec /\ Fairness
-----------------------------------------------------------------------------
PublishPC == {"claim", "lap", "invalidate", "number", "body", "complete", "mark", "ring"}
LoopPC == PublishPC \cup {"free", "next", "head", "rest", "lower"}
RowData == [seq : Nat, head : Msg, body : Msg, complete : BOOLEAN, taker : 0 .. 255]
LoopState == [pc : LoopPC, ch : Channel \cup {"none"}, row : Row \cup {NoRow},
              head : Msg, body : Msg, seq : Nat, readers : SUBSET Proc,
              byte : SUBSET Row, loaded : BOOLEAN, reply : BOOLEAN]
PumpState == [pc : {"asleep", "awake", "draining", "handling"},
              todo : SUBSET [row : Row, seq : Nat], row : Row \cup {NoRow},
              head : Msg, body : Msg]
AskState == [pc : {"none", "posting", "waiting", "over"}, corr : Corr,
             row : Row \cup {NoRow}, seq : Nat, value : Corr,
             outcome : {"none", "Done", "Failed", "NoOwner", "NoAnswer"}]

\* Every variable keeps the shape its readers in _link.py rely on.
TypeOK ==
  /\ memory \in [Row -> RowData]
  /\ unread \in [Proc -> SUBSET Row]
  /\ missed \in [Proc -> SUBSET Channel]
  /\ counter \in [Channel -> Nat]
  /\ bell \in [Proc -> Nat]
  /\ cursor \in [Proc -> [Channel -> Slot]]
  /\ loop \in [Proc -> LoopState]
  /\ pump \in [Proc -> [Channel -> PumpState]]
  /\ asking \in [Proc -> AskState]
  /\ posted \in [Proc -> Nat]
  /\ delivered \in [Proc -> Seq([ch : Channel, head : Msg, body : Msg])]
  /\ answered \subseteq Corr
  /\ crashes \in Nat

\* The refinement mapping: what a reader is owed is what its bits point at.
Owed(r) == {[ch |-> row.ch, msg |-> memory[row].body] :
              row \in {x \in unread[r] : x.ch \notin missed[r]}}
Contract ==
  INSTANCE LinkContract WITH Reader <- Proc, lapped <- missed,
                             owed <- [r \in Proc |-> Owed(r)]

\* The bus keeps its contract with every reader (at-most-once, in the order of
\* the sender, whole messages, no loss that `missed' does not tell), also when
\* rows are overwritten and processes die, as long as updates do not collide.
KeepsContract == Contract!Spec

\* A pump never sleeps on mail: when a row of its channel is unread and the pump
\* waits for the bell, the bell has a token or a writer is on its way to ring
\* (_publish: "always ring ... too few and the reader sleeps on").
NeverAsleepOnMail ==
  \A p \in Proc, c \in Channel :
    (pump[p][c].pc = "asleep" /\ \E row \in unread[p] : row.ch = c)
      => \/ bell[p] > 0
         \/ \E w \in Others(p) : loop[w].ch = c /\ loop[w].pc \in PublishPC

\* Every unread bit is lowered in the end, by its reader or by a writer that
\* overwrites the row, whatever a handler of the channel ends with.
EveryBitIsLowered ==
  \A p \in Proc, row \in Row : row \in unread[p] ~> row \notin unread[p]

\* ask() returns the answer to its own question, never that to another one,
\* unless the asker was lapped on the channel.
AnswersItsQuestion ==
  \A p \in Proc :
    asking[p].outcome \in {"Done", "Failed"} /\ asking[p].row.ch \notin missed[p]
      => asking[p].value = asking[p].corr

\* ask() concludes NoOwner only when no process has taken the request (the
\* caller stops retrying then), unless a reader was lapped on the channel.
NoOwnerIsHonest ==
  [][\A p \in Proc :
       asking[p].pc = "waiting" /\ asking'[p].outcome = "NoOwner"
         => \/ asking[p].corr \notin answered
            \/ \E r \in Proc : asking[p].row.ch \in missed[r]]_vars

\* Messages of one writer on one channel are handled in the order they were
\* sent (process-link.md: "messages within it run in order").
RunInOrder ==
  \A r \in Proc : \A i, j \in DOMAIN delivered[r] :
    LET x == delivered[r][i]
        y == delivered[r][j]
    IN  (i < j /\ x.ch = y.ch /\ x.body.from = y.body.from) => x.body.n <= y.body.n

\* Only complete rows are marked unread: a writer that dies between two writes
\* leaves no bit on a half-written row (_publish: "the order is a contract").
BitMeansComplete ==
  \A r \in Proc : \A row \in unread[r] : memory[row].complete
=============================================================================
