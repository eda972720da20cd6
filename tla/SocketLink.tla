----------------------------- MODULE SocketLink -----------------------------
(***************************************************************************)
(* One connection of the Unix socket adapter: adapters/socket/_adapter.py  *)
(* and _session.py at the serving end, _client.py at the other.  A read    *)
(* loop at each end multiplexes commands, uploads and downloads by session *)
(* id; the server's loop awaits the bounded queue of an upload, its        *)
(* handlers run in tasks of their own and a reaper cancels idle sessions.  *)
(* Ids are never reused, as the client counts them up.                     *)
(***************************************************************************)
EXTENDS Naturals, Sequences, FiniteSets

CONSTANTS
  Commands, Uploads, Downloads,  \* the sessions that the client opens
  QueueSize,                     \* recv_queue_size
  MaxOpen, MaxChunks             \* bounds: sessions opened, chunks of a stream

ASSUME SocketAssumption ==
  /\ QueueSize \in Nat \ {0} /\ MaxOpen \in Nat /\ MaxChunks \in Nat
  /\ Commands \intersect (Uploads \union Downloads) = {} /\ Uploads \intersect Downloads = {}

Sessions == Commands \union Uploads \union Downloads
Streams == Uploads \union Downloads

VARIABLES
  link,      \* "up" or "down"
  inbox,     \* frames for the server
  outbox,    \* frames for the client
  reader,    \* the server's read loop: "reads", "ended", or the frame it is putting
  sessions,  \* SessionManager._sessions
  handler,   \* handler[s]: the task of s at the server
  queue,     \* queue[s]: Session.queue
  taken,     \* taken[s]: chunks that the handler took from its queue
  expired,   \* sessions not active for longer than session_timeout
  reaped,    \* sessions that reap_expired has cancelled
  callStage,     \* callStage[s]: where the client is with s
  written,   \* written[s]: chunks sent in s, by the client or by the handler
  answer     \* answer[s]: what the future or the inbound queue of s holds

socketVars == <<link, inbox, outbox, reader, sessions, handler, queue, taken, expired,
                reaped, callStage, written, answer>>
serverVars == <<reader, sessions, handler, queue, taken, expired, reaped>>

Frame(kind, s) == [kind |-> kind, sid |-> s]
Reads == Frame("reads", "none")
Ended == Frame("ended", "none")

SocketInit ==
  /\ link = "up" /\ inbox = <<>> /\ outbox = <<>> /\ reader = Reads
  /\ sessions = {} /\ expired = {} /\ reaped = {}
  /\ handler = [s \in Sessions |-> "none"] /\ queue = [s \in Sessions |-> <<>>]
  /\ taken = [s \in Sessions |-> 0] /\ written = [s \in Sessions |-> 0]
  /\ callStage = [s \in Sessions |-> "new"] /\ answer = [s \in Sessions |-> "none"]
-----------------------------------------------------------------------------
(* The client.                                                             *)

\* A call of _send: it raises when the connection is lost, and the call is over.
Call(s, kind, next) ==
  /\ IF link = "up" THEN inbox' = Append(inbox, Frame(kind, s)) /\ callStage' = [callStage EXCEPT ![s] = next]
     ELSE callStage' = [callStage EXCEPT ![s] = "over"] /\ UNCHANGED inbox
  /\ UNCHANGED <<link, outbox, answer, serverVars>>

OpensSession(s) ==
  /\ callStage[s] = "new" /\ Cardinality({t \in Sessions : callStage[t] # "new"}) < MaxOpen
  /\ Call(s, IF s \in Commands THEN "command" ELSE "start",
             IF s \in Uploads THEN "writes" ELSE "waits")
  /\ UNCHANGED written

ClientWrites(s) ==
  /\ callStage[s] = "writes" /\ written[s] < MaxChunks
  /\ written' = [written EXCEPT ![s] = @ + 1]
  /\ \E kind \in {"chunk", "oversized"} : Call(s, kind, "writes")

Finishes(s) == callStage[s] = "writes" /\ Call(s, "end", "waits") /\ UNCHANGED written

\* __aexit__ with an exception: CANCEL, and nobody waits for the answer.
Aborts(s) == callStage[s] = "writes" /\ Call(s, "cancel", "over") /\ UNCHANGED written

\* The await of the answer ends; the reader of a download may also just leave.
CallReturns(s) ==
  /\ callStage[s] = "waits" /\ (answer[s] # "none" \/ s \in Downloads)
  /\ callStage' = [callStage EXCEPT ![s] = "over"]
  /\ UNCHANGED <<link, inbox, outbox, written, answer, serverVars>>

\* _read_loop: the first answer settles; a chunk of a download is queued.
ClientReads ==
  /\ outbox # <<>> /\ outbox' = Tail(outbox)
  /\ LET f == Head(outbox) IN
     answer' = IF f.kind # "chunk" /\ answer[f.sid] = "none" THEN [answer EXCEPT ![f.sid] = f.kind]
               ELSE answer
  /\ UNCHANGED <<link, inbox, callStage, written, serverVars>>

\* The end of the read loop: _fail_all, for whatever is pending.
FailAll == [s \in Sessions |-> IF answer[s] = "none" /\ callStage[s] # "new" THEN "error" ELSE answer[s]]
ClientSeesEnd ==
  /\ link = "down" /\ outbox = <<>> /\ answer' = FailAll /\ answer # FailAll
  /\ UNCHANGED <<link, inbox, outbox, callStage, written, serverVars>>

\* close(), or the loss of either process.
WireBreaks ==
  /\ link = "up" /\ link' = "down"
  /\ UNCHANGED <<inbox, outbox, callStage, written, answer, serverVars>>
-----------------------------------------------------------------------------
(* The server.                                                             *)

\* conn.send: a frame for a client that has gone is lost (the error is caught).
Sent(kind, s) == IF link = "up" THEN Append(outbox, Frame(kind, s)) ELSE outbox

HandlerAlive(s) == handler[s] \in {"runs", "whole"}

\* destroy(s), for each s of S
DestroySessions(S) ==
  /\ sessions' = sessions \ S /\ expired' = expired \ S
  /\ handler' = [s \in Sessions |-> IF s \in S \intersect sessions /\ HandlerAlive(s) THEN "cancelled"
                                    ELSE handler[s]]

Received == reader = Reads /\ inbox # <<>> /\ inbox' = Tail(inbox)

\* COMMAND_REQUEST and STREAM_START give the session a task.  A malformed envelope or
\* an endpoint that does not exist is answered with an error.
ServerOpens ==
  /\ Received
  /\ LET f == Head(inbox) IN
     /\ f.kind \in {"command", "start"}
     /\ \/ /\ handler' = [handler EXCEPT ![f.sid] = "runs"]
           /\ sessions' = IF f.kind = "start" THEN sessions \union {f.sid} ELSE sessions
           /\ UNCHANGED outbox
        \/ outbox' = Sent("error", f.sid) /\ UNCHANGED <<handler, sessions>>
  /\ UNCHANGED <<link, reader, queue, taken, expired, reaped, callStage, written, answer>>

\* await session.queue.put(...): done at once where the queue has room, and otherwise
\* the read loop waits with the frame.
PutFits(f) == Len(queue[f.sid]) < QueueSize
Queued(f) == [queue EXCEPT ![f.sid] = Append(@, f.kind)]
PutNewest(f) ==                                              \* mutant: drops the oldest
  /\ reader' = Reads
  /\ queue' = IF PutFits(f) THEN Queued(f) ELSE [queue EXCEPT ![f.sid] = Append(Tail(@), f.kind)]
PutUnbounded(f) == reader' = Reads /\ queue' = Queued(f)      \* mutant
Put(f) == IF PutFits(f) THEN reader' = Reads /\ queue' = Queued(f)
          ELSE reader' = f /\ UNCHANGED queue

\* STREAM_CHUNK and STREAM_END; a session that is gone ignores them.
ServerReceives ==
  /\ Received
  /\ LET f == Head(inbox) IN
     /\ f.kind \in {"chunk", "end"}
     /\ expired' = expired \ {f.sid}        \* sessions.get
     /\ IF f.sid \in sessions THEN Put(f) ELSE UNCHANGED <<reader, queue>>
  /\ UNCHANGED <<link, outbox, sessions, handler, taken, reaped, callStage, written, answer>>

ServerPuts ==
  /\ reader.kind \in {"chunk", "end"} /\ PutFits(reader) /\ Put(reader)
  /\ UNCHANGED <<link, inbox, outbox, sessions, handler, taken, expired, reaped, callStage, written, answer>>

\* A chunk over max_chunk_size is answered with TOO_LARGE, CANCEL with nothing.
ServerDestroys ==
  /\ Received
  /\ LET f == Head(inbox) IN
     /\ f.kind \in {"oversized", "cancel"} /\ DestroySessions({f.sid})
     /\ outbox' = IF f.kind = "oversized" /\ f.sid \in sessions THEN Sent("error", f.sid) ELSE outbox
  /\ UNCHANGED <<link, reader, queue, taken, reaped, callStage, written, answer>>

\* IncompleteReadError, or a frame that is none: destroy_all, and the end of the wire.
ReaderEnds ==
  /\ reader = Reads /\ inbox = <<>> /\ link = "down" /\ reader' = Ended /\ DestroySessions(sessions)
  /\ UNCHANGED <<link, inbox, outbox, queue, taken, reaped, callStage, written, answer>>

\* The handler of an upload reads its stream; it has run to the end at END.
HandlerTakes(s) ==
  /\ handler[s] = "runs" /\ s \in Uploads /\ queue[s] # <<>>
  /\ queue' = [queue EXCEPT ![s] = Tail(@)]
  /\ IF Head(queue[s]) = "chunk" THEN taken' = [taken EXCEPT ![s] = @ + 1] /\ UNCHANGED handler
     ELSE handler' = [handler EXCEPT ![s] = "whole"] /\ UNCHANGED taken
  /\ UNCHANGED <<link, inbox, outbox, reader, sessions, expired, reaped, callStage, written, answer>>

\* The handler of a download writes, which keeps its session active.
HandlerWrites(s) ==
  /\ HandlerAlive(s) /\ s \in Downloads /\ written[s] < MaxChunks
  /\ written' = [written EXCEPT ![s] = @ + 1] /\ expired' = expired \ {s}
  /\ outbox' = Sent("chunk", s)
  /\ UNCHANGED <<link, inbox, reader, sessions, handler, queue, taken, reaped, callStage, answer>>

\* The handler returns, early or not, or raises; _run_* answers and destroys its
\* session, which leaves the task done.
SilentError == "none"                                                   \* mutant
ErrorReply == "error"
HandlerEnds(s) ==
  /\ HandlerAlive(s)
  /\ \E reply \in {"result", ErrorReply} :
       outbox' = IF reply = "none" THEN outbox ELSE Sent(reply, s)
  /\ sessions' = sessions \ {s} /\ expired' = expired \ {s}
  /\ handler' = [handler EXCEPT ![s] = "done"]
  /\ UNCHANGED <<link, inbox, reader, queue, taken, reaped, callStage, written, answer>>

TimeOut(s) ==
  /\ s \in sessions \ expired /\ expired' = expired \union {s}
  /\ UNCHANGED <<link, inbox, outbox, reader, sessions, handler, queue, taken, reaped, callStage, written, answer>>

\* reap_expired: an error for the handler, which the cancellation overtakes.
Reap(s) ==
  /\ s \in expired /\ DestroySessions({s}) /\ reaped' = reaped \union {s}
  /\ queue' = IF Len(queue[s]) < QueueSize THEN [queue EXCEPT ![s] = Append(@, "timeout")] ELSE queue
  /\ UNCHANGED <<link, inbox, outbox, reader, taken, callStage, written, answer>>

SocketNext ==
  \/ \E s \in Sessions : \/ OpensSession(s) \/ ClientWrites(s) \/ Finishes(s) \/ Aborts(s) \/ CallReturns(s)
                         \/ HandlerTakes(s) \/ HandlerWrites(s) \/ HandlerEnds(s)
                         \/ TimeOut(s) \/ Reap(s)
  \/ ClientReads \/ ClientSeesEnd \/ WireBreaks
  \/ ServerOpens \/ ServerReceives \/ ServerPuts \/ ServerDestroys \/ ReaderEnds

SocketSpec == SocketInit /\ [][SocketNext]_socketVars
-----------------------------------------------------------------------------
SocketTypeOK ==
  /\ link \in {"up", "down"} /\ sessions \subseteq Streams /\ expired \subseteq sessions
  /\ handler \in [Sessions -> {"none", "runs", "whole", "cancelled", "done"}]
  /\ \A s \in Sessions : Len(queue[s]) <= QueueSize /\ taken[s] <= MaxChunks /\ written[s] <= MaxChunks
  /\ callStage \in [Sessions -> {"new", "writes", "waits", "over"}]
  /\ answer \in [Sessions -> {"none", "result", "error"}]

\* A handler that read its upload to END has every chunk that the client sent before
\* it, though the queue may have been full and other sessions shared the read loop.
UploadIsWhole == \A s \in Uploads : handler[s] = "whole" => taken[s] = written[s]

\* Something is still to be done that ends in an answer for s.
Owed(s) ==
  \/ \E i \in DOMAIN inbox : inbox[i].sid = s
  \/ \E i \in DOMAIN outbox : outbox[i] \in {Frame("result", s), Frame("error", s)}
  \/ reader.sid = s \/ HandlerAlive(s)

\* A caller waits for an answer only while one is owed or the connection is down,
\* where the end of the read loop answers; a session that the reaper cancelled is the
\* exception, for it ends without a word (_session.py:196, socket/_adapter.py:461-487).
AnswerIsOwed ==
  \A s \in Sessions : callStage[s] = "waits" /\ answer[s] = "none" =>
    Owed(s) \/ s \in reaped \/ link = "down"

\* What the guide says of an error: only its own session ends.  The read loop, which
\* serves every session, waits for nothing but the queue of a handler that runs.
OnlyThatSessionEnds ==
  reader.kind \in {"chunk", "end"} /\ ~PutFits(reader) => HandlerAlive(reader.sid)
=============================================================================
