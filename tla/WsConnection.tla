---------------------------- MODULE WsConnection ----------------------------
(***************************************************************************)
(* The life of one WebSocket connection: handle() calls on_connect, then   *)
(* on_message or on_bytes for every message, then on_disconnect, while a   *)
(* task of its own closes the connection when the token that opened it     *)
(* expires.  Callbacks are the application's: each returns or raises.      *)
(***************************************************************************)
EXTENDS Naturals

CONSTANT MaxWsMessages   \* bound: messages of the client

VARIABLES
  handling,  \* where handle() is
  accepted,  \* the local variable `connected`
  open,      \* the connection, as the transport has it
  expiry,    \* the task that waits for the token to expire
  farewells, \* calls of on_disconnect, and those that raised
  cancelled, \* the server cancelled handle()
  sent       \* messages the client sent

wsVars == <<handling, accepted, open, expiry, farewells, cancelled, sent>>

WsInit ==
  /\ handling = "connecting" /\ accepted = FALSE /\ open = TRUE
  /\ expiry \in {"none", "waiting"}   \* a token with or without `exp`
  /\ farewells = [calls |-> 0, raised |-> 0]
  /\ cancelled = FALSE /\ sent = 0

(* the `finally` of handle(): the expiry task is cancelled                 *)
HandleEnds ==
  /\ handling' = "done"
  /\ expiry' = IF expiry = "waiting" THEN "cancelled" ELSE expiry

ConnectReturns ==
  /\ handling = "connecting" /\ open
  /\ handling' = "receiving" /\ accepted' = TRUE
  /\ UNCHANGED <<open, expiry, farewells, cancelled, sent>>

(* ws.receive(): a message, or the end of the connection                   *)
ReceivesMessage ==
  /\ handling = "receiving" /\ open /\ sent < MaxWsMessages
  /\ sent' = sent + 1 /\ handling' = "message"
  /\ UNCHANGED <<accepted, open, expiry, farewells, cancelled>>

ReceivesDisconnect ==
  /\ handling = "receiving" /\ ~open
  /\ handling' = "loop_farewell"
  /\ farewells' = [farewells EXCEPT !.calls = @ + 1]
  /\ UNCHANGED <<accepted, open, expiry, cancelled, sent>>

MessageReturns ==
  /\ handling = "message"
  /\ handling' = "receiving"
  /\ UNCHANGED <<accepted, open, expiry, farewells, cancelled, sent>>

(* An exception - of on_connect (or an accept of what is closed already),  *)
(* of on_message, of the loop's own on_disconnect - reaches an except      *)
(* clause, which says farewell if on_connect had returned.                 *)
CallbackRaises ==
  /\ handling \in {"connecting", "message", "loop_farewell"}
  /\ IF accepted THEN /\ handling' = "except_farewell"
                   /\ farewells' = [farewells EXCEPT !.calls = @ + 1,
                        !.raised = IF handling = "loop_farewell" THEN @ + 1 ELSE @]
                   /\ UNCHANGED expiry
     ELSE HandleEnds /\ UNCHANGED farewells
  /\ UNCHANGED <<accepted, open, cancelled, sent>>

FarewellEnds ==
  /\ handling \in {"loop_farewell", "except_farewell"}
  /\ HandleEnds
  /\ UNCHANGED <<accepted, open, farewells, cancelled, sent>>

(* CancelledError is no Exception: no except clause takes it               *)
HandleCancelled ==
  /\ handling # "done"
  /\ cancelled' = TRUE /\ HandleEnds
  /\ UNCHANGED <<accepted, open, farewells, sent>>

ClientLeaves ==
  /\ open /\ open' = FALSE
  /\ UNCHANGED <<handling, accepted, expiry, farewells, cancelled, sent>>

TokenExpires ==
  /\ expiry = "waiting"
  /\ expiry' = "closed" /\ open' = FALSE
  /\ UNCHANGED <<handling, accepted, farewells, cancelled, sent>>

WsNext ==
  \/ ConnectReturns \/ ReceivesMessage \/ ReceivesDisconnect
  \/ MessageReturns \/ CallbackRaises \/ FarewellEnds \/ HandleCancelled
  \/ ClientLeaves \/ TokenExpires

WsSpec == WsInit /\ [][WsNext]_wsVars

-----------------------------------------------------------------------------
(* Type correctness of the connection.                                     *)
WsTypeOK ==
  /\ handling \in {"connecting", "receiving", "message", "loop_farewell",
                   "except_farewell", "done"}
  /\ accepted \in BOOLEAN /\ open \in BOOLEAN /\ cancelled \in BOOLEAN
  /\ expiry \in {"none", "waiting", "closed", "cancelled"}
  /\ farewells.calls \in 0 .. 2 /\ sent \in 0 .. MaxWsMessages

(* However the connection ends - the client leaves, the token expires at   *)
(* any point, a callback raises - on_disconnect was called exactly once if *)
(* on_connect had returned and never otherwise; a second time only after   *)
(* one that raised, and not at all only when handle() was cancelled        *)
(* (_handler.py:99-151).  No expiry task outlives handle().                *)
FarewellOnce ==
  handling = "done" =>
    /\ ~accepted => farewells.calls = 0
    /\ accepted => \/ farewells.calls = 1 + farewells.raised
                   \/ cancelled /\ farewells.calls <= 1 + farewells.raised
    /\ expiry # "waiting"
=============================================================================
