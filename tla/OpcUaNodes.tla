----------------------------- MODULE OpcUaNodes -----------------------------
(***************************************************************************)
(* Two applications that meet at an OPC UA server: one runs the server     *)
(* adapter (it publishes the values of its @serve_nodes provider and calls *)
(* the @on_node_write handler of a node for the writes of clients), the    *)
(* other the client adapter (it subscribes to nodes and calls the          *)
(* @on_node_change handlers).  A subscription (of asyncua, external)       *)
(* delivers the value at its creation and then every change, in order.     *)
(***************************************************************************)
EXTENDS Naturals, SequencesExt

CONSTANTS
  UaNodes,     \* the nodes of the served model
  Handled,     \* those with an @on_node_write handler
  UaWatches,   \* the client's watches, records [node, initial]
  MaxUaValue,  \* bound: values are 0 .. MaxUaValue, a node starts at 0
  MaxUaWrites, \* bound: writes of clients
  MaxUaMoves,  \* bound: changes of the provider's values
  MaxServers   \* bound: starts of the server application

UaValue == 0 .. MaxUaValue
NotNotified == MaxUaValue + 1   \* _UNSEEN: no value of a node

ASSUME UaAssumption ==
  /\ MaxUaValue \in Nat /\ Handled \subseteq UaNodes
  /\ \A w \in UaWatches : w.node \in UaNodes /\ w.initial \in BOOLEAN

VARIABLES
  uaServer,     \* the server: its phase, its nodes, its own subscription
  provided,   \* the values @serve_nodes returns
  asked,      \* history: values clients wrote to each handled node
  uaClient,   \* the client: its phase, the nodes it is subscribed to
  feed,       \* notifications on their way to the client, per node
  lastSeen,   \* _last of the client adapter, per node
  firstSeen,  \* history: the first value it ever received
  told,       \* the value each watch's handler was last called with
  uaUsed      \* the bounds spent

uaVars == <<uaServer, provided, asked, uaClient, feed, lastSeen, firstSeen,
            told, uaUsed>>

NoServer == [phase |-> "down", node |-> [n \in UaNodes |-> 0],
             own |-> [n \in Handled |-> <<>>], ready |-> {},
             base |-> [n \in Handled |-> 0],
             handled |-> [n \in Handled |-> <<>>]]

UaInit ==
  /\ uaServer = NoServer
  /\ provided = [n \in UaNodes |-> 0]
  /\ asked = [n \in Handled |-> {}]
  /\ uaClient = [phase |-> "off", live |-> FALSE, subscribed |-> {}]
  /\ feed = [n \in UaNodes |-> <<>>]
  /\ lastSeen = [n \in UaNodes |-> NotNotified]
  /\ firstSeen = [n \in UaNodes |-> NotNotified]
  /\ told = [w \in UaWatches |-> NotNotified]
  /\ uaUsed = [writes |-> 0, moves |-> 0, servers |-> 0]

(* a write to the nodes of the server, and the notifications of those that *)
(* changed to its own subscription and to the client's                     *)
Written(values) ==
  LET changed == {n \in DOMAIN values : values[n] # uaServer.node[n]}
  IN /\ uaServer' = [uaServer EXCEPT
          !.node = [n \in UaNodes |->
                      IF n \in changed THEN values[n] ELSE uaServer.node[n]],
          !.own = [n \in Handled |->
                     IF n \in changed /\ uaServer.phase = "watching"
                       THEN Append(uaServer.own[n], values[n])
                       ELSE uaServer.own[n]]]
     /\ feed' = [n \in UaNodes |->
          IF n \in changed \cap uaClient.subscribed /\ uaClient.live
            THEN Append(feed[n], values[n]) ELSE feed[n]]

-----------------------------------------------------------------------------
(* The server adapter.                                                     *)

(* start() up to server.start(): the nodes exist with their defaults       *)
NodesCreated ==
  /\ uaServer.phase = "down" /\ uaUsed.servers < MaxServers
  /\ uaServer' = [NoServer EXCEPT !.phase = "listening"]
  /\ asked' = [n \in Handled |-> {}]
  /\ uaUsed' = [uaUsed EXCEPT !.servers = @ + 1]
  /\ UNCHANGED <<provided, uaClient, feed, lastSeen, firstSeen, told>>

(* _watch_writes: it subscribes to its own nodes                           *)
WatchesWrites ==
  /\ uaServer.phase = "listening"
  /\ uaServer' = [uaServer EXCEPT !.phase = "watching",
                  !.own = [n \in Handled |-> <<uaServer.node[n]>>],
                  !.base = [n \in Handled |-> uaServer.node[n]]]
  /\ UNCHANGED <<provided, asked, uaClient, feed, lastSeen, firstSeen, told,
                 uaUsed>>

(* on_local_change: the first notification is the creation of the          *)
(* subscription, every later one runs the handler                          *)
LocalChange(n) ==
  /\ uaServer.phase = "watching" /\ uaServer.own[n] # <<>>
  /\ LET v == Head(uaServer.own[n])
     IN uaServer' = [uaServer EXCEPT
          !.own[n] = Tail(@),
          !.ready = @ \union {n},
          !.handled[n] = IF n \in uaServer.ready THEN Append(@, v) ELSE @]
  /\ UNCHANGED <<provided, asked, uaClient, feed, lastSeen, firstSeen, told,
                 uaUsed>>

(* the application's own values move                                       *)
ModelMoves(n) ==
  /\ uaUsed.moves < MaxUaMoves
  /\ \E v \in UaValue \ {provided[n]} : provided' = [provided EXCEPT ![n] = v]
  /\ uaUsed' = [uaUsed EXCEPT !.moves = @ + 1]
  /\ UNCHANGED <<uaServer, asked, uaClient, feed, lastSeen, firstSeen, told>>

(* refresh_once: nodes that have a write handler belong to the clients     *)
Published == UaNodes \ Handled

Refresh ==
  /\ uaServer.phase = "watching"
  /\ Written([n \in Published |-> provided[n]])
  /\ UNCHANGED <<provided, asked, uaClient, lastSeen, firstSeen, told, uaUsed>>

ServerStops ==
  /\ uaServer.phase # "down"
  /\ uaServer' = NoServer
  /\ uaClient' = [uaClient EXCEPT !.live = FALSE]
  /\ UNCHANGED <<provided, asked, feed, lastSeen, firstSeen, told, uaUsed>>

-----------------------------------------------------------------------------
(* The client adapter and client.write().                                  *)

(* _connect and attach                                                     *)
ClientConnects ==
  /\ uaClient.phase = "off" /\ uaServer.phase # "down"
  /\ uaClient' = [phase |-> "subscribing", live |-> TRUE, subscribed |-> {}]
  /\ feed' = [n \in UaNodes |-> <<>>]
  /\ UNCHANGED <<uaServer, provided, asked, lastSeen, firstSeen, told, uaUsed>>

(* _subscribe_and_wait: one request per node; a request over a lost        *)
(* connection fails, and the loop detaches and connects again              *)
Watchable == {w.node : w \in UaWatches}

SubscribesTo(n) ==
  /\ uaClient.phase = "subscribing" /\ uaClient.live
  /\ n \in Watchable \ uaClient.subscribed
  /\ uaClient' = [uaClient EXCEPT !.subscribed = @ \union {n},
       !.phase = IF Watchable = uaClient.subscribed \union {n}
                   THEN "watching" ELSE @]
  /\ feed' = [feed EXCEPT ![n] = <<uaServer.node[n]>>]
  /\ UNCHANGED <<uaServer, provided, asked, lastSeen, firstSeen, told, uaUsed>>

SubscribeFails ==
  /\ uaClient.phase = "subscribing" /\ ~uaClient.live
  /\ uaClient' = [phase |-> "off", live |-> FALSE, subscribed |-> {}]
  /\ feed' = [n \in UaNodes |-> <<>>]
  /\ UNCHANGED <<uaServer, provided, asked, lastSeen, firstSeen, told, uaUsed>>

(* on_data_change, for a notification of node n                            *)
Runs(w, v) ==
  IF lastSeen[w.node] = NotNotified THEN w.initial ELSE lastSeen[w.node] # v

DataChange(n) ==
  /\ feed[n] # <<>>
  /\ LET v == Head(feed[n])
     IN /\ told' = [w \in UaWatches |->
                      IF w.node = n /\ Runs(w, v) THEN v ELSE told[w]]
        /\ lastSeen' = [lastSeen EXCEPT ![n] = v]
        /\ firstSeen' = [firstSeen EXCEPT ![n] = IF @ = NotNotified THEN v ELSE @]
  /\ feed' = [feed EXCEPT ![n] = Tail(@)]
  /\ UNCHANGED <<uaServer, provided, asked, uaClient, uaUsed>>

UaClientWrites(n) ==
  /\ uaClient.live /\ uaUsed.writes < MaxUaWrites
  /\ \E v \in UaValue : /\ Written([m \in {n} |-> v])
                        /\ asked' = [asked EXCEPT ![n] = @ \union {v}]
  /\ uaUsed' = [uaUsed EXCEPT !.writes = @ + 1]
  /\ UNCHANGED <<provided, uaClient, lastSeen, firstSeen, told>>

ClientStops ==
  /\ uaClient.phase # "off"
  /\ uaClient' = [phase |-> "stopped", live |-> FALSE, subscribed |-> {}]
  /\ feed' = [n \in UaNodes |-> <<>>]
  /\ UNCHANGED <<uaServer, provided, asked, lastSeen, firstSeen, told, uaUsed>>

UaNext ==
  \/ NodesCreated \/ WatchesWrites \/ Refresh \/ ServerStops
  \/ \E n \in Handled : LocalChange(n) \/ UaClientWrites(n)
  \/ \E n \in UaNodes : ModelMoves(n) \/ SubscribesTo(n) \/ DataChange(n)
  \/ ClientConnects \/ SubscribeFails \/ ClientStops

UaSpec == UaInit /\ [][UaNext]_uaVars

-----------------------------------------------------------------------------
(* Type correctness of the two adapters' state.                            *)
UaTypeOK ==
  /\ uaServer.phase \in {"down", "listening", "watching"}
  /\ uaServer.node \in [UaNodes -> UaValue] /\ provided \in [UaNodes -> UaValue]
  /\ uaClient.phase \in {"off", "subscribing", "watching", "stopped"}
  /\ uaClient.subscribed \subseteq UaNodes
  /\ lastSeen \in [UaNodes -> UaValue \union {NotNotified}]
  /\ told \in [UaWatches -> UaValue \union {NotNotified}]

(* A write handler runs only with values that clients wrote, never with    *)
(* what the server publishes itself, and once its subscription is drained  *)
(* it has seen the value the node holds, unless that is still the value    *)
(* the subscription began with (_server.py:322-334, 402-409).              *)
HandlersSeeTheWrites ==
  \A n \in Handled :
    /\ ToSet(uaServer.handled[n]) \subseteq asked[n]
    /\ uaServer.phase = "watching" /\ uaServer.own[n] = <<>>
         => \/ uaServer.handled[n] = <<>> /\ uaServer.node[n] = uaServer.base[n]
            \/ /\ uaServer.handled[n] # <<>>
               /\ uaServer.handled[n][Len(uaServer.handled[n])] = uaServer.node[n]

(* Every watch of a node, however many there are and whatever reconnects   *)
(* lie between, was last called with the last value received, unless no    *)
(* value but the first ever came and the watch did not ask for that one;   *)
(* and a drained live subscription received what the node holds            *)
(* (_adapter.py:299-321).                                                  *)
EveryWatchIsCurrent ==
  /\ \A w \in UaWatches :
       lastSeen[w.node] # NotNotified =>
         \/ told[w] = lastSeen[w.node]
         \/ told[w] = NotNotified /\ ~w.initial /\ lastSeen[w.node] = firstSeen[w.node]
  /\ \A n \in uaClient.subscribed :
       uaClient.live /\ feed[n] = <<>> => lastSeen[n] = uaServer.node[n]

NodesAreSound == HandlersSeeTheWrites /\ EveryWatchIsCurrent
=============================================================================
