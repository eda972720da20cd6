---------------------------- MODULE MqttSession ----------------------------
(***************************************************************************)
(* The MQTT adapter: it connects, subscribes each route with an identifier *)
(* of its own, takes messages under a bound of running handlers, runs the  *)
(* routes a message was delivered for one after another, publishes the     *)
(* replies of RPC routes, and starts over when the connection is lost.     *)
(* The broker (external) may deliver a message that matches several        *)
(* filters once with all identifiers or once for each.                     *)
(***************************************************************************)
EXTENDS Naturals, FiniteSets, SequencesExt

CONSTANTS
  Filters,        \* the topic filter of each route, by subscription_id
  RpcRoutes,      \* the routes that are @rpc handlers
  Topics,         \* topics that are published to
  MaxMessages,    \* bound: messages published
  MaxHandlers,    \* max_concurrency
  MaxDrops        \* bound: connections lost

Route == DOMAIN Filters

ASSUME MqttAssumption ==
  Filters \in Seq(ToSet(Filters)) /\ MaxMessages \in Nat /\ MaxHandlers \in Nat

MessageNo == 1 .. MaxMessages

VARIABLES
  session,   \* the adapter's loop: phase, live connection, routes subscribed
  arrived,   \* messages in the client's queue, <<message, topic, ids>>
  inHand,    \* the message _handle_message waits for a slot with
  slots,     \* free places of the semaphore
  handlers,  \* tasks: a delivery, routes still to run, a reply it owes
  published, \* messages published
  wanted,    \* history: routes the broker delivered each message for
  gone,      \* history: messages of which a delivery was lost
  ran        \* history: routes run, <<message, route>>, in order

mqttVars == <<session, arrived, inHand, slots, handlers, published, wanted,
              gone, ran>>

(***************************************************************************)
(* topic_matches: level by level; # takes the rest and its parent, + one   *)
(* level, and a leading wildcard takes no topic that starts with $.        *)
(***************************************************************************)
System(topic) == topic[1] = "$SYS"
Wild == {"+", "#"}

TopicMatches(filter, topic) ==
  /\ ~(System(topic) /\ filter[1] \in Wild)
  /\ LET stop == {i \in DOMAIN filter :
                    \/ filter[i] = "#"
                    \/ i > Len(topic)
                    \/ filter[i] # "+" /\ filter[i] # topic[i]}
     IN IF stop = {} THEN Len(filter) = Len(topic)
        ELSE filter[CHOOSE i \in stop : \A j \in stop : i <= j] = "#"

(* MqttDispatcher._match: the routes of the identifiers, in their order,   *)
(* without repetition; by topic only if the broker reports none            *)
RoutesByTopic(ids, topic) ==
  SelectSeq([i \in Route |-> i], LAMBDA r : TopicMatches(Filters[r], topic))
RoutesFor(ids, topic) ==
  IF ids # <<>> THEN ids
  ELSE SelectSeq([i \in Route |-> i], LAMBDA r : TopicMatches(Filters[r], topic))

MqttInit ==
  /\ session = [phase |-> "off", live |-> FALSE, subscribed |-> 0, drops |-> 0]
  /\ arrived = <<>> /\ inHand = <<>>
  /\ slots = MaxHandlers /\ handlers = {}
  /\ published = 0
  /\ wanted = [m \in MessageNo |-> {}]
  /\ gone = {} /\ ran = <<>>

-----------------------------------------------------------------------------
(* The loop _run_forever.                                                  *)
Connects ==
  /\ session.phase = "off"
  /\ session' = [session EXCEPT !.phase = "attached", !.live = TRUE,
                                !.subscribed = 0]
  /\ UNCHANGED <<arrived, inHand, slots, handlers, published, wanted, gone, ran>>

(* _subscribe_all, one route after another                                 *)
Subscribes ==
  /\ session.phase = "attached" /\ session.live
  /\ session.subscribed < Len(Filters)
  /\ session' = [session EXCEPT !.subscribed = @ + 1]
  /\ UNCHANGED <<arrived, inHand, slots, handlers, published, wanted, gone, ran>>

(* `async for message in client.messages` hands one to _handle_message     *)
NextMessage ==
  /\ session.phase = "attached" /\ session.live
  /\ session.subscribed = Len(Filters)
  /\ arrived # <<>> /\ inHand = <<>>
  /\ inHand' = <<Head(arrived)>> /\ arrived' = Tail(arrived)
  /\ UNCHANGED <<session, slots, handlers, published, wanted, gone, ran>>

(* ... which takes a slot and starts a task                                *)
StartsTask ==
  /\ session.phase = "attached" /\ inHand # <<>> /\ slots > 0
  /\ LET d == inHand[1]
     IN handlers' = handlers \union
          {[message |-> d.message, ids |-> d.ids, owes |-> FALSE,
            todo |-> RoutesFor(d.ids, d.topic)]}
  /\ slots' = slots - 1 /\ inHand' = <<>>
  /\ UNCHANGED <<session, arrived, published, wanted, gone, ran>>

(* the loop meets the lost connection where it waits for a message or a    *)
(* subscription, not where it waits for a slot: the queue goes with the    *)
(* client object, then detach and sleep                                    *)
NoticesLoss ==
  /\ session.phase = "attached" /\ ~session.live /\ inHand = <<>>
  /\ session' = [session EXCEPT !.phase = "off", !.subscribed = 0]
  /\ gone' = gone \union {arrived[i].message : i \in DOMAIN arrived}
  /\ arrived' = <<>>
  /\ UNCHANGED <<inHand, slots, handlers, published, wanted, ran>>

(* stop(): every task is cancelled, and frees its slot                     *)
StopsMqtt ==
  /\ session.phase # "stopped"
  /\ session' = [session EXCEPT !.phase = "stopped", !.live = FALSE]
  /\ handlers' = {} /\ slots' = slots + Cardinality(handlers)
  /\ arrived' = <<>> /\ inHand' = <<>>
  /\ UNCHANGED <<published, wanted, gone, ran>>

-----------------------------------------------------------------------------
(* MqttDispatcher.dispatch: one route; whether it returns or raises, the   *)
(* next one runs.  An RPC whose caller named a ResponseTopic owes a reply,  *)
(* or an error, and publishing it waits for a connection.                  *)
Without(t) == handlers \ {t}

RunsRoute(t) ==
  /\ t.todo # <<>> /\ ~t.owes
  /\ ran' = Append(ran, <<t.message, Head(t.todo)>>)
  /\ \E owes \in {FALSE, Head(t.todo) \in RpcRoutes} :
       handlers' = Without(t) \union
                     {[t EXCEPT !.owes = owes, !.todo = Tail(@)]}
  /\ UNCHANGED <<session, arrived, inHand, slots, published, wanted, gone>>

(* MqttConnection.publish: it waits for the connection; over one that is   *)
(* lost but not detached it raises, and the reply is given up              *)
Replies(t) ==
  /\ t.owes /\ session.phase = "attached"
  /\ handlers' = Without(t) \union {[t EXCEPT !.owes = FALSE]}
  /\ UNCHANGED <<session, arrived, inHand, slots, published, wanted, gone, ran>>

(* _done: the task leaves _tasks and releases its slot                     *)
TaskDone(t) ==
  /\ t.todo = <<>> /\ ~t.owes
  /\ handlers' = Without(t) /\ slots' = slots + 1
  /\ UNCHANGED <<session, arrived, inHand, published, wanted, gone, ran>>

-----------------------------------------------------------------------------
(* The broker and the network.                                             *)
Delivery(m, topic, ids) == [message |-> m, topic |-> topic, ids |-> ids]

(* the identifiers of the filters that match, in their order               *)
Matching(topic) == {r \in 1 .. session.subscribed : TopicMatches(Filters[r], topic)}
Listings(routes) ==
  {q \in [1 .. Cardinality(routes) -> routes] :
     ToSet(q) = routes /\ \A i, j \in DOMAIN q : i < j => q[i] < q[j]}

BrokerPublishes ==
  /\ published < MaxMessages /\ session.live
  /\ \E topic \in Topics : \E subs \in Listings(Matching(topic)) :
       LET m == published + 1
       IN /\ subs # <<>>
          /\ wanted' = [wanted EXCEPT ![m] = ToSet(subs)]
          /\ \/ arrived' = Append(arrived, Delivery(m, topic, subs))
             \/ arrived' = arrived \o [i \in DOMAIN subs |->
                                         Delivery(m, topic, <<subs[i]>>)]
  /\ published' = published + 1
  /\ UNCHANGED <<session, inHand, slots, handlers, gone, ran>>

ConnectionLost ==
  /\ session.live /\ session.drops < MaxDrops
  /\ session' = [session EXCEPT !.live = FALSE, !.drops = @ + 1]
  /\ UNCHANGED <<arrived, inHand, slots, handlers, published, wanted, gone, ran>>

MqttNext ==
  \/ Connects \/ Subscribes \/ NextMessage \/ StartsTask \/ NoticesLoss
  \/ StopsMqtt \/ BrokerPublishes \/ ConnectionLost
  \/ \E t \in handlers : RunsRoute(t) \/ Replies(t) \/ TaskDone(t)

MqttSpec == MqttInit /\ [][MqttNext]_mqttVars

-----------------------------------------------------------------------------
(* Type correctness of the session and its tasks.                          *)
MqttTypeOK ==
  /\ session.phase \in {"off", "attached", "stopped"}
  /\ session.subscribed \in 0 .. Len(Filters)
  /\ slots \in 0 .. MaxHandlers /\ published \in 0 .. MaxMessages
  /\ Len(inHand) <= 1

(* A route runs at most once for a message however its filter overlaps     *)
(* others and however the broker delivers it, and when all is quiet it ran *)
(* for each route it was delivered for ("overlapping filters ... each fire *)
(* once - no double-dispatch", docs/en/mqtt.md:223).                       *)
InFlight(m) ==
  \/ \E i \in DOMAIN arrived : arrived[i].message = m
  \/ inHand # <<>> /\ inHand[1].message = m
  \/ \E t \in handlers : t.message = m

EachRouteFiresOnce ==
  /\ \A i, j \in DOMAIN ran : ran[i] = ran[j] => i = j
  /\ session.phase # "stopped" =>
       \A m \in 1 .. published : ~InFlight(m) /\ m \notin gone =>
         wanted[m] = {ran[i][2] : i \in {j \in DOMAIN ran : ran[j][1] = m}}

(* No slot is ever lost or made up, by a failing handler, a lost           *)
(* connection or the shutdown; and one slot means strict order             *)
(* ("max_concurrency: 1 for strict sequential, in-order processing",       *)
(* docs/en/mqtt.md:217).                                                   *)
SlotsAreSound ==
  /\ slots + Cardinality(handlers) = MaxHandlers
  /\ MaxHandlers = 1 =>
       \A i, j \in DOMAIN ran : i < j => ran[i][1] <= ran[j][1]

MessagesAreSound == EachRouteFiresOnce /\ SlotsAreSound
=============================================================================
