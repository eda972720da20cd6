------------------------------- MODULE Parts -------------------------------
(***************************************************************************)
(* What the parts of one kind promise together.  The components below      *)
(* share no state; each property joins those that meet the same kind of    *)
(* outside world, so that a run and a theorem can name them at once.       *)
(***************************************************************************)
EXTENDS Topology, ProtoNumbers, ObjectStore, LogFile, SharedBlocks,
        RequestContext, WsConnection, WebGate, MqttSession, OpcUaNodes,
        GrpcServer, WebSite, MainProgram, Wiring

(* Startup: an accepted configuration keeps every adapter reachable, no    *)
(* field number of the wire is ever given to another field, a main program *)
(* holds nothing between its runs and its child is what it is, and what    *)
(* was accepted of a wiring can be built and called (_processes.py,        *)
(* _supervisor.py, application.py; grpc/codefirst/_lock.py;                *)
(* core/container).                                                        *)
StartupIsSound ==
  TopologyIsSound /\ NumbersNeverReused /\ ProgramIsSound /\ WiringIsSound

(* Files and blocks: an object that is put, replaced and downloaded at the *)
(* same time is whole for every reader; a log record that is not in the    *)
(* file was counted; and a run removes the shared blocks of dead runs and  *)
(* never those of one that lives (localfs/_storage.py,                     *)
(* web/files/_download.py, core/logging/_file.py, _cleanup.py).            *)
FilesAreSound == StorageIsSound /\ NoSilentLoss /\ BlocksAreSound

(* Requests: a WebSocket says farewell once, a task finds its own request  *)
(* context, no request passes the gate without a token that is good at     *)
(* that moment, a gRPC call ends with the status its error maps to, and a  *)
(* site answers with its own routes behind its own middleware              *)
(* (web/ws/_handler.py, core/context, starters/jwt, adapters/grpc,         *)
(* adapters/web).                                                          *)
RequestsAreSound ==
  FarewellOnce /\ ContextIsOwn /\ GateIsSound /\ CallsAreServed /\ SiteIsSound

(* What a device's value is worth: each MQTT route fires once per message  *)
(* and connection, and an OPC UA server and client tell handlers and       *)
(* watches what was really written and published (mqtt/_adapter.py;        *)
(* opcua/_server.py, _adapter.py).                                         *)
DevicesAreSound == MessagesAreSound /\ NodesAreSound
=============================================================================
