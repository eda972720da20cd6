------------------------------ MODULE MCParts ------------------------------
(***************************************************************************)
(* The parts of the framework that share no state with one another, side   *)
(* by side: `part` names the one that an execution is about, and the       *)
(* others keep their initial state.  Where a part starts from one of       *)
(* several configurations, it has a single one while it is not chosen.     *)
(***************************************************************************)
EXTENDS Parts, WorkerLife, WorkerWatch, AdapterCommand, Container, EventBus,
        TlsReloader, GrpcChannel, SocketLink, ModbusPoll, LmdbStore,
        TransactionScope, ModbusServe, NativeLog, WebSite, ConfigFiles

VARIABLE part

Parts == {"life", "watch", "command", "topology", "container", "bus", "log",
          "context", "tls", "websocket", "grpc", "proto", "socket", "mqtt",
          "modbus", "opcua", "lmdb", "scope", "storage", "gate", "serve",
          "blocks", "native", "calls", "program", "site", "wiring",
          "config"}

----------------------------------------------------------------------------
(* Values of the constants                                                 *)
DoorScaling == [d \in Doors |-> IF d = "job" THEN "singleton" ELSE "replicated"]
DoorSharing == [d \in Doors |-> "inherit"]
EventHandlers == [e \in Events |-> IF e = "b" THEN 0 ELSE IF e = "c" THEN 1 ELSE 2]
GrpcServers == <<"s">>
RequestOf == [s \in {"s"} |-> "Req"]
TopicFilters == <<<<"s", "#">>, <<"s", "+">>, <<"+", "t">>>>
TopicNames == {<<"s", "t">>, <<"s">>, <<"$SYS", "t">>}
Field(a, s) == [address |-> a, size |-> s]
FieldLayouts ==
  {<<Field(0, 2), Field(a, s)>> : a \in 1 .. 4, s \in 1 .. 3}
    \union {<<Field(0, 1), Field(a, 2), Field(b, 1)>> : a \in 1 .. 2, b \in 3 .. 5}
UaWatch(n, i) == [node |-> n, initial |-> i]
NodeWatches ==
  {UaWatch("level", TRUE), UaWatch("level", FALSE), UaWatch("setpoint", FALSE)}
PutSizes == [p \in PutTasks |-> 2]
Jwt(source, public, health, dead) ==
  [source |-> source, public |-> public, health |-> health, dead |-> dead]
GateSetups ==
  {NoJwt, Jwt("static", {Pattern(<<"a">>, "tail")}, TRUE, {}),
   Jwt("provider", {Pattern(<<"a">>, "none")}, TRUE, {}),
   Jwt("provider", {Pattern(<<"a">>, "tail")}, FALSE, {2}),
   Jwt("both", {}, FALSE, {}), Jwt("provider", {Pattern(<<>>, "tail")}, FALSE, {})}
GatePaths == {<<<<"a", "b">>, FALSE>>, <<<<"a">>, TRUE>>, <<<<"healthz">>, FALSE>>}
Healthz == <<"healthz">>
Served(a, s, c, w) == [area |-> a, address |-> s, count |-> c, writer |-> w]
ServedModel ==
  [level |-> Served("holding", 0, 2, TRUE), mode |-> Served("holding", 2, 1, FALSE),
   run |-> Served("coil", 0, 1, TRUE)]
Orders == {<<"little", "big">>, <<"big", "little">>}
HostRuns == <<"a", "b">>
RunBlocks == <<"ref", "link", "bells", "beats">>
BlockFamily == [b \in {"ref", "link", "bells", "beats"} |-> IF b = "ref" THEN "refdata" ELSE b]
RunServers == <<{"a"}, {"c"}>>
ServerPort == [s \in {"a", "c"} |-> 1]
TraceFlags == {{}, {"handshaker"}, {"-handshaker"}}
NativeScripts ==
  {<<"huge", "one">>, <<"plain", "trace">>, <<"broken", "one">>, <<"two", "one", "one">>}
Endpoint(c, t, p) == [cell |-> c, tls |-> t, provider |-> p]
Endpoints ==
  {Endpoint("bad", "off", "none"), Endpoint("ok", "off", "none"),
   Endpoint("ok", "files", "none"), Endpoint("ok", "provider", "missing"),
   Endpoint("ok", "provider", "bad"), Endpoint("ok", "provider", "ok")}
GrpcErrorMaps ==
  {<<>>, <<<<"Business", "FAILED">>, <<"NotFound", "NOT_FOUND">>>>,
   <<<<"NotFound", "NOT_FOUND">>, <<"Business", "FAILED">>>>}
ErrorTypes ==
  [e \in {"NotFound", "Business", "StopAsyncIteration", "AbortError", "RpcError"} |->
     IF e = "NotFound" THEN {"NotFound", "Business"} ELSE {e}]
MainFile ==
  [name |-> "top", top |-> SetToBag({"web"}), guarded |-> EmptyBag, config |-> "top", entry |-> "run",
   layout |-> "flat", listed |-> {}, package |-> "whole", admin |-> "free", jobs |-> TRUE,
   target |-> TRUE]
SharingFile == [MainFile EXCEPT !.entry = "share", !.layout = "processes", !.listed = {"web"}]
GuardedFile == [SharingFile EXCEPT !.top = EmptyBag, !.guarded = SetToBag({"web"}), !.config = "guarded"]
MainFiles ==
  {MainFile, SharingFile, [MainFile EXCEPT !.package = "broken"],
   [MainFile EXCEPT !.admin = "clash"], [MainFile EXCEPT !.target = FALSE],
   [MainFile EXCEPT !.guarded = SetToBag({"web"})], [MainFile EXCEPT !.guarded = SetToBag({"web2"})],
   [MainFile EXCEPT !.guarded = SetToBag({"misfit"})], [MainFile EXCEPT !.entry = "share"],
   [MainFile EXCEPT !.config = "no", !.layout = "process", !.listed = {"web"}],
   [MainFile EXCEPT !.config = "no", !.package = "broken"],
   [MainFile EXCEPT !.config = "no", !.package = "unusable", !.admin = "none"],
   [SharingFile EXCEPT !.config = "guarded"],
   [SharingFile EXCEPT !.entry = "configured", !.listed = {"web", "grpc"}],
   [SharingFile EXCEPT !.entry = "configured", !.listed = {"web", "grpc"},
                       !.guarded = SetToBag({"grpc"})],
   [GuardedFile EXCEPT !.name = "guarded"], [GuardedFile EXCEPT !.name = "no"]}
Controller(n, p, s, b) == [name |-> n, path |-> p, server |-> s, bean |-> b]
SiteFile ==
  [dev |-> TRUE, docs |-> "set", jwt |-> TRUE, stack |-> <<"guard", "cors">>,
   origins |-> "listed", credentials |-> TRUE, health |-> TRUE, cell |-> "unset",
   flat |-> "good", scan |-> "whole", management |-> "local",
   reload |-> TRUE,
   controllers |-> <<Controller("A", "a", "x", TRUE), Controller("B", "a", "y", TRUE),
                     Controller("C", "healthz", "x", TRUE)>>]
SiteFiles ==
  {SiteFile, [SiteFile EXCEPT !.dev = FALSE, !.docs = "titled"],
   [SiteFile EXCEPT !.docs = "titled", !.cell = "empty", !.management = "off",
                    !.reload = FALSE],
   [SiteFile EXCEPT !.management = "off"],
   [SiteFile EXCEPT !.docs = "noschema", !.health = FALSE, !.stack = <<"cors", "guard">>],
   [SiteFile EXCEPT !.cell = "incomplete", !.management = "outside"],
   [SiteFile EXCEPT !.cell = "missing"], [SiteFile EXCEPT !.flat = "unreadable"],
   [SiteFile EXCEPT !.origins = "star", !.docs = "unset"],
   [SiteFile EXCEPT !.origins = "star", !.credentials = FALSE, !.jwt = FALSE,
                    !.docs = "unset", !.flat = "unset"],
   [SiteFile EXCEPT !.origins = "string"], [SiteFile EXCEPT !.scan = "broken"],
   [SiteFile EXCEPT !.stack = <<"lost">>],
   [SiteFile EXCEPT !.dev = FALSE, !.docs = "unset", !.stack = <<>>,
                    !.controllers = <<Controller("A", "a", "x", TRUE),
                                      Controller("B", "b", "y", FALSE)>>]}
WebSites == <<"x", "y">>
Needs1(t) == [type |-> t, hint |-> "known", optional |-> FALSE]
Wants(t) == [Needs1(t) EXCEPT !.optional = TRUE]
AppTypes == {"P", "A", "B", "D", "U", "O", "X"}
AppKinds == [t \in AppTypes |-> IF t = "P" THEN "protocol" ELSE "plain"]
AppSegments == [t \in AppTypes |-> IF t = "D" THEN "domain" ELSE "service"]
AppMethods == [t \in AppTypes |-> IF t \in {"P", "A", "B"} THEN {"m"} ELSE {}]
AppTakes ==
  [t \in AppTypes |-> CASE t = "U" -> {Needs1("P")}
                        [] t = "O" -> {Wants("P"), Wants("D")}
                        [] t = "X" -> {[Needs1("P") EXCEPT !.hint = "none"]}
                        [] OTHER -> {}]
AppPackages ==
  [p \in {"app", "lib", "typo"} |->
     CASE p = "app" -> [kind |-> "walked", holds |-> {"P", "A", "D", "U", "O"}]
       [] p = "lib" -> [kind |-> "listed", holds |-> {"B", "D", "X"}]
       [] p = "typo" -> [kind |-> "gone", holds |-> {}]]
To(s) == [impls |-> s]
AppTargets == {To(<<>>), To(<<"A">>), To(<<"A", "B">>), To(<<"A", "D">>)}
AppFactories == {[provides |-> "D", takes |-> {Needs1("U")}], [provides |-> "P", takes |-> {}]}
AppRules == {<<"U", "A">>, <<"A", "O">>}
ServedAt(port) == "server" :> Tree("port" :> Leaf(port) @@ "host" :> Leaf("h"))
LocalBranch == Tree("server" :> Tree("port" :> Leaf("2")) @@ "features" :> Tree("beta" :> Leaf("junk")))
ServerBranch == Tree("server" :> Leaf("null") @@ "process" :> Tree("web" :> Leaf("b")))
OneFile(dev, local, server) ==
  Tree("xime" :> Tree("dev" :> Leaf(dev)) @@ "processes" :> Tree("main" :> Leaf("a"))
       @@ "jwt" :> Tree("secret" :> Leaf("s")) @@ "features" :> Tree("beta" :> Leaf("true"))
       @@ "environments" :> Tree("local" :> local @@ "server" :> server) @@ ServedAt("1"))
LegacyFile == Tree(ServedAt("1") @@ "features" :> Tree("beta" :> Leaf("true"))
                   @@ "process" :> Tree("web" :> Leaf("a")))
AppFiles ==
  {NoNode, LegacyFile} \cup {OneFile(d, LocalBranch, ServerBranch) : d \in {"true", "false", "null", "junk"}}
  \cup {OneFile("true", Tree("xime" :> Tree("dev" :> Leaf("false"))), ServerBranch),
        OneFile("false", LocalBranch, Tree("process" :> Tree("web" :> Leaf("b")) @@ "processes" :> Tree(<<>>))),
        OneFile("false", LocalBranch, Tree("processes" :> Tree("other" :> Leaf("b")))),
        OneFile("true", Leaf("null"), ServerBranch)}
ProdFiles ==
  {NoNode, Tree("server" :> Tree("port" :> Leaf("3")) @@ "processes" :> Tree("main" :> Leaf("c"))),
   Tree("features" :> Leaf("false") @@ "logging" :> Tree("enabled" :> Leaf("false") @@ "file" :> Leaf("true")))}
FileKeys == {<<"server", "port">>, <<"server", "host">>, <<"process", "web">>, <<"processes", "main">>,
            <<"xime", "dev">>, <<"features", "beta">>, <<"jwt", "secret">>,
            <<"environments", "local", "server", "port">>}

----------------------------------------------------------------------------
PartsInit ==
  /\ part \in Parts
  /\ IF part = "life" THEN TRUE ELSE role = TRUE
  /\ IF part = "topology" THEN TRUE
     ELSE blocks = [b \in Blocks |-> CHOOSE k \in Block : TRUE]
  /\ IF part = "container" THEN TRUE
     ELSE rule = <<>> /\ needs = [c \in Classes |-> {}]
  /\ IF part = "context" THEN TRUE ELSE living = {CHOOSE t \in CtxTasks : TRUE}
  /\ IF part = "websocket" THEN TRUE ELSE expiry = "none"
  /\ IF part = "modbus" THEN TRUE ELSE fields = CHOOSE f \in Layouts : TRUE
  /\ IF part = "gate" THEN TRUE ELSE jwtSetup = NoJwt
  /\ IF part = "serve" THEN TRUE ELSE orders = CHOOSE o \in WordOrders : TRUE
  /\ IF part = "native" THEN TRUE
     ELSE trace = (CHOOSE t \in Traces : TRUE) /\ script = (CHOOSE s \in Scripts : TRUE)
  /\ IF part = "calls" THEN TRUE
     ELSE /\ errorMap = <<>>
          /\ endpoint = [setup |-> CHOOSE e \in EndpointSetups : TRUE,
                         phase |-> "new", bound |-> "none"]
  /\ IF part = "program" THEN TRUE ELSE program = MainFile
  /\ IF part = "site" THEN TRUE ELSE siteSetup = SiteFile
  /\ IF part = "wiring" THEN TRUE ELSE dynamic = FALSE /\ prebuilt = {}
  /\ IF part = "config" THEN TRUE
     ELSE baseFile = NoNode /\ profileFile = NoNode /\ profile = "none"
  /\ LifeInit /\ WatchInit /\ CommandInit /\ TopologyInit /\ ContainerInit
  /\ BusInit /\ LogInit /\ ContextInit /\ TlsInit /\ WsInit /\ GrpcInit
  /\ ProtoInit /\ SocketInit /\ MqttInit /\ PollInit /\ UaInit
  /\ StoreInit /\ ScopeInit /\ StorageInit /\ GateInit /\ ServeInit
  /\ BlocksInit /\ NativeInit /\ GrpcServerInit /\ MainInit /\ SiteInit
  /\ WiringInit /\ ConfigInit

Is(p, vars) == IF part = p THEN TRUE ELSE UNCHANGED vars

OthersWait ==
  /\ part' = part
  /\ Is("life", lifeVars)         /\ Is("watch", watchVars)
  /\ Is("command", commandVars)   /\ Is("topology", topologyVars)
  /\ Is("container", containerVars) /\ Is("bus", busVars)
  /\ Is("log", logVars)           /\ Is("context", contextVars)
  /\ Is("tls", tlsVars)           /\ Is("websocket", wsVars)
  /\ Is("grpc", grpcVars)         /\ Is("proto", protoVars)
  /\ Is("socket", socketVars)     /\ Is("mqtt", mqttVars)
  /\ Is("modbus", pollVars)       /\ Is("opcua", uaVars)
  /\ Is("lmdb", storeVars)        /\ Is("scope", scopeVars)
  /\ Is("storage", storageVars)   /\ Is("gate", gateVars)
  /\ Is("serve", serveVars)
  /\ Is("blocks", blocksVars)
  /\ Is("native", nativeVars)
  /\ Is("calls", grpcServerVars)
  /\ Is("program", mainVars)
  /\ Is("site", siteVars)
  /\ Is("wiring", wiringVars)
  /\ Is("config", configVars)

PartsNext ==
  \/ part = "life"      /\ LifeNext      /\ OthersWait
  \/ part = "watch"     /\ WatchNext     /\ OthersWait
  \/ part = "command"   /\ CommandNext   /\ OthersWait
  \/ part = "topology"  /\ TopologyNext  /\ OthersWait
  \/ part = "container" /\ ContainerNext /\ OthersWait
  \/ part = "bus"       /\ BusNext       /\ OthersWait
  \/ part = "log"       /\ LogNext       /\ OthersWait
  \/ part = "context"   /\ ContextNext   /\ OthersWait
  \/ part = "tls"       /\ TlsNext       /\ OthersWait
  \/ part = "websocket" /\ WsNext        /\ OthersWait
  \/ part = "grpc"      /\ GrpcNext      /\ OthersWait
  \/ part = "proto"     /\ ProtoNext     /\ OthersWait
  \/ part = "socket"    /\ SocketNext    /\ OthersWait
  \/ part = "mqtt"      /\ MqttNext      /\ OthersWait
  \/ part = "modbus"    /\ PollNext      /\ OthersWait
  \/ part = "opcua"     /\ UaNext        /\ OthersWait
  \/ part = "lmdb"      /\ StoreNext     /\ OthersWait
  \/ part = "scope"     /\ ScopeNext     /\ OthersWait
  \/ part = "storage"   /\ StorageNext   /\ OthersWait
  \/ part = "gate"      /\ GateNext      /\ OthersWait
  \/ part = "serve"     /\ ServeNext     /\ OthersWait
  \/ part = "blocks"    /\ BlocksNext    /\ OthersWait
  \/ part = "native"    /\ NativeNext    /\ OthersWait
  \/ part = "calls"     /\ GrpcServerNext /\ OthersWait
  \/ part = "program"   /\ MainNext      /\ OthersWait
  \/ part = "site"      /\ SiteNext      /\ OthersWait
  \/ part = "wiring"    /\ WiringNext    /\ OthersWait
  \/ part = "config"    /\ ConfigNext    /\ OthersWait

partsVars ==
  <<part, lifeVars, watchVars, commandVars, topologyVars, containerVars,
    busVars, logVars, contextVars, tlsVars, wsVars, grpcVars, protoVars,
    socketVars, mqttVars, pollVars, uaVars, storeVars, scopeVars, storageVars,
    gateVars, serveVars, blocksVars, nativeVars, grpcServerVars, mainVars,
    siteVars, wiringVars, configVars>>

(* Weak fairness where the event loop, the system's scheduler or a timer   *)
(* gives every runnable step its turn; nothing is assumed of clients,      *)
(* operators, devices and failures.  Every step of these actions changes   *)
(* one of the variables in the subscript, but for a tick in which nothing  *)
(* is left to count; the two steps of a reload are never enabled together. *)
PartsFairness ==
  /\ WF_<<main, bean, stop>>(part = "life" /\ MainStep)
  /\ WF_promo(part = "life" /\ PromotionStep)
  /\ \A a \in Adapter : WF_<<served, extra>>(part = "life" /\ ServeEnds(a))
  /\ WF_boss(part = "watch" /\ BossTurn)
  /\ WF_watchVars(part = "watch" /\ Tick)
  /\ \A w \in Index : WF_proc(part = "watch" /\ Goes(w))
  /\ \A j \in Job : WF_<<reads, reloadLock>>(part = "tls" /\ (ReadFile(j) \/ ReloadEnds(j)))
  /\ WF_watch(part = "tls" /\ WatcherWakes)

PartsSpec == PartsInit /\ [][PartsNext]_partsVars /\ PartsFairness

----------------------------------------------------------------------------
(* Type correctness of the part that runs; the others keep their initial   *)
(* states.                                                                 *)
PartsTypeOK ==
  /\ part \in Parts
  /\ part = "life"      => LifeTypeOK
  /\ part = "watch"     => WatchTypeOK
  /\ part = "command"   => CommandTypeOK
  /\ part = "topology"  => TopologyTypeOK
  /\ part = "container" => ContainerTypeOK
  /\ part = "bus"       => BusTypeOK
  /\ part = "log"       => LogTypeOK
  /\ part = "context"   => ContextTypeOK
  /\ part = "tls"       => TlsTypeOK
  /\ part = "websocket" => WsTypeOK
  /\ part = "grpc"      => GrpcTypeOK
  /\ part = "proto"     => ProtoTypeOK
  /\ part = "socket"    => SocketTypeOK
  /\ part = "mqtt"      => MqttTypeOK
  /\ part = "modbus"    => PollTypeOK
  /\ part = "opcua"     => UaTypeOK
  /\ part = "lmdb"      => StoreTypeOK
  /\ part = "scope"     => ScopeTypeOK
  /\ part = "storage"   => StorageTypeOK
  /\ part = "gate"      => GateTypeOK
  /\ part = "serve"     => ServeTypeOK
  /\ part = "blocks"    => BlocksTypeOK
  /\ part = "native"    => NativeTypeOK
  /\ part = "calls"     => GrpcServerTypeOK
  /\ part = "program"   => MainTypeOK
  /\ part = "site"      => SiteTypeOK
  /\ part = "wiring"    => WiringTypeOK
  /\ part = "config"    => ConfigTypeOK

(* The other parts: what the configuration answers was written, a Modbus   *)
(* cycle reads each field whole and the fields of one command at one       *)
(* instant, a Modbus server's image holds whole values and tells each      *)
(* write to its handler once, and a line of the gRPC core that is not in   *)
(* the log was counted.                                                    *)
OtherPartsAreSound ==
  /\ part = "config"  => ConfigIsSound
  /\ part = "modbus"  => PollIsSound
  /\ part = "serve"   => ServingIsSound
  /\ part = "native"  => NativeLogIsSound
=============================================================================
