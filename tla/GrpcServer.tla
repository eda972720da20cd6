---------------------------- MODULE GrpcServer ----------------------------
(***************************************************************************)
(* A gRPC endpoint: its start with or without TLS, the certificate it      *)
(* presents while the provider rotates it, and one call with the task      *)
(* that serves it, the task of a streaming handler, and the two built-in   *)
(* interceptors around them: the request context, then the mapping of      *)
(* errors to statuses.                                                     *)
(***************************************************************************)
EXTENDS Naturals, Sequences

CONSTANTS
  EndpointSetups, \* configurations an endpoint may be started with
  ErrorMaps,      \* mappings of exception types to codes, in their order
  Supertypes,     \* exception type -> its types, for isinstance
  MaxRotations,   \* bound: certificates after the first
  MaxFetchErrors, \* bound: failures of the provider
  MaxStreamed     \* bound: chunks of a call

CallKinds == {"unary", "upload", "download", "typed"}
ErrorType == DOMAIN Supertypes
NoStatus == [code |-> "none", details |-> "none"]
Status(c, d) == [code |-> c, details |-> d]

\* The mapping pairs names of types with codes; no type has the name of a text that
\* is sent without one.
ASSUME GrpcServerAssumption ==
  /\ \A m \in ErrorMaps :
       m \in Seq({m[i] : i \in DOMAIN m}) /\ \A i \in DOMAIN m : m[i] = <<m[i][1], m[i][2]>>
  /\ "StopAsyncIteration" \in ErrorType
  /\ ErrorType \cap {"none", "generic", "library", "own"} = {}
NoRpc == [kind |-> "none", phase |-> "none", context |-> FALSE, handler |-> "none",
           raised |-> "none", queue |-> <<>>, written |-> 0, sent |-> 0,
           status |-> NoStatus, aborts |-> 0]

VARIABLES
  endpoint,  \* its setup, its phase, the port it bound and the services it has
  certs,     \* the provider's version, `last_version`, the certificate presented, ...
  handshakes, \* what each handshake presented: [since, presented, failed]
  errorMap,  \* the mapping registered at startup
  rpc        \* the call

grpcServerVars == <<endpoint, certs, handshakes, errorMap, rpc>>

GrpcServerInit ==
  /\ endpoint \in [setup : EndpointSetups, phase : {"new"}, bound : {"none"}]
  /\ certs = [version |-> 0, read |-> 0, last |-> 0, presented |-> 0, step |-> "idle",
              since |-> 0, errors |-> 0]
  /\ handshakes = {}
  /\ errorMap \in ErrorMaps
  /\ rpc = NoRpc

-----------------------------------------------------------------------------
(* start                                                                   *)

Setup == endpoint.setup
Refuse == endpoint' = [endpoint EXCEPT !.phase = "refused"]

(* a cell without a port, or with the process' native logging in it; then  *)
(* the handlers and the controllers of this server id are registered       *)
StartChecked ==
  /\ endpoint.phase = "new"
  /\ IF Setup.cell # "ok" THEN Refuse
     ELSE endpoint' = [endpoint EXCEPT !.phase = "registered"]
  /\ UNCHANGED <<certs, handshakes, errorMap, rpc>>

(* _build_credentials without a provider: no TLS, or the files of the      *)
(* configuration, and a provider that is not in the container              *)
BindStatic ==
  /\ endpoint.phase = "registered" /\ Setup.tls # "provider"
  /\ endpoint' = [endpoint EXCEPT !.phase = "bound",
                                  !.bound = IF Setup.tls = "off" THEN "plain" ELSE "secure"]
  /\ UNCHANGED <<certs, handshakes, errorMap, rpc>>

ProviderMissing ==
  /\ endpoint.phase = "registered" /\ Setup.tls = "provider" /\ Setup.provider = "missing"
  /\ Refuse /\ UNCHANGED <<certs, handshakes, errorMap, rpc>>

(* build_dynamic_server_credentials: the version is read before the        *)
(* certificate                                                             *)
ReadFirstVersion ==
  /\ endpoint.phase = "registered" /\ Setup.tls = "provider" /\ Setup.provider # "missing"
  /\ endpoint' = [endpoint EXCEPT !.phase = "credentials"]
  /\ certs' = [certs EXCEPT !.read = certs.version, !.last = certs.version]
  /\ UNCHANGED <<handshakes, errorMap, rpc>>

(* the certificate itself, or the failure that stops the start: mutual TLS *)
(* needs the authority's certificate                                       *)
ReadFirstCertificate ==
  /\ endpoint.phase = "credentials"
  /\ IF Setup.provider = "ok"
       THEN /\ endpoint' = [endpoint EXCEPT !.phase = "bound", !.bound = "secure"]
            /\ certs' = [certs EXCEPT !.presented = certs.version]
       ELSE Refuse /\ UNCHANGED certs
  /\ UNCHANGED <<handshakes, errorMap, rpc>>

Serve ==
  /\ endpoint.phase = "bound" /\ endpoint' = [endpoint EXCEPT !.phase = "serving"]
  /\ UNCHANGED <<certs, handshakes, errorMap, rpc>>

-----------------------------------------------------------------------------
(* The certificate: the provider rotates it on a thread of its own, and    *)
(* gRPC asks for a newer one at every handshake                            *)

ProviderRotates ==
  /\ Setup.tls = "provider" /\ certs.version < MaxRotations
  /\ endpoint.phase \in {"credentials", "serving"} /\ rpc = NoRpc
  /\ certs' = [certs EXCEPT !.version = @ + 1]
  /\ UNCHANGED <<endpoint, handshakes, errorMap, rpc>>

Handshake(failed) ==
  handshakes' = handshakes \union
    {[since |-> certs.since, presented |-> certs'.presented, failed |-> failed]}

HandshakeBegins ==
  /\ endpoint.phase = "serving" /\ Setup.tls = "provider" /\ certs.step = "idle" /\ rpc = NoRpc
  /\ certs' = [certs EXCEPT !.step = "fetch", !.since = certs.version]
  /\ UNCHANGED <<endpoint, handshakes, errorMap, rpc>>

(* fetch: the version first; without a new one the current stays           *)
FetchVersion ==
  /\ certs.step = "fetch"
  /\ IF certs.version = certs.last
       THEN certs' = [certs EXCEPT !.step = "idle"] /\ Handshake(FALSE)
       ELSE certs' = [certs EXCEPT !.read = certs.version, !.step = "current"] /\ UNCHANGED handshakes
  /\ UNCHANGED <<endpoint, errorMap, rpc>>

FetchCurrent ==
  /\ certs.step = "current"
  /\ certs' = [certs EXCEPT !.presented = certs.version, !.last = certs.read, !.step = "idle"]
  /\ Handshake(FALSE) /\ UNCHANGED <<endpoint, errorMap, rpc>>

(* the provider fails: the current certificate is kept                     *)
FetchFails ==
  /\ certs.step \in {"fetch", "current"} /\ certs.errors < MaxFetchErrors
  /\ certs' = [certs EXCEPT !.step = "idle", !.errors = @ + 1]
  /\ Handshake(TRUE) /\ UNCHANGED <<endpoint, errorMap, rpc>>

-----------------------------------------------------------------------------
(* The interceptors                                                        *)

Moves(changes) == rpc' = changes /\ UNCHANGED <<endpoint, certs, handshakes, errorMap>>

(* RequestContextInterceptor: the context is of the task that serves       *)
Over(r) == [r EXCEPT !.phase = "over", !.context = FALSE]
EndsWith(r, status) == [Over(r) EXCEPT !.status = status]

(* _resolve_status_code: the first mapping of a type it is an instance of  *)
MappedAt(e) == {i \in DOMAIN errorMap : errorMap[i][1] \in Supertypes[e]}
IsMapped(e) == MappedAt(e) # {}
Mapping(e) == errorMap[CHOOSE i \in MappedAt(e) : \A j \in MappedAt(e) : i <= j]
ErrorStatus(e) ==
  IF IsMapped(e) THEN Status(Mapping(e)[2], e) ELSE Status("INTERNAL", "generic")

(* ErrorMappingInterceptor: abort, but what was aborted already, or is an  *)
(* error of gRPC, goes on                                                  *)
Fails(r, e) ==
  IF e \in {"AbortError", "RpcError"}
    THEN EndsWith(r, IF e = "AbortError" THEN r.status ELSE Status("UNKNOWN", "library"))
    ELSE [EndsWith(r, ErrorStatus(e)) EXCEPT !.aborts = @ + 1]

-----------------------------------------------------------------------------
(* A call                                                                  *)

\* bound: a call and the rotation share nothing, an execution has one of them
RpcBegins(k) ==
  /\ endpoint.phase = "serving" /\ rpc = NoRpc /\ certs.version = 0 /\ handshakes = {}
  /\ Moves([NoRpc EXCEPT !.kind = k, !.context = TRUE, !.handler = "running",
            !.phase = CASE k = "unary" -> "handling" [] k = "upload" -> "priming"
                        [] k = "download" -> "consuming" [] k = "typed" -> "handling"])

(* _GrpcUploadStream.prime: the first message carries the request; a       *)
(* client that sends none is an error like any other of the handler        *)
Primed == rpc.phase = "priming" /\ Moves([rpc EXCEPT !.phase = "handling"])
NothingSent ==
  rpc.phase = "priming" /\ Moves(Fails([rpc EXCEPT !.handler = "ended"], "StopAsyncIteration"))

(* a handler that runs in the serving task returns or raises; before it    *)
(* raises AbortError it has aborted the call itself                        *)
MethodReturns ==
  /\ rpc.phase = "handling"
  /\ Moves(EndsWith([rpc EXCEPT !.handler = "ended"], Status("OK", "none")))
MethodAborts(r) == [r EXCEPT !.status = Status("own", "own"), !.aborts = @ + 1]
MethodRaises(e) ==
  /\ rpc.phase = "handling"
  /\ LET r == [rpc EXCEPT !.handler = "ended"]
     IN Moves(Fails(IF e = "AbortError" THEN MethodAborts(r) ELSE r, e))

(* _server_stream_typed_handler: an item of the handler's generator        *)
TypedItem ==
  /\ rpc.phase = "handling" /\ rpc.kind = "typed" /\ rpc.written < MaxStreamed
  /\ Moves([rpc EXCEPT !.phase = "yielding", !.written = @ + 1, !.sent = @ + 1])

(* the task of a streaming handler: _GrpcDownloadStream.write, its end and *)
(* its failure, which both put the end mark                                *)
TaskWrites ==
  /\ rpc.kind = "download" /\ rpc.handler = "running" /\ rpc.written < MaxStreamed
  /\ Moves([rpc EXCEPT !.written = @ + 1, !.queue = Append(@, "chunk")])
TaskReturns ==
  /\ rpc.kind = "download" /\ rpc.handler = "running"
  /\ Moves([rpc EXCEPT !.handler = "ended", !.queue = Append(@, "done")])
TaskRaises(e) ==
  /\ rpc.kind = "download" /\ rpc.handler = "running" /\ e # "AbortError"
  /\ Moves([rpc EXCEPT !.handler = "ended", !.raised = e, !.queue = Append(@, "done")])
TaskCancelled ==
  /\ rpc.handler = "cancelling"
  /\ Moves([rpc EXCEPT !.handler = "cancelled", !.queue = Append(@, "done")])

(* _server_stream_handler: the serving task hands over what the handler    *)
(* wrote, and at the end mark the handler's own end                        *)
TakeChunk ==
  /\ rpc.phase = "consuming" /\ rpc.queue # <<>> /\ Head(rpc.queue) = "chunk"
  /\ Moves([rpc EXCEPT !.phase = "yielding", !.queue = Tail(@), !.sent = @ + 1])
Resumed ==
  /\ rpc.phase = "yielding"
  /\ Moves([rpc EXCEPT !.phase = IF rpc.kind = "download" THEN "consuming" ELSE "handling"])
TakeDone ==
  /\ rpc.phase = "consuming" /\ rpc.queue # <<>> /\ Head(rpc.queue) = "done"
  /\ Moves([rpc EXCEPT !.phase = "joining", !.queue = Tail(@)])
Joined ==
  /\ rpc.phase = "joining"
  /\ Moves(IF rpc.raised = "none" THEN EndsWith(rpc, Status("OK", "none"))
         ELSE Fails(rpc, rpc.raised))

(* the generators' finally: the handler's task is cancelled, its generator *)
(* closed                                                                  *)
Released(r) ==
  Over([r EXCEPT !.handler = IF @ # "running" THEN @
                             ELSE IF r.kind = "download" THEN "cancelling" ELSE "ended"])

(* the client leaves, or the grace of stop() is over: the serving task is  *)
(* cancelled where it waits; a generator it is not in is closed later      *)
CallerLeaves ==
  /\ rpc.phase \in {"priming", "handling", "consuming", "yielding", "joining"}
  /\ LET r == [rpc EXCEPT !.status = Status("CANCELLED", "none")]
     IN Moves(IF rpc.phase = "yielding" THEN [r EXCEPT !.phase = "abandoned"] ELSE Released(r))
GeneratorClosed == rpc.phase = "abandoned" /\ Moves(Released(rpc))

(* stop: no call is accepted any more                                      *)
StopEndpoint ==
  /\ endpoint.phase = "serving"
  /\ endpoint' = [endpoint EXCEPT !.phase = "stopped"]
  /\ UNCHANGED <<certs, handshakes, errorMap, rpc>>

GrpcServerNext ==
  \/ StartChecked \/ BindStatic \/ ProviderMissing \/ ReadFirstVersion \/ ReadFirstCertificate
  \/ Serve \/ ProviderRotates \/ HandshakeBegins \/ FetchVersion \/ FetchCurrent \/ FetchFails
  \/ \E k \in CallKinds : RpcBegins(k)
  \/ \E e \in ErrorType : MethodRaises(e) \/ TaskRaises(e)
  \/ Primed \/ NothingSent \/ MethodReturns \/ TypedItem
  \/ TaskWrites \/ TaskReturns \/ TaskCancelled \/ TakeChunk \/ Resumed \/ TakeDone \/ Joined
  \/ CallerLeaves \/ GeneratorClosed \/ StopEndpoint

GrpcServerSpec == GrpcServerInit /\ [][GrpcServerNext]_grpcServerVars

-----------------------------------------------------------------------------
(* Values stay in their ranges.                                            *)
GrpcServerTypeOK ==
  /\ endpoint.phase \in {"new", "refused", "registered", "credentials", "bound", "serving",
                         "stopped"}
  /\ endpoint.bound \in {"none", "plain", "secure"}
  /\ certs.version \in 0 .. MaxRotations /\ certs.errors \in 0 .. MaxFetchErrors
  /\ certs.step \in {"idle", "fetch", "current"}
  /\ rpc.written \in 0 .. MaxStreamed /\ rpc.sent \in 0 .. MaxStreamed
  /\ rpc.phase \in {"none", "priming", "handling", "consuming", "yielding", "joining",
                    "abandoned", "over"}
  /\ rpc.handler \in {"none", "running", "ended", "cancelling", "cancelled"}

(* An endpoint that is configured for TLS never listens without it: a      *)
(* provider that is missing or fails refuses the start.                    *)
NeverInTheClear ==
  endpoint.phase \in {"bound", "serving", "stopped"} =>
    (endpoint.bound = "plain" <=> Setup.tls = "off")

(* A handshake presents a certificate at least as new as the provider's    *)
(* was when it began, unless the provider failed at it, whatever rotations *)
(* fell between the reads of earlier ones: the version is read before the  *)
(* certificate it stands for (tls/_credentials.py fetch).                  *)
CertificateIsFresh == \A h \in handshakes : h.presented >= h.since \/ h.failed

(* A stream that ends with OK or with the handler's error brought every    *)
(* chunk the handler wrote before it.                                      *)
StreamIsWhole ==
  rpc.phase = "over" /\ rpc.status.code # "CANCELLED" => rpc.sent = rpc.written

(* Nobody keeps working for a call that is over: the handler has ended or  *)
(* its task is cancelled, also when the client left while the generator    *)
(* was suspended.                                                          *)
NoHandlerIsLeft == rpc.phase = "over" => rpc.handler # "running"

(* A call ends with one status: what the handler aborted with is kept, a   *)
(* mapped error has the code of its first mapping, and of an unmapped one  *)
(* the client learns nothing.                                              *)
OneStatus ==
  /\ rpc.aborts <= 1
  /\ rpc.phase = "over" => rpc.status # NoStatus
  /\ rpc.status.details \in ErrorType =>
       \E i \in DOMAIN errorMap :
         /\ errorMap[i] \in Supertypes[rpc.status.details] \X {rpc.status.code}
         /\ \A j \in 1 .. i - 1 : errorMap[j][1] \notin Supertypes[rpc.status.details]
  /\ rpc.status.code = "INTERNAL" => rpc.status.details \in ErrorType \union {"generic"}

CallsAreServed ==
  NeverInTheClear /\ CertificateIsFresh /\ StreamIsWhole /\ NoHandlerIsLeft /\ OneStatus
=============================================================================
