------------------------------ MODULE WebSite ------------------------------
(***************************************************************************)
(* The web adapters of one process (adapters/web): each builds an          *)
(* application out of what was configured for its server_id, opens its     *)
(* port while the framework registers the controllers, and passes requests *)
(* through its middleware to a route.  uvicorn, Starlette and FastAPI are  *)
(* external: the last middleware added is the outermost, the first route   *)
(* that matches answers, and a lifespan that fails leaves a server that    *)
(* wants to exit.  Verifying a token is the subject of WebGate.            *)
(***************************************************************************)
EXTENDS Integers, Sequences, SequencesExt

CONSTANTS
  SiteIds,      \* the server_ids of the adapters, in the order of use()
  SiteSetups    \* configurations: see SiteAssumption

\* dev: xime.dev; docs: OpenApiConfig "unset", "set", "titled", "noschema"; jwt; stack:
\* the middleware of configure_middleware and configure_cors, in their order; cors: its
\* origins "listed", "star", "string", and allow_credentials; health; cell, flat: the
\* ssl of the process block and of `webserver`; controllers: in the order of the scan,
\* with path, server_id and whether the container has it; scan: "whole" or "broken";
\* management: the framework's listener, "off", "local", "outside"; reload: whether TLS
\* is reloaded by a request.  A "lost" middleware wants a component that the container
\* does not have.
TlsChoices == {"unset", "empty", "incomplete", "missing", "unreadable", "good"}

\* Names of classes and of adapters are not those that the model gives to what the
\* framework answers itself; a scan finds each class once.
OwnAnswers == {"", "schema", "page", "titled_page", "health", "report", "reload", "not_found",
               "not_allowed", "preflight", "unauthorized"}
ASSUME SiteAssumption ==
  /\ ToSet(SiteIds) \cap {"none", "management"} = {}
  /\ \A s \in SiteSetups :
      /\ s.stack \in Seq(ToSet(s.stack)) /\ s.controllers \in Seq(ToSet(s.controllers))
      /\ \A c, d \in ToSet(s.controllers) : c.name \notin OwnAnswers /\ (c.name = d.name => c = d)
      /\ {s.dev, s.jwt, s.health, s.credentials, s.reload} \subseteq BOOLEAN
      /\ s.docs \in {"unset", "set", "titled", "noschema"} /\ s.scan \in {"whole", "broken"}
      /\ ToSet(s.stack) \subseteq {"cors", "guard", "lost"} /\ s.origins \in {"listed", "star", "string"}
      /\ {s.cell, s.flat} \subseteq TlsChoices /\ s.management \in {"off", "local", "outside"}

VARIABLES
  siteSetup,  \* the configuration
  site,       \* site[i]: one adapter
  exchange    \* the request that was just answered, and how; nothing else moves then

siteVars == <<siteSetup, site, exchange>>

\* at: "new", "built", "listening", "deaf", "serving", "closed"; scheme: what its port
\* speaks; layers: its middleware, outermost first; routes: in the order they are tried;
\* left: the controllers that are still to be registered; schema: app.openapi_schema.
NewSite ==
  [at |-> "new", scheme |-> "none", layers |-> <<>>, routes |-> <<>>, left |-> <<>>,
   schema |-> {}]
NoExchange == [at |-> "none", path |-> "", kind |-> "", through |-> <<>>, answer |-> ""]

Sites == ToSet(SiteIds)
SiteInit ==
  /\ siteSetup \in SiteSetups
  /\ site = [i \in Sites \union {"management"} |-> NewSite]
  /\ exchange = NoExchange

SiteRoute(path, owner) == [path |-> path, owner |-> owner]
Aborted == \E i \in DOMAIN site : site[i].at = "refused"

----------------------------------------------------------------------------
(* Building the application                                                *)

(* resolve_tls: the block of the cell, empty or not, hides the flat one    *)
Tls == IF siteSetup.cell = "unset" THEN siteSetup.flat ELSE siteSetup.cell

(* _tls_kwargs: certificate and key together, and files that can be read   *)
TlsAllowed == Tls \in {"unset", "empty", "good"}
Scheme == IF Tls = "good" THEN "https" ELSE "http"

(* resolve_options: components from the container, values from YAML        *)
OptionsFound == "lost" \notin ToSet(siteSetup.stack)

(* validate_cors_options, on what resolve_options found                    *)
CorsAllowed ==
  "cors" \in ToSet(siteSetup.stack) =>
    siteSetup.origins # "string" /\ ~(siteSetup.origins = "star" /\ siteSetup.credentials)

(* WebServerConfig: the management listener is for the machine itself, and *)
(* a reload by request needs it                                            *)
ManagementAllowed ==
  siteSetup.management # "outside" /\ (siteSetup.reload => siteSetup.management = "local")

(* build_app adds from the inside out: the token check, what was           *)
(* configured, last to first, and the request context                      *)
Added ==
  (IF siteSetup.jwt THEN <<"jwt">> ELSE <<>>) \o Reverse(siteSetup.stack) \o <<"context">>
Layers == Reverse(Added)

(* _resolve_doc_urls: nothing outside development, and no page without the *)
(* schema it loads                                                         *)
DocsAllowed == siteSetup.dev /\ siteSetup.docs # "noschema"

(* _add_custom_swagger_ui: a titled page in the place of FastAPI's own     *)
PageOwner == IF siteSetup.docs = "titled" THEN "titled_page" ELSE "page"
SchemaRoutes == IF DocsAllowed THEN <<SiteRoute("schema", "schema")>> ELSE <<>>
PageRoutes == IF DocsAllowed THEN <<SiteRoute("docs", PageOwner)>> ELSE <<>>

(* add_health_routes; the documentation is there from the constructor on,  *)
(* but for a titled page                                                   *)
HealthRoutes == IF siteSetup.health THEN <<SiteRoute("healthz", "health")>> ELSE <<>>
FirstRoutes ==
  SchemaRoutes \o (IF PageOwner = "page" THEN PageRoutes \o HealthRoutes
                                        ELSE HealthRoutes \o PageRoutes)

(* An adapter is built when those before it have started; what it refuses  *)
(* ends the process                                                        *)
BuildSite(i) ==
  /\ site[i].at = "new" /\ ~Aborted
  /\ \A j \in 1 .. Len(SiteIds) : SiteIds[j] = i =>
       \A k \in 1 .. j - 1 : site[SiteIds[k]].at \notin {"new", "built"}
  /\ site' = [site EXCEPT ![i] =
                IF ManagementAllowed /\ OptionsFound /\ CorsAllowed /\ TlsAllowed
                THEN [NewSite EXCEPT !.at = "built", !.scheme = Scheme, !.layers = Layers,
                                     !.routes = FirstRoutes, !.left = siteSetup.controllers]
                ELSE [NewSite EXCEPT !.at = "refused"]]
  /\ UNCHANGED <<siteSetup, exchange>>

----------------------------------------------------------------------------
(* The lifespan, before the port opens                                     *)

OpensSite(i) == siteSetup.scan = "whole" /\ site[i].left = <<>>

(* _register_controllers: of the scanned classes those of this server_id;  *)
(* one that the container does not have fails the lifespan, and so does a  *)
(* scan that meets a broken import.  uvicorn's startup() then returns      *)
(* without opening the port.                                               *)
Include(i, s) ==
  LET c == Head(s.left)
  IN [s EXCEPT !.left = Tail(@),
               !.routes = IF c.server = i THEN Append(@, SiteRoute(c.path, c.name)) ELSE @]
RegisterNext(i) ==
  LET c == Head(site[i].left)
  IN /\ site[i].at = "built" /\ ~OpensSite(i)
     /\ site' = [site EXCEPT ![i] =
                   IF siteSetup.scan = "broken" \/ (c.server = i /\ ~c.bean)
                   THEN [@ EXCEPT !.at = "deaf"]
                   ELSE Include(i, @)]
     /\ UNCHANGED <<siteSetup, exchange>>

OpenSite(i) ==
  /\ site[i].at = "built" /\ OpensSite(i)
  /\ site' = [site EXCEPT ![i].at = "listening"]
  /\ UNCHANGED <<siteSetup, exchange>>

(* The management listener comes last: plain, without controllers,         *)
(* documentation or middleware, with the health report                     *)
ManagementHealth == <<SiteRoute("healthz", "report")>>
ManagementRoutes ==
  ManagementHealth \o IF siteSetup.reload THEN <<SiteRoute("reload", "reload")>> ELSE <<>>
OpenManagement ==
  /\ site["management"].at = "new" /\ ~Aborted
  /\ siteSetup.management # "off" /\ ManagementAllowed
  /\ \A i \in Sites : site[i].at \notin {"new", "built"}
  /\ site' = [site EXCEPT !["management"] =
                [NewSite EXCEPT !.at = "listening", !.scheme = "http",
                                !.routes = ManagementRoutes]]
  /\ UNCHANGED <<siteSetup, exchange>>

(* serve(): a server that wants to exit returns at once.  stop() shuts     *)
(* down what serve() has not taken over.                                   *)
ServeSite(i) ==
  /\ site[i].at \in {"listening", "deaf"}
  /\ site' = [site EXCEPT ![i].at = IF site[i].at = "deaf" THEN "closed" ELSE "serving"]
  /\ UNCHANGED <<siteSetup, exchange>>

StopSite(i) ==
  /\ site[i].at \in {"listening", "serving", "deaf"}
  /\ site' = [site EXCEPT ![i] = [NewSite EXCEPT !.at = "closed"]]
  /\ UNCHANGED <<siteSetup, exchange>>

----------------------------------------------------------------------------
(* A request                                                               *)

(* kind: "preflight" (OPTIONS with an origin), "bare" and "bearer".  Each  *)
(* layer answers itself or passes on.                                      *)
Answers(layer, kind, path) ==
  CASE layer = "cors" -> kind = "preflight"
    [] layer = "jwt" -> kind # "bearer" /\ ~(siteSetup.health /\ path = "healthz")
    [] OTHER -> FALSE
Stopping(layers, kind, path) == {k \in DOMAIN layers : Answers(layers[k], kind, path)}
Least(S) == CHOOSE k \in S : \A j \in S : k <= j

(* The route is tried in the order of registration; the methods of a       *)
(* controller are not those of a preflight                                 *)
Found(i, path) == {k \in DOMAIN site[i].routes : site[i].routes[k].path = path}
Routed(i, kind, path) ==
  IF Found(i, path) = {} THEN "not_found"
  ELSE IF kind = "preflight" THEN "not_allowed"
  ELSE site[i].routes[Least(Found(i, path))].owner

(* custom_openapi builds the schema from the routes of the first request   *)
(* for it, and keeps it                                                    *)
Controllers(i) == {r \in ToSet(site[i].routes) : \E c \in ToSet(siteSetup.controllers) : c.name = r.owner}
SchemaOf(i) == IF site[i].schema = {} THEN Controllers(i) ELSE site[i].schema

Ask(i, kind, path) ==
  LET layers  == site[i].layers
      stops   == Stopping(layers, kind, path)
      through == IF stops = {} THEN layers ELSE SubSeq(layers, 1, Least(stops))
      answer  == IF stops = {} THEN Routed(i, kind, path)
                 ELSE IF Last(through) = "cors" THEN "preflight" ELSE "unauthorized"
  IN /\ site[i].at \in {"listening", "serving"} /\ exchange = NoExchange
     /\ exchange' = [at |-> i, path |-> path, kind |-> kind, through |-> through, answer |-> answer]
     /\ site' = [site EXCEPT ![i].schema = IF answer = "schema" THEN SchemaOf(i) ELSE @]
     /\ UNCHANGED siteSetup

Answered == exchange # NoExchange /\ exchange' = NoExchange /\ UNCHANGED <<siteSetup, site>>

Asked == {c.path : c \in ToSet(siteSetup.controllers)} \union {"docs", "schema", "healthz", "reload"}
SiteChanges ==
  \/ OpenManagement
  \/ \E i \in Sites : BuildSite(i) \/ RegisterNext(i) \/ OpenSite(i) \/ ServeSite(i)
  \/ \E i \in DOMAIN site : StopSite(i)
SiteNext ==
  \/ exchange = NoExchange /\ SiteChanges
  \/ \E i \in DOMAIN site, kind \in {"preflight", "bare", "bearer"}, path \in Asked :
       Ask(i, kind, path)
  \/ Answered
SiteSpec == SiteInit /\ [][SiteNext]_siteVars
----------------------------------------------------------------------------
SiteTypeOK ==
  /\ siteSetup \in SiteSetups
  /\ \A i \in DOMAIN site :
       /\ site[i].at \in {"new", "built", "listening", "deaf", "serving", "closed", "refused"}
       /\ site[i].scheme \in {"none", "http", "https"}
  /\ exchange.at \in DOMAIN site \union {"none"}

(* A documentation page or the schema is only ever answered in development,*)
(* and where a page is, the schema that it loads is.  The schema that was  *)
(* built first, and is kept, names every controller of the adapter.        *)
DocsAreForDevelopment ==
  /\ exchange.answer \in {"schema", "page", "titled_page"} => siteSetup.dev
  /\ \A i \in Sites : \A k \in DOMAIN site[i].routes :
       site[i].routes[k].owner \in {"page", "titled_page"} =>
         \E l \in DOMAIN site[i].routes : site[i].routes[l] = SiteRoute("schema", "schema")
  /\ \A i \in Sites :
       site[i].schema # {} =>
         site[i].schema = {SiteRoute(c.path, c.name) :
                             c \in {d \in ToSet(siteSetup.controllers) : d.server = i}}

(* A request runs the controllers of its own adapter, and on a port that   *)
(* is open every one of them is there, unless a health route or an earlier *)
(* controller has its path.                                                *)
OwnControllers ==
  \A c \in ToSet(siteSetup.controllers) :
    /\ exchange.answer = c.name => exchange.at = c.server
    /\ exchange.at \in Sites \cap {c.server} /\ exchange.path = c.path /\ exchange.kind = "bearer" =>
         exchange.answer # "not_found"

(* A browser's preflight carries no token: where CORS is configured it is  *)
(* answered, and never refused for want of one.  No controller runs        *)
(* without a token where tokens are asked for, and everything runs inside  *)
(* the request context, through the middleware in its declared order.      *)
LayersAreRight ==
  exchange.at \in Sites =>
    /\ "cors" \in ToSet(siteSetup.stack) /\ exchange.kind = "preflight" =>
         exchange.answer = "preflight"
    /\ siteSetup.jwt /\ exchange.kind = "bare" =>
         exchange.answer \in {"unauthorized", "health"}
    /\ exchange.through # <<>> /\ Head(exchange.through) = "context"
    /\ \A k \in DOMAIN exchange.through \ {1} :
         exchange.through[k] # "jwt" =>
           k - 1 \in DOMAIN siteSetup.stack /\ exchange.through[k] = siteSetup.stack[k - 1]

(* No port speaks plain HTTP where the cell that describes it asks for a   *)
(* certificate, nor HTTPS where the cell asks for none; and a port that is *)
(* open never lets every origin send credentials.                          *)
PortsAreAsConfigured ==
  \A i \in Sites :
    site[i].at \in {"listening", "serving"} =>
      /\ siteSetup.cell \in {"unset", "empty"} \/ site[i].scheme = "https"
      /\ siteSetup.cell = "empty" => site[i].scheme = "http"
      /\ siteSetup.cell = "unset" => (site[i].scheme = "https" <=> siteSetup.flat = "good")
      /\ ~("cors" \in ToSet(siteSetup.stack) /\ siteSetup.origins = "star" /\ siteSetup.credentials)

(* The management listener is never reached from outside, runs nothing of  *)
(* the application, and answers whatever the application's tokens are; the *)
(* reload of certificates is there, and at no other port.                  *)
ManagementIsApart ==
  /\ site["management"].at = "listening" => siteSetup.management = "local"
  /\ exchange.at = "management" =>
       exchange.answer \in {"report", "reload", "not_found", "not_allowed"}
  /\ exchange.answer = "reload" => exchange.at = "management"
  /\ exchange.at = "management" /\ exchange.path = "reload" /\ siteSetup.reload
       /\ exchange.kind # "preflight" => exchange.answer = "reload"

SiteIsSound ==
  /\ DocsAreForDevelopment /\ OwnControllers /\ LayersAreRight /\ PortsAreAsConfigured
  /\ ManagementIsApart
=============================================================================
