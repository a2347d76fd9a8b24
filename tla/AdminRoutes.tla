------------------------------ MODULE AdminRoutes ------------------------------
(***************************************************************************)
(* What the admin's listener does with a request, and what the admin page  *)
(* asks of it: the gates (src/admin/gates.ts), the handler and its         *)
(* allowlists (src/admin/bff.ts), the embedded page (src/admin/static.ts,  *)
(* src/admin/server.ts), and on the other side the requests of the page's  *)
(* clients (services/admin-api.ts, core-bridge.ts, atomic-core-runtime.ts) *)
(* and its own routes (routeTree.gen.ts). All of it is without state.      *)
(*                                                                         *)
(* A path is the sequence of its segments, the last one empty after a      *)
(* trailing slash; queries are left out.                                   *)
(***************************************************************************)
EXTENDS Naturals, SequencesExt

CONSTANTS
  Provider,  \* the engines the page may build a runtime for
  ModelId    \* ids of models, each a sequence of segments: an id may contain "/"

ASSUME RoutesAssumption == \A id \in ModelId : id \in Seq(STRING) /\ Len(id) > 0

-----------------------------------------------------------------------------
(* The gates.                                                              *)

LoopbackHosts == {"127.0.0.1", "localhost", "[::1]"}
Mutating == {"POST", "PUT", "PATCH", "DELETE"}

\* gateRequest: the listener is bound to loopback, so every peer is; a request that changes
\* something names the header, and the page's own origin if any.
Gate(r) ==
  IF r.host \notin LoopbackHosts THEN 421
  ELSE IF r.method \in Mutating /\ (~r.header \/ r.origin \notin {"none", r.host}) THEN 403
  ELSE 200

-----------------------------------------------------------------------------
(* The proxy to the core's control API.                                    *)

ReadAllow ==
  {<<"health">>, <<"snapshot">>, <<"sessions">>, <<"server">>, <<"backends">>, <<"hardware">>,
   <<"environments">>, <<"settings">>, <<"telemetry">>, <<"disk">>}

\* The prefixes that end in "/", and those that do not.
WriteUnder ==
  {<<"POST", <<"models">>>>, <<"POST", <<"backends">>>>, <<"PUT", <<"backends">>>>,
   <<"DELETE", <<"backends">>>>, <<"PATCH", <<"settings">>>>, <<"POST", <<"settings">>>>,
   <<"POST", <<"downloads">>>>}
WriteAt ==
  {<<"POST", <<"server", "start">>>>, <<"POST", <<"server", "stop">>>>,
   <<"PUT", <<"server", "inspector">>>>, <<"PUT", <<"hardware", "override">>>>,
   <<"DELETE", <<"hardware", "override">>>>, <<"POST", <<"environments">>>>,
   <<"POST", <<"disk", "available">>>>, <<"POST", <<"gguf", "validate">>>>}

\* Segments no route has, that begin with one that a prefix ends in: a prefix without the "/" is
\* compared character by character.
Continues == {<<"starting", "start">>, <<"environments-old", "environments">>}
GoesOn(prefix, path) ==
  /\ Len(path) >= Len(prefix) /\ IsPrefix(Front(prefix), path)
  /\ <<path[Len(prefix)], Last(prefix)>> \in Continues

\* Mutant: a route of the control API is matched as a whole.
WholeRouteAllowed(method, path) ==
  IF method = "GET" THEN path \in ReadAllow
  ELSE \/ \E w \in WriteUnder : w[1] = method /\ IsStrictPrefix(w[2], path)
       \/ <<method, path>> \in WriteAt

proxyAllowed(method, path) ==
  IF method = "GET" THEN \E p \in ReadAllow : IsPrefix(p, path)
  ELSE \/ \E w \in WriteUnder : w[1] = method /\ IsStrictPrefix(w[2], path)
       \/ \E w \in WriteAt : w[1] = method /\ (IsPrefix(w[2], path) \/ GoesOn(w[2], path))

-----------------------------------------------------------------------------
(* The handler. It names what becomes of a request under /api/ that has    *)
(* passed the gate, given whether its sender is authorised.                *)

Core == <<"api", "core">>

Unbuilt(path) ==
  \/ IsPrefix(<<"api", "setup">>, path) \/ path = <<"api", "logs">>
  \/ Len(path) = 4 /\ path[2] = "engines" /\ path[4] = "schema"

Handler(method, path, authorised) ==
  CASE path = <<"api", "session">> ->
         IF method = "POST" THEN "login" ELSE IF method = "DELETE" THEN "logout" ELSE "no-method"
    [] path # <<"api", "session">> /\ ~authorised -> "unauthorised"
    [] OTHER ->
         CASE path = <<"api", "status">> /\ method = "GET" -> "status"
           [] path = <<"api", "config">> -> IF method = "GET" THEN "config" ELSE "not-implemented"
           [] path = <<"api", "events">> /\ method = "GET" -> "events"
           [] IsStrictPrefix(Core, path) ->
                IF proxyAllowed(method, SubSeq(path, 3, Len(path))) THEN "core" ELSE "forbidden"
           [] Unbuilt(path) -> "not-implemented"
           [] OTHER -> "unknown"

Refusals ==
  [handler \in {"unauthorised", "forbidden", "unknown", "no-method", "not-implemented"} |->
     CASE handler = "unauthorised" -> 401
       [] handler = "forbidden" -> 403
       [] handler = "unknown" -> 404
       [] handler = "no-method" -> 405
       [] handler = "not-implemented" -> 501]

\* How the work of a handler, a call of the core most often, may end.
Outcomes == {"ok", "bad-body", "not-found", "core-error", "core-refusal", "internal-error"}

\* statusFor, with the 200 of what did not fail.
StatusFor(outcome) ==
  CASE outcome = "ok" -> 200
    [] outcome = "not-found" -> 404
    [] outcome = "core-error" -> 502
    [] outcome \in {"bad-body", "core-refusal"} -> 400
    [] outcome = "internal-error" -> 500

\* The status of the answer, for all but a login.
AnswerTo(handler, outcome) ==
  IF handler \in DOMAIN Refusals THEN Refusals[handler]
  ELSE IF handler \in {"core", "status", "config"} THEN StatusFor(outcome)
  ELSE IF handler = "logout" THEN 204 ELSE 200

\* What the page makes of it: the sign-in screen is for a 401 alone.
isUnauthorized(code) == code = 401

-----------------------------------------------------------------------------
(* The embedded page.                                                      *)

Assets == {<<"index.html">>, <<"assets", "index.js">>, <<"assets", "index.css">>}
Dotted == {"index.html", "index.js", "index.css", "old.js"} \* segments with a dot

\* serveStatic: a file, else the page for whatever does not look like one.
ServeStatic(path) ==
  CASE path = <<>> -> "page"
    [] path \in Assets -> "asset"
    [] path # <<>> /\ path \notin Assets ->
         IF \E i \in DOMAIN path : path[i] \in Dotted THEN "not-found" ELSE "page"

\* Mutant: everything whose first segment is "api" is the handler's.
ListenerByName(path) == IF path # <<>> /\ Head(path) = "api" THEN "answer" ELSE ServeStatic(path)

\* What a browser that loads `path` gets: the handler's answer if it begins with "/api/".
Listener(path) == IF Len(path) > 1 /\ Head(path) = "api" THEN "answer" ELSE ServeStatic(path)

-----------------------------------------------------------------------------
(* What the page asks for.                                                 *)

\* The router's own paths, as its links write them.
Pages == {<<>>} \cup {<<p>> : p \in {"hardware", "logs", "api", "engines", "models", "settings", "setup"}}

\* request(): the header on every mutation; the browser adds the origin of the page.
PageRequest(call, host) ==
  [method |-> call.method, path |-> call.path, host |-> host,
   header |-> call.method # "GET", origin |-> IF call.method = "GET" THEN "none" ELSE host]

Ask(name, method, path) == [name |-> name, method |-> method, path |-> path]

\* createAdminApi, but for the login.
AdminCalls == {Ask("status", "GET", <<"api", "status">>), Ask("config", "GET", <<"api", "config">>)}
LogoutCall == Ask("logout", "DELETE", <<"api", "session">>)

\* createHttpInvoke: the three commands a page can have run.
Invoke(name, command, method, path) ==
  CASE command = "atomic_core_call" -> Ask(name, method, Core \o path)
    [] command = "atomic_core_snapshot" -> Ask(name, "GET", Core \o <<"snapshot">>)
    [] command = "atomic_core_status" -> Ask(name, "GET", <<"api", "status">>)

CoreCall(name, method, path) == Invoke(name, "atomic_core_call", method, path)

\* getStatus; listSessions, which getLoadedModels and findSession ask anew each time.
SessionCalls ==
  {Invoke("getStatus", "atomic_core_status", "GET", <<>>), CoreCall("listSessions", "GET", <<"sessions">>)}

modelPath(p, id, suffix) == <<"models", p>> \o id \o suffix

ModelCalls(p, id) ==
  {CoreCall("load", "POST", modelPath(p, id, <<"load">>)),
   CoreCall("unload", "POST", modelPath(p, id, <<"unload">>)),
   CoreCall("cancelLoad", "POST", modelPath(p, id, <<"load", "cancel">>)),
   CoreCall("increaseContext", "POST", modelPath(p, id, <<"ctx", "increase">>)),
   CoreCall("recreateSession", "POST", modelPath(p, id, <<"recreate">>))}

SettingsCalls(p) ==
  {CoreCall("importSettings", "POST", <<"settings", p, "import">>),
   CoreCall("getSettings", "GET", <<"settings", p>>),
   CoreCall("acknowledgeSettings", "POST", <<"settings", p, "acknowledge">>),
   CoreCall("settingsStatus", "GET", <<"settings", "status">>),
   CoreCall("sendHardwareOverride", "PUT", <<"hardware", "override">>)}

BackendCalls(p) ==
  {CoreCall("listInstalledBackends", "GET", <<"backends", p>>),
   CoreCall("installBackend", "POST", <<"backends", p, "install">>),
   CoreCall("cancelBackendDownload", "POST", <<"downloads", "task", "cancel">>),
   CoreCall("removeBackend", "DELETE", <<"backends", p, "version", "backend">>),
   CoreCall("getOptimalCache", "GET", <<"backends", p, "optimal">>),
   CoreCall("setOptimalCache", "PUT", <<"backends", p, "optimal">>),
   Invoke("getOptimalSnapshot", "atomic_core_snapshot", "GET", <<>>)}

FactCalls(p, id) ==
  {CoreCall("capabilities", "GET", modelPath(p, id, <<"capabilities">>)),
   CoreCall("validateGguf", "POST", <<"gguf", "validate">>),
   CoreCall("devices", "GET", <<"hardware", "devices">>),
   CoreCall("embed", "POST", modelPath(p, id, <<"embed">>)),
   CoreCall("foundationModelsAvailability", "GET", <<"runtimes", "foundation-models", "availability">>)}

EngineCalls(p) ==
  SettingsCalls(p) \cup BackendCalls(p) \cup UNION {ModelCalls(p, id) \cup FactCalls(p, id) : id \in ModelId}

\* createCoreRuntime: every call it can make.
RuntimeCalls == SessionCalls \cup UNION {EngineCalls(p) : p \in Provider}

\* Requests no page makes: of scripts with the token, to routes that are not or not yet served.
ScriptCalls ==
  {Ask("edit config", "PUT", <<"api", "config">>), Ask("setup", "GET", <<"api", "setup", "state">>),
   Ask("schema", "GET", <<"api", "engines", "llamacpp", "schema">>), Ask("unknown", "GET", <<"api", "models">>),
   Ask("session", "PUT", <<"api", "session">>), Ask("sessions", "GET", Core \o <<"sessions">>),
   Ask("shutdown", "POST", Core \o <<"shutdown">>), Ask("models", "POST", Core \o <<"models", "">>),
   Ask("no route", "POST", Core \o <<"server", "starting">>), Ask("events", "GET", <<"api", "events">>)}
=============================================================================
