------------------------------- MODULE WebApi -------------------------------
(***************************************************************************)
(* A call on the API, from the function of a client library that makes it  *)
(* to the error, or none, that the function returns.                       *)
(*                                                                         *)
(* A client function checks its arguments, sends one request and looks at  *)
(* the status of the response.  The server authenticates it, finds the     *)
(* manager of the cluster that the headers name (managers are cached),     *)
(* routes the request to a handler, which checks it again, calls one       *)
(* operation of the manager and answers; errors become statuses on the way *)
(* out.  The client may give up at any moment, and the server goes on.     *)
(*                                                                         *)
(* Three tables are the bulk of the code: what each client function sends  *)
(* and accepts, which handler a route leads to, and what each handler      *)
(* checks, calls and answers.  They were written apart from each other.    *)
(*                                                                         *)
(* What the manager does is free here (the other modules are about it): an *)
(* operation is done, already was, or fails in one of the ways that        *)
(* ErrorMiddleware tells apart.  Sessions (exec, debug) are not here.      *)
(***************************************************************************)
EXTENDS Naturals, Sequences

CONSTANTS
    Clients,       \* processes that call the API
    CallsOf(_),    \* the calls that a client makes, each with its headers
    Clusters,      \* the configured clusters, in order
    ClusterNames,  \* the names that requests may bring
    NoAddress,     \* headers without the address of a cluster
    MaxCalls       \* bound: calls ever made

VARIABLES
    call,      \* the call that each client is making
    managers,  \* the cached manager of each cluster, if any
    made,      \* how many calls were made
    asked      \* history: clusters for which a request asked for no validation

webVars == <<call, managers, made, asked>>

----------------------------------------------------------------------------
(* Handlers: the flaws of a request that they refuse, the operation they   *)
(* call, and the status of success.  A refusal is 400 unless it is listed  *)
(* as an error of the server's own.                                        *)

Handler(refuses, op, ok) ==
    [refuses |-> refuses, fails |-> {}, op |-> op, ok |-> ok]
Faulty(fails, op, ok) ==
    [refuses |-> {}, fails |-> fails, op |-> op, ok |-> ok]

\* What the readers of bodies refuse: not a form, empty or without the key.
formValue == {"body", "syntax", "name"}
getFiles == {"syntax"}
getValueFromFormOrMultipart == {"body", "syntax"}
validateCertManagerRequest == {"dns"}

healthcheck == Handler({}, "none", 200)

serviceCreate == Handler({"syntax"}, "CreateInstance", 201)
serviceDelete == Handler({"instance"}, "DeleteInstance", 200)
serviceUpdate == Handler({"syntax"}, "UpdateInstance", 200)
servicePlans == Handler({}, "GetPlans", 200)
serviceInfo == Handler({}, "GetInstance", 200)
serviceBindApp == Handler({"body", "syntax"}, "BindApp", 201)
serviceUnbindApp == Faulty(formValue, "UnbindApp", 200)
serviceBindUnit == Handler({}, "none", 201)
serviceUnbindUnit == Handler({}, "none", 200)
serviceStatus == Handler({}, "GetInstanceAddress", 204)
serviceNodeStatus == Handler({}, "GetInstanceStatus", 200)
getServiceFlavors == Handler({}, "GetFlavors", 200)
getInstanceFlavors == getServiceFlavors

getAutoscale == Handler({}, "GetAutoscale", 200)
updateAutoscale == Handler({"syntax"}, "UpdateAutoscale", 200)
removeAutoscale == Handler({}, "DeleteAutoscale", 200)

scale == Handler({"syntax"}, "Scale", 200)
start == Handler({}, "Start", 200)
restart == Handler({}, "Restart", 200)
stop == Handler({}, "Stop", 200)
instanceInfo == Handler({}, "GetInstanceInfo", 200)

updateCertificate ==
    Handler(getValueFromFormOrMultipart \cup {"pair"}, "UpdateCertificate", 200)
deleteCertificate == Faulty({"escape"}, "DeleteCertificate", 200)
listCertManagerRequests == Handler({}, "GetCertManagerRequests", 200)
updateCertManagerRequest ==
    Handler({"syntax"} \cup validateCertManagerRequest, "UpdateCertManagerRequest", 200)
\* Which of two operations it calls depends on the request: OpOf.
deleteCertManagerRequest == Handler({}, "DeleteCertManagerRequest", 200)

listBlocks == Handler({}, "ListBlocks", 200)
updateBlock == Handler({"body", "syntax", "macro"}, "UpdateBlock", 200)
deleteBlock == Handler({}, "DeleteBlock", 200)
listLuaBlocks == Handler({}, "ListBlocks", 200)
updateLuaBlock == Handler({"syntax"}, "UpdateBlock", 200)
deleteLuaBlock == Faulty(formValue, "DeleteBlock", 200)

listExtraFiles == Handler({}, "GetExtraFiles", 200)
getExtraFile == Handler({"escape"}, "GetExtraFiles", 200)
addExtraFiles == Handler(getFiles \cup {"body"}, "CreateExtraFiles", 201)
updateExtraFiles == Handler(getFiles \cup {"body"}, "UpdateExtraFiles", 200)
deleteExtraFiles == Handler({"syntax"}, "DeleteExtraFiles", 200)

getRoutes == Handler({}, "GetRoutes", 200)
\* As updateRoute, which answers as other updates do (a mutant).
updateRouteOK == Handler({"syntax", "macro"}, "UpdateRoute", 200)

updateRoute == Handler({"syntax", "macro"}, "UpdateRoute", 201)
deleteRoute == Handler(formValue, "DeleteRoute", 200)

cachePurge == Handler({"body", "syntax", "instance"}, "PurgeCache", 200)
cachePurgeBulk == Handler({"body", "syntax", "instance"}, "PurgeCacheBulk", 200)

getUpstreams == Handler({}, "GetUpstreams", 200)
addUpstream == Handler({"syntax"}, "AddUpstream", 201)
deleteUpstream == Handler({"syntax"}, "DeleteUpstream", 204)

getUpstreamOptions == Handler({}, "GetUpstreamOptions", 200)
addUpstreamOptions == Handler({"body", "syntax"}, "EnsureUpstreamOptions", 201)
updateUpstreamOptions == Handler({"body", "syntax", "name"}, "EnsureUpstreamOptions", 200)
deleteUpstreamOptions == Handler({"name"}, "DeleteUpstreamOptions", 200)

log == Handler({}, "Log", 200)
getMetadata == Handler({}, "GetMetadata", 200)
setMetadata == Handler({"syntax"}, "SetMetadata", 200)
unsetMetadata == Handler({"syntax"}, "UnsetMetadata", 200)

\* The routes of newEcho.
newEcho == {
    <<"GET", "/healthcheck", healthcheck>>,
    <<"POST", "/", serviceCreate>>,
    <<"GET", "/flavors", getServiceFlavors>>,
    <<"GET", "/:instance/flavors", getInstanceFlavors>>,
    <<"GET", "/plans", servicePlans>>, <<"GET", "/:instance/plans", servicePlans>>,
    <<"GET", "/:instance", serviceInfo>>, <<"PUT", "/:instance", serviceUpdate>>,
    <<"DELETE", "/:instance", serviceDelete>>,
    <<"GET", "/:instance/status", serviceStatus>>,
    <<"GET", "/:instance/node_status", serviceNodeStatus>>,
    <<"GET", "/:instance/autoscale", getAutoscale>>,
    <<"POST", "/:instance/autoscale", updateAutoscale>>,
    <<"PUT", "/:instance/autoscale", updateAutoscale>>,
    <<"PATCH", "/:instance/autoscale", updateAutoscale>>,
    <<"DELETE", "/:instance/autoscale", removeAutoscale>>,
    <<"POST", "/:instance/bind-app", serviceBindApp>>,
    <<"DELETE", "/:instance/bind-app", serviceUnbindApp>>,
    <<"POST", "/:instance/bind", serviceBindUnit>>,
    <<"DELETE", "/:instance/bind", serviceUnbindUnit>>,
    <<"POST", "/:instance/scale", scale>>, <<"POST", "/:instance/start", start>>,
    <<"POST", "/:instance/restart", restart>>, <<"POST", "/:instance/stop", stop>>,
    <<"GET", "/:instance/info", instanceInfo>>,
    <<"POST", "/:instance/certificate", updateCertificate>>,
    <<"DELETE", "/:instance/certificate/:name", deleteCertificate>>,
    <<"DELETE", "/:instance/certificate", deleteCertificate>>,
    <<"GET", "/:instance/cert-manager", listCertManagerRequests>>,
    <<"POST", "/:instance/cert-manager", updateCertManagerRequest>>,
    <<"DELETE", "/:instance/cert-manager", deleteCertManagerRequest>>,
    <<"GET", "/:instance/block", listBlocks>>, <<"POST", "/:instance/block", updateBlock>>,
    <<"DELETE", "/:instance/block/:name", deleteBlock>>,
    <<"GET", "/:instance/lua", listLuaBlocks>>, <<"POST", "/:instance/lua", updateLuaBlock>>,
    <<"DELETE", "/:instance/lua", deleteLuaBlock>>,
    <<"GET", "/:instance/files", listExtraFiles>>,
    <<"GET", "/:instance/files/:name", getExtraFile>>,
    <<"POST", "/:instance/files", addExtraFiles>>,
    <<"PUT", "/:instance/files", updateExtraFiles>>,
    <<"DELETE", "/:instance/files", deleteExtraFiles>>,
    <<"GET", "/:instance/route", getRoutes>>, <<"POST", "/:instance/route", updateRoute>>,
    <<"DELETE", "/:instance/route", deleteRoute>>,
    <<"POST", "/:instance/purge", cachePurge>>,
    <<"POST", "/:instance/purge/bulk", cachePurgeBulk>>,
    <<"GET", "/:instance/acl", getUpstreams>>, <<"POST", "/:instance/acl", addUpstream>>,
    <<"DELETE", "/:instance/acl", deleteUpstream>>,
    <<"GET", "/:instance/upstream-options", getUpstreamOptions>>,
    <<"POST", "/:instance/upstream-options", addUpstreamOptions>>,
    <<"PUT", "/:instance/upstream-options/:name", updateUpstreamOptions>>,
    <<"DELETE", "/:instance/upstream-options/:name", deleteUpstreamOptions>>,
    <<"GET", "/:instance/log", log>>,
    <<"GET", "/:instance/metadata", getMetadata>>,
    <<"POST", "/:instance/metadata", setMetadata>>,
    <<"DELETE", "/:instance/metadata", unsetMetadata>>}

----------------------------------------------------------------------------
(* Client functions: the flaws their arguments may have, the ones among    *)
(* them that they refuse, the request, the statuses that they accept and   *)
(* the operation of the manager that they stand for.                       *)

Fn(flaws, refuses, method, path, accepts, for) ==
    [flaws |-> flaws, refuses |-> refuses, method |-> method, path |-> path,
     accepts |-> accepts, for |-> for]
AnyStatus == {200, 201, 202, 204, 400, 401, 404, 409, 500}

AddAccessControlList ==
    Fn({"instance"}, {"instance"}, "POST", "/:instance/acl", {201}, "AddUpstream")
RemoveAccessControlList ==
    Fn({"instance"}, {"instance"}, "DELETE", "/:instance/acl", {204}, "DeleteUpstream")
ListAccessControlList ==
    Fn({"instance"}, {"instance"}, "GET", "/:instance/acl", {200}, "GetUpstreams")
UpdateBlock ==
    Fn({"instance", "name", "body", "macro"}, {"instance", "name", "body"},
       "POST", "/:instance/block", {200}, "UpdateBlock")
DeleteBlock ==
    Fn({"instance", "name"}, {"instance", "name"},
       "DELETE", "/:instance/block/:name", {200}, "DeleteBlock")
ListBlocks ==
    Fn({"instance"}, {"instance"}, "GET", "/:instance/block", {200}, "ListBlocks")
UpdateCertificate ==
    Fn({"instance", "body", "pair"}, {"instance", "body"},
       "POST", "/:instance/certificate", {200}, "UpdateCertificate")
DeleteCertificate ==
    Fn({"instance", "escape"}, {"instance"},
       "DELETE", "/:instance/certificate/:name", {200}, "DeleteCertificate")
ListCertManagerRequests ==
    Fn({"instance"}, {"instance"}, "GET", "/:instance/cert-manager", {200},
       "GetCertManagerRequests")
UpdateCertManager ==
    Fn({"instance", "dns"}, {"instance"}, "POST", "/:instance/cert-manager", {200},
       "UpdateCertManagerRequest")
\* An empty name is not refused: the query goes without it.
DeleteCertManagerByName ==
    Fn({"instance", "name"}, {"instance"}, "DELETE", "/:instance/cert-manager", {200},
       "DeleteCertManagerRequestByName")
DeleteCertManagerByIssuer ==
    Fn({"instance"}, {"instance"}, "DELETE", "/:instance/cert-manager", {200},
       "DeleteCertManagerRequestByIssuer")
AddExtraFiles ==
    Fn({"instance", "body"}, {"instance", "body"}, "POST", "/:instance/files", {201},
       "CreateExtraFiles")
UpdateExtraFiles ==
    Fn({"instance", "body"}, {"instance", "body"}, "PUT", "/:instance/files", {200},
       "UpdateExtraFiles")
DeleteExtraFiles ==
    Fn({"instance", "body"}, {"instance", "body"}, "DELETE", "/:instance/files", {200},
       "DeleteExtraFiles")
ListExtraFiles ==
    Fn({"instance"}, {"instance"}, "GET", "/:instance/files", {200}, "GetExtraFiles")
GetExtraFile ==
    Fn({"instance", "name"}, {"instance", "name"}, "GET", "/:instance/files/:name", {200},
       "GetExtraFiles")
Info == Fn({"instance"}, {"instance"}, "GET", "/:instance/info", {200}, "GetInstanceInfo")
GetMetadata ==
    Fn({"instance"}, {"instance"}, "GET", "/:instance/metadata", {200}, "GetMetadata")
SetMetadata ==
    Fn({"instance"}, {"instance"}, "POST", "/:instance/metadata", {200}, "SetMetadata")
UnsetMetadata ==
    Fn({"instance"}, {"instance"}, "DELETE", "/:instance/metadata", {200}, "UnsetMetadata")
ClientPurgeCache ==
    Fn({"instance", "name"}, {"instance", "name"}, "POST", "/:instance/purge", {200},
       "PurgeCache")
PurgeCacheBulk ==
    Fn({"instance", "name", "body"}, {"instance", "name", "body"},
       "POST", "/:instance/purge/bulk", {200, 500}, "PurgeCacheBulk")
UpdateRoute ==
    Fn({"instance", "name", "macro"}, {"instance", "name"}, "POST", "/:instance/route",
       {201}, "UpdateRoute")
DeleteRoute ==
    Fn({"instance", "name"}, {"instance", "name"}, "DELETE", "/:instance/route", {200},
       "DeleteRoute")
ListRoutes == Fn({"instance"}, {"instance"}, "GET", "/:instance/route", {200}, "GetRoutes")
Scale ==
    Fn({"instance", "quantity"}, {"instance", "quantity"}, "POST", "/:instance/scale",
       {200}, "Scale")
Start == Fn({"instance"}, {"instance"}, "POST", "/:instance/start", {200}, "Start")
Stop == Fn({"instance"}, {"instance"}, "POST", "/:instance/stop", {200}, "Stop")
Restart == Fn({"instance"}, {"instance"}, "POST", "/:instance/restart", {200}, "Restart")
ListUpstreamOptions ==
    Fn({"instance"}, {"instance"}, "GET", "/:instance/upstream-options", {200},
       "GetUpstreamOptions")
AddUpstreamOptions ==
    Fn({"instance", "name"}, {"instance", "name"}, "POST", "/:instance/upstream-options",
       {200, 201}, "EnsureUpstreamOptions")
UpdateUpstreamOptions ==
    Fn({"instance", "name"}, {"instance", "name"},
       "PUT", "/:instance/upstream-options/:name", {200}, "EnsureUpstreamOptions")
DeleteUpstreamOptions ==
    Fn({"instance", "name"}, {"instance", "name"},
       "DELETE", "/:instance/upstream-options/:name", {200, 204}, "DeleteUpstreamOptions")
\* Log copies the body of whatever response comes.
Log == Fn({"instance"}, {"instance"}, "GET", "/:instance/log", AnyStatus, "Log")

(* The generated client takes every status below 300 for a success; it     *)
(* checks that a body it must send is there.                               *)

Generated(flaws, refuses, method, path, for) ==
    Fn(flaws, refuses, method, path, {s \in AnyStatus : s < 300}, for)

ApiBindApp == Generated({"body"}, {}, "POST", "/:instance/bind-app", "BindApp")
ApiBindInstance == Generated({}, {}, "POST", "/:instance/bind", "none")
ApiUnbindInstance == Generated({}, {}, "DELETE", "/:instance/bind", "none")
ApiCreateAutoscale ==
    Generated({"body"}, {"body"}, "POST", "/:instance/autoscale", "UpdateAutoscale")
ApiUpdateAutoscale ==
    Generated({"body"}, {"body"}, "PUT", "/:instance/autoscale", "UpdateAutoscale")
ApiGetAutoscale == Generated({}, {}, "GET", "/:instance/autoscale", "GetAutoscale")
ApiRemoveAutoscale == Generated({}, {}, "DELETE", "/:instance/autoscale", "DeleteAutoscale")
ApiCreateInstance == Generated({}, {}, "POST", "/", "CreateInstance")
ApiUpdateInstance == Generated({}, {}, "PUT", "/:instance", "UpdateInstance")
ApiDeleteInstance == Generated({}, {}, "DELETE", "/:instance", "DeleteInstance")
ApiGetInstance == Generated({}, {}, "GET", "/:instance", "GetInstance")
ApiGetInstanceInfo == Generated({}, {}, "GET", "/:instance/info", "GetInstanceInfo")
ApiHealthcheck == Generated({}, {}, "GET", "/healthcheck", "none")
ApiListFlavors == Generated({}, {}, "GET", "/flavors", "GetFlavors")
ApiListFlavorsByInstance == Generated({}, {}, "GET", "/:instance/flavors", "GetFlavors")
ApiListPlans == Generated({}, {}, "GET", "/plans", "GetPlans")
ApiListPlansByInstance == Generated({}, {}, "GET", "/:instance/plans", "GetPlans")
ApiPurgeCache == Generated({"body"}, {}, "POST", "/:instance/purge", "PurgeCache")
ApiResourcesInstanceStatusGet ==
    Generated({}, {}, "GET", "/:instance/status", "GetInstanceAddress")

\* The platform calls the rest of the service API by itself: whatever its
\* requests look like.
Platform(route) ==
    Generated(route[3].refuses \cup route[3].fails, {}, route[1], route[2], route[3].op)

Functions == {
    AddAccessControlList, RemoveAccessControlList, ListAccessControlList,
    UpdateBlock, DeleteBlock, ListBlocks, UpdateCertificate, DeleteCertificate,
    ListCertManagerRequests, UpdateCertManager, DeleteCertManagerByName,
    DeleteCertManagerByIssuer, AddExtraFiles, UpdateExtraFiles, DeleteExtraFiles,
    ListExtraFiles, GetExtraFile, Info, GetMetadata, SetMetadata, UnsetMetadata,
    ClientPurgeCache, PurgeCacheBulk, UpdateRoute, DeleteRoute, ListRoutes, Scale, Start,
    Stop, Restart, ListUpstreamOptions, AddUpstreamOptions, UpdateUpstreamOptions,
    DeleteUpstreamOptions, Log}

GeneratedFunctions == {
    ApiBindApp, ApiBindInstance, ApiUnbindInstance, ApiCreateAutoscale,
    ApiUpdateAutoscale, ApiGetAutoscale, ApiRemoveAutoscale, ApiCreateInstance,
    ApiUpdateInstance, ApiDeleteInstance, ApiGetInstance, ApiGetInstanceInfo,
    ApiHealthcheck, ApiListFlavors, ApiListFlavorsByInstance, ApiListPlans,
    ApiListPlansByInstance, ApiPurgeCache, ApiResourcesInstanceStatusGet}

PlatformCalls ==
    {Platform(route) : route \in {r \in newEcho : r[3].op # "DeleteCertManagerRequest"}}

\* The calls that clients make: of those functions, for clusters whose names are
\* known or with no address at all.
CallsArePossible ==
    /\ NoAddress \notin ClusterNames
    /\ \A c \in Clients :
          CallsOf(c) \subseteq (Functions \cup GeneratedFunctions \cup PlatformCalls)
                               \X (ClusterNames \cup {NoAddress}) \X BOOLEAN
ASSUME CallsAssumption == CallsArePossible

Reads == {"none", "GetPlans", "GetInstance", "GetInstanceAddress", "GetInstanceStatus",
          "GetFlavors", "GetAutoscale", "GetInstanceInfo", "GetCertManagerRequests",
          "ListBlocks", "GetExtraFiles", "GetRoutes", "GetUpstreams",
          "GetUpstreamOptions", "GetMetadata", "Log"}
Purges == {"PurgeCache", "PurgeCacheBulk"}

----------------------------------------------------------------------------
(* Managers of clusters. *)

\* The cluster that a name selects: the first with that name, or else the last
\* default one.
getKubeConfig(name) ==
    {i \in DOMAIN Clusters :
        \/ /\ Clusters[i].name = name
           /\ \A j \in DOMAIN Clusters : Clusters[j].name = name => i <= j
        \/ /\ Clusters[i].default
           /\ \A j \in DOMAIN Clusters : Clusters[j].name # name
           /\ \A j \in DOMAIN Clusters : Clusters[j].default => j <= i}

\* Only the first cluster of that name counts, never a default one.
validationDisabled(name) ==
    \E i \in DOMAIN Clusters :
        /\ Clusters[i].name = name /\ Clusters[i].disableValidation
        /\ \A j \in DOMAIN Clusters : Clusters[j].name = name => i <= j

----------------------------------------------------------------------------
(* A call. *)

AllOutcomes == {"done", "partly", "notModified", "validation", "conflict", "notFound",
                "failed"}
Outcomes(op) ==
    IF op = "none" THEN {"done"}
    ELSE {"done", "notFound", "failed"} \cup
         (IF op \in Reads THEN {} ELSE {"notModified", "validation", "conflict"}) \cup
         (IF op \in Purges \cup {"GetInstanceAddress"} THEN {"partly"} ELSE {})

Idle == [pc |-> "idle"]
Flaws == {"none", "instance", "name", "quantity", "body", "syntax", "macro", "pair",
          "dns", "escape"}

WebInit ==
    /\ call = [c \in Clients |-> Idle]
    /\ managers = [n \in ClusterNames |-> "none"]
    /\ made = 0
    /\ asked = {}

\* A client function is called: it refuses its arguments, or sends a request.
\* The flag of the headers comes from the environment of the client.
Invoke(c, fn, flaw, cluster, disable) ==
    /\ call[c] = Idle
    /\ made < MaxCalls
    /\ made' = made + 1
    /\ call' = [call EXCEPT ![c] =
          [pc |-> IF flaw \in fn.refuses THEN "returned" ELSE "sent",
           fn |-> fn, flaw |-> flaw, cluster |-> cluster, disable |-> disable,
           manager |-> "none", did |-> "nothing", op |-> "none", status |-> 0,
           body |-> "none",
           result |-> IF flaw \in fn.refuses THEN "error" ELSE "none"]]
    /\ asked' = IF disable /\ cluster # NoAddress THEN asked \cup {cluster} ELSE asked
    /\ UNCHANGED managers

Answer(c, status, body) ==
    [call EXCEPT ![c].pc = "answered", ![c].status = status, ![c].body = body]

\* Basic authentication, which the health check does without; then the first
\* look into the cache, under the read lock.
Authenticate(c) ==
    LET q == call[c] IN
    /\ q.pc = "sent"
    /\ call' \in
          {IF q.fn.path = "/healthcheck" THEN [call EXCEPT ![c].pc = "route"]
           ELSE IF q.cluster = NoAddress THEN Answer(c, 400, "message")
           ELSE IF managers[q.cluster] = "none" THEN [call EXCEPT ![c].pc = "build"]
           ELSE [call EXCEPT ![c].pc = "route", ![c].manager = managers[q.cluster]],
           IF q.fn.path = "/healthcheck" THEN [call EXCEPT ![c].pc = "route"]
           ELSE Answer(c, 401, "message")}
    /\ UNCHANGED <<managers, made, asked>>

\* As Manager, with a negation missing (a mutant).
ManagerNegated(c) ==
    LET q == call[c]
        built == IF q.disable /\ ~validationDisabled(q.cluster) THEN "validating"
                 ELSE "plain"
    IN /\ q.pc = "build"
       /\ IF getKubeConfig(q.cluster) = {}
          THEN call' = Answer(c, 500, "message") /\ UNCHANGED managers
          ELSE /\ managers' = [managers EXCEPT ![q.cluster] = built]
               /\ call' = [call EXCEPT ![c].pc = "route", ![c].manager = built]
       /\ UNCHANGED <<made, asked>>

\* No manager was cached: one is built and stored, over any that has been
\* stored in the meantime.
Manager(c) ==
    LET q == call[c]
        built == IF ~q.disable /\ ~validationDisabled(q.cluster) THEN "validating"
                 ELSE "plain"
    IN /\ q.pc = "build"
       /\ IF getKubeConfig(q.cluster) = {}
          THEN call' = Answer(c, 500, "message") /\ UNCHANGED managers
          ELSE /\ managers' = [managers EXCEPT ![q.cluster] = built]
               /\ call' = [call EXCEPT ![c].pc = "route", ![c].manager = built]
       /\ UNCHANGED <<made, asked>>

\* A deletion by name that brings no name.
Unnamed(q) == q.fn.for = "DeleteCertManagerRequestByName" /\ q.flaw = "name"

\* The operation that a handler calls for a request.  The two deletions of
\* requests to cert-manager share a route: by name if the query brings one, and
\* otherwise by issuer, the default one if the query brings none either.
OpOf(handler, q) ==
    IF handler.op # "DeleteCertManagerRequest" THEN handler.op
    ELSE IF q.fn.for = "DeleteCertManagerRequestByName" /\ ~Unnamed(q)
    THEN "DeleteCertManagerRequestByName"
    ELSE "DeleteCertManagerRequestByIssuer"

\* The request meets the handler of its route, which looks for its flaws.
Handle(c) ==
    LET q == call[c]
        routes == {r \in newEcho : r[1] = q.fn.method /\ r[2] = q.fn.path}
        handler == (CHOOSE r \in routes : TRUE)[3]
    IN /\ q.pc = "route"
       /\ call' = IF routes = {} THEN Answer(c, 404, "message")
                  ELSE IF q.flaw \in handler.refuses THEN Answer(c, 400, "message")
                  ELSE IF q.flaw \in handler.fails THEN Answer(c, 500, "message")
                  ELSE [call EXCEPT ![c].pc = "operate", ![c].op = OpOf(handler, q),
                                    ![c].status = handler.ok]
       /\ UNCHANGED <<managers, made, asked>>

\* As ErrorMiddleware, for which what is not found needs no change (a mutant).
ErrorMiddlewareLenient(outcome) ==
    CASE outcome \in {"notModified", "notFound"} -> 204
      [] outcome = "validation" -> 400
      [] outcome = "conflict" -> 409
      [] outcome = "failed" -> 500

\* The status that an error leaves with: ErrorMiddleware and HTTPErrorHandler.
ErrorMiddleware(outcome) ==
    CASE outcome = "notModified" -> 204
      [] outcome = "validation" -> 400
      [] outcome = "conflict" -> 409
      [] outcome = "notFound" -> 404
      [] outcome = "failed" -> 500

\* The manager's operation and the answer.  A purge that reached some servers
\* counts as done; a bulk purge lists what became of each item, with 500 if
\* one failed; an instance with no address yet is accepted.
Operate(c, outcome) ==
    LET q == call[c]
        ok == IF outcome = "partly" /\ q.op = "GetInstanceAddress" THEN 202
              ELSE q.status
    IN /\ q.pc = "operate"
       /\ outcome \in Outcomes(q.op)
       /\ call' = [(IF q.op = "PurgeCacheBulk"
                    THEN Answer(c, IF outcome = "done" THEN 200 ELSE 500, "data")
                    ELSE IF outcome \in {"done", "partly"} THEN Answer(c, ok, "data")
                    ELSE Answer(c, ErrorMiddleware(outcome), "message"))
                   EXCEPT ![c].did = outcome]
       /\ UNCHANGED <<managers, made, asked>>

\* The response arrives; a client that accepts 500 as well finds no list in the
\* message of an error.
Return(c) ==
    LET q == call[c] IN
    /\ q.pc = "answered"
    /\ call' = [call EXCEPT ![c].pc = "returned", ![c].result =
          IF @ # "none" THEN @
          ELSE IF q.status \notin q.fn.accepts \/ (q.status = 500 /\ q.body = "message"
                                                   /\ q.fn.for = "PurgeCacheBulk")
          THEN "error"
          ELSE IF q.status = 500 THEN "reported" ELSE "ok"]
    /\ UNCHANGED <<managers, made, asked>>

\* The client gives up (its timeout, or its user), and the server does not know.
GiveUp(c) ==
    /\ call[c].pc \in {"sent", "build", "route", "operate", "answered"}
    /\ call[c].result = "none"
    /\ call' = [call EXCEPT ![c].result = "timeout"]
    /\ UNCHANGED <<managers, made, asked>>

Forget(c) ==
    /\ call[c].pc = "returned"
    /\ call' = [call EXCEPT ![c] = Idle]
    /\ UNCHANGED <<managers, made, asked>>

WebNext == \E c \in Clients :
    \/ \E q \in CallsOf(c) : \E flaw \in q[1].flaws \cup {"none"} :
          Invoke(c, q[1], flaw, q[2], q[3])
    \/ Authenticate(c) \/ Manager(c) \/ Handle(c)
    \/ \E outcome \in AllOutcomes : Operate(c, outcome)
    \/ Return(c) \/ GiveUp(c) \/ Forget(c)

WebSpec == WebInit /\ [][WebNext]_webVars

----------------------------------------------------------------------------
(* Properties. *)

\* Calls have their shape, and an answer has a status that the API knows.
WebTypeOK ==
    /\ \A c \in Clients : call[c] # Idle =>
          /\ call[c].pc \in {"sent", "build", "route", "operate", "answered", "returned"}
          /\ call[c].flaw \in Flaws
          /\ call[c].pc = "answered" => call[c].status \in AnyStatus
          /\ call[c].result \in {"none", "ok", "error", "reported", "timeout"}
    /\ managers \in [ClusterNames -> {"none", "validating", "plain"}]
    /\ made \in 0..MaxCalls

\* A function of a client returns without an error only if the manager's
\* operation that it stands for has been done, or had nothing left to do: its
\* request takes the route of the right handler, and no refusal, failed check
\* or error of the manager comes back as a status that it accepts.  Log is an
\* exception, which never looks at the status, and so is a deletion by name
\* without a name, of which no more holds than that something was done.
SuccessIsDone ==
    \A c \in Clients :
        call[c] # Idle /\ call[c].result = "ok" /\ call[c].fn.for \notin {"Log", "none"} =>
            /\ call[c].op = call[c].fn.for \/ Unnamed(call[c])
            /\ call[c].did \in {"done", "notModified", "partly"}

\* An operation that was done is never reported as an error, as long as its
\* answer arrives in time: the status of the handler is one that the function
\* which leads to it accepts.
DoneIsSuccess ==
    \A c \in Clients :
        /\ call[c] # Idle
        /\ call[c].did = "done" \/ (call[c].did = "partly" /\ call[c].op # "PurgeCacheBulk")
        => call[c].result \in {"none", "ok", "timeout"}

\* A request is served without validation only if the cluster is configured so,
\* or some request for the same cluster asked for it: the flag of that one is
\* cached with the manager, and stays for the others.
UnvalidatedOnlyOnRequest ==
    \A c \in Clients :
        call[c] # Idle /\ call[c].manager = "plain" =>
            call[c].cluster \in asked \/ validationDisabled(call[c].cluster)
=============================================================================
