# A TLA+ development for rpaas-operator

rpaas-operator runs Nginx reverse proxies for tsuru on Kubernetes.  It is two
programs around one custom resource, the `RpaasInstance`:

* the **API** (`cmd/api`, `pkg/web`, `internal/pkg/rpaas`) serves tsuru and the
  command line plugin.  Its handlers run concurrently, in any number of
  replicas, and keep no state of their own: each reads an instance from the
  API server, edits the copy and sends the difference back;
* the **operator** (`main.go`, `controllers`) watches instances, validations,
  Nginx resources, ConfigMaps and Secrets through informer caches and brings
  the cluster to the state that the instances describe.

They meet only in the objects of the API server.  Everything hard about the
system follows from that: two requests that edit what they both read, an
operator that decides on copies older than its own last writes, writes that
are refused, and controllers (nginx-operator, KEDA, the garbage collector, the
kubelet) that act in between.

## 1. Inventory

| Component | State | Operations | What is hard | What makes it correct |
|---|---|---|---|---|
| Binds and upstream options (`upstream.go`, `mutation.go`, `k8s.go`) | `Spec.Binds`, `Spec.UpstreamOptions` | BindApp, UnbindApp, EnsureUpstreamOptions, DeleteUpstreamOptions | validations look at one version of a list, the patch replaces another | canaries never dangle, chain or get shared; one weight per group; stored options can be served |
| Instance reconciliation (`controller.go`, `rpaasinstance_controller.go`) | rendered ConfigMaps and their history, the Nginx, the status | Reconcile, reportError, refreshStatus, deleteOldConfig | lagging caches, refused writes, missing watches, crashes | an instance at rest is converged; every instance converges |
| System rollout limiter (`system_rate_limit.go`) | a token bucket and one reservation | Reserve, Cancel, refill | reservations granted ahead of time and cancelled later | rollouts nobody asked for are limited |
| Scaling (`autoscale.go`, `controller.go`) | replicas, Shutdown, Autoscale; Nginx, HPA, ScaledObject, PDB | Scale, Start, Stop, UpdateAutoscale, DeleteAutoscale, reconcileHPA/KEDA/PDB | patches that merge field by field; two owners of one HPA; HPAs are not watched | an instance at rest runs what its spec asks for, and one left to an autoscaler gets one |
| Validation protocol (`validation/manager.go`, `validation_controller.go`) | one RpaasValidation, ConfigMap and pod per instance | waitController, Reconcile, finishValidation, reconcilePod | all clients share the three objects, the operator sees them through three caches | a verdict is about the spec it is stored with, final and right; the operator comes to one where it can |
| Extra files (`extra_files.go`) | a ConfigMap per file, `Spec.Files`, temporary ConfigMaps of the validation | Create/Update/DeleteExtraFiles | several writes per operation, lookups by label, failures in between | a file has one ConfigMap, with what was last acknowledged |
| Certificates (`certificates.go`, `cert_manager.go`) | Secrets, `Spec.TLS`, requests, cert-manager's Certificates | UpdateCertificate, DeleteCertificate, Update/DeleteCertManagerRequest, ReconcileCertManager | two kinds of writers of one label, take-over and removal of Secrets, crashes | what was acknowledged stands; hosts are disjoint; in the end Nginx and cert-manager have what is asked for |
| TLS session tickets (`controller.go` and the script in it) | a Secret of numbered keys, a CronJob, its jobs | resize, rotate | rotation by position while the operator resizes from a copy; jobs that overlap or are repeated | no key comes back, replaced keys are accepted as long as promised |
| Blocks, routes, metadata, flavors, plans, life cycle (`mutation.go`, `metadata.go`, `k8s.go`) | the other fields of the spec | Update/Delete, Set/Unset, Create/Update/DeleteInstance, Start, Stop | the merge patch; edits that outlive their instance | acknowledged edits stand; fields are registers; flavors for creation stay |
| Configuration rendering (`nginx/servers.go`) | none | produceServers, initListenOptions | distribution of certificates, routes and blocks over servers | each route is served once by its servers; each port has its options once |
| Exec, debug, logs, purge (`k8s.go`, `log.go`, `purge/`) | ephemeral containers; goroutines and channels; the caches of pods | Exec, Debug, Log, PurgeCache | pods that come and go, four goroutines on unbuffered channels that share a map, partial failures | sessions are served, running pods tailed, followers end; a purge without an error is complete on the pods it was told of |
| Handlers, manager cache and clients (`pkg/web`, `multi-cluster.go`, `pkg/rpaas/client`) | the cached manager of each cluster | every route of the API and every function of the clients | tables that are kept in step by hand; a cache that is filled outside its lock; clients that give up | success means done, done means success |
| Macros, controller API, plugin | none that outlives a call | - | - | - |

`PROJECT.json` lists the components with their sources and status, and under
`hazards` what a test of this code would hardly reach, line by line.

## 2. Modules

Each component has a module, an `MC...` module with the small sets that TLC
uses; the theorems are in the `..._proofs` modules, two of which are about two
components.  The fields and objects of the
modules are disjoint, and what one component needs of another one is an action
of its environment: the verdict of `Validation` is free in `ExtraFiles`, the
manager's operations are free in `WebApi`.  Two compositions are explicit:
`Rendering` extends `Edits` and renders the instance that the edits produce,
and `Edits` implements the abstract specification `InstanceMap`.  No module
declares a RECURSIVE operator.

### UpstreamOptions

`binds` and `upstreamOptions` are the two lists of the spec, as sets of
entries, and `pending[r]` the patch that request `r` is about to send.  A
request takes two steps.  `BindApp`, `UnbindApp`, `EnsureUpstreamOptions` and
`DeleteUpstreamOptions` read the instance and edit the copy, with every
validation and default of the code (`CanEnsure`, `WithDefaults`, ...).
The action `patchInstance` applies the JSON merge patch to the instance
*as it is by then*: an unchanged list is not in the patch, a changed list
replaces the stored one, and there is no resourceVersion to compare.
`PatchFails` is everything that keeps the patch from being applied.  A string
field of a policy is the Boolean "not blank", which is all the code looks at.

### InstanceReconcile

`cluster[i]` holds the objects of an instance in the API server, `seen[i]` the
operator's cached copies and `stale[i]` the kinds of object whose copy is out
of date.  One worker executes `Reconcile` in steps that follow its writes:
`StartReconcile` (read, rate limit), `ReconcileConfigMap`, `DeleteOldConfig`,
`ReconcileNginx`, `SettleReservation`, `RefreshStatus`.  A write based on a
stale copy is refused and ends in `ReportError`, as does any call under
`CallFails`; `Crash` restarts the operator; `Panic` is the nil dereference of
refreshStatus.  `SyncCache` delivers a watch event, which also enqueues the
owner; plans are not watched and wait for `Resync`.  The limiter is the bucket
of golang.org/x/time/rate: `LastSecond` and `Tick` are the passage of time, and
`credit` (a history variable) charges completed system rollouts only.

The rendered configuration is the pair of spec and plan, its name being a hash
of its content; the revision hash of the status covers spec, Suspend and
certificates.  Creation times of ConfigMaps, which have a granularity of one
second, are taken to be distinct.

### Scaling

`spec` has replicas, Shutdown, the PDB flag and the autoscale settings, each
setting a number or `Nil`.  API requests are as in UpstreamOptions, except that
Autoscale is an object, which a merge patch merges field by field
(`MergeAutoscale`).  The worker's steps are `ReconcileNginx`, `ReconcileKEDA`
or `CleanUpKEDAScaledObject` followed by `ReconcileHPA`, `ReconcilePDB` and
`RefreshStatus`.  `NginxReady`, `KEDA` and `CollectHPA` are the other
controllers.  The operator's reads are current here; InstanceReconcile is the
module about lag.  Both resource targets are one field and the windows of a
schedule one number, the replicas they ask for.  Each of the requests is made
once, and any of them may be between its read and its patch at any time.

### Validation

A spec is a set of parts: a block, and for a file the ConfigMap with its
content, which is a temporary one until the edit is applied to the instance.
`Files` are the blocks that are volumes of the pod, `Valid` the sets of blocks
that Nginx accepts, `Renderable` the ones whose template and macros expand at
all.  A request goes through `BeginRequest` (validationCRD, the temporary
ConfigMap and the mutation), `GetValidation`, `CreateValidation` or
`UpdateValidation`, `Poll`, `ApplyEdit` (the wrapped manager) and, if it made a
ConfigMap, `CleanUp`, the deferred deletion, which may fail; `Timeout` ends the
rest at any stage.  The operator's Reconcile is `StartReconcile`,
`ReconcileConfigMap` (which ends in an error, and will be tried again, where the
spec cannot be rendered), `FinishValidation` and `DeletePod`, or `ReconcilePod`
and `RecreatePod`.  As in InstanceReconcile there are cached copies, one per
kind, refused writes, failed calls and restarts.  `PodRuns` is the kubelet: it
reads the ConfigMap when the pod *starts*, and the pod starts only if the
ConfigMaps that it mounts are there (`Mountable`); `PodLost` is a pod that fails
without a status of its containers, which gives no verdict.  The generation of
the RpaasValidation is the flag `current`, its equality with the observed one.
`calm` is a history variable: it is true until requests overlap or are given
up, a call fails, the operator crashes, or a ConfigMap that is out of date
looks like the right one.

### ExtraFiles

`files` is Spec.Files, `configMaps` the ConfigMaps that carry the label of a
file, and a request holds the list it has left to do and the ConfigMap that its
last lookup found.  The validating manager comes first (`CreateExtraFiles`,
`UpdateExtraFiles`, `DeleteExtraFiles`: checks against the copy, temporary
ConfigMaps, a free verdict), then the wrapped one: `ReadInstance`,
`LookUpFile` and a write per file, `PatchInstance`, and `CleanUp`, which is the
deferred function.  `ValidationFails` ends a request before the verdict, after
any number of its temporary ConfigMaps; `CallFails` ends it at any later call.
Temporary ConfigMaps whose deletion failed are `leaked`; nothing in the code
promises that there are none, and no property does.  `contended` (a
history variable) collects the files that two requests in flight have named:
for those the code makes two ConfigMaps, and the properties leave them out.

### Certificates

A Secret has an identity, the label with the name of the certificate, its data
and its creator; `tls` and `requests` are the two lists of the spec, `legacy`
the deprecated field.  Uploads and requests read, check, write the Secret and
update the *whole* instance with its resourceVersion, so `stale` tells which
copies are outdated; the API server refuses those.  The operator's part is
`StartReconcile`, `RemoveOldCertificate` and `RemoveOldSecret` (two deletions
with a crash in between), `EnsureCertificate` with the take-over of an uploaded
Secret, and `ReconcileNginx`; `CertManager` issues.

### SessionTickets

`secret` is the sequence of keys, numbered in the order of their generation;
`cronJob` and `jobs` have the number of keys that they were made with.  The
operator reads (`GetSecret`) and writes with the version that it read
(`ReconcileSecret`); the jobs run the script, whose patch is one step
(`rotate_session_tickets`) that the annotation of pods follows; `JobFails`
starts a job again or ends it.  A schedule is any moment.

### Edits, InstanceMap and Rendering

`fields` maps each field of the instance to its value: one field for each block
of the spec, each key of metadata and of the plan template, for the description,
the team, the tags, the address and the name of the load balancer (`About`, five
leaves that the patch merges one by one), and one for each list.  A request
reads (`GetInstance`, which also validates) and patches; `Patched` is
CreateMergePatch and its application, with the case that an object which became
empty is removed as a whole.  Instances are created and deleted meanwhile;
`lives` counts them, so that an edit can be applied to a later instance than
the one it read.  `Rival` tells which requests the patch cannot keep apart, and
`acked` what was acknowledged without a rival.

`InstanceMap` is what the API promises about the plain fields: registers that
only change to what a request in flight wants, and a good answer only when each
of them had its value at some moment while it ran: that is a claim about each
leaf, not about all of them at one moment.  `Register` in `Edits` maps a
request to the assignments it stands for; `ImplementsRegister` is the
refinement.

`Rendering` turns `fields` into the servers of the configuration
(`produceServers`, `initListenOptions`) and its properties compare them with
the routes and blocks, for three sets of certificates, in every state of Edits.
The loops of the code fill lists; the definitions say what is then at each
place (`Selected`, `ServerLocations`), since what a fold computes could not be
proved for lists of any length.

### PodAccess

Pods appear, run and die.  A session is `OpenSession`, `CheckPodOnInstance`,
`GetContainer`, `PatchEphemeralContainers`, `WaitForContainer`, `Notified`,
`ExecutorStream`; its container may never start, as the image of a debug session
is the user's.  Followed logs are the four goroutines of `watchLogs`, with
`RouteTarget` and `Send` as the two halves of an iteration of the router, since
a goroutine can be caught between them.  `tails` is a Go map without a lock:
`UseTails` is the moment at which a goroutine is in the map, and `AddTail` and
`RemoveTail` are when it leaves; one that enters while the other one is in it
ends the process, as does a send on a closed channel.  `Die` is that end, and
takes the sessions and the manager's purge with it.  A purge is given a set of
pods, `reported`: the manager's is any subset of the pods that exist, since an
unready container, or an error in the status of a pod, makes it "not running"
without an error.  It takes a pod at a time and a variant at a time, and `stale`
is what each pod still has of the purged object.

### WebApi

Three tables, translated one line per handler, route and client function: what
a handler refuses, calls and answers; the routes; what a function sends and
accepts.  A call goes through `Invoke`, `Authenticate` (and the first look into
the cache of managers), `Manager`, `Handle`, `Operate`, `Return`, with `GiveUp`
at any moment.  A request has at most one flaw, of the kinds that the code
tells apart.  The two deletions of requests to cert-manager are one route and
one handler, which decides by whether a name came; a deletion by name with an
empty one (`Unnamed`) is a call that the client library lets pass.

## 3. Runs

Every run is meant for two workers and ends in less than four minutes.

| Run | Expected | What it shows |
|---|---|---|
| UpstreamOverlap | pass | Two overlapping requests, three apps: `CanaryForest`, `OneWeightPerGroup` and `OptionsServable` hold although patches overwrite what they have not read. |
| UpstreamAtomicity | violation | `MutationsAreAtomic`: the second of two overlapping patches undoes the first edit, although mutation.go calls its operations atomic. |
| Reconcile | pass | One instance, edits and changes of the plan, one failure or crash: `QuiescentIsConverged`, `QuiescentHistoryTrimmed`, `SystemRolloutsLimited`, and `EventuallyConverged` under fairness. |
| ReconcileConfigRetained | violation | `ConfigRetained`: when a spec is edited back, the configuration to return to is the oldest one and is deleted just before the Nginx is pointed at it.  A later reconciliation renders it again. |
| Scaling | pass | Three requests that overlap in any way: `QuiescentScaling`, and `EventuallyAutoscaled` under fairness, for bounds that are in order. |
| Validation | pass | Two clients, two edits, one failure: `RevisionMatches`, `VerdictFinal`, `CalmIsSound`, and `EventuallyJudged` under fairness. |
| ExtraFiles | pass | Three requests, two at a time, on one or two files, one failed call: `OneConfigMapPerFile`, `AckedIsStored`. |
| Certificates | pass | Uploads, requests and their undoing against the operator and cert-manager: `AckedCertificateKept`, `AckedRequestKept`, `HostsDisjoint`, `QuiescentCertificates`, `EventuallyCalm`. |
| SessionTickets | pass | Two jobs at a time, two edits, one failure: `NoKeyComesBack`, `ReplacedKeysAccepted`, `QuietIsConsistent`, `EventuallyAtRest`. |
| Edits | pass | Two clients, four requests: `AckedEditKept`, `CreationFlavorsKept`, the refinement `ImplementsRegister`, and of what is rendered `RoutesServed`, `ServersListen`. |
| PodAccess | pass | Two pods, two sessions or a follower or a purge, one failure: `DeathHasACause`, `PurgeIsComplete`, `SessionIsServed`, `RunningPodsAreTailed`, `FollowersEnd`. |
| WebApi | pass | All functions and routes, with overlapping requests of other clients: `SuccessIsDone`, `DoneIsSuccess`, `UnvalidatedOnlyOnRequest`. |

The properties in one sentence each are in the comments above them.  Every
property of a passing run has a mutant in `PROJECT.json`, an operator that
changes a mapped definition the way a plausible bug would; TLC then reports the
property violated.  Each module has a `TypeOK` (`OptionsTypeOK`,
`WebTypeOK`); it is a theorem for every value of the constants in
InstanceReconcile, Scaling, Validation and UpstreamOptions, and elsewhere an aid
to reading.

**Bounds.**  *UpstreamOptions* has no bound beyond its arguments: two requests
(a lost update needs two), three apps (a chain of canaries needs three), a
plain, a shaping and a refused policy, a weight above 100 so that the default
total is the unusual one.  *InstanceReconcile* has two specs, certificates and
plans, a history limit and a bucket of one: an instance can move away and back,
the history overflows at the second configuration and every second system
rollout waits.  Its edits have weights (`CanEdit`): an edit of the instance, of
a certificate or a report of the Nginx counts three, of the plan two, and
`MaxEdits` 6 allows two or three of them in any order; `MaxFailures` 1 lets a
crash or a refused write fall between any two.  *Scaling* has no bound beyond
its arguments: a resource target, a target that needs KEDA and two settings
that are refused, replicas of zero, one and a refused negative number; three
requests are two that overlap and one before, between or after them.
*Validation* has three blocks.  Nginx accepts the first alone and refuses the
third; the second is a file, which the template of the plan can render only
together with the first, to something that is refused: so an edit may be right,
wrong by itself, wrong after another one, or not rendered at all, and pods with
equal and with different volumes occur.  `MaxEdits` 2 is a validation and the one
it can be confused with: the interleavings that `calm` rules out do lead to a
configuration that Nginx refuses, each case that `EventuallyJudged` leaves out
occurs, and so does a pod whose ConfigMap is gone.  A wrong *verdict* takes three
edits without `calm`; the theorem covers them.
*ExtraFiles*: lists of one file, of two, with a file twice, with a refused
file, and empty; `MaxRequests` 3 and `MaxFailures` 1 are a failed request, its
retry and a rival.  *Certificates*: two names and two hosts, so that uploads
compete for a host and move to another; three events (`MaxEvents`: requests,
failed calls, crashes, other edits), of which the later ones may undo earlier
ones.  *SessionTickets*: one or three keys, and eight keys ever generated, more
than two sizes and the rotations that shift a key out.  *Edits*: a block of
each kind, a route of all servers and one of a server for the same path,
flavors that refuse each other, one that is for creation; `MaxCalls` 4 is
creation, two overlapping edits and a deletion, or two lives of an instance.
*PodAccess*: two pods, so that one can take the place of the other; sessions
count one and purges and followers two against `MaxBegun` 2.  What the death of
the process does to a session or to a purge is therefore in the model and in the
theorem on purges, but in no state of the run.  *WebApi*: one
client makes each of the calls, both read with every choice of headers and meet
in the cache; `MaxCalls` 2.
Requests are symmetric in UpstreamOptions, ExtraFiles and Edits.

**Deadlock** is checked where the system never stops (UpstreamOptions,
Scaling).  In the other modules the bounds on edits, calls and failures make it
stop, and their configurations say so.

**Fairness.**  `WF` on cache refreshes: informers deliver, in order, and list
again after an error.  `WF` on the worker: controller-runtime retries whatever
is in the queue.  Time passes (`LastSecond`, `Tick`) and the resync comes in
InstanceReconcile and Scaling, whose liveness depends on it for plans and HPAs;
it is *not* assumed to come in Validation.  The nginx-operator, KEDA,
cert-manager and the garbage collector do their part.  Of pods and containers
nothing is assumed: in Validation and in PodAccess they may stay pending for
ever, and `EventuallyJudged` and `SessionIsServed` say what is left then.
Goroutines that can run do, also the ones that are in the map of tails; nothing
is assumed of watches.  A spec that cannot be rendered fails every
reconciliation of Validation, with or without fairness.  Nothing is assumed of
clients, of the jobs of a CronJob or of their schedule, and no fairness is
assumed of failures.  A request that never ends, or a worker that waits for a
limiter, is therefore possible; `EventuallyConverged` and `EventuallyCalm` hold
because there are finitely many edits.

**Met while modelling, and not a run.**

* Reconciliation: refreshStatus dereferences the Nginx it has just created when
  the cache does not show it (`externalAddresssesFromNginx`, `Panic` in
  InstanceReconcile; the retry recovers).  Reading an instance with an error
  other than NotFound makes the logger dereference nil.
  `--system-rate-limit-operations` is the burst of the bucket and not the number
  per interval.
* Scaling: openapi.yaml says of minReplicas that it cannot be greater than
  maxReplicas, and validateAutoscale refuses such settings; but of two
  overlapping updates, one raises the minimum, the other lowers the maximum,
  and the API server merges their patches into settings that Kubernetes
  refuses, so that every later reconciliation ends in reconcileHPA
  (`BoundsOrdered` is a premise of `EventuallyAutoscaled`, and no invariant).
  After a switch from an RPS to a CPU target the HPA is collected with the
  ScaledObject that owned it, and nothing sets the replicas until the resync.
  An HPA created for a CPU target stays when the target becomes RPS and the
  instance is shut down before KEDA takes it over (`QuiescentScaling` leaves
  that out). Toggling the PodDisruptionBudget of an instance whose Nginx needs
  no update changes nothing, as the pod selector is only in the object after an
  update.
* Validation: a pod that was created for one spec may start with the ConfigMap
  of another one, and its outcome becomes the verdict on the first
  (`CalmIsSound`); and a client takes the verdict that is there for its own,
  also when another client has stored another spec meanwhile.  A pod that was
  left behind, or that failed without a status of its containers, blocks later
  validations with the same volumes (`Blocked`), and with a stale cache of pods
  the operator may delete, by name, the pod that it has just created.  A spec
  that cannot be rendered gets no verdict and is tried again for ever
  (`Unrenderable`); a request that gives up deletes the temporary ConfigMap that
  the pod of its spec mounts, and the pod, if it has not started, stays pending
  (`Unfinished`).  The client hears of a timeout in all these cases.
* Extra files: two overlapping creations of a file make two ConfigMaps, and
  every later operation on it is refused; a failed clean-up leaves temporary
  ConfigMaps that nothing collects (`leaked`).
* Certificates: two overlapping uploads of a name make two Secrets; the name is
  refused from then on, and a request to cert-manager for it makes every
  reconciliation fail.  A request that is cancelled while the same name is
  uploaded: the upload reuses cert-manager's Secret, which the operator then
  deletes.  Deletion by issuer, and a request without a name, take the first
  request of that issuer, also one with a name; a request that relies on the
  default issuer is never found again and is appended each time.  A crash
  between the deletions of a Certificate and its Secret leaves the Secret.  An
  upload that fails after it wrote the Secret leaves hosts that overlap.
* Session tickets: intervals above an hour become hourly and ones that do not
  divide an hour are irregular (`*/N` minutes); a job whose annotation of pods
  fails rotates twice; `validate_key_length` of the script is never called.
* Edits: deleting what was the last block in the copy wipes the blocks that
  others have set meanwhile; overlapping edits of a list lose one; an edit is
  applied to a later instance of the same name; flavors that are already there
  are not asked whether they accept a new one; routes of different servers with
  the same path, or paths like `/a/b` and `/a_b`, share the name of an upstream.
* Pods: a follower of logs that leaves while the router holds a target panics
  the API, in a goroutine where nothing recovers; so does, as a fatal error, one
  pod that ends while another one starts, as both are written to one map of
  tails from two goroutines (`DeathHasACause` says that there is no other way).
  A session whose pod goes away between the patch and the watch waits for ever
  (`deaf`), as does one whose container never starts.  The manager takes a pod
  without container statuses for a running one, and one that is not ready, or
  whose events cannot be listed, for one that is not: a purge passes over it and
  answers without an error.
* API: DeleteCertManagerRequestByName refuses an empty name, but is never
  called with one: the client library leaves it out of the query, and the
  handler takes a request without a name for a deletion by issuer, of the
  default one if there is none either. Another request is deleted and the
  client hears of success (`Unnamed`, which `SuccessIsDone` leaves out). Most
  functions of the Go client report the 204 of "not modified" as an error, and
  Log ignores the status; a header that disables validation is cached with the
  manager; `DisableValidation` of the default cluster does not count for
  requests that name another one; a second Stop closes a closed channel.

## 4. Proofs

TLAPS checks the following for *every* value of the constants that satisfies
the assumptions in the modules (types of the arguments, natural bounds).

* `Edits_proofs` is about what requests that overlap make of an instance.  It
  extends Rendering and UpstreamOptions, which have specifications of their own.
  Of *Edits*: `EditsImplementInstanceMap`, the refinement.  `Shape` says that a
  request that is about to write still has its copy and its input, so that a
  patch is a merge of what it read with what it wants; each step of the code
  is then one step of `InstanceMap` or a stutter (`GetSim`, `PatchSim`, ...).
  `CreationFlavorsKeptAlways`, from `FlavorsInv`: every copy in flight also has
  the flavors of creation that the instance has, if it is a copy of the same
  life.  `AckedEditKeptAlways`, from `Kept`: a request without a rival finds what
  it edits as it has read it (`CleanCurrent`), and whatever in flight is about
  to rewrite the list or block of an acknowledged edit has read that edit
  (`FactsHeld`) and carries it along.
  Of *Rendering*, which extends Edits: `RoutesServedAlways` and
  `ServersListenAlways`, from `KeysInv`: besides `EditsInv`, which has the keys
  of a list differ, the keys of every list that is stored or held in a copy are
  of their kind (`RightKeys`).  The routes that a list has for one server then
  have different paths (`RoutesOf`); the index that is counted by paths is the
  place of the route that it stands for (`TheDefault`), so that a server's own
  routes take the right places (`RoutesOfServer`); and each name has exactly
  one server (`Produced`), of which the first ones get the listen options
  (`Rendered`).
  Of *UpstreamOptions* (`OptionsSpec`): `OptionsTypeCorrectness`,
  `CanaryForestAlways`, `OneWeightPerGroupAlways`, `OptionsServableAlways`.
  `CanaryForest` alone is not inductive: a patch in flight replaces the whole
  list, whatever is stored by then.  `OptionsInv` therefore says that the stored
  list *and every list in flight* is well formed; an edit of a well-formed list
  is well formed (`EnsureKeepsForest`, `DeleteKeepsForest`), and applying a
  patch stores a list that was in flight.  That is also why lost updates cannot
  break the rules.
* `InstanceReconcile_proofs`: `TypeCorrectness`; `SystemRolloutsLimitedAlways`,
  from the `Ledger` that relates the bucket, the reservation that is held and
  the rollouts that completed: while a reservation is held its token is out of
  the bucket and not charged yet, and without one the charge is at most one
  ahead; `QuiescentIsConvergedAlways` and `QuiescentHistoryTrimmedAlways`, from
  `RestInv`.  A reconciliation that nothing has disturbed (its instance is not
  queued and none of its cached copies is behind) has found all as it should be
  up to the step it has reached (`OnTrack`): each of its own writes makes a
  cached copy stale, so a pass that wrote anything counts as disturbed and
  there is another one.  That is why no wake-up is lost.
* `Scaling_proofs`: `TypeCorrectness`, and `QuiescentScalingAlways`, from
  `Progress`: what the worker has done it has done for the spec that it read,
  and if that is no longer the stored one, it is queued.  Nothing is assumed of
  the requests: they overlap as they like, and the instance at rest runs what
  their patches have merged into, whether or not anybody asked for it.  Settings
  that Kubernetes refuses end every pass before the instance comes to rest.
* `Validation_proofs`: `TypeCorrectness`, `RevisionMatchesAlways`,
  `VerdictIsFinal`, and `CalmIsSoundAlways`.  The invariant of the first ones
  adds `Reads`: a cached validation that is not stale is the stored one; a
  reconciliation whose copy is fresh and that has not finished works on the
  stored spec, which has no verdict yet; and a request with a fresh copy knows
  that the object exists.  `CalmInv` adds, while all is calm: the one request
  waits for a verdict on its own spec (`CalmRequests`); the ConfigMap is what
  the operator rendered for the spec it works on (`Rendered`); a pod for the
  current spec exists only once the operator has heard of that spec and has
  given up every older one (`Fits`), so that the pod's outcome is about it; and
  with the verdict nothing of older specs is left (`Settled`).
* `ExtraFiles_proofs`: `OneConfigMapPerFileAlways` and `AckedIsStoredAlways`.
  The invariant says where a request is in its
  list (`Progress`), that the ConfigMap it has looked up is still the only one
  of its file unless another request names that file (`AtHand`), that the files
  behind it are as the operation leaves them (`Done`) and that two requests in
  flight share only files in `contended` (`Contention`).  A file may be in a
  list more than once; it is the last mention that counts (`LastMention`, by
  the well-foundedness of the order of numbers).
* `Certificates_proofs`: `AckedCertificateKeptAlways` and
  `AckedRequestKeptAlways`, from `CertificatesInv`.  A copy that the API server
  would accept is what the request made of the *current* instance (`Fresh`), so
  the whole-object update changes only the entries of its own name; the
  history of acknowledgements speaks of requests without a rival (`History`);
  requests that were acknowledged stand (`Standing`).  For uploads there is
  more to say, as the Secret and its entry in `Spec.TLS` are written apart:
  a Secret, the copies of it that requests hold, and the entries of every copy
  of the spec agree on identity and name (`Identity`: the API's Secrets and
  cert-manager's never share an identity), an upload in flight finds its Secret
  as it left it (`Secured`), and the operator takes away only Secrets of names
  that cert-manager was asked for (`AskedFor`, `Untouched`).
  `QuiescentCertificatesAlways`, from `QuietInv`: the reconciler is told of
  every change that it has to see (`Tells`), so a pass that was told of nothing
  works on the spec and the Certificates as they are (`Pass`) and leaves all as
  it is wanted (`Rest`).  What Nginx is then given is compared name by name
  (`Given`): a Certificate's Secret, or the Secret of the last entry.
  `HostsDisjointAlways`, from `HostsInv`: an upload whose copy is the current
  instance still knows every host that is bound (`Checked`), since an entry has
  the hosts of its Secret (`Agree`) and a name one Secret (`Sole`); and only
  such an upload can bind more, as the API server refuses the others.  All of
  that holds until an upload that has written its Secret is overtaken (`Lost`).
* `SessionTickets_proofs`: `NoKeyComesBackAlways`, `QuietIsConsistentAlways`,
  `ReplacedKeysAcceptedAlways`.  No key in the Secret or among the replaced
  ones has a number beyond `generated`: a key that the script or the operator
  generates is then new.  `UpToDate`: if the reconciler was not told of a change
  since it began, it works with what is there.  `Steady`: while nobody changes
  how many keys there are, all the jobs and the operator agree on it, so that
  a rotation shifts the keys and drops only the last one.
* `PodAccess_proofs` extends PodAccess and WebApi.  Of *PodAccess*:
  `DeathHasACauseAlways`, from `FollowInv`: watchLogs has returned, and the
  router is about to report an error, only when the client is gone or the watch
  is lost, and a goroutine removes a tail only if a pod is gone; and
  `PurgeIsCompleteAlways`, from `PurgeInv`: what a purge without an
  error has still to remove is at pods that it has not visited, or at the pod it
  visits and among the requests left for it (`StillToDo`), and the requests
  cover all that Nginx may have stored (`TargetsCover`).
  Of *WebApi* (`WebSpec`): `SuccessIsDoneAlways`, `DoneIsSuccessAlways`,
  `UnvalidatedOnlyOnRequestAlways`.  `TablesAgree` and `PlatformServed` go once
  through all the routes, handlers and functions of the clients: a function's
  route leads to the handler of its operation, it accepts what that handler
  answers, and it accepts no status of an error.  `WebInv` then follows a call
  through the layers, and says that a cached manager without validation belongs
  to a cluster for which that was configured or asked for.

**Assumptions.**  `ArgsAssumption` of UpstreamOptions, the ones of Scaling and
Validation, `InputsAssumption` and `BlocksAssumption` of Edits,
`FilesAssumption` of ExtraFiles, `CertificatesAssumption` of Certificates,
`NamesAssumption` and `KeysAssumption` of Rendering, `TicketsAssumption` of
SessionTickets and `CallsAssumption` of WebApi say what the parsers of the API
hand to the operations, that names, markers and numbers of requests differ, that
the key of a route or of a server's block is made of its server and its path or
type, that certificates are for a finite number of hosts, that a
specification without blocks is valid, and that bounds are natural numbers.  TLC
evaluates each of them in a run.

**Corrections that the proofs led to.**  `AckedRequestKept` asks for exactly the
acknowledged hosts only of requests with a name: one without a name may leave an
older one of its issuer in place, with whose hosts it is then issued.
`AckedCertificateKept` and `HostsDisjoint` leave out names that cert-manager was
ever asked for: the operator, still at work on a cancelled request, deletes the
Secret that an upload reuses, and the Secret that cert-manager issued hides an
uploaded one from the check of hosts.  `HostsDisjoint` also leaves out uploads
that found nothing to change in a copy of the instance that was outdated: these
write only the Secret; and uploads that met another request about their name:
the one may bind the Secret that the other one has overwritten, and the entry
keeps hosts that are not the Secret's, which a later upload trusts.  That takes
five requests, more than the bound of the run; the attempt to prove it found it.

**Only model-checked.**  Liveness and what rests on ENABLED, which are out of
the prover's reach: `EventuallyConverged`, `EventuallyAutoscaled`,
`EventuallyJudged`, `EventuallyCalm`, `EventuallyAtRest`, and of PodAccess
`SessionIsServed`, `RunningPodsAreTailed` and `FollowersEnd`.

## 5. Not modelled, and the plan

Left out for good: the streams of exec and debug and the HTTP calls of the
purger and of the clients (pure I/O), the plugin (flags and printing), deep
copies and models that are generated code, the macro lexer and the text of the
Nginx template (strings), the read-only controller API, kubeconfigs and tokens
of clusters, and the merge of flavors (the reflection of a library).  Restart,
the allow list of upstreams, network policies and volume snapshots add a write
to what is modelled and no new interaction.  The competition of several
instances for the tokens of the limiter is left out too: `InstanceReconcile` is
checked and meant for one instance at a time, and says nothing of how long one of
many has to wait.

What is left of the plan:

1. **Certificates over lagging caches**, as in InstanceReconcile: the operator
   lists Certificates and Secrets from informers.
