----------------------------- MODULE Validation -----------------------------
(***************************************************************************)
(* The validation of edits.  Before the API applies an edit of an instance *)
(* it stores the edited spec in the RpaasValidation of the instance and    *)
(* polls that object for a verdict.  The operator renders the spec into a  *)
(* ConfigMap, runs "nginx -t" on it in a pod, and writes the pod's outcome *)
(* into the status.  There is one RpaasValidation, one ConfigMap and one   *)
(* pod per instance, whoever asks and whatever for.                        *)
(*                                                                         *)
(* The API reads the API server; the operator reads informer caches, one   *)
(* per kind of object, that lag behind each other.  Writes of an object    *)
(* that has moved on since it was read are refused.                        *)
(*                                                                         *)
(* A spec is the set of blocks and files it contains.  A file is mounted   *)
(* from a ConfigMap with a generated name: a temporary one in the spec     *)
(* that is validated, which its request deletes on the way out, and        *)
(* another one in the instance.  The generation of the RpaasValidation     *)
(* only matters through its equality with the observed one, the flag       *)
(* current: it is lost when the spec changes and comes back with a         *)
(* verdict.                                                                *)
(***************************************************************************)
EXTENDS Naturals

CONSTANTS
    Requests,     \* the API requests that can be in flight at the same time
    Blocks,       \* what the edits add to an instance and remove from it
    Files,        \* the blocks that are files: volumes of the pod
    Valid,        \* the blocks that nginx accepts together
    Renderable,   \* the blocks of which the operator can make a configuration:
                  \* plan and flavors exist, templates parse, macros expand
    MaxEdits,     \* bound: requests
    MaxFailures   \* bound: failed calls, crashes of the operator and lost pods

ASSUME ConstantsAssumption ==
    /\ Files \subseteq Blocks
    /\ Valid \subseteq SUBSET Blocks
    /\ Renderable \subseteq SUBSET Blocks
    /\ {} \in Valid
    /\ MaxEdits \in Nat /\ MaxFailures \in Nat

VARIABLES
    spec,         \* the spec of the RpaasInstance
    request,      \* the API requests
    temporaries,  \* the requests whose temporary ConfigMap exists, by number
    validation,   \* the RpaasValidation
    config,       \* the ConfigMap of the validation
    pod,          \* the pod of the validation
    seen,         \* the operator's cached copies of these three
    stale,        \* the kinds whose cached copy is out of date
    queued,       \* the RpaasValidation is in the work queue
    pc, job,      \* what the operator does next, and the validation it read
    edits, failures,
    calm          \* nothing unusual has happened so far, see Disturbed

apiVars == <<spec, request, temporaries>>
objectVars == <<validation, config, pod>>
bounds == <<edits, failures>>
workerVars == <<pc, job, queued>>
vars == <<apiVars, objectVars, seen, stale, workerVars, bounds, calm>>

\* What a spec has of a block.  A file has the number of the request that created
\* its ConfigMap, as a temporary one or not.
Part == [block : Blocks, number : 0..MaxEdits, temporary : BOOLEAN]

Specs == SUBSET Part

None == [none |-> TRUE]

Verdicts == {"unknown", "valid", "invalid"}

\* revision holds the spec of the last verdict, if there was one.
RpaasValidation == [spec : Specs, current : BOOLEAN, verdict : Verdicts,
                    revision : SUBSET Specs]

Config == [content : Specs]

\* The hash annotation of a pod identifies the spec it was created for.
\* A pod that fails without the status of a container is lost: evicted, say.
Pod == [hash : Specs, phase : {"pending", "succeeded", "failed", "lost"},
        terminating : BOOLEAN]

Kinds == {"validation", "config", "pod"}

Edit == [add : BOOLEAN, block : Blocks]

Idle == [stage |-> "idle"]

\* number: that of the ConfigMaps of a request that adds a file, or 0.
\* fresh: the RpaasValidation has not changed since the request read it.
Request == [stage : {"get", "create", "update", "wait", "apply", "cleanup"},
            edit : Edit, number : 0..MaxEdits, want : Specs, fresh : BOOLEAN]

Job == [spec : Specs, fresh : BOOLEAN]

----------------------------------------------------------------------------
\* A verdict on the spec as it is now is there.
Judged(v) == v # None /\ v.current /\ v.verdict # "unknown"

BlocksIn(s) == {p.block : p \in s}
Of(b, s) == {p \in s : p.block = b}

Accepted(s) == BlocksIn(s) \in Valid

NewPart(b, n, temporary) ==
    [block |-> b, number |-> n, temporary |-> b \in Files /\ temporary]

\* The edit of the spec that is validated: a file that is new, or whose content
\* is, comes from a temporary ConfigMap.
Mutate(edit, n, s) ==
    IF edit.add THEN (s \ Of(edit.block, s)) \cup {NewPart(edit.block, n, TRUE)}
    ELSE s \ Of(edit.block, s)

\* The edit of the instance: a file that is there keeps its ConfigMap.
Apply(edit, n, s) ==
    IF ~edit.add THEN s \ Of(edit.block, s)
    ELSE IF edit.block \in BlocksIn(s) THEN s
    ELSE s \cup {NewPart(edit.block, n, FALSE)}

\* A block can be removed only if it is there.
CanApply(edit, s) == edit.add \/ edit.block \in BlocksIn(s)

\* What the pod spec depends on.
Volumes(s) == {p \in s : p.block \in Files}

\* The ConfigMaps that a pod of spec s mounts are there, none of them optional.
Mountable(s) ==
    \A p \in Volumes(s) : IF p.temporary THEN p.number \in temporaries ELSE p \in spec

\* The outcome of "nginx -t" in pod p on the given configuration.  When the
\* volumes are those of another spec, or the pod is being killed, a failure is
\* no verdict on the configuration, and neither is a success.
Outcomes(p, content) ==
    IF Volumes(content) = Volumes(p.hash)
    THEN {IF Accepted(content) THEN "succeeded" ELSE "failed"}
         \cup (IF p.terminating THEN {"failed"} ELSE {})
    ELSE {"succeeded", "failed"}

\* From now on anything may go wrong.
Disturbed == calm' = FALSE

\* The object of that kind is written: its cached copy is out of date.
Stale(kind) == stale' = stale \cup {kind}

\* The RpaasValidation has changed under everyone who has read it.
Outdated == [r \in Requests |->
                IF request[r] = Idle THEN Idle
                ELSE [request[r] EXCEPT !.fresh = FALSE]]

JobOutdated == IF job = None THEN None ELSE [job EXCEPT !.fresh = FALSE]

----------------------------------------------------------------------------
(* The API: validationManager. *)

\* The number of a request that creates ConfigMaps.
NumberOf(edit) == IF edit.add /\ edit.block \in Files THEN edits + 1 ELSE 0

\* A request reads the instance and edits its copy; the temporary ConfigMap of a
\* file comes first.
BeginRequest(r) ==
    \E edit \in Edit :
        /\ request[r] = Idle
        /\ CanApply(edit, spec)
        /\ request' = [request EXCEPT
                          ![r] = [stage |-> "get", edit |-> edit,
                                  number |-> NumberOf(edit),
                                  want |-> Mutate(edit, NumberOf(edit), spec),
                                  fresh |-> FALSE]]
        /\ temporaries' = temporaries \cup ({NumberOf(edit)} \ {0})
        /\ calm' = (calm /\ \A q \in Requests : request[q] = Idle)
        /\ edits < MaxEdits
        /\ edits' = edits + 1
        /\ UNCHANGED <<spec, objectVars, seen, stale, workerVars, failures>>

\* The edit goes on to the next stage, or the request ends; with a temporary
\* ConfigMap it does so by way of the deferred clean-up.
MoveTo(r, stage) ==
    request' = [request EXCEPT
                   ![r] = IF stage # "end" THEN [request[r] EXCEPT !.stage = stage]
                          ELSE IF request[r].number = 0 THEN Idle
                          ELSE [request[r] EXCEPT !.stage = "cleanup"]]

Answer(r) ==
    MoveTo(r, IF validation.verdict = "valid" THEN "apply" ELSE "end")

\* waitController first looks whether there is a verdict on its spec already.
GetValidation(r) ==
    /\ request[r] # Idle
    /\ request[r].stage = "get"
    /\ \/ /\ validation = None
          /\ MoveTo(r, "create")
       \/ /\ Judged(validation)
          /\ validation.spec = request[r].want
          /\ Answer(r)
       \/ /\ validation # None
          /\ ~(validation.spec = request[r].want /\ Judged(validation))
          /\ request' = [request EXCEPT
                            ![r] = [request[r] EXCEPT !.stage = "update",
                                                      !.fresh = TRUE]]
    /\ UNCHANGED <<spec, temporaries, objectVars, seen, stale, workerVars, bounds, calm>>

\* The creation is refused when another request was faster.
CreateValidation(r) ==
    /\ request[r] # Idle
    /\ request[r].stage = "create"
    /\ \/ /\ validation = None
          /\ validation' = [spec |-> request[r].want, current |-> FALSE,
                            verdict |-> "unknown", revision |-> {}]
          /\ Stale("validation")
          /\ MoveTo(r, "wait")
       \/ /\ validation # None
          /\ MoveTo(r, "end")
          /\ UNCHANGED <<validation, stale>>
    /\ UNCHANGED <<spec, temporaries, config, pod, seen, workerVars, bounds, calm>>

\* So is an update of an object that has changed since it was read.  An update
\* without a change leaves the object alone.
UpdateValidation(r) ==
    /\ request[r] # Idle
    /\ request[r].stage = "update"
    /\ \/ /\ request[r].fresh
          /\ validation.spec # request[r].want
          /\ validation' = [validation EXCEPT !.spec = request[r].want,
                                              !.current = FALSE]
          /\ Stale("validation")
          /\ request' = [Outdated EXCEPT
                            ![r] = [request[r] EXCEPT !.stage = "wait",
                                                      !.fresh = FALSE]]
          /\ job' = JobOutdated
       \/ /\ request[r].fresh
          /\ validation.spec = request[r].want
          /\ MoveTo(r, "wait")
          /\ UNCHANGED <<validation, stale, job>>
       \/ /\ ~request[r].fresh
          /\ MoveTo(r, "end")
          /\ UNCHANGED <<validation, stale, job>>
    /\ UNCHANGED <<spec, temporaries, config, pod, seen, pc, queued, bounds, calm>>

\* As Poll, whatever generation the verdict is on (a mutant).
PollAnyVerdict(r) ==
    /\ request[r] # Idle
    /\ request[r].stage = "wait"
    /\ validation.verdict # "unknown"
    /\ Answer(r)
    /\ UNCHANGED <<spec, temporaries, objectVars, seen, stale, workerVars, bounds, calm>>

\* Whoever waits takes the verdict that is there.
Poll(r) ==
    /\ request[r] # Idle
    /\ request[r].stage = "wait"
    /\ Judged(validation)
    /\ Answer(r)
    /\ UNCHANGED <<spec, temporaries, objectVars, seen, stale, workerVars, bounds, calm>>

\* After the last poll the request gives up, and so it does when its client
\* goes away.
Timeout(r) ==
    /\ request[r] # Idle
    /\ request[r].stage # "cleanup"
    /\ MoveTo(r, "end")
    /\ Disturbed
    /\ UNCHANGED <<spec, temporaries, objectVars, seen, stale, workerVars, bounds>>

\* The wrapped manager reads the instance again and edits it.
ApplyEdit(r) ==
    /\ request[r] # Idle
    /\ request[r].stage = "apply"
    /\ spec' = IF CanApply(request[r].edit, spec)
               THEN Apply(request[r].edit, request[r].number, spec) ELSE spec
    /\ MoveTo(r, "end")
    /\ UNCHANGED <<temporaries, objectVars, seen, stale, workerVars, bounds, calm>>

\* The temporary ConfigMap is deleted, or stays for good.
CleanUp(r) ==
    /\ request[r] # Idle
    /\ request[r].stage = "cleanup"
    /\ request' = [request EXCEPT ![r] = Idle]
    /\ \/ temporaries' = temporaries \ {request[r].number} /\ UNCHANGED failures
       \/ /\ failures < MaxFailures
          /\ failures' = failures + 1
          /\ UNCHANGED temporaries
    /\ UNCHANGED <<spec, objectVars, seen, stale, workerVars, edits, calm>>

----------------------------------------------------------------------------
(* The operator: RpaasValidationReconciler. *)

\* As SyncCache, without watching pods (a mutant).
SyncCacheOnly(kind) ==
    /\ kind \in stale
    /\ seen' = [seen EXCEPT
                   ![kind] = CASE kind = "validation" -> validation
                               [] kind = "config"     -> config
                               [] kind = "pod"        -> pod]
    /\ stale' = stale \ {kind}
    /\ queued' = (queued \/ kind = "validation")
    /\ UNCHANGED <<apiVars, objectVars, pc, job, bounds, calm>>

\* An event refreshes a cached copy.  ConfigMaps are not watched.
SyncCache(kind) ==
    /\ kind \in stale
    /\ seen' = [seen EXCEPT
                   ![kind] = CASE kind = "validation" -> validation
                               [] kind = "config"     -> config
                               [] kind = "pod"        -> pod]
    /\ stale' = stale \ {kind}
    /\ queued' = (queued \/ kind # "config")
    /\ UNCHANGED <<apiVars, objectVars, pc, job, bounds, calm>>

\* The periodic resync enqueues the validation.
Resync ==
    /\ ~queued
    /\ queued' = TRUE
    /\ UNCHANGED <<apiVars, objectVars, seen, stale, pc, job, bounds, calm>>

End(again) ==
    /\ pc' = "idle"
    /\ job' = None
    /\ queued' = (queued \/ again)

\* Nothing is left to do when the verdict is there.
StartReconcile ==
    LET v == seen["validation"] IN
    /\ pc = "idle"
    /\ queued
    /\ queued' = FALSE
    /\ \/ /\ v # None
          /\ ~Judged(v)
          /\ job' = [spec |-> v.spec, fresh |-> "validation" \notin stale]
          /\ pc' = "config"
       \/ /\ v = None \/ Judged(v)
          /\ UNCHANGED <<pc, job>>
    /\ UNCHANGED <<apiVars, objectVars, seen, stale, bounds, calm>>

\* A spec that cannot be rendered is an error, now and at every retry, and gets no
\* verdict.  A cached copy that is out of date may look like the rendered
\* configuration.
ReconcileConfigMap ==
    /\ pc = "config"
    /\ \/ /\ BlocksIn(job.spec) \notin Renderable
          /\ End(TRUE)
          /\ UNCHANGED <<config, stale, calm>>
       \/ /\ BlocksIn(job.spec) \in Renderable
          /\ seen["config"] = [content |-> job.spec]
          /\ pc' = "finish"
          /\ calm' = (calm /\ "config" \notin stale)
          /\ UNCHANGED <<config, stale, job, queued>>
       \/ /\ BlocksIn(job.spec) \in Renderable
          /\ seen["config"] # [content |-> job.spec]
          /\ "config" \notin stale
          /\ config' = [content |-> job.spec]
          /\ Stale("config")
          /\ pc' = "finish"
          /\ UNCHANGED <<job, queued, calm>>
       \/ /\ BlocksIn(job.spec) \in Renderable
          /\ seen["config"] # [content |-> job.spec]
          /\ "config" \in stale
          /\ End(TRUE)
          /\ UNCHANGED <<config, stale, calm>>
    /\ UNCHANGED <<apiVars, validation, pod, seen, bounds>>

\* A pod of this very spec has ended, with the status of its container.
HasOutcome(p) == p # None /\ p.hash = job.spec /\ p.phase \in {"succeeded", "failed"}

\* As FinishValidation, with a status update that is never refused (a mutant).
FinishWithoutConflict ==
    LET p == seen["pod"] IN
    /\ pc = "finish"
    /\ \/ /\ HasOutcome(p)
          /\ validation' =
                [validation EXCEPT
                    !.current = TRUE, !.revision = {job.spec},
                    !.verdict = IF p.phase = "succeeded" THEN "valid"
                                ELSE "invalid"]
          /\ Stale("validation")
          /\ request' = Outdated
          /\ pc' = "delete"
       \/ /\ ~HasOutcome(p)
          /\ pc' = "pod"
          /\ UNCHANGED <<validation, stale, request>>
    /\ UNCHANGED <<spec, temporaries, config, pod, seen, job, queued, bounds, calm>>

\* The verdict is written, unless the validation has changed in the meantime.
FinishValidation ==
    LET p == seen["pod"] IN
    /\ pc = "finish"
    /\ \/ /\ HasOutcome(p)
          /\ job.fresh
          /\ validation' =
                [validation EXCEPT
                    !.current = TRUE, !.revision = {job.spec},
                    !.verdict = IF p.phase = "succeeded" THEN "valid"
                                ELSE "invalid"]
          /\ Stale("validation")
          /\ request' = Outdated
          /\ pc' = "delete"
          /\ UNCHANGED <<job, queued>>
       \/ /\ HasOutcome(p)
          /\ ~job.fresh
          /\ End(TRUE)
          /\ UNCHANGED <<validation, stale, request>>
       \/ /\ ~HasOutcome(p)
          /\ pc' = "pod"
          /\ UNCHANGED <<validation, stale, request, job, queued>>
    /\ UNCHANGED <<spec, temporaries, config, pod, seen, bounds, calm>>

\* The pod goes at once, or after its grace period.
DeletePodNow ==
    /\ pod # None
    /\ pod' \in {None, [pod EXCEPT !.terminating = TRUE]}
    /\ Stale("pod")

NewPod == [hash |-> job.spec, phase |-> "pending", terminating |-> FALSE]

DeletePod ==
    /\ pc = "delete"
    /\ \/ DeletePodNow /\ End(FALSE)
       \/ pod = None /\ End(TRUE) /\ UNCHANGED <<pod, stale>>
    /\ UNCHANGED <<apiVars, validation, config, seen, bounds, calm>>

\* The pod is created, left alone when its pod spec is the wanted one, or
\* replaced.
ReconcilePod ==
    LET p == seen["pod"] IN
    /\ pc = "pod"
    /\ \/ /\ p = None
          /\ pod = None
          /\ pod' = NewPod
          /\ Stale("pod")
          /\ End(FALSE)
       \/ /\ p = None
          /\ pod # None
          /\ End(TRUE)
          /\ UNCHANGED <<pod, stale>>
       \/ /\ p # None
          /\ Volumes(p.hash) = Volumes(job.spec)
          /\ End(TRUE)
          /\ UNCHANGED <<pod, stale>>
       \/ /\ p # None
          /\ Volumes(p.hash) # Volumes(job.spec)
          /\ DeletePodNow
          /\ pc' = "recreate"
          /\ UNCHANGED <<job, queued>>
       \/ /\ p # None
          /\ Volumes(p.hash) # Volumes(job.spec)
          /\ pod = None
          /\ End(TRUE)
          /\ UNCHANGED <<pod, stale>>
    /\ UNCHANGED <<apiVars, validation, config, seen, bounds, calm>>

RecreatePod ==
    /\ pc = "recreate"
    /\ \/ pod = None /\ pod' = NewPod /\ Stale("pod") /\ End(FALSE)
       \/ pod # None /\ End(TRUE) /\ UNCHANGED <<pod, stale>>
    /\ UNCHANGED <<apiVars, validation, config, seen, bounds, calm>>

\* A call to the API server fails.
CallFails ==
    /\ pc # "idle"
    /\ failures < MaxFailures
    /\ failures' = failures + 1
    /\ Disturbed
    /\ End(TRUE)
    /\ UNCHANGED <<apiVars, objectVars, seen, stale, edits>>

\* The operator starts again, with new caches.
Crash ==
    /\ failures < MaxFailures
    /\ failures' = failures + 1
    /\ Disturbed
    /\ seen' = [kind \in Kinds |-> CASE kind = "validation" -> validation
                                     [] kind = "config"     -> config
                                     [] kind = "pod"        -> pod]
    /\ stale' = {}
    /\ pc' = "idle"
    /\ job' = None
    /\ queued' = TRUE
    /\ UNCHANGED <<apiVars, objectVars, edits>>

----------------------------------------------------------------------------
(* The kubelet. *)

\* The pod starts, with the ConfigMaps as they are now, and ends.  It waits for
\* those that are not there, and may never get as far as that: its image and its
\* init containers are the users'.
PodRuns ==
    /\ pod # None
    /\ pod.phase = "pending"
    /\ config # None
    /\ Mountable(pod.hash)
    /\ \E outcome \in Outcomes(pod, config.content) :
          pod' = [pod EXCEPT !.phase = outcome]
    /\ Stale("pod")
    /\ UNCHANGED <<apiVars, validation, config, seen, workerVars, bounds, calm>>

\* The pod fails without a word on its container.
PodLost ==
    /\ pod # None
    /\ pod.phase = "pending"
    /\ failures < MaxFailures
    /\ failures' = failures + 1
    /\ pod' = [pod EXCEPT !.phase = "lost"]
    /\ Stale("pod")
    /\ UNCHANGED <<apiVars, validation, config, seen, workerVars, edits, calm>>

PodGone ==
    /\ pod # None
    /\ pod.terminating
    /\ pod' = None
    /\ Stale("pod")
    /\ UNCHANGED <<apiVars, validation, config, seen, workerVars, bounds, calm>>

----------------------------------------------------------------------------
Init ==
    /\ spec = {}
    /\ temporaries = {}
    /\ request = [r \in Requests |-> Idle]
    /\ validation = None
    /\ config = None
    /\ pod = None
    /\ seen = [kind \in Kinds |-> None]
    /\ stale = {}
    /\ queued = FALSE
    /\ pc = "idle"
    /\ job = None
    /\ edits = 0
    /\ failures = 0
    /\ calm = TRUE

API(r) ==
    \/ BeginRequest(r) \/ GetValidation(r) \/ CreateValidation(r)
    \/ UpdateValidation(r) \/ Poll(r) \/ Timeout(r) \/ ApplyEdit(r)
    \/ CleanUp(r)

Reconcile ==
    \/ StartReconcile \/ ReconcileConfigMap \/ FinishValidation \/ DeletePod
    \/ ReconcilePod \/ RecreatePod

Next ==
    \/ \E r \in Requests : API(r)
    \/ \E kind \in Kinds : SyncCache(kind)
    \/ Resync \/ Reconcile \/ CallFails \/ Crash
    \/ PodRuns \/ PodLost \/ PodGone

Spec == Init /\ [][Next]_vars

\* Watches deliver, the worker runs, and pods are stopped.  Nothing makes a pod
\* start and end.
Fairness ==
    /\ \A kind \in Kinds : WF_vars(SyncCache(kind))
    /\ WF_vars(Reconcile) /\ WF_vars(PodGone)

FairSpec == Spec /\ Fairness

----------------------------------------------------------------------------
(* Properties. *)

\* Every variable has the shape of the object it stands for.
TypeOK ==
    /\ spec \in Specs
    /\ request \in [Requests -> Request \cup {Idle}]
    /\ temporaries \in SUBSET (1..MaxEdits)
    /\ validation \in RpaasValidation \cup {None}
    /\ config \in Config \cup {None}
    /\ pod \in Pod \cup {None}
    /\ seen \in [Kinds -> RpaasValidation \cup Config \cup Pod \cup {None}]
    /\ seen["validation"] \in RpaasValidation \cup {None}
    /\ seen["config"] \in Config \cup {None}
    /\ seen["pod"] \in Pod \cup {None}
    /\ stale \in SUBSET Kinds
    /\ queued \in BOOLEAN
    /\ pc \in {"idle", "config", "finish", "delete", "pod", "recreate"}
    /\ job \in Job \cup {None}
    /\ pc = "idle" <=> job = None
    /\ edits \in 0..MaxEdits
    /\ failures \in 0..MaxFailures
    /\ calm \in BOOLEAN

\* A verdict that counts is on the spec that is stored with it, however stale
\* the caches that the operator worked with and however many requests have
\* written the object in the meantime (finishValidation's status update).
RevisionMatches ==
    Judged(validation) =>
        validation.revision = {validation.spec}

\* A verdict that counts is final: it is not replaced until the spec is.
VerdictFinal ==
    [][Judged(validation) /\ validation'.current
          => validation'.verdict = validation.verdict]_vars

\* A spec with the verdict that it is valid is one that nginx accepts: "Valid
\* determines whether validation is valid" (RpaasValidationStatus).
VerdictIsSound ==
    Judged(validation) /\ validation.verdict = "valid" =>
        Accepted(validation.spec)

\* As long as requests come one at a time and are not given up, no call fails
\* and the cache of ConfigMaps keeps up, verdicts are right and the instance
\* never gets a configuration that nginx refuses, although the caches of
\* validations and pods lag behind each other (the purpose of
\* validationManager).
CalmIsSound == calm => VerdictIsSound /\ Accepted(spec)

\* The operator can make no configuration of the spec.
Unrenderable == BlocksIn(validation.spec) \notin Renderable

\* The pod of the spec has not come to an end: it cannot start, a ConfigMap of it
\* being gone, say, or does not.
Unfinished ==
    pod # None /\ pod.hash = validation.spec /\ pod.phase = "pending"

\* A pod with the volumes of the spec, but of another one or without an outcome,
\* stands in the way: it is neither used nor replaced.
Blocked ==
    /\ pod # None
    /\ Volumes(pod.hash) = Volumes(validation.spec)
    /\ pod.hash # validation.spec \/ pod.phase = "lost"

Disturbance == \/ \E r \in Requests : API(r)
               \/ CallFails \/ Crash

\* Once a spec is there, and is left alone, there will be a verdict on it, unless
\* it cannot be rendered, its pod has not come to an end, or a pod that an
\* earlier validation left behind, or that was lost, stands in the way
\* (Reconcile, finishValidation and reconcilePod, however stale their reads).
EventuallyJudged ==
    <>[][~Disturbance]_vars =>
        <>[](validation # None =>
                Judged(validation) \/ Unrenderable \/ Unfinished \/ Blocked)
=============================================================================
