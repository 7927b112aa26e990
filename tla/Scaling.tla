------------------------------ MODULE Scaling ------------------------------
(***************************************************************************)
(* How many replicas an instance runs, and who decides: the API operations *)
(* Scale, Start, Stop, UpdateAutoscale and DeleteAutoscale, and the part   *)
(* of the reconciliation that turns the spec into the replicas of the      *)
(* Nginx, a HorizontalPodAutoscaler or a KEDA ScaledObject, and a          *)
(* PodDisruptionBudget.                                                    *)
(*                                                                         *)
(* As in UpstreamOptions, a request reads the instance, edits its copy and *)
(* sends the difference as a JSON merge patch.  Spec.Autoscale is an       *)
(* object, which a merge patch merges field by field.  The operator's      *)
(* reads are taken to be up to date here: InstanceReconcile is about the   *)
(* lag of its caches.                                                      *)
(***************************************************************************)
EXTENDS Integers

CONSTANTS
    Requests,       \* the API requests that clients send, one operation each
    ReplicasArgs,   \* the numbers of replicas that clients ask for
    AutoscaleArgs,  \* the autoscale settings that clients send
    KEDAEnabled     \* the flavors of the instance enable KEDA

Nil == -1

\* "cpu" stands for both resource targets, "sched" is the MinReplicas of a
\* scheduled window.  Nil is a missing field.
AutoscaleFields == {"min", "max", "cpu", "rps", "sched"}

Autoscale == [AutoscaleFields -> Int]

\* Spec.Autoscale is absent.  (An object without maxReplicas is refused by the
\* schema of the resource.)
NoAutoscale == [f \in AutoscaleFields |-> Nil]

InstanceSpec == [replicas : Int, shutdown : BOOLEAN, pdb : BOOLEAN,
                 autoscale : Autoscale]

Patch == [replicas : SUBSET Int, shutdown : SUBSET BOOLEAN,
          pdb : SUBSET BOOLEAN, deletesAutoscale : BOOLEAN,
          autoscale : [AutoscaleFields -> SUBSET Int]]

ASSUME ArgsAssumption == /\ ReplicasArgs \subseteq Int
                         /\ AutoscaleArgs \subseteq Autoscale
                         /\ KEDAEnabled \in BOOLEAN

NoSpec == [name |-> "no spec"]
NoNginx == [replicas |-> Nil, exists |-> FALSE, podSelector |-> FALSE]
NoHPA == [owner |-> "none", min |-> Nil, max |-> Nil, cpu |-> Nil]

VARIABLES
    spec,          \* the spec of the RpaasInstance
    pending,       \* what each request has to do: all of it, send its patch, nothing
    nginx,         \* the Nginx resource
    hpa,           \* the HorizontalPodAutoscaler
    scaledObject,  \* the KEDA ScaledObject, NoAutoscale when there is none
    pdb,           \* the PodDisruptionBudget exists
    recorded,      \* the status of the instance describes the current spec
    queued,        \* the instance is in the work queue
    pc, read,      \* what the worker does next, and the spec it works on
    podSelector    \* the worker's Nginx object carries a pod selector

apiVars == <<spec, pending>>
clusterVars == <<nginx, hpa, scaledObject, pdb, recorded>>
workerVars == <<pc, read, podSelector>>
vars == <<apiVars, clusterVars, workerVars, queued>>

NotYet == [done |-> FALSE]
Done == [done |-> TRUE]

----------------------------------------------------------------------------
(* API operations. *)

HasTarget(a) == a["cpu"] # Nil \/ a["rps"] # Nil \/ a["sched"] # Nil

ValidateAutoscale(a) ==
    /\ a["max"] > 0
    /\ a["min"] > 0
    /\ a["min"] <= a["max"]
    /\ HasTarget(a)
    /\ \A f \in {"cpu", "rps", "sched"} : a[f] # Nil => a[f] > 0
    /\ a["sched"] <= a["max"]

\* The merge patch of two specs: for every leaf, the value that it writes, if
\* it says anything of that leaf.
Written(old, new) == {new} \ {old}

MergePatch(old, new) ==
    LET deletes == old.autoscale # NoAutoscale /\ new.autoscale = NoAutoscale
    IN  [replicas |-> Written(old.replicas, new.replicas),
         shutdown |-> Written(old.shutdown, new.shutdown),
         pdb |-> Written(old.pdb, new.pdb),
         deletesAutoscale |-> deletes,
         autoscale |->
            [f \in AutoscaleFields |->
                IF deletes THEN {}
                ELSE Written(old.autoscale[f], new.autoscale[f])]]

\* Request r has read the instance, edited its copy and computed the patch.
Begin(r, new) ==
    /\ pending[r] = NotYet
    /\ pending' = [pending EXCEPT ![r] = MergePatch(spec, new)]
    /\ UNCHANGED <<spec, clusterVars, workerVars, queued>>

\* Scaling out from zero also undoes a Stop.
Scale(r) ==
    \E n \in ReplicasArgs :
        /\ spec.autoscale = NoAutoscale
        /\ n >= 0
        /\ Begin(r, [spec EXCEPT
                        !.replicas = n,
                        !.shutdown = @ /\ ~(n > 0 /\ spec.replicas = 0)])

Start(r) == Begin(r, [spec EXCEPT !.shutdown = FALSE])

Stop(r) == Begin(r, [spec EXCEPT !.shutdown = TRUE])

UpdateAutoscale(r) ==
    \E a \in AutoscaleArgs :
        /\ ValidateAutoscale(a)
        /\ Begin(r, [spec EXCEPT !.autoscale = a])

DeleteAutoscale(r) == Begin(r, [spec EXCEPT !.autoscale = NoAutoscale])

Apply(written, current) ==
    IF written = {} THEN current ELSE CHOOSE v \in written : TRUE

\* EnablePodDisruptionBudget is an edit of the resource itself, by its
\* administrator, and sent in the same way.
TogglePDB(r) == Begin(r, [spec EXCEPT !.pdb = ~@])

\* A merge patch deletes the autoscale object, or merges its changed fields
\* into whatever object is there.
MergeAutoscale(p, current) ==
    IF p.deletesAutoscale THEN NoAutoscale
    ELSE [f \in AutoscaleFields |-> Apply(p.autoscale[f], current[f])]

\* The API server refuses an autoscale object without maxReplicas.
SchemaAccepts(p, current) ==
    (\E f \in AutoscaleFields : p.autoscale[f] # {})
        => MergeAutoscale(p, current)["max"] # Nil

ApplyPatch(p, current) ==
    [current EXCEPT
        !.replicas = Apply(p.replicas, @),
        !.shutdown = Apply(p.shutdown, @),
        !.pdb = Apply(p.pdb, @),
        !.autoscale = MergeAutoscale(p, @)]

PatchInstance(r) ==
    LET p == pending[r] IN
    /\ p \notin {NotYet, Done}
    /\ pending' = [pending EXCEPT ![r] = Done]
    /\ SchemaAccepts(p, spec.autoscale)
    /\ spec' = ApplyPatch(p, spec)
    /\ queued' = (queued \/ spec' # spec)
    /\ recorded' = (recorded /\ spec' = spec)
    /\ UNCHANGED <<nginx, hpa, scaledObject, pdb, workerVars>>

\* The patch is refused, or the client or the API server is gone.
PatchFails(r) ==
    /\ pending[r] \notin {NotYet, Done}
    /\ pending' = [pending EXCEPT ![r] = Done]
    /\ UNCHANGED <<spec, clusterVars, workerVars, queued>>

----------------------------------------------------------------------------
(* Reconciliation. *)

IsAutoscaleValid(a) == a["min"] > 0 /\ a["max"] > 0 /\ HasTarget(a)

\* As IsAutoscaleEnabled, whether or not the instance is shut down (a mutant).
IsAutoscaleSet(s) == IsAutoscaleValid(s.autoscale)

IsAutoscaleEnabled(s) == ~s.shutdown /\ IsAutoscaleValid(s.autoscale)

IsKEDAHandlingHPA(s) ==
    /\ KEDAEnabled
    /\ s.autoscale["rps"] # Nil \/ s.autoscale["sched"] # Nil

\* The replicas of an autoscaled instance are left to the autoscaler.
NewReplicas(s) ==
    IF IsAutoscaleEnabled(s) THEN Nil
    ELSE IF s.shutdown THEN 0 ELSE s.replicas

\* An update of the HPA leaves its owner as it is.
NewHPA(s, owner) ==
    [owner |-> owner,
     min |-> IF s.autoscale["min"] # Nil THEN s.autoscale["min"] ELSE s.replicas,
     max |-> s.autoscale["max"], cpu |-> s.autoscale["cpu"]]

StartReconcile ==
    /\ pc = "idle"
    /\ queued
    /\ queued' = FALSE
    /\ read' = spec
    /\ pc' = "nginx"
    /\ UNCHANGED <<apiVars, clusterVars, podSelector>>

\* Only an update brings the status of the Nginx, with its pod selector, into
\* the object that the rest of the reconciliation works with.
ReconcileNginx ==
    /\ pc = "nginx"
    /\ \/ /\ ~nginx.exists
          /\ nginx' = [replicas |-> NewReplicas(read), exists |-> TRUE,
                       podSelector |-> FALSE]
          /\ podSelector' = FALSE
          /\ queued' = TRUE
       \/ /\ nginx.exists
          /\ nginx.replicas # NewReplicas(read)
          /\ nginx' = [nginx EXCEPT !.replicas = NewReplicas(read)]
          /\ podSelector' = nginx.podSelector
          /\ queued' = TRUE
       \/ /\ nginx.exists
          /\ nginx.replicas = NewReplicas(read)
          /\ podSelector' = FALSE
          /\ UNCHANGED <<nginx, queued>>
    /\ pc' = IF IsKEDAHandlingHPA(read) THEN "keda" ELSE "cleanup"
    /\ UNCHANGED <<apiVars, hpa, scaledObject, pdb, recorded, read>>

ReconcileKEDA ==
    /\ pc = "keda"
    /\ scaledObject' = IF IsAutoscaleEnabled(read) THEN read.autoscale
                       ELSE NoAutoscale
    /\ pc' = "pdb"
    /\ UNCHANGED <<apiVars, nginx, hpa, pdb, recorded, read, podSelector, queued>>

\* As CleanUpKEDAScaledObject, leaving it there (a mutant).
SkipCleanUp ==
    /\ pc = "cleanup"
    /\ pc' = "hpa"
    /\ UNCHANGED <<apiVars, clusterVars, read, podSelector, queued>>

CleanUpKEDAScaledObject ==
    /\ pc = "cleanup"
    /\ scaledObject' = NoAutoscale
    /\ pc' = "hpa"
    /\ UNCHANGED <<apiVars, nginx, hpa, pdb, recorded, read, podSelector, queued>>

\* The API server refuses an HPA whose lower bound is above its upper one, and
\* KEDA does not act on such a ScaledObject.
BoundsAccepted(a) == a["min"] <= a["max"]

ReconcileHPA ==
    /\ pc = "hpa"
    /\ IsAutoscaleEnabled(read) => BoundsAccepted(read.autoscale)
    /\ \/ /\ hpa = NoHPA
          /\ IsAutoscaleEnabled(read)
          /\ hpa' = NewHPA(read, "rpaas")
       \/ /\ hpa # NoHPA
          /\ IsAutoscaleEnabled(read)
          /\ hpa' = NewHPA(read, hpa.owner)
       \/ /\ ~IsAutoscaleEnabled(read)
          /\ hpa' = NoHPA
    /\ pc' = "pdb"
    /\ UNCHANGED <<apiVars, nginx, scaledObject, pdb, recorded, read,
                   podSelector, queued>>

\* Nothing is done while the pod selector is not known.
ReconcilePDB ==
    /\ pc = "pdb"
    /\ pdb' = IF podSelector THEN read.pdb ELSE pdb
    /\ pc' = "status"
    /\ UNCHANGED <<apiVars, nginx, hpa, scaledObject, recorded, read,
                   podSelector, queued>>

EndReconcile ==
    /\ pc' = "idle"
    /\ read' = NoSpec
    /\ podSelector' = FALSE

\* A new status enqueues the instance once more, and so does the refusal to
\* write a status over an instance that has changed.
RefreshStatus ==
    /\ pc = "status"
    /\ recorded' = (read = spec)
    /\ queued' = (queued \/ read # spec \/ ~recorded)
    /\ EndReconcile
    /\ UNCHANGED <<apiVars, nginx, hpa, scaledObject, pdb>>

\* The HPA is refused, now and whenever the reconciliation is tried again.
HPARefused ==
    /\ pc = "hpa"
    /\ IsAutoscaleEnabled(read)
    /\ ~BoundsAccepted(read.autoscale)
    /\ EndReconcile
    /\ queued' = TRUE
    /\ UNCHANGED <<apiVars, clusterVars>>

\* A call fails: the instance is reconciled again.
ReconcileFails ==
    /\ pc # "idle"
    /\ EndReconcile
    /\ queued' = TRUE
    /\ UNCHANGED <<apiVars, clusterVars>>

\* The periodic resync.
Resync ==
    /\ ~queued
    /\ queued' = TRUE
    /\ UNCHANGED <<apiVars, clusterVars, workerVars>>

----------------------------------------------------------------------------
(* Other controllers. *)

\* The nginx-operator publishes the pod selector.
NginxReady ==
    /\ nginx.exists
    /\ ~nginx.podSelector
    /\ nginx' = [nginx EXCEPT !.podSelector = TRUE]
    /\ queued' = TRUE
    /\ UNCHANGED <<apiVars, hpa, scaledObject, pdb, recorded, workerVars>>

\* KEDA keeps an HPA for a ScaledObject, and takes over one that is there.
KEDA ==
    LET wanted == [owner |-> "keda", min |-> scaledObject["min"],
                   max |-> scaledObject["max"], cpu |-> scaledObject["cpu"]]
    IN
    /\ scaledObject # NoAutoscale
    /\ BoundsAccepted(scaledObject)
    /\ hpa # wanted
    /\ hpa' = wanted
    /\ UNCHANGED <<apiVars, nginx, scaledObject, pdb, recorded, workerVars,
                   queued>>

\* The garbage collector deletes the HPA of a ScaledObject that is gone.
CollectHPA ==
    /\ scaledObject = NoAutoscale
    /\ hpa.owner = "keda"
    /\ hpa' = NoHPA
    /\ UNCHANGED <<apiVars, nginx, scaledObject, pdb, recorded, workerVars,
                   queued>>

----------------------------------------------------------------------------
Init ==
    /\ spec = [replicas |-> 1, shutdown |-> FALSE, pdb |-> FALSE,
               autoscale |-> NoAutoscale]
    /\ pending = [r \in Requests |-> NotYet]
    /\ nginx = NoNginx
    /\ hpa = NoHPA
    /\ scaledObject = NoAutoscale
    /\ pdb = FALSE
    /\ recorded = FALSE
    /\ queued = TRUE
    /\ pc = "idle"
    /\ read = NoSpec
    /\ podSelector = FALSE

Edit(r) ==
    \/ Scale(r) \/ Start(r) \/ Stop(r)
    \/ UpdateAutoscale(r) \/ DeleteAutoscale(r) \/ TogglePDB(r)

Reconcile ==
    \/ StartReconcile \/ ReconcileNginx \/ ReconcileKEDA
    \/ CleanUpKEDAScaledObject \/ ReconcileHPA \/ HPARefused
    \/ ReconcilePDB \/ RefreshStatus

Next ==
    \/ \E r \in Requests : Edit(r) \/ PatchInstance(r) \/ PatchFails(r)
    \/ Reconcile \/ ReconcileFails \/ Resync
    \/ NginxReady \/ KEDA \/ CollectHPA

Spec == Init /\ [][Next]_vars

\* The worker runs, the resync comes, and the other controllers do their part.
Fairness ==
    /\ WF_vars(Reconcile) /\ WF_vars(Resync)
    /\ WF_vars(NginxReady) /\ WF_vars(KEDA) /\ WF_vars(CollectHPA)

FairSpec == Spec /\ Fairness

----------------------------------------------------------------------------
(* Properties. *)

\* Every variable has the shape of the object it stands for.
TypeOK ==
    /\ spec \in InstanceSpec
    /\ pending \in [Requests -> Patch \cup {NotYet, Done}]
    /\ nginx \in [replicas : Int, exists : BOOLEAN, podSelector : BOOLEAN]
    /\ hpa \in [owner : {"none", "rpaas", "keda"}, min : Int, max : Int,
                cpu : Int]
    /\ scaledObject \in Autoscale
    /\ pdb \in BOOLEAN
    /\ recorded \in BOOLEAN
    /\ queued \in BOOLEAN
    /\ pc \in {"idle", "nginx", "keda", "cleanup", "hpa", "pdb", "status"}
    /\ read \in InstanceSpec \cup {NoSpec}
    /\ pc = "idle" <=> read = NoSpec
    /\ podSelector \in BOOLEAN

\* The settings that are stored make sense together: "min replicas must not be
\* greater than max replicas" (the message of validateAutoscale).  Not an
\* invariant: the patches of two updates, each of which makes sense, may merge
\* into settings that do not.
BoundsOrdered == spec.autoscale["min"] <= spec.autoscale["max"]

\* Nothing is left to do: no reconciliation is queued or under way, and the
\* other controllers have caught up.
Quiescent ==
    /\ ~queued /\ pc = "idle"
    /\ nginx.podSelector
    /\ scaledObject # NoAutoscale /\ BoundsAccepted(scaledObject) =>
          hpa = [owner |-> "keda", min |-> scaledObject["min"],
                 max |-> scaledObject["max"], cpu |-> scaledObject["cpu"]]
    /\ scaledObject = NoAutoscale => hpa.owner # "keda"

\* An instance at rest runs no replicas when it is shut down, those of its
\* autoscaler when its settings have bounds and something to scale by, and
\* otherwise the requested ones.  A ScaledObject exists while, and only while,
\* KEDA is to scale the instance, with the stored settings, and an instance
\* that nothing scales has no HPA, unless KEDA is to look after it (newNginx,
\* reconcileHPA, reconcileKEDA, cleanUpKEDAScaledObject).  The settings are
\* whatever overlapping patches have made of them.
QuiescentScaling ==
    LET a == spec.autoscale
        byKEDA == KEDAEnabled /\ (a["rps"] # Nil \/ a["sched"] # Nil)
        scaled == /\ ~spec.shutdown
                  /\ a["min"] > 0 /\ a["max"] > 0
                  /\ \E f \in {"cpu", "rps", "sched"} : a[f] # Nil
    IN
    Quiescent =>
        /\ nginx.replicas = IF spec.shutdown THEN 0
                            ELSE IF scaled THEN Nil ELSE spec.replicas
        /\ scaledObject = IF byKEDA /\ scaled THEN a ELSE NoAutoscale
        /\ ~scaled /\ ~byKEDA => hpa = NoHPA

Disturbance ==
    \/ \E r \in Requests : PatchInstance(r)
    \/ ReconcileFails

\* Once edits and failures stop, an instance whose replicas are left to an
\* autoscaler gets one with the stored bounds and keeps it, although HPAs are
\* not watched and one can be collected after the operator has updated it.
\* Overlapping patches can leave bounds that no autoscaler accepts: there the
\* reconciliation fails for ever.
EventuallyAutoscaled ==
    <>[][~Disturbance]_vars =>
        <>[](IsAutoscaleEnabled(spec) /\ BoundsOrdered =>
                /\ hpa.min = spec.autoscale["min"]
                /\ hpa.max = spec.autoscale["max"])

=============================================================================
