--------------------------- MODULE Scaling_proofs ---------------------------
(***************************************************************************)
(* Type correctness of Scaling for any number of requests and any          *)
(* settings, and what an instance at rest runs, however the requests       *)
(* overlap.                                                                *)
(***************************************************************************)
EXTENDS Scaling, TLAPS

----------------------------------------------------------------------------
(* Type correctness. *)

\* The merge patch of two specs is a patch.
LEMMA MergePatchType ==
    ASSUME NEW old \in InstanceSpec, NEW new \in InstanceSpec
    PROVE  MergePatch(old, new) \in Patch
<1> DEFINE deletes == old.autoscale # NoAutoscale /\ new.autoscale = NoAutoscale
           fields == [f \in AutoscaleFields |->
                         IF deletes THEN {}
                         ELSE Written(old.autoscale[f], new.autoscale[f])]
<1>1. fields \in [AutoscaleFields -> SUBSET Int]
  BY DEF InstanceSpec, Autoscale, Written
<1>2. /\ Written(old.replicas, new.replicas) \in SUBSET Int
      /\ Written(old.shutdown, new.shutdown) \in SUBSET BOOLEAN
      /\ Written(old.pdb, new.pdb) \in SUBSET BOOLEAN
  BY DEF InstanceSpec, Written
<1>3. deletes \in BOOLEAN
  OBVIOUS
<1>4. MergePatch(old, new) =
          [replicas |-> Written(old.replicas, new.replicas),
           shutdown |-> Written(old.shutdown, new.shutdown),
           pdb |-> Written(old.pdb, new.pdb),
           deletesAutoscale |-> deletes, autoscale |-> fields]
  BY DEF MergePatch
<1> HIDE DEF deletes, fields
<1> QED BY <1>1, <1>2, <1>3, <1>4 DEF Patch

\* What a patch makes of a leaf is a value that it writes or the one that is
\* there.
LEMMA ApplyType ==
    ASSUME NEW S, NEW written \in SUBSET S, NEW current \in S
    PROVE  Apply(written, current) \in S
BY DEF Apply

\* A patch turns a spec into a spec.
LEMMA ApplyPatchType ==
    ASSUME NEW p \in Patch, NEW current \in InstanceSpec
    PROVE  ApplyPatch(p, current) \in InstanceSpec
<1>1. NoAutoscale \in Autoscale
  BY DEF NoAutoscale, Autoscale, Nil
<1>2. \A f \in AutoscaleFields : Apply(p.autoscale[f], current.autoscale[f]) \in Int
  BY ApplyType DEF Patch, InstanceSpec, Autoscale
<1>3. MergeAutoscale(p, current.autoscale) \in Autoscale
  BY <1>1, <1>2 DEF MergeAutoscale, Autoscale
<1>4. /\ Apply(p.replicas, current.replicas) \in Int
      /\ Apply(p.shutdown, current.shutdown) \in BOOLEAN
      /\ Apply(p.pdb, current.pdb) \in BOOLEAN
  BY ApplyType DEF Patch, InstanceSpec
<1> QED BY <1>3, <1>4 DEF ApplyPatch, InstanceSpec

\* A request stores the patch from what it read to an edit of it.
LEMMA BeginType ==
    ASSUME TypeOK, NEW r \in Requests, NEW new \in InstanceSpec, Begin(r, new)
    PROVE  TypeOK'
<1>1. MergePatch(spec, new) \in Patch
  BY MergePatchType DEF TypeOK
<1> QED BY <1>1 DEF Begin, TypeOK, clusterVars, workerVars

\* The edits of the API operations and of the administrator are specs.
LEMMA EditType ==
    ASSUME TypeOK, NEW r \in Requests, Edit(r)
    PROVE  TypeOK'
<1>1. NoAutoscale \in Autoscale
  BY DEF NoAutoscale, Autoscale, Nil
<1>2. spec \in InstanceSpec
  BY DEF TypeOK
<1>3. CASE Scale(r)
  <2>1. PICK n \in ReplicasArgs :
           Begin(r, [spec EXCEPT
                        !.replicas = n,
                        !.shutdown = @ /\ ~(n > 0 /\ spec.replicas = 0)])
    BY <1>3 DEF Scale
  <2>2. [spec EXCEPT !.replicas = n,
                     !.shutdown = @ /\ ~(n > 0 /\ spec.replicas = 0)]
            \in InstanceSpec
    BY <1>2, ArgsAssumption DEF InstanceSpec
  <2> QED BY <2>1, <2>2, BeginType
<1>4. CASE Start(r)
  <2>1. [spec EXCEPT !.shutdown = FALSE] \in InstanceSpec
    BY <1>2 DEF InstanceSpec
  <2> QED BY <1>4, <2>1, BeginType DEF Start
<1>5. CASE Stop(r)
  <2>1. [spec EXCEPT !.shutdown = TRUE] \in InstanceSpec
    BY <1>2 DEF InstanceSpec
  <2> QED BY <1>5, <2>1, BeginType DEF Stop
<1>6. CASE UpdateAutoscale(r)
  <2>1. PICK a \in AutoscaleArgs : Begin(r, [spec EXCEPT !.autoscale = a])
    BY <1>6 DEF UpdateAutoscale
  <2>2. [spec EXCEPT !.autoscale = a] \in InstanceSpec
    BY <1>2, ArgsAssumption DEF InstanceSpec
  <2> QED BY <2>1, <2>2, BeginType
<1>7. CASE DeleteAutoscale(r)
  <2>1. [spec EXCEPT !.autoscale = NoAutoscale] \in InstanceSpec
    BY <1>1, <1>2 DEF InstanceSpec
  <2> QED BY <1>7, <2>1, BeginType DEF DeleteAutoscale
<1>8. CASE TogglePDB(r)
  <2>1. \A b \in BOOLEAN : [spec EXCEPT !.pdb = b] \in InstanceSpec
    BY <1>2 DEF InstanceSpec
  <2>2. [spec EXCEPT !.pdb = ~spec.pdb] \in InstanceSpec
    BY <2>1
  <2> QED BY <1>8, <2>2, BeginType DEF TogglePDB
<1> QED BY <1>3, <1>4, <1>5, <1>6, <1>7, <1>8 DEF Edit

\* Every step of the worker keeps the types.
LEMMA ReconcileType ==
    ASSUME TypeOK, Reconcile
    PROVE  TypeOK'
<1>1. NoAutoscale \in Autoscale
  BY DEF NoAutoscale, Autoscale, Nil
<1>2. NoSpec \notin InstanceSpec
  BY DEF NoSpec, InstanceSpec
<1>3. pc # "idle" => read \in InstanceSpec
  BY DEF TypeOK
<1>4. CASE StartReconcile
  BY <1>2, <1>4 DEF StartReconcile, TypeOK, apiVars, clusterVars
<1>5. CASE ReconcileNginx
  <2>1. NewReplicas(read) \in Int
    BY <1>3, <1>5 DEF ReconcileNginx, NewReplicas, InstanceSpec, Nil
  <2>2. /\ nginx \in [replicas : Int, exists : BOOLEAN, podSelector : BOOLEAN]
        /\ nginx.podSelector \in BOOLEAN
    BY DEF TypeOK
  <2>3. nginx' \in [replicas : Int, exists : BOOLEAN, podSelector : BOOLEAN]
    <3>1. [replicas |-> NewReplicas(read), exists |-> TRUE, podSelector |-> FALSE]
              \in [replicas : Int, exists : BOOLEAN, podSelector : BOOLEAN]
      BY <2>1
    <3>2. [nginx EXCEPT !.replicas = NewReplicas(read)]
              \in [replicas : Int, exists : BOOLEAN, podSelector : BOOLEAN]
      BY <2>1, <2>2
    <3> QED BY <1>5, <2>2, <3>1, <3>2, Zenon DEF ReconcileNginx
  <2>4. podSelector' \in BOOLEAN
    <3>1. podSelector' = FALSE \/ podSelector' = nginx.podSelector
      BY <1>5 DEF ReconcileNginx
    <3> QED BY <2>2, <3>1
  <2>5. queued' \in BOOLEAN
    BY <1>5, Zenon DEF ReconcileNginx, TypeOK
  <2>6. pc' \in {"keda", "cleanup"} /\ pc = "nginx"
    BY <1>5 DEF ReconcileNginx
  <2> QED
    BY <1>5, <2>3, <2>4, <2>5, <2>6 DEF ReconcileNginx, TypeOK, apiVars
<1>6. CASE ReconcileKEDA
  BY <1>1, <1>3, <1>6 DEF ReconcileKEDA, TypeOK, apiVars, InstanceSpec
<1>7. CASE CleanUpKEDAScaledObject
  BY <1>1, <1>7 DEF CleanUpKEDAScaledObject, TypeOK, apiVars
<1>8. CASE ReconcileHPA
  <2>1. /\ read.autoscale \in Autoscale
        /\ read.replicas \in Int
    BY <1>3, <1>8 DEF ReconcileHPA, InstanceSpec
  <2>2. /\ read.autoscale["min"] \in Int
        /\ read.autoscale["max"] \in Int
        /\ read.autoscale["cpu"] \in Int
    BY <2>1 DEF Autoscale, AutoscaleFields
  <2>3. hpa' \in [owner : {"none", "rpaas", "keda"}, min : Int, max : Int,
                  cpu : Int]
    BY <1>8, <2>1, <2>2 DEF ReconcileHPA, NewHPA, NoHPA, Nil, TypeOK
  <2> QED BY <1>8, <2>3 DEF ReconcileHPA, TypeOK, apiVars
<1>9. CASE ReconcilePDB
  BY <1>3, <1>9 DEF ReconcilePDB, TypeOK, apiVars, InstanceSpec
<1>10. CASE RefreshStatus
  BY <1>10 DEF RefreshStatus, EndReconcile, TypeOK, apiVars
<1>11. CASE HPARefused
  BY <1>11 DEF HPARefused, EndReconcile, TypeOK, apiVars, clusterVars
<1> QED
  BY <1>4, <1>5, <1>6, <1>7, <1>8, <1>9, <1>10, <1>11 DEF Reconcile

\* KEDA writes an HPA with the bounds of the ScaledObject.
LEMMA KEDAType ==
    ASSUME TypeOK, KEDA
    PROVE  TypeOK'
<1>1. /\ scaledObject["min"] \in Int
      /\ scaledObject["max"] \in Int
      /\ scaledObject["cpu"] \in Int
  BY DEF TypeOK, Autoscale, AutoscaleFields
<1>2. hpa' = [owner |-> "keda", min |-> scaledObject["min"],
              max |-> scaledObject["max"], cpu |-> scaledObject["cpu"]]
  BY DEF KEDA
<1>3. hpa' \in [owner : {"none", "rpaas", "keda"}, min : Int, max : Int,
                cpu : Int]
  BY <1>1, <1>2
<1> QED BY <1>3 DEF KEDA, TypeOK, apiVars, workerVars

\* The types are an invariant, whatever requests and reconciliations overlap.
THEOREM TypeCorrectness == Spec => []TypeOK
<1>1. NoAutoscale \in Autoscale
  BY DEF NoAutoscale, Autoscale, Nil
<1>2. ASSUME Init PROVE TypeOK
  <2>1. spec \in InstanceSpec
    BY <1>1, <1>2 DEF Init, InstanceSpec
  <2>2. nginx \in [replicas : Int, exists : BOOLEAN, podSelector : BOOLEAN]
    BY <1>2 DEF Init, NoNginx, Nil
  <2>3. hpa \in [owner : {"none", "rpaas", "keda"}, min : Int, max : Int,
                 cpu : Int]
    BY <1>2 DEF Init, NoHPA, Nil
  <2> QED BY <1>1, <1>2, <2>1, <2>2, <2>3 DEF Init, TypeOK
<1>3. ASSUME TypeOK, [Next]_vars
      PROVE  TypeOK'
  <2>1. CASE UNCHANGED vars
    BY <1>3, <2>1 DEF TypeOK, vars, apiVars, clusterVars, workerVars
  <2>2. ASSUME NEW r \in Requests, Edit(r) PROVE TypeOK'
    BY <1>3, <2>2, EditType
  <2>3. ASSUME NEW r \in Requests, PatchInstance(r) PROVE TypeOK'
    <3>1. pending[r] \in Patch /\ spec \in InstanceSpec
      BY <1>3, <2>3 DEF PatchInstance, TypeOK
    <3>2. spec' \in InstanceSpec
      BY <2>3, <3>1, ApplyPatchType DEF PatchInstance
    <3> QED BY <1>3, <2>3, <3>2 DEF PatchInstance, TypeOK, workerVars
  <2>4. ASSUME NEW r \in Requests, PatchFails(r) PROVE TypeOK'
    BY <1>3, <2>4 DEF PatchFails, TypeOK, clusterVars, workerVars
  <2>6. CASE Reconcile
    BY <1>3, <2>6, ReconcileType
  <2>7. CASE ReconcileFails
    BY <1>3, <2>7 DEF ReconcileFails, EndReconcile, TypeOK, apiVars, clusterVars
  <2>8. CASE Resync
    BY <1>3, <2>8 DEF Resync, TypeOK, apiVars, clusterVars, workerVars
  <2>9. CASE NginxReady
    BY <1>3, <2>9 DEF NginxReady, TypeOK, apiVars, workerVars
  <2>10. CASE KEDA
    BY <1>3, <2>10, KEDAType
  <2>11. CASE CollectHPA
    BY <1>3, <2>11 DEF CollectHPA, TypeOK, apiVars, workerVars, NoHPA, Nil
  <2> QED
    BY <1>3, <2>1, <2>2, <2>3, <2>4, <2>6, <2>7, <2>8, <2>9, <2>10, <2>11
    DEF Next
<1> QED BY <1>2, <1>3, PTL DEF Spec

----------------------------------------------------------------------------
(* An instance at rest. *)

\* The Nginx, and the objects that scale it, are those of spec s.
Placed(s) == nginx.replicas = NewReplicas(s)

Scaled(s) ==
    /\ scaledObject = IF IsKEDAHandlingHPA(s) /\ IsAutoscaleEnabled(s)
                      THEN s.autoscale ELSE NoAutoscale
    /\ ~IsKEDAHandlingHPA(s) /\ ~IsAutoscaleEnabled(s) => hpa = NoHPA

\* What the worker has done so far it has done for the spec that it read, and
\* when that is no longer the stored one it will run again.
Progress ==
    /\ pc # "idle" /\ ~queued => read = spec
    /\ pc \notin {"idle", "nginx"} => Placed(read)
    /\ pc = "keda" => IsKEDAHandlingHPA(read)
    /\ pc \in {"cleanup", "hpa"} => ~IsKEDAHandlingHPA(read)
    /\ pc = "hpa" => scaledObject = NoAutoscale
    /\ pc \in {"pdb", "status"} => Scaled(read)
    /\ pc = "idle" /\ ~queued => Placed(spec) /\ Scaled(spec)

\* A step that enqueues the instance and leaves the rest to the worker.
LEMMA ProgressQueued ==
    ASSUME Progress, queued',
           UNCHANGED <<pc, read, hpa, scaledObject>>, nginx'.replicas = nginx.replicas
    PROVE  Progress'
BY DEF Progress, Placed, Scaled

\* The steps of the worker.
LEMMA ReconcileProgress ==
    ASSUME TypeOK, Progress, Reconcile
    PROVE  Progress'
<1>1. CASE StartReconcile
  BY <1>1 DEF StartReconcile, Progress, apiVars
<1>2. CASE ReconcileNginx
  <2>1. /\ pc = "nginx" /\ UNCHANGED <<spec, read, scaledObject, hpa>>
        /\ pc' = IF IsKEDAHandlingHPA(read) THEN "keda" ELSE "cleanup"
        /\ queued' \/ queued' = queued
    BY <1>2 DEF ReconcileNginx, apiVars
  <2>2. nginx'.replicas = NewReplicas(read)
    <3>1. nginx \in [replicas : Int, exists : BOOLEAN, podSelector : BOOLEAN]
      BY DEF TypeOK
    <3>2. [nginx EXCEPT !.replicas = NewReplicas(read)].replicas = NewReplicas(read)
      BY <3>1
    <3>3. [replicas |-> NewReplicas(read), exists |-> TRUE,
           podSelector |-> FALSE].replicas = NewReplicas(read)
      OBVIOUS
    <3> QED BY <1>2, <3>2, <3>3, Zenon DEF ReconcileNginx
  <2> QED BY <2>1, <2>2 DEF Progress, Placed
<1>3. CASE ReconcileKEDA
  BY <1>3 DEF ReconcileKEDA, Progress, Placed, Scaled, apiVars
<1>4. CASE CleanUpKEDAScaledObject
  BY <1>4 DEF CleanUpKEDAScaledObject, Progress, Placed, apiVars
<1>5. CASE ReconcileHPA
  BY <1>5 DEF ReconcileHPA, Progress, Placed, Scaled, apiVars
<1>6. CASE ReconcilePDB
  BY <1>6 DEF ReconcilePDB, Progress, Placed, Scaled, apiVars
<1>7. CASE RefreshStatus
  BY <1>7 DEF RefreshStatus, EndReconcile, Progress, Placed, Scaled, apiVars
<1>8. CASE HPARefused
  BY <1>8 DEF HPARefused, EndReconcile, Progress
<1> QED BY <1>1, <1>2, <1>3, <1>4, <1>5, <1>6, <1>7, <1>8 DEF Reconcile

LEMMA ProgressNext == TypeOK /\ Progress /\ [Next]_vars => Progress'
<1> SUFFICES ASSUME TypeOK, Progress, [Next]_vars PROVE Progress'
  OBVIOUS
<1>0. ASSUME UNCHANGED <<spec, nginx, hpa, scaledObject, queued, pc, read>>
      PROVE  Progress'
  BY <1>0 DEF Progress, Placed, Scaled
<1>1. ASSUME NEW r \in Requests, Edit(r) \/ PatchFails(r) PROVE Progress'
  BY <1>0, <1>1
  DEF Edit, Scale, Start, Stop, UpdateAutoscale, DeleteAutoscale, TogglePDB,
      Begin, PatchFails, clusterVars, workerVars
<1>2. ASSUME NEW r \in Requests, PatchInstance(r) PROVE Progress'
  <2>1. UNCHANGED <<nginx, hpa, scaledObject, pc, read>>
    BY <1>2 DEF PatchInstance, workerVars
  <2>2. queued' = (queued \/ spec' # spec)
    BY <1>2 DEF PatchInstance
  <2>3. CASE queued'
    BY <2>1, <2>3, ProgressQueued
  <2>4. CASE ~queued'
    <3>1. spec' = spec /\ ~queued
      BY <2>2, <2>4
    <3> QED BY <2>1, <2>4, <3>1 DEF Progress, Placed, Scaled
  <2> QED BY <2>3, <2>4
<1>3. CASE Resync
  BY <1>3, ProgressQueued DEF Resync, clusterVars, workerVars
<1>4. CASE NginxReady
  <2>1. nginx \in [replicas : Int, exists : BOOLEAN, podSelector : BOOLEAN]
    BY DEF TypeOK
  <2>2. nginx'.replicas = nginx.replicas
    BY <1>4, <2>1 DEF NginxReady
  <2> QED BY <1>4, <2>2, ProgressQueued DEF NginxReady, workerVars
<1>5. CASE Reconcile
  BY <1>5, ReconcileProgress
<1>6. CASE ReconcileFails
  BY <1>6 DEF ReconcileFails, EndReconcile, Progress
<1>7. CASE KEDA \/ CollectHPA
  <2>1. UNCHANGED <<spec, nginx, scaledObject, queued, pc, read>>
    BY <1>7 DEF KEDA, CollectHPA, apiVars, workerVars
  <2>2. /\ Scaled(read) => Scaled(read)'
        /\ Scaled(spec) => Scaled(spec)'
    BY <1>7, <2>1 DEF Scaled, KEDA, CollectHPA
  <2> QED BY <2>1, <2>2 DEF Progress, Placed
<1>8. CASE UNCHANGED vars
  BY <1>0, <1>8 DEF vars, apiVars, clusterVars, workerVars
<1> QED
  BY <1>1, <1>2, <1>3, <1>4, <1>5, <1>6, <1>7, <1>8 DEF Next

\* However requests overlap and wherever the reconciliation fails: whenever an
\* instance is at rest its replicas, ScaledObject and HPA are those of the
\* stored spec, also when overlapping patches have left settings that no client
\* asked for (newNginx, reconcileHPA, reconcileKEDA, cleanUpKEDAScaledObject).
THEOREM QuiescentScalingAlways == Spec => []QuiescentScaling
<1>1. Init => Progress
  BY DEF Init, Progress
<1>2. ASSUME TypeOK, Progress, Quiescent
      PROVE  QuiescentScaling
  <2> DEFINE a == spec.autoscale
             byKEDA == KEDAEnabled /\ (a["rps"] # Nil \/ a["sched"] # Nil)
             scaled == /\ ~spec.shutdown
                       /\ a["min"] > 0 /\ a["max"] > 0
                       /\ \E f \in {"cpu", "rps", "sched"} : a[f] # Nil
  <2>1. Placed(spec) /\ Scaled(spec)
    BY <1>2 DEF Progress, Quiescent
  <2>2. scaled <=> IsAutoscaleEnabled(spec)
    BY DEF IsAutoscaleEnabled, IsAutoscaleValid, HasTarget
  <2>3. byKEDA <=> IsKEDAHandlingHPA(spec)
    BY DEF IsKEDAHandlingHPA
  <2>4. nginx.replicas = IF spec.shutdown THEN 0
                         ELSE IF scaled THEN Nil ELSE spec.replicas
    <3>1. scaled => ~spec.shutdown
      OBVIOUS
    <3> HIDE DEF scaled
    <3> QED BY <2>1, <2>2, <3>1 DEF Placed, NewReplicas
  <2>5. /\ scaledObject = IF byKEDA /\ scaled THEN a ELSE NoAutoscale
        /\ ~scaled /\ ~byKEDA => hpa = NoHPA
    <3> HIDE DEF scaled, byKEDA
    <3> QED BY <2>1, <2>2, <2>3 DEF Scaled
  <2> QED BY <2>4, <2>5 DEF QuiescentScaling
<1>3. TypeOK /\ Progress => QuiescentScaling
  BY <1>2 DEF QuiescentScaling
<1> QED BY <1>1, <1>3, ProgressNext, TypeCorrectness, PTL DEF Spec
=============================================================================
