---------------------- MODULE InstanceReconcile_proofs ----------------------
(***************************************************************************)
(* The rate limit of system rollouts, the types, and what an instance at   *)
(* rest looks like, for any number of instances, any bucket size and       *)
(* history limit, and any number of edits, failures and crashes.           *)
(***************************************************************************)
EXTENDS InstanceReconcile, TLAPS

\* The ledger that relates the bucket to the rollouts that were completed:
\* while a reservation is held its token is out of the bucket and not charged
\* yet; without one the charge may be one ahead, because a refill that came
\* while the reservation was held can have been lost to a full budget.
Ledger ==
    /\ pc = "idle" => reservation = "none"
    /\ reservation = "early" => limiter.tokens = -1
    /\ reservation # "none" => credit >= limiter.tokens
    /\ reservation = "none" => credit >= limiter.tokens - 1
    /\ credit <= Burst

IInv == LimiterTypeOK /\ Ledger

\* A step that keeps the bucket and the reservation keeps the ledger, wherever
\* in a reconciliation the worker is.
LEMMA LimiterUntouched ==
    ASSUME IInv, UNCHANGED <<reservation, limiter, credit>>,
           pc' = "idle" => pc = "idle"
    PROVE  IInv'
BY DEF IInv, Ledger, LimiterTypeOK, Reservations

\* Cancel returns the token of an early reservation and no other.
LEMMA CancelKeepsLedger ==
    ASSUME IInv, Cancel, UNCHANGED credit
    PROVE  IInv'
<1>1. /\ limiter.tokens \in -1..Burst
      /\ credit \in Int
      /\ Burst \in Nat
  BY ConstantsAssumption DEF IInv, LimiterTypeOK
<1>2. CASE reservation = "early"
  <2>1. limiter' = [limiter EXCEPT !.tokens = limiter.tokens + 1]
    BY <1>2 DEF Cancel
  <2>2. limiter.tokens = -1
    BY <1>2 DEF IInv, Ledger
  <2> QED
    BY <1>1, <1>2, <2>1, <2>2, ConstantsAssumption
    DEF IInv, Ledger, LimiterTypeOK, Reservations, Cancel
<1>3. CASE reservation # "early"
  <2>1. limiter' = limiter
    BY <1>3 DEF Cancel, IInv, LimiterTypeOK
  <2> QED
    BY <1>1, <1>3, <2>1 DEF IInv, Ledger, LimiterTypeOK, Reservations, Cancel
<1> QED BY <1>2, <1>3

\* A write that is refused ends the reconciliation with a Cancel.
LEMMA RefusedKeepsLedger ==
    ASSUME IInv, Refused, UNCHANGED credit
    PROVE  IInv'
BY CancelKeepsLedger DEF Refused, ReportError

\* A granted reservation takes its token from the bucket.
LEMMA ReserveKeepsLedger ==
    ASSUME IInv, Reserve, pc = "idle", UNCHANGED credit, pc' # "idle"
    PROVE  IInv'
<1>1. /\ limiter.tokens \in -1..Burst
      /\ credit \in Int
      /\ Burst \in Nat
      /\ reservation = "none"
  BY ConstantsAssumption DEF IInv, LimiterTypeOK, Ledger
<1>2. /\ limiter' = [limiter EXCEPT !.tokens = limiter.tokens - 1]
      /\ limiter.tokens >= 0
      /\ reservation' \in {"due", "early"}
      /\ reservation' = "early" => limiter.tokens = 0
  BY <1>1 DEF Reserve
<1> QED BY <1>1, <1>2 DEF IInv, Ledger, LimiterTypeOK, Reservations

\* A refill raises the bucket and the budget alike.
LEMMA TickKeepsLedger ==
    ASSUME IInv, Tick
    PROVE  IInv'
<1>1. /\ limiter.tokens \in -1..Burst
      /\ credit \in Int
      /\ Burst \in Nat \ {0}
  BY ConstantsAssumption DEF IInv, LimiterTypeOK
<1>2. /\ limiter'.tokens = IF limiter.tokens < Burst THEN limiter.tokens + 1
                           ELSE Burst
      /\ limiter' \in [tokens : -1..Burst, lastSecond : BOOLEAN]
  BY <1>1 DEF Tick
<1>3. /\ reservation' = IF reservation = "early" THEN "due" ELSE reservation
      /\ credit' = IF credit < Burst THEN credit + 1 ELSE credit
      /\ pc' = pc
  BY DEF Tick
<1> QED BY <1>1, <1>2, <1>3 DEF IInv, Ledger, LimiterTypeOK, Reservations

\* A new process starts with a full bucket.
LEMMA RestartKeepsLedger ==
    ASSUME Restart
    PROVE  IInv'
BY ConstantsAssumption
DEF Restart, FullLimiter, IInv, Ledger, LimiterTypeOK, Reservations

\* Every step of the specification keeps the ledger.
LEMMA NextKeepsLedger ==
    ASSUME IInv, [Next]_vars
    PROVE  IInv'
<1>1. CASE UNCHANGED vars
  BY <1>1, LimiterUntouched DEF vars, operatorVars
<1>2. CASE \E i \in Instances : EditInstance(i) \/ EditCertificate(i)
                                \/ NginxReports(i)
  BY <1>2, LimiterUntouched DEF EditInstance, EditCertificate, NginxReports
<1>3. CASE EditPlan \/ Resync
  BY <1>3, LimiterUntouched DEF EditPlan, Resync, operatorVars
<1>4. CASE \E i \in Instances, kind \in Kinds : SyncCache(i, kind)
  BY <1>4, LimiterUntouched DEF SyncCache
<1>5. CASE LastSecond
  BY <1>5 DEF LastSecond, IInv, Ledger, LimiterTypeOK
<1>6. CASE Tick
  BY <1>6, TickKeepsLedger
<1>7. CASE Reconcile
  <2>1. ASSUME NEW i \in Instances, StartReconcile(i)
        PROVE  IInv'
    <3>1. pc = "idle" /\ pc' # "idle" /\ UNCHANGED credit
      BY <2>1 DEF StartReconcile
    <3>2. Reserve \/ UNCHANGED <<limiter, reservation>>
      BY <2>1 DEF StartReconcile
    <3> QED BY <3>1, <3>2, ReserveKeepsLedger, LimiterUntouched
  <2>2. CASE ReconcileConfigMap
    <3>1. UNCHANGED credit /\ pc = "configMap"
      BY <2>2 DEF ReconcileConfigMap
    <3>2. \/ UNCHANGED <<reservation, limiter>> /\ pc' = "history"
          \/ Refused
      BY <2>2 DEF ReconcileConfigMap, Keep
    <3> QED BY <3>1, <3>2, LimiterUntouched, RefusedKeepsLedger
  <2>3. CASE DeleteOldConfig
    <3>1. UNCHANGED credit /\ pc = "history"
      BY <2>3 DEF DeleteOldConfig
    <3>2. \/ UNCHANGED <<reservation, limiter>> /\ pc' = "nginx"
          \/ Refused
      BY <2>3 DEF DeleteOldConfig, Keep
    <3> QED BY <3>1, <3>2, LimiterUntouched, RefusedKeepsLedger
  <2>4. CASE ReconcileNginx
    <3>1. UNCHANGED credit /\ pc = "nginx"
      BY <2>4 DEF ReconcileNginx
    <3>2. \/ UNCHANGED <<reservation, limiter>> /\ pc' = "settle"
          \/ Refused
      BY <2>4 DEF ReconcileNginx, Keep
    <3> QED BY <3>1, <3>2, LimiterUntouched, RefusedKeepsLedger
  <2>5. CASE SettleReservation
    BY <2>5, LimiterUntouched, CancelKeepsLedger DEF SettleReservation
  <2>6. CASE RefreshStatus
    <3>1. \/ Finish
          \/ Refused /\ UNCHANGED credit
      BY <2>6 DEF RefreshStatus
    <3>2. ASSUME Finish PROVE IInv'
      <4>1. /\ limiter.tokens \in -1..Burst
            /\ credit \in Int
            /\ Burst \in Nat
        BY ConstantsAssumption DEF IInv, LimiterTypeOK
      <4> QED
        BY <3>2, <4>1 DEF Finish, IInv, Ledger, LimiterTypeOK, Reservations
    <3> QED BY <3>1, <3>2, RefusedKeepsLedger
  <2>7. CASE Panic
    BY <2>7, RestartKeepsLedger DEF Panic
  <2> QED BY <1>7, <2>1, <2>2, <2>3, <2>4, <2>5, <2>6, <2>7 DEF Reconcile
<1>8. CASE CallFails
  BY <1>8, RefusedKeepsLedger DEF CallFails
<1>9. CASE Crash
  BY <1>9, RestartKeepsLedger DEF Crash
<1> QED
  BY <1>1, <1>2, <1>3, <1>4, <1>5, <1>6, <1>7, <1>8, <1>9 DEF Next

\* The ledger is an invariant of the reconciler.
THEOREM LedgerInvariance == Spec => []IInv
<1>1. Init => IInv
  BY ConstantsAssumption
  DEF Init, FullLimiter, IInv, Ledger, LimiterTypeOK, Reservations
<1>2. IInv /\ [Next]_vars => IInv'
  BY NextKeepsLedger
<1> QED BY <1>1, <1>2, PTL DEF Spec

\* System rollouts are limited, whatever the bucket size, however many
\* instances compete for it and wherever reconciliations fail.
THEOREM SystemRolloutsLimitedAlways == Spec => []SystemRolloutsLimited
<1>1. IInv => SystemRolloutsLimited
  BY ConstantsAssumption
  DEF IInv, Ledger, LimiterTypeOK, SystemRolloutsLimited
<1> QED BY <1>1, LedgerInvariance, PTL

----------------------------------------------------------------------------
(* Type correctness. *)

\* An instance, an Nginx or a list of configurations in its place.
LEMMA ObjectsWith ==
    ASSUME NEW o \in Objects
    PROVE  /\ \A x \in Instance :
                 /\ [o EXCEPT !.instance = x] \in Objects
                 /\ [o EXCEPT !.instance = x].nginx = o.nginx
                 /\ [o EXCEPT !.instance = x].configs = o.configs
           /\ \A x \in Nginx \cup {NoNginx} :
                 /\ [o EXCEPT !.nginx = x] \in Objects
                 /\ [o EXCEPT !.nginx = x].instance = o.instance
                 /\ [o EXCEPT !.nginx = x].configs = o.configs
           /\ \A x \in Seq(Config) :
                 /\ [o EXCEPT !.configs = x] \in Objects
                 /\ [o EXCEPT !.configs = x].instance = o.instance
                 /\ [o EXCEPT !.configs = x].nginx = o.nginx
BY DEF Objects

LEMMA WrittenType ==
    ASSUME TypeOK, NEW i \in Instances, NEW kind \in Kinds, NEW o \in Objects,
           Written(i, kind, o)
    PROVE  /\ cluster' \in [Instances -> Objects]
           /\ stale' \in [Instances -> SUBSET Kinds]
           /\ cluster'[i] = o
           /\ kind \in stale'[i]
           /\ \A j \in Instances : j # i => /\ cluster'[j] = cluster[j]
                                            /\ stale'[j] = stale[j]
<1>1. stale[i] \cup {kind} \in SUBSET Kinds
  BY DEF TypeOK
<1> QED BY <1>1 DEF TypeOK, Written

\* A job renders what it has read.
LEMMA JobType ==
    ASSUME TypeOK, pc # "idle"
    PROVE  /\ job \in Job
           /\ job.instance \in Instances
           /\ NewConfigMap(job) \in Config
           /\ NewNginx(job) \in Nginx
           /\ \A existing : NewStatus(job, existing) \in Status
           /\ \A existing :
                 [job.read EXCEPT !.status = NewStatus(job, existing)] \in Instance
<1>1. job \in Job
  BY DEF TypeOK
<1>2. /\ job.instance \in Instances /\ job.read \in Instance
      /\ job.plan \in Plans /\ job.cert \in Certs
  BY <1>1 DEF Job
<1>3. /\ job.read.spec \in Specs /\ job.read.suspend \in BOOLEAN
      /\ job.read.generation \in Nat
  BY <1>2 DEF Instance
<1>4. NewConfigMap(job) \in Config
  BY <1>2, <1>3 DEF NewConfigMap, Config
<1>5. NewNginx(job) \in Nginx
  BY <1>2, <1>4 DEF NewNginx, Nginx
<1>6. GenerateSpecHash(job.read, job.cert) \in Revision
  BY <1>2, <1>3 DEF GenerateSpecHash, Revision
<1>7. ASSUME NEW existing
      PROVE  /\ NewStatus(job, existing) \in Status
             /\ [job.read EXCEPT !.status = NewStatus(job, existing)] \in Instance
  <2>1. NewStatus(job, existing) \in Status
    BY <1>3, <1>6 DEF NewStatus, Status
  <2> QED BY <1>2, <2>1 DEF Instance
<1> QED BY <1>1, <1>2, <1>4, <1>5, <1>7

LEMMA NoJobIsNone == NoJob \notin Job
BY DEF NoJob, Job

\* A refused write leaves the cluster alone and ends the job.
LEMMA RefusedType ==
    ASSUME TypeOK, pc # "idle", Refused
    PROVE  /\ UNCHANGED <<cluster, stale>>
           /\ queue' \in SUBSET Instances
           /\ job.instance \in queue'
           /\ \A j \in Instances : j # job.instance => (j \in queue' <=> j \in queue)
           /\ pc' = "idle" /\ job' = NoJob
<1>1. job.instance \in Instances
  BY JobType
<1> QED BY <1>1 DEF Refused, ReportError, TypeOK

\* The worker's job moves on.
LEMMA JobEdited ==
    ASSUME NEW j \in Job
    PROVE  /\ \A b, c \in BOOLEAN :
                 /\ [j EXCEPT !.changed = b] \in Job
                 /\ [j EXCEPT !.changed = b, !.certChanged = c] \in Job
                 /\ [j EXCEPT !.changed = b].instance = j.instance
                 /\ [j EXCEPT !.changed = b, !.certChanged = c].instance = j.instance
           /\ [j EXCEPT !.fresh = FALSE] \in Job
           /\ [j EXCEPT !.fresh = FALSE].instance = j.instance
BY DEF Job

LEMMA RemoveAtType ==
    ASSUME NEW S, NEW s \in Seq(S), NEW n \in DOMAIN s
    PROVE  RemoveAt(s, n) \in Seq(S)
<1>1. n \in 1..Len(s)
  OBVIOUS
<1>2. SubSeq(s, 1, n - 1) \in Seq(S)
  BY <1>1
<1>3. SubSeq(s, n + 1, Len(s)) \in Seq(S)
  BY <1>1
<1> QED BY <1>2, <1>3 DEF RemoveAt

\* The steps of users, administrators and the caches.
LEMMA EnvironmentType ==
    ASSUME TypeOK, LimiterTypeOK',
           \/ \E i \in Instances : EditInstance(i) \/ EditCertificate(i)
                                   \/ NginxReports(i)
           \/ EditPlan \/ Resync
           \/ \E i \in Instances, kind \in Kinds : SyncCache(i, kind)
           \/ LastSecond \/ Tick \/ Crash
    PROVE  TypeOK'
<1> USE DEF operatorVars, envVars
<1>a. Kinds = {"instance", "nginx", "configs"}
  BY DEF Kinds
<1>b. \A n \in Nat : CanEdit(n) => edits' \in 0..MaxEdits
  BY ConstantsAssumption DEF TypeOK, CanEdit
<1>1. ASSUME NEW i \in Instances, EditInstance(i)
      PROVE  TypeOK'
  <2> DEFINE old == cluster[i].instance
  <2>1. PICK s \in Specs, b \in BOOLEAN :
           Written(i, "instance",
                   [cluster[i] EXCEPT
                       !.instance = [old EXCEPT !.spec = s, !.suspend = b,
                                                !.generation = @ + 1]])
    BY <1>1 DEF EditInstance
  <2>2. old \in Instance /\ cluster[i] \in Objects
    BY DEF TypeOK, Objects
  <2>3. [old EXCEPT !.spec = s, !.suspend = b, !.generation = @ + 1] \in Instance
    <3>1. \A x \in Instance : \A c \in Specs, d \in BOOLEAN, n \in Nat :
             [x EXCEPT !.spec = c, !.suspend = d, !.generation = n] \in Instance
      BY DEF Instance
    <3>2. old.generation + 1 \in Nat
      BY <2>2 DEF Instance
    <3> QED BY <2>2, <3>1, <3>2
  <2> DEFINE o == [cluster[i] EXCEPT
                      !.instance = [old EXCEPT !.spec = s, !.suspend = b,
                                               !.generation = @ + 1]]
  <2>4. o \in Objects
    BY <2>2, <2>3, ObjectsWith
  <2> HIDE DEF old, o
  <2>5. /\ cluster' \in [Instances -> Objects]
        /\ stale' \in [Instances -> SUBSET Kinds]
    BY <1>a, <2>1, <2>4, WrittenType DEF o
  <2>6. job' \in Job \cup {NoJob} /\ (pc # "idle" <=> job' # NoJob)
    BY <1>1, JobEdited, NoJobIsNone DEF EditInstance, TypeOK
  <2>7. edits' \in 0..MaxEdits
    BY <1>1, <1>b DEF EditInstance
  <2> QED BY <1>1, <2>5, <2>6, <2>7 DEF EditInstance, TypeOK
<1>2. ASSUME NEW i \in Instances, EditCertificate(i)
      PROVE  TypeOK'
  <2>1. certs' \in [Instances -> Certs] /\ queue' \in SUBSET Instances
    BY <1>2 DEF EditCertificate, TypeOK
  <2>2. edits' \in 0..MaxEdits
    BY <1>2, <1>b DEF EditCertificate
  <2> QED BY <1>2, <2>1, <2>2 DEF EditCertificate, TypeOK
<1>3. ASSUME NEW i \in Instances, NginxReports(i)
      PROVE  TypeOK'
  <2>1. /\ cluster' \in [Instances -> Objects]
        /\ stale' \in [Instances -> SUBSET Kinds]
    <3>1. cluster[i] \in Objects
      BY DEF TypeOK
    <3> QED BY <1>3, <1>a, <3>1, WrittenType DEF NginxReports
  <2>2. edits' \in 0..MaxEdits
    BY <1>3, <1>b DEF NginxReports
  <2> QED BY <1>3, <2>1, <2>2 DEF NginxReports, TypeOK
<1>4. CASE EditPlan
  <2>1. edits' \in 0..MaxEdits /\ plan' \in Plans
    BY <1>4, <1>b DEF EditPlan
  <2> QED BY <1>4, <2>1 DEF EditPlan, TypeOK
<1>5. CASE Resync
  BY <1>5 DEF Resync, TypeOK
<1>6. ASSUME NEW i \in Instances, NEW kind \in Kinds, SyncCache(i, kind)
      PROVE  TypeOK'
  <2>1. seen[i] \in Objects /\ cluster[i] \in Objects
    BY DEF TypeOK
  <2>2. /\ cluster[i].instance \in Instance
        /\ cluster[i].nginx \in Nginx \cup {NoNginx}
        /\ cluster[i].configs \in Seq(Config)
    BY <2>1 DEF Objects
  <2>3. Refreshed(i, kind) \in Objects
    BY <1>a, <2>1, <2>2, ObjectsWith DEF Refreshed
  <2>4. seen' \in [Instances -> Objects] /\ stale' \in [Instances -> SUBSET Kinds]
    BY <1>6, <2>3 DEF SyncCache, TypeOK
  <2>5. queue' \in SUBSET Instances
    BY <1>6 DEF SyncCache, TypeOK
  <2> QED BY <1>6, <2>4, <2>5 DEF SyncCache, TypeOK
<1>7. CASE LastSecond
  BY <1>7 DEF LastSecond, TypeOK
<1>8. CASE Tick
  BY <1>8 DEF Tick, TypeOK
<1>9. CASE Crash
  <2>1. failures' \in 0..MaxFailures
    BY <1>9, ConstantsAssumption DEF Crash, TypeOK
  <2> QED BY <1>9, <2>1 DEF Crash, Restart, TypeOK
<1> QED
  BY <1>1, <1>2, <1>3, <1>4, <1>5, <1>6, <1>7, <1>8, <1>9

\* The steps of the worker.
LEMMA WorkerType ==
    ASSUME TypeOK, LimiterTypeOK', Reconcile \/ CallFails
    PROVE  TypeOK'
<1> USE DEF envVars
<1>a. Kinds = {"instance", "nginx", "configs"}
  BY DEF Kinds
<1>b. ASSUME pc # "idle", Refused, UNCHANGED <<certs, plan, due, seen, edits>>,
             failures' \in 0..MaxFailures
      PROVE  TypeOK'
  BY <1>b, RefusedType DEF TypeOK
<1>c. ASSUME Keep, UNCHANGED <<seen, credit, envVars>>, pc # "idle",
             pc' \in {"history", "nginx", "settle"}
      PROVE  TypeOK'
  BY <1>c DEF Keep, TypeOK
<1>d. ASSUME pc # "idle"
      PROVE  cluster[job.instance] \in Objects
  BY <1>d, JobType DEF TypeOK
<1>e. ASSUME pc # "idle", NEW kind \in Kinds, NEW o \in Objects,
             Written(job.instance, kind, o), job' \in Job,
             pc' \in {"history", "nginx", "settle"}, UNCHANGED <<seen, queue, envVars>>
      PROVE  TypeOK'
  <2>1. /\ cluster' \in [Instances -> Objects]
        /\ stale' \in [Instances -> SUBSET Kinds]
    BY <1>e, JobType, WrittenType
  <2> QED BY <1>e, <2>1, NoJobIsNone DEF TypeOK
<1>1. ASSUME NEW i \in Instances, StartReconcile(i)
      PROVE  TypeOK'
  <2>1. seen[i].instance \in Instance
    BY DEF TypeOK, Objects
  <2>2. job' \in Job
    BY <1>1, <2>1 DEF StartReconcile, Job, TypeOK
  <2>3. queue' \in SUBSET Instances
    BY <1>1 DEF StartReconcile, TypeOK
  <2> QED BY <1>1, <2>2, <2>3, NoJobIsNone DEF StartReconcile, TypeOK
<1>2. CASE ReconcileConfigMap
  <2>0. pc = "configMap" /\ UNCHANGED <<seen, credit, envVars>>
    BY <1>2 DEF ReconcileConfigMap
  <2>1. CASE Refused
    BY <1>b, <2>0, <2>1 DEF TypeOK
  <2>2. CASE Keep /\ pc' = "history"
    BY <1>c, <2>0, <2>2
  <2>3. CASE /\ Written(job.instance, "configs",
                        [cluster[job.instance] EXCEPT
                            !.configs = Append(@, NewConfigMap(job))])
             /\ job' = [job EXCEPT !.changed = TRUE]
             /\ pc' = "history"
             /\ UNCHANGED queue
    <3>1. Append(cluster[job.instance].configs, NewConfigMap(job)) \in Seq(Config)
      <4>1. cluster[job.instance].configs \in Seq(Config)
        BY <1>d, <2>0 DEF Objects
      <4>2. NewConfigMap(job) \in Config
        BY <2>0, JobType
      <4> QED BY <4>1, <4>2
    <3>2. [cluster[job.instance] EXCEPT !.configs = Append(@, NewConfigMap(job))]
              \in Objects
      BY <1>d, <2>0, <3>1, ObjectsWith
    <3>3. job' \in Job
      BY <2>0, <2>3, JobType, JobEdited
    <3> QED BY <1>a, <1>e, <2>0, <2>3, <3>2, <3>3
  <2> QED BY <1>2, <2>1, <2>2, <2>3 DEF ReconcileConfigMap
<1>3. CASE DeleteOldConfig
  <2>0. pc = "history" /\ UNCHANGED <<seen, credit, envVars>>
    BY <1>3 DEF DeleteOldConfig
  <2>1. CASE Refused
    BY <1>b, <2>0, <2>1 DEF TypeOK
  <2>2. CASE Keep /\ pc' = "nginx"
    BY <1>c, <2>0, <2>2
  <2>3. CASE /\ \E n \in DOMAIN cluster[job.instance].configs :
                   Written(job.instance, "configs",
                           [cluster[job.instance] EXCEPT
                               !.configs = RemoveAt(@, n)])
             /\ pc' = "nginx"
             /\ UNCHANGED <<job, queue>>
    <3>1. PICK n \in DOMAIN cluster[job.instance].configs :
             Written(job.instance, "configs",
                     [cluster[job.instance] EXCEPT !.configs = RemoveAt(@, n)])
      BY <2>3
    <3>2. RemoveAt(cluster[job.instance].configs, n) \in Seq(Config)
      <4>1. cluster[job.instance].configs \in Seq(Config)
        BY <1>d, <2>0 DEF Objects
      <4> QED BY <4>1, RemoveAtType
    <3>3. [cluster[job.instance] EXCEPT !.configs = RemoveAt(@, n)] \in Objects
      BY <1>d, <2>0, <3>2, ObjectsWith
    <3> QED BY <1>a, <1>e, <2>0, <2>3, <3>1, <3>3, JobType
  <2> QED BY <1>3, <2>1, <2>2, <2>3 DEF DeleteOldConfig
<1>4. CASE ReconcileNginx
  <2>0. pc = "nginx" /\ UNCHANGED <<seen, credit, envVars>>
    BY <1>4 DEF ReconcileNginx
  <2>1. CASE Refused
    BY <1>b, <2>0, <2>1 DEF TypeOK
  <2>2. CASE Keep /\ pc' = "settle"
    BY <1>c, <2>0, <2>2
  <2>3. CASE /\ Written(job.instance, "nginx",
                        [cluster[job.instance] EXCEPT !.nginx = NewNginx(job)])
             /\ \E b \in BOOLEAN :
                   job' = [job EXCEPT !.changed = TRUE, !.certChanged = b]
             /\ pc' = "settle"
             /\ UNCHANGED queue
    <3>1. [cluster[job.instance] EXCEPT !.nginx = NewNginx(job)] \in Objects
      BY <1>d, <2>0, JobType, ObjectsWith
    <3>2. job' \in Job
      BY <2>0, <2>3, JobType, JobEdited
    <3> QED BY <1>a, <1>e, <2>0, <2>3, <3>1, <3>2
  <2>4. (seen[job.instance].nginx # NoNginx
            /\ seen[job.instance].nginx.cert # job.cert) \in BOOLEAN
    OBVIOUS
  <2> QED BY <1>4, <2>1, <2>2, <2>3, <2>4 DEF ReconcileNginx
<1>5. CASE SettleReservation
  BY <1>5 DEF SettleReservation, TypeOK
<1>6. CASE RefreshStatus
  <2>0. pc = "status" /\ UNCHANGED <<seen, envVars>>
    BY <1>6 DEF RefreshStatus
  <2>1. CASE Refused
    BY <1>b, <2>0, <2>1 DEF TypeOK
  <2>2. CASE Finish /\ UNCHANGED <<cluster, stale>>
    BY <2>0, <2>2 DEF Finish, TypeOK
  <2>3. CASE /\ Finish
             /\ Written(job.instance, "instance",
                        [cluster[job.instance] EXCEPT
                            !.instance = [job.read EXCEPT
                                !.status = NewStatus(job, seen[job.instance].nginx)]])
    <3>1. [cluster[job.instance] EXCEPT
              !.instance = [job.read EXCEPT
                  !.status = NewStatus(job, seen[job.instance].nginx)]] \in Objects
      BY <1>d, <2>0, JobType, ObjectsWith
    <3>2. /\ cluster' \in [Instances -> Objects]
          /\ stale' \in [Instances -> SUBSET Kinds]
      BY <1>a, <2>0, <2>3, <3>1, JobType, WrittenType
    <3> QED BY <2>0, <2>3, <3>2 DEF Finish, TypeOK
  <2> QED BY <1>6, <2>1, <2>2, <2>3 DEF RefreshStatus
<1>7. CASE Panic
  BY <1>7 DEF Panic, Restart, TypeOK
<1>8. CASE CallFails
  <2>1. failures' \in 0..MaxFailures
    BY <1>8, ConstantsAssumption DEF CallFails, TypeOK
  <2> QED BY <1>8, <1>b, <2>1 DEF CallFails
<1> QED BY <1>1, <1>2, <1>3, <1>4, <1>5, <1>6, <1>7, <1>8 DEF Reconcile

\* All objects, cached copies and jobs keep their types, for any instances,
\* contents, limits and numbers of edits and failures.
THEOREM TypeCorrectness == Spec => []TypeOK
<1>1. Init => TypeOK
  <2> SUFFICES ASSUME Init PROVE TypeOK
    OBVIOUS
  <2>1. [spec |-> FirstSpec, suspend |-> FALSE, generation |-> 1,
         status |-> [revision |-> NoRevision, observed |-> 0, updated |-> FALSE]]
            \in Instance
    BY ConstantsAssumption DEF Instance, Status
  <2>2. \A x \in Instance :
           [instance |-> x, nginx |-> NoNginx, configs |-> <<>>] \in Objects
    BY DEF Objects
  <2>3. cluster \in [Instances -> Objects]
    BY <2>1, <2>2 DEF Init
  <2>4. seen = cluster
    BY DEF Init
  <2>5. LimiterTypeOK
    BY ConstantsAssumption DEF Init, FullLimiter, LimiterTypeOK, Reservations
  <2>6. edits \in 0..MaxEdits /\ failures \in 0..MaxFailures
    BY ConstantsAssumption DEF Init
  <2>7. certs \in [Instances -> Certs] /\ plan \in Plans
    BY ConstantsAssumption DEF Init
  <2> QED BY <2>3, <2>4, <2>5, <2>6, <2>7 DEF Init, TypeOK
<1>2. IInv' /\ TypeOK /\ [Next]_vars => TypeOK'
  <2> SUFFICES ASSUME IInv', TypeOK, [Next]_vars PROVE TypeOK'
    OBVIOUS
  <2>1. LimiterTypeOK'
    BY DEF IInv
  <2>2. CASE UNCHANGED vars
    BY <2>1, <2>2 DEF TypeOK, vars, operatorVars, envVars
  <2> QED
    BY <2>1, <2>2, EnvironmentType, WorkerType DEF Next
<1> QED BY <1>1, <1>2, LedgerInvariance, PTL DEF Spec

----------------------------------------------------------------------------
(* Instances at rest: the invariant. *)

\* A copy that is not out of date is the object.
Cached ==
    \A i \in Instances :
        /\ "instance" \notin stale[i] => seen[i].instance = cluster[i].instance
        /\ "nginx" \notin stale[i] => seen[i].nginx = cluster[i].nginx
        /\ "configs" \notin stale[i] => seen[i].configs = cluster[i].configs

\* Nothing has happened to i that it has not been reconciled for, or is not
\* being reconciled for right now.
Undisturbed(i) == i \notin queue /\ stale[i] = {} /\ ~due

Trimmed(i) ==
    \/ Len(cluster[i].configs) <= HistoryLimit
    \/ Head(cluster[i].configs) = cluster[i].nginx.config

\* What the reconciliation of i has found so far.
OnTrack(i) ==
    /\ job.read = cluster[i].instance
    /\ job.plan = plan
    /\ job.cert = certs[i]
    /\ pc # "configMap" => Contains(cluster[i].configs, NewConfigMap(job))
    /\ pc \in {"nginx", "settle", "status"} => Trimmed(i)
    /\ pc \in {"settle", "status"} => cluster[i].nginx = NewNginx(job)

\* A reconciliation that nothing has disturbed has found all as it should be:
\* each of its own writes disturbs it.
InPass ==
    pc # "idle" /\ Undisturbed(job.instance) => OnTrack(job.instance)

AtRest == \A i \in Instances : Quiescent(i) => Converged(i) /\ Trimmed(i)

RestInv == Cached /\ InPass /\ AtRest

\* The copies of i are what they should be.
CachedOne(i) ==
    /\ "instance" \notin stale[i] => seen[i].instance = cluster[i].instance
    /\ "nginx" \notin stale[i] => seen[i].nginx = cluster[i].nginx
    /\ "configs" \notin stale[i] => seen[i].configs = cluster[i].configs

\* An instance that a step does not touch is at rest after it only if it was so
\* before.
LEMMA UntouchedRests ==
    ASSUME NEW i \in Instances, AtRest, Quiescent(i),
           cluster'[i] = cluster[i], certs'[i] = certs[i], plan' = plan
    PROVE  Converged(i)' /\ Trimmed(i)'
<1>1. Converged(i) /\ Trimmed(i)
  BY DEF AtRest
<1>2. Converged(i)'
  BY <1>1 DEF Converged, Desired
<1>3. Trimmed(i)'
  BY <1>1 DEF Trimmed
<1> QED BY <1>2, <1>3

\* A step that disturbs i, and touches no other instance.
LEMMA DisturbedStep ==
    ASSUME RestInv, NEW i \in Instances, CachedOne(i)', ~Undisturbed(i)',
           \A j \in Instances : j # i =>
              /\ cluster'[j] = cluster[j] /\ seen'[j] = seen[j]
              /\ stale'[j] = stale[j] /\ certs'[j] = certs[j]
              /\ j \in queue' <=> j \in queue,
           UNCHANGED <<plan, due>>, job.instance \in Instances \/ pc = "idle",
           \/ /\ pc' = pc
              /\ pc # "idle" => job'.instance = job.instance
              /\ pc # "idle" /\ job.instance # i => job' = job
           \/ /\ pc # "idle" /\ job.instance = i
              /\ pc' # "idle" => job'.instance = i
    PROVE  RestInv'
<1>1. Cached'
  BY DEF RestInv, Cached, CachedOne
<1>2. InPass'
  <2> SUFFICES ASSUME pc' # "idle", Undisturbed(job.instance)'
               PROVE  OnTrack(job.instance)'
    BY DEF InPass
  <2>1. job'.instance # i
    OBVIOUS
  <2>2. pc' = pc /\ job' = job /\ job.instance # i /\ job.instance \in Instances
    BY <2>1
  <2>3. Undisturbed(job.instance)
    BY <2>2 DEF Undisturbed
  <2>4. OnTrack(job.instance)
    BY <2>2, <2>3 DEF RestInv, InPass
  <2> QED BY <2>2, <2>4 DEF OnTrack, Trimmed
<1>3. AtRest'
  <2> SUFFICES ASSUME NEW j \in Instances, Quiescent(j)'
               PROVE  Converged(j)' /\ Trimmed(j)'
    BY DEF AtRest
  <2>1. j # i
    BY DEF Quiescent, Undisturbed
  <2>2. Quiescent(j)
    BY <2>1 DEF Quiescent
  <2> QED BY <2>1, <2>2, UntouchedRests DEF RestInv
<1> QED BY <1>1, <1>2, <1>3 DEF RestInv

\* A step after which nobody is at rest, or left alone.
LEMMA AllDisturbed ==
    ASSUME Cached', \A i \in Instances : ~Undisturbed(i)',
           pc' = "idle" \/ job'.instance \in Instances
    PROVE  RestInv'
BY DEF RestInv, InPass, AtRest, Undisturbed, Quiescent

\* A step that keeps all that matters.
LEMMA NothingDisturbed ==
    ASSUME RestInv,
           UNCHANGED <<cluster, certs, plan, due, seen, stale, queue, pc, job>>
    PROVE  RestInv'
<1>1. Cached'
  BY DEF RestInv, Cached
<1>2. InPass'
  BY DEF RestInv, InPass, OnTrack, Undisturbed, Trimmed
<1>3. AtRest'
  <2> SUFFICES ASSUME NEW j \in Instances, Quiescent(j)'
               PROVE  Converged(j)' /\ Trimmed(j)'
    BY DEF AtRest
  <2>1. Quiescent(j)
    BY DEF Quiescent
  <2> QED BY <2>1, UntouchedRests DEF RestInv
<1> QED BY <1>1, <1>2, <1>3 DEF RestInv

\* The steps of users, administrators and the caches.
LEMMA EnvironmentRests ==
    ASSUME TypeOK, RestInv,
           \/ \E i \in Instances : EditInstance(i) \/ EditCertificate(i)
                                   \/ NginxReports(i)
           \/ EditPlan \/ Resync
           \/ \E i \in Instances, kind \in Kinds : SyncCache(i, kind)
           \/ LastSecond \/ Tick \/ Crash
    PROVE  RestInv'
<1> USE DEF operatorVars, envVars
<1>a. Kinds = {"instance", "nginx", "configs"}
  BY DEF Kinds
<1>b. job.instance \in Instances \/ pc = "idle"
  BY JobType
<1>c. /\ cluster \in [Instances -> Objects] /\ seen \in [Instances -> Objects]
      /\ stale \in [Instances -> SUBSET Kinds] /\ certs \in [Instances -> Certs]
      /\ queue \in SUBSET Instances
  BY DEF TypeOK
<1>d. \A i \in Instances : CachedOne(i)
  BY DEF RestInv, Cached, CachedOne
<1>1. ASSUME NEW i \in Instances, EditInstance(i)
      PROVE  RestInv'
  <2> DEFINE old == cluster[i].instance
  <2>1. PICK s \in Specs, b \in BOOLEAN :
           Written(i, "instance",
                   [cluster[i] EXCEPT
                       !.instance = [old EXCEPT !.spec = s, !.suspend = b,
                                                !.generation = @ + 1]])
    BY <1>1 DEF EditInstance
  <2> DEFINE new == [old EXCEPT !.spec = s, !.suspend = b, !.generation = @ + 1]
  <2>2. new \in Instance
    <3>1. \A x \in Instance : \A c \in Specs, d \in BOOLEAN, n \in Nat :
             [x EXCEPT !.spec = c, !.suspend = d, !.generation = n] \in Instance
      BY DEF Instance
    <3>2. old \in Instance
      BY DEF TypeOK, Objects
    <3>3. old.generation + 1 \in Nat
      BY <3>2 DEF Instance
    <3> QED BY <3>1, <3>2, <3>3
  <2> DEFINE o == [cluster[i] EXCEPT !.instance = new]
  <2>3. Written(i, "instance", o)
    BY <2>1
  <2> HIDE DEF old, new
  <2>4. o \in Objects /\ o.nginx = cluster[i].nginx /\ o.configs = cluster[i].configs
    BY <1>c, <2>2, ObjectsWith
  <2> HIDE DEF o
  <2>5. /\ cluster'[i] = o /\ "instance" \in stale'[i]
        /\ stale' = [stale EXCEPT ![i] = @ \cup {"instance"}]
        /\ \A j \in Instances : j # i => /\ cluster'[j] = cluster[j]
                                         /\ stale'[j] = stale[j]
    BY <1>a, <2>3, <2>4, WrittenType DEF Written
  <2>6. UNCHANGED <<certs, plan, due, seen, queue, pc>>
    BY <1>1 DEF EditInstance
  <2>7. CachedOne(i)'
    BY <1>c, <1>d, <2>4, <2>5, <2>6 DEF CachedOne
  <2>8. ~Undisturbed(i)'
    BY <2>5 DEF Undisturbed
  <2>9. /\ pc # "idle" => job'.instance = job.instance
        /\ pc # "idle" /\ job.instance # i => job' = job
    BY <1>1, JobType, JobEdited DEF EditInstance
  <2> QED BY <1>b, <2>5, <2>6, <2>7, <2>8, <2>9, DisturbedStep
<1>2. ASSUME NEW i \in Instances, EditCertificate(i)
      PROVE  RestInv'
  <2>1. /\ i \in queue' /\ \A j \in Instances : j # i =>
              /\ certs'[j] = certs[j]
              /\ j \in queue' <=> j \in queue
        /\ UNCHANGED <<cluster, plan, due, seen, stale, pc, job>>
    BY <1>2, <1>c DEF EditCertificate
  <2>2. CachedOne(i)' /\ ~Undisturbed(i)'
    BY <1>d, <2>1 DEF CachedOne, Undisturbed
  <2> QED BY <1>b, <2>1, <2>2, DisturbedStep
<1>3. ASSUME NEW i \in Instances, NginxReports(i)
      PROVE  RestInv'
  <2>1. cluster' = cluster /\ stale' = [stale EXCEPT ![i] = @ \cup {"nginx"}]
    BY <1>3, <1>c DEF NginxReports, Written
  <2>2. /\ "nginx" \in stale'[i] /\ stale[i] \subseteq stale'[i]
        /\ \A j \in Instances : j # i => stale'[j] = stale[j]
    BY <1>c, <2>1
  <2>3. UNCHANGED <<certs, plan, due, seen, queue, pc, job>>
    BY <1>3 DEF NginxReports
  <2>4. CachedOne(i)'
    BY <1>d, <2>1, <2>2, <2>3 DEF CachedOne
  <2>5. ~Undisturbed(i)'
    BY <2>2 DEF Undisturbed
  <2> QED BY <1>b, <2>1, <2>2, <2>3, <2>4, <2>5, DisturbedStep
<1>4. CASE EditPlan
  <2>1. UNCHANGED <<cluster, seen, stale, pc, job>> /\ due'
    BY <1>4 DEF EditPlan
  <2>2. Cached' /\ \A i \in Instances : ~Undisturbed(i)'
    BY <2>1 DEF RestInv, Cached, Undisturbed
  <2> QED BY <1>b, <2>1, <2>2, AllDisturbed
<1>5. CASE Resync
  <2>1. UNCHANGED <<cluster, seen, stale, pc, job>> /\ queue' = Instances
    BY <1>5 DEF Resync
  <2>2. Cached' /\ \A i \in Instances : ~Undisturbed(i)'
    BY <2>1 DEF RestInv, Cached, Undisturbed
  <2> QED BY <1>b, <2>1, <2>2, AllDisturbed
<1>6. ASSUME NEW i \in Instances, NEW kind \in Kinds, SyncCache(i, kind)
      PROVE  RestInv'
  <2>1. seen[i] \in Objects /\ cluster[i] \in Objects
    BY <1>c
  <2>2. /\ cluster[i].instance \in Instance
        /\ cluster[i].nginx \in Nginx \cup {NoNginx}
        /\ cluster[i].configs \in Seq(Config)
    BY <2>1 DEF Objects
  <2>3. /\ kind = "instance" =>
              /\ Refreshed(i, kind).instance = cluster[i].instance
              /\ Refreshed(i, kind).nginx = seen[i].nginx
              /\ Refreshed(i, kind).configs = seen[i].configs
        /\ kind = "nginx" =>
              /\ Refreshed(i, kind).instance = seen[i].instance
              /\ Refreshed(i, kind).nginx = cluster[i].nginx
              /\ Refreshed(i, kind).configs = seen[i].configs
        /\ kind = "configs" =>
              /\ Refreshed(i, kind).instance = seen[i].instance
              /\ Refreshed(i, kind).nginx = seen[i].nginx
              /\ Refreshed(i, kind).configs = cluster[i].configs
    BY <2>1, <2>2 DEF Refreshed, Objects
  <2>4. /\ seen'[i] = Refreshed(i, kind) /\ stale'[i] = stale[i] \ {kind}
        /\ i \in queue'
        /\ \A j \in Instances : j # i => /\ seen'[j] = seen[j]
                                         /\ stale'[j] = stale[j]
                                         /\ j \in queue' <=> j \in queue
        /\ UNCHANGED <<cluster, certs, plan, due, pc, job>>
    BY <1>6, <1>c DEF SyncCache
  <2>5. CachedOne(i)'
    BY <1>a, <1>d, <2>3, <2>4 DEF CachedOne
  <2>6. ~Undisturbed(i)'
    BY <2>4 DEF Undisturbed
  <2> QED BY <1>b, <2>4, <2>5, <2>6, DisturbedStep
<1>7. CASE LastSecond \/ Tick
  BY <1>7, NothingDisturbed DEF LastSecond, Tick
<1>8. CASE Crash
  <2>1. /\ seen' = cluster' /\ queue' = Instances /\ pc' = "idle"
    BY <1>8 DEF Crash, Restart
  <2>2. Cached' /\ \A i \in Instances : ~Undisturbed(i)'
    BY <2>1 DEF Cached, Undisturbed
  <2> QED BY <2>1, <2>2, AllDisturbed
<1> QED BY <1>1, <1>2, <1>3, <1>4, <1>5, <1>6, <1>7, <1>8

\* A write of the worker, and one that is refused, disturb the instance.
LEMMA WriteDisturbs ==
    ASSUME TypeOK, RestInv, pc # "idle", NEW i \in Instances, i = job.instance,
           NEW kind \in Kinds, NEW o \in Objects, Written(i, kind, o),
           kind # "instance" => o.instance = cluster[i].instance,
           kind # "nginx" => o.nginx = cluster[i].nginx,
           kind # "configs" => o.configs = cluster[i].configs,
           UNCHANGED <<certs, plan, due, seen, queue>>,
           pc' # "idle" => job'.instance = i
    PROVE  RestInv'
<1>1. /\ cluster'[i] = o /\ kind \in stale'[i] /\ stale[i] \subseteq stale'[i]
      /\ \A j \in Instances : j # i => /\ cluster'[j] = cluster[j]
                                       /\ stale'[j] = stale[j]
  BY WrittenType DEF Written, TypeOK
<1>2. CachedOne(i)'
  BY <1>1 DEF RestInv, Cached, CachedOne, Kinds
<1>3. ~Undisturbed(i)'
  BY <1>1 DEF Undisturbed
<1> QED BY <1>1, <1>2, <1>3, DisturbedStep

LEMMA RefusedDisturbs ==
    ASSUME TypeOK, RestInv, pc # "idle", Refused,
           UNCHANGED <<certs, plan, due, seen>>
    PROVE  RestInv'
<1>1. PICK i \in Instances : i = job.instance
  BY JobType
<1>2. /\ UNCHANGED <<cluster, stale>> /\ i \in queue' /\ pc' = "idle"
      /\ \A j \in Instances : j # i => (j \in queue' <=> j \in queue)
  BY <1>1, RefusedType
<1>3. CachedOne(i)' /\ ~Undisturbed(i)'
  BY <1>2 DEF RestInv, Cached, CachedOne, Undisturbed
<1> QED BY <1>1, <1>2, <1>3, DisturbedStep

\* A step of the worker that finds nothing to do.
LEMMA StepOnTrack ==
    ASSUME RestInv, pc # "idle", pc' # "idle", NEW i \in Instances, i = job.instance,
           UNCHANGED <<cluster, certs, plan, due, seen, stale, queue, job>>,
           Undisturbed(i) /\ OnTrack(i) => OnTrack(i)'
    PROVE  RestInv'
<1>1. Cached'
  BY DEF RestInv, Cached
<1>2. InPass'
  <2> SUFFICES ASSUME Undisturbed(job.instance)' PROVE OnTrack(job.instance)'
    BY DEF InPass
  <2>1. Undisturbed(i)
    BY DEF Undisturbed
  <2>2. OnTrack(i)'
    BY <2>1 DEF RestInv, InPass
  <2> QED BY <2>2 DEF OnTrack
<1>3. AtRest'
  <2> SUFFICES ASSUME NEW j \in Instances, Quiescent(j)'
               PROVE  Converged(j)' /\ Trimmed(j)'
    BY DEF AtRest
  <2>1. Quiescent(j)
    BY DEF Quiescent
  <2> QED BY <2>1, UntouchedRests DEF RestInv
<1> QED BY <1>1, <1>2, <1>3 DEF RestInv

\* An undisturbed instance is what the cache says.
LEMMA CacheIsCluster ==
    ASSUME RestInv, NEW i \in Instances, Undisturbed(i)
    PROVE  /\ seen[i].instance = cluster[i].instance
           /\ seen[i].nginx = cluster[i].nginx
           /\ seen[i].configs = cluster[i].configs
BY DEF RestInv, Cached, Undisturbed

LEMMA StartRests ==
    ASSUME TypeOK, RestInv, NEW i \in Instances, StartReconcile(i)
    PROVE  RestInv'
<1> USE DEF envVars
<1>1. /\ pc = "idle" /\ pc' = "configMap" /\ queue' = queue \ {i}
      /\ UNCHANGED <<cluster, certs, plan, due, seen, stale>>
      /\ job' = [instance |-> i, read |-> seen[i].instance,
                 fresh |-> "instance" \notin stale[i], plan |-> plan,
                 cert |-> certs[i], changed |-> FALSE, certChanged |-> FALSE]
  BY DEF StartReconcile
<1>2. /\ job'.instance = i /\ job'.read = seen[i].instance
      /\ job'.plan = plan /\ job'.cert = certs[i]
  BY <1>1
<1>3. Cached'
  BY <1>1 DEF RestInv, Cached
<1>4. InPass'
  <2> SUFFICES ASSUME Undisturbed(job.instance)' PROVE OnTrack(job.instance)'
    BY DEF InPass
  <2>1. stale[i] = {}
    BY <1>1, <1>2 DEF Undisturbed
  <2>2. seen[i].instance = cluster[i].instance
    BY <2>1 DEF RestInv, Cached
  <2> QED BY <1>1, <1>2, <2>2 DEF OnTrack
<1>5. AtRest'
  <2> SUFFICES ASSUME NEW j \in Instances, Quiescent(j)'
               PROVE  Converged(j)' /\ Trimmed(j)'
    BY DEF AtRest
  <2>1. j # i /\ Quiescent(j)
    BY <1>1, <1>2 DEF Quiescent
  <2> QED BY <1>1, <2>1, UntouchedRests DEF RestInv
<1> QED BY <1>3, <1>4, <1>5 DEF RestInv

\* The reconciliation ends and has nothing to write: all is as it should be.
LEMMA FinishRests ==
    ASSUME TypeOK, RestInv, pc = "status", Finish,
           NewStatus(job, seen[job.instance].nginx) = job.read.status,
           UNCHANGED <<cluster, certs, plan, due, seen, stale>>
    PROVE  RestInv'
<1>1. PICK i \in Instances : i = job.instance
  BY JobType
<1>2. pc' = "idle" /\ queue' = queue
  BY DEF Finish
<1>3. Cached' /\ InPass'
  BY <1>2 DEF RestInv, Cached, InPass
<1>4. ASSUME NEW j \in Instances, Quiescent(j)'
      PROVE  Converged(j)' /\ Trimmed(j)'
  <2>1. CASE j # i
    <3>1. Quiescent(j)
      BY <1>1, <1>2, <1>4, <2>1 DEF Quiescent
    <3> QED BY <3>1, UntouchedRests DEF RestInv
  <2>2. CASE j = i
    <3>1. Undisturbed(i)
      BY <1>2, <1>4, <2>2 DEF Quiescent, Undisturbed
    <3>2. OnTrack(i)
      BY <1>1, <3>1 DEF RestInv, InPass
    <3>3. /\ job.read = cluster[i].instance /\ job.plan = plan /\ job.cert = certs[i]
          /\ Contains(cluster[i].configs, NewConfigMap(job)) /\ Trimmed(i)
          /\ cluster[i].nginx = NewNginx(job)
      BY <3>2 DEF OnTrack
    <3>4. NewNginx(job) = Desired(i) /\ NewConfigMap(job) = Desired(i).config
      BY <3>3 DEF NewNginx, NewConfigMap, Desired
    <3>5. seen[i].nginx = NewNginx(job)
      BY <3>1, <3>3, CacheIsCluster
    <3>6. /\ NewStatus(job, seen[i].nginx).updated
          /\ NewStatus(job, seen[i].nginx).observed = job.read.generation
      BY <3>5 DEF NewStatus
    <3>7. /\ cluster[i].instance.status.updated
          /\ cluster[i].instance.status.observed = cluster[i].instance.generation
      BY <1>1, <3>3, <3>6
    <3>8. Converged(i)
      BY <3>3, <3>4, <3>7 DEF Converged
    <3>9. Converged(i)'
      BY <3>8 DEF Converged, Desired
    <3>10. Trimmed(i)'
      BY <3>3 DEF Trimmed
    <3> QED BY <2>2, <3>9, <3>10
  <2> QED BY <2>1, <2>2
<1>5. AtRest'
  BY <1>4 DEF AtRest
<1> QED BY <1>3, <1>5 DEF RestInv

\* The steps of the worker.
LEMMA WorkerRests ==
    ASSUME TypeOK, RestInv, Reconcile \/ CallFails
    PROVE  RestInv'
<1> USE DEF envVars
<1>a. Kinds = {"instance", "nginx", "configs"}
  BY DEF Kinds
<1>b. ASSUME NEW i \in Instances
      PROVE  /\ cluster[i] \in Objects
             /\ cluster[i].configs \in Seq(Config)
  BY <1>b DEF TypeOK, Objects
<1>1. ASSUME NEW i \in Instances, StartReconcile(i)
      PROVE  RestInv'
  BY <1>1, StartRests
<1>2. CASE ReconcileConfigMap
  <2>0. pc = "configMap" /\ UNCHANGED <<seen, credit, envVars>>
    BY <1>2 DEF ReconcileConfigMap
  <2>i. PICK i \in Instances : i = job.instance
    BY <2>0, JobType
  <2>1. CASE Refused
    BY <2>0, <2>1, RefusedDisturbs
  <2>2. CASE /\ Contains(seen[i].configs, NewConfigMap(job))
             /\ Keep /\ pc' = "history"
    <3>1. ASSUME Undisturbed(i), OnTrack(i)
          PROVE  OnTrack(i)'
      <4>1. Contains(cluster[i].configs, NewConfigMap(job))
        BY <2>2, <3>1, CacheIsCluster
      <4>2. UNCHANGED <<cluster, certs, plan, job>>
        BY <2>0, <2>2 DEF Keep
      <4> QED BY <2>2, <3>1, <4>1, <4>2 DEF OnTrack
    <3> QED BY <2>0, <2>i, <2>2, <3>1, StepOnTrack DEF Keep
  <2>3. CASE /\ Written(i, "configs",
                        [cluster[i] EXCEPT !.configs = Append(@, NewConfigMap(job))])
             /\ job' = [job EXCEPT !.changed = TRUE]
             /\ UNCHANGED queue
    <3> DEFINE list == Append(cluster[i].configs, NewConfigMap(job))
               o == [cluster[i] EXCEPT !.configs = list]
    <3>1. list \in Seq(Config)
      <4>1. NewConfigMap(job) \in Config
        BY <2>0, JobType
      <4> QED BY <1>b, <4>1
    <3>2. Written(i, "configs", o)
      BY <2>3
    <3> HIDE DEF list
    <3>3. /\ o \in Objects /\ o.instance = cluster[i].instance
          /\ o.nginx = cluster[i].nginx
      BY <1>b, <3>1, ObjectsWith
    <3> HIDE DEF o
    <3>4. job'.instance = i
      BY <2>0, <2>i, <2>3, JobType, JobEdited
    <3> QED BY <1>a, <2>0, <2>i, <2>3, <3>2, <3>3, <3>4, WriteDisturbs
  <2> QED BY <1>2, <2>i, <2>1, <2>2, <2>3 DEF ReconcileConfigMap
<1>3. CASE DeleteOldConfig
  <2>0. pc = "history" /\ UNCHANGED <<seen, credit, envVars>>
    BY <1>3 DEF DeleteOldConfig
  <2>i. PICK i \in Instances : i = job.instance
    BY <2>0, JobType
  <2>1. CASE Refused
    BY <2>0, <2>1, RefusedDisturbs
  <2>2. CASE /\ ~DeletesOldConfig(seen[i].configs, seen[i].nginx)
             /\ Keep /\ pc' = "nginx"
    <3>1. ASSUME Undisturbed(i), OnTrack(i)
          PROVE  OnTrack(i)'
      <4>1. ~DeletesOldConfig(cluster[i].configs, cluster[i].nginx)
        BY <2>2, <3>1, CacheIsCluster
      <4>2. UNCHANGED <<cluster, certs, plan, job>>
        BY <2>0, <2>2 DEF Keep
      <4>3. Trimmed(i)
        <5>1. Len(cluster[i].configs) \in Nat /\ HistoryLimit \in Nat
          BY <1>b, ConstantsAssumption
        <5> QED
          BY <4>1, <5>1 DEF DeletesOldConfig, ShouldDeleteOldConfig, Trimmed
      <4>4. Trimmed(i)'
        BY <4>2, <4>3 DEF Trimmed
      <4> QED BY <2>0, <2>2, <3>1, <4>2, <4>4 DEF OnTrack
    <3> QED BY <2>0, <2>i, <2>2, <3>1, StepOnTrack DEF Keep
  <2>3. CASE /\ \E n \in DOMAIN cluster[i].configs :
                   Written(i, "configs",
                           [cluster[i] EXCEPT !.configs = RemoveAt(@, n)])
             /\ UNCHANGED <<job, queue>>
    <3>1. PICK n \in DOMAIN cluster[i].configs :
             Written(i, "configs", [cluster[i] EXCEPT !.configs = RemoveAt(@, n)])
      BY <2>3
    <3> DEFINE list == RemoveAt(cluster[i].configs, n)
               o == [cluster[i] EXCEPT !.configs = list]
    <3>2. list \in Seq(Config)
      BY <1>b, <3>1, RemoveAtType
    <3>3. Written(i, "configs", o)
      BY <3>1
    <3> HIDE DEF list
    <3>4. /\ o \in Objects /\ o.instance = cluster[i].instance
          /\ o.nginx = cluster[i].nginx
      BY <1>b, <3>2, ObjectsWith
    <3> HIDE DEF o
    <3> QED BY <1>a, <2>0, <2>i, <2>3, <3>3, <3>4, WriteDisturbs
  <2> QED BY <1>3, <2>i, <2>1, <2>2, <2>3 DEF DeleteOldConfig
<1>4. CASE ReconcileNginx
  <2>0. pc = "nginx" /\ UNCHANGED <<seen, credit, envVars>>
    BY <1>4 DEF ReconcileNginx
  <2>i. PICK i \in Instances : i = job.instance
    BY <2>0, JobType
  <2>1. CASE Refused
    BY <2>0, <2>1, RefusedDisturbs
  <2>2. CASE seen[i].nginx = NewNginx(job) /\ Keep /\ pc' = "settle"
    <3>1. ASSUME Undisturbed(i), OnTrack(i)
          PROVE  OnTrack(i)'
      <4>1. cluster[i].nginx = NewNginx(job)
        BY <2>2, <3>1, CacheIsCluster
      <4>2. UNCHANGED <<cluster, certs, plan, job>>
        BY <2>0, <2>2 DEF Keep
      <4> QED BY <2>0, <2>2, <3>1, <4>1, <4>2 DEF OnTrack, Trimmed
    <3> QED BY <2>0, <2>i, <2>2, <3>1, StepOnTrack DEF Keep
  <2>3. CASE /\ Written(i, "nginx", [cluster[i] EXCEPT !.nginx = NewNginx(job)])
             /\ \E b \in BOOLEAN :
                   job' = [job EXCEPT !.changed = TRUE, !.certChanged = b]
             /\ UNCHANGED queue
    <3> DEFINE o == [cluster[i] EXCEPT !.nginx = NewNginx(job)]
    <3>1. /\ o \in Objects /\ o.instance = cluster[i].instance
          /\ o.configs = cluster[i].configs
      BY <1>b, <2>0, JobType, ObjectsWith
    <3>2. Written(i, "nginx", o)
      BY <2>3
    <3> HIDE DEF o
    <3>3. PICK b \in BOOLEAN :
             job' = [job EXCEPT !.changed = TRUE, !.certChanged = b]
      BY <2>3
    <3>4. job \in Job /\ TRUE \in BOOLEAN
      BY <2>0, JobType
    <3>5. [job EXCEPT !.changed = TRUE, !.certChanged = b].instance = job.instance
      BY <3>4, JobEdited, Zenon
    <3>6. job'.instance = i
      BY <2>i, <3>3, <3>5, Zenon
    <3> QED BY <1>a, <2>0, <2>i, <2>3, <3>1, <3>2, <3>6, WriteDisturbs
  <2>4. (seen[i].nginx # NoNginx /\ seen[i].nginx.cert # job.cert) \in BOOLEAN
    OBVIOUS
  <2> QED BY <1>4, <2>i, <2>1, <2>2, <2>3, <2>4 DEF ReconcileNginx
<1>5. CASE SettleReservation
  <2>1. /\ pc = "settle" /\ pc' = "status"
        /\ UNCHANGED <<cluster, certs, plan, due, seen, stale, queue, job>>
    BY <1>5 DEF SettleReservation
  <2>2. PICK i \in Instances : i = job.instance
    BY <2>1, JobType
  <2>3. OnTrack(i) => OnTrack(i)'
    BY <2>1 DEF OnTrack, Trimmed
  <2> QED BY <2>1, <2>2, <2>3, StepOnTrack
<1>6. CASE RefreshStatus
  <2>0. pc = "status" /\ UNCHANGED <<seen, envVars>>
    BY <1>6 DEF RefreshStatus
  <2>i. PICK i \in Instances : i = job.instance
    BY <2>0, JobType
  <2>1. CASE Refused
    BY <2>0, <2>1, RefusedDisturbs
  <2>2. CASE /\ NewStatus(job, seen[i].nginx) = job.read.status
             /\ Finish /\ UNCHANGED <<cluster, stale>>
    BY <2>0, <2>i, <2>2, FinishRests
  <2>3. CASE /\ Finish
             /\ Written(i, "instance",
                        [cluster[i] EXCEPT
                            !.instance = [job.read EXCEPT
                                !.status = NewStatus(job, seen[i].nginx)]])
    <3> DEFINE new == [job.read EXCEPT !.status = NewStatus(job, seen[i].nginx)]
               o == [cluster[i] EXCEPT !.instance = new]
    <3>1. new \in Instance
      BY <2>0, JobType
    <3>2. Written(i, "instance", o)
      BY <2>3
    <3> HIDE DEF new
    <3>3. /\ o \in Objects /\ o.nginx = cluster[i].nginx
          /\ o.configs = cluster[i].configs
      BY <1>b, <3>1, ObjectsWith
    <3> HIDE DEF o
    <3>4. pc' = "idle" /\ queue' = queue
      BY <2>3 DEF Finish
    <3> QED BY <1>a, <2>0, <2>i, <3>2, <3>3, <3>4, WriteDisturbs
  <2> QED BY <1>6, <2>i, <2>1, <2>2, <2>3 DEF RefreshStatus
<1>7. CASE Panic
  <2>1. seen' = cluster' /\ queue' = Instances /\ pc' = "idle"
    BY <1>7 DEF Panic, Restart
  <2>2. Cached' /\ \A i \in Instances : ~Undisturbed(i)'
    BY <2>1 DEF Cached, Undisturbed
  <2> QED BY <2>1, <2>2, AllDisturbed
<1>8. CASE CallFails
  BY <1>8, RefusedDisturbs DEF CallFails
<1> QED BY <1>1, <1>2, <1>3, <1>4, <1>5, <1>6, <1>7, <1>8 DEF Reconcile

\* The invariant holds in every reachable state.
THEOREM RestInvariance == Spec => []RestInv
<1>1. Init => RestInv
  BY DEF Init, RestInv, Cached, InPass, AtRest, Quiescent
<1>2. TypeOK /\ RestInv /\ [Next]_vars => RestInv'
  <2> SUFFICES ASSUME TypeOK, RestInv, [Next]_vars PROVE RestInv'
    OBVIOUS
  <2>1. CASE UNCHANGED vars
    BY <2>1, NothingDisturbed DEF vars, operatorVars, envVars
  <2> QED BY <2>1, EnvironmentRests, WorkerRests DEF Next
<1> QED BY <1>1, <1>2, TypeCorrectness, PTL DEF Spec

\* No wake-up is lost, for any number of instances and whatever edits, refused
\* writes, failures and crashes there are: an instance that is not queued, not
\* reconciled and has no event under way runs what its spec, its certificates
\* and the plan ask for, and its status says so.
THEOREM QuiescentIsConvergedAlways == Spec => []QuiescentIsConverged
<1>1. RestInv => QuiescentIsConverged
  BY DEF RestInv, AtRest, QuiescentIsConverged
<1> QED BY <1>1, RestInvariance, PTL

\* An instance at rest has no more configurations than its limit, or the
\* oldest one is in use, for any limit (deleteOldConfig).
THEOREM QuiescentHistoryTrimmedAlways == Spec => []QuiescentHistoryTrimmed
<1>1. RestInv => QuiescentHistoryTrimmed
  BY DEF RestInv, AtRest, Trimmed, QuiescentHistoryTrimmed
<1> QED BY <1>1, RestInvariance, PTL

=============================================================================
