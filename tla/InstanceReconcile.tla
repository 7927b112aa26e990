------------------------- MODULE InstanceReconcile -------------------------
(***************************************************************************)
(* The reconciliation loop of RpaasInstances: rendered configurations and  *)
(* their history, the Nginx resource, the instance status, and the rate    *)
(* limiter of the rollouts that no user asked for.                         *)
(*                                                                         *)
(* One worker takes instances from the work queue.  It reads through the   *)
(* informer caches, which lag behind the API server: seen[i] is the cached *)
(* copy of cluster[i], and stale[i] the kinds of object written since the  *)
(* copy was made.  A write goes to the API server and is refused when the  *)
(* object has moved on since the copy that the write is based on.  The     *)
(* event that refreshes a copy also enqueues the instance.                 *)
(***************************************************************************)
EXTENDS Integers, Sequences, SequencesExt

CONSTANTS
    Instances,     \* RpaasInstances
    Specs,         \* contents of an instance's spec
    Certs,         \* contents of an instance's certificates
    Plans,         \* contents of the plan that the instances share
    FirstSpec, FirstCert, FirstPlan,
    HistoryLimit,  \* Spec.ConfigHistoryLimit
    Burst,         \* --system-rate-limit-operations
    MaxEdits,      \* bound: changes by users and administrators, weighed
    MaxFailures    \* bound: failed calls and crashes of the operator

ASSUME ConstantsAssumption ==
    /\ FirstSpec \in Specs /\ FirstCert \in Certs /\ FirstPlan \in Plans
    /\ HistoryLimit \in Nat \ {0}
    /\ Burst \in Nat \ {0}
    /\ MaxEdits \in Nat /\ MaxFailures \in Nat

VARIABLES
    cluster,      \* the objects of each instance in the API server
    certs,        \* the certificates of each instance
    plan,         \* the RpaasPlan
    due,          \* the plan changed since the last periodic resync
    seen,         \* the operator's cached copies of cluster
    stale,        \* the kinds whose cached copy is out of date
    queue,        \* the work queue, delayed retries included
    pc,           \* what the worker does next
    job,          \* the local variables of Reconcile
    reservation,  \* the rate limiter reservation that Reconcile holds
    limiter,      \* the rate limiter
    credit,       \* budget left if only completed system rollouts were charged
    edits, failures

operatorVars == <<seen, stale, queue, pc, job, reservation, limiter, credit>>
envVars == <<certs, plan, due, edits, failures>>
vars == <<cluster, operatorVars, envVars>>

NoNginx == [name |-> "no Nginx"]
NoJob == [name |-> "no job"]
NoRevision == [name |-> "no revision"]

\* The name of a rendered ConfigMap is a hash of its content.
Config == [spec : Specs, plan : Plans]

Nginx == [config : Config, cert : Certs]

\* The revision hash covers the spec, the Suspend flag included, and the
\* certificates.
Revision == [spec : Specs, suspend : BOOLEAN, cert : Certs]

Status == [revision : Revision \cup {NoRevision}, observed : Nat,
           updated : BOOLEAN]

Instance == [spec : Specs, suspend : BOOLEAN, generation : Nat,
             status : Status]

Objects == [instance : Instance, nginx : Nginx \cup {NoNginx},
            configs : Seq(Config)]

Kinds == {"instance", "nginx", "configs"}

Job == [instance : Instances, read : Instance, fresh : BOOLEAN, plan : Plans,
        cert : Certs, changed : BOOLEAN, certChanged : BOOLEAN]

----------------------------------------------------------------------------
(* Work of one reconciliation. *)

GenerateSpecHash(read, cert) ==
    [spec |-> read.spec, suspend |-> read.suspend, cert |-> cert]

\* The status says that this spec was rolled out before: what differs now was
\* not changed by the user.
IsSystemRollout(hash, read) == hash = read.status.revision

NewConfigMap(j) == [spec |-> j.read.spec, plan |-> j.plan]

NewNginx(j) == [config |-> NewConfigMap(j), cert |-> j.cert]

\* As ShouldDeleteOldConfig, off by one (a mutant).
ShouldDeleteAfterOneMore(list) == Len(list) > HistoryLimit + 1

ShouldDeleteOldConfig(list) == Len(list) > HistoryLimit

\* Only the oldest configuration is deleted, and not when the Nginx of the
\* cache uses it.
DeletesOldConfig(list, current) ==
    /\ ShouldDeleteOldConfig(list)
    /\ current # NoNginx => Head(list) # current.config

NewStatus(j, existing) ==
    [revision |-> GenerateSpecHash(j.read, j.cert),
     observed |-> j.read.generation,
     updated |-> existing = NewNginx(j)]

----------------------------------------------------------------------------
(* The rate limiter: a bucket of Burst tokens, one more every interval. *)

Reservations == {"none", "due", "early"}

FullLimiter == [tokens |-> Burst, lastSecond |-> FALSE]

\* As Reserve, asking whether a token is there without taking it (a mutant).
ReserveWithoutTaking ==
    /\ limiter.tokens > 0
    /\ reservation' = "due"
    /\ UNCHANGED limiter

\* A reservation is granted when a token is there, or will be within a second.
\* A refused one is cancelled at once and leaves no trace.
Reserve ==
    \/ /\ limiter.tokens > 0
       /\ limiter' = [limiter EXCEPT !.tokens = @ - 1]
       /\ reservation' = "due"
    \/ /\ limiter.tokens = 0
       /\ limiter.lastSecond
       /\ limiter' = [limiter EXCEPT !.tokens = @ - 1]
       /\ reservation' = "early"

\* Cancelling gives a token back only before the reservation's time has come,
\* and only once.
Cancel ==
    /\ limiter' = [limiter EXCEPT
                      !.tokens = IF reservation = "early" THEN @ + 1 ELSE @]
    /\ reservation' = "none"

\* The next token is less than a second away.
LastSecond ==
    /\ limiter.tokens < Burst
    /\ ~limiter.lastSecond
    /\ limiter' = [limiter EXCEPT !.lastSecond = TRUE]
    /\ UNCHANGED <<cluster, seen, stale, queue, pc, job, reservation, credit,
                   envVars>>

\* An interval has passed.
Tick ==
    /\ limiter.lastSecond
    /\ limiter' = [tokens |-> IF limiter.tokens < Burst THEN limiter.tokens + 1
                              ELSE Burst,
                   lastSecond |-> FALSE]
    /\ reservation' = IF reservation = "early" THEN "due" ELSE reservation
    /\ credit' = IF credit < Burst THEN credit + 1 ELSE credit
    /\ UNCHANGED <<cluster, seen, stale, queue, pc, job, envVars>>

----------------------------------------------------------------------------
(* Users, administrators and the caches. *)

Init ==
    /\ cluster = [i \in Instances |->
          [instance |-> [spec |-> FirstSpec, suspend |-> FALSE, generation |-> 1,
                         status |-> [revision |-> NoRevision, observed |-> 0,
                                     updated |-> FALSE]],
           nginx |-> NoNginx, configs |-> <<>>]]
    /\ certs = [i \in Instances |-> FirstCert]
    /\ plan = FirstPlan
    /\ due = FALSE
    /\ seen = cluster
    /\ stale = [i \in Instances |-> {}]
    /\ queue = Instances
    /\ pc = "idle"
    /\ job = NoJob
    /\ reservation = "none"
    /\ limiter = FullLimiter
    /\ credit = Burst
    /\ edits = 0
    /\ failures = 0

\* A change of the plan counts two, any other change three.
CanEdit(n) == edits + n <= MaxEdits /\ edits' = edits + n

\* The API server stores a new version of the object of i of that kind: its
\* cached copy is out of date.
Written(i, kind, objects) ==
    /\ cluster' = [cluster EXCEPT ![i] = objects]
    /\ stale' = [stale EXCEPT ![i] = @ \cup {kind}]

\* A user changes the spec of an instance or its Suspend flag.
EditInstance(i) ==
    /\ CanEdit(3)
    /\ \E s \in Specs, b \in BOOLEAN :
          LET old == cluster[i].instance
              new == [old EXCEPT !.spec = s, !.suspend = b,
                                 !.generation = @ + 1]
          IN  /\ <<s, b>> # <<old.spec, old.suspend>>
              /\ Written(i, "instance", [cluster[i] EXCEPT !.instance = new])
    /\ job' = IF pc # "idle" /\ job.instance = i
              THEN [job EXCEPT !.fresh = FALSE] ELSE job
    /\ UNCHANGED <<certs, plan, due, failures, seen, queue, pc, reservation,
                   limiter, credit>>

\* The Secret of a certificate changes; Secrets are watched.
EditCertificate(i) ==
    /\ CanEdit(3)
    /\ \E k \in Certs \ {certs[i]} : certs' = [certs EXCEPT ![i] = k]
    /\ queue' = queue \cup {i}
    /\ UNCHANGED <<cluster, plan, due, failures, seen, stale, pc, job,
                   reservation, limiter, credit>>

\* Plans are not watched.
EditPlan ==
    /\ CanEdit(2)
    /\ \E p \in Plans \ {plan} : plan' = p
    /\ due' = TRUE
    /\ UNCHANGED <<cluster, certs, failures, operatorVars>>

\* The periodic resync (--sync-period) enqueues every instance.
Resync ==
    /\ due
    /\ due' = FALSE
    /\ queue' = Instances
    /\ UNCHANGED <<cluster, certs, plan, edits, failures, seen, stale, pc, job,
                   reservation, limiter, credit>>

\* The nginx-operator writes the status of the Nginx of i.
NginxReports(i) ==
    /\ CanEdit(3)
    /\ cluster[i].nginx # NoNginx
    /\ Written(i, "nginx", cluster[i])
    /\ UNCHANGED <<certs, plan, due, failures, seen, queue, pc, job, reservation,
                   limiter, credit>>

\* The cached objects of i when the copy of that kind is brought up to date.
Refreshed(i, kind) ==
    CASE kind = "instance" -> [seen[i] EXCEPT !.instance = cluster[i].instance]
      [] kind = "nginx"    -> [seen[i] EXCEPT !.nginx = cluster[i].nginx]
      [] kind = "configs"  -> [seen[i] EXCEPT !.configs = cluster[i].configs]

\* As SyncCache, for a kind that is not watched (a mutant).
SyncCacheOnly(i, kind) ==
    /\ kind \in stale[i]
    /\ seen' = [seen EXCEPT ![i] = Refreshed(i, kind)]
    /\ stale' = [stale EXCEPT ![i] = @ \ {kind}]
    /\ UNCHANGED <<cluster, envVars, queue, pc, job, reservation, limiter,
                   credit>>

\* A watch event refreshes a cached copy; the instance, or the owner of the
\* object, is enqueued.
SyncCache(i, kind) ==
    /\ kind \in stale[i]
    /\ seen' = [seen EXCEPT ![i] = Refreshed(i, kind)]
    /\ stale' = [stale EXCEPT ![i] = @ \ {kind}]
    /\ queue' = queue \cup {i}
    /\ UNCHANGED <<cluster, envVars, pc, job, reservation, limiter, credit>>

----------------------------------------------------------------------------
(* The worker. *)

\* Reconcile starts.  A suspended instance is requeued and so is a system
\* rollout that the limiter refuses: nothing changes.
StartReconcile(i) ==
    LET read == seen[i].instance IN
    /\ pc = "idle"
    /\ i \in queue
    /\ ~read.suspend
    /\ \/ /\ IsSystemRollout(GenerateSpecHash(read, certs[i]), read)
          /\ Reserve
       \/ /\ ~IsSystemRollout(GenerateSpecHash(read, certs[i]), read)
          /\ UNCHANGED <<limiter, reservation>>
    /\ queue' = queue \ {i}
    /\ job' = [instance |-> i, read |-> read,
               fresh |-> "instance" \notin stale[i], plan |-> plan,
               cert |-> certs[i], changed |-> FALSE, certChanged |-> FALSE]
    /\ pc' = "configMap"
    /\ UNCHANGED <<cluster, seen, stale, credit, envVars>>

\* As ReportError, dropping the instance (a mutant).
ForgetInstance ==
    /\ Cancel
    /\ pc' = "idle"
    /\ job' = NoJob
    /\ UNCHANGED queue

\* A reconciliation that ends in an error is retried.
ReportError ==
    /\ Cancel
    /\ queue' = queue \cup {job.instance}
    /\ pc' = "idle"
    /\ job' = NoJob

\* A step of the worker that finds nothing to do, or has its write refused.
Keep == UNCHANGED <<cluster, stale, job, queue, reservation, limiter>>

Refused == ReportError /\ UNCHANGED <<cluster, stale>>

ReconcileConfigMap ==
    LET i == job.instance
        config == NewConfigMap(job)
    IN
    /\ pc = "configMap"
    /\ \/ /\ Contains(seen[i].configs, config)
          /\ Keep
          /\ pc' = "history"
       \/ /\ ~Contains(seen[i].configs, config)
          /\ ~Contains(cluster[i].configs, config)
          /\ Written(i, "configs",
                     [cluster[i] EXCEPT !.configs = Append(@, config)])
          /\ job' = [job EXCEPT !.changed = TRUE]
          /\ pc' = "history"
          /\ UNCHANGED <<queue, reservation, limiter>>
       \/ /\ ~Contains(seen[i].configs, config)
          /\ Contains(cluster[i].configs, config)
          /\ Refused
    /\ UNCHANGED <<seen, credit, envVars>>

\* The deletion of an old configuration is not among the changes.
DeleteOldConfig ==
    LET i == job.instance
        list == seen[i].configs
    IN
    /\ pc = "history"
    /\ \/ /\ ~DeletesOldConfig(list, seen[i].nginx)
          /\ Keep
          /\ pc' = "nginx"
       \/ /\ DeletesOldConfig(list, seen[i].nginx)
          /\ \E n \in DOMAIN cluster[i].configs :
                /\ cluster[i].configs[n] = Head(list)
                /\ Written(i, "configs",
                           [cluster[i] EXCEPT !.configs = RemoveAt(@, n)])
          /\ pc' = "nginx"
          /\ UNCHANGED <<job, queue, reservation, limiter>>
       \/ /\ DeletesOldConfig(list, seen[i].nginx)
          /\ ~Contains(cluster[i].configs, Head(list))
          /\ Refused
    /\ UNCHANGED <<seen, credit, envVars>>

ReconcileNginx ==
    LET i == job.instance
        found == seen[i].nginx
    IN
    /\ pc = "nginx"
    /\ \/ /\ found = NewNginx(job)
          /\ Keep
          /\ pc' = "settle"
       \/ /\ found # NewNginx(job)
          /\ "nginx" \notin stale[i]
          /\ Written(i, "nginx", [cluster[i] EXCEPT !.nginx = NewNginx(job)])
          /\ job' = [job EXCEPT
                        !.changed = TRUE,
                        !.certChanged = found # NoNginx /\ found.cert # job.cert]
          /\ pc' = "settle"
          /\ UNCHANGED <<queue, reservation, limiter>>
       \/ /\ found # NewNginx(job)
          /\ "nginx" \in stale[i]
          /\ Refused
    /\ UNCHANGED <<seen, credit, envVars>>

\* A reconciliation that changed nothing, or only followed a certificate,
\* gives its reservation back.
SettleReservation ==
    /\ pc = "settle"
    /\ \/ /\ job.changed /\ ~job.certChanged
          /\ UNCHANGED <<limiter, reservation>>
       \/ /\ ~job.changed \/ job.certChanged
          /\ Cancel
    /\ pc' = "status"
    /\ UNCHANGED <<cluster, seen, stale, queue, job, credit, envVars>>

\* Reconcile ends; a system rollout that is still reserved is charged.
Finish ==
    /\ pc' = "idle"
    /\ job' = NoJob
    /\ reservation' = "none"
    /\ credit' = IF reservation = "none" THEN credit ELSE credit - 1
    /\ UNCHANGED <<queue, limiter>>

RefreshStatus ==
    LET i == job.instance
        status == NewStatus(job, seen[i].nginx)
    IN
    /\ pc = "status"
    /\ seen[i].nginx # NoNginx
    /\ \/ /\ status = job.read.status
          /\ Finish
          /\ UNCHANGED <<cluster, stale>>
       \/ /\ status # job.read.status
          /\ job.fresh
          /\ Finish
          /\ Written(i, "instance",
                     [cluster[i] EXCEPT
                         !.instance = [job.read EXCEPT !.status = status]])
       \/ /\ status # job.read.status
          /\ ~job.fresh
          /\ Refused
          /\ UNCHANGED credit
    /\ UNCHANGED <<seen, envVars>>

\* A call to the API server fails, here or while the worker reconciles the
\* session tickets, the HPA and the PDB.
CallFails ==
    /\ pc # "idle"
    /\ failures < MaxFailures
    /\ failures' = failures + 1
    /\ Refused
    /\ UNCHANGED <<seen, credit, certs, plan, due, edits>>

\* The operator starts again: the caches are filled, every instance is
\* enqueued and the limiter is a new one.
Restart ==
    /\ seen' = cluster
    /\ stale' = [i \in Instances |-> {}]
    /\ queue' = Instances
    /\ pc' = "idle"
    /\ job' = NoJob
    /\ reservation' = "none"
    /\ limiter' = FullLimiter
    /\ credit' = Burst
    /\ due' = FALSE
    /\ UNCHANGED <<cluster, certs, plan, edits>>

Crash ==
    /\ failures < MaxFailures
    /\ failures' = failures + 1
    /\ Restart

\* refreshStatus reads the addresses of an Nginx that the cache does not have
\* yet: the process dies of a nil dereference.
Panic ==
    /\ pc = "status"
    /\ seen[job.instance].nginx = NoNginx
    /\ Restart
    /\ UNCHANGED failures

Reconcile ==
    \/ \E i \in Instances : StartReconcile(i)
    \/ ReconcileConfigMap
    \/ DeleteOldConfig
    \/ ReconcileNginx
    \/ SettleReservation
    \/ RefreshStatus
    \/ Panic

Next ==
    \/ \E i \in Instances : EditInstance(i) \/ EditCertificate(i)
                             \/ NginxReports(i)
    \/ EditPlan
    \/ Resync
    \/ \E i \in Instances, kind \in Kinds : SyncCache(i, kind)
    \/ LastSecond
    \/ Tick
    \/ Reconcile
    \/ CallFails
    \/ Crash

Spec == Init /\ [][Next]_vars

\* Time passes, watches deliver, and the worker runs.
Fairness ==
    /\ WF_vars(LastSecond) /\ WF_vars(Tick) /\ WF_vars(Resync)
    /\ \A i \in Instances, kind \in Kinds : WF_vars(SyncCache(i, kind))
    /\ \A i \in Instances : WF_vars(StartReconcile(i))
    /\ WF_vars(Reconcile)

FairSpec == Spec /\ Fairness

----------------------------------------------------------------------------
(* Properties. *)

\* The bucket never owes more than the one token of an early reservation.
LimiterTypeOK ==
    /\ reservation \in Reservations
    /\ limiter \in [tokens : -1..Burst, lastSecond : BOOLEAN]
    /\ credit \in Int

\* Every variable has the shape of the objects it stands for.
TypeOK ==
    /\ cluster \in [Instances -> Objects]
    /\ certs \in [Instances -> Certs]
    /\ plan \in Plans
    /\ due \in BOOLEAN
    /\ seen \in [Instances -> Objects]
    /\ stale \in [Instances -> SUBSET Kinds]
    /\ queue \in SUBSET Instances
    /\ pc \in {"idle", "configMap", "history", "nginx", "settle", "status"}
    /\ job \in Job \cup {NoJob}
    /\ pc # "idle" <=> job # NoJob
    /\ LimiterTypeOK
    /\ edits \in 0..MaxEdits
    /\ failures \in 0..MaxFailures

\* What the current spec, certificates and plan of instance i call for.
Desired(i) ==
    [config |-> [spec |-> cluster[i].instance.spec, plan |-> plan],
     cert |-> certs[i]]

Converged(i) ==
    /\ cluster[i].nginx = Desired(i)
    /\ Contains(cluster[i].configs, Desired(i).config)
    /\ cluster[i].instance.status.updated
    /\ cluster[i].instance.status.observed = cluster[i].instance.generation

\* Nothing that the operator will do, and nothing under way to it, concerns i.
Quiescent(i) ==
    /\ i \notin queue
    /\ stale[i] = {}
    /\ pc # "idle" => job.instance # i
    /\ ~due

\* No wake-up is lost: an instance that nobody is about to reconcile is in the
\* state that its spec, its certificates and the plan ask for, and its status
\* says so, whatever edits, refused writes, failures and crashes came before
\* (Reconcile, reportError and the watches of SetupWithManager).
QuiescentIsConverged ==
    \A i \in Instances : Quiescent(i) => Converged(i)

\* An instance at rest keeps no more configurations than its limit, except
\* that the oldest one is kept when it is in use (deleteOldConfig).
QuiescentHistoryTrimmed ==
    \A i \in Instances :
        Quiescent(i) =>
            \/ Len(cluster[i].configs) <= HistoryLimit
            \/ Head(cluster[i].configs) = cluster[i].nginx.config

\* Between a refill and the next, no more system rollouts complete than the
\* bucket holds and two: one reserved before the refill and one granted in the
\* second before it.  A reservation is given back once at most
\* (system_rate_limit.go and the Cancel calls of Reconcile).
SystemRolloutsLimited == credit >= -2

\* Once changes and failures stop, every instance that is not suspended is
\* brought to the state it asks for and stays there, although plans are not
\* watched and system rollouts wait for the limiter.
EventuallyConverged ==
    <>[](\A i \in Instances :
            cluster[i].instance.suspend \/ Converged(i))

\* The configuration that the Nginx of an instance names exists: "The number
\* of old Configs to retain to allow rollback" (ConfigHistoryLimit).
ConfigRetained ==
    \A i \in Instances :
        cluster[i].nginx # NoNginx =>
            Contains(cluster[i].configs, cluster[i].nginx.config)

=============================================================================
