--------------------------- MODULE SessionTickets ---------------------------
(***************************************************************************)
(* The keys of TLS session tickets of one instance.                        *)
(*                                                                         *)
(* The operator keeps a Secret with KeepLastKeys + 1 keys and a CronJob.   *)
(* Nginx encrypts tickets with the first key and accepts the others.  The  *)
(* jobs of the CronJob shift the keys of the Secret by one place and put a *)
(* new one first, in one JSON patch, and then touch the pods so that they  *)
(* see it.  A job keeps the number of keys that it was created with, while *)
(* the operator resizes the Secret from a copy it has read.                *)
(*                                                                         *)
(* Keys are numbered in the order they are generated; ticket.i.key is      *)
(* element i + 1 of the sequence.                                          *)
(***************************************************************************)
EXTENDS Naturals, Sequences

CONSTANTS
    Jobs,          \* jobs that can run at the same time
    KeepLastKeys,  \* the values of Spec...SessionTicket.KeepLastKeys
    None,
    MaxKeys,       \* bound: keys ever generated, beyond which no job rotates
    MaxEdits,      \* bound: edits of the instance
    MaxFailures    \* bound: calls and jobs that fail, and crashes

ASSUME TicketsAssumption ==
    /\ KeepLastKeys \subseteq Nat
    /\ None \notin Nat
    /\ MaxKeys \in Nat /\ MaxEdits \in Nat /\ MaxFailures \in Nat

VARIABLES
    spec,          \* how many old keys to keep, or None: not enabled
    nginx,         \* how many keys the configuration of Nginx loads
    secret,        \* the keys of the Secret; empty if there is none
    cronJob,       \* SESSION_TICKET_KEYS of the CronJob; 0 if there is none
    jobs,          \* the jobs: what they do, and with how many keys
    op,            \* the reconciler
    pending,       \* the reconciler was told of a change
    generated,     \* keys generated so far
    edits,
    failures,
    retired,       \* history: keys that encrypted tickets and no longer do
    steady,        \* history: no edit since all was quiet
    chain          \* history: keys retired since then, the last one first

vars == <<spec, nginx, secret, cronJob, jobs, op, pending, generated, edits, failures,
          retired, steady, chain>>
history == <<retired, steady, chain>>

IdleOp == [pc |-> "idle", spec |-> None, read |-> <<>>]
NoJob == [pc |-> "none", keys |-> 0]

Init ==
    /\ spec \in KeepLastKeys \cup {None}
    /\ nginx = 0 /\ secret = <<>> /\ cronJob = 0
    /\ jobs = [j \in Jobs |-> NoJob]
    /\ op = IdleOp /\ pending = TRUE
    /\ generated = 0 /\ edits = 0 /\ failures = 0
    /\ retired = {} /\ steady = FALSE /\ chain = <<>>

Fail == failures < MaxFailures /\ failures' = failures + 1

tlsSessionTicketKeys(keep) == keep + 1
Quiet == op.pc = "idle" /\ ~pending /\ \A j \in Jobs : jobs[j] = NoJob

\* SessionTicket is set, changed or removed in the instance.
Edit(new) ==
    /\ edits < MaxEdits /\ new # spec
    /\ spec' = new
    /\ edits' = edits + 1
    /\ pending' = TRUE
    /\ steady' = FALSE /\ chain' = <<>>
    /\ UNCHANGED <<nginx, secret, cronJob, jobs, op, generated, failures, retired>>

----------------------------------------------------------------------------
(* The reconciler: Nginx first, then the Secret, then the CronJob. *)

ReconcileNginx ==
    /\ op.pc = "idle" /\ pending
    /\ pending' = FALSE
    /\ nginx' = IF spec = None THEN 0 ELSE tlsSessionTicketKeys(spec)
    /\ op' = [op EXCEPT !.pc = "get", !.spec = spec]
    /\ UNCHANGED <<spec, secret, cronJob, jobs, generated, edits, failures, history>>

GetSecret ==
    /\ op.pc = "get"
    /\ op' = [op EXCEPT !.pc = "secret", !.read = secret]
    /\ UNCHANGED <<spec, nginx, secret, cronJob, jobs, pending, generated, edits, failures,
                   history>>

\* As newSessionTicketData, and no key is dropped (a mutant).
TicketDataKeepingAll(old, count) ==
    [i \in 1 .. (IF count > Len(old) THEN count ELSE Len(old)) |->
        IF i <= Len(old) THEN old[i] ELSE generated + (i - Len(old))]

\* newSessionTicketData: keys that are there stay in their place, places that
\* are missing get a key of their own, the others are dropped.
newSessionTicketData(old, count) ==
    [i \in 1..count |-> IF i <= Len(old) THEN old[i] ELSE generated + (i - Len(old))]

Retire(new) ==
    retired' = IF secret # <<>> /\ (new = <<>> \/ new[1] # secret[1])
               THEN retired \cup {secret[1]} ELSE retired

Write(new) ==
    /\ secret' = new
    /\ Retire(new)
    /\ pending' = TRUE
    /\ op' = [op EXCEPT !.pc = "cronJob", !.read = <<>>]

\* As ReconcileSecret, without the version that was read (a mutant).
ReconcileSecretBlindly ==
    LET count == IF op.spec = None THEN 0 ELSE tlsSessionTicketKeys(op.spec)
        new == newSessionTicketData(op.read, count) IN
    /\ op.pc = "secret"
    /\ IF new = op.read
       THEN /\ op' = [op EXCEPT !.pc = "cronJob", !.read = <<>>]
            /\ UNCHANGED <<secret, pending, generated, retired>>
       ELSE /\ Write(new)
            /\ generated' = IF count > Len(op.read) THEN generated + count - Len(op.read)
                            ELSE generated
    /\ UNCHANGED <<spec, nginx, cronJob, jobs, edits, failures, steady, chain>>

\* As ReconcileSecret, which writes the Secret even if it is the same (a mutant).
ReconcileSecretAlways ==
    LET count == IF op.spec = None THEN 0 ELSE tlsSessionTicketKeys(op.spec)
        new == newSessionTicketData(op.read, count) IN
    /\ op.pc = "secret" /\ secret = op.read
    /\ Write(new)
    /\ generated' = IF count > Len(op.read) THEN generated + count - Len(op.read)
                    ELSE generated
    /\ UNCHANGED <<spec, nginx, cronJob, jobs, edits, failures, steady, chain>>

\* reconcileSecretForSessionTickets.  The Secret is written back with the
\* version that was read: that fails if a job has changed it since.
ReconcileSecret ==
    LET count == IF op.spec = None THEN 0 ELSE tlsSessionTicketKeys(op.spec)
        new == newSessionTicketData(op.read, count) IN
    /\ op.pc = "secret"
    /\ IF new = op.read
       THEN /\ op' = [op EXCEPT !.pc = "cronJob", !.read = <<>>]
            /\ UNCHANGED <<secret, pending, generated, retired>>
       ELSE IF secret # op.read /\ count # 0
       THEN /\ op' = IdleOp /\ pending' = TRUE
            /\ UNCHANGED <<secret, generated, retired>>
       ELSE /\ Write(new)
            /\ generated' = IF count > Len(op.read) THEN generated + count - Len(op.read)
                            ELSE generated
    /\ UNCHANGED <<spec, nginx, cronJob, jobs, edits, failures, steady, chain>>

ReconcileCronJob ==
    /\ op.pc = "cronJob"
    /\ cronJob' = IF op.spec = None THEN 0 ELSE tlsSessionTicketKeys(op.spec)
    /\ pending' = (pending \/ cronJob' # cronJob)
    /\ op' = IdleOp
    /\ UNCHANGED <<spec, nginx, secret, jobs, generated, edits, failures, history>>

ReconcileFails ==
    /\ op.pc # "idle"
    /\ Fail
    /\ op' = IdleOp /\ pending' = TRUE
    /\ UNCHANGED <<spec, nginx, secret, cronJob, jobs, generated, edits, history>>

Reconcile == ReconcileNginx \/ GetSecret \/ ReconcileSecret \/ ReconcileCronJob

----------------------------------------------------------------------------
(* The rotation. *)

\* The schedule starts a job, whether or not the one before is over.
StartJob(j) ==
    /\ cronJob # 0 /\ jobs[j] = NoJob
    /\ jobs' = [jobs EXCEPT ![j] = [pc |-> "rotate", keys |-> cronJob]]
    /\ steady' = (steady \/ Quiet)
    /\ UNCHANGED <<spec, nginx, secret, cronJob, op, pending, generated, edits, failures,
                   retired, chain>>

\* As Rotated, with the copies made from the first key up (a mutant).
RotatedUpwards(keys, n, new) ==
    LET size == IF n > Len(keys) THEN n ELSE Len(keys) IN
    [i \in 1..size |-> IF i = 1 THEN new ELSE IF i <= n THEN keys[1] ELSE keys[i]]

\* json_merge_patch_payload: from the last key down, each one is copied from the
\* one before it; then the first one is replaced.
Rotated(keys, n, new) ==
    LET size == IF n > Len(keys) THEN n ELSE Len(keys) IN
    [i \in 1..size |-> IF i = 1 THEN new ELSE IF i <= n THEN keys[i - 1] ELSE keys[i]]

\* The patch applies if each key that it copies or replaces is there.
Applies(keys, n) == Len(keys) >= (IF n = 1 THEN 1 ELSE n - 1)

rotate_session_tickets(j) ==
    LET n == jobs[j].keys IN
    /\ jobs[j].pc = "rotate" /\ generated < MaxKeys
    /\ IF Applies(secret, n)
       THEN /\ secret' = Rotated(secret, n, generated + 1)
            /\ generated' = generated + 1
            /\ retired' = retired \cup {secret[1]}
            /\ chain' = IF steady THEN <<secret[1]>> \o chain ELSE <<>>
            /\ pending' = TRUE
            /\ jobs' = [jobs EXCEPT ![j].pc = "annotate"]
       ELSE /\ jobs' = [jobs EXCEPT ![j] = NoJob]
            /\ UNCHANGED <<secret, generated, retired, chain, pending>>
    /\ UNCHANGED <<spec, nginx, cronJob, op, edits, failures, steady>>

update_nginx_pods(j) ==
    /\ jobs[j].pc = "annotate"
    /\ jobs' = [jobs EXCEPT ![j] = NoJob]
    /\ UNCHANGED <<spec, nginx, secret, cronJob, op, pending, generated, edits, failures, history>>

\* The pod of the job fails and another one runs the script from the start; or
\* the job is given up, or deleted with its CronJob.
JobFails(j) ==
    /\ jobs[j].pc # "none"
    /\ Fail
    /\ jobs' \in {[jobs EXCEPT ![j].pc = "rotate"], [jobs EXCEPT ![j] = NoJob]}
    /\ UNCHANGED <<spec, nginx, secret, cronJob, op, pending, generated, edits, history>>

Rotation(j) == StartJob(j) \/ rotate_session_tickets(j) \/ update_nginx_pods(j)

----------------------------------------------------------------------------

Next ==
    \/ \E new \in KeepLastKeys \cup {None} : Edit(new)
    \/ Reconcile \/ ReconcileFails
    \/ \E j \in Jobs : Rotation(j) \/ JobFails(j)

Spec == Init /\ [][Next]_vars

\* The work queue calls the reconciler until it succeeds.
FairSpec == Spec /\ WF_vars(Reconcile)

----------------------------------------------------------------------------
(* Properties. *)

\* Objects have their shape.
TypeOK ==
    /\ spec \in KeepLastKeys \cup {None}
    /\ \A i \in DOMAIN secret : secret[i] \in 1..generated
    /\ cronJob \in {0} \cup {tlsSessionTicketKeys(k) : k \in KeepLastKeys}
    /\ generated \in Nat
    /\ retired \subseteq 1..generated

\* A key that has been replaced as the one that encrypts never encrypts again,
\* although the operator writes back keys that it read before a rotation.
NoKeyComesBack == secret # <<>> => secret[1] \notin retired

\* As long as the instance is not edited, a key that was replaced is still
\* accepted for as many rotations as there are keys to keep, also when jobs
\* overlap or are run twice.
ReplacedKeysAccepted ==
    steady /\ spec # None =>
        \A i \in DOMAIN chain : i <= spec => secret[i + 1] = chain[i]

\* When all is quiet the Secret has the keys that Nginx loads, no more and no
\* less, and the CronJob rotates that many; all are gone if it is not enabled.
QuietIsConsistent ==
    Quiet => LET count == IF spec = None THEN 0 ELSE tlsSessionTicketKeys(spec) IN
             nginx = count /\ Len(secret) = count /\ cronJob = count

\* The operator comes to rest, although jobs change the Secret under it.
EventuallyAtRest ==
    <>[](op.pc = "idle" /\ ~pending)
=============================================================================
