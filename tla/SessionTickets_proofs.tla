------------------------ MODULE SessionTickets_proofs ------------------------
(***************************************************************************)
(* The keys of session tickets, for any numbers of keys and jobs, however  *)
(* rotations, resizings, failures and repetitions follow each other: a key *)
(* that was replaced never encrypts again, it is accepted for as long as   *)
(* the instance promises, and all fits together when all is quiet.         *)
(***************************************************************************)
EXTENDS SessionTickets, TLAPS

\* The reconciler and the jobs have their shape; a job that runs has a key.
WorkersTyped ==
    /\ spec \in KeepLastKeys \cup {None}
    /\ op \in [pc : {"idle", "get", "secret", "cronJob"},
               spec : KeepLastKeys \cup {None}, read : Seq(Nat)]
    /\ cronJob \in Nat
    /\ jobs \in [Jobs -> [pc : {"none", "rotate", "annotate"}, keys : Nat]]
    /\ \A j \in Jobs : jobs[j].pc # "none" => jobs[j].keys > 0

\* No key has a number that is still to be generated.
KeysTyped ==
    /\ generated \in Nat
    /\ secret \in Seq(Nat)
    /\ \A i \in 1..Len(secret) : secret[i] <= generated
    /\ \A k \in retired : k \in Nat /\ k <= generated

\* The inductive invariant.
IInv == WorkersTyped /\ KeysTyped /\ NoKeyComesBack

\* The number of keys that the operator wants is a number.
LEMMA CountIsNat ==
    ASSUME NEW s \in KeepLastKeys \cup {None}
    PROVE  (IF s = None THEN 0 ELSE tlsSessionTicketKeys(s)) \in Nat
BY TicketsAssumption DEF tlsSessionTicketKeys

\* newSessionTicketData returns as many keys as were asked for: the ones that
\* were there in their places, and new ones.
LEMMA TicketData ==
    ASSUME generated \in Nat, NEW old \in Seq(Nat), NEW count \in Nat
    PROVE  /\ newSessionTicketData(old, count) \in Seq(Nat)
           /\ Len(newSessionTicketData(old, count)) = count
           /\ \A i \in 1..count : newSessionTicketData(old, count)[i] =
                 IF i <= Len(old) THEN old[i] ELSE generated + (i - Len(old))
<1> DEFINE new == newSessionTicketData(old, count)
<1>1. \A i \in 1..count :
         (IF i <= Len(old) THEN old[i] ELSE generated + (i - Len(old))) \in Nat
  OBVIOUS
<1>2. new = [i \in 1..count |-> IF i <= Len(old) THEN old[i]
                                 ELSE generated + (i - Len(old))]
  BY DEF newSessionTicketData
<1>3. new \in [1..count -> Nat]
  BY <1>1, <1>2
<1>4. new \in Seq(Nat) /\ Len(new) = count
  BY <1>3
<1> QED
  BY <1>2, <1>4

\* None of them has a number beyond the ones that were generated for it.
LEMMA TicketDataBound ==
    ASSUME generated \in Nat, NEW old \in Seq(Nat), NEW count \in Nat,
           \A i \in 1..Len(old) : old[i] <= generated
    PROVE  \A i \in 1..count : newSessionTicketData(old, count)[i] <=
              IF count > Len(old) THEN generated + count - Len(old) ELSE generated
<1> TAKE i \in 1..count
<1>1. newSessionTicketData(old, count)[i] =
         IF i <= Len(old) THEN old[i] ELSE generated + (i - Len(old))
  BY TicketData
<1>2. CASE i <= Len(old)
  <2>1. i \in 1..Len(old) /\ old[i] \in Nat
    BY <1>2
  <2>2. old[i] <= generated
    BY <2>1
  <2> QED
    BY <1>1, <1>2, <2>1, <2>2
<1>3. CASE ~(i <= Len(old))
  BY <1>1, <1>3
<1> QED
  BY <1>2, <1>3

\* The script's patch, where it applies, puts the new key first and moves the
\* others.
LEMMA RotatedKeys ==
    ASSUME NEW keys \in Seq(Nat), NEW n \in Nat, n > 0, NEW new \in Nat, Applies(keys, n)
    PROVE  /\ Rotated(keys, n, new) \in Seq(Nat)
           /\ Len(Rotated(keys, n, new)) > 0
           /\ Rotated(keys, n, new)[1] = new
           /\ \A i \in 2..Len(Rotated(keys, n, new)) :
                 \E k \in 1..Len(keys) : Rotated(keys, n, new)[i] = keys[k]
<1> DEFINE size == IF n > Len(keys) THEN n ELSE Len(keys)
           At(i) == IF i = 1 THEN new ELSE IF i <= n THEN keys[i - 1] ELSE keys[i]
           rot == Rotated(keys, n, new)
<1>1. Len(keys) \in Nat /\ Len(keys) >= 1 /\ Len(keys) >= n - 1
  BY DEF Applies
<1>2. size \in Nat /\ size >= 1
  BY <1>1
<1>3. \A i \in 2..size : \E k \in 1..Len(keys) : At(i) = keys[k]
  <2> TAKE i \in 2..size
  <2>1. CASE i <= n
    <3>1. i - 1 \in 1..Len(keys) /\ At(i) = keys[i - 1]
      BY <1>1, <1>2, <2>1
    <3> QED BY <3>1
  <2>2. CASE ~(i <= n)
    <3>1. i \in 1..Len(keys) /\ At(i) = keys[i]
      BY <1>1, <1>2, <2>2
    <3> QED BY <3>1
  <2> QED BY <2>1, <2>2
<1>4. \A i \in 1..size : At(i) \in Nat
  <2> TAKE i \in 1..size
  <2>1. CASE i = 1
    BY <2>1
  <2>2. CASE i # 1
    <3>1. i \in 2..size
      BY <1>2, <2>2
    <3>2. PICK k \in 1..Len(keys) : At(i) = keys[k]
      BY <1>3, <3>1
    <3> QED
      BY <3>2
  <2> QED BY <2>1, <2>2
<1>5. rot = [i \in 1..size |-> At(i)]
  BY DEF Rotated
<1>6. rot \in Seq(Nat) /\ Len(rot) = size
  BY <1>2, <1>4, <1>5
<1>7. rot[1] = new
  BY <1>2, <1>5
<1>8. \A i \in 2..size : rot[i] = At(i)
  BY <1>2, <1>5
<1> HIDE DEF At, size, rot
<1>9. \A i \in 2..Len(rot) : \E k \in 1..Len(keys) : rot[i] = keys[k]
  BY <1>3, <1>6, <1>8
<1>10. Len(rot) > 0
  BY <1>2, <1>6
<1> QED
  BY <1>6, <1>7, <1>9, <1>10 DEF rot

\* A job that goes on to another step, or ends.
LEMMA JobsTyped ==
    ASSUME NEW j \in Jobs, NEW s \in {"rotate", "annotate"},
           WorkersTyped, jobs[j].pc # "none",
           jobs' = [jobs EXCEPT ![j].pc = s] \/ jobs' = [jobs EXCEPT ![j] = NoJob]
    PROVE  /\ jobs' \in [Jobs -> [pc : {"none", "rotate", "annotate"}, keys : Nat]]
           /\ \A i \in Jobs : jobs'[i].pc # "none" => jobs'[i].keys > 0
<1> DEFINE Job == [pc : {"none", "rotate", "annotate"}, keys : Nat]
<1>1. jobs \in [Jobs -> Job] /\ jobs[j] \in Job /\ jobs[j].keys > 0
  BY DEF WorkersTyped
<1>2. CASE jobs' = [jobs EXCEPT ![j].pc = s]
  <2>1. [jobs[j] EXCEPT !.pc = s] = [pc |-> s, keys |-> jobs[j].keys]
    BY <1>1
  <2>2. jobs' = [jobs EXCEPT ![j] = [pc |-> s, keys |-> jobs[j].keys]]
    BY <1>2, <2>1
  <2> QED
    BY <1>1, <2>2 DEF WorkersTyped
<1>3. CASE jobs' = [jobs EXCEPT ![j] = NoJob]
  BY <1>1, <1>3 DEF WorkersTyped, NoJob
<1> QED
  BY <1>2, <1>3

\* The steps that leave the keys alone.
LEMMA KeysUntouched ==
    ASSUME IInv, UNCHANGED <<secret, generated, retired>>
    PROVE  KeysTyped' /\ NoKeyComesBack'
BY DEF IInv, KeysTyped, NoKeyComesBack

LEMMA InitIInv == Init => IInv
BY TicketsAssumption DEF Init, IInv, WorkersTyped, KeysTyped, NoKeyComesBack, IdleOp, NoJob

LEMMA EditKeeps == ASSUME IInv, NEW new \in KeepLastKeys \cup {None}, Edit(new) PROVE IInv'
<1>1. WorkersTyped'
  BY DEF IInv, WorkersTyped, Edit
<1>2. UNCHANGED <<secret, generated, retired>>
  BY DEF Edit
<1> QED
  BY <1>1, <1>2, KeysUntouched DEF IInv

\* The steps of the reconciler other than the write of the Secret.
LEMMA ReconcilerKeeps ==
    ASSUME IInv, ReconcileNginx \/ GetSecret \/ ReconcileCronJob \/ ReconcileFails
    PROVE  IInv'
<1> USE DEF IInv, WorkersTyped
<1>1. CASE ReconcileNginx
  <2>1. WorkersTyped'
    BY <1>1 DEF ReconcileNginx
  <2> QED
    BY <1>1, <2>1, KeysUntouched DEF ReconcileNginx, history
<1>2. CASE GetSecret
  <2>1. WorkersTyped'
    BY <1>2 DEF GetSecret, KeysTyped
  <2> QED
    BY <1>2, <2>1, KeysUntouched DEF GetSecret, history
<1>3. CASE ReconcileCronJob
  <2>1. cronJob' \in Nat
    BY <1>3, CountIsNat DEF ReconcileCronJob
  <2>2. WorkersTyped'
    BY <1>3, <2>1, TicketsAssumption DEF ReconcileCronJob, IdleOp
  <2> QED
    BY <1>3, <2>2, KeysUntouched DEF ReconcileCronJob, history
<1>4. CASE ReconcileFails
  <2>1. WorkersTyped'
    BY <1>4, TicketsAssumption DEF ReconcileFails, IdleOp
  <2> QED
    BY <1>4, <2>1, KeysUntouched DEF ReconcileFails, history
<1> QED
  BY <1>1, <1>2, <1>3, <1>4

\* The write of the Secret keeps the first key, drops them all, or starts with a
\* new one: with the version that was read, or for a Secret that is deleted.
LEMMA ReconcileSecretKeeps == ASSUME IInv, ReconcileSecret PROVE IInv'
<1> DEFINE count == IF op.spec = None THEN 0 ELSE tlsSessionTicketKeys(op.spec)
           new == newSessionTicketData(op.read, count)
<1>0. op.read \in Seq(Nat) /\ generated \in Nat /\ count \in Nat
  BY CountIsNat DEF IInv, WorkersTyped, KeysTyped
<1>1. /\ new \in Seq(Nat) /\ Len(new) = count
      /\ \A i \in 1..count : new[i] =
            IF i <= Len(op.read) THEN op.read[i] ELSE generated + (i - Len(op.read))
  BY <1>0, TicketData
<1>2. WorkersTyped'
  <2>1. /\ op' = [op EXCEPT !.pc = "cronJob", !.read = <<>>] \/ op' = IdleOp
        /\ UNCHANGED <<spec, cronJob, jobs>>
    BY DEF ReconcileSecret, Write
  <2>2. op' \in [pc : {"idle", "get", "secret", "cronJob"},
                 spec : KeepLastKeys \cup {None}, read : Seq(Nat)]
    <3>1. CASE op' = IdleOp
      BY <3>1 DEF IdleOp
    <3>2. CASE op' = [op EXCEPT !.pc = "cronJob", !.read = <<>>]
      <4>1. <<>> \in Seq(Nat)
        OBVIOUS
      <4> QED
        BY <3>2, <4>1 DEF IInv, WorkersTyped
    <3> QED
      BY <2>1, <3>1, <3>2
  <2> QED
    BY <2>1, <2>2 DEF IInv, WorkersTyped
<1>3. CASE new = op.read \/ (secret # op.read /\ count # 0)
  <2>1. UNCHANGED <<secret, generated, retired>>
    BY <1>3 DEF ReconcileSecret
  <2> QED
    BY <1>2, <2>1, KeysUntouched DEF IInv
<1>4. CASE new # op.read /\ (secret = op.read \/ count = 0)
  <2>1. /\ Write(new)
        /\ generated' = IF count > Len(op.read) THEN generated + count - Len(op.read)
                        ELSE generated
    BY <1>4 DEF ReconcileSecret
  <2>2. secret' = new /\ generated' \in Nat /\ generated' >= generated
    BY <1>0, <2>1 DEF Write
  <2>3. \A i \in 1..Len(new) : new[i] <= generated'
    <3>1. CASE count = 0
      BY <1>1, <3>1
    <3>2. CASE count # 0
      <4>1. secret = op.read
        BY <1>4, <3>2
      <4>2. \A i \in 1..Len(op.read) : op.read[i] <= generated
        BY <4>1 DEF IInv, KeysTyped
      <4> QED
        BY <1>0, <1>1, <2>1, <4>2, TicketDataBound
    <3> QED
      BY <3>1, <3>2
  <2>4. \A k \in retired' : k \in Nat /\ k <= generated'
    <3>1. \A k \in retired : k \in Nat /\ k <= generated'
      BY <1>0, <2>2 DEF IInv, KeysTyped
    <3>2. secret # <<>> => secret[1] \in Nat /\ secret[1] <= generated'
      <4>1. secret \in Seq(Nat) /\ \A i \in 1..Len(secret) : secret[i] <= generated
        BY DEF IInv, KeysTyped
      <4>2. secret # <<>> => 1 \in 1..Len(secret)
        BY <4>1
      <4> QED
        BY <1>0, <2>2, <4>1, <4>2
    <3>3. retired' = retired \/ (secret # <<>> /\ retired' = retired \cup {secret[1]})
      BY <2>1 DEF Write, Retire
    <3> QED
      BY <3>1, <3>2, <3>3
  <2>5. NoKeyComesBack'
    <3>1. SUFFICES ASSUME new # <<>> PROVE new[1] \notin retired'
      BY <2>2 DEF NoKeyComesBack
    <3>2. count # 0 /\ 1 \in 1..count
      BY <1>0, <1>1, <3>1
    <3>3. secret = op.read
      BY <1>4, <3>2
    <3>4. CASE secret # <<>>
      <4>1. 1 <= Len(op.read)
        BY <1>0, <3>3, <3>4
      <4>2. new[1] = secret[1]
        BY <1>1, <3>2, <3>3, <4>1
      <4>3. retired' = retired
        BY <2>1, <3>1, <4>2 DEF Write, Retire
      <4> QED
        BY <3>4, <4>2, <4>3 DEF IInv, NoKeyComesBack
    <3>5. CASE secret = <<>>
      <4>1. Len(op.read) = 0
        BY <3>3, <3>5
      <4>2. new[1] = generated + 1
        BY <1>0, <1>1, <3>2, <4>1
      <4>3. retired' = retired
        BY <2>1, <3>5 DEF Write, Retire
      <4> QED
        BY <1>0, <4>2, <4>3 DEF IInv, KeysTyped
    <3> QED
      BY <3>4, <3>5
  <2> QED
    BY <1>1, <1>2, <2>2, <2>3, <2>4, <2>5 DEF IInv, KeysTyped
<1> QED
  BY <1>3, <1>4

\* A rotation puts a key first that was never used.
LEMMA RotateKeeps ==
    ASSUME IInv, NEW j \in Jobs, rotate_session_tickets(j)
    PROVE  IInv'
<1>0. /\ jobs[j].pc # "none"
      /\ jobs' = [jobs EXCEPT ![j].pc = "annotate"] \/ jobs' = [jobs EXCEPT ![j] = NoJob]
      /\ UNCHANGED <<spec, op, cronJob>>
  BY DEF rotate_session_tickets
<1>1. WorkersTyped'
  BY <1>0, JobsTyped DEF IInv, WorkersTyped
<1>2. CASE ~Applies(secret, jobs[j].keys)
  BY <1>1, <1>2, KeysUntouched DEF IInv, rotate_session_tickets
<1>3. CASE Applies(secret, jobs[j].keys)
  <2> DEFINE n == jobs[j].keys
             rot == Rotated(secret, n, generated + 1)
  <2>1. /\ secret' = rot
        /\ generated' = generated + 1
        /\ retired' = retired \cup {secret[1]}
    BY <1>3 DEF rotate_session_tickets
  <2>2. /\ secret \in Seq(Nat) /\ n \in Nat /\ n > 0 /\ generated \in Nat
        /\ \A i \in 1..Len(secret) : secret[i] <= generated
        /\ \A k \in retired : k \in Nat /\ k <= generated
    BY DEF IInv, KeysTyped, WorkersTyped, rotate_session_tickets
  <2>a. generated + 1 \in Nat
    BY <2>2
  <2> HIDE DEF n
  <2>3. /\ rot \in Seq(Nat) /\ Len(rot) > 0 /\ rot[1] = generated + 1
        /\ \A i \in 2..Len(rot) : \E k \in 1..Len(secret) : rot[i] = secret[k]
    <3>1. Applies(secret, n)
      BY <1>3 DEF n
    <3> QED
      BY <2>2, <2>a, <3>1, RotatedKeys
  <2>4. 1 \in 1..Len(secret)
    BY <1>3, <2>2 DEF Applies, n
  <2> HIDE DEF rot
  <2>5. \A i \in 1..Len(rot) : rot[i] <= generated + 1
    <3> TAKE i \in 1..Len(rot)
    <3>1. CASE i = 1
      BY <2>2, <2>3, <3>1
    <3>2. CASE i # 1
      <4>1. PICK k \in 1..Len(secret) : rot[i] = secret[k]
        BY <2>3, <3>2
      <4> QED
        BY <2>2, <4>1
    <3> QED
      BY <3>1, <3>2
  <2>6. \A k \in retired' : k \in Nat /\ k <= generated
    BY <2>1, <2>2, <2>4
  <2>7. KeysTyped'
    BY <2>1, <2>2, <2>3, <2>5, <2>6 DEF KeysTyped
  <2>8. NoKeyComesBack'
    BY <2>1, <2>2, <2>3, <2>6 DEF NoKeyComesBack
  <2> QED
    BY <1>1, <2>7, <2>8 DEF IInv
<1> QED
  BY <1>2, <1>3

\* The other steps of jobs.
LEMMA JobKeeps ==
    ASSUME IInv, NEW j \in Jobs, StartJob(j) \/ update_nginx_pods(j) \/ JobFails(j)
    PROVE  IInv'
<1> USE DEF IInv, WorkersTyped
<1>1. CASE StartJob(j)
  <2>1. WorkersTyped'
    BY <1>1 DEF StartJob
  <2> QED
    BY <1>1, <2>1, KeysUntouched DEF StartJob
<1>2. CASE update_nginx_pods(j)
  <2>1. WorkersTyped'
    BY <1>2 DEF update_nginx_pods, NoJob
  <2> QED
    BY <1>2, <2>1, KeysUntouched DEF update_nginx_pods, history
<1>3. CASE JobFails(j)
  <2>1. \/ jobs' = [jobs EXCEPT ![j].pc = "rotate"]
        \/ jobs' = [jobs EXCEPT ![j] = NoJob]
    BY <1>3 DEF JobFails
  <2>2. WorkersTyped'
    BY <1>3, <2>1, JobsTyped DEF JobFails
  <2> QED
    BY <1>3, <2>2, KeysUntouched DEF JobFails, history
<1> QED
  BY <1>1, <1>2, <1>3

\* The inductive invariant holds of every behaviour of operator and jobs.
THEOREM TicketsInvariant == Spec => []IInv
<1>1. IInv /\ [Next]_vars => IInv'
  <2> SUFFICES ASSUME IInv, [Next]_vars PROVE IInv'
    OBVIOUS
  <2>1. CASE \E new \in KeepLastKeys \cup {None} : Edit(new)
    BY <2>1, EditKeeps
  <2>2. CASE Reconcile \/ ReconcileFails
    BY <2>2, ReconcilerKeeps, ReconcileSecretKeeps DEF Reconcile
  <2>3. CASE \E j \in Jobs : Rotation(j) \/ JobFails(j)
    BY <2>3, RotateKeeps, JobKeeps DEF Rotation
  <2>4. CASE UNCHANGED vars
    BY <2>4 DEF vars, history, IInv, WorkersTyped, KeysTyped, NoKeyComesBack
  <2> QED
    BY <2>1, <2>2, <2>3, <2>4 DEF Next
<1> QED
  BY <1>1, InitIInv, PTL DEF Spec

\* A key of session tickets that was replaced as the one that encrypts never
\* encrypts again: the operator writes the Secret with the version it has read,
\* and the script always puts a new key first.
THEOREM NoKeyComesBackAlways == Spec => []NoKeyComesBack
<1>1. IInv => NoKeyComesBack
  BY DEF IInv
<1> QED
  BY <1>1, TicketsInvariant, PTL

----------------------------------------------------------------------------
(* When all is quiet. *)

Count(s) == IF s = None THEN 0 ELSE tlsSessionTicketKeys(s)

\* If the reconciler was not told of a change since it began, it works with what
\* is there, and what it is done with fits the instance.
UpToDate ==
    ~pending =>
        /\ op.pc # "idle" => op.spec = spec
        /\ nginx = Count(spec)
        /\ op.pc = "secret" => op.read = secret
        /\ op.pc \in {"idle", "cronJob"} => Len(secret) = Count(spec)
        /\ op.pc = "idle" => cronJob = Count(spec)

LEMMA UpToDateStep ==
    ASSUME IInv, UpToDate, [Next]_vars
    PROVE  UpToDate'
<1>1. ASSUME NEW new, Edit(new) PROVE UpToDate'
  BY <1>1 DEF Edit, UpToDate
<1>2. CASE ReconcileNginx
  BY <1>2 DEF ReconcileNginx, UpToDate, Count, IInv, WorkersTyped, history
<1>3. CASE GetSecret
  BY <1>3 DEF GetSecret, UpToDate, IInv, WorkersTyped, history
<1>4. CASE ReconcileSecret
  <2> DEFINE count == Count(op.spec)
             new == newSessionTicketData(op.read, count)
  <2>1. UNCHANGED <<spec, nginx, cronJob>> /\ op.pc = "secret"
    BY <1>4 DEF ReconcileSecret
  <2>2. CASE new = op.read
    <3>1. op' = [op EXCEPT !.pc = "cronJob", !.read = <<>>] /\ UNCHANGED <<secret, pending>>
      BY <1>4, <2>2 DEF ReconcileSecret, Count
    <3>2. op'.pc = "cronJob" /\ op'.spec = op.spec
      BY <3>1 DEF IInv, WorkersTyped
    <3>3. Len(op.read) = count
      <4>1. op.read \in Seq(Nat) /\ generated \in Nat /\ count \in Nat
        BY CountIsNat DEF IInv, WorkersTyped, KeysTyped, Count
      <4> QED
        BY <2>2, <4>1, TicketData
    <3> QED
      BY <2>1, <3>1, <3>2, <3>3 DEF UpToDate
  <2>3. CASE new # op.read
    <3>1. pending'
      BY <1>4, <2>3 DEF ReconcileSecret, Write, Count
    <3> QED
      BY <3>1 DEF UpToDate
  <2> QED
    BY <2>2, <2>3
<1>5. CASE ReconcileCronJob
  <2>1. /\ op.pc = "cronJob" /\ op' = IdleOp /\ cronJob' = Count(op.spec)
        /\ pending' = (pending \/ cronJob' # cronJob)
        /\ UNCHANGED <<spec, nginx, secret>>
    BY <1>5 DEF ReconcileCronJob, Count
  <2>2. op'.pc = "idle"
    BY <2>1 DEF IdleOp
  <2> QED
    BY <2>1, <2>2 DEF UpToDate
<1>6. CASE ReconcileFails
  BY <1>6 DEF ReconcileFails, UpToDate
<1>7. ASSUME NEW j \in Jobs, Rotation(j) \/ JobFails(j) PROVE UpToDate'
  <2>1. UNCHANGED <<spec, nginx, cronJob, op>>
    BY <1>7 DEF Rotation, StartJob, rotate_session_tickets, update_nginx_pods, JobFails
  <2>2. pending' \/ UNCHANGED <<secret, pending>>
    BY <1>7 DEF Rotation, StartJob, rotate_session_tickets, update_nginx_pods, JobFails
  <2> QED
    BY <2>1, <2>2 DEF UpToDate
<1>8. CASE UNCHANGED vars
  BY <1>8 DEF vars, UpToDate
<1> QED
  BY <1>1, <1>2, <1>3, <1>4, <1>5, <1>6, <1>7, <1>8 DEF Next, Reconcile

LEMMA UpToDateAlways == Spec => []UpToDate
<1>1. Init => UpToDate
  BY DEF Init, UpToDate
<1> QED
  BY <1>1, UpToDateStep, TicketsInvariant, PTL DEF Spec

\* When the operator is at rest and no job runs, the Secret has the keys that
\* Nginx loads, and the CronJob rotates that many.
THEOREM QuietIsConsistentAlways == Spec => []QuietIsConsistent
<1>1. UpToDate => QuietIsConsistent
  BY DEF UpToDate, QuietIsConsistent, Quiet, Count
<1> QED
  BY <1>1, UpToDateAlways, PTL

----------------------------------------------------------------------------
(* Replaced keys. *)

\* Since all was quiet, nobody has changed how many keys there are: the jobs
\* and the operator agree on it, whatever they have read.
Steady ==
    /\ chain \in Seq(Nat)
    /\ ~steady => chain = <<>>
    /\ steady =>
          /\ spec # None
          /\ cronJob = Count(spec) /\ Len(secret) = Count(spec)
          /\ op.pc # "idle" => op.spec = spec
          /\ op.pc = "secret" => Len(op.read) = Count(spec)
          /\ \A j \in Jobs : jobs[j].pc # "none" => jobs[j].keys = Count(spec)

SteadyInv == Steady /\ ReplacedKeysAccepted

LEMMA TicketDataSame ==
    ASSUME generated \in Nat, NEW old \in Seq(Nat)
    PROVE  newSessionTicketData(old, Len(old)) = old
<1> DEFINE new == newSessionTicketData(old, Len(old))
<1>0. Len(old) \in Nat
  OBVIOUS
<1>1. /\ new \in Seq(Nat) /\ Len(new) = Len(old)
      /\ \A i \in 1..Len(old) : new[i] =
            IF i <= Len(old) THEN old[i] ELSE generated + (i - Len(old))
  BY <1>0, TicketData
<1> HIDE DEF new
<1>2. new = old
  BY <1>1
<1> QED
  BY <1>2 DEF new

\* The steps that touch neither the Secret nor the history.
LEMMA SteadyCalm ==
    ASSUME SteadyInv, UNCHANGED <<spec, secret, cronJob, steady, chain>>,
           steady => /\ op'.pc # "idle" => op'.spec = spec
                     /\ op'.pc = "secret" => Len(op'.read) = Count(spec)
                     /\ \A j \in Jobs : jobs'[j].pc # "none" => jobs'[j].keys = Count(spec)
    PROVE  SteadyInv'
BY DEF SteadyInv, Steady, ReplacedKeysAccepted

LEMMA SteadyReconcile ==
    ASSUME IInv, SteadyInv, Reconcile \/ ReconcileFails
    PROVE  SteadyInv'
<1>0. UNCHANGED <<spec, jobs, steady, chain>>
  BY DEF Reconcile, ReconcileFails, ReconcileNginx, GetSecret, ReconcileSecret,
         ReconcileCronJob, history
<1>1. CASE ReconcileNginx
  <2>1. op'.pc = "get" /\ op'.spec = spec /\ UNCHANGED <<secret, cronJob>>
    BY <1>1 DEF ReconcileNginx, IInv, WorkersTyped
  <2> QED
    BY <1>0, <2>1, SteadyCalm DEF SteadyInv, Steady
<1>2. CASE GetSecret
  <2>1. /\ op.pc = "get" /\ op'.pc = "secret" /\ op'.spec = op.spec /\ op'.read = secret
        /\ UNCHANGED <<secret, cronJob>>
    BY <1>2 DEF GetSecret, IInv, WorkersTyped
  <2> QED
    BY <1>0, <2>1, SteadyCalm DEF SteadyInv, Steady
<1>3. CASE ReconcileSecret
  <2>1. op.pc = "secret" /\ UNCHANGED cronJob
    BY <1>3 DEF ReconcileSecret
  <2>2. CASE ~steady
    BY <1>0, <2>1, <2>2 DEF SteadyInv, Steady, ReplacedKeysAccepted
  <2>3. CASE steady
    <3>1. /\ op.spec = spec /\ Len(op.read) = Count(spec)
          /\ op.read \in Seq(Nat) /\ generated \in Nat
      BY <2>1, <2>3 DEF SteadyInv, Steady, IInv, WorkersTyped, KeysTyped
    <3>2. newSessionTicketData(op.read, Count(op.spec)) = op.read
      BY <3>1, TicketDataSame
    <3>3. op' = [op EXCEPT !.pc = "cronJob", !.read = <<>>] /\ UNCHANGED secret
      BY <1>3, <3>2 DEF ReconcileSecret, Count
    <3>4. op'.pc = "cronJob" /\ op'.spec = spec
      BY <3>1, <3>3 DEF IInv, WorkersTyped
    <3> QED
      BY <1>0, <2>1, <3>3, <3>4, SteadyCalm DEF SteadyInv, Steady
  <2> QED
    BY <2>2, <2>3
<1>4. CASE ReconcileCronJob
  <2>1. /\ op.pc = "cronJob" /\ op' = IdleOp /\ cronJob' = Count(op.spec)
        /\ UNCHANGED secret
    BY <1>4 DEF ReconcileCronJob, Count
  <2>2. op'.pc = "idle"
    BY <2>1 DEF IdleOp
  <2> QED
    BY <1>0, <2>1, <2>2 DEF SteadyInv, Steady, ReplacedKeysAccepted
<1>5. CASE ReconcileFails
  <2>1. op' = IdleOp /\ UNCHANGED <<secret, cronJob>>
    BY <1>5 DEF ReconcileFails
  <2>2. op'.pc = "idle"
    BY <2>1 DEF IdleOp
  <2> QED
    BY <1>0, <2>1, <2>2, SteadyCalm DEF SteadyInv, Steady
<1> QED
  BY <1>1, <1>2, <1>3, <1>4, <1>5 DEF Reconcile

\* A job is started with the number of keys of the CronJob; if all was quiet,
\* that is the number of keys that there are.
LEMMA SteadyStart ==
    ASSUME IInv, UpToDate, SteadyInv, NEW j \in Jobs, StartJob(j)
    PROVE  SteadyInv'
<1>1. /\ cronJob # 0 /\ jobs' = [jobs EXCEPT ![j] = [pc |-> "rotate", keys |-> cronJob]]
      /\ steady' = (steady \/ Quiet)
      /\ UNCHANGED <<spec, secret, cronJob, op, chain>>
  BY DEF StartJob
<1>2. jobs'[j].keys = cronJob /\ \A i \in Jobs : i # j => jobs'[i] = jobs[i]
  BY <1>1 DEF IInv, WorkersTyped
<1>3. CASE ~steady'
  BY <1>1, <1>3 DEF SteadyInv, Steady, ReplacedKeysAccepted
<1>4. CASE steady
  <2>1. steady'
    BY <1>1, <1>4
  <2>2. Steady'
    BY <1>1, <1>2, <1>4, <2>1 DEF SteadyInv, Steady
  <2>3. ReplacedKeysAccepted'
    BY <1>1, <1>4 DEF SteadyInv, ReplacedKeysAccepted
  <2> QED
    BY <2>2, <2>3 DEF SteadyInv
<1>5. CASE ~steady /\ Quiet
  <2>1. op.pc = "idle" /\ Len(secret) = Count(spec) /\ cronJob = Count(spec) /\ spec # None
    BY <1>1, <1>5 DEF UpToDate, Quiet, Count
  <2>2. \A i \in Jobs : i # j => jobs'[i].pc = "none"
    BY <1>2, <1>5 DEF Quiet, NoJob
  <2>3. chain = <<>>
    BY <1>5 DEF SteadyInv, Steady
  <2>4. Steady'
    BY <1>1, <1>2, <1>5, <2>1, <2>2, <2>3 DEF Steady
  <2>5. ReplacedKeysAccepted'
    BY <1>1, <2>3 DEF ReplacedKeysAccepted
  <2> QED
    BY <2>4, <2>5 DEF SteadyInv
<1> QED
  BY <1>1, <1>3, <1>4, <1>5

\* A rotation of all the keys moves each one up by one place.
LEMMA SteadyRotate ==
    ASSUME IInv, SteadyInv, NEW j \in Jobs, rotate_session_tickets(j)
    PROVE  SteadyInv'
<1> DEFINE n == jobs[j].keys
<1>1. /\ jobs[j].pc = "rotate" /\ UNCHANGED <<spec, cronJob, op, steady>>
      /\ secret \in Seq(Nat) /\ generated \in Nat /\ n \in Nat /\ n > 0
  BY DEF rotate_session_tickets, IInv, WorkersTyped, KeysTyped
<1>2. \A i \in Jobs : jobs'[i].pc # "none" => jobs[i].pc # "none" /\ jobs'[i].keys = jobs[i].keys
  <2>1. jobs'[j] = [jobs[j] EXCEPT !.pc = "annotate"] \/ jobs'[j] = NoJob
    BY DEF rotate_session_tickets, IInv, WorkersTyped
  <2>2. \A i \in Jobs : i # j => jobs'[i] = jobs[i]
    BY DEF rotate_session_tickets, IInv, WorkersTyped
  <2>3. jobs'[j].keys = jobs[j].keys \/ jobs'[j].pc = "none"
    BY <2>1 DEF IInv, WorkersTyped, NoJob
  <2> QED
    BY <1>1, <2>2, <2>3
<1>3. CASE ~Applies(secret, n)
  <2>1. UNCHANGED <<secret, chain>>
    BY <1>3 DEF rotate_session_tickets
  <2> QED
    BY <1>1, <1>2, <2>1, SteadyCalm DEF SteadyInv, Steady
<1>4. CASE Applies(secret, n) /\ ~steady
  <2>1. chain' = <<>>
    BY <1>4 DEF rotate_session_tickets
  <2> QED
    BY <1>1, <1>4, <2>1 DEF SteadyInv, Steady, ReplacedKeysAccepted
<1>5. CASE Applies(secret, n) /\ steady
  <2>1. secret' = Rotated(secret, n, generated + 1) /\ chain' = <<secret[1]>> \o chain
    BY <1>5 DEF rotate_session_tickets
  <2>2. spec # None /\ n = Count(spec) /\ Len(secret) = n /\ chain \in Seq(Nat)
    BY <1>1, <1>5 DEF SteadyInv, Steady
  <2>3. spec \in Nat /\ n = spec + 1
    BY <2>2, TicketsAssumption DEF IInv, WorkersTyped, Count, tlsSessionTicketKeys
  <2> HIDE DEF n
  <2>4. secret' = [i \in 1..n |-> IF i = 1 THEN generated + 1
                                  ELSE IF i <= n THEN secret[i - 1] ELSE secret[i]]
    BY <1>1, <2>1, <2>2 DEF Rotated
  <2>5. \A i \in 1..n : secret'[i] = IF i = 1 THEN generated + 1 ELSE secret[i - 1]
    BY <1>1, <2>4
  <2>6. Len(secret') = n
    <3>1. secret' \in [1..n -> Nat]
      BY <1>1, <2>2, <2>4
    <3> QED
      BY <1>1, <3>1
  <2>7. /\ secret[1] \in Nat /\ chain' \in Seq(Nat) /\ Len(chain') = Len(chain) + 1
        /\ chain'[1] = secret[1]
        /\ \A i \in 1..Len(chain) : chain'[i + 1] = chain[i]
    <3>1. secret[1] \in Nat
      BY <1>1, <2>2
    <3> QED
      BY <2>1, <2>2, <3>1
  <2>8. Steady'
    BY <1>1, <1>2, <1>5, <2>2, <2>6, <2>7 DEF SteadyInv, Steady
  <2>9. ASSUME NEW i \in DOMAIN chain', i <= spec
        PROVE  secret'[i + 1] = chain'[i]
    <3>1. i \in Nat /\ i >= 1 /\ i <= Len(chain) + 1 /\ Len(chain) \in Nat
      BY <2>2, <2>7
    <3>2. i + 1 \in 1..n /\ i + 1 # 1 /\ (i + 1) - 1 = i
      BY <2>3, <2>9, <3>1
    <3>3. secret'[i + 1] = secret[i]
      BY <2>5, <3>2
    <3>4. CASE i = 1
      BY <2>7, <3>3, <3>4
    <3>5. CASE i # 1
      <4>1. i - 1 \in 1..Len(chain) /\ (i - 1) + 1 = i /\ i - 1 <= spec /\ i - 1 \in DOMAIN chain
        BY <2>2, <2>3, <2>9, <3>1, <3>5
      <4>2. secret[(i - 1) + 1] = chain[i - 1]
        BY <1>5, <2>2, <4>1 DEF SteadyInv, ReplacedKeysAccepted
      <4>3. chain'[(i - 1) + 1] = chain[i - 1]
        BY <2>7, <4>1
      <4> QED
        BY <3>3, <4>1, <4>2, <4>3
    <3> QED
      BY <3>4, <3>5
  <2>10. ReplacedKeysAccepted'
    BY <1>1, <2>9 DEF ReplacedKeysAccepted
  <2> QED
    BY <2>8, <2>10 DEF SteadyInv
<1> QED
  BY <1>3, <1>4, <1>5

LEMMA SteadyJob ==
    ASSUME IInv, SteadyInv, NEW j \in Jobs, update_nginx_pods(j) \/ JobFails(j)
    PROVE  SteadyInv'
<1>1. jobs[j].pc # "none" /\ UNCHANGED <<spec, secret, cronJob, op, steady, chain>>
  BY DEF update_nginx_pods, JobFails, history
<1>2. jobs' = [jobs EXCEPT ![j].pc = "rotate"] \/ jobs' = [jobs EXCEPT ![j] = NoJob]
  BY DEF update_nginx_pods, JobFails
<1>3. \A i \in Jobs : jobs'[i].pc # "none" => jobs[i].pc # "none" /\ jobs'[i].keys = jobs[i].keys
  <2>1. jobs'[j] = [jobs[j] EXCEPT !.pc = "rotate"] \/ jobs'[j] = NoJob
    BY <1>2 DEF IInv, WorkersTyped
  <2>2. \A i \in Jobs : i # j => jobs'[i] = jobs[i]
    BY <1>2 DEF IInv, WorkersTyped
  <2>3. jobs'[j].keys = jobs[j].keys \/ jobs'[j].pc = "none"
    BY <2>1 DEF IInv, WorkersTyped, NoJob
  <2> QED
    BY <1>1, <2>2, <2>3
<1> QED
  BY <1>1, <1>3, SteadyCalm DEF SteadyInv, Steady

\* A key that was replaced is accepted for as many rotations as the instance
\* asks for, as long as it is not edited: the jobs rotate as many keys as there
\* are, also when they overlap or run twice, and the operator leaves them alone.
THEOREM ReplacedKeysAcceptedAlways == Spec => []ReplacedKeysAccepted
<1>1. Init => SteadyInv
  BY DEF Init, SteadyInv, Steady, ReplacedKeysAccepted
<1>2. IInv /\ UpToDate /\ SteadyInv /\ [Next]_vars => SteadyInv'
  <2> SUFFICES ASSUME IInv, UpToDate, SteadyInv, [Next]_vars PROVE SteadyInv'
    OBVIOUS
  <2>1. ASSUME NEW new, Edit(new) PROVE SteadyInv'
    BY <2>1 DEF Edit, SteadyInv, Steady, ReplacedKeysAccepted
  <2>2. CASE Reconcile \/ ReconcileFails
    BY <2>2, SteadyReconcile
  <2>3. ASSUME NEW j \in Jobs, Rotation(j) \/ JobFails(j) PROVE SteadyInv'
    BY <2>3, SteadyStart, SteadyRotate, SteadyJob DEF Rotation
  <2>4. CASE UNCHANGED vars
    BY <2>4, SteadyCalm DEF vars, history, SteadyInv, Steady
  <2> QED
    BY <2>1, <2>2, <2>3, <2>4 DEF Next
<1>3. SteadyInv => ReplacedKeysAccepted
  BY DEF SteadyInv
<1> QED
  BY <1>1, <1>2, <1>3, TicketsInvariant, UpToDateAlways, PTL DEF Spec
=============================================================================
