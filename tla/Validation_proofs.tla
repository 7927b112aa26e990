-------------------------- MODULE Validation_proofs --------------------------
(***************************************************************************)
(* Type correctness of Validation, the two promises that the verdicts of   *)
(* an RpaasValidation keep, and their soundness while clients take turns,  *)
(* for any number of requests, blocks and failures.                        *)
(***************************************************************************)
EXTENDS Validation, TLAPS

----------------------------------------------------------------------------
(* Type correctness. *)

\* The value of an absent object, or of a request that is not there, is none
\* of a present one.
LEMMA NoneIsNoObject ==
    /\ None \notin RpaasValidation
    /\ None \notin Config
    /\ None \notin Pod
    /\ None \notin Job
    /\ Idle \notin Request
BY DEF None, Idle, RpaasValidation, Config, Pod, Job, Request

\* An edit of a spec is a spec, and both copies of the spec have the same blocks.
LEMMA EditType ==
    ASSUME NEW edit \in Edit, NEW s \in Specs, NEW n \in 0..MaxEdits
    PROVE  /\ Mutate(edit, n, s) \in Specs
           /\ Apply(edit, n, s) \in Specs
<1>1. \A t \in BOOLEAN : NewPart(edit.block, n, t) \in Part
  BY DEF NewPart, Edit, Part
<1> QED
  BY <1>1 DEF Mutate, Apply, Specs, Of

LEMMA EditBlocks ==
    ASSUME NEW edit \in Edit, NEW s \in Specs, NEW n \in 0..MaxEdits
    PROVE  BlocksIn(Mutate(edit, n, s)) = BlocksIn(Apply(edit, n, s))
<1>1. \A t \in BOOLEAN : NewPart(edit.block, n, t).block = edit.block
  BY DEF NewPart
<1>2. Of(edit.block, s) = {p \in s : p.block = edit.block}
  BY DEF Of
<1>3. CASE ~edit.add
  BY <1>3 DEF Mutate, Apply
<1>4. CASE edit.add /\ edit.block \in BlocksIn(s)
  <2>1. Mutate(edit, n, s) = (s \ Of(edit.block, s)) \cup {NewPart(edit.block, n, TRUE)}
        /\ Apply(edit, n, s) = s
    BY <1>4 DEF Mutate, Apply
  <2> QED
    BY <1>1, <1>2, <1>4, <2>1 DEF BlocksIn
<1>5. CASE edit.add /\ edit.block \notin BlocksIn(s)
  <2>1. Mutate(edit, n, s) = (s \ Of(edit.block, s)) \cup {NewPart(edit.block, n, TRUE)}
        /\ Apply(edit, n, s) = s \cup {NewPart(edit.block, n, FALSE)}
    BY <1>5 DEF Mutate, Apply
  <2>2. Of(edit.block, s) = {}
    BY <1>2, <1>5 DEF BlocksIn
  <2> QED
    BY <1>1, <2>1, <2>2 DEF BlocksIn
<1> QED
  BY <1>3, <1>4, <1>5

\* What a request becomes when it moves on, or when the RpaasValidation
\* changes under it, is a request.
LEMMA RequestSteps ==
    ASSUME NEW q \in Request
    PROVE  /\ \A s \in {"get", "create", "update", "wait", "apply", "cleanup"} :
                 /\ [q EXCEPT !.stage = s] \in Request
                 /\ [q EXCEPT !.stage = s, !.fresh = TRUE] \in Request
                 /\ [q EXCEPT !.stage = s, !.fresh = FALSE] \in Request
           /\ [q EXCEPT !.fresh = FALSE] \in Request
BY DEF Request

LEMMA MoveToType ==
    ASSUME TypeOK, NEW r \in Requests, request[r] # Idle,
           NEW stage \in {"get", "create", "update", "wait", "apply", "end"},
           MoveTo(r, stage)
    PROVE  request' \in [Requests -> Request \cup {Idle}]
<1>1. request \in [Requests -> Request \cup {Idle}] /\ request[r] \in Request
  BY DEF TypeOK
<1>2. CASE stage = "end"
  <2>1. [request[r] EXCEPT !.stage = "cleanup"] \in Request
    BY <1>1, RequestSteps
  <2> QED BY <1>1, <1>2, <2>1 DEF MoveTo
<1>3. CASE stage # "end"
  <2>1. [request[r] EXCEPT !.stage = stage] \in Request
    BY <1>1, <1>3, RequestSteps
  <2> QED BY <1>1, <1>3, <2>1 DEF MoveTo
<1> QED BY <1>2, <1>3

LEMMA AnswerType ==
    ASSUME TypeOK, NEW r \in Requests, request[r] # Idle, Answer(r)
    PROVE  request' \in [Requests -> Request \cup {Idle}]
<1>1. CASE validation.verdict = "valid"
  BY <1>1, MoveToType DEF Answer
<1>2. CASE validation.verdict # "valid"
  BY <1>2, MoveToType DEF Answer
<1> QED BY <1>1, <1>2

LEMMA OutdatedType ==
    ASSUME TypeOK
    PROVE  /\ Outdated \in [Requests -> Request \cup {Idle}]
           /\ JobOutdated \in Job \cup {None}
           /\ JobOutdated = None <=> job = None
<1>1. ASSUME NEW r \in Requests
      PROVE  (IF request[r] = Idle THEN Idle
              ELSE [request[r] EXCEPT !.fresh = FALSE]) \in Request \cup {Idle}
  <2>1. request[r] \in Request \cup {Idle}
    BY DEF TypeOK
  <2> QED BY <2>1, RequestSteps
<1>2. job \in Job => [job EXCEPT !.fresh = FALSE] \in Job
  BY DEF Job
<1>3. job \in Job \cup {None}
  BY DEF TypeOK
<1> QED BY <1>1, <1>2, <1>3, NoneIsNoObject DEF Outdated, JobOutdated

\* A new, or an updated, RpaasValidation is one.
LEMMA ValidationSteps ==
    ASSUME NEW v \in RpaasValidation, NEW s \in Specs, NEW b \in Verdicts
    PROVE  /\ [spec |-> s, current |-> FALSE, verdict |-> "unknown",
               revision |-> {}] \in RpaasValidation
           /\ [v EXCEPT !.spec = s, !.current = FALSE] \in RpaasValidation
           /\ [v EXCEPT !.current = TRUE, !.revision = {s}, !.verdict = b]
                 \in RpaasValidation
BY DEF RpaasValidation, Verdicts

\* The facts about the requests and the job that the types do not give.
Reads ==
    /\ \A r \in Requests :
          /\ request[r] # Idle
          /\ request[r].stage = "update"
          /\ request[r].fresh
          => validation # None
    /\ "validation" \notin stale => seen["validation"] = validation
    /\ pc \in {"config", "finish"} /\ job.fresh =>
          /\ validation # None
          /\ validation.spec = job.spec
          /\ ~Judged(validation)

\* Every step of a request keeps the types.
LEMMA APIType ==
    ASSUME TypeOK, Reads, NEW r \in Requests, API(r)
    PROVE  TypeOK'
<1> USE DEF apiVars, objectVars, bounds, workerVars
<1>a. request \in [Requests -> Request \cup {Idle}]
  BY DEF TypeOK
<1>b. request[r] # Idle => /\ request[r] \in Request
                           /\ request[r].want \in Specs
                           /\ request[r].edit \in Edit
                           /\ request[r].number \in 0..MaxEdits
  BY <1>a DEF Request
<1>c. stale \cup {"validation"} \in SUBSET Kinds
  BY DEF TypeOK, Kinds
<1>1. CASE BeginRequest(r)
  <2>1. PICK edit \in Edit :
           /\ request' = [request EXCEPT
                            ![r] = [stage |-> "get", edit |-> edit,
                                    number |-> NumberOf(edit),
                                    want |-> Mutate(edit, NumberOf(edit), spec),
                                    fresh |-> FALSE]]
           /\ temporaries' = temporaries \cup ({NumberOf(edit)} \ {0})
    BY <1>1 DEF BeginRequest
  <2>0. NumberOf(edit) \in 0..MaxEdits /\ {NumberOf(edit)} \ {0} \subseteq 1..MaxEdits
    BY <1>1, ConstantsAssumption DEF BeginRequest, NumberOf, TypeOK
  <2>2. [stage |-> "get", edit |-> edit, number |-> NumberOf(edit),
         want |-> Mutate(edit, NumberOf(edit), spec), fresh |-> FALSE] \in Request
    BY <2>0, EditType DEF Request, TypeOK
  <2>3. request' \in [Requests -> Request \cup {Idle}]
    BY <1>a, <2>1, <2>2
  <2>4. edits' \in 0..MaxEdits
    BY <1>1, ConstantsAssumption DEF BeginRequest, TypeOK
  <2>5. calm' \in BOOLEAN
    BY <1>1 DEF BeginRequest
  <2>6. temporaries' \in SUBSET (1..MaxEdits)
    BY <2>0, <2>1 DEF TypeOK
  <2> QED BY <1>1, <2>3, <2>4, <2>5, <2>6 DEF BeginRequest, TypeOK
<1>2. CASE GetValidation(r)
  <2>1. request' \in [Requests -> Request \cup {Idle}]
    <3>1. CASE MoveTo(r, "create")
      BY <1>2, <3>1, MoveToType DEF GetValidation
    <3>2. CASE Answer(r)
      BY <1>2, <3>2, AnswerType DEF GetValidation
    <3>3. CASE request' = [request EXCEPT
                              ![r] = [request[r] EXCEPT !.stage = "update",
                                                        !.fresh = TRUE]]
      <4>1. [request[r] EXCEPT !.stage = "update", !.fresh = TRUE] \in Request
        BY <1>2, <1>b, RequestSteps DEF GetValidation
      <4> QED BY <1>a, <3>3, <4>1
    <3> QED BY <1>2, <3>1, <3>2, <3>3 DEF GetValidation
  <2> QED BY <1>2, <2>1 DEF GetValidation, TypeOK
<1>3. CASE CreateValidation(r)
  <2>1. request' \in [Requests -> Request \cup {Idle}]
    BY <1>3, MoveToType DEF CreateValidation
  <2>2. validation' \in RpaasValidation \cup {None}
    <3>1. [spec |-> request[r].want, current |-> FALSE, verdict |-> "unknown",
           revision |-> {}] \in RpaasValidation
      BY <1>3, <1>b DEF CreateValidation, RpaasValidation, Verdicts
    <3> QED BY <1>3, <3>1 DEF CreateValidation, TypeOK
  <2>3. stale' \in SUBSET Kinds
    BY <1>3, <1>c DEF CreateValidation, Stale, TypeOK
  <2> QED BY <1>3, <2>1, <2>2, <2>3 DEF CreateValidation, TypeOK
<1>4. CASE UpdateValidation(r)
  <2>0. request[r] # Idle /\ request[r].stage = "update"
    BY <1>4 DEF UpdateValidation
  <2>1. CASE /\ request[r].fresh
             /\ validation.spec # request[r].want
             /\ validation' = [validation EXCEPT !.spec = request[r].want,
                                                 !.current = FALSE]
             /\ Stale("validation")
             /\ request' = [Outdated EXCEPT
                               ![r] = [request[r] EXCEPT !.stage = "wait",
                                                         !.fresh = FALSE]]
             /\ job' = JobOutdated
    <3>1. validation \in RpaasValidation
      BY <2>0, <2>1 DEF Reads, TypeOK
    <3>2. validation' \in RpaasValidation
      BY <1>b, <2>0, <2>1, <3>1, ValidationSteps DEF Verdicts
    <3>3. [request[r] EXCEPT !.stage = "wait", !.fresh = FALSE] \in Request
      BY <1>b, <2>0, RequestSteps
    <3>4. request' \in [Requests -> Request \cup {Idle}]
      BY <2>1, <3>3, OutdatedType
    <3>5. job' \in Job \cup {None} /\ (job' = None <=> job = None)
      BY <2>1, OutdatedType
    <3> QED
      BY <1>4, <1>c, <2>1, <3>2, <3>4, <3>5
      DEF UpdateValidation, Stale, TypeOK
  <2>2. CASE /\ MoveTo(r, "wait") \/ MoveTo(r, "end")
             /\ UNCHANGED <<validation, stale, job>>
    <3>1. request' \in [Requests -> Request \cup {Idle}]
      BY <2>0, <2>2, MoveToType
    <3> QED BY <1>4, <2>2, <3>1 DEF UpdateValidation, TypeOK
  <2> QED BY <1>4, <2>1, <2>2 DEF UpdateValidation
<1>5. CASE Poll(r)
  <2>1. request' \in [Requests -> Request \cup {Idle}]
    BY <1>5, AnswerType DEF Poll
  <2> QED BY <1>5, <2>1 DEF Poll, TypeOK
<1>6. CASE Timeout(r)
  <2>1. request' \in [Requests -> Request \cup {Idle}]
    BY <1>6, MoveToType DEF Timeout
  <2> QED BY <1>6, <2>1 DEF Timeout, Disturbed, TypeOK
<1>7. CASE ApplyEdit(r)
  <2>1. request' \in [Requests -> Request \cup {Idle}]
    BY <1>7, MoveToType DEF ApplyEdit
  <2>2. spec' \in Specs
    BY <1>7, <1>b, EditType DEF ApplyEdit, TypeOK
  <2> QED BY <1>7, <2>1, <2>2 DEF ApplyEdit, TypeOK
<1>8. CASE CleanUp(r)
  <2>1. request' \in [Requests -> Request \cup {Idle}]
    BY <1>8, <1>a DEF CleanUp
  <2>2. temporaries' \in SUBSET (1..MaxEdits)
    BY <1>8 DEF CleanUp, TypeOK
  <2>3. failures' \in 0..MaxFailures
    BY <1>8, ConstantsAssumption DEF CleanUp, TypeOK
  <2> QED BY <1>8, <2>1, <2>2, <2>3 DEF CleanUp, TypeOK
<1> QED BY <1>1, <1>2, <1>3, <1>4, <1>5, <1>6, <1>7, <1>8 DEF API

\* What End, Stale, NewPod and a deletion of the pod leave has its type.
LEMMA StepTypes ==
    ASSUME TypeOK
    PROVE  /\ \A again \in BOOLEAN :
                 End(again) => /\ queued' \in BOOLEAN
                               /\ job' \in Job \cup {None}
                               /\ job' = None
                               /\ pc' = "idle"
           /\ \A kind \in Kinds : Stale(kind) => stale' \in SUBSET Kinds
           /\ pc # "idle" => NewPod \in Pod /\ job \in Job
           /\ DeletePodNow => /\ pod' \in Pod \cup {None}
                              /\ stale' \in SUBSET Kinds
<1>1. ASSUME NEW again \in BOOLEAN, End(again)
      PROVE  queued' \in BOOLEAN
  BY <1>1, Zenon DEF End, TypeOK
<1>2. ASSUME NEW again \in BOOLEAN, End(again)
      PROVE  job' \in Job \cup {None} /\ job' = None /\ pc' = "idle"
  BY <1>2 DEF End
<1>3. ASSUME NEW kind \in Kinds, Stale(kind)
      PROVE  stale' \in SUBSET Kinds
  BY <1>3 DEF Stale, TypeOK
<1>4. ASSUME pc # "idle"
      PROVE  NewPod \in Pod /\ job \in Job
  <2>1. job \in Job
    BY <1>4 DEF TypeOK
  <2> QED BY <2>1 DEF NewPod, Pod, Job
<1>5. ASSUME DeletePodNow
      PROVE  pod' \in Pod \cup {None} /\ stale' \in SUBSET Kinds
  <2>1. pod \in Pod
    BY <1>5 DEF DeletePodNow, TypeOK
  <2>2. [pod EXCEPT !.terminating = TRUE] \in Pod
    BY <2>1 DEF Pod
  <2>3. pod' \in Pod \cup {None}
    BY <1>5, <2>2 DEF DeletePodNow
  <2>4. stale' \in SUBSET Kinds
    BY <1>5 DEF DeletePodNow, Stale, TypeOK, Kinds
  <2> QED BY <2>3, <2>4
<1> QED BY <1>1, <1>2, <1>3, <1>4, <1>5

\* Every step of the worker keeps the types.
LEMMA ReconcileType ==
    ASSUME TypeOK, Reads, Reconcile
    PROVE  TypeOK'
<1> USE DEF apiVars, objectVars, bounds
<1>a. {TRUE, FALSE} = BOOLEAN /\ Kinds = {"validation", "config", "pod"}
  BY DEF Kinds
<1>1. CASE StartReconcile
  <2>1. CASE /\ seen["validation"] # None
             /\ job' = [spec |-> seen["validation"].spec,
                        fresh |-> "validation" \notin stale]
             /\ pc' = "config"
    <3>1. seen["validation"].spec \in Specs
      BY <2>1 DEF TypeOK, RpaasValidation
    <3>2. job' \in Job
      BY <2>1, <3>1 DEF Job
    <3> QED
      BY <1>1, <2>1, <3>2, NoneIsNoObject DEF StartReconcile, TypeOK
  <2>2. CASE UNCHANGED <<pc, job>>
    BY <1>1, <2>2 DEF StartReconcile, TypeOK
  <2> QED BY <1>1, <2>1, <2>2 DEF StartReconcile
<1>2. CASE ReconcileConfigMap
  <2>1. job \in Job /\ job.spec \in Specs
    BY <1>2 DEF ReconcileConfigMap, TypeOK, Job
  <2>2. config' \in Config \cup {None}
    <3>1. [content |-> job.spec] \in Config
      BY <2>1 DEF Config
    <3> QED BY <1>2, <3>1 DEF ReconcileConfigMap, TypeOK
  <2>3. stale' \in SUBSET Kinds
    BY <1>2, <1>a, StepTypes DEF ReconcileConfigMap, TypeOK
  <2>4. calm' \in BOOLEAN
    BY <1>2, Zenon DEF ReconcileConfigMap, TypeOK
  <2>5. CASE pc' = "finish" /\ UNCHANGED <<job, queued>>
    BY <1>2, <2>1, <2>2, <2>3, <2>4, <2>5, NoneIsNoObject
    DEF ReconcileConfigMap, TypeOK
  <2>6. CASE End(TRUE)
    BY <1>2, <2>2, <2>3, <2>4, <2>6, StepTypes
    DEF ReconcileConfigMap, TypeOK
  <2> QED BY <1>2, <2>5, <2>6 DEF ReconcileConfigMap
<1>3. CASE FinishValidation
  <2>0. pc = "finish" /\ job \in Job
    BY <1>3 DEF FinishValidation, TypeOK
  <2>1. CASE /\ job.fresh
             /\ validation' =
                   [validation EXCEPT
                       !.current = TRUE, !.revision = {job.spec},
                       !.verdict = IF seen["pod"].phase = "succeeded"
                                   THEN "valid" ELSE "invalid"]
             /\ Stale("validation")
             /\ request' = Outdated
             /\ pc' = "delete"
             /\ UNCHANGED <<job, queued>>
    <3>1. validation \in RpaasValidation /\ job.spec \in Specs
      BY <2>0, <2>1 DEF Reads, TypeOK, Job
    <3>2. (IF seen["pod"].phase = "succeeded" THEN "valid" ELSE "invalid")
             \in Verdicts
      BY DEF Verdicts
    <3>3. validation' \in RpaasValidation
      BY <2>1, <3>1, <3>2, ValidationSteps
    <3>4. request' \in [Requests -> Request \cup {Idle}]
      BY <2>1, OutdatedType
    <3>5. stale' \in SUBSET Kinds
      BY <1>a, <2>1, StepTypes
    <3> QED
      BY <1>3, <2>0, <2>1, <3>3, <3>4, <3>5, NoneIsNoObject
      DEF FinishValidation, TypeOK
  <2>2. CASE End(TRUE) /\ UNCHANGED <<validation, stale, request>>
    BY <1>3, <2>2, StepTypes DEF FinishValidation, TypeOK
  <2>3. CASE pc' = "pod" /\ UNCHANGED <<validation, stale, request, job, queued>>
    BY <1>3, <2>0, <2>3, NoneIsNoObject DEF FinishValidation, TypeOK
  <2> QED BY <1>3, <2>1, <2>2, <2>3 DEF FinishValidation
<1>4. CASE DeletePod
  <2>1. /\ pod' \in Pod \cup {None}
        /\ stale' \in SUBSET Kinds
        /\ queued' \in BOOLEAN
        /\ job' \in Job \cup {None}
        /\ job' = None
        /\ pc' = "idle"
    BY <1>4, <1>a, StepTypes DEF DeletePod, TypeOK
  <2> QED BY <1>4, <2>1 DEF DeletePod, TypeOK
<1>5. CASE ReconcilePod
  <2>0. pc = "pod" /\ job \in Job /\ NewPod \in Pod
    BY <1>5, StepTypes DEF ReconcilePod
  <2>1. pod' \in Pod \cup {None} /\ stale' \in SUBSET Kinds
    BY <1>5, <1>a, <2>0, StepTypes DEF ReconcilePod, TypeOK
  <2>2. CASE End(TRUE) \/ End(FALSE)
    BY <1>5, <1>a, <2>1, <2>2, StepTypes DEF ReconcilePod, TypeOK
  <2>3. CASE pc' = "recreate" /\ UNCHANGED <<job, queued>>
    BY <1>5, <2>0, <2>1, <2>3, NoneIsNoObject DEF ReconcilePod, TypeOK
  <2> QED BY <1>5, <2>2, <2>3 DEF ReconcilePod
<1>6. CASE RecreatePod
  <2>0. pc = "recreate" /\ job \in Job /\ NewPod \in Pod
    BY <1>6, StepTypes DEF RecreatePod
  <2>1. pod' \in Pod \cup {None} /\ stale' \in SUBSET Kinds
    BY <1>6, <1>a, <2>0, StepTypes DEF RecreatePod, TypeOK
  <2>2. End(TRUE) \/ End(FALSE)
    BY <1>6 DEF RecreatePod
  <2> QED BY <1>6, <1>a, <2>1, <2>2, StepTypes DEF RecreatePod, TypeOK
<1> QED BY <1>1, <1>2, <1>3, <1>4, <1>5, <1>6 DEF Reconcile

\* So do the caches, failures and the kubelet.
LEMMA EnvironmentType ==
    ASSUME TypeOK,
           \/ \E kind \in Kinds : SyncCache(kind)
           \/ Resync \/ CallFails \/ Crash \/ PodRuns \/ PodLost \/ PodGone
    PROVE  TypeOK'
<1> USE DEF apiVars, objectVars, bounds, workerVars
<1>a. Kinds = {"validation", "config", "pod"}
  BY DEF Kinds
<1>1. ASSUME NEW kind \in Kinds, SyncCache(kind)
      PROVE  TypeOK'
  <2>1. queued' \in BOOLEAN
    BY <1>1, Zenon DEF SyncCache
  <2>2. stale' \in SUBSET Kinds
    BY <1>1 DEF SyncCache, TypeOK
  <2>3. /\ seen' \in [Kinds -> RpaasValidation \cup Config \cup Pod \cup {None}]
        /\ seen'["validation"] \in RpaasValidation \cup {None}
        /\ seen'["config"] \in Config \cup {None}
        /\ seen'["pod"] \in Pod \cup {None}
    BY <1>1, <1>a DEF SyncCache, TypeOK
  <2> QED BY <1>1, <2>1, <2>2, <2>3 DEF SyncCache, TypeOK
<1>2. CASE CallFails
  <2>1. failures' \in 0..MaxFailures
    BY <1>2, ConstantsAssumption DEF CallFails, TypeOK
  <2> QED BY <1>2, <2>1, StepTypes DEF CallFails, Disturbed, TypeOK
<1>3. CASE Crash
  <2>1. failures' \in 0..MaxFailures
    BY <1>3, ConstantsAssumption DEF Crash, TypeOK
  <2>2. /\ seen' \in [Kinds -> RpaasValidation \cup Config \cup Pod \cup {None}]
        /\ seen'["validation"] \in RpaasValidation \cup {None}
        /\ seen'["config"] \in Config \cup {None}
        /\ seen'["pod"] \in Pod \cup {None}
    BY <1>3, <1>a DEF Crash, TypeOK
  <2> QED BY <1>3, <2>1, <2>2 DEF Crash, Disturbed, TypeOK
<1>4. CASE PodRuns
  <2>1. PICK outcome \in Outcomes(pod, config.content) :
           pod' = [pod EXCEPT !.phase = outcome]
    BY <1>4 DEF PodRuns
  <2>2. outcome \in {"succeeded", "failed"}
    BY <2>1 DEF Outcomes
  <2>3. pod' \in Pod
    BY <1>4, <2>1, <2>2 DEF PodRuns, TypeOK, Pod
  <2>4. stale' \in SUBSET Kinds
    BY <1>4, <1>a, StepTypes DEF PodRuns
  <2> QED BY <1>4, <2>3, <2>4 DEF PodRuns, TypeOK
<1>5. CASE PodGone
  <2>1. stale' \in SUBSET Kinds
    BY <1>5, <1>a, StepTypes DEF PodGone
  <2> QED BY <1>5, <2>1 DEF PodGone, TypeOK
<1>6. CASE Resync
  BY <1>6 DEF Resync, TypeOK
<1>7. CASE PodLost
  <2>1. pod' \in Pod
    BY <1>7 DEF PodLost, TypeOK, Pod
  <2>2. stale' \in SUBSET Kinds
    BY <1>7, <1>a, StepTypes DEF PodLost
  <2>3. failures' \in 0..MaxFailures
    BY <1>7, ConstantsAssumption DEF PodLost, TypeOK
  <2> QED BY <1>7, <2>1, <2>2, <2>3 DEF PodLost, TypeOK
<1> QED BY <1>1, <1>2, <1>3, <1>4, <1>5, <1>6, <1>7

----------------------------------------------------------------------------
(* The verdicts. *)

\* The first part of Reads, for one request.
ReadsOK(r) ==
    request[r] # Idle /\ request[r].stage = "update" /\ request[r].fresh
        => validation # None

\* A request that moves on, but not to its update, has nothing to keep.
LEMMA MoveToReads ==
    ASSUME TypeOK, Reads, NEW r \in Requests, request[r] # Idle,
           NEW stage \in {"create", "wait", "apply", "end"}, MoveTo(r, stage),
           validation # None => validation' # None
    PROVE  \A q \in Requests : ReadsOK(q)'
<1> SUFFICES ASSUME NEW q \in Requests PROVE ReadsOK(q)'
  OBVIOUS
<1>1. request \in [Requests -> Request \cup {Idle}] /\ request[r] \in Request
  BY DEF TypeOK
<1>2. CASE q # r
  <2>1. request'[q] = request[q]
    BY <1>1, <1>2 DEF MoveTo
  <2> QED BY <2>1 DEF Reads, ReadsOK
<1>3. CASE q = r /\ stage = "end"
  <2>1. [request[r] EXCEPT !.stage = "cleanup"].stage = "cleanup"
    BY <1>1 DEF Request
  <2> QED BY <1>1, <1>3, <2>1 DEF MoveTo, ReadsOK
<1>4. CASE q = r /\ stage # "end"
  <2>1. request'[q] = [request[r] EXCEPT !.stage = stage]
    BY <1>1, <1>4 DEF MoveTo
  <2>2. request'[q].stage = stage
    BY <1>1, <2>1 DEF Request
  <2> QED BY <2>2 DEF ReadsOK
<1> QED BY <1>2, <1>3, <1>4

LEMMA AnswerReads ==
    ASSUME TypeOK, Reads, NEW r \in Requests, request[r] # Idle, Answer(r),
           UNCHANGED validation
    PROVE  \A q \in Requests : ReadsOK(q)'
<1>1. CASE validation.verdict = "valid"
  BY <1>1, MoveToReads DEF Answer
<1>2. CASE validation.verdict # "valid"
  BY <1>2, MoveToReads DEF Answer
<1> QED BY <1>1, <1>2

\* Nothing is fresh any more.
LEMMA OutdatedIsNotFresh ==
    ASSUME TypeOK
    PROVE  /\ \A q \in Requests : Outdated[q] = Idle \/ ~Outdated[q].fresh
           /\ job # None => ~JobOutdated.fresh
<1>1. ASSUME NEW q \in Requests
      PROVE  Outdated[q] = Idle \/ ~Outdated[q].fresh
  <2>1. request[q] \in Request \cup {Idle}
    BY DEF TypeOK
  <2>2. request[q] \in Request => [request[q] EXCEPT !.fresh = FALSE].fresh = FALSE
    BY DEF Request
  <2> QED BY <2>1, <2>2 DEF Outdated
<1>2. ASSUME job # None
      PROVE  ~JobOutdated.fresh
  <2>1. job \in Job
    BY <1>2 DEF TypeOK
  <2> QED BY <1>2, <2>1 DEF JobOutdated, Job
<1> QED BY <1>1, <1>2

\* The invariant: verdicts match, and a fresh reader knows what is stored.
IInv == TypeOK /\ Reads /\ RevisionMatches

\* The steps of requests.
LEMMA APIReads ==
    ASSUME IInv, NEW r \in Requests, API(r)
    PROVE  Reads' /\ RevisionMatches'
<1> USE DEF apiVars, objectVars, bounds, workerVars
<1>a. TypeOK /\ Reads /\ RevisionMatches
  BY DEF IInv
<1>b. request \in [Requests -> Request \cup {Idle}]
  BY <1>a DEF TypeOK
<1>c. ASSUME UNCHANGED <<validation, seen, stale, pc, job>>,
             \A q \in Requests : ReadsOK(q)'
      PROVE  Reads' /\ RevisionMatches'
  BY <1>a, <1>c DEF Reads, ReadsOK, RevisionMatches, Judged
<1>1. CASE BeginRequest(r)
  <2>1. ASSUME NEW q \in Requests
        PROVE  ReadsOK(q)'
    BY <1>1, <1>a, <1>b DEF BeginRequest, Reads, ReadsOK
  <2> QED BY <1>1, <1>c, <2>1 DEF BeginRequest
<1>2. CASE GetValidation(r)
  <2>1. \A q \in Requests : ReadsOK(q)'
    <3>1. CASE MoveTo(r, "create")
      BY <1>2, <1>a, <3>1, MoveToReads DEF GetValidation
    <3>2. CASE Answer(r)
      BY <1>2, <1>a, <3>2, AnswerReads DEF GetValidation
    <3>3. CASE /\ validation # None
               /\ request' = [request EXCEPT
                                 ![r] = [request[r] EXCEPT !.stage = "update",
                                                           !.fresh = TRUE]]
      BY <1>2, <3>3 DEF GetValidation, ReadsOK
    <3> QED BY <1>2, <3>1, <3>2, <3>3 DEF GetValidation
  <2> QED BY <1>2, <1>c, <2>1 DEF GetValidation
<1>3. CASE CreateValidation(r)
  <2>1. CASE UNCHANGED <<validation, stale>> /\ MoveTo(r, "end")
    <3>1. \A q \in Requests : ReadsOK(q)'
      BY <1>3, <1>a, <2>1, MoveToReads DEF CreateValidation
    <3> QED BY <1>3, <1>c, <2>1, <3>1 DEF CreateValidation
  <2>2. CASE /\ validation = None
             /\ validation' = [spec |-> request[r].want, current |-> FALSE,
                               verdict |-> "unknown", revision |-> {}]
             /\ Stale("validation")
             /\ MoveTo(r, "wait")
    <3>1. \A q \in Requests : ReadsOK(q)'
      BY <1>3, <1>a, <2>2, MoveToReads DEF CreateValidation
    <3>2. ~(pc \in {"config", "finish"} /\ job.fresh)
      BY <1>a, <2>2 DEF Reads
    <3>3. "validation" \in stale'
      BY <2>2 DEF Stale
    <3>4. ~Judged(validation')
      BY <2>2 DEF Judged
    <3> QED
      BY <1>3, <3>1, <3>2, <3>3, <3>4
      DEF CreateValidation, Reads, ReadsOK, RevisionMatches, Judged
  <2> QED BY <1>3, <2>1, <2>2 DEF CreateValidation
<1>4. CASE UpdateValidation(r)
  <2>0. request[r] # Idle /\ request[r].stage = "update"
    BY <1>4 DEF UpdateValidation
  <2>1. CASE /\ request[r].fresh
             /\ validation.spec # request[r].want
             /\ validation' = [validation EXCEPT !.spec = request[r].want,
                                                 !.current = FALSE]
             /\ Stale("validation")
             /\ request' = [Outdated EXCEPT
                               ![r] = [request[r] EXCEPT !.stage = "wait",
                                                         !.fresh = FALSE]]
             /\ job' = JobOutdated
    <3>1. validation \in RpaasValidation
      BY <1>a, <2>0, <2>1 DEF Reads, TypeOK
    <3>2. ~validation'.current
      BY <2>1, <3>1 DEF RpaasValidation
    <3>3. "validation" \in stale'
      BY <2>1 DEF Stale
    <3>4. pc \in {"config", "finish"} => ~job'.fresh
      BY <1>a, <2>1, OutdatedIsNotFresh DEF TypeOK
    <3>5. ASSUME NEW q \in Requests
          PROVE  ReadsOK(q)'
      <4>1. CASE q = r
        <5>1. request[r] \in Request
          BY <1>b, <2>0
        <5>2. [request[r] EXCEPT !.stage = "wait", !.fresh = FALSE].stage = "wait"
          BY <5>1 DEF Request
        <5>3. request'[r] = [request[r] EXCEPT !.stage = "wait", !.fresh = FALSE]
          BY <1>a, <2>1, OutdatedType
        <5> QED BY <4>1, <5>2, <5>3 DEF ReadsOK
      <4>2. CASE q # r
        <5>1. request'[q] = Outdated[q]
          BY <1>a, <2>1, <4>2, OutdatedType
        <5> QED BY <1>a, <5>1, OutdatedIsNotFresh DEF ReadsOK
      <4> QED BY <4>1, <4>2
    <3> QED
      BY <1>4, <3>2, <3>3, <3>4, <3>5
      DEF UpdateValidation, Reads, ReadsOK, RevisionMatches, Judged
  <2>2. CASE /\ MoveTo(r, "wait") \/ MoveTo(r, "end")
             /\ UNCHANGED <<validation, stale, job>>
    <3>1. \A q \in Requests : ReadsOK(q)'
      BY <1>a, <2>0, <2>2, MoveToReads
    <3> QED BY <1>4, <1>c, <2>2, <3>1 DEF UpdateValidation
  <2> QED BY <1>4, <2>1, <2>2 DEF UpdateValidation
<1>5. CASE Poll(r)
  <2>1. \A q \in Requests : ReadsOK(q)'
    BY <1>5, <1>a, AnswerReads DEF Poll
  <2> QED BY <1>5, <1>c, <2>1 DEF Poll
<1>6. CASE Timeout(r)
  <2>1. \A q \in Requests : ReadsOK(q)'
    BY <1>6, <1>a, MoveToReads DEF Timeout
  <2> QED BY <1>6, <1>c, <2>1 DEF Timeout
<1>7. CASE ApplyEdit(r)
  <2>1. \A q \in Requests : ReadsOK(q)'
    BY <1>7, <1>a, MoveToReads DEF ApplyEdit
  <2> QED BY <1>7, <1>c, <2>1 DEF ApplyEdit
<1>8. CASE CleanUp(r)
  <2>1. \A q \in Requests : ReadsOK(q)'
    BY <1>8, <1>a, <1>b DEF CleanUp, Reads, ReadsOK
  <2> QED BY <1>8, <1>c, <2>1 DEF CleanUp
<1> QED BY <1>1, <1>2, <1>3, <1>4, <1>5, <1>6, <1>7, <1>8 DEF API

\* The steps of the operator and of its environment.
LEMMA OperatorReads ==
    ASSUME IInv,
           \/ Reconcile
           \/ \E kind \in Kinds : SyncCache(kind)
           \/ Resync \/ CallFails \/ Crash \/ PodRuns \/ PodLost \/ PodGone
    PROVE  Reads' /\ RevisionMatches'
<1> USE DEF apiVars, objectVars, bounds, workerVars
<1>a. TypeOK /\ Reads /\ RevisionMatches
  BY DEF IInv
<1>b. ASSUME UNCHANGED <<request, validation>>
      PROVE  /\ \A q \in Requests : ReadsOK(q)'
             /\ RevisionMatches'
  BY <1>a, <1>b DEF Reads, ReadsOK, RevisionMatches, Judged
<1>c. ASSUME UNCHANGED <<request, validation, seen>>,
             "validation" \in stale' <=> "validation" \in stale,
             pc' \notin {"config", "finish"}
      PROVE  Reads' /\ RevisionMatches'
  BY <1>a, <1>b, <1>c DEF Reads, ReadsOK
<1>1. CASE StartReconcile
  <2>1. CASE /\ seen["validation"] # None
             /\ ~Judged(seen["validation"])
             /\ job' = [spec |-> seen["validation"].spec,
                        fresh |-> "validation" \notin stale]
    <3>1. job'.fresh => "validation" \notin stale
      BY <2>1
    <3>2. job'.fresh => /\ validation # None
                        /\ validation.spec = job'.spec
                        /\ ~Judged(validation)
      BY <1>a, <2>1, <3>1 DEF Reads
    <3> QED
      BY <1>1, <1>a, <1>b, <3>2 DEF StartReconcile, Reads, ReadsOK, Judged
  <2>2. CASE UNCHANGED <<pc, job>>
    BY <1>1, <1>c, <2>2 DEF StartReconcile
  <2> QED BY <1>1, <2>1, <2>2 DEF StartReconcile
<1>2. CASE ReconcileConfigMap
  <2>1. CASE UNCHANGED job
    BY <1>2, <1>a, <1>b, <2>1
    DEF ReconcileConfigMap, Stale, Reads, ReadsOK, Judged
  <2>2. CASE End(TRUE) /\ UNCHANGED stale
    BY <1>2, <1>c, <2>2 DEF ReconcileConfigMap, End
  <2> QED BY <1>2, <2>1, <2>2 DEF ReconcileConfigMap
<1>3. CASE FinishValidation
  <2>1. CASE /\ job.fresh
             /\ validation' =
                   [validation EXCEPT
                       !.current = TRUE, !.revision = {job.spec},
                       !.verdict = IF seen["pod"].phase = "succeeded"
                                   THEN "valid" ELSE "invalid"]
             /\ Stale("validation")
             /\ request' = Outdated
             /\ pc' = "delete"
    <3>1. validation \in RpaasValidation /\ job.spec = validation.spec
      BY <1>3, <1>a, <2>1 DEF FinishValidation, Reads, TypeOK
    <3>2. validation'.revision = {validation'.spec}
      BY <2>1, <3>1 DEF RpaasValidation
    <3>3. ASSUME NEW q \in Requests
          PROVE  ReadsOK(q)'
      BY <1>a, <2>1, OutdatedIsNotFresh DEF ReadsOK
    <3>4. "validation" \in stale'
      BY <2>1 DEF Stale
    <3> QED
      BY <2>1, <3>2, <3>3, <3>4 DEF Reads, ReadsOK, RevisionMatches
  <2>2. CASE End(TRUE) /\ UNCHANGED <<validation, stale, request>>
    BY <1>3, <1>c, <2>2 DEF FinishValidation, End
  <2>3. CASE pc' = "pod" /\ UNCHANGED <<validation, stale, request>>
    BY <1>3, <1>c, <2>3 DEF FinishValidation
  <2> QED BY <1>3, <2>1, <2>2, <2>3 DEF FinishValidation
<1>4. CASE DeletePod
  BY <1>4, <1>c DEF DeletePod, DeletePodNow, Stale, End
<1>5. CASE ReconcilePod
  BY <1>5, <1>c DEF ReconcilePod, DeletePodNow, Stale, End
<1>6. CASE RecreatePod
  BY <1>6, <1>c DEF RecreatePod, Stale, End
<1>7. ASSUME NEW kind \in Kinds, SyncCache(kind)
      PROVE  Reads' /\ RevisionMatches'
  <2>1. "validation" \notin stale' => seen'["validation"] = validation'
    BY <1>7, <1>a DEF SyncCache, Reads, TypeOK, Kinds
  <2> QED BY <1>7, <1>a, <1>b, <2>1 DEF SyncCache, Reads, ReadsOK, Judged
<1>8. CASE CallFails
  BY <1>8, <1>c DEF CallFails, End
<1>9. CASE Crash
  <2>1. seen'["validation"] = validation'
    BY <1>9 DEF Crash, Kinds
  <2> QED BY <1>9, <1>b, <2>1 DEF Crash, Reads, ReadsOK
<1>10. CASE PodRuns \/ PodLost \/ PodGone
  <2>1. /\ UNCHANGED <<request, validation, seen, pc, job>>
        /\ "validation" \in stale' <=> "validation" \in stale
    BY <1>10 DEF PodRuns, PodLost, PodGone, Stale
  <2> QED BY <1>a, <1>b, <2>1 DEF Reads, ReadsOK, Judged
<1>11. CASE Resync
  BY <1>11, <1>a, <1>b DEF Resync, Reads, ReadsOK, Judged
<1> QED
  BY <1>1, <1>2, <1>3, <1>4, <1>5, <1>6, <1>7, <1>8, <1>9, <1>10, <1>11
  DEF Reconcile

LEMMA IInvInit == Init => IInv
<1> SUFFICES ASSUME Init PROVE IInv
  OBVIOUS
<1>1. spec \in Specs /\ stale \in SUBSET Kinds
  BY DEF Init, Specs
<1>2. /\ seen \in [Kinds -> RpaasValidation \cup Config \cup Pod \cup {None}]
      /\ seen["validation"] = None
      /\ seen["config"] = None
      /\ seen["pod"] = None
  BY DEF Init, Kinds
<1>3. edits \in 0..MaxEdits /\ failures \in 0..MaxFailures
  BY ConstantsAssumption DEF Init
<1>4. TypeOK
  BY <1>1, <1>2, <1>3 DEF Init, TypeOK
<1>5. Reads
  BY <1>2 DEF Init, Reads
<1>6. RevisionMatches
  BY DEF Init, RevisionMatches, Judged
<1> QED BY <1>4, <1>5, <1>6 DEF IInv

LEMMA IInvNext == IInv /\ [Next]_vars => IInv'
<1> SUFFICES ASSUME IInv, [Next]_vars PROVE IInv'
  OBVIOUS
<1>a. TypeOK /\ Reads
  BY DEF IInv
<1>1. ASSUME NEW r \in Requests, API(r)
      PROVE  IInv'
  <2>1. TypeOK'
    BY <1>1, <1>a, APIType
  <2>2. Reads' /\ RevisionMatches'
    BY <1>1, APIReads
  <2> QED BY <2>1, <2>2 DEF IInv
<1>2. CASE Reconcile
  <2>1. TypeOK'
    BY <1>2, <1>a, ReconcileType
  <2>2. Reads' /\ RevisionMatches'
    BY <1>2, OperatorReads
  <2> QED BY <2>1, <2>2 DEF IInv
<1>3. CASE \/ \E kind \in Kinds : SyncCache(kind)
           \/ Resync \/ CallFails \/ Crash \/ PodRuns \/ PodLost \/ PodGone
  <2>1. TypeOK'
    BY <1>3, <1>a, EnvironmentType
  <2>2. Reads' /\ RevisionMatches'
    BY <1>3, OperatorReads
  <2> QED BY <2>1, <2>2 DEF IInv
<1>4. CASE UNCHANGED vars
  <2>1. TypeOK'
    BY <1>4, <1>a
    DEF TypeOK, vars, apiVars, objectVars, workerVars, bounds
  <2>2. Reads' /\ RevisionMatches'
    BY <1>4 DEF IInv, Reads, RevisionMatches, Judged, vars, apiVars,
                objectVars, workerVars
  <2> QED BY <2>1, <2>2 DEF IInv
<1> QED BY <1>1, <1>2, <1>3, <1>4 DEF Next

\* A step from a state with a verdict replaces the spec, or keeps the verdict.
LEMMA VerdictStep ==
    ASSUME IInv, [Next]_vars, Judged(validation), validation'.current
    PROVE  validation'.verdict = validation.verdict
<1> USE DEF apiVars, objectVars, bounds, workerVars
<1>a. TypeOK /\ Reads /\ validation # None
  BY DEF IInv, Judged
<1>1. ASSUME NEW r \in Requests, API(r)
      PROVE  validation' = validation
  <2>1. CASE UpdateValidation(r)
    <3>1. CASE validation' = [validation EXCEPT !.spec = request[r].want,
                                                !.current = FALSE]
      <4>1. validation \in RpaasValidation
        BY <1>a DEF TypeOK
      <4>2. validation'.current = FALSE
        BY <3>1, <4>1 DEF RpaasValidation
      <4> QED BY <4>2
    <3> QED BY <2>1, <3>1 DEF UpdateValidation
  <2>2. CASE CreateValidation(r)
    BY <1>a, <2>2 DEF CreateValidation
  <2> QED
    BY <1>1, <2>1, <2>2
    DEF API, BeginRequest, GetValidation, Poll, Timeout, ApplyEdit, CleanUp
<1>2. CASE Reconcile
  <2>1. ~(pc = "finish" /\ job.fresh)
    BY <1>a DEF Reads
  <2> QED
    BY <1>2, <2>1
    DEF Reconcile, StartReconcile, ReconcileConfigMap, FinishValidation,
        DeletePod, ReconcilePod, RecreatePod
<1>3. CASE \/ \E kind \in Kinds : SyncCache(kind)
           \/ Resync \/ CallFails \/ Crash \/ PodRuns \/ PodLost \/ PodGone
  BY <1>3 DEF SyncCache, Resync, CallFails, Crash, PodRuns, PodLost, PodGone
<1>4. CASE UNCHANGED vars
  BY <1>4 DEF vars
<1> QED BY <1>1, <1>2, <1>3, <1>4 DEF Next

----------------------------------------------------------------------------
\* All objects, cached copies and requests of the protocol keep their types,
\* for any requests, blocks and number of failures.
THEOREM TypeCorrectness == Spec => []TypeOK
<1>1. IInv => TypeOK
  BY DEF IInv
<1> QED BY <1>1, IInvInit, IInvNext, PTL DEF Spec

\* However many requests share the RpaasValidation and however far the caches
\* of the operator are behind, a verdict that counts carries the revision of
\* the spec that is stored with it (finishValidation).
THEOREM RevisionMatchesAlways == Spec => []RevisionMatches
<1>1. IInv => RevisionMatches
  BY DEF IInv
<1> QED BY <1>1, IInvInit, IInvNext, PTL DEF Spec

\* No step of a request, of the operator or of the cluster turns a verdict that
\* counts into the other one (the early return of Reconcile, and the refusal of
\* a status update that is based on an old copy).
THEOREM VerdictIsFinal == Spec => VerdictFinal
<1>1. IInv /\ [Next]_vars =>
        [Judged(validation) /\ validation'.current
            => validation'.verdict = validation.verdict]_vars
  BY VerdictStep
<1> QED BY <1>1, IInvInit, IInvNext, PTL DEF Spec, VerdictFinal

----------------------------------------------------------------------------
(* Sound verdicts. *)

\* As long as all is calm there is one request at a time.  It edits the spec
\* that the instance has, and waits for the verdict on its own spec; nobody
\* else has left a validation without a verdict behind.
Alone ==
    \A q, r \in Requests : request[q] # Idle /\ request[r] # Idle => q = r

Asks(q, s, v) ==
    q # Idle =>
        /\ q.stage # "cleanup" => q.want = Mutate(q.edit, q.number, s)
        /\ q.stage = "wait" => v # None /\ v.spec = q.want
        /\ q.stage # "wait" => v = None \/ Judged(v)
        /\ q.stage = "apply" => Accepted(q.want)

\* Without any request there is a verdict too.
Answered ==
    (\A r \in Requests : request[r] = Idle) =>
        validation = None \/ Judged(validation)

CalmRequests ==
    /\ Alone
    /\ Answered
    /\ \A r \in Requests : Asks(request[r], spec, validation)

\* The ConfigMap is what the operator has rendered for the spec it works on.
Rendered ==
    /\ "config" \notin stale => seen["config"] = config
    /\ pc \notin {"idle", "config"} => config = [content |-> job.spec]

\* The operator knows the spec that is to be validated now.
Informed ==
    seen["validation"] # None /\ seen["validation"].spec = validation.spec

\* A pod of that spec runs on the configuration of that spec, since the
\* operator works on no other any more; so its success is a verdict.
Fits(p) ==
    p # None /\ p.hash = validation.spec =>
        /\ Informed
        /\ job # None => job.spec = validation.spec
        /\ config = [content |-> validation.spec]
        /\ p.phase = "succeeded" => Accepted(validation.spec)

\* What the operator has got hold of since the spec was stored.
Follows ==
    /\ job # None /\ job.spec = validation.spec => Informed
    /\ Fits(pod)
    /\ Fits(seen["pod"])
    /\ seen["pod"] # None /\ seen["pod"].hash = validation.spec /\ pod # None =>
          pod.hash = validation.spec

\* With the verdict, nothing is left of earlier specs.
Settled ==
    /\ Informed
    /\ job # None => job.spec = validation.spec
    /\ config = [content |-> validation.spec]
    /\ pod # None => pod.hash = validation.spec
    /\ seen["pod"] # None => seen["pod"].hash = validation.spec
    /\ validation.verdict = "valid" => Accepted(validation.spec)

\* Before the first validation there is nothing.
Untouched ==
    /\ job = None /\ config = None /\ pod = None
    /\ \A kind \in Kinds : seen[kind] = None

CalmObjects ==
    /\ Rendered
    /\ validation = None => Untouched
    /\ validation # None => Follows
    /\ Judged(validation) => Settled

CalmInv == calm => Accepted(spec) /\ CalmRequests /\ CalmObjects

\* One request is all there is, and it asks.
LEMMA OneAsks ==
    ASSUME NEW r \in Requests,
           \A q \in Requests : q # r => request'[q] = Idle,
           Asks(request'[r], spec', validation'),
           request'[r] = Idle => validation' = None \/ Judged(validation')
    PROVE  CalmRequests'
<1>1. Alone'
  BY DEF Alone
<1>2. Answered'
  BY DEF Answered, Judged
<1>3. \A q \in Requests : Asks(request'[q], spec', validation')
  <2>1. \A v, s : Asks(Idle, s, v)
    BY DEF Asks
  <2> QED BY <2>1
<1> QED BY <1>1, <1>2, <1>3 DEF CalmRequests

LEMMA OthersIdle ==
    ASSUME CalmRequests, NEW r \in Requests, request[r] # Idle
    PROVE  \A q \in Requests : q # r => request[q] = Idle
BY DEF CalmRequests, Alone

\* A request that moves on, or ends.
LEMMA MoveToAsks ==
    ASSUME TypeOK, CalmRequests, NEW r \in Requests, request[r] # Idle,
           NEW stage \in {"create", "wait", "apply", "end"}, MoveTo(r, stage),
           request[r].stage # "cleanup", UNCHANGED spec,
           stage = "wait" => /\ validation' # None
                             /\ validation'.spec = request[r].want,
           stage # "wait" => validation' = None \/ Judged(validation'),
           stage = "apply" => Accepted(request[r].want)
    PROVE  CalmRequests'
<1>1. request \in [Requests -> Request \cup {Idle}] /\ request[r] \in Request
  BY DEF TypeOK
<1>2. \A q \in Requests : q # r => request'[q] = Idle
  BY <1>1, OthersIdle DEF MoveTo
<1>3. CASE stage = "end"
  <2>1. CASE request'[r] = Idle
    BY <1>2, <1>3, <2>1, OneAsks DEF Asks
  <2>2. CASE request'[r] # Idle
    <3>1. request'[r] = [request[r] EXCEPT !.stage = "cleanup"]
      BY <1>1, <1>3, <2>2 DEF MoveTo
    <3>2. request'[r].stage = "cleanup"
      BY <1>1, <3>1 DEF Request
    <3>3. Asks(request'[r], spec', validation')
      BY <1>3, <3>2 DEF Asks
    <3> QED BY <1>2, <2>2, <3>3, OneAsks
  <2> QED BY <2>1, <2>2
<1>4. CASE stage # "end"
  <2>1. request'[r] = [request[r] EXCEPT !.stage = stage]
    BY <1>1, <1>4 DEF MoveTo
  <2>2. /\ request'[r] \in Request
        /\ request'[r].stage = stage
        /\ request'[r].want = request[r].want
        /\ request'[r].edit = request[r].edit
        /\ request'[r].number = request[r].number
    BY <1>1, <1>4, <2>1 DEF Request
  <2>3. request[r].want = Mutate(request[r].edit, request[r].number, spec)
    BY DEF CalmRequests, Asks
  <2>4. Asks(request'[r], spec', validation')
    BY <2>2, <2>3 DEF Asks
  <2> QED BY <1>2, <2>2, <2>4, NoneIsNoObject, OneAsks
<1> QED BY <1>3, <1>4

\* A request that has its answer.
LEMMA AnswerAsks ==
    ASSUME TypeOK, CalmRequests, Settled, NEW r \in Requests, request[r] # Idle,
           Answer(r), Judged(validation), validation.spec = request[r].want,
           request[r].stage # "cleanup", UNCHANGED <<spec, validation>>
    PROVE  CalmRequests'
<1>1. CASE validation.verdict = "valid"
  <2>1. Accepted(request[r].want)
    BY <1>1 DEF Settled
  <2> QED BY <1>1, <2>1, MoveToAsks DEF Answer
<1>2. CASE validation.verdict # "valid"
  BY <1>2, MoveToAsks DEF Answer
<1> QED BY <1>1, <1>2

\* The objects stay as they are.
LEMMA ObjectsSame ==
    ASSUME CalmObjects, UNCHANGED <<objectVars, seen, stale, pc, job>>
    PROVE  CalmObjects'
<1>1. Rendered' /\ (validation' = None => Untouched')
  BY DEF CalmObjects, Rendered, Untouched, objectVars
<1>2. validation' # None => Follows'
  BY DEF CalmObjects, Follows, Fits, Informed, objectVars
<1>3. Judged(validation') => Settled'
  BY DEF CalmObjects, Settled, Informed, Judged, objectVars
<1> QED BY <1>1, <1>2, <1>3 DEF CalmObjects, Judged

\* The steps of requests.
LEMMA APICalm ==
    ASSUME IInv, calm, CalmInv, NEW r \in Requests, API(r), calm'
    PROVE  Accepted(spec') /\ CalmRequests' /\ CalmObjects'
<1> USE DEF apiVars, objectVars, bounds, workerVars
<1>a. TypeOK /\ Reads /\ Accepted(spec) /\ CalmRequests /\ CalmObjects
  BY DEF IInv, CalmInv
<1>b. request \in [Requests -> Request \cup {Idle}]
  BY <1>a DEF TypeOK
<1>c. request[r] # Idle =>
         /\ request[r] \in Request
         /\ Asks(request[r], spec, validation)
  BY <1>a, <1>b DEF CalmRequests
<1>1. CASE BeginRequest(r)
  <2>1. PICK edit \in Edit :
           request' = [request EXCEPT
                          ![r] = [stage |-> "get", edit |-> edit,
                                  number |-> NumberOf(edit),
                                  want |-> Mutate(edit, NumberOf(edit), spec),
                                  fresh |-> FALSE]]
    BY <1>1 DEF BeginRequest
  <2>2. \A q \in Requests : request[q] = Idle
    BY <1>1 DEF BeginRequest
  <2>3. /\ request'[r] = [stage |-> "get", edit |-> edit,
                          number |-> NumberOf(edit),
                          want |-> Mutate(edit, NumberOf(edit), spec),
                          fresh |-> FALSE]
        /\ \A q \in Requests : q # r => request'[q] = Idle
    BY <1>b, <2>1, <2>2
  <2>4. validation = None \/ Judged(validation)
    BY <1>a, <2>2 DEF CalmRequests, Answered
  <2>5. Asks(request'[r], spec, validation)
    BY <2>3, <2>4 DEF Asks
  <2>6. UNCHANGED <<spec, validation>> /\ CalmObjects'
    BY <1>1, <1>a, ObjectsSame DEF BeginRequest
  <2>7. CalmRequests'
    BY <2>3, <2>4, <2>5, <2>6, OneAsks
  <2> QED BY <1>a, <2>6, <2>7
<1>2. CASE GetValidation(r)
  <2>0. /\ request[r] # Idle /\ request[r].stage = "get"
        /\ UNCHANGED <<spec, validation>> /\ CalmObjects'
    BY <1>2, <1>a, ObjectsSame DEF GetValidation
  <2>1. CASE validation = None /\ MoveTo(r, "create")
    BY <1>a, <2>0, <2>1, MoveToAsks
  <2>2. CASE Judged(validation) /\ validation.spec = request[r].want /\ Answer(r)
    BY <1>a, <2>0, <2>2, AnswerAsks DEF CalmObjects
  <2>3. CASE request' = [request EXCEPT
                            ![r] = [request[r] EXCEPT !.stage = "update",
                                                      !.fresh = TRUE]]
    <3>1. /\ request'[r] = [request[r] EXCEPT !.stage = "update", !.fresh = TRUE]
          /\ \A q \in Requests : q # r => request'[q] = Idle
      BY <1>a, <1>b, <2>0, <2>3, OthersIdle
    <3>2. /\ request'[r] \in Request
          /\ request'[r].stage = "update"
          /\ request'[r].want = request[r].want
          /\ request'[r].edit = request[r].edit
          /\ request'[r].number = request[r].number
      BY <1>c, <2>0, <3>1 DEF Request
    <3>3. Asks(request'[r], spec', validation')
      BY <1>c, <2>0, <3>2 DEF Asks
    <3>4. CalmRequests'
      BY <3>1, <3>2, <3>3, NoneIsNoObject, OneAsks
    <3> QED BY <1>a, <2>0, <3>4
  <2> QED BY <1>2, <2>1, <2>2, <2>3 DEF GetValidation
<1>3. CASE CreateValidation(r)
  <2>0. /\ request[r] # Idle /\ request[r].stage = "create"
        /\ UNCHANGED <<spec, config, pod, seen, pc, job>>
    BY <1>3 DEF CreateValidation
  <2>1. CASE validation # None
    <3>1. MoveTo(r, "end") /\ UNCHANGED <<validation, stale>>
      BY <1>3, <2>1 DEF CreateValidation
    <3>2. Judged(validation)
      BY <1>c, <2>0, <2>1 DEF Asks
    <3>3. CalmRequests'
      BY <1>a, <2>0, <3>1, <3>2, MoveToAsks
    <3> QED BY <1>a, <2>0, <3>1, <3>3, ObjectsSame
  <2>2. CASE validation = None
    <3>1. /\ MoveTo(r, "wait") /\ Stale("validation")
          /\ validation' = [spec |-> request[r].want, current |-> FALSE,
                            verdict |-> "unknown", revision |-> {}]
      BY <1>3, <2>2 DEF CreateValidation
    <3>2. /\ validation' \in RpaasValidation /\ ~validation'.current
          /\ validation'.spec = request[r].want
      BY <1>c, <2>0, <3>1 DEF Request, RpaasValidation, Verdicts
    <3>3. validation' # None
      BY <3>2, NoneIsNoObject
    <3>4. CalmRequests'
      BY <1>a, <2>0, <3>1, <3>2, <3>3, MoveToAsks
    <3>5. Rendered'
      BY <1>a, <2>0, <3>1 DEF CalmObjects, Rendered, Stale
    <3>6. Follows'
      BY <1>a, <2>0, <2>2 DEF CalmObjects, Untouched, Follows, Fits, Kinds
    <3>7. CalmObjects'
      BY <3>2, <3>3, <3>5, <3>6 DEF CalmObjects, Judged
    <3> QED BY <1>a, <2>0, <3>4, <3>7
  <2> QED BY <2>1, <2>2
<1>4. CASE UpdateValidation(r)
  <2>0. /\ request[r] # Idle /\ request[r].stage = "update"
        /\ UNCHANGED <<spec, config, pod, seen, pc>>
    BY <1>4 DEF UpdateValidation
  <2>1. CASE /\ request[r].fresh
             /\ validation.spec # request[r].want
             /\ validation' = [validation EXCEPT !.spec = request[r].want,
                                                 !.current = FALSE]
             /\ Stale("validation")
             /\ request' = [Outdated EXCEPT
                               ![r] = [request[r] EXCEPT !.stage = "wait",
                                                         !.fresh = FALSE]]
             /\ job' = JobOutdated
    <3>1. validation \in RpaasValidation /\ validation # None
      BY <1>a, <2>0, <2>1 DEF Reads, TypeOK
    <3>2. Judged(validation)
      BY <1>c, <2>0, <3>1 DEF Asks
    <3>3. /\ validation' \in RpaasValidation /\ ~validation'.current
          /\ validation'.spec = request[r].want
      BY <1>c, <2>0, <2>1, <3>1 DEF Request, RpaasValidation
    <3>4. validation' # None
      BY <3>3, NoneIsNoObject
    <3>5. /\ request'[r] = [request[r] EXCEPT !.stage = "wait", !.fresh = FALSE]
          /\ \A q \in Requests : q # r => request'[q] = Idle
      BY <1>a, <2>0, <2>1, OthersIdle DEF Outdated
    <3>6. /\ request'[r] \in Request
          /\ request'[r].stage = "wait"
          /\ request'[r].want = request[r].want
          /\ request'[r].edit = request[r].edit
          /\ request'[r].number = request[r].number
      BY <1>c, <2>0, <3>5 DEF Request
    <3>7. Asks(request'[r], spec', validation')
      BY <1>c, <2>0, <3>3, <3>4, <3>6 DEF Asks
    <3>8. CalmRequests'
      BY <3>5, <3>6, <3>7, NoneIsNoObject, OneAsks
    <3>9. /\ job' = None <=> job = None
          /\ job # None => job'.spec = job.spec
      <4>1. job \in Job => /\ [job EXCEPT !.fresh = FALSE].spec = job.spec
                           /\ [job EXCEPT !.fresh = FALSE] \in Job
        BY DEF Job
      <4>2. job \in Job \cup {None}
        BY <1>a DEF TypeOK
      <4> QED BY <2>1, <4>1, <4>2, NoneIsNoObject DEF JobOutdated
    <3>10. Rendered'
      <4>1. pc # "idle" => job # None
        BY <1>a DEF TypeOK
      <4> QED BY <1>a, <2>0, <2>1, <3>9, <4>1 DEF CalmObjects, Rendered, Stale
    <3>11. Follows'
      BY <1>a, <2>0, <2>1, <3>2, <3>3, <3>9 DEF CalmObjects, Settled, Follows, Fits
    <3>12. CalmObjects'
      BY <3>3, <3>4, <3>10, <3>11 DEF CalmObjects, Judged
    <3> QED BY <1>a, <2>0, <3>8, <3>12
  <2>2. CASE /\ request[r].fresh
             /\ validation.spec = request[r].want
             /\ MoveTo(r, "wait")
             /\ UNCHANGED <<validation, stale, job>>
    <3>1. validation # None
      BY <1>a, <2>0, <2>2 DEF Reads
    <3>2. CalmRequests'
      BY <1>a, <2>0, <2>2, <3>1, MoveToAsks
    <3> QED BY <1>a, <2>0, <2>2, <3>2, ObjectsSame
  <2>3. CASE /\ MoveTo(r, "end")
             /\ UNCHANGED <<validation, stale, job>>
    <3>1. validation = None \/ Judged(validation)
      BY <1>c, <2>0 DEF Asks
    <3>2. CalmRequests'
      BY <1>a, <2>0, <2>3, <3>1, MoveToAsks
    <3> QED BY <1>a, <2>0, <2>3, <3>2, ObjectsSame
  <2> QED BY <1>4, <2>1, <2>2, <2>3 DEF UpdateValidation
<1>5. CASE Poll(r)
  <2>1. /\ request[r] # Idle /\ request[r].stage = "wait" /\ Judged(validation)
        /\ Answer(r) /\ UNCHANGED <<spec, validation>> /\ CalmObjects'
    BY <1>5, <1>a, ObjectsSame DEF Poll
  <2>2. validation.spec = request[r].want
    BY <1>c, <2>1 DEF Asks
  <2>3. CalmRequests'
    BY <1>a, <2>1, <2>2, AnswerAsks DEF CalmObjects
  <2> QED BY <1>a, <2>1, <2>3
<1>6. CASE Timeout(r)
  BY <1>6 DEF Timeout, Disturbed
<1>7. CASE ApplyEdit(r)
  <2>0. /\ request[r] # Idle /\ request[r].stage = "apply"
        /\ MoveTo(r, "end") /\ UNCHANGED validation /\ CalmObjects'
    BY <1>7, <1>a, ObjectsSame DEF ApplyEdit
  <2>1. Accepted(request[r].want)
        /\ request[r].want = Mutate(request[r].edit, request[r].number, spec)
    BY <1>c, <2>0 DEF Asks
  <2>2. BlocksIn(request[r].want) = BlocksIn(Apply(request[r].edit, request[r].number, spec))
    <3>1. request[r].edit \in Edit /\ request[r].number \in 0..MaxEdits /\ spec \in Specs
      BY <1>a, <1>c, <2>0 DEF Request, TypeOK
    <3> QED BY <2>1, <3>1, EditBlocks
  <2>3. Accepted(spec')
    BY <1>7, <1>a, <2>1, <2>2 DEF ApplyEdit, Accepted
  <2>4. validation = None \/ Judged(validation)
    BY <1>c, <2>0 DEF Asks
  <2>5. \A q \in Requests : q # r => request'[q] = Idle
    BY <1>a, <1>b, <2>0, OthersIdle DEF MoveTo
  <2>6. Asks(request'[r], spec', validation')
    <3>1. CASE request'[r] = Idle
      BY <3>1 DEF Asks
    <3>2. CASE request'[r] # Idle
      <4>1. request'[r] = [request[r] EXCEPT !.stage = "cleanup"]
        BY <1>b, <2>0, <3>2 DEF MoveTo
      <4>2. request'[r].stage = "cleanup"
        BY <1>c, <2>0, <4>1 DEF Request
      <4> QED BY <2>0, <2>4, <4>2 DEF Asks
    <3> QED BY <3>1, <3>2
  <2>7. CalmRequests'
    BY <2>0, <2>4, <2>5, <2>6, OneAsks
  <2> QED BY <2>0, <2>3, <2>7
<1>8. CASE CleanUp(r)
  <2>0. /\ request[r] # Idle /\ request[r].stage = "cleanup"
        /\ UNCHANGED <<spec, validation>> /\ CalmObjects'
    BY <1>8, <1>a, ObjectsSame DEF CleanUp
  <2>1. /\ request'[r] = Idle
        /\ \A q \in Requests : q # r => request'[q] = Idle
    BY <1>8, <1>a, <1>b, <2>0, OthersIdle DEF CleanUp
  <2>2. validation = None \/ Judged(validation)
    BY <1>c, <2>0 DEF Asks
  <2>3. CalmRequests'
    BY <2>0, <2>1, <2>2, OneAsks DEF Asks
  <2> QED BY <1>a, <2>0, <2>3
<1> QED BY <1>1, <1>2, <1>3, <1>4, <1>5, <1>6, <1>7, <1>8 DEF API

\* The steps that leave the instance, the requests and the validation alone.
LEMMA RequestsSame ==
    ASSUME CalmRequests, UNCHANGED <<spec, request, validation>>
    PROVE  CalmRequests'
<1>1. Alone' /\ Answered'
  BY DEF CalmRequests, Alone, Answered, Judged
<1>2. \A r \in Requests : Asks(request'[r], spec', validation')
  BY DEF CalmRequests
<1> QED BY <1>1, <1>2 DEF CalmRequests

\* Without a validation the worker is at rest and there is no pod.
LEMMA ValidationThere ==
    ASSUME TypeOK, CalmObjects, pc # "idle" \/ pod # None
    PROVE  validation # None
BY DEF TypeOK, CalmObjects, Untouched

\* The worker comes to rest, and the pod is what it was, is stopped, or is new.
LEMMA PodStepCalm ==
    ASSUME TypeOK, CalmObjects, pc \in {"delete", "pod", "recreate"},
           UNCHANGED <<validation, config, seen>>,
           \/ stale' = stale
           \/ stale' = stale \cup {"pod"},
           \/ pc' = "idle" /\ job' = None
           \/ pc' = "recreate" /\ job' = job,
           pod' # None => \/ /\ pod # None
                             /\ pod'.hash = pod.hash
                             /\ pod'.phase = pod.phase
                          \/ pod'.hash = job.spec /\ pod'.phase = "pending"
    PROVE  CalmObjects'
<1>1. validation # None /\ validation' # None /\ job # None
  BY ValidationThere DEF TypeOK
<1>2. Rendered /\ Follows /\ config = [content |-> job.spec]
  BY <1>1 DEF CalmObjects, Rendered
<1>3. Rendered'
  BY <1>2 DEF Rendered
<1>4. Fits(pod)'
  BY <1>1, <1>2 DEF Follows, Fits, Informed
<1>5. Fits(seen["pod"])'
  BY <1>1, <1>2 DEF Follows, Fits, Informed
<1>6. Follows'
  BY <1>1, <1>2, <1>4, <1>5 DEF Follows, Fits, Informed
<1>7. Judged(validation') => Settled'
  BY <1>1 DEF CalmObjects, Settled, Informed, Judged
<1> QED BY <1>1, <1>3, <1>6, <1>7 DEF CalmObjects, Judged

\* The steps of the worker.
LEMMA ReconcileCalm ==
    ASSUME IInv, calm, CalmInv, Reconcile, calm'
    PROVE  Accepted(spec') /\ CalmRequests' /\ CalmObjects'
<1> USE DEF apiVars, objectVars, bounds
<1>a. TypeOK /\ Reads /\ Accepted(spec) /\ CalmRequests /\ CalmObjects
  BY DEF IInv, CalmInv
<1>b. Rendered
  BY <1>a DEF CalmObjects
<1>1. CASE StartReconcile
  <2>0. UNCHANGED <<spec, request, validation, config, pod, seen, stale>>
    BY <1>1 DEF StartReconcile
  <2>1. CASE UNCHANGED <<pc, job>>
    BY <1>a, <2>0, <2>1, RequestsSame, ObjectsSame
  <2>2. CASE /\ seen["validation"] # None
             /\ job' = [spec |-> seen["validation"].spec,
                        fresh |-> "validation" \notin stale]
             /\ pc' = "config"
    <3>1. validation # None /\ validation' # None
      BY <1>a, <2>0, <2>2 DEF CalmObjects, Untouched, Kinds
    <3>2. job'.spec = seen["validation"].spec
      BY <2>2
    <3>3. Rendered'
      BY <1>b, <2>0, <2>2 DEF Rendered
    <3>4. Follows /\ (Judged(validation) => Settled)
      BY <1>a, <3>1 DEF CalmObjects
    <3>5. Follows'
      BY <2>0, <2>2, <3>2, <3>4 DEF Follows, Fits, Informed
    <3>6. Judged(validation') => Settled'
      BY <2>0, <3>2, <3>4 DEF Settled, Informed, Judged
    <3>7. CalmObjects'
      BY <3>1, <3>3, <3>5, <3>6 DEF CalmObjects, Judged
    <3> QED BY <1>a, <2>0, <3>7, RequestsSame
  <2> QED BY <1>1, <2>1, <2>2 DEF StartReconcile
<1>2. CASE ReconcileConfigMap
  <2>0. /\ pc = "config" /\ UNCHANGED <<spec, request, validation, pod, seen>>
        /\ validation # None /\ job # None
    BY <1>2, <1>a, ValidationThere DEF ReconcileConfigMap, TypeOK
  <2>1. Follows /\ (Judged(validation) => Settled)
    BY <1>a, <2>0 DEF CalmObjects
  <2>2. CASE End(TRUE) /\ UNCHANGED <<config, stale>>
    <3>1. Rendered'
      BY <1>b, <2>0, <2>2 DEF Rendered, End
    <3>2. Follows'
      BY <2>0, <2>1, <2>2 DEF Follows, Fits, Informed, End
    <3>3. Judged(validation') => Settled'
      BY <2>0, <2>1, <2>2 DEF Settled, Informed, Judged, End
    <3>4. CalmObjects'
      BY <2>0, <3>1, <3>2, <3>3 DEF CalmObjects, Judged
    <3> QED BY <1>a, <2>0, <3>4, RequestsSame
  <2>3. CASE pc' = "finish" /\ UNCHANGED job
    <3>1. /\ config' = [content |-> job.spec]
          /\ \/ "config" \in stale'
             \/ seen["config"] = config'
      BY <1>2, <1>b, <2>3 DEF ReconcileConfigMap, Rendered, Stale, End
    <3>2. Rendered'
      BY <2>0, <2>3, <3>1 DEF Rendered
    <3>3. Follows'
      BY <2>0, <2>1, <2>3, <3>1 DEF Follows, Fits, Informed
    <3>4. Judged(validation') => Settled'
      BY <2>0, <2>1, <2>3, <3>1 DEF Settled, Informed, Judged
    <3>5. CalmObjects'
      BY <2>0, <3>2, <3>3, <3>4 DEF CalmObjects, Judged
    <3> QED BY <1>a, <2>0, <3>5, RequestsSame
  <2> QED BY <1>2, <2>2, <2>3 DEF ReconcileConfigMap
<1>3. CASE FinishValidation
  <2>0. /\ pc = "finish" /\ UNCHANGED <<spec, config, pod, seen>>
        /\ validation # None /\ job # None
    BY <1>3, <1>a, ValidationThere DEF FinishValidation, TypeOK
  <2>1. Follows /\ (Judged(validation) => Settled)
    BY <1>a, <2>0 DEF CalmObjects
  <2>2. CASE /\ HasOutcome(seen["pod"])
             /\ job.fresh
             /\ validation' =
                   [validation EXCEPT
                       !.current = TRUE, !.revision = {job.spec},
                       !.verdict = IF seen["pod"].phase = "succeeded"
                                   THEN "valid" ELSE "invalid"]
             /\ Stale("validation")
             /\ request' = Outdated
             /\ pc' = "delete"
             /\ UNCHANGED job
    <3>1. validation \in RpaasValidation /\ job.spec = validation.spec
      BY <1>a, <2>0, <2>2 DEF Reads, TypeOK
    <3>2. /\ validation' \in RpaasValidation
          /\ validation'.spec = validation.spec
          /\ validation'.current
          /\ validation'.verdict = IF seen["pod"].phase = "succeeded"
                                   THEN "valid" ELSE "invalid"
      BY <2>2, <3>1 DEF RpaasValidation, Verdicts
    <3>3. validation' # None /\ Judged(validation')
      BY <3>2, NoneIsNoObject DEF Judged
    <3>4. seen["pod"] # None /\ seen["pod"].hash = validation.spec
      BY <2>2, <3>1 DEF HasOutcome
    <3>5. Rendered'
      BY <1>b, <2>0, <2>2 DEF Rendered, Stale
    <3>6. Follows'
      BY <2>0, <2>1, <2>2, <3>2 DEF Follows, Fits, Informed
    <3>7. Settled'
      BY <2>0, <2>1, <2>2, <3>2, <3>4 DEF Follows, Fits, Informed, Settled
    <3>8. CalmObjects'
      BY <3>3, <3>5, <3>6, <3>7 DEF CalmObjects
    <3>9. ASSUME NEW q \in Requests
          PROVE  /\ request'[q] = Idle <=> request[q] = Idle
                 /\ Asks(request'[q], spec', validation')
      <4>1. CASE request[q] = Idle
        BY <2>2, <4>1 DEF Outdated, Asks
      <4>2. CASE request[q] # Idle
        <5>1. request[q] \in Request /\ Asks(request[q], spec, validation)
          BY <1>a, <4>2 DEF TypeOK, CalmRequests
        <5>2. request'[q] = [request[q] EXCEPT !.fresh = FALSE]
          BY <2>2, <4>2 DEF Outdated
        <5>3. /\ request'[q] \in Request
              /\ request'[q].stage = request[q].stage
              /\ request'[q].want = request[q].want
              /\ request'[q].edit = request[q].edit
              /\ request'[q].number = request[q].number
          BY <5>1, <5>2 DEF Request
        <5>4. Asks(request'[q], spec', validation')
          BY <2>0, <3>2, <3>3, <4>2, <5>1, <5>3 DEF Asks
        <5> QED BY <4>2, <5>3, <5>4, NoneIsNoObject
      <4> QED BY <4>1, <4>2
    <3>10. Alone'
      BY <1>a, <3>9 DEF CalmRequests, Alone
    <3>11. Answered'
      BY <3>3 DEF Answered, Judged
    <3>12. CalmRequests'
      BY <3>9, <3>10, <3>11 DEF CalmRequests
    <3> QED BY <1>a, <2>0, <3>8, <3>12
  <2>3. CASE End(TRUE) /\ UNCHANGED <<validation, stale, request>>
    <3>1. Rendered'
      BY <1>b, <2>0, <2>3 DEF Rendered, End
    <3>2. Follows'
      BY <2>0, <2>1, <2>3 DEF Follows, Fits, Informed, End
    <3>3. Judged(validation') => Settled'
      BY <2>0, <2>1, <2>3 DEF Settled, Informed, Judged, End
    <3>4. CalmObjects'
      BY <2>0, <2>3, <3>1, <3>2, <3>3 DEF CalmObjects, Judged
    <3> QED BY <1>a, <2>0, <2>3, <3>4, RequestsSame
  <2>4. CASE pc' = "pod" /\ UNCHANGED <<validation, stale, request, job>>
    <3>1. Rendered'
      BY <1>b, <2>0, <2>4 DEF Rendered
    <3>2. Follows'
      BY <2>0, <2>1, <2>4 DEF Follows, Fits, Informed
    <3>3. Judged(validation') => Settled'
      BY <2>0, <2>1, <2>4 DEF Settled, Informed, Judged
    <3>4. CalmObjects'
      BY <2>0, <2>4, <3>1, <3>2, <3>3 DEF CalmObjects, Judged
    <3> QED BY <1>a, <2>0, <2>4, <3>4, RequestsSame
  <2> QED BY <1>3, <2>2, <2>3, <2>4 DEF FinishValidation
<1>4. CASE DeletePod \/ ReconcilePod \/ RecreatePod
  <2>1. /\ UNCHANGED <<spec, request, validation, config, seen>>
        /\ pc \in {"delete", "pod", "recreate"}
    BY <1>4 DEF DeletePod, ReconcilePod, RecreatePod
  <2>2. \/ stale' = stale
        \/ stale' = stale \cup {"pod"}
    BY <1>4 DEF DeletePod, ReconcilePod, RecreatePod, DeletePodNow, Stale
  <2>3. \/ pc' = "idle" /\ job' = None
        \/ pc' = "recreate" /\ job' = job
    BY <1>4 DEF DeletePod, ReconcilePod, RecreatePod, End
  <2>4. \/ pod' = pod
        \/ pod' = NewPod
        \/ pod # None /\ pod' \in {None, [pod EXCEPT !.terminating = TRUE]}
    BY <1>4 DEF DeletePod, ReconcilePod, RecreatePod, DeletePodNow
  <2>5. pod # None =>
           /\ [pod EXCEPT !.terminating = TRUE].hash = pod.hash
           /\ [pod EXCEPT !.terminating = TRUE].phase = pod.phase
    BY <1>a DEF TypeOK, Pod
  <2>6. NewPod.hash = job.spec /\ NewPod.phase = "pending"
    BY DEF NewPod
  <2>7. CalmObjects'
    BY <1>a, <2>1, <2>2, <2>3, <2>4, <2>5, <2>6, PodStepCalm
  <2> QED BY <1>a, <2>1, <2>7, RequestsSame
<1> QED BY <1>1, <1>2, <1>3, <1>4 DEF Reconcile

\* The steps of the caches and of the kubelet; after a failure all is lost.
LEMMA EnvironmentCalm ==
    ASSUME IInv, calm, CalmInv, calm',
           \/ \E kind \in Kinds : SyncCache(kind)
           \/ Resync \/ CallFails \/ Crash \/ PodRuns \/ PodLost \/ PodGone
    PROVE  Accepted(spec') /\ CalmRequests' /\ CalmObjects'
<1> USE DEF apiVars, objectVars, bounds, workerVars
<1>a. TypeOK /\ Accepted(spec) /\ CalmRequests /\ CalmObjects
  BY DEF IInv, CalmInv
<1>b. Rendered
  BY <1>a DEF CalmObjects
<1>1. ASSUME NEW kind \in Kinds, SyncCache(kind)
      PROVE  Accepted(spec') /\ CalmRequests' /\ CalmObjects'
  <2>0. UNCHANGED <<spec, request, validation, config, pod, pc, job>>
    BY <1>1 DEF SyncCache
  <2>1. /\ seen \in [Kinds -> RpaasValidation \cup Config \cup Pod \cup {None}]
        /\ Kinds = {"validation", "config", "pod"}
    BY <1>a DEF TypeOK, Kinds
  <2>2. /\ seen'["validation"] \in {seen["validation"], validation}
        /\ seen'["pod"] \in {seen["pod"], pod}
        /\ seen'["config"] \in {seen["config"], config}
        /\ kind = "config" => seen'["config"] = config
        /\ kind # "config" => seen'["config"] = seen["config"]
    BY <1>1, <2>1 DEF SyncCache
  <2>3. Rendered'
    BY <1>1, <1>b, <2>0, <2>2 DEF SyncCache, Rendered
  <2>4. validation = None => Untouched'
    BY <1>a, <2>0, <2>1, <2>2 DEF CalmObjects, Untouched
  <2>5. ASSUME validation # None
        PROVE  Follows'
    <3>1. Follows
      BY <1>a, <2>5 DEF CalmObjects
    <3>2. Informed => Informed'
      BY <2>0, <2>2, <2>5 DEF Informed
    <3>3. Fits(pod)'
      BY <2>0, <3>1, <3>2 DEF Follows, Fits
    <3>4. Fits(seen["pod"])'
      BY <2>0, <2>2, <3>1, <3>2 DEF Follows, Fits
    <3> QED
      BY <2>0, <2>2, <3>1, <3>2, <3>3, <3>4 DEF Follows
  <2>6. ASSUME Judged(validation)
        PROVE  Settled'
    <3>1. Settled /\ validation # None
      BY <1>a, <2>6 DEF CalmObjects, Judged
    <3>2. Informed'
      BY <2>0, <2>2, <3>1 DEF Settled, Informed
    <3> QED BY <2>0, <2>2, <3>1, <3>2 DEF Settled
  <2>7. CalmObjects'
    BY <2>0, <2>3, <2>4, <2>5, <2>6 DEF CalmObjects, Judged
  <2> QED BY <1>a, <2>0, <2>7, RequestsSame
<1>2. CASE Resync
  BY <1>2, <1>a, RequestsSame, ObjectsSame DEF Resync
<1>3. CASE CallFails \/ Crash
  BY <1>3 DEF CallFails, Crash, Disturbed
<1>4. CASE PodRuns \/ PodLost \/ PodGone
  <2>0. /\ UNCHANGED <<spec, request, validation, config, seen, pc, job>>
        /\ stale' = stale \cup {"pod"} /\ pod # None
    BY <1>4 DEF PodRuns, PodLost, PodGone, Stale
  <2>1. validation # None /\ Follows /\ (Judged(validation) => Settled)
    BY <1>a, <2>0, ValidationThere DEF CalmObjects
  <2>2. pod' # None => /\ pod'.hash = pod.hash
                       /\ \/ pod.hash # validation.spec
                          \/ pod'.phase = "succeeded" => Accepted(validation.spec)
    <3>1. CASE PodGone
      BY <3>1 DEF PodGone
    <3>2. CASE PodRuns
      <4>1. PICK outcome \in Outcomes(pod, config.content) :
               pod' = [pod EXCEPT !.phase = outcome]
        BY <3>2 DEF PodRuns
      <4>2. pod'.hash = pod.hash /\ pod'.phase = outcome
        BY <1>a, <2>0, <4>1 DEF TypeOK, Pod
      <4>3. ASSUME pod.hash = validation.spec, outcome = "succeeded"
            PROVE  Accepted(validation.spec)
        <5>1. config.content = validation.spec
          BY <2>0, <2>1, <4>3 DEF Follows, Fits
        <5>2. outcome \in {IF Accepted(validation.spec) THEN "succeeded" ELSE "failed"}
                             \cup (IF pod.terminating THEN {"failed"} ELSE {})
          BY <4>1, <4>3, <5>1 DEF Outcomes
        <5> QED BY <4>3, <5>2
      <4> QED BY <4>2, <4>3
    <3>3. CASE PodLost
      <4>1. pod' = [pod EXCEPT !.phase = "lost"]
        BY <3>3 DEF PodLost
      <4>2. pod'.hash = pod.hash /\ pod'.phase = "lost"
        BY <1>a, <2>0, <4>1 DEF TypeOK, Pod
      <4> QED BY <4>2
    <3> QED BY <1>4, <3>1, <3>2, <3>3
  <2>3. Rendered'
    BY <1>b, <2>0 DEF Rendered
  <2>4. Fits(pod)' /\ Fits(seen["pod"])'
    BY <2>0, <2>1, <2>2 DEF Follows, Fits, Informed
  <2>5. Follows'
    BY <2>0, <2>1, <2>2, <2>4 DEF Follows, Informed
  <2>6. Judged(validation') => Settled'
    BY <2>0, <2>1, <2>2 DEF Settled, Informed, Judged
  <2>7. CalmObjects'
    BY <2>0, <2>1, <2>3, <2>5, <2>6 DEF CalmObjects, Judged
  <2> QED BY <1>a, <2>0, <2>7, RequestsSame
<1> QED BY <1>1, <1>2, <1>3, <1>4

\* Calm does not come back.
LEMMA CalmBefore ==
    ASSUME [Next]_vars, calm'
    PROVE  calm
BY DEF Next, API, Reconcile, BeginRequest, GetValidation, CreateValidation,
       UpdateValidation, Poll, Timeout, ApplyEdit, CleanUp, SyncCache, Resync,
       StartReconcile, ReconcileConfigMap, FinishValidation, DeletePod,
       ReconcilePod, RecreatePod, CallFails, Crash, PodRuns,
       PodLost, PodGone, Disturbed, vars

LEMMA CalmNext == IInv /\ CalmInv /\ [Next]_vars => CalmInv'
<1> SUFFICES ASSUME IInv, CalmInv, [Next]_vars, calm'
             PROVE  Accepted(spec') /\ CalmRequests' /\ CalmObjects'
  BY DEF CalmInv
<1>0. calm
  BY CalmBefore
<1>1. ASSUME NEW r \in Requests, API(r)
      PROVE  Accepted(spec') /\ CalmRequests' /\ CalmObjects'
  BY <1>0, <1>1, APICalm
<1>2. CASE Reconcile
  BY <1>0, <1>2, ReconcileCalm
<1>3. CASE \/ \E kind \in Kinds : SyncCache(kind)
           \/ Resync \/ CallFails \/ Crash \/ PodRuns \/ PodLost \/ PodGone
  BY <1>0, <1>3, EnvironmentCalm
<1>4. CASE UNCHANGED vars
  <2>1. UNCHANGED <<spec, request, validation, objectVars, seen, stale, pc, job>>
    BY <1>4 DEF vars, apiVars, objectVars, workerVars
  <2> QED BY <1>0, <2>1, RequestsSame, ObjectsSame DEF CalmInv
<1> QED BY <1>1, <1>2, <1>3, <1>4 DEF Next

LEMMA CalmInit == Init => CalmInv
<1> SUFFICES ASSUME Init PROVE CalmInv
  OBVIOUS
<1>1. Accepted(spec)
  <2>1. BlocksIn({}) = {}
    BY DEF BlocksIn
  <2> QED BY <2>1, ConstantsAssumption DEF Init, Accepted
<1>2. CalmRequests
  BY DEF Init, CalmRequests, Alone, Answered, Asks
<1>3. CalmObjects
  BY DEF Init, CalmObjects, Rendered, Untouched, Judged, Kinds
<1> QED BY <1>1, <1>2, <1>3 DEF CalmInv

\* As long as requests come one at a time and wait for their answers, no call
\* fails and the cache of ConfigMaps keeps up, a verdict is what nginx says of
\* the spec, and the instance only gets specs that nginx accepts: for any
\* blocks, files and number of edits, and although the operator may work on an
\* old spec with an old pod (validationManager and the validation reconciler).
THEOREM CalmIsSoundAlways == Spec => []CalmIsSound
<1>1. CalmInv => CalmIsSound
  BY DEF CalmInv, CalmIsSound, CalmObjects, Settled, VerdictIsSound
<1>2. Spec => []IInv
  BY IInvInit, IInvNext, PTL DEF Spec
<1> QED BY <1>1, <1>2, CalmInit, CalmNext, PTL DEF Spec

============================================================================
