--------------------------- MODULE PodAccess_proofs ---------------------------
(***************************************************************************)
(* For any pods, sessions, bounds and stored variants: a request that      *)
(* follows logs brings the process down only once its client, its watch or *)
(* a pod is gone, and a purge that is answered without an error is         *)
(* complete on the pods that were reported to it.  And for any clients and clusters, what a function of a       *)
(* client returns is what became of the operation that it stands for.      *)
(***************************************************************************)
EXTENDS PodAccess, WebApi, TLAPS

----------------------------------------------------------------------------
(* Logs. *)

FollowType ==
    [pc : {"idle", "select", "returned", "dead"}, cancelled : BOOLEAN, lost : BOOLEAN,
     router : {"off", "select", "add", "remove", "error"},
     event : Pods \cup {NoPod}, adding : Pods \cup {NoPod}, removing : Pods \cup {NoPod},
     announced : SUBSET Pods, tails : SUBSET Pods, using : SUBSET {"add", "remove"}]

Phases == {"new", "pending", "running", "gone"}
SomeGone == \E p \in Pods : phase[p] = "gone"

\* watchLogs has returned, or the router is about to report an error, only when
\* the client is gone or the watch is lost; and there is something to remove
\* only when a pod is gone.
FollowInv ==
    /\ follow \in FollowType /\ phase \in [Pods -> Phases]
    /\ follow.pc = "returned" \/ follow.router = "error" => ChannelsClosed
    /\ \A p \in follow.announced : phase[p] \in {"running", "gone"}
    /\ \/ follow.router = "remove" \/ follow.removing # NoPod \/ "remove" \in follow.using
       => SomeGone
    /\ "add" \in follow.using => follow.adding \in Pods /\ follow.adding # NoPod
    /\ DeathHasACause

LEMMA FollowInit == Init => FollowInv
BY DEF Init, IdleFollow, FollowInv, FollowType, Phases, ChannelsClosed, DeathHasACause

\* The process dies of what explains it.
LEMMA DieKeeps ==
    ASSUME FollowInv, Die, UNCHANGED phase, ChannelsClosed \/ SomeGone
    PROVE  FollowInv'
<1>1. follow' = [pc |-> "dead", cancelled |-> follow.cancelled, lost |-> follow.lost,
                 router |-> "off", event |-> NoPod, adding |-> NoPod, removing |-> NoPod,
                 announced |-> {}, tails |-> {}, using |-> {}]
  BY DEF Die, IdleFollow
<1>2. follow.cancelled \in BOOLEAN /\ follow.lost \in BOOLEAN
  BY DEF FollowInv, FollowType
<1>3. follow' \in FollowType
  BY <1>1, <1>2 DEF FollowType
<1> QED
  BY <1>1, <1>3 DEF FollowInv, ChannelsClosed, DeathHasACause, SomeGone

\* Each step of the goroutines of watchLogs.
LEMMA FollowStep == ASSUME FollowInv, LogStep PROVE FollowInv'
<1> USE DEF FollowInv, FollowType, ChannelsClosed, DeathHasACause, SomeGone
<1>0. UNCHANGED phase
  BY DEF LogStep, WatchLogs, ListLogs, Cancel, LoseWatch, RouteTarget, Send, UseTails,
         AddTail, RemoveTail, FollowReturns, podVars
<1>1. CASE WatchLogs
  BY <1>0, <1>1 DEF WatchLogs, IdleFollow
<1>2. CASE ListLogs
  BY <1>0, <1>2 DEF ListLogs
<1>3. CASE Cancel
  BY <1>0, <1>3 DEF Cancel
<1>4. CASE LoseWatch
  BY <1>0, <1>4 DEF LoseWatch
<1>5. CASE RouteTarget
  <2>1. CASE \E p \in Running \ follow.announced :
               follow' = [follow EXCEPT !.router = "add", !.event = p,
                                        !.announced = @ \cup {p}]
    <3>1. PICK p \in Running :
             follow' = [follow EXCEPT !.router = "add", !.event = p,
                                      !.announced = @ \cup {p}]
      BY <2>1
    <3>2. p \in Pods /\ phase[p] = "running" /\ follow.announced \cup {p} \in SUBSET Pods
      BY DEF Running
    <3> QED
      BY <1>0, <3>1, <3>2
  <2>2. CASE \E p \in follow.announced \ Running :
               follow' = [follow EXCEPT !.router = "remove", !.event = p,
                                        !.announced = @ \ {p}]
    <3>1. PICK p \in follow.announced \ Running :
             follow' = [follow EXCEPT !.router = "remove", !.event = p,
                                      !.announced = @ \ {p}]
      BY <2>2
    <3>2. p \in Pods /\ phase[p] = "gone"
      BY DEF Running
    <3> QED
      BY <1>0, <3>1, <3>2
  <2>3. CASE ChannelsClosed /\ follow' = [follow EXCEPT !.router = "error"]
    BY <1>0, <2>3
  <2>4. CASE follow.cancelled /\ follow' = [follow EXCEPT !.router = "off"]
    BY <1>0, <2>4
  <2> QED
    BY <1>5, <2>1, <2>2, <2>3, <2>4 DEF RouteTarget
<1>6. CASE Send
  <2>1. CASE follow.pc = "returned" /\ Die
    BY <1>0, <2>1, DieKeeps
  <2>2. CASE follow.adding = NoPod
             /\ follow' = [follow EXCEPT !.router = "select", !.adding = follow.event]
    BY <1>0, <2>2
  <2>3. CASE follow.router = "remove"
             /\ follow' = [follow EXCEPT !.router = "select", !.removing = follow.event]
    BY <1>0, <2>3
  <2>4. CASE follow.router = "error"
             /\ follow' = [follow EXCEPT !.router = "off", !.pc = "returned"]
    BY <1>0, <2>4
  <2> QED
    BY <1>6, <2>1, <2>2, <2>3, <2>4 DEF Send
<1>7. ASSUME NEW routine \in {"add", "remove"}, UseTails(routine) PROVE FollowInv'
  <2>1. /\ routine \notin follow.using
        /\ routine = "remove" => follow.removing # NoPod
        /\ routine = "add" => follow.adding # NoPod
    BY <1>7 DEF UseTails
  <2>2. CASE follow' = [follow EXCEPT !.using = @ \cup {routine}]
    BY <1>0, <2>1, <2>2
  <2>3. CASE follow.using # {} /\ Die
    <3>1. routine = "add" => "remove" \in follow.using
      BY <2>1, <2>3
    <3>2. SomeGone
      BY <2>1, <3>1
    <3> QED
      BY <1>0, <2>3, <3>2, DieKeeps
  <2> QED
    BY <1>7, <2>2, <2>3 DEF UseTails
<1>8. CASE AddTail
  <2>1. follow.tails \cup {follow.adding} \in SUBSET Pods
    BY <1>8 DEF AddTail
  <2> QED
    BY <1>0, <1>8, <2>1 DEF AddTail
<1>9. CASE RemoveTail
  BY <1>0, <1>9 DEF RemoveTail
<1>10. CASE FollowReturns
  BY <1>0, <1>10 DEF FollowReturns
<1> QED
  BY <1>1, <1>2, <1>3, <1>4, <1>5, <1>6, <1>7, <1>8, <1>9, <1>10 DEF LogStep

\* Pods come and go, and one that is gone stays so.
LEMMA FollowPods ==
    ASSUME FollowInv, NEW p \in Pods, PodAppears(p) \/ PodRuns(p) \/ PodDies(p)
    PROVE  FollowInv'
<1>1. UNCHANGED follow
  BY DEF PodAppears, PodRuns, PodDies, cacheVars
<1>2. PICK f \in Phases : /\ phase' = [phase EXCEPT ![p] = f] /\ phase[p] # "gone"
                          /\ phase[p] = "running" => f = "gone"
  BY DEF PodAppears, PodRuns, PodDies, Phases, Existing
<1>3. phase' \in [Pods -> Phases]
  BY <1>2 DEF FollowInv
<1>4. \A q \in Pods : phase[q] = "gone" => phase'[q] = "gone"
  BY <1>2 DEF FollowInv
<1>5. \A q \in Pods : phase[q] = "running" => phase'[q] \in {"running", "gone"}
  BY <1>2 DEF FollowInv
<1>6. \A q \in follow.announced : q \in Pods /\ phase'[q] \in {"running", "gone"}
  BY <1>4, <1>5 DEF FollowInv, FollowType
<1> QED
  BY <1>1, <1>3, <1>4, <1>6 DEF FollowInv, ChannelsClosed, DeathHasACause, SomeGone

\* All other steps leave pods and the request that follows logs alone.
LEMMA FollowElsewhere ==
    ASSUME \/ \E p \in Pods, c \in Ephemeral : ContainerStarts(p, c) \/ ContainerEnds(p, c)
           \/ \E s \in Sessions : SessionStep(s)
           \/ PurgeStep
    PROVE  UNCHANGED <<phase, follow>>
<1>1. CASE \E p \in Pods, c \in Ephemeral : ContainerStarts(p, c) \/ ContainerEnds(p, c)
  BY <1>1 DEF ContainerStarts, ContainerEnds
<1>2. CASE \E s \in Sessions : SessionStep(s)
  BY <1>2 DEF SessionStep, OpenSession, CheckPodOnInstance, GetContainer, podVars,
              PatchEphemeralContainers, WaitForContainer, Notified, ExecutorStream
<1>3. CASE PurgeStep
  BY <1>3 DEF PurgeStep, GetInstanceStatus, ListPods, BeginPurge, PurgeCache, PurgeRequest,
              PodPurged, podVars
<1> QED
  BY <1>1, <1>2, <1>3

\* The API process dies of a request that follows logs only once its client, its
\* watch or a pod is gone, for any pods and however they come: watchLogs returns,
\* and closes its channels, for no other reason than the first two, and without
\* the third no goroutine removes a tail while another one adds its own.
THEOREM DeathHasACauseAlways == Spec => []DeathHasACause
<1>1. FollowInv /\ [Next]_vars => FollowInv'
  <2> SUFFICES ASSUME FollowInv, [Next]_vars PROVE FollowInv'
    OBVIOUS
  <2>1. CASE LogStep
    BY <2>1, FollowStep
  <2>2. CASE \E p \in Pods : PodAppears(p) \/ PodRuns(p) \/ PodDies(p)
    BY <2>2, FollowPods
  <2>3. CASE UNCHANGED <<phase, follow>>
    BY <2>3 DEF FollowInv, ChannelsClosed, DeathHasACause, SomeGone
  <2>4. CASE UNCHANGED vars
    BY <2>3, <2>4 DEF vars
  <2> QED
    BY <2>1, <2>2, <2>3, <2>4, FollowElsewhere DEF Next
<1>2. FollowInv => DeathHasACause
  BY DEF FollowInv
<1> QED
  BY <1>1, <1>2, FollowInit, PTL DEF Spec

----------------------------------------------------------------------------
(* Purges. *)

PurgeType ==
    [pc : {"idle", "pods", "requests", "answered"}, by : {"none", "manager", "purger"},
     preserve : BOOLEAN, reported : SUBSET Pods, todo : SUBSET Pods, pod : Pods \cup {NoPod}, left : Seq(Variants),
     found : BOOLEAN, count : Nat, failed : BOOLEAN]

Elements(s) == {s[i] : i \in 1..Len(s)}

PurgeTyped ==
    /\ phase \in [Pods -> Phases]
    /\ stale \in [Pods -> SUBSET Variants]
    /\ purge \in PurgeType

\* What a pod still has of the object is of a variant that is asked for.
OnlyTargets ==
    \A p \in Pods : stale[p] \subseteq Elements(Targets(purge.preserve))

\* As long as nothing failed, what is still stored on the pods that were reported
\* is on one that is to come, or on the one that is being asked, in a variant that is to come.
StillToDo ==
    ~purge.failed =>
        \A p \in purge.reported : stale[p] # {} =>
            \/ p \in purge.todo
            \/ purge.pc = "requests" /\ p = purge.pod /\ stale[p] \subseteq Elements(purge.left)

PurgeInv ==
    /\ PurgeTyped
    /\ \A p \in Pods : p \notin Running => stale[p] = {}
    /\ purge.pc = "idle" => \A p \in Pods : stale[p] = {}
    /\ purge.pc = "answered" => purge.todo = {}
    /\ OnlyTargets
    /\ StillToDo

LEMMA HeadAndTail ==
    ASSUME NEW S, NEW s \in Seq(S), s # <<>>
    PROVE  /\ Head(s) \in S /\ Tail(s) \in Seq(S)
           /\ Elements(s) \subseteq {Head(s)} \cup Elements(Tail(s))
<1>1. Head(s) = s[1] /\ Tail(s) \in Seq(S) /\ Len(Tail(s)) = Len(s) - 1
  OBVIOUS
<1>2. \A i \in 1..Len(Tail(s)) : Tail(s)[i] = s[i + 1]
  OBVIOUS
<1>3. ASSUME NEW i \in 1..Len(s), i # 1 PROVE s[i] \in Elements(Tail(s))
  <2>1. i - 1 \in 1..Len(Tail(s))
    BY <1>1, <1>3
  <2>2. Tail(s)[i - 1] = s[i]
    BY <1>2, <2>1
  <2> QED
    BY <2>1, <2>2 DEF Elements
<1> QED
  BY <1>1, <1>3 DEF Elements

\* The requests of a purge cover every variant that may be stored under its key.
LEMMA TargetsCover ==
    ASSUME NEW preserve \in BOOLEAN
    PROVE  /\ Targets(preserve) \in Seq(Variants)
           /\ Stores(preserve) \subseteq Elements(Targets(preserve))
<1>1. CASE preserve
  <2>1. Targets(preserve) = << <<"gzip", "path">>, <<"identity", "path">> >>
    BY <1>1 DEF Targets
  <2>2. Targets(preserve) \in Seq(Variants)
    BY <2>1 DEF Variants, Encodings
  <2>3. Elements(Targets(preserve)) = {<<"gzip", "path">>, <<"identity", "path">>}
    <3>1. Len(Targets(preserve)) = 2
      BY <2>1
    <3>2. 1..2 = {1, 2}
      OBVIOUS
    <3> QED
      BY <2>1, <3>1, <3>2 DEF Elements
  <2>4. \A v \in Stores(preserve) : v[2] = "path" /\ v \in Variants
    BY <1>1, StoredAssumption DEF Stores
  <2> QED
    BY <2>2, <2>3, <2>4 DEF Variants, Encodings
<1>2. CASE ~preserve
  <2>1. Targets(preserve) = << <<"gzip", "http">>, <<"gzip", "https">>,
                               <<"identity", "http">>, <<"identity", "https">> >>
    BY <1>2 DEF Targets
  <2>2. Targets(preserve) \in Seq(Variants)
    BY <2>1 DEF Variants, Encodings
  <2>3. Elements(Targets(preserve)) =
           {<<"gzip", "http">>, <<"gzip", "https">>,
            <<"identity", "http">>, <<"identity", "https">>}
    <3>1. Len(Targets(preserve)) = 4
      BY <2>1
    <3>2. 1..4 = {1, 2, 3, 4}
      OBVIOUS
    <3> QED
      BY <2>1, <3>1, <3>2 DEF Elements
  <2>4. \A v \in Stores(preserve) : v[2] # "path" /\ v \in Variants
    BY <1>2, StoredAssumption DEF Stores
  <2> QED
    BY <2>2, <2>3, <2>4 DEF Variants, Encodings
<1> QED
  BY <1>1, <1>2

LEMMA PurgeInit == Init => PurgeInv
BY DEF Init, IdlePurge, PurgeInv, PurgeTyped, PurgeType, Phases, OnlyTargets, StillToDo, Running

\* Pods that appear, run and die: a new one has stored nothing.
LEMMA PodsKeep ==
    ASSUME PurgeInv, NEW p \in Pods, PodAppears(p) \/ PodRuns(p) \/ PodDies(p)
    PROVE  PurgeInv'
<1> USE DEF PurgeInv, PurgeTyped, Phases, Running, Existing
<1>1. UNCHANGED purge
  BY DEF PodAppears, PodRuns, PodDies, cacheVars
<1>2. CASE PodAppears(p) \/ PodRuns(p)
  <2>1. UNCHANGED stale /\ phase' \in [Pods -> Phases]
    BY <1>2 DEF PodAppears, PodRuns, cacheVars
  <2>2. \A q \in Pods : q \notin Running' => stale'[q] = {}
    BY <1>2, <2>1 DEF PodAppears, PodRuns
  <2> QED
    BY <1>1, <2>1, <2>2 DEF OnlyTargets, StillToDo
<1>3. CASE PodDies(p)
  <2>1. stale' = [stale EXCEPT ![p] = {}] /\ phase' = [phase EXCEPT ![p] = "gone"]
    BY <1>3 DEF PodDies
  <2>2. \A q \in Pods : stale'[q] = {} \/ (q # p /\ stale'[q] = stale[q])
    BY <2>1
  <2>3. \A q \in Pods : q \notin Running' => stale'[q] = {}
    BY <2>1
  <2>4. OnlyTargets' /\ StillToDo'
    BY <1>1, <2>2 DEF OnlyTargets, StillToDo, PurgeType
  <2> QED
    BY <1>1, <2>1, <2>2, <2>3, <2>4
<1> QED
  BY <1>2, <1>3

\* A purge begins with the pods that are reported, for what its targets cover.
LEMMA BeginKeeps ==
    ASSUME PurgeInv, NEW preserve \in BOOLEAN, NEW by \in {"manager", "purger"},
           NEW pods \in SUBSET Pods, BeginPurge(by, pods, preserve)
    PROVE  PurgeInv'
<1> USE DEF PurgeInv, PurgeTyped
<1>1. /\ purge' = [IdlePurge EXCEPT !.pc = "pods", !.by = by, !.preserve = preserve,
                                    !.reported = pods, !.todo = pods]
      /\ stale' \in [Pods -> SUBSET Stores(preserve)]
      /\ \A p \in Pods \ Running : stale'[p] = {}
      /\ UNCHANGED phase
  BY DEF BeginPurge, podVars
<1>2. /\ purge' \in PurgeType /\ purge'.preserve = preserve /\ purge'.pc = "pods"
      /\ purge'.todo = pods /\ purge'.reported = pods
  <2>1. purge' = [pc |-> "pods", by |-> by, preserve |-> preserve, reported |-> pods,
                  todo |-> pods, pod |-> NoPod, left |-> <<>>, found |-> FALSE, count |-> 0,
                  failed |-> FALSE]
    BY <1>1 DEF IdlePurge
  <2>2. <<>> \in Seq(Variants)
    OBVIOUS
  <2> QED
    BY <2>1, <2>2 DEF PurgeType
<1>3. Stores(preserve) \subseteq Variants
  BY StoredAssumption DEF Stores
<1>4. OnlyTargets'
  <2>1. \A p \in Pods : stale'[p] \subseteq Elements(Targets(preserve))
    BY <1>1, TargetsCover
  <2> QED
    BY <1>2, <2>1 DEF OnlyTargets
<1>5. StillToDo'
  BY <1>1, <1>2 DEF StillToDo
<1>6. \A p \in Pods : p \notin Running' => stale'[p] = {}
  BY <1>1 DEF Running
<1>7. PurgeTyped'
  BY <1>1, <1>2, <1>3
<1> QED
  BY <1>2, <1>4, <1>5, <1>6, <1>7

\* The next pod, with all the targets, or the end.
LEMMA PurgeCacheKeeps == ASSUME PurgeInv, PurgeCache PROVE PurgeInv'
<1> USE DEF PurgeInv, PurgeTyped
<1>0. UNCHANGED <<phase, stale>> /\ purge.pc = "pods"
  BY DEF PurgeCache, podVars
<1>1. CASE purge.todo = {} /\ purge' = [purge EXCEPT !.pc = "answered"]
  <2>1. /\ purge' \in PurgeType /\ purge'.preserve = purge.preserve
        /\ purge'.reported = purge.reported
        /\ purge'.todo = {} /\ purge'.failed = purge.failed /\ purge'.pc = "answered"
    BY <1>1 DEF PurgeType
  <2> QED
    BY <1>0, <1>1, <2>1 DEF OnlyTargets, StillToDo, Running
<1>2. ASSUME NEW p \in purge.todo,
             purge' = [purge EXCEPT !.pc = "requests", !.pod = p, !.todo = @ \ {p},
                                    !.left = Targets(purge.preserve), !.found = FALSE]
      PROVE  PurgeInv'
  <2>0. purge.preserve \in BOOLEAN /\ p \in Pods
    BY DEF PurgeType
  <2>1. Targets(purge.preserve) \in Seq(Variants)
    BY <2>0, TargetsCover
  <2>2. /\ purge' \in PurgeType /\ purge'.preserve = purge.preserve
        /\ purge'.reported = purge.reported
        /\ purge'.todo = purge.todo \ {p} /\ purge'.failed = purge.failed
        /\ purge'.pc = "requests" /\ purge'.pod = p
        /\ purge'.left = Targets(purge.preserve)
    BY <1>2, <2>0, <2>1 DEF PurgeType
  <2>3. OnlyTargets'
    BY <1>0, <2>2 DEF OnlyTargets
  <2>4. StillToDo'
    <3>1. purge.reported \subseteq Pods
      BY DEF PurgeType
    <3> QED
      BY <1>0, <2>2, <3>1 DEF OnlyTargets, StillToDo
  <2> QED
    BY <1>0, <2>2, <2>3, <2>4 DEF Running
<1> QED
  BY <1>1, <1>2 DEF PurgeCache

\* A request removes the variant it is about, or ends the purge with an error.
LEMMA PurgeRequestKeeps == ASSUME PurgeInv, PurgeRequest PROVE PurgeInv'
<1> USE DEF PurgeInv, PurgeTyped
<1> DEFINE p == purge.pod
           v == Head(purge.left)
<1>0. UNCHANGED phase /\ purge.pc = "requests" /\ purge.left # <<>>
  BY DEF PurgeRequest, podVars
<1>1. CASE /\ p \in Running
           /\ stale' = [stale EXCEPT ![p] = @ \ {v}]
           /\ purge' = [purge EXCEPT !.left = Tail(@), !.found = @ \/ v \in stale[p]]
  <2>0. p \in Pods /\ purge.left \in Seq(Variants) /\ purge.found \in BOOLEAN
    BY <1>1 DEF PurgeType, Running
  <2>1. /\ Tail(purge.left) \in Seq(Variants)
        /\ Elements(purge.left) \subseteq {v} \cup Elements(Tail(purge.left))
    BY <1>0, <2>0, HeadAndTail
  <2>2. (purge.found \/ v \in stale[p]) \in BOOLEAN
    BY <2>0
  <2>3. /\ purge' \in PurgeType /\ purge'.preserve = purge.preserve
        /\ purge'.reported = purge.reported
        /\ purge'.todo = purge.todo /\ purge'.failed = purge.failed
        /\ purge'.pc = "requests" /\ purge'.pod = p
        /\ purge'.left = Tail(purge.left)
    BY <1>0, <1>1, <2>1, <2>2 DEF PurgeType
  <2>4. /\ stale' \in [Pods -> SUBSET Variants]
        /\ stale'[p] = stale[p] \ {v}
        /\ \A q \in Pods : q # p => stale'[q] = stale[q]
        /\ \A q \in Pods : stale'[q] \subseteq stale[q]
    BY <1>1, <2>0
  <2> HIDE DEF v, p
  <2>5. OnlyTargets'
    BY <2>3, <2>4 DEF OnlyTargets
  <2>6. StillToDo'
    <3> SUFFICES ASSUME ~purge.failed, NEW q \in purge.reported, stale'[q] # {},
                        q \notin purge.todo
                 PROVE  q = p /\ stale'[q] \subseteq Elements(Tail(purge.left))
      BY <2>3 DEF StillToDo
    <3>0. q \in Pods
      BY DEF PurgeType
    <3>1. q = purge.pod /\ stale[q] \subseteq Elements(purge.left)
      BY <2>4, <3>0 DEF StillToDo
    <3> QED
      BY <2>1, <2>4, <3>0, <3>1 DEF p
  <2>7. \A q \in Pods : q \notin Running' => stale'[q] = {}
    BY <1>0, <2>4 DEF Running
  <2> QED
    BY <1>0, <2>3, <2>4, <2>5, <2>6, <2>7
<1>2. CASE purge' = [purge EXCEPT !.pc = "pods", !.failed = TRUE] /\ UNCHANGED stale
  <2>1. /\ purge' \in PurgeType /\ purge'.preserve = purge.preserve
        /\ purge'.reported = purge.reported
        /\ purge'.failed = TRUE /\ purge'.pc = "pods"
    BY <1>2 DEF PurgeType
  <2> QED
    BY <1>0, <1>2, <2>1 DEF OnlyTargets, StillToDo, Running
<1> QED
  BY <1>1, <1>2 DEF PurgeRequest

\* A pod is done when there is no target left.
LEMMA PodPurgedKeeps == ASSUME PurgeInv, PodPurged PROVE PurgeInv'
<1> USE DEF PurgeInv, PurgeTyped
<1>0. UNCHANGED <<phase, stale>> /\ purge.pc = "requests" /\ purge.left = <<>>
  BY DEF PodPurged, podVars
<1>1. /\ purge' \in PurgeType /\ purge'.preserve = purge.preserve
      /\ purge'.reported = purge.reported
      /\ purge'.todo = purge.todo /\ purge'.failed = purge.failed /\ purge'.pc = "pods"
  <2>1. (IF purge.found THEN purge.count + 1 ELSE purge.count) \in Nat
    BY DEF PurgeType
  <2>2. purge' = [purge EXCEPT !.pc = "pods",
                               !.count = IF purge.found THEN purge.count + 1 ELSE purge.count]
    BY DEF PodPurged
  <2> QED
    BY <2>1, <2>2 DEF PurgeType
<1>2. Elements(purge.left) = {}
  BY <1>0 DEF Elements
<1>3. StillToDo'
  BY <1>0, <1>1, <1>2 DEF StillToDo
<1> QED
  BY <1>0, <1>1, <1>3 DEF OnlyTargets, Running

\* Sessions leave pods and purges alone.
LEMMA PurgeElsewhere ==
    ASSUME \/ \E p \in Pods, c \in Ephemeral : ContainerStarts(p, c) \/ ContainerEnds(p, c)
           \/ \E s \in Sessions : SessionStep(s)
    PROVE  UNCHANGED <<phase, purge, stale>>
<1>1. CASE \E p \in Pods, c \in Ephemeral : ContainerStarts(p, c) \/ ContainerEnds(p, c)
  BY <1>1 DEF ContainerStarts, ContainerEnds, cacheVars
<1>2. CASE \E s \in Sessions : SessionStep(s)
  BY <1>2 DEF SessionStep, OpenSession, CheckPodOnInstance, GetContainer, podVars, cacheVars,
              PatchEphemeralContainers, WaitForContainer, Notified, ExecutorStream
<1> QED
  BY <1>1, <1>2

\* Requests for logs do so too, unless the process dies and a purge with it.
LEMMA LogsOrDeath ==
    ASSUME LogStep
    PROVE  /\ UNCHANGED phase
           /\ \/ UNCHANGED <<purge, stale>>
              \/ purge' = IdlePurge /\ stale' = [p \in Pods |-> {}]
<1>1. CASE Send \/ \E routine \in {"add", "remove"} : UseTails(routine)
  BY <1>1 DEF Send, UseTails, Die, podVars, cacheVars
<1>2. CASE \/ WatchLogs \/ ListLogs \/ Cancel \/ LoseWatch \/ RouteTarget \/ AddTail
           \/ RemoveTail \/ FollowReturns
  BY <1>2 DEF WatchLogs, ListLogs, Cancel, LoseWatch, RouteTarget, AddTail, RemoveTail,
              FollowReturns, podVars, cacheVars
<1> QED
  BY <1>1, <1>2 DEF LogStep

LEMMA PurgeLost ==
    ASSUME PurgeInv, UNCHANGED phase, purge' = IdlePurge, stale' = [p \in Pods |-> {}]
    PROVE  PurgeInv'
<1>1. IdlePurge \in PurgeType
  <2>1. <<>> \in Seq(Variants)
    OBVIOUS
  <2> QED
    BY <2>1 DEF IdlePurge, PurgeType
<1>2. \A p \in Pods : stale'[p] = {}
  OBVIOUS
<1>3. stale' \in [Pods -> SUBSET Variants]
  OBVIOUS
<1>4. IdlePurge.pc = "idle" /\ IdlePurge.reported = {}
  BY DEF IdlePurge
<1> QED
  BY <1>1, <1>2, <1>3, <1>4 DEF PurgeInv, PurgeTyped, OnlyTargets, StillToDo

\* A purge that is answered without an error has removed the object, in every
\* variant that clients may have made Nginx store, from each pod that was reported
\* as running when it began and still runs; for any pods, however they come and go,
\* and whichever are reported.
THEOREM PurgeIsCompleteAlways == Spec => []PurgeIsComplete
<1>1. PurgeInv /\ [Next]_vars => PurgeInv'
  <2> SUFFICES ASSUME PurgeInv, [Next]_vars PROVE PurgeInv'
    OBVIOUS
  <2>1. CASE \E p \in Pods : PodAppears(p) \/ PodRuns(p) \/ PodDies(p)
    BY <2>1, PodsKeep
  <2>2. CASE \/ \E p \in Pods, c \in Ephemeral : ContainerStarts(p, c) \/ ContainerEnds(p, c)
             \/ \E s \in Sessions : SessionStep(s)
    BY <2>2, PurgeElsewhere
       DEF PurgeInv, PurgeTyped, OnlyTargets, StillToDo, Running
  <2>3. CASE PurgeStep
    <3>1. ASSUME NEW preserve \in BOOLEAN, GetInstanceStatus(preserve) PROVE PurgeInv'
      <4>1. PICK reported \in SUBSET Existing : BeginPurge("manager", reported, preserve)
        BY <3>1 DEF GetInstanceStatus
      <4>2. reported \in SUBSET Pods
        BY DEF Existing
      <4> QED
        BY <4>1, <4>2, BeginKeeps
    <3>2. ASSUME NEW preserve \in BOOLEAN, ListPods(preserve) PROVE PurgeInv'
      <4>1. PICK ready \in SUBSET Running : BeginPurge("purger", ready, preserve)
        BY <3>2 DEF ListPods
      <4>2. ready \in SUBSET Pods
        BY DEF Running
      <4> QED
        BY <4>1, <4>2, BeginKeeps
    <3> QED
      BY <2>3, <3>1, <3>2, PurgeCacheKeeps, PurgeRequestKeeps, PodPurgedKeeps DEF PurgeStep
  <2>4. CASE UNCHANGED vars
    BY <2>4 DEF vars, cacheVars, PurgeInv, PurgeTyped, OnlyTargets, StillToDo, Running
  <2>5. CASE LogStep
    <3>1. CASE UNCHANGED <<phase, purge, stale>>
      BY <3>1 DEF PurgeInv, PurgeTyped, OnlyTargets, StillToDo, Running
    <3> QED
      BY <2>5, <3>1, LogsOrDeath, PurgeLost
  <2> QED
    BY <2>1, <2>2, <2>3, <2>4, <2>5 DEF Next
<1>2. PurgeInv => PurgeIsComplete
  BY DEF PurgeInv, StillToDo, PurgeIsComplete, Running
<1> QED
  BY <1>1, <1>2, PurgeInit, PTL DEF Spec

----------------------------------------------------------------------------
(* The calls that reach these operations, and all the others of the API:   *)
(* WebApi, whose specification is WebSpec.                                 *)

\* No two routes have the same method and path.
LEMMA RoutesDiffer ==
    \A r, s \in newEcho : r[1] = s[1] /\ r[2] = s[2] => r = s
BY DEF newEcho

\* The tables agree on fn: no error has a status that it accepts, its request
\* leads to the handler of the operation that it stands for, and it accepts
\* what that handler answers.
Deletions == {"DeleteCertManagerRequestByName", "DeleteCertManagerRequestByIssuer"}
Served(fn) ==
    /\ fn.for # "Log" => fn.accepts \cap {400, 401, 404, 409} = {}
    /\ \A r \in newEcho : r[1] = fn.method /\ r[2] = fn.path =>
          /\ IF r[3].op = "DeleteCertManagerRequest" THEN fn.for \in Deletions
             ELSE r[3].op = fn.for
          /\ r[3].ok \in fn.accepts \ {500}
          /\ fn.for = "GetInstanceAddress" => 202 \in fn.accepts
          /\ fn.for = "PurgeCacheBulk" => r[3].ok = 200
    /\ fn.flaws \subseteq Flaws

\* All the tables, read once: the client functions, and what handlers answer
\* and refuse.
LEMMA TablesAgree ==
    /\ \A fn \in Functions \cup GeneratedFunctions : Served(fn)
    /\ \A r \in newEcho :
          /\ r[3].ok \in {200, 201, 204}
          /\ r[3].op = "PurgeCacheBulk" => r[3].ok = 200
          /\ r[3].refuses \cup r[3].fails \subseteq Flaws
<1> USE DEF newEcho, Handler, Faulty, Flaws, Fn, AnyStatus,
        addExtraFiles, addUpstream, addUpstreamOptions, cachePurge,
        cachePurgeBulk, deleteBlock, deleteCertManagerRequest,
        deleteCertificate, deleteExtraFiles, deleteLuaBlock,
        deleteRoute, deleteUpstream, deleteUpstreamOptions,
        getAutoscale, getExtraFile, getInstanceFlavors, getMetadata,
        getRoutes, getServiceFlavors, getUpstreamOptions, getUpstreams,
        healthcheck, instanceInfo, listBlocks, listCertManagerRequests,
        listExtraFiles, listLuaBlocks, log, removeAutoscale,
        restart, scale, serviceBindApp, serviceBindUnit,
        serviceCreate, serviceDelete, serviceInfo, serviceNodeStatus,
        servicePlans, serviceStatus, serviceUnbindApp,
        serviceUnbindUnit, serviceUpdate, setMetadata, start, stop,
        unsetMetadata, updateAutoscale, updateBlock,
        updateCertManagerRequest, updateCertificate, updateExtraFiles,
        updateLuaBlock, updateRoute, updateUpstreamOptions
<1>1. \A fn \in Functions : Served(fn)
  BY SMTT(60) DEF Served, Deletions, Functions,
      AddAccessControlList, RemoveAccessControlList, ListAccessControlList,
      UpdateBlock, DeleteBlock, ListBlocks, UpdateCertificate,
      DeleteCertificate, ListCertManagerRequests, UpdateCertManager,
      DeleteCertManagerByName, DeleteCertManagerByIssuer, AddExtraFiles,
      UpdateExtraFiles, DeleteExtraFiles, ListExtraFiles, GetExtraFile,
      Info, GetMetadata, SetMetadata, UnsetMetadata, ClientPurgeCache,
      PurgeCacheBulk, UpdateRoute, DeleteRoute, ListRoutes, Scale,
      Start, Stop, Restart, ListUpstreamOptions,
      AddUpstreamOptions, UpdateUpstreamOptions, DeleteUpstreamOptions,
      Log
<1>2. \A fn \in GeneratedFunctions : Served(fn)
  BY SMTT(30) DEF Served, Deletions, Generated, GeneratedFunctions,
      ApiBindApp, ApiBindInstance, ApiUnbindInstance,
      ApiCreateAutoscale, ApiUpdateAutoscale, ApiGetAutoscale,
      ApiRemoveAutoscale, ApiCreateInstance, ApiUpdateInstance,
      ApiDeleteInstance, ApiGetInstance, ApiGetInstanceInfo,
      ApiHealthcheck, ApiListFlavors, ApiListFlavorsByInstance,
      ApiListPlans, ApiListPlansByInstance, ApiPurgeCache,
      ApiResourcesInstanceStatusGet
<1>3. \A r \in newEcho : /\ r[3].ok \in {200, 201, 204}
                         /\ r[3].op = "PurgeCacheBulk" => r[3].ok = 200
  OBVIOUS
<1>4. \A r \in newEcho : r[3].refuses \cup r[3].fails \subseteq Flaws
  BY SMTT(30) DEF formValue, getFiles, getValueFromFormOrMultipart,
      validateCertManagerRequest
<1> HIDE DEF newEcho
<1> QED
  BY <1>1, <1>2, <1>3, <1>4

\* And the requests of the platform, whose function is the route itself.
LEMMA PlatformServed == \A fn \in PlatformCalls : Served(fn)
<1> SUFFICES ASSUME NEW route \in newEcho, route[3].op # "DeleteCertManagerRequest"
             PROVE  Served(Platform(route))
  BY DEF PlatformCalls
<1>1. /\ Platform(route).accepts = {200, 201, 202, 204}
      /\ Platform(route).for = route[3].op
      /\ Platform(route).method = route[1]
      /\ Platform(route).path = route[2]
      /\ Platform(route).flaws = route[3].refuses \cup route[3].fails
  BY DEF Platform, Generated, Fn, AnyStatus
<1>2. \A r \in newEcho : r[1] = route[1] /\ r[2] = route[2] => r = route
  BY RoutesDiffer
<1> QED
  BY <1>1, <1>2, TablesAgree DEF Served

ClientFunctions == Functions \cup GeneratedFunctions \cup PlatformCalls

LEMMA EveryFunctionServed == \A fn \in ClientFunctions : Served(fn)
BY TablesAgree, PlatformServed DEF ClientFunctions

\* The shape of a call.
Ops == {"none"} \cup {r[3].op : r \in newEcho} \cup Deletions
CallPhases == {"sent", "build", "route", "operate", "answered", "returned"}
CallResults == {"none", "ok", "error", "reported", "timeout"}
CallOutcomes == {"nothing"} \cup AllOutcomes
CallBodies == {"none", "message", "data"}
Managers == {"none", "validating", "plain"}
CallType ==
    [pc : CallPhases, fn : ClientFunctions, flaw : Flaws,
     cluster : ClusterNames \cup {NoAddress}, disable : BOOLEAN, manager : Managers,
     did : CallOutcomes, op : Ops, status : Nat, body : CallBodies,
     result : CallResults]

\* The operation of d is the one that its function stands for, as far as d
\* says which.
Meant(d) == d.op = d.fn.for \/ Unnamed(d)

\* The status of d tells the truth about its operation.
Told(d) ==
    /\ d.status \in d.fn.accepts \ {500} /\ d.fn.for \notin {"Log", "none"} =>
          Meant(d) /\ d.did \in {"done", "notModified", "partly"}
    /\ d.did = "done" \/ (d.did = "partly" /\ d.op # "PurgeCacheBulk") =>
          d.status \in d.fn.accepts \ {500}

\* And so does its result.
Returned(d) ==
    /\ d.result = "ok" /\ d.fn.for \notin {"Log", "none"} =>
          Meant(d) /\ d.did \in {"done", "notModified", "partly"}
    /\ d.did = "done" \/ (d.did = "partly" /\ d.op # "PurgeCacheBulk") =>
          d.result \in {"none", "ok", "timeout"}

\* A call along its way.
CallOK(d) ==
    /\ d.pc # "returned" => d.result \in {"none", "timeout"}
    /\ d.pc \in {"sent", "build", "route"} => d.did = "nothing"
    /\ d.pc = "build" => d.cluster \in ClusterNames
    /\ d.pc = "operate" =>
          /\ d.did = "nothing"
          /\ Meant(d)
          /\ d.status \in d.fn.accepts \ {500}
          /\ d.op = "GetInstanceAddress" => 202 \in d.fn.accepts
          /\ d.op = "PurgeCacheBulk" => d.status = 200
    /\ d.pc = "answered" => Told(d)
    /\ d.pc = "returned" => Returned(d)

\* What the flag of a request may leave behind.
Unvalidated(n, set) == n \in set \/ validationDisabled(n)
FlagOK(d, set) ==
    /\ d.disable /\ d.cluster # NoAddress => d.cluster \in set
    /\ d.manager = "plain" => Unvalidated(d.cluster, set)

WebInv ==
    /\ call = [c \in Clients |-> call[c]]
    /\ \A c \in Clients :
          call[c] = Idle \/ (call[c] \in CallType /\ CallOK(call[c]) /\ FlagOK(call[c], asked))
    /\ managers \in [ClusterNames -> Managers]
    /\ \A n \in ClusterNames : managers[n] = "plain" => Unvalidated(n, asked)

LEMMA WebInvInit == WebInit => WebInv
BY DEF WebInit, WebInv, Idle, Managers

\* Before it returns, a client's call is never Idle.
LEMMA PhaseOfCall ==
    ASSUME WebInv, NEW c \in Clients, call[c].pc \in CallPhases
    PROVE  call[c] \in CallType /\ CallOK(call[c]) /\ FlagOK(call[c], asked)
<1>1. Idle.pc \notin CallPhases
  BY DEF Idle, CallPhases
<1> QED
  BY <1>1 DEF WebInv

\* A step that replaces one call by another.
LEMMA OneCall ==
    ASSUME WebInv, NEW c \in Clients, NEW e,
           call' = [call EXCEPT ![c] = e],
           e = Idle \/ (e \in CallType /\ CallOK(e) /\ FlagOK(e, asked')),
           asked \subseteq asked',
           managers' \in [ClusterNames -> Managers],
           \A n \in ClusterNames : managers'[n] = "plain" => Unvalidated(n, asked')
    PROVE  WebInv'
<1>1. \A n : Unvalidated(n, asked) => Unvalidated(n, asked')
  BY DEF Unvalidated, validationDisabled
<1>2. \A d : FlagOK(d, asked) => FlagOK(d, asked')
  BY <1>1 DEF FlagOK
<1>3. call' = [x \in Clients |-> call'[x]]
  BY DEF WebInv
<1>4. \A x \in Clients :
         call'[x] = Idle \/ (call'[x] \in CallType /\ CallOK(call'[x]) /\ FlagOK(call'[x], asked'))
  BY <1>2 DEF WebInv
<1> QED
  BY <1>3, <1>4 DEF WebInv

\* A refusal, by whichever step.
LEMMA RefusalTells ==
    ASSUME WebInv, NEW c \in Clients, call[c].pc \in {"sent", "build", "route"},
           NEW s \in {400, 401, 404, 500},
           call' = Answer(c, s, "message"), UNCHANGED <<managers, asked>>
    PROVE  WebInv'
<1> DEFINE d == call[c]
           e == [d EXCEPT !.pc = "answered", !.status = s, !.body = "message"]
<1>1. d \in CallType /\ CallOK(d) /\ FlagOK(d, asked)
  BY PhaseOfCall DEF CallPhases
<1>2. /\ e \in CallType
      /\ e.pc = "answered" /\ e.status = s /\ e.did = d.did /\ e.result = d.result
      /\ e.fn = d.fn /\ e.cluster = d.cluster /\ e.disable = d.disable
      /\ e.manager = d.manager
  <2>1. "answered" \in CallPhases /\ "message" \in CallBodies /\ s \in Nat
    BY DEF CallPhases, CallBodies
  <2> QED
    BY <1>1, <2>1 DEF CallType
<1> HIDE DEF e
<1>3. Told(e)
  <2>1. Served(d.fn)
    BY <1>1, EveryFunctionServed DEF CallType
  <2>2. d.fn.for # "Log" => s \notin d.fn.accepts \ {500}
    BY <2>1 DEF Served
  <2>3. d.did = "nothing"
    BY <1>1 DEF CallOK
  <2> QED
    BY <1>2, <2>2, <2>3 DEF Told
<1>4. CallOK(e)
  BY <1>1, <1>2, <1>3 DEF CallOK
<1>5. FlagOK(e, asked)
  BY <1>1, <1>2 DEF FlagOK
<1>6. call' = [call EXCEPT ![c] = e]
  <2>1. Answer(c, s, "message") =
           [call EXCEPT ![c] = [call[c] EXCEPT !.pc = "answered", !.status = s,
                                               !.body = "message"]]
    BY DEF Answer, WebInv
  <2> QED
    BY <2>1 DEF e
<1> QED
  BY <1>2, <1>4, <1>5, <1>6, OneCall DEF WebInv

\* The steps of a call.
LEMMA InvokeStep ==
    ASSUME WebInv, CallsArePossible, NEW c \in Clients, NEW q \in CallsOf(c),
           NEW flaw \in Flaws, Invoke(c, q[1], flaw, q[2], q[3])
    PROVE  WebInv'
<1> DEFINE refused == flaw \in q[1].refuses
           p == IF refused THEN "returned" ELSE "sent"
           res == IF refused THEN "error" ELSE "none"
           e == [pc |-> p, fn |-> q[1], flaw |-> flaw, cluster |-> q[2], disable |-> q[3],
                 manager |-> "none", did |-> "nothing", op |-> "none", status |-> 0,
                 body |-> "none", result |-> res]
<1>1. q[1] \in ClientFunctions /\ q[2] \in ClusterNames \cup {NoAddress} /\ q[3] \in BOOLEAN
  BY DEF CallsArePossible, ClientFunctions
<1>2. e \in CallType
  <2>1. p \in CallPhases /\ res \in CallResults
    BY DEF CallPhases, CallResults
  <2>2. "nothing" \in CallOutcomes /\ "none" \in CallBodies /\ "none" \in Managers
    BY DEF CallOutcomes, CallBodies, Managers
  <2>3. 0 \in Nat /\ "none" \in Ops
    BY DEF Ops
  <2> HIDE DEF p, res
  <2> QED
    BY <1>1, <2>1, <2>2, <2>3, Zenon DEF CallType
<1>3. CallOK(e)
  BY DEF CallOK, Returned
<1>4. asked \subseteq asked' /\ (q[3] /\ q[2] # NoAddress => q[2] \in asked')
  BY <1>1 DEF Invoke
<1>5. FlagOK(e, asked')
  BY <1>4 DEF FlagOK
<1>6. call' = [call EXCEPT ![c] = e] /\ managers' = managers
  BY DEF Invoke
<1>7. \A n : Unvalidated(n, asked) => Unvalidated(n, asked')
  BY <1>4 DEF Unvalidated, validationDisabled
<1> HIDE DEF e
<1> QED
  BY <1>2, <1>3, <1>4, <1>5, <1>6, <1>7, OneCall DEF WebInv

\* Only the phase moves on, and the manager if one was found.
LEMMA Routed ==
    ASSUME WebInv, NEW c \in Clients, call[c].pc \in {"sent", "build"},
           NEW p \in {"build", "route"},
           p = "build" => call[c].cluster \in ClusterNames,
           NEW m \in Managers, m = "plain" => Unvalidated(call[c].cluster, asked),
           call' = [call EXCEPT ![c].pc = p, ![c].manager = m],
           asked' = asked, managers' \in [ClusterNames -> Managers],
           \A n \in ClusterNames : managers'[n] = "plain" => Unvalidated(n, asked')
    PROVE  WebInv'
<1> DEFINE d == call[c]
           e == [d EXCEPT !.pc = p, !.manager = m]
<1>1. d \in CallType /\ CallOK(d) /\ FlagOK(d, asked)
  BY PhaseOfCall DEF CallPhases
<1>2. /\ e \in CallType
      /\ e.pc = p /\ e.did = d.did /\ e.result = d.result
      /\ e.cluster = d.cluster /\ e.disable = d.disable /\ e.manager = m
  <2>1. p \in CallPhases
    BY DEF CallPhases
  <2> QED
    BY <1>1, <2>1 DEF CallType
<1>3. call' = [call EXCEPT ![c] = e]
  BY DEF WebInv
<1> HIDE DEF e
<1>4. CallOK(e)
  BY <1>1, <1>2 DEF CallOK
<1>5. FlagOK(e, asked)
  BY <1>1, <1>2 DEF FlagOK
<1> QED
  BY <1>2, <1>3, <1>4, <1>5, OneCall

LEMMA AuthenticateStep ==
    ASSUME WebInv, CallsArePossible, NEW c \in Clients, Authenticate(c)
    PROVE  WebInv'
<1> DEFINE d == call[c]
<1>1. d.pc = "sent" /\ UNCHANGED <<managers, asked>>
  BY DEF Authenticate
<1>2. d \in CallType /\ FlagOK(d, asked)
  BY <1>1, PhaseOfCall DEF CallPhases
<1>3. d.cluster \in ClusterNames \cup {NoAddress} /\ d.manager \in Managers
  BY <1>2 DEF CallType
<1>4. CASE \E s \in {400, 401} : call' = Answer(c, s, "message")
  BY <1>1, <1>4, RefusalTells
<1>5. CASE call' = [call EXCEPT ![c].pc = "route"]
  <2>1. call' = [call EXCEPT ![c].pc = "route", ![c].manager = d.manager]
    BY <1>2, <1>5 DEF WebInv, CallType
  <2>2. d.manager = "plain" => Unvalidated(d.cluster, asked)
    BY <1>2 DEF FlagOK
  <2> QED
    BY <1>1, <1>3, <2>1, <2>2, Routed DEF WebInv
<1>6. CASE d.cluster # NoAddress /\ call' = [call EXCEPT ![c].pc = "build"]
  <2>1. call' = [call EXCEPT ![c].pc = "build", ![c].manager = d.manager]
    BY <1>2, <1>6 DEF WebInv, CallType
  <2>2. d.manager = "plain" => Unvalidated(d.cluster, asked)
    BY <1>2 DEF FlagOK
  <2> QED
    BY <1>1, <1>3, <1>6, <2>1, <2>2, Routed DEF WebInv
<1>7. CASE /\ d.cluster # NoAddress
           /\ call' = [call EXCEPT ![c].pc = "route", ![c].manager = managers[d.cluster]]
  <2>1. managers[d.cluster] \in Managers
    BY <1>3, <1>7 DEF WebInv
  <2>2. managers[d.cluster] = "plain" => Unvalidated(d.cluster, asked)
    BY <1>3, <1>7 DEF WebInv
  <2> QED
    BY <1>1, <1>7, <2>1, <2>2, Routed DEF WebInv
<1> QED
  BY <1>4, <1>5, <1>6, <1>7 DEF Authenticate

LEMMA ManagerStep ==
    ASSUME WebInv, CallsArePossible, NEW c \in Clients, Manager(c)
    PROVE  WebInv'
<1> DEFINE d == call[c]
           built == IF ~d.disable /\ ~validationDisabled(d.cluster) THEN "validating"
                    ELSE "plain"
<1>1. d.pc = "build" /\ asked' = asked
  BY DEF Manager
<1>2. d \in CallType /\ FlagOK(d, asked) /\ d.cluster \in ClusterNames
  BY <1>1, PhaseOfCall DEF CallPhases, CallOK
<1>3. built \in Managers
  BY DEF Managers
<1>4. built = "plain" => Unvalidated(d.cluster, asked)
  <2>1. d.cluster # NoAddress /\ d.disable \in BOOLEAN
    BY <1>2 DEF CallsArePossible, CallType
  <2> QED
    BY <1>2, <2>1 DEF FlagOK, Unvalidated
<1>5. CASE call' = Answer(c, 500, "message") /\ UNCHANGED managers
  BY <1>1, <1>5, RefusalTells
<1>6. CASE /\ managers' = [managers EXCEPT ![d.cluster] = built]
           /\ call' = [call EXCEPT ![c].pc = "route", ![c].manager = built]
  <2> HIDE DEF built
  <2>1. managers' \in [ClusterNames -> Managers]
    BY <1>3, <1>6 DEF WebInv
  <2>2. \A n \in ClusterNames : managers'[n] = "plain" => Unvalidated(n, asked')
    BY <1>1, <1>2, <1>4, <1>6 DEF WebInv
  <2> QED
    BY <1>1, <1>3, <1>4, <1>6, <2>1, <2>2, Routed
<1> QED
  BY <1>5, <1>6 DEF Manager

LEMMA HandleStep ==
    ASSUME WebInv, NEW c \in Clients, Handle(c)
    PROVE  WebInv'
<1> DEFINE d == call[c]
           routes == {r \in newEcho : r[1] = d.fn.method /\ r[2] = d.fn.path}
           handler == (CHOOSE r \in routes : TRUE)[3]
           operating == [call EXCEPT ![c].pc = "operate", ![c].op = OpOf(handler, d),
                                     ![c].status = handler.ok]
           op == OpOf(handler, d)
<1>1. d.pc = "route" /\ UNCHANGED <<managers, asked>>
  BY DEF Handle
<1>2. d \in CallType /\ CallOK(d) /\ FlagOK(d, asked)
  BY <1>1, PhaseOfCall DEF CallPhases
<1>3. Served(d.fn)
  BY <1>2, EveryFunctionServed DEF CallType
<1>4. CASE \E s \in {400, 404, 500} : call' = Answer(c, s, "message")
  BY <1>1, <1>4, RefusalTells
<1>5. CASE /\ routes # {}
           /\ call' = operating
  <2>1. PICK r \in newEcho : /\ r[1] = d.fn.method /\ r[2] = d.fn.path
                                 /\ handler = r[3]
    BY <1>5
  <2> HIDE DEF handler
  <2>2. /\ handler.ok \in d.fn.accepts \ {500} /\ handler.ok \in Nat
        /\ d.fn.for = "GetInstanceAddress" => 202 \in d.fn.accepts
        /\ d.fn.for = "PurgeCacheBulk" => handler.ok = 200
        /\ IF handler.op = "DeleteCertManagerRequest" THEN d.fn.for \in Deletions
           ELSE handler.op = d.fn.for
        /\ handler.op \in Ops
    BY <1>3, <2>1, TablesAgree DEF Served, Ops
  <2>3. /\ op \in Ops
        /\ op = d.fn.for \/ (Unnamed(d) /\ op \in Deletions)
    <3>1. CASE handler.op # "DeleteCertManagerRequest"
      <4>1. op = handler.op
        BY <3>1, Zenon DEF OpOf
      <4>2. handler.op \in Ops /\ handler.op = d.fn.for
        BY <2>2, <3>1, Zenon
      <4> QED
        BY <4>1, <4>2
    <3>2. CASE handler.op = "DeleteCertManagerRequest"
      BY <2>2, <3>2 DEF OpOf, Unnamed, Deletions, Ops
    <3> QED
      BY <3>1, <3>2
  <2>4. PICK o \in Ops, s \in Nat : o = op /\ s = handler.ok
    BY <2>2, <2>3
  <2> DEFINE e == [d EXCEPT !.pc = "operate", !.op = o, !.status = s]
  <2>5. call' = [call EXCEPT ![c] = e]
    BY <1>5, <2>4 DEF WebInv
  <2>6. /\ e \in CallType
        /\ e.pc = "operate" /\ e.op = o /\ e.status = s
        /\ e.fn = d.fn /\ e.did = d.did /\ e.result = d.result
        /\ e.cluster = d.cluster /\ e.disable = d.disable /\ e.manager = d.manager
        /\ e.flaw = d.flaw
    <3>1. "operate" \in CallPhases
      BY DEF CallPhases
    <3> QED
      BY <1>2, <3>1 DEF CallType
  <2> HIDE DEF e
  <2>7. CallOK(e)
    <3>1. Meant(e)
      BY <2>3, <2>4, <2>6 DEF Meant, Unnamed
    <3>2. /\ e.op = "GetInstanceAddress" => 202 \in e.fn.accepts
          /\ e.op = "PurgeCacheBulk" => e.status = 200
      BY <2>2, <2>3, <2>4, <2>6 DEF Deletions
    <3> QED
      BY <1>1, <1>2, <2>2, <2>4, <2>6, <3>1, <3>2 DEF CallOK
  <2>8. FlagOK(e, asked)
    BY <1>2, <2>6 DEF FlagOK
  <2> QED
    BY <1>1, <2>5, <2>6, <2>7, <2>8, OneCall DEF WebInv
<1>6. call' = IF routes = {} THEN Answer(c, 404, "message")
              ELSE IF d.flaw \in handler.refuses THEN Answer(c, 400, "message")
              ELSE IF d.flaw \in handler.fails THEN Answer(c, 500, "message")
              ELSE operating
  BY Zenon DEF Handle
<1> HIDE DEF routes, handler, operating
<1> QED
  BY <1>4, <1>5, <1>6

LEMMA OperateStep ==
    ASSUME WebInv, NEW c \in Clients, NEW outcome \in AllOutcomes,
           Operate(c, outcome)
    PROVE  WebInv'
<1> DEFINE d == call[c]
<1>1. d.pc = "operate" /\ UNCHANGED <<managers, asked>>
  BY DEF Operate
<1>2. d \in CallType /\ CallOK(d) /\ FlagOK(d, asked)
  BY <1>1, PhaseOfCall DEF CallPhases
<1>3. Served(d.fn)
  BY <1>2, EveryFunctionServed DEF CallType
<1>4. PICK s \in Nat, b \in CallBodies :
        /\ call' = [Answer(c, s, b) EXCEPT ![c].did = outcome]
        /\ \/ /\ outcome = "done" \/ (outcome = "partly" /\ d.op # "PurgeCacheBulk")
              /\ s \in d.fn.accepts \ {500}
           \/ /\ outcome # "done" /\ (outcome = "partly" => d.op = "PurgeCacheBulk")
              /\ s \in {400, 404, 409, 500} \/ outcome = "notModified"
  <2>1. /\ d.status \in d.fn.accepts \ {500}
        /\ d.op = "GetInstanceAddress" => 202 \in d.fn.accepts
        /\ d.op = "PurgeCacheBulk" => d.status = 200
        /\ d.status \in Nat
    BY <1>1, <1>2 DEF CallOK, CallType
  <2>2. "data" \in CallBodies /\ "message" \in CallBodies
    BY DEF CallBodies
  <2>3. CASE d.op = "PurgeCacheBulk"
    <3>1. PICK s \in {200, 500} :
            /\ call' = [Answer(c, s, "data") EXCEPT ![c].did = outcome]
            /\ s = 200 <=> outcome = "done"
      BY <2>3 DEF Operate
    <3>2. s \in Nat /\ (s = 200 => s \in d.fn.accepts \ {500})
      BY <2>1, <2>3
    <3> QED
      BY <2>2, <2>3, <3>1, <3>2
  <2>4. CASE d.op # "PurgeCacheBulk" /\ outcome \in {"done", "partly"}
    <3>1. PICK s \in {d.status, 202} :
            /\ call' = [Answer(c, s, "data") EXCEPT ![c].did = outcome]
            /\ s = 202 => s = d.status \/ d.op = "GetInstanceAddress"
      BY <2>4 DEF Operate
    <3>2. s \in Nat /\ s \in d.fn.accepts \ {500}
      BY <2>1, <3>1
    <3> QED
      BY <2>2, <2>4, <3>1, <3>2
  <2>5. CASE d.op # "PurgeCacheBulk" /\ outcome \notin {"done", "partly"}
    <3>1. call' = [Answer(c, ErrorMiddleware(outcome), "message")
                     EXCEPT ![c].did = outcome]
      BY <2>5 DEF Operate
    <3>2. /\ ErrorMiddleware(outcome) \in {204, 400, 404, 409, 500}
          /\ ErrorMiddleware(outcome) = 204 => outcome = "notModified"
      BY <2>5 DEF ErrorMiddleware, AllOutcomes
    <3>3. ErrorMiddleware(outcome) \in Nat
      BY <3>2
    <3> QED
      BY <2>2, <2>5, <3>1, <3>2, <3>3
  <2> QED
    BY <2>3, <2>4, <2>5
<1> DEFINE e == [d EXCEPT !.pc = "answered", !.status = s, !.body = b, !.did = outcome]
<1>5. call' = [call EXCEPT ![c] = e]
  BY <1>4 DEF Answer, WebInv
<1>6. /\ e \in CallType
      /\ e.pc = "answered" /\ e.status = s /\ e.did = outcome /\ e.result = d.result
      /\ e.fn = d.fn /\ e.op = d.op /\ e.cluster = d.cluster
      /\ e.disable = d.disable /\ e.manager = d.manager /\ e.flaw = d.flaw
  <2>1. outcome \in CallOutcomes /\ "answered" \in CallPhases
    BY DEF CallOutcomes, CallPhases
  <2> QED
    BY <1>2, <2>1 DEF CallType
<1> HIDE DEF e
<1>7. Told(e)
  <2>1. Meant(e)
    BY <1>1, <1>2, <1>6 DEF CallOK, Meant, Unnamed
  <2>2. d.fn.for # "Log" => \A x \in {400, 404, 409, 500} : x \notin d.fn.accepts \ {500}
    BY <1>3 DEF Served
  <2> QED
    BY <1>4, <1>6, <2>1, <2>2 DEF Told
<1>8. CallOK(e)
  BY <1>1, <1>2, <1>6, <1>7 DEF CallOK
<1>9. FlagOK(e, asked)
  BY <1>2, <1>6 DEF FlagOK
<1> QED
  BY <1>1, <1>5, <1>6, <1>8, <1>9, OneCall DEF WebInv

LEMMA ReturnStep ==
    ASSUME WebInv, NEW c \in Clients, Return(c)
    PROVE  WebInv'
<1> DEFINE d == call[c]
           res == IF d.result # "none" THEN d.result
                  ELSE IF d.status \notin d.fn.accepts
                          \/ (d.status = 500 /\ d.body = "message"
                              /\ d.fn.for = "PurgeCacheBulk")
                  THEN "error"
                  ELSE IF d.status = 500 THEN "reported" ELSE "ok"
           e == [d EXCEPT !.pc = "returned", !.result = res]
<1>1. d.pc = "answered" /\ UNCHANGED <<managers, asked>>
  BY DEF Return
<1>2. d \in CallType /\ CallOK(d) /\ FlagOK(d, asked)
  BY <1>1, PhaseOfCall DEF CallPhases
<1>3. call' = [call EXCEPT ![c] = e]
  BY DEF Return, WebInv
<1>4. res \in CallResults
  BY <1>2 DEF CallResults, CallType
<1>5. /\ res = "ok" => d.status \in d.fn.accepts \ {500}
      /\ d.status \in d.fn.accepts \ {500} => res \in {"none", "ok", "timeout"}
  BY <1>1, <1>2 DEF CallOK
<1> HIDE DEF res
<1>6. /\ e \in CallType
      /\ e.pc = "returned" /\ e.result = res
      /\ e.fn = d.fn /\ e.op = d.op /\ e.did = d.did /\ e.cluster = d.cluster
      /\ e.disable = d.disable /\ e.manager = d.manager /\ e.flaw = d.flaw
  <2>1. "returned" \in CallPhases
    BY DEF CallPhases
  <2> QED
    BY <1>2, <1>4, <2>1 DEF CallType
<1> HIDE DEF e
<1>7. Returned(e)
  <2>1. Told(d)
    BY <1>1, <1>2 DEF CallOK
  <2> QED
    BY <1>5, <1>6, <2>1 DEF Told, Returned, Meant, Unnamed
<1>8. CallOK(e)
  BY <1>6, <1>7 DEF CallOK
<1>9. FlagOK(e, asked)
  BY <1>2, <1>6 DEF FlagOK
<1> QED
  BY <1>1, <1>3, <1>6, <1>8, <1>9, OneCall DEF WebInv

LEMMA GiveUpStep ==
    ASSUME WebInv, NEW c \in Clients, GiveUp(c)
    PROVE  WebInv'
<1> DEFINE d == call[c]
           e == [d EXCEPT !.result = "timeout"]
<1>1. d.pc \in CallPhases \ {"returned"} /\ UNCHANGED <<managers, asked>>
  BY DEF GiveUp, CallPhases
<1>2. d \in CallType /\ CallOK(d) /\ FlagOK(d, asked)
  BY <1>1, PhaseOfCall
<1>3. call' = [call EXCEPT ![c] = e]
  BY DEF GiveUp, WebInv
<1>4. /\ e \in CallType
      /\ e.result = "timeout" /\ e.pc = d.pc
      /\ e.fn = d.fn /\ e.op = d.op /\ e.did = d.did /\ e.cluster = d.cluster
      /\ e.disable = d.disable /\ e.manager = d.manager /\ e.status = d.status
      /\ e.flaw = d.flaw
  <2>1. "timeout" \in CallResults
    BY DEF CallResults
  <2> QED
    BY <1>2, <2>1 DEF CallType
<1> HIDE DEF e
<1>5. CallOK(e)
  BY <1>1, <1>2, <1>4 DEF CallOK, Told, Meant, Unnamed
<1>6. FlagOK(e, asked)
  BY <1>2, <1>4 DEF FlagOK
<1> QED
  BY <1>1, <1>3, <1>4, <1>5, <1>6, OneCall DEF WebInv

LEMMA ForgetStep ==
    ASSUME WebInv, NEW c \in Clients, Forget(c)
    PROVE  WebInv'
BY OneCall DEF Forget, WebInv

\* Each step of some call keeps all calls as they should be.
LEMMA WebStep ==
    ASSUME WebInv, CallsArePossible, [WebNext]_webVars
    PROVE  WebInv'
<1>1. CASE UNCHANGED webVars
  BY <1>1 DEF webVars, WebInv, Unvalidated, FlagOK, validationDisabled
<1>2. ASSUME NEW c \in Clients,
             \E q \in CallsOf(c) : \E flaw \in q[1].flaws \cup {"none"} :
                Invoke(c, q[1], flaw, q[2], q[3])
      PROVE  WebInv'
  <2>0. PICK q \in CallsOf(c) : \E flaw \in q[1].flaws \cup {"none"} :
           Invoke(c, q[1], flaw, q[2], q[3])
    BY <1>2
  <2>1. PICK flaw \in q[1].flaws \cup {"none"} : Invoke(c, q[1], flaw, q[2], q[3])
    BY <2>0
  <2>2. Served(q[1])
    BY EveryFunctionServed DEF CallsArePossible, ClientFunctions
  <2>3. flaw \in Flaws
    BY <2>2 DEF Served, Flaws
  <2> QED
    BY <2>1, <2>3, InvokeStep
<1>3. ASSUME NEW c \in Clients,
             \/ Authenticate(c) \/ Manager(c) \/ Handle(c)
             \/ \E outcome \in AllOutcomes : Operate(c, outcome)
             \/ Return(c) \/ GiveUp(c) \/ Forget(c)
      PROVE  WebInv'
  BY <1>3, AuthenticateStep, ManagerStep, HandleStep, OperateStep, ReturnStep, GiveUpStep,
     ForgetStep
<1> QED
  BY <1>1, <1>2, <1>3 DEF WebNext

LEMMA WebInvariant == WebSpec => []WebInv
<1>1. WebInv /\ [WebNext]_webVars => WebInv'
  BY WebStep, CallsAssumption
<1> QED
  BY <1>1, WebInvInit, PTL DEF WebSpec

\* A client function returns without an error only if the operation that it
\* stands for has been done or had nothing left to do: whichever calls clients
\* make, whatever the clusters, and wherever they give up.
THEOREM SuccessIsDoneAlways == WebSpec => []SuccessIsDone
<1>1. WebInv => SuccessIsDone
  BY DEF WebInv, CallOK, Returned, Meant, SuccessIsDone, CallType, CallPhases, Idle
<1> QED
  BY <1>1, WebInvariant, PTL

\* An operation that was done is reported as an error by no function whose
\* answer arrives in time.
THEOREM DoneIsSuccessAlways == WebSpec => []DoneIsSuccess
<1>1. WebInv => DoneIsSuccess
  BY DEF WebInv, CallOK, Returned, DoneIsSuccess
<1> QED
  BY <1>1, WebInvariant, PTL

\* A manager that does not validate serves only the clusters that are configured
\* so and those for which some request asked for it, over all interleavings of
\* the lookups and the stores of the cache.
THEOREM UnvalidatedOnlyOnRequestAlways == WebSpec => []UnvalidatedOnlyOnRequest
<1>1. WebInv => UnvalidatedOnlyOnRequest
  BY DEF WebInv, FlagOK, Unvalidated, UnvalidatedOnlyOnRequest
<1> QED
  BY <1>1, WebInvariant, PTL
=============================================================================
