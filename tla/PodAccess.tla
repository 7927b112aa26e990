------------------------------ MODULE PodAccess ------------------------------
(***************************************************************************)
(* What the API does on the pods of one instance while they come and go:   *)
(* interactive sessions (Exec and Debug), logs that are followed, and      *)
(* purges of the cache.                                                    *)
(*                                                                         *)
(*  - A session picks a pod and, unless it runs in the Nginx container,    *)
(*    adds an ephemeral container to it and waits until that has started.  *)
(*  - Following logs takes four goroutines: the caller, a router of the    *)
(*    events of a watch, one that starts tails and one that ends them.     *)
(*    What goes wrong in three of them takes the whole API process down.   *)
(*  - A purge asks each pod that is reported as running, once for each     *)
(*    variant of the object that Nginx may have stored.                    *)
(*                                                                         *)
(* Kubernetes, the watch of the stern library and Nginx are external: a    *)
(* pod may die at any moment, a watch may be lost, a request may fail.     *)
(***************************************************************************)
EXTENDS Naturals, FiniteSets, Sequences

CONSTANTS
    Pods,         \* the names of pods ever; none is used again
    Sessions,     \* interactive sessions
    Shell,        \* the ephemeral container that all shells of a pod share
    Nginx,        \* the container of Nginx
    NoPod,
    Stored,       \* the variants of the object that clients ask Nginx for
    MaxBegun,     \* bound: sessions, requests for logs and purges ever begun
    MaxFailures   \* bound: requests to Nginx that fail, watches that are lost

VARIABLES
    phase,        \* of each pod
    containers,   \* the state of the ephemeral containers of each pod
    shellFlag,    \* feature-flag-ephemeral-container-shell
    session,      \* the sessions
    follow,       \* the request that follows logs
    purge,        \* the purge under way
    stale,        \* what each pod stored before the purge began, and still has
    begun,
    failures

vars == <<phase, containers, shellFlag, session, follow, purge, stale,
          begun, failures>>
podVars == <<phase, containers>>
cacheVars == <<purge, stale>>

Ephemeral == Sessions \cup {Shell}
Running == {p \in Pods : phase[p] = "running"}
Existing == {p \in Pods : phase[p] \in {"pending", "running"}}

Encodings == {"gzip", "identity"}
Variants == Encodings \X {"http", "https", "path"}

ASSUME StoredAssumption == Stored \subseteq Variants

IdleSession == [pc |-> "idle", op |-> "none", pod |-> NoPod, container |-> Nginx,
                closed |-> "none"]
IdleFollow == [pc |-> "idle", cancelled |-> FALSE, lost |-> FALSE, router |-> "off",
               event |-> NoPod, adding |-> NoPod, removing |-> NoPod,
               announced |-> {}, tails |-> {}, using |-> {}]
IdlePurge == [pc |-> "idle", by |-> "none", preserve |-> FALSE, reported |-> {},
              todo |-> {}, pod |-> NoPod, left |-> <<>>, found |-> FALSE, count |-> 0, failed |-> FALSE]

Init ==
    /\ phase = [p \in Pods |-> "new"]
    /\ containers = [p \in Pods |-> [c \in Ephemeral |-> "none"]]
    /\ shellFlag \in BOOLEAN
    /\ session = [s \in Sessions |-> IdleSession]
    /\ follow = IdleFollow
    /\ purge = IdlePurge
    /\ stale = [p \in Pods |-> {}]
    /\ begun = 0
    /\ failures = 0

\* Purges and requests for logs count twice.
Begin(weight) == begun + weight <= MaxBegun /\ begun' = begun + weight
Fail == failures < MaxFailures /\ failures' = failures + 1

----------------------------------------------------------------------------
(* The cluster. *)

PodAppears(p) ==
    /\ phase[p] = "new"
    /\ phase' = [phase EXCEPT ![p] = "pending"]
    /\ UNCHANGED <<containers, shellFlag, session, follow, cacheVars, begun, failures>>

PodRuns(p) ==
    /\ phase[p] = "pending"
    /\ phase' = [phase EXCEPT ![p] = "running"]
    /\ UNCHANGED <<containers, shellFlag, session, follow, cacheVars, begun, failures>>

PodDies(p) ==
    /\ p \in Existing
    /\ phase' = [phase EXCEPT ![p] = "gone"]
    /\ containers' = [containers EXCEPT ![p] = [c \in Ephemeral |-> "none"]]
    /\ stale' = [stale EXCEPT ![p] = {}]
    /\ UNCHANGED <<shellFlag, session, follow, purge, begun, failures>>

ContainerStarts(p, c) ==
    /\ p \in Running /\ containers[p][c] = "waiting"
    /\ containers' = [containers EXCEPT ![p][c] = "running"]
    /\ UNCHANGED <<phase, shellFlag, session, follow, cacheVars, begun, failures>>

ContainerEnds(p, c) ==
    /\ p \in Running /\ containers[p][c] = "running"
    /\ containers' = [containers EXCEPT ![p][c] = "terminated"]
    /\ UNCHANGED <<phase, shellFlag, session, follow, cacheVars, begun, failures>>

----------------------------------------------------------------------------
(* Sessions. *)

Set(s, r) == session' = [session EXCEPT ![s] = r]

\* The transport closes the connection: with the code of an internal error if
\* the command returned one.
Run(s, ok) == [session[s] EXCEPT !.pc = "closed",
                                 !.closed = IF ok THEN "normal" ELSE "internal error"]

OpenSession(s, op) ==
    /\ Begin(1)
    /\ session[s].pc = "idle"
    /\ Set(s, [IdleSession EXCEPT !.pc = "check", !.op = op])
    /\ UNCHANGED <<podVars, shellFlag, follow, cacheVars, failures>>

\* The pod that was asked for, if the instance has it; any one that is running
\* if none was asked for.
CheckPodOnInstance(s, wanted) ==
    /\ session[s].pc = "check"
    /\ \/ \E p \in IF wanted = NoPod THEN Running ELSE Existing \cap {wanted} :
             Set(s, [session[s] EXCEPT
                       !.pod = p,
                       !.pc = IF session[s].op = "debug" \/ shellFlag THEN "get" ELSE "stream",
                       !.container = IF session[s].op = "debug" THEN s
                                     ELSE IF shellFlag THEN Shell ELSE Nginx])
       \/ /\ (IF wanted = NoPod THEN Running ELSE Existing \cap {wanted}) = {}
          /\ Set(s, Run(s, FALSE))
    /\ UNCHANGED <<podVars, shellFlag, follow, cacheVars, begun, failures>>

\* initShellDebugContainer and getDebugContainer: the pod is read, and patched
\* if it does not have the container.
GetContainer(s) ==
    LET q == session[s] IN
    /\ q.pc = "get"
    /\ Set(s, IF q.pod \notin Existing THEN Run(s, FALSE)
              ELSE [q EXCEPT !.pc = IF containers[q.pod][q.container] = "none"
                                    THEN "patch" ELSE "watch"])
    /\ UNCHANGED <<podVars, shellFlag, follow, cacheVars, begun, failures>>

\* A strategic merge patch, by the name of the container: what others have
\* added to the pod since it was read stays.
PatchEphemeralContainers(s) ==
    LET q == session[s] IN
    /\ q.pc = "patch"
    /\ IF q.pod \in Existing
       THEN /\ containers' = [containers EXCEPT ![q.pod][q.container] =
                                 IF @ = "none" THEN "waiting" ELSE @]
            /\ Set(s, [q EXCEPT !.pc = "watch"])
       ELSE Set(s, Run(s, FALSE)) /\ UNCHANGED containers
    /\ UNCHANGED <<phase, shellFlag, follow, cacheVars, begun, failures>>

\* waitForContainer lists the pod and watches it, with no timeout.  A pod that
\* is gone when it lists gives no event, ever.
WaitForContainer(s) ==
    LET q == session[s] IN
    /\ q.pc = "watch"
    /\ Set(s, [q EXCEPT !.pc = IF q.pod \in Existing THEN "waiting" ELSE "deaf"])
    /\ UNCHANGED <<podVars, shellFlag, follow, cacheVars, begun, failures>>

Started(s) ==
    containers[session[s].pod][session[s].container] \in {"running", "terminated"}

\* As Notified, which only looks at events of containers (a mutant).
NotifiedOfContainers(s) ==
    LET q == session[s] IN
    /\ q.pc = "waiting"
    /\ q.pod \in Existing /\ Started(s)
    /\ Set(s, IF containers[q.pod][q.container] = "running"
              THEN [q EXCEPT !.pc = "stream"] ELSE Run(s, q.op = "debug"))
    /\ UNCHANGED <<podVars, shellFlag, follow, cacheVars, begun, failures>>

Notified(s) ==
    LET q == session[s] IN
    /\ q.pc = "waiting"
    /\ q.pod \notin Existing \/ Started(s)
    /\ Set(s, IF q.pod \notin Existing THEN Run(s, FALSE)
              ELSE IF containers[q.pod][q.container] = "running"
              THEN [q EXCEPT !.pc = "stream"]
              \* the logs of a debug container that is over; no shell is left
              ELSE Run(s, q.op = "debug"))
    /\ UNCHANGED <<podVars, shellFlag, follow, cacheVars, begun, failures>>

\* Exec and Debug return: the command ended, in success or not, or the pod did.
ExecutorStream(s) ==
    /\ session[s].pc = "stream"
    /\ \/ session[s].pod \in Existing /\ Set(s, Run(s, TRUE))
       \/ Set(s, Run(s, FALSE))
    /\ UNCHANGED <<podVars, shellFlag, follow, cacheVars, begun, failures>>

SessionStep(s) ==
    \/ \E op \in {"exec", "debug"} : OpenSession(s, op)
    \/ \E wanted \in Pods \cup {NoPod} : CheckPodOnInstance(s, wanted)
    \/ GetContainer(s) \/ PatchEphemeralContainers(s) \/ WaitForContainer(s)
    \/ Notified(s) \/ ExecutorStream(s)

----------------------------------------------------------------------------
(* Logs. *)

Following == follow.pc \in {"select", "returned"}

\* watchLogs: the watch and the goroutines are started.
WatchLogs ==
    /\ Begin(2)
    /\ follow.pc = "idle"
    /\ follow' = [IdleFollow EXCEPT !.pc = "select", !.router = "select"]
    /\ UNCHANGED <<podVars, shellFlag, session, cacheVars, failures>>

\* listLogs: the logs of every pod, and no more.
ListLogs ==
    /\ Begin(2)
    /\ follow.pc = "idle"
    /\ UNCHANGED <<podVars, shellFlag, session, follow, cacheVars, failures>>

Cancel ==
    /\ Following /\ ~follow.cancelled
    /\ follow' = [follow EXCEPT !.cancelled = TRUE]
    /\ UNCHANGED <<podVars, shellFlag, session, cacheVars, begun, failures>>

LoseWatch ==
    /\ Following /\ ~follow.lost
    /\ Fail
    /\ follow' = [follow EXCEPT !.lost = TRUE]
    /\ UNCHANGED <<podVars, shellFlag, session, cacheVars, begun>>

\* stern closes its channels when the watch is lost or the context is done.
ChannelsClosed == follow.lost \/ follow.cancelled

\* As RouteTarget, which drops a pod if the last one is still being added (a mutant).
RouteTargetOrDrop ==
    /\ follow.router = "select"
    /\ \/ \E p \in Running \ follow.announced :
             follow' = [follow EXCEPT !.router = IF @ = "select" /\ follow.adding # NoPod
                                                 THEN "select" ELSE "add",
                                      !.event = p, !.announced = @ \cup {p}]
       \/ \E p \in follow.announced \ Running :
             follow' = [follow EXCEPT !.router = "remove", !.event = p,
                                      !.announced = @ \ {p}]
       \/ ChannelsClosed /\ follow' = [follow EXCEPT !.router = "error"]
       \/ follow.cancelled /\ follow' = [follow EXCEPT !.router = "off"]
    /\ UNCHANGED <<podVars, shellFlag, session, cacheVars, begun, failures>>

\* As RouteTarget, which does not notice that the channels are closed (a mutant).
RouteTargetUnaware ==
    /\ follow.router = "select"
    /\ \/ \E p \in Running \ follow.announced :
             follow' = [follow EXCEPT !.router = "add", !.event = p,
                                      !.announced = @ \cup {p}]
       \/ \E p \in follow.announced \ Running :
             follow' = [follow EXCEPT !.router = "remove", !.event = p,
                                      !.announced = @ \ {p}]
       \/ follow.cancelled /\ follow' = [follow EXCEPT !.router = "off"]
    /\ UNCHANGED <<podVars, shellFlag, session, cacheVars, begun, failures>>

\* routeTarget picks any case of its select that is ready.
RouteTarget ==
    /\ follow.router = "select"
    /\ \/ \E p \in Running \ follow.announced :
             follow' = [follow EXCEPT !.router = "add", !.event = p,
                                      !.announced = @ \cup {p}]
       \/ \E p \in follow.announced \ Running :
             follow' = [follow EXCEPT !.router = "remove", !.event = p,
                                      !.announced = @ \ {p}]
       \/ ChannelsClosed /\ follow' = [follow EXCEPT !.router = "error"]
       \/ follow.cancelled /\ follow' = [follow EXCEPT !.router = "off"]
    /\ UNCHANGED <<podVars, shellFlag, session, cacheVars, begun, failures>>

\* The API process dies, and all that it serves with it: sessions, and a purge
\* unless the purger, a process of its own, does it.  It is started again.
Die ==
    /\ follow' = [IdleFollow EXCEPT !.pc = "dead", !.cancelled = follow.cancelled,
                                    !.lost = follow.lost]
    /\ session' = [s \in Sessions |->
          IF session[s].pc \in {"idle", "closed"} THEN session[s]
          ELSE [session[s] EXCEPT !.pc = "closed", !.closed = "lost"]]
    /\ IF purge.by = "manager" THEN purge' = IdlePurge /\ stale' = [p \in Pods |-> {}]
       ELSE UNCHANGED cacheVars

\* The router sends what it has, to a goroutine that is ready for it or on a
\* channel that watchLogs has closed when it returned: that panics, in a
\* goroutine where nothing recovers.
Send ==
    /\ follow.router \in {"add", "remove", "error"}
    /\ \/ follow.pc = "returned" /\ Die
       \/ /\ follow.pc = "select"
          /\ \/ /\ follow.router = "add" /\ follow.adding = NoPod
                /\ follow' = [follow EXCEPT !.router = "select", !.adding = follow.event]
             \/ /\ follow.router = "remove" /\ follow.removing = NoPod
                /\ follow' = [follow EXCEPT !.router = "select", !.removing = follow.event]
             \/ /\ follow.router = "error"
                /\ follow' = [follow EXCEPT !.router = "off", !.pc = "returned"]
          /\ UNCHANGED <<session, cacheVars>>
    /\ UNCHANGED <<podVars, shellFlag, begun, failures>>

\* addTail and removeTail share the map of tails without a lock.  One that enters
\* it while the other one is there may be noticed by the runtime, which then ends
\* the process: nothing recovers from that either.
UseTails(routine) ==
    /\ IF routine = "add" THEN follow.adding # NoPod ELSE follow.removing # NoPod
    /\ routine \notin follow.using
    /\ \/ /\ follow' = [follow EXCEPT !.using = @ \cup {routine}]
          /\ UNCHANGED <<session, cacheVars>>
       \/ follow.using # {} /\ Die
    /\ UNCHANGED <<podVars, shellFlag, begun, failures>>

AddTail ==
    /\ "add" \in follow.using
    /\ follow' = [follow EXCEPT !.adding = NoPod, !.tails = @ \cup {follow.adding},
                                !.using = @ \ {"add"}]
    /\ UNCHANGED <<podVars, shellFlag, session, cacheVars, begun, failures>>

\* A pod whose tail is not in the map (or not yet) is skipped.
RemoveTail ==
    /\ "remove" \in follow.using
    /\ follow' = [follow EXCEPT !.removing = NoPod, !.tails = @ \ {follow.removing},
                                !.using = @ \ {"remove"}]
    /\ UNCHANGED <<podVars, shellFlag, session, cacheVars, begun, failures>>

\* As FollowReturns, at any time (a mutant).
FollowReturnsEarly ==
    /\ follow.pc = "select"
    /\ follow' = [follow EXCEPT !.pc = "returned"]
    /\ UNCHANGED <<podVars, shellFlag, session, cacheVars, begun, failures>>

\* watchLogs returns when the context is done, and closes its channels.
FollowReturns ==
    /\ follow.pc = "select" /\ follow.cancelled
    /\ follow' = [follow EXCEPT !.pc = "returned"]
    /\ UNCHANGED <<podVars, shellFlag, session, cacheVars, begun, failures>>

LogStep ==
    \/ WatchLogs \/ ListLogs \/ Cancel \/ LoseWatch \/ RouteTarget \/ Send
    \/ \E routine \in {"add", "remove"} : UseTails(routine)
    \/ AddTail \/ RemoveTail \/ FollowReturns

----------------------------------------------------------------------------
(* Purges. *)

\* As Targets, without the encoding of clients that accept none (a mutant).
TargetsCompressed(preserve) ==
    IF preserve THEN << <<"gzip", "path">> >>
    ELSE << <<"gzip", "http">>, <<"gzip", "https">> >>

\* Each encoding in turn, and for each the two schemes unless the path is to be
\* preserved.
Targets(preserve) ==
    IF preserve
    THEN << <<"gzip", "path">>, <<"identity", "path">> >>
    ELSE << <<"gzip", "http">>, <<"gzip", "https">>,
            <<"identity", "http">>, <<"identity", "https">> >>

\* What clients may have made each pod store under the key that the purge names: a
\* path that carries the scheme, or one that is to be preserved.
Stores(preserve) == {v \in Stored : (v[2] = "path") = preserve}

BeginPurge(by, pods, preserve) ==
    /\ purge' = [IdlePurge EXCEPT !.pc = "pods", !.by = by, !.preserve = preserve,
                                    !.reported = pods, !.todo = pods]
    /\ stale' \in [Pods -> SUBSET Stores(preserve)]
    /\ \A p \in Pods \ Running : stale'[p] = {}
    /\ UNCHANGED <<podVars, shellFlag, session, follow, failures>>

\* The manager asks for the status of the pods of the Nginx resource.  A pod is
\* reported as running if all its containers are ready, so even if it has none yet;
\* one that is not ready, or whose events cannot be listed, is reported as not
\* running, and the purge passes it over without an error.
GetInstanceStatus(preserve) ==
    /\ purge.pc = "idle" /\ Begin(2)
    /\ \E reported \in SUBSET Existing : BeginPurge("manager", reported, preserve)

\* The purger asks for the pods that carry the label of the instance and have an
\* address, and passes over those that are not ready; it finds none of an instance
\* that it does not know, which is an error.
ListPods(preserve) ==
    /\ purge.pc = "idle" /\ Begin(2)
    /\ Existing # {}
    /\ \E ready \in SUBSET Running : BeginPurge("purger", ready, preserve)

\* PurgeCache: the next pod, or the end.
PurgeCache ==
    /\ purge.pc = "pods"
    /\ IF purge.todo = {}
       THEN purge' = [purge EXCEPT !.pc = "answered"]
       ELSE \E p \in purge.todo :
              purge' = [purge EXCEPT !.pc = "requests", !.pod = p, !.todo = @ \ {p},
                                     !.left = Targets(purge.preserve), !.found = FALSE]
    /\ UNCHANGED <<podVars, shellFlag, session, follow, stale, begun, failures>>

\* One request per variant: found or not found is fine, anything else ends the
\* purge of this pod with an error.
PurgeRequest ==
    LET p == purge.pod IN
    /\ purge.pc = "requests" /\ purge.left # <<>>
    /\ \/ LET v == Head(purge.left) IN
          /\ p \in Running
          /\ stale' = [stale EXCEPT ![p] = @ \ {v}]
          /\ purge' = [purge EXCEPT !.left = Tail(@),
                                    !.found = @ \/ v \in stale[p]]
          /\ UNCHANGED failures
       \/ /\ IF p \in Running THEN Fail ELSE UNCHANGED failures
          /\ purge' = [purge EXCEPT !.pc = "pods", !.failed = TRUE]
          /\ UNCHANGED stale
    /\ UNCHANGED <<podVars, shellFlag, session, follow, begun>>

PodPurged ==
    /\ purge.pc = "requests" /\ purge.left = <<>>
    /\ purge' = [purge EXCEPT !.pc = "pods", !.count = IF purge.found THEN @ + 1 ELSE @]
    /\ UNCHANGED <<podVars, shellFlag, session, follow, stale, begun, failures>>

PurgeStep ==
    \/ \E preserve \in BOOLEAN : GetInstanceStatus(preserve) \/ ListPods(preserve)
    \/ PurgeCache \/ PurgeRequest \/ PodPurged

----------------------------------------------------------------------------

Next ==
    \/ \E p \in Pods :
          \/ PodAppears(p) \/ PodRuns(p) \/ PodDies(p)
          \/ \E c \in Ephemeral : ContainerStarts(p, c) \/ ContainerEnds(p, c)
    \/ \E s \in Sessions : SessionStep(s)
    \/ LogStep \/ PurgeStep

Spec == Init /\ [][Next]_vars

\* The goroutines run.  Pods and containers need not: an image may never come.
Fairness ==
    /\ \A s \in Sessions :
          /\ WF_vars(\E wanted \in Pods \cup {NoPod} : CheckPodOnInstance(s, wanted))
          /\ WF_vars(GetContainer(s)) /\ WF_vars(PatchEphemeralContainers(s))
          /\ WF_vars(WaitForContainer(s)) /\ WF_vars(Notified(s))
    /\ WF_vars(RouteTarget) /\ WF_vars(Send)
    /\ \A routine \in {"add", "remove"} : WF_vars(UseTails(routine))
    /\ WF_vars(AddTail) /\ WF_vars(RemoveTail)
    /\ WF_vars(FollowReturns)

FairSpec == Spec /\ Fairness

----------------------------------------------------------------------------
(* Properties. *)

\* Objects have their shape.
TypeOK ==
    /\ phase \in [Pods -> {"new", "pending", "running", "gone"}]
    /\ containers \in
          [Pods -> [Ephemeral -> {"none", "waiting", "running", "terminated"}]]
    /\ \A s \in Sessions :
          /\ session[s].pod \in Pods \cup {NoPod}
          /\ session[s].container \in Ephemeral \cup {Nginx}
    /\ follow.tails \subseteq Pods /\ follow.using \subseteq {"add", "remove"}
    /\ stale \in [Pods -> SUBSET Variants]
    /\ purge.count \in 0..Cardinality(Pods)
    /\ begun \in 0..MaxBegun

\* The API process dies of a request that follows logs only once the client is
\* gone, the watch is lost, or a pod of the instance is gone: as long as pods only
\* come, no goroutine sends on a channel that is closed, and none meets another one
\* in the map of tails.
DeathHasACause ==
    follow.pc = "dead" =>
        \/ follow.cancelled \/ follow.lost
        \/ \E p \in Pods : phase[p] = "gone"

\* A purge that is answered without an error has removed the object, in each of
\* its variants, from each pod that was reported as running when it began and
\* still runs.
PurgeIsComplete ==
    purge.pc = "answered" /\ ~purge.failed =>
        \A p \in purge.reported \cap Running : stale[p] = {}

\* What waitForContainer, which has no timeout, waits for in vain: a container
\* that does not start on a pod that stays.
NeverStarts(s) ==
    session[s].pc = "waiting" /\ session[s].pod \in Existing /\ ~Started(s)

\* A session is eventually served or refused, unless its container never starts,
\* or its pod went away after it was patched and before it was watched: then
\* waitForContainer waits for an event that never comes.
SessionIsServed ==
    \A s \in Sessions :
        session[s].pc = "check" ~>
            session[s].pc \in {"stream", "closed", "deaf"} \/ []NeverStarts(s)

\* While logs are followed, the logs of every running pod are eventually tailed,
\* unless the pod goes away or the request ends.
RunningPodsAreTailed ==
    \A p \in Pods :
        follow.pc = "select" /\ p \in Running
            ~> follow.pc # "select" \/ p \notin Running \/ p \in follow.tails

\* When its client leaves or its watch is lost, the request that follows logs
\* returns, or the process dies, and none of its goroutines stays behind, blocked
\* on a channel.
FollowersEnd ==
    follow.cancelled \/ follow.lost ~>
        /\ follow.pc \in {"returned", "dead"} /\ follow.router = "off"
        /\ follow.adding = NoPod /\ follow.removing = NoPod
=============================================================================
