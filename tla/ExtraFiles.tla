----------------------------- MODULE ExtraFiles -----------------------------
(***************************************************************************)
(* Extra files of one instance: CreateExtraFiles, UpdateExtraFiles and     *)
(* DeleteExtraFiles of the validating manager and of the manager it wraps. *)
(*                                                                         *)
(* A file is two objects.  Its content is a ConfigMap with a generated     *)
(* name, found again by a label that holds the file name; the entry of     *)
(* Spec.Files refers to the ConfigMap by its generated name, and that      *)
(* reference is what the pods mount.  An operation looks ConfigMaps up and *)
(* writes them one by one and patches the instance at the end, each a call *)
(* of its own that other requests come between and that may fail.          *)
(*                                                                         *)
(* Spec.Files is a set: nothing here depends on its order.  The verdict of *)
(* the validation is free; its protocol is module Validation.              *)
(***************************************************************************)
EXTENDS Naturals, Sequences

CONSTANTS
    Requests,     \* the requests that can be in flight at the same time
    FileNames,
    Contents,     \* contents of files within the limits of size
    Empty,        \* a content that validateFile refuses
    FileLists,    \* the lists of files that clients send
    NoObject,     \* no ConfigMap was found
    MaxObjects,   \* bound: ConfigMaps ever created
    MaxFailures,  \* bound: calls that fail
    MaxRequests   \* bound: requests ever made

File == [name : FileNames, content : Contents \cup {Empty}]

ASSUME FilesAssumption ==
    /\ FileLists \subseteq Seq(File)
    /\ Empty \notin Contents
    /\ {"none", "absent"} \cap (Contents \cup {Empty}) = {}
    /\ NoObject \notin Nat
    /\ MaxObjects \in Nat
    /\ MaxFailures \in Nat
    /\ MaxRequests \in Nat

VARIABLES
    files,        \* Spec.Files
    configMaps,   \* ConfigMaps that carry the label of a file
    temporary,    \* files whose temporary ConfigMap exists, per request
    leaked,       \* files whose temporary ConfigMap outlives its request
    request,      \* the requests in flight
    created,      \* how many names were generated
    failures,     \* how many calls failed
    begun,        \* how many requests came in
    contended,    \* history: files that two requests in flight have named
    acked         \* history: what the last successful request on a file left

vars == <<files, configMaps, temporary, leaked, request, created, failures,
          begun, contended, acked>>

Entry == [name : FileNames, object : 1..MaxObjects]
ConfigMap == [object : 1..MaxObjects, name : FileNames,
              content : Contents \cup {Empty}]

Ops == {"create", "update", "delete"}

\* A request: the operation and its arguments, what is left of them, the
\* files as read and as edited, the ConfigMap that the current file's lookup
\* found and whether it is still the stored one.
Idle == [pc |-> "idle"]
Request == [pc : {"validate", "read", "lookup", "write", "patch", "cleanup"},
            op : Ops, args : FileLists, todo : Seq(File),
            old : SUBSET Entry, new : SUBSET Entry,
            object : 1..MaxObjects \cup {NoObject}, current : BOOLEAN]

Range(s) == {s[i] : i \in DOMAIN s}
NamesIn(s) == {f.name : f \in Range(s)}

\* The content that a list leaves in file n, which it names.
LastContent(fs, n) ==
    fs[CHOOSE i \in DOMAIN fs :
          fs[i].name = n /\ \A j \in DOMAIN fs : fs[j].name = n => j <= i].content

----------------------------------------------------------------------------
(* What the operations look at. *)

ValidateFiles(fs) == fs # <<>> /\ \A f \in Range(fs) : f.content # Empty

FindFileByName(entries, n) == {e \in entries : e.name = n}

\* As GetConfigMapByFileName, only among the ones that files refer to (a mutant).
GetReferredConfigMap(n) ==
    {cm \in configMaps : cm.name = n /\ \E e \in files : e.object = cm.object}

\* The ConfigMaps that a lookup by label returns.
GetConfigMapByFileName(n) == {cm \in configMaps : cm.name = n}

Unused == created + 1

\* A write to a ConfigMap outdates the copies that other requests hold.
Outdate(reqs, object, r) ==
    [q \in Requests |->
        IF q # r /\ reqs[q].pc = "write" /\ reqs[q].object = object
        THEN [reqs[q] EXCEPT !.current = FALSE] ELSE reqs[q]]

\* The request is over, but for the temporary ConfigMaps it deletes on its
\* way out.
End(reqs, r) == [reqs EXCEPT ![r].pc = "cleanup"]

Forget(names) == [n \in FileNames |-> IF n \in names THEN "none" ELSE acked[n]]

----------------------------------------------------------------------------
(* The operations. *)

Init ==
    /\ files = {}
    /\ configMaps = {}
    /\ temporary = [r \in Requests |-> {}]
    /\ leaked = {}
    /\ request = [r \in Requests |-> Idle]
    /\ created = 0
    /\ failures = 0
    /\ begun = 0
    /\ contended = {}
    /\ acked = [n \in FileNames |-> "none"]

\* A request comes in, and the validating manager reads the instance.
Begin(r, op, args) ==
    /\ request[r] = Idle
    /\ request' = [request EXCEPT ![r] =
          [pc |-> "validate", op |-> op, args |-> args, todo |-> args,
           old |-> files, new |-> files, object |-> NoObject,
           current |-> FALSE]]
    /\ begun < MaxRequests
    /\ begun' = begun + 1
    /\ contended' = contended \cup
          {n \in NamesIn(args) :
              \E q \in Requests : request[q] # Idle /\ n \in NamesIn(request[q].args)}
    /\ acked' = Forget(NamesIn(args))
    /\ UNCHANGED <<files, configMaps, temporary, leaked, created, failures>>

\* The positions of files that are not there.
Missing(q) == {i \in DOMAIN q.args : FindFileByName(q.old, q.args[i].name) = {}}

\* The positions of the files that the validating manager copies: all of a
\* creation, if all of them are new; those of an update up to the first that does
\* not exist.
Copied(q) ==
    CASE q.op = "create" -> IF Missing(q) = DOMAIN q.args THEN DOMAIN q.args ELSE {}
      [] q.op = "update" -> {j \in DOMAIN q.args : \A k \in Missing(q) : j < k}
      [] q.op = "delete" -> {}

\* The temporary ConfigMaps of the files at these positions.
CreateTemporaryFiles(r, positions) ==
    temporary' = [temporary EXCEPT ![r] = {request[r].args[i].name : i \in positions}]

\* The edit is left to the operator, which finds it valid or not (see Validation),
\* or is too late.
WaitController(r) ==
    /\ \/ request' = [request EXCEPT ![r].pc = "read"]
       \/ request' = End(request, r)
    /\ UNCHANGED <<files, configMaps, leaked, created, failures, begun, contended, acked>>
Refuse(r) ==
    /\ request' = End(request, r)
    /\ UNCHANGED <<files, configMaps, leaked, created, failures, begun, contended, acked>>

\* The validating manager: each file of a creation must be new (the ones before it
\* in the list are not looked at), and gets a temporary ConfigMap.
CreateExtraFiles(r) ==
    LET q == request[r] IN
    /\ q.pc = "validate" /\ q.op = "create"
    /\ CreateTemporaryFiles(r, Copied(q))
    /\ IF Missing(q) = DOMAIN q.args THEN WaitController(r) ELSE Refuse(r)

\* An update stops at the first file that does not exist; the ones before it have
\* their ConfigMaps by then.
UpdateExtraFiles(r) ==
    LET q == request[r] IN
    /\ q.pc = "validate" /\ q.op = "update"
    /\ CreateTemporaryFiles(r, Copied(q))
    /\ IF Missing(q) = {} THEN WaitController(r) ELSE Refuse(r)

\* Files that do not exist are no obstacle to the validation of a deletion.
DeleteExtraFiles(r) ==
    /\ request[r].pc = "validate" /\ request[r].op = "delete"
    /\ WaitController(r) /\ UNCHANGED temporary

\* The wrapped manager checks the arguments and reads the instance again.
ReadInstance(r) ==
    /\ request[r].pc = "read"
    /\ request' =
          IF \/ request[r].args = <<>>
             \/ request[r].op # "delete" /\ ~ValidateFiles(request[r].args)
          THEN End(request, r)
          ELSE [request EXCEPT ![r].pc = "lookup", ![r].old = files,
                               ![r].new = files]
    /\ UNCHANGED <<files, configMaps, temporary, leaked, created, failures,
                   begun, contended, acked>>

\* The lookup for the next file, or the end of the list.
LookUpFile(r) ==
    LET q == request[r]
        f == Head(q.todo)
        entries == FindFileByName(q.new, f.name)
        found == GetConfigMapByFileName(f.name)
        writes == \/ q.op = "create" /\ entries = {} /\ found = {}
                  \/ q.op = "update" /\ entries # {} /\ found = {}
                  \/ /\ \/ q.op = "create" /\ entries = {}
                        \/ q.op = "update" /\ entries # {}
                     /\ \E cm \in found : found = {cm} /\ cm.content # f.content
                  \/ q.op = "delete" /\ \E cm \in found : found = {cm}
    IN /\ q.pc = "lookup"
       /\ request' =
             IF q.todo = <<>> THEN [request EXCEPT ![r].pc = "patch"]
             ELSE IF ~writes THEN End(request, r)
             ELSE [request EXCEPT ![r].pc = "write", ![r].current = TRUE,
                      ![r].object = IF found = {} THEN NoObject
                                    ELSE (CHOOSE cm \in found : TRUE).object]
       /\ UNCHANGED <<files, configMaps, temporary, leaked, created, failures,
                      begun, contended, acked>>

\* The edit of the private copy once the ConfigMap is written.
Edited(q, object) ==
    CASE q.op = "create" ->
           q.new \cup {[name |-> Head(q.todo).name, object |-> object]}
      [] q.op = "update" -> q.new
      [] q.op = "delete" -> q.new \ FindFileByName(q.new, Head(q.todo).name)

NextFile(reqs, r, object) ==
    [reqs EXCEPT ![r].pc = "lookup", ![r].todo = Tail(@),
                 ![r].new = Edited(reqs[r], object), ![r].object = NoObject]

\* updateFileInConfigMap: a new ConfigMap, or an update of the one that was
\* found, which the API server refuses if it has changed or is gone.
CreateConfigMap(r) ==
    LET q == request[r] IN
    /\ q.pc = "write" /\ q.op # "delete" /\ q.object = NoObject
    /\ created < MaxObjects
    /\ created' = Unused
    /\ configMaps' = configMaps \cup
          {[object |-> Unused, name |-> Head(q.todo).name,
            content |-> Head(q.todo).content]}
    /\ request' = NextFile(request, r, Unused)
    /\ UNCHANGED <<files, temporary, leaked, failures, begun, contended, acked>>

\* As UpdateConfigMap, with the first content of the request (a mutant).
UpdateWithFirstContent(r) ==
    LET q == request[r] IN
    /\ q.pc = "write" /\ q.op # "delete" /\ q.object # NoObject
    /\ configMaps' = {IF cm.object = q.object
                      THEN [cm EXCEPT !.content = Head(q.args).content] ELSE cm
                         : cm \in configMaps}
    /\ request' = NextFile(Outdate(request, q.object, r), r, q.object)
    /\ UNCHANGED <<files, temporary, leaked, created, failures, begun, contended,
                   acked>>

UpdateConfigMap(r) ==
    LET q == request[r] IN
    /\ q.pc = "write" /\ q.op # "delete" /\ q.object # NoObject
    /\ IF q.current
       THEN /\ configMaps' =
                  {IF cm.object = q.object
                   THEN [cm EXCEPT !.content = Head(q.todo).content] ELSE cm
                      : cm \in configMaps}
            /\ request' = NextFile(Outdate(request, q.object, r), r, q.object)
       ELSE /\ request' = End(request, r)
            /\ UNCHANGED configMaps
    /\ UNCHANGED <<files, temporary, leaked, created, failures, begun, contended,
                   acked>>

\* A deletion is by name; it only fails if the ConfigMap is gone.
DeleteConfigMap(r) ==
    LET q == request[r]
        found == {cm \in configMaps : cm.object = q.object}
    IN /\ q.pc = "write" /\ q.op = "delete"
       /\ configMaps' = configMaps \ found
       /\ request' = IF found = {} THEN End(request, r)
                     ELSE NextFile(Outdate(request, q.object, r), r, q.object)
       /\ UNCHANGED <<files, temporary, leaked, created, failures, begun,
                      contended, acked>>

\* patchInstance: the list is in the merge patch, whole, if it was edited.
PatchInstance(r) ==
    LET q == request[r] IN
    /\ q.pc = "patch"
    /\ files' = IF q.new = q.old THEN files ELSE q.new
    /\ request' = End(request, r)
    /\ acked' = [n \in FileNames |->
          IF n \notin NamesIn(q.args) THEN acked[n]
          ELSE IF q.op = "delete" THEN "absent" ELSE LastContent(q.args, n)]
    /\ UNCHANGED <<configMaps, temporary, leaked, created, failures, begun, contended>>

\* A call of the validation fails: the creation of any of the temporary ConfigMaps,
\* which come one by one, or a call of the wait.  The ones that exist are cleaned up.
ValidationFails(r) ==
    LET q == request[r] IN
    /\ q.pc = "validate"
    /\ failures < MaxFailures
    /\ failures' = failures + 1
    /\ \E k \in 0..Len(q.args) : CreateTemporaryFiles(r, {i \in Copied(q) : i <= k})
    /\ request' = End(request, r)
    /\ UNCHANGED <<files, configMaps, leaked, created, begun, contended, acked>>

\* Any later call of the request fails: the request ends where it is.
CallFails(r) ==
    /\ request[r].pc \in {"read", "lookup", "write", "patch"}
    /\ failures < MaxFailures
    /\ failures' = failures + 1
    /\ request' = End(request, r)
    /\ UNCHANGED <<files, configMaps, temporary, leaked, created, begun, contended,
                   acked>>

\* The deferred deletion of the temporary ConfigMaps, one by one.  A failure
\* (the context is the request's, and is cancelled when the client goes away)
\* is logged and nothing more.
CleanUp(r) ==
    /\ request[r].pc = "cleanup"
    /\ request' = [request EXCEPT ![r] = Idle]
    /\ temporary' = [temporary EXCEPT ![r] = {}]
    /\ \/ UNCHANGED <<leaked, failures>>
       \/ /\ failures < MaxFailures
          /\ failures' = failures + 1
          /\ \E left \in SUBSET temporary[r] \ {{}} : leaked' = leaked \cup left
    /\ UNCHANGED <<files, configMaps, created, begun, contended, acked>>

Step(r) ==
    \/ \E op \in Ops, args \in FileLists : Begin(r, op, args)
    \/ CreateExtraFiles(r) \/ UpdateExtraFiles(r) \/ DeleteExtraFiles(r)
    \/ ReadInstance(r) \/ LookUpFile(r)
    \/ CreateConfigMap(r) \/ UpdateConfigMap(r) \/ DeleteConfigMap(r)
    \/ PatchInstance(r)
    \/ ValidationFails(r) \/ CallFails(r) \/ CleanUp(r)

Next == \E r \in Requests : Step(r)

Spec == Init /\ [][Next]_vars

----------------------------------------------------------------------------
(* Properties. *)

\* Objects and requests have their shape, and generated names are counted.
TypeOK ==
    /\ files \in SUBSET Entry
    /\ configMaps \in SUBSET ConfigMap
    /\ temporary \in [Requests -> SUBSET FileNames]
    /\ leaked \in SUBSET FileNames
    /\ request \in [Requests -> Request \cup {Idle}]
    /\ created \in 0..MaxObjects
    /\ failures \in 0..MaxFailures
    /\ begun \in 0..MaxRequests
    /\ contended \in SUBSET FileNames
    /\ acked \in [FileNames -> Contents \cup {"none", "absent"}]

\* Whatever fails or is refused half way, and whatever other files the requests
\* in flight name, a file that is not in two of them never gets a second
\* ConfigMap: getConfigMapByFileName would refuse every later operation on it
\* ("too many config maps").
OneConfigMapPerFile ==
    \A x, y \in configMaps :
        x.name = y.name /\ x.name \notin contended => x = y

\* Whatever happens to other files, the ConfigMap that later lookups of a file
\* return is the one that the last request on it left, if that succeeded: an
\* acknowledged creation or update is not lost to a failure or a retry of
\* another request, and an acknowledged deletion leaves nothing to find.
AckedIsStored ==
    \A n \in FileNames \ contended :
        /\ acked[n] \in Contents =>
              \E cm \in configMaps :
                  GetConfigMapByFileName(n) = {cm} /\ cm.content = acked[n]
        /\ acked[n] = "absent" => GetConfigMapByFileName(n) = {}
=============================================================================
