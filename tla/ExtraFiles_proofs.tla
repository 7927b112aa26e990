-------------------------- MODULE ExtraFiles_proofs --------------------------
(***************************************************************************)
(* Extra files, for any requests, files and lists of them, however the     *)
(* calls of the requests interleave and wherever they fail: no second      *)
(* ConfigMap for a file unless two requests in flight name it, and what    *)
(* was acknowledged is stored.                                             *)
(***************************************************************************)
EXTENDS ExtraFiles, TLAPS, WellFoundedInduction

----------------------------------------------------------------------------
(* Types. *)

LEMMA FilesOfList ==
    ASSUME NEW args \in FileLists
    PROVE  /\ args \in Seq(File) /\ DOMAIN args = 1..Len(args) /\ Len(args) \in Nat
           /\ \A i \in DOMAIN args : args[i].name \in FileNames
                                     /\ args[i].content \in Contents \cup {Empty}
           /\ NamesIn(args) \subseteq FileNames
<1>1. args \in Seq(File)
  BY FilesAssumption
<1>2. \A i \in DOMAIN args : args[i] \in File
  BY <1>1
<1>3. \A f \in File : f.name \in FileNames /\ f.content \in Contents \cup {Empty}
  BY DEF File
<1> QED
  BY <1>1, <1>2, <1>3 DEF NamesIn, Range

LEMMA TypeInit == Init => TypeOK
BY FilesAssumption DEF Init, TypeOK

LEMMA BeginType ==
    ASSUME TypeOK, NEW r \in Requests, NEW op \in Ops, NEW args \in FileLists, Begin(r, op, args)
    PROVE  TypeOK'
<1>1. request' \in [Requests -> Request \cup {Idle}]
  BY FilesAssumption DEF TypeOK, Begin, Request
<1>2. contended' \in SUBSET FileNames
  BY FilesOfList DEF TypeOK, Begin
<1>3. acked' \in [FileNames -> Contents \cup {"none", "absent"}]
  BY DEF TypeOK, Begin, Forget
<1>4. begun' \in 0..MaxRequests
  BY FilesAssumption DEF TypeOK, Begin
<1> QED
  BY <1>1, <1>2, <1>3, <1>4 DEF TypeOK, Begin

LEMMA EndType ==
    ASSUME TypeOK, NEW r \in Requests, request[r].pc # "idle"
    PROVE  End(request, r) \in [Requests -> Request \cup {Idle}]
BY DEF TypeOK, End, Request, Idle

LEMMA CopiedType ==
    ASSUME NEW q, q.op \in Ops
    PROVE  Copied(q) \subseteq DOMAIN q.args
BY DEF Copied, Ops

LEMMA TemporaryType ==
    ASSUME TypeOK, NEW r \in Requests, request[r] \in Request,
           NEW positions \in SUBSET DOMAIN request[r].args,
           CreateTemporaryFiles(r, positions)
    PROVE  temporary' \in [Requests -> SUBSET FileNames]
<1>1. \A i \in positions : request[r].args[i].name \in FileNames
  BY FilesOfList DEF Request
<1> QED
  BY <1>1 DEF TypeOK, CreateTemporaryFiles

LEMMA ValidateType ==
    ASSUME TypeOK, NEW r \in Requests,
           CreateExtraFiles(r) \/ UpdateExtraFiles(r) \/ DeleteExtraFiles(r)
    PROVE  TypeOK'
<1>1. request[r].pc = "validate" /\ request[r] \in Request
  BY DEF CreateExtraFiles, UpdateExtraFiles, DeleteExtraFiles, TypeOK, Idle
<1>2. request' \in [Requests -> Request \cup {Idle}]
  <2>1. [request EXCEPT ![r].pc = "read"] \in [Requests -> Request \cup {Idle}]
    BY <1>1 DEF TypeOK, Request
  <2> QED
    BY <1>1, <2>1, EndType
       DEF CreateExtraFiles, UpdateExtraFiles, DeleteExtraFiles, WaitController, Refuse
<1>3. temporary' \in [Requests -> SUBSET FileNames]
  <2>1. request[r].op \in Ops
    BY <1>1 DEF Request
  <2> QED
    BY <1>1, <2>1, CopiedType, TemporaryType
       DEF TypeOK, CreateExtraFiles, UpdateExtraFiles, DeleteExtraFiles
<1> QED
  BY <1>2, <1>3 DEF TypeOK, CreateExtraFiles, UpdateExtraFiles, DeleteExtraFiles,
                    WaitController, Refuse

LEMMA ReadType == ASSUME TypeOK, NEW r \in Requests, ReadInstance(r) PROVE TypeOK'
<1>1. request[r].pc = "read" /\ request[r] \in Request
  BY DEF ReadInstance, TypeOK, Idle
<1>2. [request EXCEPT ![r].pc = "lookup", ![r].old = files, ![r].new = files]
         \in [Requests -> Request \cup {Idle}]
  BY <1>1 DEF TypeOK, Request
<1>3. request' \in [Requests -> Request \cup {Idle}]
  BY <1>1, <1>2, EndType DEF ReadInstance
<1> QED
  BY <1>3 DEF TypeOK, ReadInstance

LEMMA LookUpType == ASSUME TypeOK, NEW r \in Requests, LookUpFile(r) PROVE TypeOK'
<1>1. request[r].pc = "lookup" /\ request[r] \in Request
  BY DEF LookUpFile, TypeOK, Idle
<1>2. \A x \in configMaps : x.object \in 1..MaxObjects
  BY DEF TypeOK, ConfigMap
<1>3. \A o \in 1..MaxObjects \cup {NoObject} :
         [request EXCEPT ![r].pc = "write", ![r].current = TRUE, ![r].object = o]
            \in [Requests -> Request \cup {Idle}]
  BY <1>1 DEF TypeOK, Request
<1>4. [request EXCEPT ![r].pc = "patch"] \in [Requests -> Request \cup {Idle}]
  BY <1>1 DEF TypeOK, Request
<1>5. request' \in [Requests -> Request \cup {Idle}]
  <2> DEFINE found == GetConfigMapByFileName(Head(request[r].todo).name)
             o == IF found = {} THEN NoObject ELSE (CHOOSE x \in found : TRUE).object
  <2>1. o \in 1..MaxObjects \cup {NoObject}
    BY <1>2 DEF GetConfigMapByFileName
  <2>2. \/ request' = [request EXCEPT ![r].pc = "patch"]
        \/ request' = End(request, r)
        \/ request' = [request EXCEPT ![r].pc = "write", ![r].current = TRUE, ![r].object = o]
    BY DEF LookUpFile
  <2>3. [request EXCEPT ![r].pc = "write", ![r].current = TRUE, ![r].object = o]
           \in [Requests -> Request \cup {Idle}]
    BY <1>3, <2>1
  <2> QED
    BY <1>1, <1>4, <2>2, <2>3, EndType
<1> QED
  BY <1>5 DEF TypeOK, LookUpFile

\* The next file of a request that writes.
LEMMA FileAtHand ==
    ASSUME TypeOK, NEW r \in Requests, request[r].pc = "write", request[r].todo # <<>>
    PROVE  /\ request[r] \in Request /\ Head(request[r].todo) \in File
           /\ Tail(request[r].todo) \in Seq(File)
<1>1. request[r] \in Request
  BY DEF TypeOK, Idle
<1>2. request[r].todo \in Seq(File)
  BY <1>1 DEF Request
<1> QED
  BY <1>1, <1>2

LEMMA NextFileType ==
    ASSUME NEW reqs \in [Requests -> Request \cup {Idle}], NEW r \in Requests,
           NEW o \in 1..MaxObjects, reqs[r] \in Request, reqs[r].todo # <<>>
    PROVE  NextFile(reqs, r, o) \in [Requests -> Request \cup {Idle}]
<1>1. Head(reqs[r].todo) \in File /\ Tail(reqs[r].todo) \in Seq(File)
  <2>1. reqs[r].todo \in Seq(File)
    BY DEF Request
  <2> QED
    BY <2>1
<1>2. Edited(reqs[r], o) \in SUBSET Entry
  BY <1>1 DEF Edited, Request, Entry, File, FindFileByName, Ops
<1> QED
  BY <1>1, <1>2 DEF NextFile, Request

LEMMA OutdateType ==
    ASSUME TypeOK, NEW o, NEW r \in Requests
    PROVE  /\ Outdate(request, o, r) \in [Requests -> Request \cup {Idle}]
           /\ Outdate(request, o, r)[r] = request[r]
<1>1. ASSUME NEW q \in Requests, request[q].pc = "write"
      PROVE  [request[q] EXCEPT !.current = FALSE] \in Request
  <2>1. request[q] \in Request
    BY <1>1 DEF TypeOK, Idle
  <2> QED
    BY <2>1 DEF Request
<1> QED
  BY <1>1 DEF TypeOK, Outdate

LEMMA CreateType ==
    ASSUME TypeOK, NEW r \in Requests, CreateConfigMap(r), request[r].todo # <<>>
    PROVE  TypeOK'
<1>1. request[r] \in Request /\ Head(request[r].todo) \in File
  BY FileAtHand DEF CreateConfigMap
<1>2. Unused \in 1..MaxObjects /\ created' \in 0..MaxObjects
  BY FilesAssumption DEF TypeOK, CreateConfigMap, Unused
<1>3. request' \in [Requests -> Request \cup {Idle}]
  BY <1>1, <1>2, NextFileType DEF TypeOK, CreateConfigMap
<1>4. configMaps' \in SUBSET ConfigMap
  BY <1>1, <1>2 DEF TypeOK, CreateConfigMap, ConfigMap, File
<1> QED
  BY <1>2, <1>3, <1>4 DEF TypeOK, CreateConfigMap

LEMMA UpdateType ==
    ASSUME TypeOK, NEW r \in Requests, UpdateConfigMap(r), request[r].todo # <<>>
    PROVE  TypeOK'
<1> DEFINE q == request[r]
<1>1. q \in Request /\ q.pc = "write" /\ Head(q.todo) \in File /\ q.object \in 1..MaxObjects
  BY FileAtHand DEF UpdateConfigMap, Request
<1>2. request' \in [Requests -> Request \cup {Idle}]
  <2>1. NextFile(Outdate(request, q.object, r), r, q.object)
           \in [Requests -> Request \cup {Idle}]
    BY <1>1, OutdateType, NextFileType
  <2> QED
    BY <1>1, <2>1, EndType DEF UpdateConfigMap
<1>3. configMaps' \in SUBSET ConfigMap
  <2>1. \A cm \in ConfigMap : [cm EXCEPT !.content = Head(q.todo).content] \in ConfigMap
    BY <1>1 DEF ConfigMap, File
  <2> QED
    BY <2>1 DEF UpdateConfigMap, TypeOK
<1> QED
  BY <1>2, <1>3 DEF TypeOK, UpdateConfigMap

LEMMA DeleteType ==
    ASSUME TypeOK, NEW r \in Requests, DeleteConfigMap(r), request[r].todo # <<>>,
           request[r].object # NoObject
    PROVE  TypeOK'
<1> DEFINE q == request[r]
<1>1. q \in Request /\ q.pc = "write" /\ q.object \in 1..MaxObjects
  BY FileAtHand DEF DeleteConfigMap, Request
<1>2. request' \in [Requests -> Request \cup {Idle}]
  <2>1. NextFile(Outdate(request, q.object, r), r, q.object)
           \in [Requests -> Request \cup {Idle}]
    BY <1>1, OutdateType, NextFileType
  <2> QED
    BY <1>1, <2>1, EndType DEF DeleteConfigMap
<1>3. configMaps' \in SUBSET ConfigMap
  BY DEF TypeOK, DeleteConfigMap
<1> QED
  BY <1>2, <1>3 DEF TypeOK, DeleteConfigMap

LEMMA EndingType ==
    ASSUME TypeOK, NEW r \in Requests, ValidationFails(r) \/ CallFails(r) \/ CleanUp(r)
    PROVE  TypeOK'
<1>1. request' \in [Requests -> Request \cup {Idle}]
  BY EndType DEF TypeOK, ValidationFails, CallFails, CleanUp, Idle
<1>2. failures' \in 0..MaxFailures
  BY FilesAssumption DEF TypeOK, ValidationFails, CallFails, CleanUp
<1>3. temporary' \in [Requests -> SUBSET FileNames]
  <2>1. CASE ValidationFails(r)
    <3>1. request[r] \in Request
      BY <2>1 DEF ValidationFails, TypeOK, Idle
    <3>2. Copied(request[r]) \subseteq DOMAIN request[r].args
      BY <3>1, CopiedType DEF Request
    <3>3. PICK k \in 0..Len(request[r].args) :
             CreateTemporaryFiles(r, {i \in Copied(request[r]) : i <= k})
      BY <2>1 DEF ValidationFails
    <3> QED
      BY <3>1, <3>2, <3>3, TemporaryType
  <2> QED
    BY <2>1 DEF TypeOK, ValidationFails, CallFails, CleanUp
<1>4. leaked' \in SUBSET FileNames
  BY DEF TypeOK, ValidationFails, CallFails, CleanUp
<1> QED
  BY <1>1, <1>2, <1>3, <1>4 DEF TypeOK, ValidationFails, CallFails, CleanUp

----------------------------------------------------------------------------
(* The inductive invariant. *)

Named(cms, n) == {cm \in cms : cm.name = n}

\* How many files of its list a request has done.
Position(q) == Len(q.args) - Len(q.todo)

\* What is left to do is the end of the list, and calls are made only where the
\* ones before them lead.
Progress(q) == q.pc # "idle" =>
    /\ Len(q.todo) <= Len(q.args)
    /\ \A i \in 1..Len(q.todo) : q.todo[i] = q.args[Position(q) + i]
    /\ q.pc \in {"validate", "read"} => q.todo = q.args
    /\ q.pc \in {"lookup", "write", "patch"} /\ q.op # "delete" =>
          \A i \in 1..Len(q.args) : q.args[i].content # Empty
    /\ q.pc = "write" => q.todo # <<>> /\ (q.op = "delete" => q.object # NoObject)
    /\ q.pc = "patch" => q.todo = <<>>

\* The ConfigMap that a request has found for a file is still the one, and the
\* only one, unless another request names the file.
AtHand(q, cms, last, shared) == q.pc = "write" =>
    /\ q.object # NoObject => q.object <= last
    /\ \A cm \in cms : cm.object = q.object => cm.name = Head(q.todo).name
    /\ Head(q.todo).name \notin shared =>
          IF q.object = NoObject THEN Named(cms, Head(q.todo).name) = {}
          ELSE \E cm \in cms : Named(cms, Head(q.todo).name) = {cm} /\ cm.object = q.object

\* A file is as the operation leaves it.
Stored(op, f, cms) ==
    IF op = "delete" THEN Named(cms, f.name) = {}
    ELSE \E cm \in cms : Named(cms, f.name) = {cm} /\ cm.content = f.content

\* The files that are done are stored, each as its last mention says.
Done(q, cms, shared) == q.pc \in {"lookup", "write", "patch"} =>
    \A i \in 1..Position(q) :
        /\ q.args[i].name \notin shared
        /\ \A j \in i + 1 .. Position(q) : q.args[j].name # q.args[i].name
        => Stored(q.op, q.args[i], cms)

Contention ==
    \A r, q \in Requests :
        r # q /\ request[r].pc # "idle" /\ request[q].pc # "idle" =>
            NamesIn(request[r].args) \cap NamesIn(request[q].args) \subseteq contended

Objects ==
    /\ \A x \in configMaps : x.object <= created
    /\ \A x, y \in configMaps : x.object = y.object => x.name = y.name

\* Nothing is known of a file while a request is at work on it.
Settled ==
    \A n \in FileNames, r \in Requests :
        n \notin contended /\ acked[n] # "none" /\ request[r].pc # "idle"
        /\ n \in NamesIn(request[r].args) => request[r].pc = "cleanup"

IInv ==
    /\ TypeOK
    /\ \A r \in Requests : /\ Progress(request[r])
                           /\ AtHand(request[r], configMaps, created, contended)
                           /\ Done(request[r], configMaps, contended)
    /\ Contention
    /\ Objects
    /\ Settled
    /\ OneConfigMapPerFile
    /\ AckedIsStored

----------------------------------------------------------------------------
(* Frames. *)

\* Copies of ConfigMaps may get outdated; all else of other requests stays.
Alike(x, y) ==
    /\ x.pc = y.pc
    /\ y.pc # "idle" => x.op = y.op /\ x.args = y.args /\ x.todo = y.todo /\ x.object = y.object
Others(r) == \A q \in Requests \ {r} : Alike(request'[q], request[q])

LEMMA AlikeKeeps ==
    ASSUME NEW x, NEW y, Alike(x, y), NEW cms, NEW last, NEW shared
    PROVE  /\ Progress(y) => Progress(x)
           /\ AtHand(y, cms, last, shared) => AtHand(x, cms, last, shared)
           /\ Done(y, cms, shared) => Done(x, cms, shared)
BY DEF Alike, Progress, Position, AtHand, Done

LEMMA AtHandFrame ==
    ASSUME NEW q, NEW c1, NEW c2, NEW l1 \in Nat, NEW l2 \in Nat, NEW s1, NEW s2,
           AtHand(q, c1, l1, s1), l1 <= l2, s1 \subseteq s2,
           q.object # NoObject => q.object \in Nat,
           q.pc = "write" => \A cm \in c2 : cm.object = q.object => cm.name = Head(q.todo).name,
           q.pc = "write" /\ Head(q.todo).name \notin s2 =>
               Named(c2, Head(q.todo).name) = Named(c1, Head(q.todo).name)
    PROVE  AtHand(q, c2, l2, s2)
<1> SUFFICES ASSUME q.pc = "write"
             PROVE  /\ q.object # NoObject => q.object <= l2
                    /\ Head(q.todo).name \notin s2 =>
                         IF q.object = NoObject THEN Named(c2, Head(q.todo).name) = {}
                         ELSE \E cm \in c2 : /\ Named(c2, Head(q.todo).name) = {cm}
                                             /\ cm.object = q.object
  BY DEF AtHand
<1>1. q.object # NoObject => q.object <= l2
  BY DEF AtHand
<1>2. \A cm : Named(c2, Head(q.todo).name) = {cm} => cm \in c2
  BY DEF Named
<1> QED
  BY <1>1, <1>2 DEF AtHand

LEMMA DoneFrame ==
    ASSUME NEW q, NEW c1, NEW c2, NEW s1, NEW s2, Done(q, c1, s1), s1 \subseteq s2,
           q.pc # "idle" => \A i \in 1..Position(q) :
               q.args[i].name \notin s2 => Named(c2, q.args[i].name) = Named(c1, q.args[i].name)
    PROVE  Done(q, c2, s2)
<1>1. \A n, cm : Named(c2, n) = {cm} => cm \in c2
  BY DEF Named
<1> QED
  BY <1>1 DEF Done, Stored

LEMMA Typed ==
    ASSUME TypeOK, NEW r \in Requests, request[r].pc # "idle"
    PROVE  /\ request[r] \in Request /\ request[r].args \in FileLists
           /\ request[r].todo \in Seq(File) /\ Len(request[r].todo) \in Nat
           /\ Len(request[r].args) \in Nat /\ request[r].op \in Ops
           /\ request[r].object # NoObject => request[r].object \in Nat
<1>1. request[r] \in Request
  BY DEF TypeOK, Idle
<1>2. request[r].args \in FileLists /\ request[r].todo \in Seq(File) /\ request[r].op \in Ops
      /\ request[r].object \in 1..MaxObjects \cup {NoObject}
  BY <1>1 DEF Request
<1> QED
  BY <1>1, <1>2, FilesOfList

LEMMA Difference ==
    ASSUME NEW a \in Nat, NEW b \in Nat, b <= a, NEW p, p = a - b
    PROVE  /\ p \in Nat /\ p <= a
           /\ b >= 1 => p + 1 \in 1..a /\ p + 1 = a - (b - 1)
           /\ b = 0 => p = a
           /\ b = a => p = 0
OBVIOUS

\* The files that a request has done, and the one at hand, are in its list.
LEMMA NamesOfRequest ==
    ASSUME TypeOK, NEW r \in Requests, request[r].pc # "idle", Progress(request[r])
    PROVE  /\ Position(request[r]) \in Nat /\ Position(request[r]) <= Len(request[r].args)
           /\ \A i \in 1..Len(request[r].args) : request[r].args[i].name \in NamesIn(request[r].args)
           /\ request[r].todo # <<>> =>
                 /\ Position(request[r]) + 1 \in 1..Len(request[r].args)
                 /\ Head(request[r].todo) = request[r].args[Position(request[r]) + 1]
                 /\ Head(request[r].todo).name \in NamesIn(request[r].args)
<1> DEFINE q == request[r]
<1>1. /\ q.args \in FileLists /\ q.todo \in Seq(File) /\ Len(q.todo) \in Nat
      /\ Len(q.args) \in Nat /\ DOMAIN q.args = 1..Len(q.args)
  BY Typed, FilesOfList
<1>2. /\ Len(q.todo) <= Len(q.args)
      /\ \A i \in 1..Len(q.todo) : q.todo[i] = q.args[Position(q) + i]
  BY DEF Progress
<1>3. Position(q) = Len(q.args) - Len(q.todo)
  BY DEF Position
<1> HIDE DEF q
<1>6. Position(q) \in Nat /\ Position(q) <= Len(q.args)
      /\ (Len(q.todo) >= 1 => Position(q) + 1 \in 1..Len(q.args))
  BY <1>1, <1>2, <1>3, Difference
<1>4. \A i \in 1..Len(q.args) : q.args[i].name \in NamesIn(q.args)
  BY <1>1 DEF NamesIn, Range
<1>5. ASSUME q.todo # <<>>
      PROVE  Position(q) + 1 \in 1..Len(q.args) /\ Head(q.todo) = q.args[Position(q) + 1]
  <2>1. Len(q.todo) >= 1 /\ Head(q.todo) = q.todo[1]
    BY <1>1, <1>5
  <2>2. 1 \in 1..Len(q.todo)
    BY <1>1, <2>1
  <2> QED
    BY <1>2, <1>6, <2>1, <2>2
<1> QED
  BY <1>4, <1>5, <1>6 DEF q

\* What is true of other requests' files stays so when a step changes only the
\* ConfigMaps of a file of the request that takes it.
LEMMA OthersKeep ==
    ASSUME IInv, NEW r \in Requests, Others(r), request[r].pc # "idle",
           NEW m \in NamesIn(request[r].args),
           contended' = contended, created' \in Nat, created <= created',
           \A n : n # m => Named(configMaps', n) = Named(configMaps, n),
           \A y \in configMaps' : \/ y.object \in Nat /\ y.object > created
                                  \/ \E x \in configMaps : x.object = y.object /\ x.name = y.name,
           NEW q \in Requests \ {r}
    PROVE  /\ Progress(request'[q])
           /\ AtHand(request'[q], configMaps', created', contended')
           /\ Done(request'[q], configMaps', contended')
<1> USE DEF IInv
<1>1. Alike(request'[q], request[q])
  BY DEF Others
<1>2. created \in Nat /\ \A x \in configMaps : x.object \in Nat
  BY DEF TypeOK, ConfigMap
<1>3. CASE request[q].pc = "idle"
  BY <1>1, <1>3 DEF Alike, Progress, AtHand, Done
<1>4. CASE request[q].pc # "idle"
  <2>1. \A n \in NamesIn(request[q].args) : n \notin contended => n # m
    BY <1>4 DEF Contention
  <2>2. request[q].object # NoObject => request[q].object \in Nat
    BY <1>4, Typed
  <2>3. ASSUME request[q].pc = "write"
        PROVE  /\ \A cm \in configMaps' :
                     cm.object = request[q].object => cm.name = Head(request[q].todo).name
               /\ Head(request[q].todo).name \notin contended =>
                     Named(configMaps', Head(request[q].todo).name) =
                        Named(configMaps, Head(request[q].todo).name)
    <3>1. request[q].todo # <<>> /\ Head(request[q].todo).name \in NamesIn(request[q].args)
      BY <1>4, <2>3, NamesOfRequest DEF Progress
    <3>2. \A cm \in configMaps :
             cm.object = request[q].object => cm.name = Head(request[q].todo).name
      BY <2>3 DEF AtHand
    <3>3. request[q].object \in Nat => ~(request[q].object > created)
      <4>1. request[q].object # NoObject => request[q].object <= created
        BY <2>3 DEF AtHand
      <4> QED
        BY <1>2, <4>1, FilesAssumption
    <3> QED
      BY <2>1, <3>1, <3>2, <3>3
  <2>4. AtHand(request[q], configMaps', created', contended')
    BY <1>2, <2>2, <2>3, AtHandFrame
  <2>5. \A i \in 1..Position(request[q]) :
           request[q].args[i].name \notin contended =>
              Named(configMaps', request[q].args[i].name) =
                 Named(configMaps, request[q].args[i].name)
    BY <1>4, <2>1, Typed, NamesOfRequest
  <2>6. Done(request[q], configMaps', contended')
    BY <2>5, DoneFrame
  <2> QED
    BY <1>1, <2>4, <2>6, AlikeKeeps
<1> QED
  BY <1>3, <1>4

\* What a step of a request leaves alone if it keeps its list.
Moves(r) ==
    /\ request[r].pc # "idle" /\ Others(r)
    /\ request'[r].pc # "idle" => request'[r].args = request[r].args
    /\ request[r].pc = "cleanup" => request'[r].pc \in {"cleanup", "idle"}
    /\ contended' = contended

LEMMA MoveKeeps ==
    ASSUME IInv, NEW r \in Requests, Moves(r), acked' = acked
    PROVE  Contention' /\ Settled'
<1>1. \A q \in Requests : request'[q].pc # "idle" =>
         /\ request[q].pc # "idle"
         /\ request'[q].args = request[q].args
         /\ request[q].pc = "cleanup" => request'[q].pc = "cleanup"
  BY DEF Moves, Others, Alike
<1>2. Contention'
  BY <1>1 DEF IInv, Contention, Moves
<1>3. Settled'
  BY <1>1 DEF IInv, Settled, Moves
<1> QED
  BY <1>2, <1>3

\* A step that writes no ConfigMap.
LEMMA QuietStep ==
    ASSUME IInv, TypeOK', NEW r \in Requests, Moves(r), Progress(request'[r]),
           AtHand(request'[r], configMaps, created, contended),
           Done(request'[r], configMaps, contended),
           configMaps' = configMaps, created' = created, acked' = acked
    PROVE  IInv'
<1>1. Contention' /\ Settled'
  BY MoveKeeps
<1>2. \A q \in Requests : /\ Progress(request'[q])
                         /\ AtHand(request'[q], configMaps', created', contended')
                         /\ Done(request'[q], configMaps', contended')
  <2> SUFFICES ASSUME NEW q \in Requests \ {r}
               PROVE  /\ Progress(request'[q])
                      /\ AtHand(request'[q], configMaps', created', contended')
                      /\ Done(request'[q], configMaps', contended')
    BY DEF Moves
  <2>1. Alike(request'[q], request[q])
    BY DEF Moves, Others
  <2>2. Progress(request[q]) /\ AtHand(request[q], configMaps, created, contended)
        /\ Done(request[q], configMaps, contended)
    BY DEF IInv
  <2> QED
    BY <2>1, <2>2, AlikeKeeps DEF Moves
<1>3. Objects' /\ OneConfigMapPerFile' /\ AckedIsStored'
  BY DEF IInv, Objects, OneConfigMapPerFile, AckedIsStored, GetConfigMapByFileName, Moves
<1> QED
  BY <1>1, <1>2, <1>3 DEF IInv

\* A request that ends keeps what it did.
LEMMA EndStep ==
    ASSUME IInv, TypeOK', NEW r \in Requests, request[r].pc # "idle",
           request' = End(request, r), contended' = contended,
           configMaps' = configMaps, created' = created, acked' = acked
    PROVE  IInv'
<1>1. request \in [Requests -> Request \cup {Idle}] /\ request[r] \in Request
  BY Typed DEF IInv, TypeOK
<1>2. /\ request'[r] = [request[r] EXCEPT !.pc = "cleanup"]
      /\ \A q \in Requests \ {r} : request'[q] = request[q]
  BY <1>1 DEF End
<1>3. /\ request'[r].pc = "cleanup" /\ request'[r].args = request[r].args
      /\ request'[r].todo = request[r].todo
  BY <1>1, <1>2 DEF Request
<1>4. Moves(r)
  BY <1>2, <1>3 DEF Moves, Others, Alike
<1>5. Progress(request'[r])
  <2>1. Progress(request[r]) /\ Position(request'[r]) = Position(request[r])
    BY <1>3 DEF IInv, Position
  <2> QED
    BY <1>3, <2>1 DEF Progress
<1>6. AtHand(request'[r], configMaps, created, contended) /\ Done(request'[r], configMaps, contended)
  BY <1>3 DEF AtHand, Done
<1> QED
  BY <1>4, <1>5, <1>6, QuietStep

----------------------------------------------------------------------------
(* The actions. *)

LEMMA InitInv == Init => IInv
<1> SUFFICES ASSUME Init PROVE IInv
  OBVIOUS
<1>1. \A r \in Requests : request[r].pc = "idle"
  <2>1. \A r \in Requests : request[r] = Idle
    BY DEF Init
  <2>2. Idle.pc = "idle"
    BY DEF Idle
  <2> QED
    BY <2>1, <2>2
<1>2. \A r \in Requests : /\ Progress(request[r])
                         /\ AtHand(request[r], configMaps, created, contended)
                         /\ Done(request[r], configMaps, contended)
  <2> TAKE r \in Requests
  <2>1. request[r].pc = "idle"
    BY <1>1
  <2> QED
    BY <2>1 DEF Progress, AtHand, Done
<1>3. Contention /\ Settled
  BY <1>1 DEF Contention, Settled
<1>4. Objects /\ OneConfigMapPerFile
  BY DEF Init, Objects, OneConfigMapPerFile
<1>5. AckedIsStored
  BY FilesAssumption DEF Init, AckedIsStored
<1> QED
  BY TypeInit, <1>2, <1>3, <1>4, <1>5 DEF IInv

LEMMA BeginKeeps ==
    ASSUME IInv, NEW r \in Requests, NEW op \in Ops, NEW args \in FileLists,
           Begin(r, op, args)
    PROVE  IInv'
<1>1. TypeOK'
  BY BeginType DEF IInv
<1>2. /\ request'[r] = [pc |-> "validate", op |-> op, args |-> args, todo |-> args,
                        old |-> files, new |-> files, object |-> NoObject,
                        current |-> FALSE]
      /\ \A q \in Requests \ {r} : request'[q] = request[q]
      /\ contended \subseteq contended'
      /\ configMaps' = configMaps /\ created' = created
  BY DEF Begin, IInv, TypeOK
<1>3. request'[r].pc = "validate" /\ request'[r].args = args /\ request'[r].todo = args
  BY <1>2
<1>4. args \in Seq(File) /\ Len(args) \in Nat /\ NamesIn(args) \subseteq FileNames
  BY FilesOfList
<1>5. \A q \in Requests : /\ Progress(request'[q])
                         /\ AtHand(request'[q], configMaps', created', contended')
                         /\ Done(request'[q], configMaps', contended')
  <2>1. Progress(request'[r])
    <3>1. Len(args) - Len(args) = 0 /\ \A i \in 1..Len(args) : 0 + i = i
      BY <1>4
    <3> QED
      BY <1>3, <1>4, <3>1 DEF Progress, Position
  <2>2. AtHand(request'[r], configMaps', created', contended')
        /\ Done(request'[r], configMaps', contended')
    BY <1>3 DEF AtHand, Done
  <2>3. ASSUME NEW q \in Requests \ {r}
        PROVE  /\ Progress(request'[q])
               /\ AtHand(request'[q], configMaps', created', contended')
               /\ Done(request'[q], configMaps', contended')
    <3>1. /\ Progress(request[q]) /\ AtHand(request[q], configMaps, created, contended)
          /\ Done(request[q], configMaps, contended)
      BY DEF IInv
    <3>2. AtHand(request[q], configMaps, created, contended')
      BY <1>2, <3>1 DEF AtHand
    <3>3. Done(request[q], configMaps, contended')
      BY <1>2, <3>1, DoneFrame
    <3> QED
      BY <1>2, <3>1, <3>2, <3>3
  <2> QED
    BY <2>1, <2>2, <2>3
<1>6. Contention'
  <2>1. ASSUME NEW q \in Requests \ {r}, request[q].pc # "idle"
        PROVE  NamesIn(args) \cap NamesIn(request[q].args) \subseteq contended'
    <3>1. request[q] # Idle
      BY <2>1 DEF Idle
    <3> QED
      BY <3>1 DEF Begin
  <2>2. \A p, q \in Requests \ {r} :
           p # q /\ request'[p].pc # "idle" /\ request'[q].pc # "idle" =>
               NamesIn(request'[p].args) \cap NamesIn(request'[q].args) \subseteq contended'
    BY <1>2 DEF IInv, Contention
  <2>3. \A q \in Requests \ {r} : request'[q].pc # "idle" =>
           /\ NamesIn(request'[r].args) \cap NamesIn(request'[q].args) \subseteq contended'
           /\ NamesIn(request'[q].args) \cap NamesIn(request'[r].args) \subseteq contended'
    BY <1>2, <1>3, <2>1
  <2> QED
    BY <2>2, <2>3 DEF Contention
<1>7. \A n \in FileNames : acked'[n] = IF n \in NamesIn(args) THEN "none" ELSE acked[n]
  BY DEF Begin, Forget
<1>8. Settled'
  <2>1. \A n \in FileNames, q \in Requests \ {r} :
           n \notin contended' /\ acked'[n] # "none" /\ request'[q].pc # "idle"
           /\ n \in NamesIn(request'[q].args) => request'[q].pc = "cleanup"
    BY <1>2, <1>7 DEF IInv, Settled
  <2> QED
    BY <1>3, <1>7, <2>1 DEF Settled
<1>9. Objects' /\ OneConfigMapPerFile'
  BY <1>2 DEF IInv, Objects, OneConfigMapPerFile
<1>10. AckedIsStored'
  BY <1>2, <1>7, FilesAssumption DEF IInv, AckedIsStored, GetConfigMapByFileName
<1> QED
  BY <1>1, <1>5, <1>6, <1>8, <1>9, <1>10 DEF IInv

LEMMA ValidateKeeps ==
    ASSUME IInv, NEW r \in Requests,
           CreateExtraFiles(r) \/ UpdateExtraFiles(r) \/ DeleteExtraFiles(r)
    PROVE  IInv'
<1>1. /\ TypeOK' /\ request[r].pc = "validate"
      /\ contended' = contended /\ configMaps' = configMaps /\ created' = created /\ acked' = acked
  BY ValidateType DEF IInv, CreateExtraFiles, UpdateExtraFiles, DeleteExtraFiles,
                      WaitController, Refuse
<1>3. request' = End(request, r) \/ request' = [request EXCEPT ![r].pc = "read"]
  BY DEF CreateExtraFiles, UpdateExtraFiles, DeleteExtraFiles, WaitController, Refuse
<1>4. CASE request' = End(request, r)
  BY <1>1, <1>4, EndStep
<1>5. CASE request' = [request EXCEPT ![r].pc = "read"]
  <2>1. request \in [Requests -> Request \cup {Idle}] /\ request[r] \in Request
    BY <1>1, Typed DEF IInv, TypeOK
  <2>2. /\ request'[r] = [request[r] EXCEPT !.pc = "read"]
        /\ \A q \in Requests \ {r} : request'[q] = request[q]
    BY <1>5, <2>1
  <2>3. /\ request'[r].pc = "read" /\ request'[r].args = request[r].args
        /\ request'[r].todo = request[r].todo
    BY <2>1, <2>2 DEF Request
  <2>4. Moves(r)
    BY <1>1, <2>2, <2>3 DEF Moves, Others, Alike
  <2>5. Progress(request'[r])
    <3>1. Progress(request[r]) /\ Position(request'[r]) = Position(request[r])
      BY <2>3 DEF IInv, Position
    <3> QED
      BY <1>1, <2>3, <3>1 DEF Progress
  <2>6. AtHand(request'[r], configMaps, created, contended) /\ Done(request'[r], configMaps, contended)
    BY <2>3 DEF AtHand, Done
  <2> QED
    BY <1>1, <2>4, <2>5, <2>6, QuietStep
<1> QED
  BY <1>3, <1>4, <1>5

LEMMA ReadKeeps ==
    ASSUME IInv, NEW r \in Requests, ReadInstance(r)
    PROVE  IInv'
<1>1. /\ TypeOK' /\ request[r].pc = "read"
      /\ contended' = contended /\ configMaps' = configMaps /\ created' = created /\ acked' = acked
  BY ReadType DEF IInv, ReadInstance
<1>2. request \in [Requests -> Request \cup {Idle}] /\ request[r] \in Request
      /\ request[r].args \in FileLists /\ request[r].todo = request[r].args
  BY <1>1, Typed DEF IInv, TypeOK, Progress
<1>3. CASE request' = End(request, r)
  BY <1>1, <1>3, EndStep
<1>4. CASE request' # End(request, r)
  <2>1. /\ request' = [request EXCEPT ![r].pc = "lookup", ![r].old = files, ![r].new = files]
        /\ request[r].op # "delete" => ValidateFiles(request[r].args)
    BY <1>4 DEF ReadInstance
  <2>2. /\ request'[r] = [request[r] EXCEPT !.pc = "lookup", !.old = files, !.new = files]
        /\ \A q \in Requests \ {r} : request'[q] = request[q]
    BY <1>2, <2>1
  <2>3. /\ request'[r].pc = "lookup" /\ request'[r].args = request[r].args
        /\ request'[r].todo = request[r].todo /\ request'[r].op = request[r].op
    BY <1>2, <2>2 DEF Request
  <2>4. Moves(r)
    BY <1>1, <2>2, <2>3 DEF Moves, Others, Alike
  <2>5. Position(request'[r]) = 0
    <3>1. Len(request[r].args) \in Nat
      BY <1>2, FilesOfList
    <3> QED
      BY <1>2, <2>3, <3>1 DEF Position
  <2>6. Progress(request'[r])
    <3>1. Progress(request[r]) /\ Position(request'[r]) = Position(request[r])
      BY <2>3 DEF IInv, Position
    <3>2. request[r].op # "delete" =>
             \A i \in 1..Len(request[r].args) : request[r].args[i].content # Empty
      BY <1>2, <2>1, FilesOfList DEF ValidateFiles, Range
    <3> QED
      BY <1>1, <2>3, <3>1, <3>2 DEF Progress
  <2>7. AtHand(request'[r], configMaps, created, contended) /\ Done(request'[r], configMaps, contended)
    BY <2>3, <2>5 DEF AtHand, Done
  <2> QED
    BY <1>1, <2>4, <2>6, <2>7, QuietStep
<1> QED
  BY <1>3, <1>4

LEMMA LookUpKeeps ==
    ASSUME IInv, NEW r \in Requests, LookUpFile(r)
    PROVE  IInv'
<1> DEFINE q == request[r]
           f == Head(q.todo)
           found == GetConfigMapByFileName(f.name)
           o == IF found = {} THEN NoObject ELSE (CHOOSE cm \in found : TRUE).object
<1>1. /\ TypeOK' /\ q.pc = "lookup"
      /\ contended' = contended /\ configMaps' = configMaps /\ created' = created /\ acked' = acked
  BY LookUpType DEF IInv, LookUpFile
<1>2. request \in [Requests -> Request \cup {Idle}] /\ q \in Request
      /\ Progress(q) /\ Done(q, configMaps, contended)
  BY <1>1, Typed DEF IInv, TypeOK
<1>3. CASE request' = End(request, r)
  BY <1>1, <1>3, EndStep
<1>4. ASSUME NEW pc \in {"write", "patch"},
             request'[r].pc = pc, request'[r].args = q.args, request'[r].todo = q.todo,
             request'[r].op = q.op,
             \A p \in Requests \ {r} : request'[p] = request[p],
             AtHand(request'[r], configMaps, created, contended),
             pc = "write" => q.todo # <<>> /\ (q.op = "delete" => request'[r].object # NoObject),
             pc = "patch" => q.todo = <<>>
      PROVE  IInv'
  <2>1. Moves(r)
    BY <1>1, <1>4 DEF Moves, Others, Alike
  <2>2. Position(request'[r]) = Position(q)
    BY <1>4 DEF Position
  <2>3. Progress(request'[r])
    BY <1>1, <1>2, <1>4, <2>2 DEF Progress
  <2>4. Done(request'[r], configMaps, contended)
    BY <1>1, <1>2, <1>4, <2>2 DEF Done
  <2> QED
    BY <1>1, <1>4, <2>1, <2>3, <2>4, QuietStep
<1>5. CASE q.todo = <<>> /\ request' = [request EXCEPT ![r].pc = "patch"]
  <2>1. /\ request'[r] = [q EXCEPT !.pc = "patch"]
        /\ \A p \in Requests \ {r} : request'[p] = request[p]
    BY <1>2, <1>5
  <2>2. /\ request'[r].pc = "patch" /\ request'[r].args = q.args /\ request'[r].todo = q.todo
        /\ request'[r].op = q.op
    BY <1>2, <2>1 DEF Request
  <2>3. AtHand(request'[r], configMaps, created, contended)
    BY <2>2 DEF AtHand
  <2> QED
    BY <1>4, <1>5, <2>1, <2>2, <2>3
<1>6. CASE /\ q.todo # <<>>
           /\ \/ found = {} /\ q.op # "delete"
              \/ \E cm \in found : found = {cm}
           /\ request' = [request EXCEPT ![r].pc = "write", ![r].current = TRUE, ![r].object = o]
  <2> HIDE DEF o
  <2>1. /\ request'[r] = [q EXCEPT !.pc = "write", !.current = TRUE, !.object = o]
        /\ \A p \in Requests \ {r} : request'[p] = request[p]
    BY <1>2, <1>6
  <2>2. /\ request'[r].pc = "write" /\ request'[r].args = q.args /\ request'[r].todo = q.todo
        /\ request'[r].op = q.op /\ request'[r].object = o
    BY <1>2, <2>1 DEF Request
  <2>3. \A cm \in configMaps : cm.object \in Nat /\ cm.object <= created
    BY DEF IInv, TypeOK, ConfigMap, Objects
  <2>4. found = Named(configMaps, f.name)
    BY DEF GetConfigMapByFileName, Named
  <2>5. CASE found = {}
    <3>1. o = NoObject
      BY <2>5 DEF o
    <3>2. \A cm \in configMaps : cm.object # NoObject
      BY <2>3, FilesAssumption
    <3>3. AtHand(request'[r], configMaps, created, contended)
      BY <2>2, <2>4, <2>5, <3>1, <3>2 DEF AtHand
    <3> QED
      BY <1>4, <1>6, <2>1, <2>2, <2>5, <3>3
  <2>6. CASE \E cm \in found : found = {cm}
    <3>1. PICK cm \in configMaps : Named(configMaps, f.name) = {cm} /\ found = {cm} /\ o = cm.object
      <4>1. PICK cm \in found : found = {cm}
        BY <2>6
      <4>2. o = cm.object
        BY <4>1 DEF o
      <4> QED
        BY <2>4, <4>1, <4>2 DEF Named
    <3>2. o # NoObject /\ o <= created
      BY <2>3, <3>1, FilesAssumption
    <3>3. \A x \in configMaps : x.object = o => x.name = f.name
      <4>1. cm.name = f.name
        BY <3>1 DEF Named
      <4> QED
        BY <3>1, <4>1 DEF IInv, Objects
    <3>4. AtHand(request'[r], configMaps, created, contended)
      BY <2>2, <3>1, <3>2, <3>3 DEF AtHand
    <3> QED
      BY <1>4, <1>6, <2>1, <2>2, <3>2, <3>4
  <2> QED
    BY <1>6, <2>5, <2>6
<1> QED
  BY <1>3, <1>5, <1>6 DEF LookUpFile

LEMMA EndingKeeps ==
    ASSUME IInv, NEW r \in Requests, ValidationFails(r) \/ CallFails(r) \/ CleanUp(r)
    PROVE  IInv'
<1>1. /\ TypeOK' /\ request[r].pc # "idle"
      /\ contended' = contended /\ configMaps' = configMaps /\ created' = created /\ acked' = acked
  BY EndingType DEF IInv, ValidationFails, CallFails, CleanUp
<1>2. CASE ValidationFails(r) \/ CallFails(r)
  BY <1>1, <1>2, EndStep DEF ValidationFails, CallFails
<1>3. CASE CleanUp(r)
  <2>1. /\ request'[r] = Idle /\ request[r].pc = "cleanup"
        /\ \A q \in Requests \ {r} : request'[q] = request[q]
    BY <1>3 DEF CleanUp, IInv, TypeOK
  <2>2. request'[r].pc = "idle"
    BY <2>1 DEF Idle
  <2>3. Moves(r)
    BY <1>1, <2>1, <2>2 DEF Moves, Others, Alike
  <2>4. Progress(request'[r]) /\ AtHand(request'[r], configMaps, created, contended)
        /\ Done(request'[r], configMaps, contended)
    BY <2>2 DEF Progress, AtHand, Done
  <2> QED
    BY <1>1, <2>3, <2>4, QuietStep
<1> QED
  BY <1>2, <1>3

\* A request goes on to its next file.
LEMMA NextFileFields ==
    ASSUME NEW reqs \in [Requests -> Request \cup {Idle}], NEW r \in Requests, NEW object,
           reqs[r] \in Request
    PROVE  LET new == NextFile(reqs, r, object)
           IN /\ new[r].pc = "lookup" /\ new[r].args = reqs[r].args /\ new[r].op = reqs[r].op
              /\ new[r].todo = Tail(reqs[r].todo)
              /\ \A q \in Requests \ {r} : new[q] = reqs[q]
BY DEF NextFile, Request

LEMMA OutdateFields ==
    ASSUME TypeOK, NEW o, NEW r \in Requests, NEW q \in Requests \ {r}
    PROVE  Alike(Outdate(request, o, r)[q], request[q])
<1>1. ASSUME request[q].pc = "write"
      PROVE  Alike([request[q] EXCEPT !.current = FALSE], request[q])
  <2>1. request[q] \in Request
    BY <1>1, Typed
  <2> QED
    BY <2>1 DEF Request, Alike
<1>2. \/ Outdate(request, o, r)[q] = request[q]
      \/ /\ request[q].pc = "write"
         /\ Outdate(request, o, r)[q] = [request[q] EXCEPT !.current = FALSE]
  BY DEF Outdate
<1>3. Alike(request[q], request[q])
  BY DEF Alike
<1> QED
  BY <1>1, <1>2, <1>3

\* A request stores the file at hand and goes on to the next.
Writes(r) ==
    LET q == request[r]
        m == Head(q.todo).name
    IN /\ q.pc = "write" /\ Others(r)
       /\ request'[r].pc = "lookup" /\ request'[r].args = q.args
       /\ request'[r].op = q.op /\ request'[r].todo = Tail(q.todo)
       /\ \A n : n # m => Named(configMaps', n) = Named(configMaps, n)
       /\ \A y \in configMaps' : \/ y.object \in Nat /\ y.object > created
                                 \/ \E x \in configMaps : x.object = y.object /\ x.name = y.name
       /\ m \notin contended => Stored(q.op, Head(q.todo), configMaps')
       /\ UNCHANGED <<contended, acked>>

LEMMA WriteProgress ==
    ASSUME IInv, NEW r \in Requests, Writes(r)
    PROVE  Progress(request'[r]) /\ Done(request'[r], configMaps', contended')
<1> DEFINE q == request[r]
           s == request'[r]
           m == Head(q.todo).name
           p == Position(q)
<1>1. /\ q.pc = "write" /\ s.pc = "lookup" /\ s.args = q.args /\ s.op = q.op
      /\ s.todo = Tail(q.todo) /\ contended' = contended
      /\ Progress(q) /\ Done(q, configMaps, contended) /\ q.todo # <<>>
  BY DEF Writes, IInv, Progress
<1>2. /\ q.args \in FileLists /\ q.todo \in Seq(File) /\ Len(q.todo) \in Nat
      /\ Len(q.args) \in Nat
  BY <1>1, Typed DEF IInv
<1>3. /\ p \in Nat /\ p + 1 \in 1..Len(q.args) /\ Head(q.todo) = q.args[p + 1]
  BY <1>1, NamesOfRequest DEF IInv
<1>4. /\ Len(q.todo) >= 1 /\ Len(s.todo) = Len(q.todo) - 1
      /\ \A i \in 1..Len(s.todo) : s.todo[i] = q.todo[i + 1]
  BY <1>1, <1>2
<1>5. Len(q.todo) <= Len(q.args) /\ p = Len(q.args) - Len(q.todo)
  BY <1>1 DEF Progress, Position
<1>6. Position(s) = Len(q.args) - (Len(q.todo) - 1)
  BY <1>1, <1>4 DEF Position
<1> HIDE DEF q, s, p
<1>7. Position(s) = p + 1
  BY <1>2, <1>4, <1>5, <1>6, Difference
<1>8. Progress(s)
  <2>1. Len(s.todo) <= Len(s.args)
    BY <1>1, <1>2, <1>4, <1>5
  <2>2. ASSUME NEW i \in 1..Len(s.todo)
        PROVE  s.todo[i] = s.args[Position(s) + i]
    <3>1. i + 1 \in 1..Len(q.todo) /\ s.todo[i] = q.todo[i + 1] /\ (p + 1) + i = p + (i + 1)
      BY <1>2, <1>3, <1>4
    <3>2. q.todo[i + 1] = q.args[p + (i + 1)]
      BY <1>1, <3>1 DEF Progress, p
    <3> QED
      BY <1>1, <1>7, <3>1, <3>2
  <2> QED
    BY <1>1, <2>1, <2>2 DEF Progress
<1>9. Done(s, configMaps', contended')
  <2> SUFFICES ASSUME NEW i \in 1..p + 1, q.args[i].name \notin contended,
                      \A j \in i + 1 .. p + 1 : q.args[j].name # q.args[i].name
               PROVE  Stored(q.op, q.args[i], configMaps')
    BY <1>1, <1>7 DEF Done
  <2>1. CASE i = p + 1
    BY <1>3, <2>1 DEF Writes, q
  <2>2. CASE i # p + 1
    <3>1. i \in 1..p /\ p + 1 \in i + 1 .. p + 1
          /\ \A j \in i + 1 .. p : j \in i + 1 .. p + 1
      BY <1>3, <2>2
    <3>2. Stored(q.op, q.args[i], configMaps)
      BY <1>1, <3>1 DEF Done, p
    <3>3. q.args[i].name # m
      BY <1>3, <3>1 DEF q
    <3>4. Named(configMaps', q.args[i].name) = Named(configMaps, q.args[i].name)
      BY <3>3 DEF Writes, q
    <3>5. \A n, cm : Named(configMaps', n) = {cm} => cm \in configMaps'
      BY DEF Named
    <3> QED
      BY <3>2, <3>4, <3>5 DEF Stored
  <2> QED
    BY <2>1, <2>2
<1> QED
  BY <1>8, <1>9 DEF s

LEMMA WriteStep ==
    ASSUME IInv, TypeOK', NEW r \in Requests, Writes(r), created <= created', Objects'
    PROVE  IInv'
<1> DEFINE q == request[r]
           m == Head(q.todo).name
<1>1. /\ q.pc = "write" /\ Others(r) /\ contended' = contended /\ acked' = acked
      /\ q.todo # <<>> /\ created' \in Nat
      /\ \A n : n # m => Named(configMaps', n) = Named(configMaps, n)
  BY DEF Writes, IInv, Progress, TypeOK
<1>2. m \in NamesIn(q.args) /\ NamesIn(q.args) \subseteq FileNames
  BY <1>1, NamesOfRequest, Typed, FilesOfList DEF IInv
<1>3. \A p \in Requests : /\ Progress(request'[p])
                         /\ AtHand(request'[p], configMaps', created', contended')
                         /\ Done(request'[p], configMaps', contended')
  <2>1. AtHand(request'[r], configMaps', created', contended')
    BY DEF Writes, AtHand
  <2>2. \A y \in configMaps' : \/ y.object \in Nat /\ y.object > created
                              \/ \E x \in configMaps : x.object = y.object /\ x.name = y.name
    BY DEF Writes
  <2>3. ASSUME NEW p \in Requests \ {r}
        PROVE  /\ Progress(request'[p])
               /\ AtHand(request'[p], configMaps', created', contended')
               /\ Done(request'[p], configMaps', contended')
    BY <1>1, <1>2, <2>2, OthersKeep
  <2> QED
    BY <2>1, <2>3, WriteProgress
<1>4. Contention' /\ Settled'
  <2>1. Moves(r)
    BY <1>1 DEF Moves, Writes
  <2> QED
    BY <1>1, <2>1, MoveKeeps
<1>5. m \notin contended => \/ Named(configMaps', m) = {}
                             \/ \E cm \in configMaps' : Named(configMaps', m) = {cm}
  BY DEF Writes, Stored
<1>6. OneConfigMapPerFile'
  <2> SUFFICES ASSUME NEW x \in configMaps', NEW y \in configMaps',
                      x.name = y.name, x.name \notin contended
               PROVE  x = y
    BY <1>1 DEF OneConfigMapPerFile
  <2>1. x \in Named(configMaps', x.name) /\ y \in Named(configMaps', x.name)
    BY DEF Named
  <2>2. CASE x.name = m
    BY <1>5, <2>1, <2>2
  <2>3. CASE x.name # m
    <3>1. x \in Named(configMaps, x.name) /\ y \in Named(configMaps, x.name)
      BY <1>1, <2>1, <2>3
    <3> QED
      BY <3>1 DEF Named, IInv, OneConfigMapPerFile
  <2> QED
    BY <2>2, <2>3
<1>7. AckedIsStored'
  <2>1. m \notin contended => acked[m] = "none"
    BY <1>1, <1>2 DEF IInv, Settled
  <2> SUFFICES ASSUME NEW n \in FileNames, n \notin contended
               PROVE  /\ acked[n] \in Contents =>
                            \E cm \in configMaps' :
                               Named(configMaps', n) = {cm} /\ cm.content = acked[n]
                      /\ acked[n] = "absent" => Named(configMaps', n) = {}
    BY <1>1 DEF AckedIsStored, GetConfigMapByFileName, Named
  <2>2. CASE n = m
    BY <2>1, <2>2, FilesAssumption
  <2>3. CASE n # m
    <3>1. Named(configMaps', n) = Named(configMaps, n)
      BY <1>1, <2>3
    <3>2. \A cm : Named(configMaps', n) = {cm} => cm \in configMaps'
      BY DEF Named
    <3>3. Named(configMaps, n) = GetConfigMapByFileName(n)
      BY DEF Named, GetConfigMapByFileName
    <3> QED
      BY <3>1, <3>2, <3>3 DEF IInv, AckedIsStored
  <2> QED
    BY <2>2, <2>3
<1> QED
  BY <1>3, <1>4, <1>6, <1>7 DEF IInv

LEMMA CreateKeeps ==
    ASSUME IInv, NEW r \in Requests, CreateConfigMap(r)
    PROVE  IInv'
<1> DEFINE q == request[r]
           f == Head(q.todo)
           new == [object |-> created + 1, name |-> f.name, content |-> f.content]
<1>1. /\ q.pc = "write" /\ q.todo # <<>> /\ q.op # "delete" /\ q.object = NoObject
      /\ Progress(q) /\ AtHand(q, configMaps, created, contended)
  BY DEF CreateConfigMap, IInv, Progress
<1>2. TypeOK' /\ q \in Request /\ request \in [Requests -> Request \cup {Idle}] /\ created \in Nat
  BY <1>1, CreateType, Typed DEF IInv, TypeOK
<1>3. /\ configMaps' = configMaps \cup {new} /\ created' = created + 1
      /\ request' = NextFile(request, r, created + 1)
      /\ UNCHANGED <<contended, acked>>
  BY DEF CreateConfigMap, Unused
<1>4. new.object = created + 1 /\ new.name = f.name /\ new.content = f.content
  OBVIOUS
<1>5. \A x \in configMaps : x.object \in Nat /\ x.object <= created
  BY DEF IInv, TypeOK, ConfigMap, Objects
<1> HIDE DEF new
<1>6. \A n : n # f.name => Named(configMaps', n) = Named(configMaps, n)
  BY <1>3, <1>4 DEF Named
<1>7. f.name \notin contended => Stored(q.op, f, configMaps')
  <2> SUFFICES ASSUME f.name \notin contended
               PROVE  Named(configMaps', f.name) = {new}
    BY <1>1, <1>3, <1>4 DEF Stored
  <2>1. Named(configMaps, f.name) = {}
    BY <1>1 DEF AtHand
  <2> QED
    BY <1>3, <1>4, <2>1 DEF Named
<1>8. \A y \in configMaps' : \/ y.object \in Nat /\ y.object > created
                            \/ \E x \in configMaps : x.object = y.object /\ x.name = y.name
  BY <1>2, <1>3, <1>4
<1>9. Objects'
  <2>1. new.object \in Nat /\ new.object = created' /\ \A x \in configMaps : x.object # new.object /\ x.object <= created'
    BY <1>2, <1>3, <1>4, <1>5
  <2> QED
    BY <1>2, <1>3, <2>1 DEF Objects, IInv
<1>10. Writes(r)
  <2>1. /\ request'[r].pc = "lookup" /\ request'[r].args = q.args /\ request'[r].op = q.op
        /\ request'[r].todo = Tail(q.todo)
        /\ \A p \in Requests \ {r} : request'[p] = request[p]
    BY <1>2, <1>3, NextFileFields
  <2>2. Others(r)
    BY <2>1 DEF Others, Alike
  <2> QED
    BY <1>1, <1>3, <1>6, <1>7, <1>8, <2>1, <2>2 DEF Writes
<1> QED
  BY <1>2, <1>3, <1>9, <1>10, WriteStep

\* The writes to a ConfigMap that was found.
LEMMA ReplaceFields ==
    ASSUME IInv, NEW r \in Requests, request[r].pc = "write",
           request' = NextFile(Outdate(request, request[r].object, r), r, request[r].object)
    PROVE  /\ request'[r].pc = "lookup" /\ request'[r].args = request[r].args
           /\ request'[r].op = request[r].op /\ request'[r].todo = Tail(request[r].todo)
           /\ Others(r)
<1> DEFINE reqs == Outdate(request, request[r].object, r)
<1>1. request[r] \in Request
  BY Typed DEF IInv
<1>2. reqs \in [Requests -> Request \cup {Idle}] /\ reqs[r] = request[r]
  BY OutdateType DEF IInv
<1>3. \A q \in Requests \ {r} : Alike(reqs[q], request[q])
  BY OutdateFields DEF IInv
<1> HIDE DEF reqs
<1>4. request' = NextFile(reqs, r, request[r].object)
  BY DEF reqs
<1>5. /\ request'[r].pc = "lookup" /\ request'[r].args = reqs[r].args
      /\ request'[r].op = reqs[r].op /\ request'[r].todo = Tail(reqs[r].todo)
      /\ \A q \in Requests \ {r} : request'[q] = reqs[q]
  BY <1>1, <1>2, <1>4, NextFileFields
<1> QED
  BY <1>2, <1>3, <1>5 DEF Others

Written(cm, object, content) ==
    IF cm.object = object THEN [cm EXCEPT !.content = content] ELSE cm

LEMMA UpdateKeeps ==
    ASSUME IInv, NEW r \in Requests, UpdateConfigMap(r)
    PROVE  IInv'
<1> DEFINE q == request[r]
           f == Head(q.todo)
<1>1. /\ q.pc = "write" /\ q.todo # <<>> /\ q.op # "delete" /\ q.object # NoObject
      /\ AtHand(q, configMaps, created, contended)
      /\ UNCHANGED <<contended, acked, created>>
  BY DEF UpdateConfigMap, IInv, Progress
<1>2. TypeOK' /\ created \in Nat /\ \A cm \in configMaps : cm \in ConfigMap /\ cm.object \in Nat
  BY <1>1, UpdateType DEF IInv, TypeOK, ConfigMap
<1>3. CASE ~q.current
  BY <1>1, <1>2, <1>3, EndStep DEF UpdateConfigMap
<1>4. CASE q.current
  <2>1. configMaps' = {Written(cm, q.object, f.content) : cm \in configMaps}
        /\ request' = NextFile(Outdate(request, q.object, r), r, q.object)
    BY <1>4 DEF UpdateConfigMap, Written
  <2>2. \A cm \in configMaps :
           LET new == Written(cm, q.object, f.content)
           IN /\ new.object = cm.object /\ new.name = cm.name
              /\ cm.object = q.object => new.content = f.content
              /\ cm.object # q.object => new = cm
    BY <1>2 DEF ConfigMap, Written
  <2>3. \A y \in configMaps' : \E x \in configMaps : x.object = y.object /\ x.name = y.name
    BY <2>1, <2>2
  <2>4. \A cm \in configMaps : cm.object = q.object => cm.name = f.name
    BY <1>1 DEF AtHand
  <2>5. ASSUME NEW n, n # f.name
        PROVE  Named(configMaps', n) = Named(configMaps, n)
    <3>1. \A cm \in configMaps : cm.name = n => Written(cm, q.object, f.content) = cm
      BY <2>2, <2>4, <2>5
    <3> QED
      BY <2>1, <2>2, <3>1 DEF Named
  <2>6. f.name \notin contended => Stored(q.op, f, configMaps')
    <3> SUFFICES ASSUME f.name \notin contended
                 PROVE  \E cm \in configMaps' : Named(configMaps', f.name) = {cm} /\ cm.content = f.content
      BY <1>1 DEF Stored
    <3>1. PICK cm \in configMaps : Named(configMaps, f.name) = {cm} /\ cm.object = q.object
      BY <1>1 DEF AtHand
    <3>2. Named(configMaps', f.name) = {Written(cm, q.object, f.content)}
      <4>1. cm.name = f.name /\ \A x \in configMaps : x.name = f.name => x = cm
        BY <3>1 DEF Named
      <4> QED
        BY <2>1, <2>2, <4>1 DEF Named
    <3> QED
      BY <2>1, <2>2, <3>1, <3>2
  <2>7. Objects'
    <3>1. \A y \in configMaps' : y.object <= created'
      BY <1>1, <2>3 DEF IInv, Objects
    <3>2. \A x, y \in configMaps' : x.object = y.object => x.name = y.name
      BY <2>3 DEF IInv, Objects
    <3> QED
      BY <3>1, <3>2 DEF Objects
  <2>8. Writes(r)
    <3>1. /\ request'[r].pc = "lookup" /\ request'[r].args = q.args /\ request'[r].op = q.op
          /\ request'[r].todo = Tail(q.todo) /\ Others(r)
      BY <1>1, <2>1, ReplaceFields
    <3> QED
      BY <1>1, <2>3, <2>5, <2>6, <3>1 DEF Writes
  <2> QED
    BY <1>1, <1>2, <2>7, <2>8, WriteStep
<1> QED
  BY <1>3, <1>4

LEMMA DeleteKeeps ==
    ASSUME IInv, NEW r \in Requests, DeleteConfigMap(r)
    PROVE  IInv'
<1> DEFINE q == request[r]
           f == Head(q.todo)
           found == {cm \in configMaps : cm.object = q.object}
<1>1. /\ q.pc = "write" /\ q.todo # <<>> /\ q.op = "delete" /\ q.object # NoObject
      /\ AtHand(q, configMaps, created, contended)
      /\ UNCHANGED <<contended, acked, created>>
      /\ configMaps' = configMaps \ found
  BY DEF DeleteConfigMap, IInv, Progress
<1>2. TypeOK' /\ created \in Nat
  BY <1>1, DeleteType DEF IInv, TypeOK
<1>3. CASE found = {}
  <2>1. configMaps' = configMaps
    BY <1>1, <1>3
  <2>2. request' = End(request, r)
    BY <1>3 DEF DeleteConfigMap
  <2> QED
    BY <1>1, <1>2, <2>1, <2>2, EndStep
<1>4. CASE found # {}
  <2>1. request' = NextFile(Outdate(request, q.object, r), r, q.object)
    BY <1>4 DEF DeleteConfigMap
  <2>2. \A cm \in configMaps : cm.object = q.object => cm.name = f.name
    BY <1>1 DEF AtHand
  <2>3. \A n : n # f.name => Named(configMaps', n) = Named(configMaps, n)
    BY <1>1, <2>2 DEF Named
  <2>4. f.name \notin contended => Stored(q.op, f, configMaps')
    <3> SUFFICES ASSUME f.name \notin contended
                 PROVE  Named(configMaps', f.name) = {}
      BY <1>1 DEF Stored
    <3>1. PICK cm \in configMaps : Named(configMaps, f.name) = {cm} /\ cm.object = q.object
      BY <1>1 DEF AtHand
    <3> QED
      BY <1>1, <3>1 DEF Named
  <2>5. Objects'
    BY <1>1 DEF IInv, Objects
  <2>6. Writes(r)
    <3>1. /\ request'[r].pc = "lookup" /\ request'[r].args = q.args /\ request'[r].op = q.op
          /\ request'[r].todo = Tail(q.todo) /\ Others(r)
      BY <1>1, <2>1, ReplaceFields
    <3>2. \A y \in configMaps' : \E x \in configMaps : x.object = y.object /\ x.name = y.name
      BY <1>1
    <3> QED
      BY <1>1, <2>3, <2>4, <3>1, <3>2 DEF Writes
  <2> QED
    BY <1>1, <1>2, <2>5, <2>6, WriteStep
<1> QED
  BY <1>3, <1>4

LEMMA Largest ==
    ASSUME NEW S \in SUBSET Nat, NEW b \in Nat, \A i \in S : i <= b, S # {}
    PROVE  \E i \in S : \A j \in S : j <= i
<1> DEFINE T == {n \in Nat : n <= b /\ b - n \in S}
<1>1. \A j \in S : b - j \in T
  OBVIOUS
<1>2. T \subseteq Nat /\ T # {}
  BY <1>1
<1>3. IsWellFoundedOn(OpToRel(<, Nat), Nat)
  BY NatLessThanWellFounded
<1>4. \E x \in T : \A y \in T : ~(<<y, x>> \in OpToRel(<, Nat))
  BY <1>2, <1>3, WFMin
<1>5. PICK x \in T : \A y \in T : ~(y < x)
  BY <1>2, <1>4 DEF OpToRel
<1>6. b - x \in S /\ \A j \in S : j <= b - x
  BY <1>1, <1>5
<1> QED
  BY <1>6

\* The last mention of a file in a list.
LEMMA LastMention ==
    ASSUME NEW args \in FileLists, NEW n \in NamesIn(args)
    PROVE  \E i \in 1..Len(args) :
              /\ args[i].name = n /\ LastContent(args, n) = args[i].content
              /\ \A j \in i + 1 .. Len(args) : args[j].name # n
<1> DEFINE S == {i \in DOMAIN args : args[i].name = n}
           Last(i) == args[i].name = n /\ \A j \in DOMAIN args : args[j].name = n => j <= i
<1>1. DOMAIN args = 1..Len(args) /\ Len(args) \in Nat
  BY FilesOfList
<1>2. S \in SUBSET Nat /\ S # {} /\ \A i \in S : i <= Len(args)
  BY <1>1 DEF NamesIn, Range
<1>3. \E i \in S : \A j \in S : j <= i
  BY <1>1, <1>2, Largest
<1>4. \E i \in DOMAIN args : Last(i)
  BY <1>3
<1>5. PICK i \in DOMAIN args : Last(i) /\ i = CHOOSE k \in DOMAIN args : Last(k)
  BY <1>4
<1>6. LastContent(args, n) = args[i].content
  BY <1>5 DEF LastContent
<1>7. \A j \in i + 1 .. Len(args) : args[j].name # n
  BY <1>1, <1>5
<1> QED
  BY <1>1, <1>5, <1>6, <1>7

LEMMA PatchKeeps ==
    ASSUME IInv, NEW r \in Requests, PatchInstance(r)
    PROVE  IInv'
<1> DEFINE q == request[r]
<1>1. /\ q.pc = "patch" /\ request' = End(request, r)
      /\ UNCHANGED <<configMaps, temporary, leaked, created, failures, begun, contended>>
      /\ Progress(q) /\ Done(q, configMaps, contended)
  BY DEF PatchInstance, IInv
<1>2. /\ q \in Request /\ q.args \in FileLists /\ q.todo = <<>> /\ Len(q.args) \in Nat
      /\ request \in [Requests -> Request \cup {Idle}]
  BY <1>1, Typed DEF IInv, TypeOK, Progress
<1>3. Position(q) = Len(q.args)
  BY <1>2 DEF Position
<1>4. ASSUME NEW n \in NamesIn(q.args)
      PROVE  /\ q.op # "delete" => LastContent(q.args, n) \in Contents
             /\ n \notin contended =>
                   IF q.op = "delete" THEN Named(configMaps, n) = {}
                   ELSE \E cm \in configMaps : /\ Named(configMaps, n) = {cm}
                                              /\ cm.content = LastContent(q.args, n)
  <2>1. PICK i \in 1..Len(q.args) :
              /\ q.args[i].name = n /\ LastContent(q.args, n) = q.args[i].content
              /\ \A j \in i + 1 .. Len(q.args) : q.args[j].name # n
    BY <1>2, LastMention
  <2>2. q.args[i].content \in Contents \cup {Empty}
    BY <1>2, FilesOfList
  <2>3. q.op # "delete" => q.args[i].content # Empty
    BY <1>1 DEF Progress
  <2>4. n \notin contended => Stored(q.op, q.args[i], configMaps)
    BY <1>1, <1>3, <2>1 DEF Done
  <2> QED
    BY <2>1, <2>2, <2>3, <2>4 DEF Stored
<1>5. \A n \in FileNames :
         acked'[n] = IF n \notin NamesIn(q.args) THEN acked[n]
                     ELSE IF q.op = "delete" THEN "absent" ELSE LastContent(q.args, n)
  BY DEF PatchInstance
<1>6. TypeOK'
  <2>1. files' \in SUBSET Entry
    BY <1>2 DEF PatchInstance, IInv, TypeOK, Request
  <2>2. request' \in [Requests -> Request \cup {Idle}]
    BY <1>1, EndType DEF IInv
  <2>3. acked' \in [FileNames -> Contents \cup {"none", "absent"}]
    BY <1>4 DEF PatchInstance, IInv, TypeOK
  <2> QED
    BY <1>1, <2>1, <2>2, <2>3 DEF IInv, TypeOK
<1>7. /\ request'[r] = [q EXCEPT !.pc = "cleanup"]
      /\ \A p \in Requests \ {r} : request'[p] = request[p]
  BY <1>1, <1>2 DEF End
<1>8. request'[r].pc = "cleanup" /\ request'[r].args = q.args /\ request'[r].todo = q.todo
  BY <1>2, <1>7 DEF Request
<1>9. \A p \in Requests : /\ Progress(request'[p])
                         /\ AtHand(request'[p], configMaps', created', contended')
                         /\ Done(request'[p], configMaps', contended')
  <2>1. Progress(request'[r])
    <3>1. Position(request'[r]) = Position(q)
      BY <1>8 DEF Position
    <3> QED
      BY <1>1, <1>8, <3>1 DEF Progress
  <2>2. AtHand(request'[r], configMaps, created, contended) /\ Done(request'[r], configMaps, contended)
    BY <1>8 DEF AtHand, Done
  <2> QED
    BY <1>1, <1>7, <2>1, <2>2 DEF IInv
<1>10. Contention'
  <2>1. \A p \in Requests : /\ request'[p].pc # "idle" => request[p].pc # "idle"
                           /\ request'[p].args = request[p].args
    BY <1>1, <1>7, <1>8
  <2> QED
    BY <1>1, <2>1 DEF IInv, Contention
<1>11. Settled'
  <2> SUFFICES ASSUME NEW n \in FileNames, NEW p \in Requests,
                      n \notin contended, acked'[n] # "none", request'[p].pc # "idle",
                      n \in NamesIn(request'[p].args), p # r
               PROVE  request'[p].pc = "cleanup"
    BY <1>1, <1>8 DEF Settled
  <2>1. n \notin NamesIn(q.args)
    BY <1>1, <1>7 DEF IInv, Contention
  <2> QED
    BY <1>5, <1>7, <2>1 DEF IInv, Settled
<1>12. Objects' /\ OneConfigMapPerFile'
  BY <1>1 DEF IInv, Objects, OneConfigMapPerFile
<1>13. AckedIsStored'
  <2> SUFFICES ASSUME NEW n \in FileNames, n \notin contended
               PROVE  /\ acked'[n] \in Contents =>
                            \E cm \in configMaps : Named(configMaps, n) = {cm} /\ cm.content = acked'[n]
                      /\ acked'[n] = "absent" => Named(configMaps, n) = {}
    BY <1>1 DEF AckedIsStored, GetConfigMapByFileName, Named
  <2>1. CASE n \in NamesIn(q.args)
    BY <1>4, <1>5, <2>1, FilesAssumption
  <2>2. CASE n \notin NamesIn(q.args)
    BY <1>5, <2>2 DEF IInv, AckedIsStored, GetConfigMapByFileName, Named
  <2> QED
    BY <2>1, <2>2
<1> QED
  BY <1>6, <1>9, <1>10, <1>11, <1>12, <1>13 DEF IInv

LEMMA StutterKeeps == IInv /\ UNCHANGED vars => IInv'
<1> SUFFICES ASSUME IInv, UNCHANGED vars PROVE IInv'
  OBVIOUS
<1> USE DEF vars
<1>1. TypeOK'
  BY DEF IInv, TypeOK
<1>2. Contention' /\ Objects' /\ Settled'
  BY DEF IInv, Contention, Objects, Settled
<1>3. OneConfigMapPerFile' /\ AckedIsStored'
  BY DEF IInv, OneConfigMapPerFile, AckedIsStored, GetConfigMapByFileName
<1> QED
  BY <1>1, <1>2, <1>3 DEF IInv

LEMMA NextKeeps == IInv /\ [Next]_vars => IInv'
<1> SUFFICES ASSUME IInv, Next PROVE IInv'
  BY StutterKeeps
<1>1. PICK r \in Requests : Step(r)
  BY DEF Next
<1> QED
  BY <1>1, BeginKeeps, ValidateKeeps, ReadKeeps, LookUpKeeps, CreateKeeps, UpdateKeeps,
     DeleteKeeps, PatchKeeps, EndingKeeps DEF Step

\* The inductive invariant holds of every behaviour of the requests' calls.
THEOREM FilesInvariant == Spec => []IInv
BY InitInv, NextKeeps, PTL DEF Spec

----------------------------------------------------------------------------
(* The results. *)

\* For any requests, lists and interleaving of their calls, and wherever they
\* fail: a file that no two requests in flight have named has at most one
\* ConfigMap, so that getConfigMapByFileName never refuses it.
THEOREM OneConfigMapPerFileAlways == Spec => []OneConfigMapPerFile
<1>1. IInv => OneConfigMapPerFile
  BY DEF IInv
<1> QED
  BY <1>1, FilesInvariant, PTL

\* What createExtraFiles, updateExtraFiles or DeleteExtraFiles acknowledged for a
\* file is what a lookup of it finds, however often the list names the file
\* and whatever other requests do to other files.
THEOREM AckedIsStoredAlways == Spec => []AckedIsStored
<1>1. IInv => AckedIsStored
  BY DEF IInv
<1> QED
  BY <1>1, FilesInvariant, PTL
=============================================================================
