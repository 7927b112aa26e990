---------------------------- MODULE Edits_proofs ----------------------------
(***************************************************************************)
(* What clients edit at the same time.  Edits implements InstanceMap, an   *)
(* instance keeps its flavors for creation, and an acknowledged edit is    *)
(* kept: for any clients, fields, plans, flavors and requests, however     *)
(* these overlap.  Then what Rendering makes of any instance that such     *)
(* edits leave: every route is served by its server, and the servers have  *)
(* the names, blocks, certificates and listen options that they should.    *)
(* Last, the rules of options of UpstreamOptions, for any number of apps,  *)
(* requests in flight and entries.                                         *)
(***************************************************************************)
EXTENDS Rendering, UpstreamOptions, FiniteSetTheorems, WellFoundedInduction, TLAPS

IsRecord(q) == q = [pc |-> q.pc, in |-> q.in, copy |-> q.copy, life |-> q.life,
                    answer |-> q.answer]

\* Requests are records of their clients, about one of the inputs; the instance
\* and the copies have all the fields, and a copy is of this life or an earlier one.
Shape ==
    /\ call = [c \in Clients |-> call[c]]
    /\ fields = [f \in Fields |-> fields[f]]
    /\ exists \in BOOLEAN /\ crossed \in BOOLEAN /\ lives \in Nat
    /\ \A c \in Clients :
          /\ IsRecord(call[c])
          /\ call[c].pc \in {"idle", "read", "patch", "delete", "create"}
          /\ call[c].pc # "idle" => call[c].in \in Inputs
          /\ call[c].pc \in {"patch", "delete"} =>
                /\ call[c].copy = [f \in Fields |-> call[c].copy[f]]
                /\ call[c].life \in Nat /\ call[c].life <= lives
                /\ call[c].in.op # "CreateInstance"
          /\ call[c].pc = "create" => call[c].in.op = "CreateInstance"

----------------------------------------------------------------------------
(* What steps do to requests. *)

Began(in) == [pc |-> "read", in |-> in, copy |-> Blank, life |-> 0, answer |-> "none"]
Ended(a) == [pc |-> "idle", in |-> None, copy |-> Blank, life |-> 0, answer |-> a]
HasRead(c, s) == [pc |-> s, in |-> call[c].in, copy |-> fields, life |-> lives,
                  answer |-> call[c].answer]
Creating(c) == [call[c] EXCEPT !.pc = "create"]

LEMMA CallBegin ==
    ASSUME NEW c, NEW x \in Inputs, Begin(c, x)
    PROVE  call' = [call EXCEPT ![c] = Began(x)]
BY DEF Begin, Began

LEMMA CallEnd ==
    ASSUME NEW c, NEW a, End(c, a)
    PROVE  call' = [call EXCEPT ![c] = Ended(a)]
<1>1. [Idle EXCEPT !.answer = a] = Ended(a)
  BY DEF Ended, Idle
<1>2. call' = [call EXCEPT ![c] = [Idle EXCEPT !.answer = a]]
  BY DEF End
<1> QED
  BY <1>1, <1>2, Zenon

LEMMA CallRead ==
    ASSUME Shape, NEW c \in Clients, NEW s,
           call' = [call EXCEPT ![c].pc = s, ![c].copy = fields, ![c].life = lives]
    PROVE  call' = [call EXCEPT ![c] = HasRead(c, s)]
<1>1. DOMAIN call = Clients /\ IsRecord(call[c])
  BY DEF Shape
<1>2. call'[c] = HasRead(c, s)
  BY <1>1 DEF IsRecord, HasRead
<1>3. \A d \in Clients : d # c => call'[d] = call[d]
  BY <1>1
<1> QED
  BY <1>1, <1>2, <1>3

\* The other clients' requests stay as they are.
LEMMA OneCall ==
    ASSUME Shape, NEW c \in Clients, NEW q, call' = [call EXCEPT ![c] = q]
    PROVE  /\ call' = [d \in Clients |-> call'[d]]
           /\ call'[c] = q
           /\ \A d \in Clients : d # c => call'[d] = call[d]
BY DEF Shape

LEMMA RecordsAre ==
    ASSUME NEW in, NEW a, NEW c, NEW s
    PROVE  IsRecord(Began(in)) /\ IsRecord(Ended(a)) /\ IsRecord(HasRead(c, s))
BY DEF IsRecord, Began, Ended, HasRead

----------------------------------------------------------------------------
(* Fields, and what requests do to the plain ones. *)

LEMMA Kinds ==
    /\ \A t : \A f \in Plain : f # <<"block", t>>
    /\ \A f \in Plain : f \notin Blocks /\ f \notin Lists
    /\ Plain \subseteq Fields /\ PlanTemplate \subseteq Plain
BY DEF Plain, Fields, Blocks, Lists, Metadata, PlanTemplate, Plan, FlavorNames, About,
       Shutdown, Locations, ServerBlocks

\* A request is about plain fields, and about all of the plan template or none.
LEMMA WantsPlain ==
    ASSUME NEW x \in Inputs
    PROVE  /\ DOMAIN Wants(x) \subseteq Plain
           /\ \/ PlanTemplate \subseteq DOMAIN Wants(x)
              \/ PlanTemplate \cap DOMAIN Wants(x) = {}
<1> USE InputsAssumption DEF Plain, Metadata
<1>1. CASE x.op = "SetMetadata"
  <2>1. DOMAIN Wants(x) = {<<"meta", k>> : k \in DOMAIN x.items}
    BY <1>1 DEF Wants
  <2>2. DOMAIN x.items \subseteq MetaKeys
    BY <1>1
  <2> QED
    BY <2>1, <2>2 DEF PlanTemplate
<1>2. CASE x.op = "UnsetMetadata"
  <2>1. DOMAIN Wants(x) = {<<"meta", k>> : k \in x.keys}
    BY <1>2 DEF Wants
  <2>2. x.keys \subseteq MetaKeys
    BY <1>2
  <2> QED
    BY <2>1, <2>2 DEF PlanTemplate
<1>3. CASE x.op \in {"Start", "Stop"}
  BY <1>3 DEF Wants, PlanTemplate, Shutdown
<1>4. CASE x.op \in {"CreateInstance", "UpdateInstance"}
  <2>1. DOMAIN Wants(x) =
           (IF x.op = "UpdateInstance" /\ x.plan = None THEN {} ELSE {Plan})
           \cup {FlavorNames} \cup {<<"about", k>> : k \in Told(x)} \cup PlanTemplate
           \cup {<<"meta", k>> : k \in DOMAIN x.items}
    BY <1>4 DEF Wants
  <2>2. {<<"about", k>> : k \in Told(x)} \subseteq About
    BY DEF Told, About
  <2>3. {<<"meta", k>> : k \in DOMAIN x.items} \subseteq Metadata
    BY <1>4
  <2> QED
    BY <2>1, <2>2, <2>3
<1>5. CASE x.op \notin {"SetMetadata", "UnsetMetadata", "Start", "Stop", "CreateInstance",
                        "UpdateInstance"}
  BY <1>5 DEF Wants
<1> QED
  BY <1>1, <1>2, <1>3, <1>4, <1>5

\* Edits of blocks and routes are not about plain fields.
LEMMA WantsNothing ==
    ASSUME NEW x, x.op \in {"UpdateBlock", "DeleteBlock", "UpdateRoute", "DeleteRoute"}
    PROVE  DOMAIN Wants(x) = {}
BY DEF Wants

LEMMA EditedPlain ==
    ASSUME NEW x, NEW copy, copy = [f \in Fields |-> copy[f]], NEW g \in Plain
    PROVE  Edited(copy, x)[g] = IF g \in DOMAIN Wants(x) THEN Wants(x)[g] ELSE copy[g]
<1>1. g \in Fields /\ g # Locations /\ g # ServerBlocks /\ \A t : g # <<"block", t>>
  BY Kinds DEF Lists
<1>2. CASE x.op = "UpdateBlock"
  BY <1>1, <1>2, WantsNothing DEF Edited, UpdateBlock
<1>3. CASE x.op = "DeleteBlock"
  BY <1>1, <1>3, WantsNothing DEF Edited, DeleteBlock
<1>4. CASE x.op = "UpdateRoute"
  BY <1>1, <1>4, WantsNothing DEF Edited, UpdateRoute
<1>5. CASE x.op = "DeleteRoute"
  BY <1>1, <1>5, WantsNothing DEF Edited, DeleteRoute
<1>6. CASE x.op \notin {"UpdateBlock", "DeleteBlock", "UpdateRoute", "DeleteRoute"}
  BY <1>1, <1>6 DEF Edited, Assigned
<1> QED
  BY <1>2, <1>3, <1>4, <1>5, <1>6

\* The patch of a request puts its values where they were not, and leaves the
\* fields alone that it is not about.
LEMMA PatchedPlain ==
    ASSUME NEW x \in Inputs, NEW stored, NEW copy, copy = [f \in Fields |-> copy[f]],
           NEW g \in Plain
    PROVE  LET w == Wants(x)  p == Patched(stored, copy, Edited(copy, x)) IN
           /\ p[g] = stored[g] \/ (g \in DOMAIN w /\ p[g] = w[g])
           /\ g \in DOMAIN w /\ copy[g] # w[g] => p[g] = w[g]
<1> DEFINE w == Wants(x)
           new == Edited(copy, x)
           p == Patched(stored, copy, new)
<1>1. \A f \in Plain : new[f] = IF f \in DOMAIN w THEN w[f] ELSE copy[f]
  BY EditedPlain
<1>2. g \in Fields /\ g \notin Blocks
  BY Kinds
<1>3. p[g] = IF \/ copy[g] # new[g]
                \/ /\ g \in PlanTemplate
                   /\ \E h \in Siblings(g) : copy[h] # Absent
                   /\ \A h \in Siblings(g) : new[h] = Absent
             THEN new[g] ELSE stored[g]
  BY <1>2 DEF Patched
<1>4. CASE g \notin DOMAIN w
  <2>1. copy[g] = new[g]
    BY <1>1, <1>4
  <2>2. ASSUME g \in PlanTemplate
        PROVE  \A h \in Siblings(g) : new[h] = copy[h]
    <3>1. Siblings(g) = PlanTemplate
      BY <1>2, <2>2 DEF Siblings
    <3>2. PlanTemplate \cap DOMAIN w = {}
      BY <1>4, <2>2, WantsPlain
    <3> QED
      BY <1>1, <3>1, <3>2, Kinds
  <2> QED
    BY <1>3, <1>4, <2>1, <2>2
<1>5. CASE g \in DOMAIN w
  BY <1>1, <1>3, <1>5
<1> QED
  BY <1>4, <1>5

----------------------------------------------------------------------------
(* The refinement. *)

TaskOf(q) == IF q.pc = "idle" THEN NoTask ELSE Wants(q.in)
HeldOf(q) == IF q.pc \in {"patch", "delete"}
             THEN {f \in DOMAIN Wants(q.in) : q.copy[f] = Wants(q.in)[f]} ELSE {}

\* The variables of InstanceMap.
AFields == [f \in Plain |-> fields[f]]
ATask == [c \in Clients |-> Task(c)]
AHeld == [c \in Clients |-> Held(c)]
AAnswer == [c \in Clients |-> call[c].answer]

\* What a step of a request does to them.
LEMMA AbstractCall ==
    ASSUME Shape, NEW c \in Clients, NEW q, call' = [call EXCEPT ![c] = q]
    PROVE  /\ ATask' = [ATask EXCEPT ![c] = TaskOf(q)]
           /\ AHeld' = [AHeld EXCEPT ![c] = HeldOf(q)]
           /\ AAnswer' = [AAnswer EXCEPT ![c] = q.answer]
<1>1. call'[c] = q /\ \A d \in Clients : d # c => call'[d] = call[d]
  BY OneCall
<1>2. ATask' = [ATask EXCEPT ![c] = TaskOf(q)]
  <2>1. \A d \in Clients : Task(d)' = IF d = c THEN TaskOf(q) ELSE Task(d)
    BY <1>1 DEF Task, TaskOf
  <2>2. ATask' = [d \in Clients |-> IF d = c THEN TaskOf(q) ELSE Task(d)]
    BY <2>1, Zenon DEF ATask
  <2> QED
    BY <2>2 DEF ATask
<1>3. AHeld' = [AHeld EXCEPT ![c] = HeldOf(q)]
  <2>1. \A d \in Clients : Held(d)' = IF d = c THEN HeldOf(q) ELSE Held(d)
    BY <1>1 DEF Held, HeldOf
  <2>2. AHeld' = [d \in Clients |-> IF d = c THEN HeldOf(q) ELSE Held(d)]
    BY <2>1, Zenon DEF AHeld
  <2> QED
    BY <2>2 DEF AHeld
<1>4. AAnswer' = [AAnswer EXCEPT ![c] = q.answer]
  <2>1. AAnswer' = [d \in Clients |-> IF d = c THEN q.answer ELSE call[d].answer]
    BY <1>1 DEF AAnswer
  <2> QED
    BY <2>1 DEF AAnswer
<1> QED
  BY <1>2, <1>3, <1>4

LEMMA AbstractNow ==
    ASSUME Shape, NEW c \in Clients
    PROVE  /\ ATask[c] = TaskOf(call[c]) /\ AHeld[c] = HeldOf(call[c])
           /\ AAnswer[c] = call[c].answer
BY DEF ATask, AHeld, AAnswer, Task, Held, TaskOf, HeldOf

\* Steps of InstanceMap in terms of these.
LEMMA AbstractBegin ==
    ASSUME NEW c \in Clients, NEW x \in Inputs,
           ATask[c] = NoTask, ATask' = [ATask EXCEPT ![c] = Wants(x)],
           AAnswer' = [AAnswer EXCEPT ![c] = "none"], AHeld' = AHeld,
           AFields' = AFields, exists' = exists
    PROVE  Register!Next
<1>1. Register!Begin(c)
  BY DEF Register!Begin, ATask, AAnswer, AHeld, AFields
<1> QED
  BY <1>1 DEF Register!Next

LEMMA AbstractLook ==
    ASSUME NEW c \in Clients, ATask[c] # NoTask, exists,
           AHeld' = [AHeld EXCEPT ![c] = {f \in DOMAIN ATask[c] : AFields[f] = ATask[c][f]}],
           AFields' = AFields, ATask' = ATask, AAnswer' = AAnswer, exists' = exists
    PROVE  Register!Next
<1>1. Register!Look(c)
  BY DEF Register!Look, ATask, AAnswer, AHeld, AFields
<1> QED
  BY <1>1 DEF Register!Next

\* The end of a request.
AbstractEnd(c, reply) ==
    /\ ATask[c] # NoTask
    /\ ATask' = [ATask EXCEPT ![c] = NoTask]
    /\ AHeld' = [AHeld EXCEPT ![c] = {}]
    /\ AAnswer' = [AAnswer EXCEPT ![c] = reply]

LEMMA AbstractEnds ==
    ASSUME NEW c, NEW reply, AbstractEnd(c, reply)
    PROVE  Register!End(c, reply)
BY DEF AbstractEnd, Register!End, ATask, AAnswer, AHeld

LEMMA AbstractRefuse ==
    ASSUME NEW c \in Clients, AbstractEnd(c, "error"), exists' = exists, AFields' = AFields
    PROVE  Register!Next
<1>1. Register!Refuse(c)
  BY AbstractEnds DEF Register!Refuse, AFields
<1> QED
  BY <1>1 DEF Register!Next

LEMMA AbstractFinish ==
    ASSUME NEW c \in Clients, NEW reply \in {"ok", "error"}, AbstractEnd(c, reply),
           exists, exists' = exists,
           \A f \in Plain : \/ fields'[f] = fields[f]
                            \/ f \in DOMAIN ATask[c] /\ fields'[f] = ATask[c][f],
           DOMAIN ATask[c] \subseteq Plain,
           \A f \in DOMAIN ATask[c] \ AHeld[c] : fields'[f] = ATask[c][f]
    PROVE  Register!Next
<1>1. Register!Finish(c, reply)
  BY AbstractEnds DEF Register!Finish, ATask, AHeld, AFields
<1> QED
  BY <1>1 DEF Register!Next

LEMMA AbstractCreate ==
    ASSUME NEW c \in Clients, NEW reply \in {"ok", "error"}, AbstractEnd(c, reply),
           ~exists, exists' = TRUE,
           \A f \in Plain : fields'[f] = IF f \in DOMAIN ATask[c] THEN ATask[c][f] ELSE Absent
    PROVE  Register!Next
<1>1. Register!Create(c, reply)
  BY AbstractEnds DEF Register!Create, ATask, AFields
<1> QED
  BY <1>1 DEF Register!Next

LEMMA AbstractDelete ==
    ASSUME NEW c \in Clients, NEW reply \in {"ok", "error"}, AbstractEnd(c, reply),
           exists, exists' = FALSE, \A f \in Plain : fields'[f] = Absent
    PROVE  Register!Next
<1>1. Register!Delete(c, reply)
  BY AbstractEnds DEF Register!Delete, AFields
<1> QED
  BY <1>1 DEF Register!Next

----------------------------------------------------------------------------
(* Each step of a request is a step of InstanceMap. *)

\* A request that is acknowledged, or refused, ends in InstanceMap too.
LEMMA EndIsEnd ==
    ASSUME Shape, NEW c \in Clients, NEW a, call[c].pc # "idle", End(c, a)
    PROVE  AbstractEnd(c, a)
<1>1. call' = [call EXCEPT ![c] = Ended(a)]
  BY CallEnd
<1>2. call[c].in \in Inputs /\ Wants(call[c].in) # NoTask
  BY InputsAssumption DEF Shape
<1>3. ATask[c] # NoTask
  BY <1>2, AbstractNow DEF TaskOf
<1>4. TaskOf(Ended(a)) = NoTask /\ HeldOf(Ended(a)) = {} /\ Ended(a).answer = a
  BY DEF TaskOf, HeldOf, Ended
<1>5. /\ ATask' = [ATask EXCEPT ![c] = TaskOf(Ended(a))]
      /\ AHeld' = [AHeld EXCEPT ![c] = HeldOf(Ended(a))]
      /\ AAnswer' = [AAnswer EXCEPT ![c] = Ended(a).answer]
  BY <1>1, AbstractCall
<1> QED
  BY <1>3, <1>4, <1>5 DEF AbstractEnd

LEMMA RefuseSim ==
    ASSUME Shape, NEW c \in Clients, call[c].pc # "idle", Refuse(c)
    PROVE  Register!Next
<1>1. AbstractEnd(c, "error")
  BY EndIsEnd DEF Refuse, Acknowledge
<1>2. AFields' = AFields
  BY DEF Refuse, AFields
<1> QED
  BY <1>1, <1>2, AbstractRefuse DEF Refuse

LEMMA BeginSim ==
    ASSUME Shape, NEW c \in Clients, NEW x \in Inputs, Begin(c, x)
    PROVE  Register!Next
<1>1. call' = [call EXCEPT ![c] = Began(x)]
  BY CallBegin
<1>2. TaskOf(Began(x)) = Wants(x) /\ HeldOf(Began(x)) = {} /\ Began(x).answer = "none"
  BY DEF TaskOf, HeldOf, Began
<1>3. ATask[c] = NoTask /\ AHeld[c] = {}
  BY AbstractNow DEF Begin, TaskOf, HeldOf
<1>4. /\ ATask' = [ATask EXCEPT ![c] = Wants(x)]
      /\ AHeld' = [AHeld EXCEPT ![c] = AHeld[c]]
      /\ AAnswer' = [AAnswer EXCEPT ![c] = "none"]
  <2>1. /\ ATask' = [ATask EXCEPT ![c] = TaskOf(Began(x))]
        /\ AHeld' = [AHeld EXCEPT ![c] = HeldOf(Began(x))]
        /\ AAnswer' = [AAnswer EXCEPT ![c] = Began(x).answer]
    BY <1>1, AbstractCall
  <2> QED
    BY <1>2, <1>3, <2>1
<1>5. AFields' = AFields /\ exists' = exists
  BY DEF Begin, AFields
<1>6. AHeld' = AHeld
  BY <1>4 DEF AHeld
<1> QED
  BY <1>3, <1>4, <1>5, <1>6, AbstractBegin

LEMMA GetSim ==
    ASSUME Shape, NEW c \in Clients, GetInstance(c)
    PROVE  Register!Next
<1> DEFINE x == call[c].in
           s == IF x.op = "DeleteInstance" THEN "delete" ELSE "patch"
<1>0. call[c].pc = "read" /\ x \in Inputs
  BY DEF GetInstance, Shape
<1>1. CASE exists /\ Accepts(fields, x)
  <2>1. call' = [call EXCEPT ![c] = HasRead(c, s)]
    BY <1>1, CallRead DEF GetInstance
  <2>2. /\ TaskOf(HasRead(c, s)) = Wants(x) /\ HasRead(c, s).answer = call[c].answer
        /\ HeldOf(HasRead(c, s)) = {f \in DOMAIN Wants(x) : fields[f] = Wants(x)[f]}
    BY DEF TaskOf, HeldOf, HasRead
  <2>3. ATask[c] = Wants(x) /\ Wants(x) # NoTask /\ AAnswer[c] = call[c].answer
    BY <1>0, AbstractNow, InputsAssumption DEF TaskOf
  <2>7. /\ ATask' = [ATask EXCEPT ![c] = TaskOf(HasRead(c, s))]
        /\ AHeld' = [AHeld EXCEPT ![c] = HeldOf(HasRead(c, s))]
        /\ AAnswer' = [AAnswer EXCEPT ![c] = HasRead(c, s).answer]
    BY <2>1, AbstractCall
  <2>8. ATask' = [ATask EXCEPT ![c] = ATask[c]] /\ AAnswer' = [AAnswer EXCEPT ![c] = AAnswer[c]]
    BY <2>2, <2>3, <2>7
  <2>4. ATask' = ATask /\ AAnswer' = AAnswer
    BY <2>8 DEF ATask, AAnswer
  <2>5. HeldOf(HasRead(c, s)) = {f \in DOMAIN ATask[c] : AFields[f] = ATask[c][f]}
    BY <1>0, <2>2, <2>3, WantsPlain DEF AFields
  <2>6. AFields' = AFields /\ exists' = exists
    BY <1>1 DEF GetInstance, AFields
  <2> QED
    BY <1>1, <2>3, <2>4, <2>5, <2>6, <2>7, AbstractLook
<1>2. CASE ~(exists /\ Accepts(fields, x))
  BY <1>0, <1>2, RefuseSim DEF GetInstance
<1> QED
  BY <1>1, <1>2

LEMMA PatchSim ==
    ASSUME Shape, NEW c \in Clients, NEW a \in Answers, PatchInstance(c, a)
    PROVE  Register!Next
<1> DEFINE q == call[c]
           w == Wants(q.in)
<1>0. q.pc = "patch" /\ q.in \in Inputs /\ q.copy = [f \in Fields |-> q.copy[f]]
  BY DEF PatchInstance, Shape
<1>1. CASE exists
  <2>1. AbstractEnd(c, a) /\ exists' = exists
    BY <1>0, <1>1, EndIsEnd DEF PatchInstance, Acknowledge
  <2>2. ATask[c] = w /\ AHeld[c] = {f \in DOMAIN w : q.copy[f] = w[f]}
    BY <1>0, AbstractNow DEF TaskOf, HeldOf
  <2>3. fields' = Patched(fields, q.copy, Edited(q.copy, q.in))
    BY <1>1 DEF PatchInstance
  <2>4. \A f \in Plain : /\ fields'[f] = fields[f] \/ (f \in DOMAIN w /\ fields'[f] = w[f])
                         /\ f \in DOMAIN w /\ q.copy[f] # w[f] => fields'[f] = w[f]
    BY <1>0, <2>3, PatchedPlain
  <2>5. DOMAIN w \subseteq Plain
    BY <1>0, WantsPlain
  <2> QED
    BY <1>1, <2>1, <2>2, <2>4, <2>5, AbstractFinish DEF Answers
<1>2. CASE ~exists
  BY <1>0, <1>2, RefuseSim DEF PatchInstance
<1> QED
  BY <1>1, <1>2

LEMMA BlankPlain == \A f \in Plain : Blank[f] = Absent
BY Kinds DEF Blank

LEMMA DeleteSim ==
    ASSUME Shape, NEW c \in Clients, NEW a \in Answers, DeleteInstance(c, a)
    PROVE  Register!Next
<1>0. call[c].pc = "delete"
  BY DEF DeleteInstance
<1>1. CASE exists
  <2>1. AbstractEnd(c, a) /\ exists' = FALSE /\ fields' = Blank
    BY <1>0, <1>1, EndIsEnd DEF DeleteInstance, Acknowledge
  <2> QED
    BY <1>1, <2>1, BlankPlain, AbstractDelete DEF Answers
<1>2. CASE ~exists
  BY <1>0, <1>2, RefuseSim DEF DeleteInstance
<1> QED
  BY <1>1, <1>2

LEMMA ValidateSim ==
    ASSUME Shape, NEW c \in Clients, ValidateCreate(c)
    PROVE  Register!Next \/ UNCHANGED <<exists, AFields, ATask, AHeld, AAnswer>>
<1>0. call[c].pc = "read" /\ IsRecord(call[c]) /\ DOMAIN call = Clients
  BY DEF ValidateCreate, Shape
<1>1. CASE validateCreate(call[c].in)
  <2> DEFINE q == [call[c] EXCEPT !.pc = "create"]
  <2>1. call' = [call EXCEPT ![c] = q]
    BY <1>0, <1>1 DEF ValidateCreate
  <2>2. q.pc = "create" /\ q.in = call[c].in /\ q.answer = call[c].answer
    BY <1>0 DEF IsRecord
  <2>3. TaskOf(q) = ATask[c] /\ HeldOf(q) = AHeld[c] /\ q.answer = AAnswer[c]
    BY <1>0, <2>2, AbstractNow DEF TaskOf, HeldOf
  <2>4. ATask' = ATask /\ AHeld' = AHeld /\ AAnswer' = AAnswer
    <3> HIDE DEF q
    <3>1. /\ ATask' = [ATask EXCEPT ![c] = TaskOf(q)]
          /\ AHeld' = [AHeld EXCEPT ![c] = HeldOf(q)]
          /\ AAnswer' = [AAnswer EXCEPT ![c] = q.answer]
      BY <2>1, AbstractCall
    <3> QED
      BY <2>3, <3>1 DEF ATask, AHeld, AAnswer
  <2> QED
    BY <1>1, <2>4 DEF ValidateCreate, AFields
<1>2. CASE ~validateCreate(call[c].in)
  BY <1>0, <1>2, RefuseSim DEF ValidateCreate
<1> QED
  BY <1>1, <1>2

LEMMA CreateSim ==
    ASSUME Shape, NEW c \in Clients, NEW a \in Answers, CreateInstance(c, a)
    PROVE  Register!Next
<1> DEFINE w == Wants(call[c].in)
<1>0. call[c].pc = "create" /\ call[c].in \in Inputs
  BY DEF CreateInstance, Shape
<1>1. CASE ~exists
  <2>1. AbstractEnd(c, a) /\ exists' = TRUE /\ fields' = Assigned(Blank, call[c].in)
    BY <1>0, <1>1, EndIsEnd DEF CreateInstance, Acknowledge
  <2>2. ATask[c] = w
    BY <1>0, AbstractNow DEF TaskOf
  <2>3. \A f \in Plain : fields'[f] = IF f \in DOMAIN w THEN w[f] ELSE Absent
    BY <2>1, BlankPlain, Kinds DEF Assigned
  <2> QED
    BY <1>1, <2>1, <2>2, <2>3, AbstractCreate DEF Answers
<1>2. CASE exists
  BY <1>0, <1>2, RefuseSim DEF CreateInstance
<1> QED
  BY <1>1, <1>2

----------------------------------------------------------------------------
(* The shape of the state is kept. *)

\* A request that begins or ends, or goes on with a copy of the instance.
LEMMA ShapeCall ==
    ASSUME Shape, NEW c \in Clients, NEW q, call' = [call EXCEPT ![c] = q],
           IsRecord(q), q.pc \in {"idle", "read", "patch", "delete", "create"},
           q.pc # "idle" => q.in \in Inputs,
           q.pc \in {"patch", "delete"} =>
               /\ q.copy = [f \in Fields |-> q.copy[f]]
               /\ q.life \in Nat /\ q.life <= lives'
               /\ q.in.op # "CreateInstance",
           q.pc = "create" => q.in.op = "CreateInstance",
           lives' \in Nat, lives <= lives',
           fields' = [f \in Fields |-> fields'[f]],
           exists' \in BOOLEAN, crossed' \in BOOLEAN
    PROVE  Shape'
<1>1. /\ call' = [d \in Clients |-> call'[d]]
      /\ call'[c] = q
      /\ \A d \in Clients : d # c => call'[d] = call[d]
  BY OneCall
<1>2. ASSUME NEW d \in Clients, d # c
      PROVE  /\ IsRecord(call'[d])
             /\ call'[d].pc \in {"idle", "read", "patch", "delete", "create"}
             /\ call'[d].pc # "idle" => call'[d].in \in Inputs
             /\ call'[d].pc \in {"patch", "delete"} =>
                   /\ call'[d].copy = [f \in Fields |-> call'[d].copy[f]]
                   /\ call'[d].life \in Nat /\ call'[d].life <= lives'
                   /\ call'[d].in.op # "CreateInstance"
             /\ call'[d].pc = "create" => call'[d].in.op = "CreateInstance"
  <2>1. call'[d] = call[d]
    BY <1>1, <1>2
  <2> QED
    BY <2>1 DEF Shape
<1> QED
  BY <1>1, <1>2 DEF Shape, IsRecord

LEMMA ShapeEnd ==
    ASSUME Shape, NEW c \in Clients, NEW a, End(c, a),
           lives' \in Nat, lives <= lives', fields' = [f \in Fields |-> fields'[f]],
           exists' \in BOOLEAN, crossed' \in BOOLEAN
    PROVE  Shape'
<1>1. call' = [call EXCEPT ![c] = Ended(a)]
  BY CallEnd
<1>2. IsRecord(Ended(a)) /\ Ended(a).pc = "idle"
  BY DEF IsRecord, Ended
<1> QED
  BY <1>1, <1>2, ShapeCall

LEMMA ShapeRefuse ==
    ASSUME Shape, NEW c \in Clients, Refuse(c)
    PROVE  Shape'
<1>1. End(c, "error") /\ UNCHANGED <<exists, fields, lives, crossed>>
  BY DEF Refuse, Acknowledge
<1> QED
  BY <1>1, ShapeEnd DEF Shape

LEMMA ShapeInit == Init => Shape
<1> SUFFICES ASSUME Init PROVE Shape
  OBVIOUS
<1>1. fields = [f \in Fields |-> fields[f]]
  BY DEF Init, Blank
<1>2. call = [c \in Clients |-> call[c]] /\ \A c \in Clients : call[c] = Idle
  BY DEF Init
<1>3. IsRecord(Idle) /\ Idle.pc = "idle"
  BY DEF IsRecord, Idle
<1> QED
  BY <1>1, <1>2, <1>3 DEF Init, Shape

LEMMA ShapeBegin ==
    ASSUME Shape, NEW c \in Clients, NEW x \in Inputs, Begin(c, x)
    PROVE  Shape'
<1>1. call' = [call EXCEPT ![c] = Began(x)] /\ UNCHANGED <<exists, fields, lives, crossed>>
  BY CallBegin DEF Begin
<1>2. IsRecord(Began(x)) /\ Began(x).pc = "read" /\ Began(x).in = x
  BY DEF IsRecord, Began
<1> QED
  BY <1>1, <1>2, ShapeCall DEF Shape

LEMMA ShapeGet ==
    ASSUME Shape, NEW c \in Clients, GetInstance(c)
    PROVE  Shape'
<1> DEFINE x == call[c].in
           s == IF x.op = "DeleteInstance" THEN "delete" ELSE "patch"
           q == HasRead(c, s)
<1>1. CASE exists /\ Accepts(fields, x)
  <2>1. call' = [call EXCEPT ![c] = q] /\ UNCHANGED <<exists, fields, lives, crossed>>
    BY <1>1, CallRead DEF GetInstance, history
  <2>2. /\ IsRecord(q) /\ q.pc = s /\ q.in = x /\ q.copy = fields /\ q.life = lives
        /\ s \in {"patch", "delete"} /\ x.op # "CreateInstance" /\ x \in Inputs
    BY DEF IsRecord, HasRead, GetInstance, Shape
  <2>3. /\ q.copy = [f \in Fields |-> q.copy[f]] /\ q.life \in Nat /\ q.life <= lives'
        /\ lives' \in Nat /\ lives <= lives' /\ fields' = [f \in Fields |-> fields'[f]]
        /\ exists' \in BOOLEAN /\ crossed' \in BOOLEAN
    <3> HIDE DEF q, s
    <3> QED
      BY <2>1, <2>2 DEF Shape
  <2> HIDE DEF q, s
  <2> QED
    BY <2>1, <2>2, <2>3, ShapeCall
<1>2. CASE ~(exists /\ Accepts(fields, x))
  BY <1>2, ShapeRefuse DEF GetInstance
<1> QED
  BY <1>1, <1>2

LEMMA ShapeValidate ==
    ASSUME Shape, NEW c \in Clients, ValidateCreate(c)
    PROVE  Shape'
<1>1. CASE validateCreate(call[c].in)
  <2> DEFINE q == [call[c] EXCEPT !.pc = "create"]
  <2>1. call' = [call EXCEPT ![c] = q] /\ UNCHANGED <<exists, fields, lives, crossed>>
    BY <1>1 DEF ValidateCreate, history, Shape
  <2>2. /\ IsRecord(q) /\ q.pc = "create" /\ q.in = call[c].in /\ q.in \in Inputs
        /\ q.in.op = "CreateInstance"
    <3>1. IsRecord(call[c]) /\ call[c].in \in Inputs /\ call[c].in.op = "CreateInstance"
      BY DEF Shape, ValidateCreate
    <3>2. q = [pc |-> "create", in |-> call[c].in, copy |-> call[c].copy,
               life |-> call[c].life, answer |-> call[c].answer]
      BY <3>1 DEF IsRecord
    <3> QED
      BY <3>1, <3>2 DEF IsRecord
  <2> HIDE DEF q
  <2> QED
    BY <2>1, <2>2, ShapeCall DEF Shape
<1>2. CASE ~validateCreate(call[c].in)
  BY <1>2, ShapeRefuse DEF ValidateCreate
<1> QED
  BY <1>1, <1>2

LEMMA ShapeWrites ==
    ASSUME Shape, NEW c \in Clients, NEW a,
           PatchInstance(c, a) \/ DeleteInstance(c, a) \/ CreateInstance(c, a)
    PROVE  Shape'
<1>1. CASE Refuse(c)
  BY <1>1, ShapeRefuse
<1>2. CASE ~Refuse(c)
  <2>1. End(c, a)
    BY <1>2 DEF PatchInstance, DeleteInstance, CreateInstance, Acknowledge
  <2>2. lives' \in Nat /\ lives <= lives'
    <3>1. lives \in Nat /\ lives' \in {lives, lives + 1}
      BY <1>2 DEF PatchInstance, DeleteInstance, CreateInstance, Shape
    <3> QED
      BY <3>1
  <2>4. exists' \in BOOLEAN
    BY <1>2, Zenon DEF PatchInstance, DeleteInstance, CreateInstance, Shape
  <2>5. crossed' \in BOOLEAN
    <3>1. crossed' = crossed \/ crossed' = FALSE \/ crossed' = (crossed \/ call[c].life # lives)
      BY <1>2, Zenon DEF PatchInstance, DeleteInstance, CreateInstance
    <3> QED
      BY <3>1, Zenon DEF Shape
  <2>3. fields' = [f \in Fields |-> fields'[f]]
    BY <1>2 DEF PatchInstance, DeleteInstance, CreateInstance, Patched, Blank, Assigned
  <2> QED
    BY <2>1, <2>2, <2>3, <2>4, <2>5, ShapeEnd
<1> QED
  BY <1>1, <1>2

LEMMA ShapeStep == Shape /\ [Next]_vars => Shape'
<1> SUFFICES ASSUME Shape, [Next]_vars PROVE Shape'
  OBVIOUS
<1>1. ASSUME NEW c \in Clients, NEW x \in Inputs, Begin(c, x) PROVE Shape'
  BY <1>1, ShapeBegin
<1>2. ASSUME NEW c \in Clients, GetInstance(c) PROVE Shape'
  BY <1>2, ShapeGet
<1>3. ASSUME NEW c \in Clients, ValidateCreate(c) PROVE Shape'
  BY <1>3, ShapeValidate
<1>4. ASSUME NEW c \in Clients, CallFails(c) PROVE Shape'
  BY <1>4, ShapeRefuse DEF CallFails
<1>5. ASSUME NEW c \in Clients, NEW a \in Answers,
             PatchInstance(c, a) \/ DeleteInstance(c, a) \/ CreateInstance(c, a)
      PROVE  Shape'
  BY <1>5, ShapeWrites
<1>6. CASE UNCHANGED vars
  BY <1>6 DEF vars, history, Shape, IsRecord
<1> QED
  BY <1>1, <1>2, <1>3, <1>4, <1>5, <1>6 DEF Next

\* Spec implements InstanceMap: edits of plain fields behave as on registers,
\* for any clients and requests, however their reads and patches overlap.
THEOREM EditsImplementInstanceMap == Spec => ImplementsRegister
<1>1. Init => Register!Init
  <2> SUFFICES ASSUME Init PROVE Register!Init
    OBVIOUS
  <2>1. fields = Blank /\ \A c \in Clients : call[c].pc = "idle" /\ call[c].answer = "none"
    BY DEF Init, Idle
  <2>2. \A c \in Clients : Task(c) = NoTask /\ Held(c) = {}
    BY <2>1 DEF Task, Held
  <2> QED
    BY <2>1, <2>2, BlankPlain DEF Register!Init, Init
<1>2. Shape /\ [Next]_vars => [Register!Next]_(Register!vars)
  <2> SUFFICES ASSUME Shape, [Next]_vars PROVE [Register!Next]_(Register!vars)
    OBVIOUS
  <2>1. ASSUME NEW c \in Clients, NEW x \in Inputs, Begin(c, x) PROVE Register!Next
    BY <2>1, BeginSim
  <2>2. ASSUME NEW c \in Clients, GetInstance(c) PROVE Register!Next
    BY <2>2, GetSim
  <2>3. ASSUME NEW c \in Clients, ValidateCreate(c)
        PROVE  Register!Next \/ UNCHANGED Register!vars
    BY <2>3, ValidateSim DEF Register!vars, AFields, ATask, AHeld, AAnswer
  <2>4. ASSUME NEW c \in Clients, CallFails(c) PROVE Register!Next
    BY <2>4, RefuseSim DEF CallFails
  <2>5. ASSUME NEW c \in Clients, NEW a \in Answers,
               PatchInstance(c, a) \/ DeleteInstance(c, a) \/ CreateInstance(c, a)
        PROVE  Register!Next
    BY <2>5, PatchSim, DeleteSim, CreateSim
  <2>6. CASE UNCHANGED vars
    <3>1. fields' = fields /\ call' = call /\ exists' = exists
      BY <2>6 DEF vars
    <3> QED
      BY <3>1 DEF Register!vars, Task, Held
  <2> QED
    BY <2>1, <2>2, <2>3, <2>4, <2>5, <2>6 DEF Next
<1> QED
  BY <1>1, <1>2, ShapeInit, ShapeStep, PTL DEF Spec, ImplementsRegister, Register!Spec

----------------------------------------------------------------------------
(* Flavors for creation. *)

\* A copy of the instance as it is now has its flavors for creation, and an
\* update that was checked against a copy leaves those alone.
CopiesKeepFlavors ==
    \A c \in Clients : call[c].pc = "patch" =>
        /\ call[c].life = lives /\ ~crossed =>
              FlavorsOf(call[c].copy[FlavorNames]) \cap CreationOnly = born
        /\ call[c].in.op = "UpdateInstance" =>
              SetOf(call[c].in.flavors) \cap CreationOnly =
                  FlavorsOf(call[c].copy[FlavorNames]) \cap CreationOnly

FlavorsInv == Shape /\ CreationFlavorsKept /\ CopiesKeepFlavors

\* Only the creation and the update of an instance are about its flavors.
LEMMA WantsFlavors ==
    ASSUME NEW x \in Inputs
    PROVE  /\ FlavorNames \in DOMAIN Wants(x) => x.op \in {"CreateInstance", "UpdateInstance"}
           /\ x.op \in {"CreateInstance", "UpdateInstance"} =>
                 /\ FlavorNames \in DOMAIN Wants(x)
                 /\ Wants(x)[FlavorNames] = SetOf(x.flavors)
                 /\ FlavorsOf(SetOf(x.flavors)) = SetOf(x.flavors)
<1>1. CASE x.op \in {"CreateInstance", "UpdateInstance"}
  <2>1. FlavorNames \in DOMAIN Wants(x) /\ Wants(x)[FlavorNames] = SetOf(x.flavors)
    <3>1. FlavorNames # Plan /\ FlavorNames \notin About /\ FlavorNames \notin PlanTemplate
      BY DEF FlavorNames, Plan, About, PlanTemplate
    <3>2. FlavorNames \in DOMAIN Wants(x)
      BY <1>1 DEF Wants
    <3> QED
      BY <1>1, <3>1, <3>2 DEF Wants
  <2>2. SetOf(x.flavors) # Absent
    BY <1>1, InputsAssumption
  <2> QED
    BY <1>1, <2>1, <2>2 DEF FlavorsOf
<1>2. CASE x.op = "SetMetadata"
  <2>1. DOMAIN Wants(x) = {<<"meta", k>> : k \in DOMAIN x.items}
    BY <1>2 DEF Wants
  <2> QED
    BY <1>2, <2>1 DEF FlavorNames
<1>3. CASE x.op = "UnsetMetadata"
  <2>1. DOMAIN Wants(x) = {<<"meta", k>> : k \in x.keys}
    BY <1>3 DEF Wants
  <2> QED
    BY <1>3, <2>1 DEF FlavorNames
<1>4. CASE x.op \in {"Start", "Stop"}
  BY <1>4 DEF Wants, Shutdown, FlavorNames
<1>5. CASE x.op \notin {"SetMetadata", "UnsetMetadata", "Start", "Stop", "CreateInstance",
                        "UpdateInstance"}
  BY <1>5 DEF Wants
<1> QED
  BY <1>1, <1>2, <1>3, <1>4, <1>5

\* What an update adds and removes is not for creation only.
LEMMA UpdateKeepsFlavors ==
    ASSUME NEW existing, NEW flavors, validateFlavors(FALSE, existing, flavors)
    PROVE  SetOf(flavors) \cap CreationOnly = existing \cap CreationOnly
BY DEF validateFlavors

\* The steps that leave the instance alone: a request that ends, begins, or
\* validates a creation has no copy to patch with.
LEMMA NoNewCopy ==
    ASSUME FlavorsInv, NEW c \in Clients, NEW q, call' = [call EXCEPT ![c] = q],
           q.pc # "patch", lives' = lives, born' = born, crossed => crossed'
    PROVE  CopiesKeepFlavors'
<1>1. call'[c] = q /\ \A d \in Clients : d # c => call'[d] = call[d]
  BY OneCall DEF FlavorsInv
<1> QED
  BY <1>1 DEF FlavorsInv, CopiesKeepFlavors

LEMMA FlavorsRefuse ==
    ASSUME FlavorsInv, NEW c \in Clients, Refuse(c)
    PROVE  CreationFlavorsKept' /\ CopiesKeepFlavors'
<1>1. call' = [call EXCEPT ![c] = Ended("error")] /\ Ended("error").pc # "patch"
  BY CallEnd DEF Refuse, Acknowledge, Ended
<1>2. UNCHANGED <<exists, fields, lives, born, crossed>>
  BY DEF Refuse
<1> QED
  BY <1>1, <1>2, NoNewCopy DEF FlavorsInv, CreationFlavorsKept

LEMMA FlavorsBegin ==
    ASSUME FlavorsInv, NEW c \in Clients, NEW x \in Inputs, Begin(c, x)
    PROVE  CreationFlavorsKept' /\ CopiesKeepFlavors'
<1>1. call' = [call EXCEPT ![c] = Began(x)] /\ Began(x).pc # "patch"
  BY CallBegin DEF Began
<1>2. UNCHANGED <<exists, fields, lives, born, crossed>>
  BY DEF Begin
<1> QED
  BY <1>1, <1>2, NoNewCopy DEF FlavorsInv, CreationFlavorsKept

\* A copy is read from an instance that has its flavors, and the update is
\* checked against it.
LEMMA FlavorsGet ==
    ASSUME FlavorsInv, NEW c \in Clients, GetInstance(c)
    PROVE  CreationFlavorsKept' /\ CopiesKeepFlavors'
<1> DEFINE x == call[c].in
           s == IF x.op = "DeleteInstance" THEN "delete" ELSE "patch"
           q == HasRead(c, s)
<1>0. Shape
  BY DEF FlavorsInv
<1>1. CASE exists /\ Accepts(fields, x)
  <2>1. call' = [call EXCEPT ![c] = q] /\ UNCHANGED <<exists, fields, lives, born, crossed>>
    BY <1>0, <1>1, CallRead DEF GetInstance, history
  <2>2. q.in = x /\ q.copy = fields /\ q.life = lives
    BY DEF HasRead
  <2>3. call'[c] = q /\ \A d \in Clients : d # c => call'[d] = call[d]
    BY <1>0, <2>1, OneCall
  <2>4. x.op = "UpdateInstance" =>
            SetOf(x.flavors) \cap CreationOnly = FlavorsOf(fields[FlavorNames]) \cap CreationOnly
    BY <1>1, UpdateKeepsFlavors DEF Accepts, validateUpdateInstanceArgs
  <2> HIDE DEF q
  <2> QED
    BY <1>1, <2>1, <2>2, <2>3, <2>4 DEF FlavorsInv, CopiesKeepFlavors, CreationFlavorsKept
<1>2. CASE ~(exists /\ Accepts(fields, x))
  BY <1>2, FlavorsRefuse DEF GetInstance
<1> QED
  BY <1>1, <1>2

LEMMA FlavorsValidate ==
    ASSUME FlavorsInv, NEW c \in Clients, ValidateCreate(c)
    PROVE  CreationFlavorsKept' /\ CopiesKeepFlavors'
<1>1. CASE validateCreate(call[c].in)
  <2> DEFINE q == [call[c] EXCEPT !.pc = "create"]
  <2>1. /\ call' = [call EXCEPT ![c] = q] /\ UNCHANGED <<exists, fields, lives, born, crossed>>
        /\ q.pc = "create"
    BY <1>1 DEF ValidateCreate, history, FlavorsInv, Shape, IsRecord
  <2> HIDE DEF q
  <2> QED
    BY <2>1, NoNewCopy DEF FlavorsInv, CreationFlavorsKept
<1>2. CASE ~validateCreate(call[c].in)
  BY <1>2, FlavorsRefuse DEF ValidateCreate
<1> QED
  BY <1>1, <1>2

\* A patch of this life of the instance leaves its flavors for creation alone,
\* and one of an earlier life crosses.
LEMMA FlavorsPatch ==
    ASSUME FlavorsInv, NEW c \in Clients, NEW a, PatchInstance(c, a)
    PROVE  CreationFlavorsKept' /\ CopiesKeepFlavors'
<1> DEFINE q == call[c]
<1>0. Shape /\ q.pc = "patch"
  BY DEF FlavorsInv, PatchInstance
<1>1. CASE exists
  <2>1. /\ fields' = Patched(fields, q.copy, Edited(q.copy, q.in))
        /\ crossed' = (crossed \/ q.life # lives)
        /\ UNCHANGED <<exists, lives, born>>
    BY <1>1 DEF PatchInstance
  <2>2. call' = [call EXCEPT ![c] = Ended(a)] /\ Ended(a).pc # "patch"
    BY <1>1, CallEnd DEF PatchInstance, Acknowledge, Ended
  <2>3. CopiesKeepFlavors'
    BY <2>1, <2>2, NoNewCopy
  <2>4. ASSUME ~crossed'
        PROVE  FlavorsOf(fields'[FlavorNames]) \cap CreationOnly = born
    <3>1. q.life = lives /\ ~crossed
      BY <2>1, <2>4
    <3>2. /\ q.in \in Inputs /\ q.copy = [f \in Fields |-> q.copy[f]]
          /\ q.in.op # "CreateInstance" /\ FlavorNames \in Plain
      BY <1>0 DEF Shape, Plain
    <3>3. \/ fields'[FlavorNames] = fields[FlavorNames]
          \/ /\ FlavorNames \in DOMAIN Wants(q.in)
             /\ fields'[FlavorNames] = Wants(q.in)[FlavorNames]
      BY <2>1, <3>2, PatchedPlain
    <3>4. CASE fields'[FlavorNames] = fields[FlavorNames]
      BY <1>1, <3>1, <3>4 DEF FlavorsInv, CreationFlavorsKept
    <3>5. CASE /\ FlavorNames \in DOMAIN Wants(q.in)
               /\ fields'[FlavorNames] = Wants(q.in)[FlavorNames]
      <4>1. /\ q.in.op = "UpdateInstance"
            /\ FlavorsOf(fields'[FlavorNames]) = SetOf(q.in.flavors)
        BY <3>2, <3>5, WantsFlavors
      <4> QED
        BY <1>0, <3>1, <4>1 DEF FlavorsInv, CopiesKeepFlavors
    <3> QED
      BY <3>3, <3>4, <3>5
  <2> QED
    BY <2>1, <2>3, <2>4 DEF CreationFlavorsKept
<1>2. CASE ~exists
  BY <1>2, FlavorsRefuse DEF PatchInstance
<1> QED
  BY <1>1, <1>2

LEMMA FlavorsDelete ==
    ASSUME FlavorsInv, NEW c \in Clients, NEW a, DeleteInstance(c, a)
    PROVE  CreationFlavorsKept' /\ CopiesKeepFlavors'
<1>1. CASE exists
  <2>1. call' = [call EXCEPT ![c] = Ended(a)] /\ Ended(a).pc # "patch"
    BY <1>1, CallEnd DEF DeleteInstance, Acknowledge, Ended
  <2>2. exists' = FALSE /\ UNCHANGED <<lives, born, crossed>>
    BY <1>1 DEF DeleteInstance
  <2> QED
    BY <2>1, <2>2, NoNewCopy DEF CreationFlavorsKept
<1>2. CASE ~exists
  BY <1>2, FlavorsRefuse DEF DeleteInstance
<1> QED
  BY <1>1, <1>2

\* All copies are of earlier lives when an instance is created.
LEMMA FlavorsCreate ==
    ASSUME FlavorsInv, NEW c \in Clients, NEW a, CreateInstance(c, a)
    PROVE  CreationFlavorsKept' /\ CopiesKeepFlavors'
<1> DEFINE x == call[c].in
<1>0. Shape /\ call[c].pc = "create" /\ x \in Inputs /\ FlavorNames \in Fields
  BY DEF FlavorsInv, CreateInstance, Shape, Fields, Plain
<1>1. CASE ~exists
  <2>1. /\ fields' = Assigned(Blank, x)
        /\ lives' = lives + 1 /\ born' = SetOf(x.flavors) \cap CreationOnly
    BY <1>1 DEF CreateInstance
  <2>2. call' = [call EXCEPT ![c] = Ended(a)] /\ Ended(a).pc # "patch"
    BY <1>1, CallEnd DEF CreateInstance, Acknowledge, Ended
  <2>3. call'[c] = Ended(a) /\ \A d \in Clients : d # c => call'[d] = call[d]
    BY <1>0, <2>2, OneCall
  <2>4. CopiesKeepFlavors'
    <3>1. ASSUME NEW d \in Clients, call'[d].pc = "patch"
          PROVE  /\ call'[d] = call[d] /\ call[d].pc = "patch" /\ call'[d].life # lives'
      <4>1. call'[d] = call[d] /\ call[d].pc = "patch"
        BY <2>2, <2>3, <3>1
      <4>2. lives \in Nat /\ call[d].life \in Nat /\ call[d].life <= lives
        BY <1>0, <4>1 DEF Shape
      <4> QED
        BY <2>1, <4>1, <4>2
    <3> QED
      BY <3>1 DEF FlavorsInv, CopiesKeepFlavors
  <2>5. FlavorsOf(fields'[FlavorNames]) = SetOf(x.flavors)
    <3>1. x.op = "CreateInstance"
      BY <1>0 DEF Shape
    <3> QED
      BY <1>0, <2>1, <3>1, WantsFlavors DEF Assigned
  <2> QED
    BY <2>1, <2>4, <2>5 DEF CreationFlavorsKept
<1>2. CASE exists
  BY <1>2, FlavorsRefuse DEF CreateInstance
<1> QED
  BY <1>1, <1>2

\* An instance keeps the flavors for creation that it was created with, and gets
\* no other, as long as no edit of an earlier instance of its name is applied to
\* it: updates are checked against a copy, but no other request changes these.
THEOREM CreationFlavorsKeptAlways == Spec => []CreationFlavorsKept
<1>1. Init => FlavorsInv
  <2>1. Init => CreationFlavorsKept /\ CopiesKeepFlavors
    BY DEF Init, CreationFlavorsKept, CopiesKeepFlavors, Idle
  <2> QED
    BY <2>1, ShapeInit DEF FlavorsInv
<1>2. FlavorsInv /\ [Next]_vars => FlavorsInv'
  <2> SUFFICES ASSUME FlavorsInv, [Next]_vars
               PROVE  CreationFlavorsKept' /\ CopiesKeepFlavors'
    BY ShapeStep DEF FlavorsInv
  <2>1. ASSUME NEW c \in Clients, NEW x \in Inputs, Begin(c, x)
        PROVE  CreationFlavorsKept' /\ CopiesKeepFlavors'
    BY <2>1, FlavorsBegin
  <2>2. ASSUME NEW c \in Clients, GetInstance(c)
        PROVE  CreationFlavorsKept' /\ CopiesKeepFlavors'
    BY <2>2, FlavorsGet
  <2>3. ASSUME NEW c \in Clients, ValidateCreate(c)
        PROVE  CreationFlavorsKept' /\ CopiesKeepFlavors'
    BY <2>3, FlavorsValidate
  <2>4. ASSUME NEW c \in Clients, CallFails(c)
        PROVE  CreationFlavorsKept' /\ CopiesKeepFlavors'
    BY <2>4, FlavorsRefuse DEF CallFails
  <2>5. ASSUME NEW c \in Clients, NEW a \in Answers,
               PatchInstance(c, a) \/ DeleteInstance(c, a) \/ CreateInstance(c, a)
        PROVE  CreationFlavorsKept' /\ CopiesKeepFlavors'
    BY <2>5, FlavorsPatch, FlavorsDelete, FlavorsCreate
  <2>6. CASE UNCHANGED vars
    BY <2>6 DEF vars, history, FlavorsInv, CreationFlavorsKept, CopiesKeepFlavors
  <2> QED
    BY <2>1, <2>2, <2>3, <2>4, <2>5, <2>6 DEF Next
<1>3. FlavorsInv => CreationFlavorsKept
  BY DEF FlavorsInv
<1> QED
  BY <1>1, <1>2, <1>3, PTL DEF Spec

----------------------------------------------------------------------------
(* Acknowledged edits of lists and blocks. *)

Entries == {ValueOf(x) : x \in {y \in Inputs : Tracked(y)}}

\* Each key of a list has one entry.
Keyed(list) ==
    /\ list \in Seq(Entries)
    /\ \A i, j \in DOMAIN list : list[i].key = list[j].key => i = j

ValueAt(list, key) ==
    IF IndexOf(list, key) = {} THEN Absent
    ELSE list[CHOOSE i \in IndexOf(list, key) : TRUE].value
ValueIn(fs, unit, key) == IF unit \notin Lists THEN fs[unit] ELSE ValueAt(fs[unit], key)

Units == Lists \cup Blocks

\* A copy was accepted as it is.
CopiesAccepted ==
    \A c \in Clients :
        /\ call[c].pc = "patch" =>
              /\ Accepts(call[c].copy, call[c].in)
              /\ call[c].in.op \notin {"CreateInstance", "DeleteInstance"}
              /\ \A l \in Lists : Keyed(call[c].copy[l])
        /\ call[c].pc = "delete" => call[c].in.op = "DeleteInstance"

KeyedLists == \A l \in Lists : Keyed(fields[l])

\* A request that has met no rival has none, and what it edits is as it read it.
CleanAlone ==
    /\ clean \subseteq Busy
    /\ \A c \in clean, d \in Busy : d # c => ~Rival(call[c].in, call[d].in)
CleanCurrent ==
    \A c \in clean : call[c].pc = "patch" /\ Tracked(call[c].in) =>
        exists /\ fields[Unit(call[c].in)] = call[c].copy[Unit(call[c].in)]

\* What was acknowledged is of this instance, and no request in flight will
\* undo it: the requests that write it with others have read it.
FactsKnown ==
    \A a \in acked : \E x \in Inputs : Tracked(x) /\ Unit(x) \in Units /\ a = Fact(x)
FactsAlive ==
    acked # {} => exists /\ \A c \in Busy : Unit(call[c].in) # <<"instance", "all">>
Writes(x, unit) ==
    \/ Unit(x) = unit
    \/ x.op = "DeleteBlock" /\ Unit(x) \in Blocks /\ unit \in Blocks
FactsHeld ==
    \A a \in acked, c \in Busy :
        /\ Tracked(call[c].in) => <<a.unit, a.key>> # <<Unit(call[c].in), call[c].in.key>>
        /\ call[c].pc = "patch" /\ Writes(call[c].in, a.unit) =>
              ValueIn(call[c].copy, a.unit, a.key) = a.value

Kept ==
    /\ CopiesAccepted /\ KeyedLists
    /\ CleanAlone /\ CleanCurrent
    /\ FactsKnown /\ FactsAlive /\ FactsHeld
    /\ AckedEditKept
EditsInv == Shape /\ Kept

----------------------------------------------------------------------------
(* Lists with keys. *)

LEMMA OfList ==
    ASSUME NEW list, Keyed(list)
    PROVE  /\ list \in Seq(Entries) /\ DOMAIN list = 1..Len(list) /\ Len(list) \in Nat
           /\ \A i \in DOMAIN list : list[i] \in Entries
BY DEF Keyed

LEMMA TheIndex ==
    ASSUME NEW list, Keyed(list), NEW key
    PROVE  /\ IndexOf(list, key) = {i \in DOMAIN list : list[i].key = key}
           /\ \A i \in IndexOf(list, key) : IndexOf(list, key) = {i}
<1>1. DOMAIN list \subseteq Nat
  BY OfList
<1>2. \A i, j \in DOMAIN list : list[i].key = list[j].key => i = j
  BY DEF Keyed
<1>3. \A i \in Nat : i <= i
  OBVIOUS
<1> QED
  BY <1>1, <1>2, <1>3 DEF IndexOf

\* The value of a key is the one of the entry with that key.
LEMMA TheValue ==
    ASSUME NEW list, Keyed(list), NEW key
    PROVE  /\ \A x \in SetOf(list) : x.key = key => ValueAt(list, key) = x.value
           /\ (\A x \in SetOf(list) : x.key # key) => ValueAt(list, key) = Absent
<1>1. ASSUME NEW x \in SetOf(list), x.key = key
      PROVE  ValueAt(list, key) = x.value
  <2>1. PICK i \in DOMAIN list : list[i] = x
    BY DEF SetOf
  <2>2. IndexOf(list, key) = {i}
    BY <1>1, <2>1, TheIndex
  <2> QED
    BY <2>1, <2>2 DEF ValueAt
<1>2. ASSUME \A x \in SetOf(list) : x.key # key
      PROVE  ValueAt(list, key) = Absent
  <2>1. IndexOf(list, key) = {}
    BY <1>2, TheIndex DEF SetOf
  <2> QED
    BY <2>1 DEF ValueAt
<1> QED
  BY <1>1, <1>2

LEMMA SameValue ==
    ASSUME NEW list, Keyed(list), NEW other, Keyed(other), NEW key,
           \A x : x.key = key => (x \in SetOf(list) <=> x \in SetOf(other))
    PROVE  ValueAt(list, key) = ValueAt(other, key)
<1>1. CASE \E x \in SetOf(list) : x.key = key
  <2>1. PICK x \in SetOf(list) : x.key = key
    BY <1>1
  <2> QED
    BY <2>1, TheValue
<1>2. CASE \A x \in SetOf(list) : x.key # key
  <2>1. \A x \in SetOf(other) : x.key # key
    BY <1>2
  <2> QED
    BY <1>2, <2>1, TheValue
<1> QED
  BY <1>1, <1>2

LEMMA ReplacedList ==
    ASSUME NEW list, Keyed(list), NEW e \in Entries
    PROVE  /\ Keyed(Replaced(list, e))
           /\ \A x : x \in SetOf(Replaced(list, e)) <=>
                      x = e \/ (x \in SetOf(list) /\ x.key # e.key)
<1> DEFINE new == Replaced(list, e)
           at == IndexOf(list, e.key)
<1>1. /\ list \in Seq(Entries) /\ DOMAIN list = 1..Len(list) /\ Len(list) \in Nat
      /\ \A i \in DOMAIN list : list[i] \in Entries
  BY OfList
<1>2. at = {i \in DOMAIN list : list[i].key = e.key} /\ \A i \in at : at = {i}
  BY TheIndex
<1>3. \A i, j \in DOMAIN list : list[i].key = list[j].key => i = j
  BY DEF Keyed
<1>4. CASE at = {}
  <2>1. new = Append(list, e)
    BY <1>4 DEF Replaced
  <2> HIDE DEF new
  <2>2. /\ new \in Seq(Entries) /\ Len(new) = Len(list) + 1
        /\ \A i \in 1..Len(list) : new[i] = list[i]
        /\ new[Len(list) + 1] = e
    BY <1>1, <2>1
  <2>3. DOMAIN new = 1..Len(list) + 1
    BY <2>2
  <2>4. \A i \in DOMAIN new : i \in DOMAIN list \/ i = Len(list) + 1
    BY <1>1, <2>3
  <2>5. \A i \in DOMAIN list : list[i].key # e.key /\ i \in DOMAIN new /\ new[i] = list[i]
    BY <1>1, <1>2, <1>4, <2>2, <2>3
  <2>6. Len(list) + 1 \in DOMAIN new
    BY <1>1, <2>3
  <2>7. \A i, j \in DOMAIN new : new[i].key = new[j].key => i = j
    BY <1>3, <2>2, <2>4, <2>5
  <2>8. \A x : x \in SetOf(new) <=> x = e \/ (x \in SetOf(list) /\ x.key # e.key)
    BY <2>2, <2>4, <2>5, <2>6 DEF SetOf
  <2> QED
    BY <2>2, <2>7, <2>8 DEF Keyed, new
<1>5. CASE at # {}
  <2>1. new = [i \in DOMAIN list |-> IF i \in at THEN e ELSE list[i]]
    BY <1>5 DEF Replaced
  <2>2. PICK k \in DOMAIN list : list[k].key = e.key /\ at = {k}
    BY <1>2, <1>5
  <2> HIDE DEF new, at
  <2>3. DOMAIN new = DOMAIN list /\ new[k] = e /\ \A i \in DOMAIN list : i # k => new[i] = list[i]
    BY <2>1, <2>2
  <2>4. new \in Seq(Entries)
    BY <1>1, <2>1
  <2>5. \A i \in DOMAIN list : i # k => list[i].key # e.key
    BY <1>3, <2>2
  <2>6. \A i, j \in DOMAIN new : new[i].key = new[j].key => i = j
    BY <1>3, <2>3, <2>5
  <2>7. \A x : x \in SetOf(new) <=> x = e \/ (x \in SetOf(list) /\ x.key # e.key)
    BY <2>2, <2>3, <2>5 DEF SetOf
  <2> QED
    BY <2>4, <2>6, <2>7 DEF Keyed, new
<1> QED
  BY <1>4, <1>5

LEMMA RemovedList ==
    ASSUME NEW list, Keyed(list), NEW key, IndexOf(list, key) # {}
    PROVE  /\ Keyed(Removed(list, key))
           /\ \A x : x \in SetOf(Removed(list, key)) <=> x \in SetOf(list) /\ x.key # key
<1> DEFINE new == Removed(list, key)
<1>1. /\ list \in Seq(Entries) /\ DOMAIN list = 1..Len(list) /\ Len(list) \in Nat
      /\ \A i \in DOMAIN list : list[i] \in Entries
  BY OfList
<1>2. PICK k \in DOMAIN list : list[k].key = key /\ IndexOf(list, key) = {k}
  BY TheIndex
<1>3. \A i, j \in DOMAIN list : list[i].key = list[j].key => i = j
  BY DEF Keyed
<1>4. new = [i \in 1 .. Len(list) - 1 |-> IF k <= i THEN list[i + 1] ELSE list[i]]
  BY <1>2 DEF Removed
<1> HIDE DEF new
<1>5. /\ k \in Nat /\ Len(list) >= 1
      /\ \A i \in 1 .. Len(list) - 1 : i \in DOMAIN list /\ i + 1 \in DOMAIN list
  BY <1>1
<1>6. \A i \in 1 .. Len(list) - 1 : new[i] = IF k <= i THEN list[i + 1] ELSE list[i]
  BY <1>4
<1>7. new \in Seq(Entries) /\ DOMAIN new = 1 .. Len(list) - 1
  BY <1>1, <1>4, <1>5
<1>8. \A i, j \in DOMAIN new : new[i].key = new[j].key => i = j
  <2> SUFFICES ASSUME NEW i \in DOMAIN new, NEW j \in DOMAIN new, new[i].key = new[j].key
               PROVE  i = j
    OBVIOUS
  <2>1. i \in Nat /\ j \in Nat
    BY <1>1, <1>7
  <2>2. CASE k <= i /\ k <= j
    <3>1. new[i] = list[i + 1] /\ new[j] = list[j + 1] /\ i + 1 \in DOMAIN list /\ j + 1 \in DOMAIN list
      BY <1>5, <1>6, <1>7, <2>2
    <3>2. i + 1 = j + 1
      BY <1>3, <3>1
    <3> QED
      BY <2>1, <3>2
  <2>3. CASE k <= i /\ ~(k <= j)
    <3>1. i + 1 = j
      BY <1>3, <1>5, <1>6, <1>7, <2>3
    <3> QED
      BY <1>5, <2>1, <2>3, <3>1
  <2>4. CASE ~(k <= i) /\ k <= j
    <3>1. i = j + 1
      BY <1>3, <1>5, <1>6, <1>7, <2>4
    <3> QED
      BY <1>5, <2>1, <2>4, <3>1
  <2>5. CASE ~(k <= i) /\ ~(k <= j)
    BY <1>3, <1>5, <1>6, <1>7, <2>5
  <2> QED
    BY <2>2, <2>3, <2>4, <2>5
<1>9. ASSUME NEW x \in SetOf(new)
      PROVE  x \in SetOf(list) /\ x.key # key
  <2>1. PICK i \in DOMAIN new : x = new[i]
    BY <1>9 DEF SetOf
  <2>2. PICK j \in DOMAIN list : x = list[j] /\ j # k
    <3>1. i \in Nat
      BY <1>1, <1>7
    <3>2. CASE k <= i
      <4>1. x = list[i + 1] /\ i + 1 \in DOMAIN list /\ i + 1 # k
        BY <1>5, <1>6, <1>7, <2>1, <3>1, <3>2
      <4> QED
        BY <4>1
    <3>3. CASE ~(k <= i)
      <4>1. x = list[i] /\ i \in DOMAIN list /\ i # k
        BY <1>5, <1>6, <1>7, <2>1, <3>1, <3>3
      <4> QED
        BY <4>1
    <3> QED
      BY <3>2, <3>3
  <2> QED
    BY <1>2, <1>3, <2>2 DEF SetOf
<1>10. ASSUME NEW x \in SetOf(list), x.key # key
       PROVE  x \in SetOf(new)
  <2>1. PICK j \in DOMAIN list : x = list[j]
    BY DEF SetOf
  <2>2. j # k /\ j \in Nat /\ 1 <= j /\ j <= Len(list) /\ 1 <= k /\ k <= Len(list)
    BY <1>1, <1>2, <1>10, <2>1
  <2>3. CASE j < k
    <3>1. j \in 1 .. Len(list) - 1 /\ ~(k <= j)
      BY <1>1, <1>5, <2>2, <2>3
    <3> QED
      BY <1>6, <1>7, <2>1, <3>1 DEF SetOf
  <2>4. CASE j > k
    <3>1. j - 1 \in 1 .. Len(list) - 1 /\ k <= j - 1 /\ (j - 1) + 1 = j
      BY <1>1, <1>5, <2>2, <2>4
    <3>2. new[j - 1] = x /\ j - 1 \in DOMAIN new
      BY <1>6, <1>7, <2>1, <3>1
    <3> QED
      BY <3>2 DEF SetOf
  <2> QED
    BY <1>5, <2>2, <2>3, <2>4
<1> QED
  BY <1>7, <1>8, <1>9, <1>10 DEF Keyed, new

----------------------------------------------------------------------------
(* What requests do to lists and blocks. *)

LEMMA UnitKinds ==
    /\ Units \subseteq Fields /\ Units \cap Plain = {} /\ Units \cap PlanTemplate = {}
    /\ \A u \in Lists : u \notin Blocks /\ u[1] = "list"
    /\ \A u \in Blocks : u[1] = "block"
    /\ Locations \in Lists /\ ServerBlocks \in Lists /\ Locations # ServerBlocks
    /\ \A t \in BlockTypes : <<"block", t>> \in Blocks
    /\ \A u \in Units : u # <<"instance", "all">> /\ u # <<"other", "none">>
BY DEF Units, Fields, Plain, Metadata, PlanTemplate, Plan, FlavorNames, About, Shutdown,
       Lists, Blocks, Locations, ServerBlocks

IsEdit(x) == x.op \in {"UpdateRoute", "DeleteRoute", "UpdateBlock", "DeleteBlock"}

LEMMA UnitOf ==
    ASSUME NEW x
    PROVE  /\ x.op \in {"UpdateRoute", "DeleteRoute"} => Unit(x) = Locations
           /\ x.op \in {"UpdateBlock", "DeleteBlock"} /\ x.server # None => Unit(x) = ServerBlocks
           /\ x.op \in {"UpdateBlock", "DeleteBlock"} /\ x.server = None =>
                 Unit(x) = <<"block", x.type>>
           /\ ~IsEdit(x) => Unit(x) \in {<<"instance", "all">>, <<"other", "none">>}
           /\ Tracked(x) <=> IsEdit(x)
<1>1. CASE x.op \in {"UpdateRoute", "DeleteRoute"}
  BY <1>1 DEF Unit, Tracked, IsEdit, Locations
<1>2. CASE x.op \in {"UpdateBlock", "DeleteBlock"} /\ x.server # None
  BY <1>2 DEF Unit, Tracked, IsEdit, ServerBlocks
<1>3. CASE x.op \in {"UpdateBlock", "DeleteBlock"} /\ x.server = None
  BY <1>3 DEF Unit, Tracked, IsEdit
<1>4. CASE x.op \in {"CreateInstance", "DeleteInstance"}
  BY <1>4 DEF Unit, Tracked, IsEdit
<1>5. CASE ~IsEdit(x) /\ x.op \notin {"CreateInstance", "DeleteInstance"}
  BY <1>5 DEF Unit, Tracked, IsEdit
<1> QED
  BY <1>1, <1>2, <1>3, <1>4, <1>5 DEF IsEdit

\* What is promised of an edit of a copy, where it edits it and elsewhere.
Edit(copy, x, new) ==
    /\ \A v \in Units : v # Unit(x) => new[v] = copy[v]
    /\ Tracked(x) => Unit(x) \in Units /\ ValueIn(new, Unit(x), x.key) = Fact(x).value
    /\ Unit(x) \in Lists => /\ Keyed(new[Unit(x)])
                            /\ \A k : k # x.key => ValueAt(new[Unit(x)], k) =
                                                       ValueAt(copy[Unit(x)], k)
    /\ Unit(x) \in Blocks /\ x.op # "DeleteBlock" => new[Unit(x)] # Absent

LEMMA ListReplaced ==
    ASSUME NEW list, Keyed(list), NEW x \in Inputs, Tracked(x)
    PROVE  LET new == Replaced(list, ValueOf(x)) IN
           /\ Keyed(new) /\ ValueAt(new, x.key) = x.value
           /\ \A k : k # x.key => ValueAt(new, k) = ValueAt(list, k)
<1> DEFINE e == ValueOf(x)
           new == Replaced(list, e)
<1>1. e \in Entries /\ e.key = x.key /\ e.value = x.value
  BY DEF Entries, ValueOf
<1> HIDE DEF e
<1>2. Keyed(new) /\ \A y : y \in SetOf(new) <=> y = e \/ (y \in SetOf(list) /\ y.key # e.key)
  BY <1>1, ReplacedList
<1> HIDE DEF new
<1>3. ValueAt(new, x.key) = x.value
  BY <1>1, <1>2, TheValue
<1>4. ASSUME NEW k, k # x.key
      PROVE  ValueAt(new, k) = ValueAt(list, k)
  <2>1. \A y : y.key = k => (y \in SetOf(new) <=> y \in SetOf(list))
    BY <1>1, <1>2, <1>4
  <2> QED
    BY <1>2, <2>1, SameValue
<1> QED
  BY <1>2, <1>3, <1>4 DEF new, e

LEMMA ListRemoved ==
    ASSUME NEW list, Keyed(list), NEW key, IndexOf(list, key) # {}
    PROVE  LET new == Removed(list, key) IN
           /\ Keyed(new) /\ ValueAt(new, key) = Absent
           /\ \A k : k # key => ValueAt(new, k) = ValueAt(list, k)
<1> DEFINE new == Removed(list, key)
<1>1. Keyed(new) /\ \A y : y \in SetOf(new) <=> y \in SetOf(list) /\ y.key # key
  BY RemovedList
<1> HIDE DEF new
<1>2. ValueAt(new, key) = Absent
  BY <1>1, TheValue
<1>3. ASSUME NEW k, k # key
      PROVE  ValueAt(new, k) = ValueAt(list, k)
  <2>1. \A y : y.key = k => (y \in SetOf(new) <=> y \in SetOf(list))
    BY <1>1, <1>3
  <2> QED
    BY <1>1, <2>1, SameValue
<1> QED
  BY <1>1, <1>2, <1>3 DEF new

LEMMA EditedUnit ==
    ASSUME NEW x \in Inputs, NEW copy, copy = [f \in Fields |-> copy[f]],
           Accepts(copy, x), \A l \in Lists : Keyed(copy[l])
    PROVE  Edit(copy, x, Edited(copy, x))
<1> DEFINE new == Edited(copy, x)
           u == Unit(x)
<1>1. CASE IsEdit(x) /\ u \in Lists
  <2> DEFINE list == IF x.op \in {"UpdateRoute", "UpdateBlock"}
                     THEN Replaced(copy[u], ValueOf(x)) ELSE Removed(copy[u], x.key)
  <2>1. \/ x.op \in {"UpdateRoute", "DeleteRoute"} /\ u = Locations
        \/ x.op \in {"UpdateBlock", "DeleteBlock"} /\ x.server # None /\ u = ServerBlocks
    BY <1>1, UnitOf, UnitKinds DEF IsEdit
  <2>2. new = [copy EXCEPT ![u] = list]
    BY <2>1 DEF Edited, UpdateRoute, DeleteRoute, UpdateBlock, DeleteBlock
  <2>3. x.op \in {"DeleteRoute", "DeleteBlock"} => IndexOf(copy[u], x.key) # {}
    BY <2>1 DEF Accepts
  <2>4. Tracked(x) /\ Keyed(copy[u]) /\ u \in Units
    BY <1>1, UnitOf DEF Units
  <2>5. /\ Keyed(list) /\ ValueAt(list, x.key) = Fact(x).value
        /\ \A k : k # x.key => ValueAt(list, k) = ValueAt(copy[u], k)
    <3>1. CASE x.op \in {"UpdateRoute", "UpdateBlock"}
      <4>1. Fact(x).value = x.value
        BY <3>1 DEF Fact
      <4> QED
        BY <2>4, <3>1, <4>1, ListReplaced
    <3>2. CASE x.op \in {"DeleteRoute", "DeleteBlock"}
      <4>1. Fact(x).value = Absent
        BY <3>2 DEF Fact
      <4> QED
        BY <2>3, <2>4, <3>2, <4>1, ListRemoved
    <3> QED
      BY <1>1, <3>1, <3>2 DEF IsEdit
  <2> HIDE DEF list, new, u
  <2>6. new[u] = list /\ \A v \in Units : v # u => new[v] = copy[v]
    BY <2>2, <2>4, UnitKinds
  <2>7. u \in Lists /\ u \notin Blocks
    BY <1>1, UnitKinds
  <2>8. ValueIn(new, u, x.key) = Fact(x).value
    BY <2>5, <2>6, <2>7 DEF ValueIn
  <2> QED
    BY <2>4, <2>5, <2>6, <2>7, <2>8 DEF Edit, u, new
<1>2. CASE IsEdit(x) /\ u \notin Lists
  <2>1. x.op \in {"UpdateBlock", "DeleteBlock"} /\ x.server = None /\ u = <<"block", x.type>>
    BY <1>2, UnitOf, UnitKinds DEF IsEdit
  <2>2. x.type \in BlockTypes
    BY <2>1 DEF Accepts, validateBlock
  <2>3. u \in Blocks /\ u \in Units /\ u[1] = "block"
    BY <2>1, <2>2, UnitKinds DEF Units
  <2>4. Fact(x).value = IF x.op = "UpdateBlock" THEN x.value ELSE Absent
    BY <2>1 DEF Fact
  <2>5. new = [copy EXCEPT ![u] = Fact(x).value]
    BY <2>1, <2>4 DEF Edited, UpdateBlock, DeleteBlock
  <2>6. new[u] = Fact(x).value /\ \A v \in Units : v # u => new[v] = copy[v]
    BY <2>3, <2>5, UnitKinds
  <2>7. x.op # "DeleteBlock" => new[u] # Absent
    BY <2>1, <2>3, <2>4, <2>6, BlocksAssumption
  <2>8. ValueIn(new, u, x.key) = Fact(x).value
    BY <1>2, <2>6 DEF ValueIn
  <2> QED
    BY <1>2, <2>3, <2>6, <2>7, <2>8 DEF Edit
<1>3. CASE ~IsEdit(x)
  <2>1. ~Tracked(x) /\ u \notin Units
    BY <1>3, UnitOf, UnitKinds
  <2>2. new = Assigned(copy, x)
    BY <1>3 DEF Edited, IsEdit
  <2>3. \A v \in Units : new[v] = copy[v]
    BY <2>2, WantsPlain, UnitKinds DEF Assigned
  <2> QED
    BY <2>1, <2>3 DEF Edit, Units
<1> QED
  BY <1>1, <1>2, <1>3

\* A patch is about what its request edits, unless the deletion of a block
\* leaves none.
LEMMA PatchedUnit ==
    ASSUME NEW x \in Inputs, NEW stored, NEW copy, NEW new, Edit(copy, x, new)
    PROVE  LET p == Patched(stored, copy, new) IN
           /\ \A v \in Units : v # Unit(x) =>
                 \/ p[v] = stored[v]
                 \/ Writes(x, v) /\ v \in Blocks /\ copy[v] = Absent /\ p[v] = Absent
           /\ Unit(x) \in Units =>
                 \/ p[Unit(x)] = new[Unit(x)]
                 \/ p[Unit(x)] = stored[Unit(x)] /\ copy[Unit(x)] = new[Unit(x)]
<1> DEFINE p == Patched(stored, copy, new)
           Cleared(v) == /\ v \in Blocks
                         /\ \E g \in Blocks : copy[g] # Absent
                         /\ \A g \in Blocks : new[g] = Absent
<1>1. ASSUME NEW v \in Units
      PROVE  p[v] = IF copy[v] # new[v] \/ Cleared(v) THEN new[v] ELSE stored[v]
  <2>1. v \in Fields /\ v \notin PlanTemplate
    BY UnitKinds
  <2>2. v \in Blocks => Siblings(v) = Blocks
    BY DEF Siblings
  <2>3. p[v] = IF \/ copy[v] # new[v]
                  \/ /\ v \in Blocks \cup PlanTemplate
                     /\ \E g \in Siblings(v) : copy[g] # Absent
                     /\ \A g \in Siblings(v) : new[g] = Absent
               THEN new[v] ELSE stored[v]
    BY <2>1 DEF Patched
  <2> QED
    BY <2>1, <2>2, <2>3
<1> HIDE DEF p
<1>2. ASSUME NEW v \in Units, v # Unit(x), p[v] # stored[v]
      PROVE  Writes(x, v) /\ v \in Blocks /\ copy[v] = Absent /\ p[v] = Absent
  <2>1. copy[v] = new[v]
    BY <1>2 DEF Edit
  <2>2. Cleared(v) /\ p[v] = new[v]
    BY <1>1, <1>2, <2>1
  <2>3. PICK g \in Blocks : copy[g] # Absent /\ new[g] = Absent
    BY <2>2
  <2>4. g = Unit(x)
    BY <2>3 DEF Edit, Units
  <2>5. x.op = "DeleteBlock"
    BY <2>3, <2>4 DEF Edit
  <2> QED
    BY <2>1, <2>2, <2>3, <2>4, <2>5 DEF Writes
<1>3. ASSUME Unit(x) \in Units, p[Unit(x)] # new[Unit(x)]
      PROVE  p[Unit(x)] = stored[Unit(x)] /\ copy[Unit(x)] = new[Unit(x)]
  BY <1>1, <1>3
<1> QED
  BY <1>2, <1>3 DEF p

----------------------------------------------------------------------------
(* The steps keep what was acknowledged. *)

\* A request has no say in what one that is not its rival edits.
LEMMA Apart ==
    ASSUME NEW x, NEW y, ~Rival(x, y), Unit(x) \in Units
    PROVE  /\ Unit(y) # Unit(x) /\ ~Writes(y, Unit(x)) /\ ~Writes(x, Unit(y))
           /\ Unit(y) # <<"instance", "all">>
<1>1. Unit(x) # <<"other", "none">>
  BY UnitKinds
<1>2. Unit(x) \in Blocks /\ Unit(y) \in Blocks =>
         Unit(x)[1] = "block" /\ Unit(y)[1] = "block"
  BY UnitKinds
<1> QED
  BY <1>1, <1>2 DEF Rival, Writes

LEMMA Stored ==
    AckedEditKept <=> \A a \in acked : exists => ValueIn(fields, a.unit, a.key) = a.value
BY DEF AckedEditKept, StoredValue, ValueIn, ValueAt

LEMMA StoredSame ==
    ASSUME AckedEditKept, UNCHANGED <<exists, fields, acked>>
    PROVE  AckedEditKept'
BY DEF AckedEditKept, StoredValue

LEMMA NowIdle ==
    ASSUME Shape, NEW c \in Clients, NEW a, End(c, a)
    PROVE  /\ call'[c].pc = "idle" /\ \A d \in Clients : d # c => call'[d] = call[d]
           /\ Busy' = Busy \ {c}
<1>1. call' = [call EXCEPT ![c] = Ended(a)] /\ Ended(a).pc = "idle"
  BY CallEnd DEF Ended
<1>2. call'[c] = Ended(a) /\ \A d \in Clients : d # c => call'[d] = call[d]
  BY <1>1, OneCall
<1> QED
  BY <1>1, <1>2 DEF Busy

\* What is true of the other requests stays so, if one ends and nothing was
\* acknowledged.
LEMMA KeptEnd ==
    ASSUME EditsInv, NEW c \in Clients, NEW a, End(c, a), clean' = clean \ {c}
    PROVE  CopiesAccepted' /\ CleanAlone'
<1>1. /\ call'[c].pc = "idle" /\ \A d \in Clients : d # c => call'[d] = call[d]
      /\ Busy' = Busy \ {c}
  BY NowIdle DEF EditsInv
<1>2. CopiesAccepted'
  BY <1>1 DEF EditsInv, Kept, CopiesAccepted
<1>3. CleanAlone'
  <2>1. Busy \subseteq Clients
    BY DEF Busy
  <2> QED
    BY <1>1, <2>1 DEF EditsInv, Kept, CleanAlone
<1> QED
  BY <1>2, <1>3

LEMMA KeptRefuse ==
    ASSUME EditsInv, NEW c \in Clients, Refuse(c)
    PROVE  Kept'
<1>1. /\ End(c, "error") /\ clean' = clean \ {c} /\ acked' = acked
      /\ UNCHANGED <<exists, fields>>
  BY DEF Refuse, Acknowledge
<1>2. /\ \A d \in Clients : d # c => call'[d] = call[d]
      /\ Busy' = Busy \ {c} /\ Busy \subseteq Clients
  BY <1>1, NowIdle DEF EditsInv, Busy
<1>3. CopiesAccepted' /\ CleanAlone'
  BY <1>1, KeptEnd
<1>4. KeyedLists' /\ FactsKnown' /\ AckedEditKept'
  BY <1>1 DEF EditsInv, Kept, KeyedLists, FactsKnown, AckedEditKept, StoredValue
<1>5. CleanCurrent'
  BY <1>1, <1>2 DEF EditsInv, Kept, CleanCurrent, CleanAlone
<1>6. FactsAlive' /\ FactsHeld'
  BY <1>1, <1>2 DEF EditsInv, Kept, FactsAlive, FactsHeld
<1> QED
  BY <1>3, <1>4, <1>5, <1>6 DEF Kept

LEMMA KeptBegin ==
    ASSUME EditsInv, NEW c \in Clients, NEW x \in Inputs, Begin(c, x)
    PROVE  Kept'
<1> DEFINE rivals == {d \in Busy : Rival(x, call[d].in)}
<1>1. /\ call[c].pc = "idle" /\ call' = [call EXCEPT ![c] = Began(x)]
      /\ clean' = (clean \ rivals) \cup (IF rivals = {} THEN {c} ELSE {})
      /\ acked' = {a \in acked : /\ <<"instance", "all">> # Unit(x)
                                 /\ Tracked(x) => <<a.unit, a.key>> # <<Unit(x), x.key>>}
      /\ UNCHANGED <<exists, fields>>
  BY CallBegin DEF Begin
<1>2. /\ call'[c].pc = "read" /\ call'[c].in = x
      /\ \A d \in Clients : d # c => call'[d] = call[d]
  BY <1>1, OneCall DEF EditsInv, Began
<1>3. Busy' = Busy \cup {c} /\ c \notin Busy /\ Busy \subseteq Clients
  BY <1>1, <1>2 DEF Busy
<1>4. CopiesAccepted'
  BY <1>2 DEF EditsInv, Kept, CopiesAccepted
<1>5. KeyedLists' /\ FactsKnown' /\ AckedEditKept'
  BY <1>1 DEF EditsInv, Kept, KeyedLists, FactsKnown, AckedEditKept, StoredValue
<1>6. CleanAlone'
  <2>1. clean \subseteq Busy /\ \A p \in clean, d \in Busy : d # p => ~Rival(call[p].in, call[d].in)
    BY DEF EditsInv, Kept, CleanAlone
  <2>2. clean' \subseteq Busy'
    BY <1>1, <1>3, <2>1
  <2>3. \A y, z : Rival(y, z) <=> Rival(z, y)
    BY DEF Rival
  <2>4. ASSUME NEW p \in clean', NEW d \in Busy', d # p
        PROVE  ~Rival(call'[p].in, call'[d].in)
    <3>1. CASE p = c
      <4>1. d \in Busy /\ call'[d] = call[d] /\ rivals = {}
        BY <1>1, <1>2, <1>3, <2>1, <2>4, <3>1
      <4> QED
        BY <1>2, <3>1, <4>1
    <3>2. CASE p # c /\ d = c
      <4>1. p \in clean /\ p \in Busy /\ p \notin rivals /\ call'[p] = call[p]
        BY <1>1, <1>2, <1>3, <2>1, <3>2
      <4> QED
        BY <1>2, <2>3, <3>2, <4>1
    <3>3. CASE p # c /\ d # c
      <4>1. p \in clean /\ d \in Busy /\ call'[p] = call[p] /\ call'[d] = call[d]
        BY <1>1, <1>2, <1>3, <2>1, <3>3
      <4> QED
        BY <2>1, <2>4, <4>1
    <3> QED
      BY <3>1, <3>2, <3>3
  <2> QED
    BY <2>2, <2>4 DEF CleanAlone
<1>7. CleanCurrent'
  <2>1. \A d \in clean' : d = c \/ (d \in clean /\ call'[d] = call[d])
    BY <1>1, <1>2, <1>3 DEF EditsInv, Kept, CleanAlone
  <2> QED
    BY <1>1, <1>2, <2>1 DEF EditsInv, Kept, CleanCurrent
<1>8. FactsAlive'
  BY <1>1, <1>2, <1>3 DEF EditsInv, Kept, FactsAlive
<1>9. FactsHeld'
  <2> SUFFICES ASSUME NEW a \in acked', NEW d \in Busy'
               PROVE  /\ Tracked(call'[d].in) =>
                            <<a.unit, a.key>> # <<Unit(call'[d].in), call'[d].in.key>>
                      /\ call'[d].pc = "patch" /\ Writes(call'[d].in, a.unit) =>
                            ValueIn(call'[d].copy, a.unit, a.key) = a.value
    BY DEF FactsHeld
  <2>1. CASE d = c
    BY <1>1, <1>2, <2>1
  <2>2. CASE d # c
    <3>1. a \in acked /\ d \in Busy /\ call'[d] = call[d]
      BY <1>1, <1>2, <1>3, <2>2
    <3> QED
      BY <3>1 DEF EditsInv, Kept, FactsHeld
  <2> QED
    BY <2>1, <2>2
<1> QED
  BY <1>4, <1>5, <1>6, <1>7, <1>8, <1>9 DEF Kept

\* A step that only changes the state of a request in flight.
LEMMA KeptMove ==
    ASSUME EditsInv, NEW c \in Clients, NEW q, call' = [call EXCEPT ![c] = q],
           UNCHANGED <<exists, fields, history>>, call[c].pc # "idle", q.pc # "idle",
           q.in = call[c].in,
           q.pc = "patch" =>
              /\ exists /\ q.copy = fields /\ Accepts(fields, q.in)
              /\ q.in.op \notin {"CreateInstance", "DeleteInstance"},
           q.pc = "delete" => q.in.op = "DeleteInstance"
    PROVE  Kept'
<1>1. call'[c] = q /\ \A d \in Clients : d # c => call'[d] = call[d]
  BY OneCall DEF EditsInv
<1>2. Busy' = Busy /\ c \in Busy /\ Busy \subseteq Clients
  BY <1>1 DEF Busy
<1>3. UNCHANGED <<exists, fields, clean, acked>>
  BY DEF history
<1>4. \A d \in Clients : call'[d].in = call[d].in
  BY <1>1
<1>5. KeyedLists' /\ FactsKnown' /\ AckedEditKept'
  <2>1. KeyedLists' /\ FactsKnown'
    BY <1>3 DEF EditsInv, Kept, KeyedLists, FactsKnown
  <2>2. AckedEditKept'
    BY <1>3, StoredSame DEF EditsInv, Kept
  <2> QED
    BY <2>1, <2>2
<1>6. CopiesAccepted'
  <2>1. q.pc = "patch" => \A l \in Lists : Keyed(q.copy[l])
    BY DEF EditsInv, Kept, KeyedLists
  <2> QED
    BY <1>1, <2>1 DEF EditsInv, Kept, CopiesAccepted
<1>7. CleanAlone'
  BY <1>2, <1>3, <1>4 DEF EditsInv, Kept, CleanAlone
<1>8. CleanCurrent'
  BY <1>1, <1>2, <1>3 DEF EditsInv, Kept, CleanCurrent, CleanAlone
<1>9. FactsAlive'
  BY <1>2, <1>3, <1>4 DEF EditsInv, Kept, FactsAlive
<1>10. FactsHeld'
  <2> SUFFICES ASSUME NEW a \in acked, NEW d \in Busy
               PROVE  /\ Tracked(call'[d].in) =>
                            <<a.unit, a.key>> # <<Unit(call'[d].in), call'[d].in.key>>
                      /\ call'[d].pc = "patch" /\ Writes(call'[d].in, a.unit) =>
                            ValueIn(call'[d].copy, a.unit, a.key) = a.value
    BY <1>2, <1>3 DEF FactsHeld
  <2>1. CASE d = c
    <3>1. exists => ValueIn(fields, a.unit, a.key) = a.value
      BY Stored DEF EditsInv, Kept
    <3> QED
      BY <1>1, <1>4, <2>1, <3>1 DEF EditsInv, Kept, FactsHeld
  <2>2. CASE d # c
    BY <1>1, <1>2, <2>2 DEF EditsInv, Kept, FactsHeld
  <2> QED
    BY <2>1, <2>2
<1> QED
  BY <1>5, <1>6, <1>7, <1>8, <1>9, <1>10 DEF Kept

LEMMA KeptGet ==
    ASSUME EditsInv, NEW c \in Clients, GetInstance(c)
    PROVE  Kept'
<1> DEFINE x == call[c].in
           s == IF x.op = "DeleteInstance" THEN "delete" ELSE "patch"
           q == HasRead(c, s)
<1>1. CASE exists /\ Accepts(fields, x)
  <2>1. /\ call' = [call EXCEPT ![c] = q] /\ UNCHANGED <<exists, fields, history>>
        /\ call[c].pc = "read" /\ x.op # "CreateInstance"
    BY <1>1, CallRead DEF GetInstance, EditsInv
  <2>2. q.pc = s /\ q.in = x /\ q.copy = fields
    BY DEF HasRead
  <2>3. /\ s # "idle" /\ (s = "patch" => x.op # "DeleteInstance")
        /\ (s = "delete" => x.op = "DeleteInstance")
    OBVIOUS
  <2> HIDE DEF q, s
  <2> QED
    BY <1>1, <2>1, <2>2, <2>3, KeptMove
<1>2. CASE ~(exists /\ Accepts(fields, x))
  BY <1>2, KeptRefuse DEF GetInstance
<1> QED
  BY <1>1, <1>2

LEMMA KeptValidate ==
    ASSUME EditsInv, NEW c \in Clients, ValidateCreate(c)
    PROVE  Kept'
<1>1. CASE validateCreate(call[c].in)
  <2> DEFINE q == [call[c] EXCEPT !.pc = "create"]
  <2>1. /\ call' = [call EXCEPT ![c] = q] /\ UNCHANGED <<exists, fields, history>>
        /\ q.pc = "create" /\ q.in = call[c].in /\ call[c].pc = "read"
    BY <1>1 DEF ValidateCreate, EditsInv, Shape, IsRecord
  <2> HIDE DEF q
  <2> QED
    BY <2>1, KeptMove
<1>2. CASE ~validateCreate(call[c].in)
  BY <1>2, KeptRefuse DEF ValidateCreate
<1> QED
  BY <1>1, <1>2

\* A patch: what it edits and what it leaves alone, and what it acknowledges.
LEMMA KeptPatch ==
    ASSUME EditsInv, NEW c \in Clients, NEW answer, PatchInstance(c, answer)
    PROVE  Kept'
<1> DEFINE q == call[c]
           x == q.in
           u == Unit(x)
           new == Edited(q.copy, x)
<1>1. CASE ~exists
  BY <1>1, KeptRefuse DEF PatchInstance
<1>2. CASE exists
  <2>1. /\ q.pc = "patch" /\ fields' = Patched(fields, q.copy, new) /\ exists' = exists
        /\ End(c, answer) /\ clean' = clean \ {c}
        /\ acked' = IF answer = "ok" /\ c \in clean /\ Tracked(x)
                    THEN acked \cup {Fact(x)} ELSE acked
    BY <1>2 DEF PatchInstance, Acknowledge
  <2>2. /\ \A d \in Clients : d # c => call'[d] = call[d]
        /\ Busy' = Busy \ {c} /\ Busy \subseteq Clients /\ c \in Busy
    BY <2>1, NowIdle DEF EditsInv, Busy
  <2>3. CopiesAccepted' /\ CleanAlone'
    BY <2>1, KeptEnd
  <2>4. x \in Inputs /\ Edit(q.copy, x, new)
    <3>1. /\ x \in Inputs /\ q.copy = [f \in Fields |-> q.copy[f]]
          /\ Accepts(q.copy, x) /\ \A l \in Lists : Keyed(q.copy[l])
      BY <2>1 DEF EditsInv, Shape, Kept, CopiesAccepted
    <3> QED
      BY <3>1, EditedUnit
  <2> HIDE DEF new
  <2>5. /\ \A v \in Units : v # u =>
              \/ fields'[v] = fields[v]
              \/ Writes(x, v) /\ v \in Blocks /\ q.copy[v] = Absent /\ fields'[v] = Absent
        /\ u \in Units => \/ fields'[u] = new[u]
                          \/ fields'[u] = fields[u] /\ q.copy[u] = new[u]
    BY <2>1, <2>4, PatchedUnit
  <2>6. KeyedLists'
    <3> SUFFICES ASSUME NEW l \in Lists PROVE Keyed(fields'[l])
      BY DEF KeyedLists
    <3>1. Keyed(fields[l]) /\ l \in Units /\ l \notin Blocks
      BY UnitKinds DEF EditsInv, Kept, KeyedLists, Units
    <3> QED
      BY <2>4, <2>5, <3>1 DEF Edit
  <2>7. ASSUME NEW a \in acked
        PROVE  ValueIn(fields', a.unit, a.key) = a.value
    <3> DEFINE v == a.unit
    <3>1. PICK y \in Inputs : Tracked(y) /\ Unit(y) \in Units /\ a = Fact(y)
      BY DEF EditsInv, Kept, FactsKnown
    <3>2. v = Unit(y) /\ a.key = y.key /\ v \in Units
      BY <3>1 DEF Fact
    <3>3. /\ Tracked(x) => <<v, a.key>> # <<u, x.key>>
          /\ Writes(x, v) => ValueIn(q.copy, v, a.key) = a.value
      BY <2>1, <2>2 DEF EditsInv, Kept, FactsHeld
    <3>4. ValueIn(fields, v, a.key) = a.value
      BY <1>2, Stored DEF EditsInv, Kept
    <3> HIDE DEF v, u
    <3>5. CASE fields'[v] = fields[v]
      BY <3>4, <3>5 DEF ValueIn, v
    <3>6. CASE fields'[v] # fields[v] /\ v = u
      <4>1. fields'[v] = new[v] /\ Writes(x, v) /\ Tracked(x)
        <5>1. fields'[u] = new[u]
          BY <2>5, <3>2, <3>6
        <5>2. Tracked(x)
          BY <3>1, <3>2, <3>6 DEF Tracked, u
        <5> QED
          BY <3>6, <5>1, <5>2 DEF Writes, u
      <4>2. a.key # x.key
        BY <3>3, <3>6, <4>1
      <4>3. v \in Lists
        <5>1. v \notin Blocks
          <6>1. v \in Blocks => Unit(x)[1] = "block" /\ Unit(y) = Unit(x)
            BY <3>2, <3>6, UnitKinds DEF u
          <6> QED
            BY <2>4, <3>2, <4>2, <6>1, BlocksAssumption
        <5> QED
          BY <3>2, <5>1 DEF Units
      <4>4. ValueAt(new[v], a.key) = ValueAt(q.copy[v], a.key)
        BY <2>4, <3>6, <4>2, <4>3 DEF Edit, u
      <4> QED
        BY <3>3, <4>1, <4>3, <4>4 DEF ValueIn, v
    <3>7. CASE fields'[v] # fields[v] /\ v # u
      <4>1. Writes(x, v) /\ v \in Blocks /\ q.copy[v] = Absent /\ fields'[v] = Absent
        BY <2>5, <3>2, <3>7
      <4>2. v \notin Lists
        BY <4>1, UnitKinds
      <4> QED
        BY <3>3, <4>1, <4>2 DEF ValueIn, v
    <3> QED
      BY <3>5, <3>6, <3>7 DEF v
  <2>8. ASSUME c \in clean, Tracked(x)
        PROVE  u \in Units /\ ValueIn(fields', u, x.key) = Fact(x).value
    <3>1. fields[u] = q.copy[u]
      BY <2>1, <2>8 DEF EditsInv, Kept, CleanCurrent
    <3>2. u \in Units /\ ValueIn(new, u, x.key) = Fact(x).value
      BY <2>4, <2>8 DEF Edit
    <3>3. fields'[u] = new[u]
      BY <2>5, <3>1, <3>2
    <3> QED
      BY <3>2, <3>3 DEF ValueIn
  <2>9. Fact(x).unit = u /\ Fact(x).key = x.key
    BY DEF Fact
  <2>10. \A a \in acked' : a \in acked \/ (c \in clean /\ Tracked(x) /\ a = Fact(x))
    BY <2>1
  <2> HIDE DEF q, x, u
  <2>11. AckedEditKept'
    <3>1. \A a \in acked' : ValueIn(fields', a.unit, a.key) = a.value
      BY <2>7, <2>8, <2>9, <2>10
    <3> QED
      BY <3>1 DEF AckedEditKept, StoredValue, ValueIn, ValueAt
  <2>12. FactsKnown'
    BY <2>4, <2>8, <2>10 DEF EditsInv, Kept, FactsKnown, u
  <2>13. ASSUME NEW d \in Busy', c \in clean, Tracked(x)
         PROVE  /\ Unit(call[d].in) # u /\ ~Writes(call[d].in, u)
                /\ Unit(call[d].in) # <<"instance", "all">>
    <3>1. d \in Busy /\ d # c
      BY <2>2
    <3>2. ~Rival(x, call[d].in)
      BY <2>13, <3>1 DEF EditsInv, Kept, CleanAlone, x, q
    <3> QED
      BY <2>8, <2>13, <3>2, Apart DEF u
  <2>14. FactsAlive'
    <3>1. ASSUME acked' # {}, NEW d \in Busy'
          PROVE  Unit(call'[d].in) # <<"instance", "all">>
      <4>1. d \in Busy /\ call'[d] = call[d]
        BY <2>2
      <4>2. acked # {} \/ (c \in clean /\ Tracked(x))
        BY <2>10, <3>1
      <4> QED
        BY <2>13, <4>1, <4>2 DEF EditsInv, Kept, FactsAlive
    <3> QED
      BY <1>2, <2>1, <3>1 DEF FactsAlive
  <2>15. FactsHeld'
    <3> SUFFICES ASSUME NEW a \in acked', NEW d \in Busy'
                 PROVE  /\ Tracked(call'[d].in) =>
                              <<a.unit, a.key>> # <<Unit(call'[d].in), call'[d].in.key>>
                        /\ call'[d].pc = "patch" /\ Writes(call'[d].in, a.unit) =>
                              ValueIn(call'[d].copy, a.unit, a.key) = a.value
      BY DEF FactsHeld
    <3>1. d \in Busy /\ call'[d] = call[d]
      BY <2>2
    <3>2. CASE a \in acked
      BY <3>1, <3>2 DEF EditsInv, Kept, FactsHeld
    <3>3. CASE c \in clean /\ Tracked(x) /\ a = Fact(x)
      BY <2>9, <2>13, <3>1, <3>3
    <3> QED
      BY <2>10, <3>2, <3>3
  <2>16. CleanCurrent'
    <3> SUFFICES ASSUME NEW d \in clean', call'[d].pc = "patch", Tracked(call'[d].in)
                 PROVE  exists' /\ fields'[Unit(call'[d].in)] = call'[d].copy[Unit(call'[d].in)]
      BY DEF CleanCurrent
    <3> DEFINE y == call[d].in
    <3>1. d \in clean /\ d # c /\ d \in Busy /\ call'[d] = call[d] /\ d \in Clients
      BY <2>1, <2>2 DEF EditsInv, Kept, CleanAlone
    <3>2. exists /\ fields[Unit(y)] = call[d].copy[Unit(y)]
      BY <3>1 DEF EditsInv, Kept, CleanCurrent
    <3>3. Unit(y) \in Units
      <4>1. /\ y \in Inputs /\ call[d].copy = [f \in Fields |-> call[d].copy[f]]
            /\ Accepts(call[d].copy, y) /\ \A l \in Lists : Keyed(call[d].copy[l])
        BY <3>1 DEF EditsInv, Shape, Kept, CopiesAccepted
      <4>2. Edit(call[d].copy, y, Edited(call[d].copy, y))
        BY <4>1, EditedUnit
      <4> QED
        BY <3>1, <4>2 DEF Edit
    <3>4. Unit(y) # u /\ ~Writes(x, Unit(y))
      <4>1. ~Rival(y, x)
        BY <2>2, <3>1 DEF EditsInv, Kept, CleanAlone, x, q
      <4> QED
        BY <3>3, <4>1, Apart DEF u
    <3>5. fields'[Unit(y)] = fields[Unit(y)]
      BY <2>5, <3>3, <3>4
    <3> QED
      BY <2>1, <3>1, <3>2, <3>5
  <2> QED
    BY <2>3, <2>6, <2>11, <2>12, <2>14, <2>15, <2>16 DEF Kept
<1> QED
  BY <1>1, <1>2

\* When an instance comes or goes, nothing is acknowledged any more, and no
\* request is without rivals.
LEMMA KeptLife ==
    ASSUME EditsInv, NEW c \in Clients, NEW answer, End(c, answer),
           call[c].pc # "idle", Unit(call[c].in) = <<"instance", "all">>,
           clean' = clean \ {c}, acked' = acked, \A l \in Lists : Keyed(fields'[l])
    PROVE  Kept'
<1>1. /\ Busy' = Busy \ {c} /\ c \in Busy
      /\ \A d \in Clients : d # c => call'[d] = call[d]
  BY NowIdle DEF EditsInv, Busy
<1>2. acked = {}
  BY <1>1 DEF EditsInv, Kept, FactsAlive
<1>3. clean' = {}
  <2>1. \A d \in clean : d = c
    BY <1>1 DEF EditsInv, Kept, CleanAlone, Rival
  <2> QED
    BY <2>1
<1>4. CopiesAccepted' /\ CleanAlone'
  BY KeptEnd
<1>5. KeyedLists' /\ CleanCurrent'
  BY <1>3 DEF KeyedLists, CleanCurrent
<1>6. FactsKnown' /\ FactsAlive' /\ FactsHeld' /\ AckedEditKept'
  BY <1>2 DEF FactsKnown, FactsAlive, FactsHeld, AckedEditKept
<1> QED
  BY <1>4, <1>5, <1>6 DEF Kept

LEMMA EmptyLists ==
    /\ \A l \in Lists : Keyed(Blank[l])
    /\ \A x \in Inputs : \A l \in Lists : Keyed(Assigned(Blank, x)[l])
<1>1. Keyed(<<>>)
  BY DEF Keyed
<1>2. \A l \in Lists : l \in Fields /\ l \notin Plain
  BY UnitKinds DEF Units
<1>3. \A l \in Lists : Blank[l] = <<>>
  BY <1>2 DEF Blank
<1>4. \A x \in Inputs : \A l \in Lists : Assigned(Blank, x)[l] = Blank[l]
  BY <1>2, WantsPlain DEF Assigned
<1> QED
  BY <1>1, <1>3, <1>4

LEMMA KeptDelete ==
    ASSUME EditsInv, NEW c \in Clients, NEW answer, DeleteInstance(c, answer)
    PROVE  Kept'
<1>1. CASE exists
  <2>1. call[c].pc = "delete" /\ call[c].in.op = "DeleteInstance"
    BY DEF DeleteInstance, EditsInv, Kept, CopiesAccepted
  <2>2. Unit(call[c].in) = <<"instance", "all">> /\ ~Tracked(call[c].in)
    BY <2>1 DEF Unit, Tracked
  <2>3. /\ End(c, answer) /\ clean' = clean \ {c} /\ acked' = acked /\ fields' = Blank
    BY <1>1, <2>2 DEF DeleteInstance, Acknowledge
  <2> QED
    BY <2>1, <2>2, <2>3, KeptLife, EmptyLists
<1>2. CASE ~exists
  BY <1>2, KeptRefuse DEF DeleteInstance
<1> QED
  BY <1>1, <1>2

LEMMA KeptCreate ==
    ASSUME EditsInv, NEW c \in Clients, NEW answer, CreateInstance(c, answer)
    PROVE  Kept'
<1>1. CASE ~exists
  <2>1. call[c].pc = "create" /\ call[c].in.op = "CreateInstance" /\ call[c].in \in Inputs
    BY DEF CreateInstance, EditsInv, Shape
  <2>2. Unit(call[c].in) = <<"instance", "all">> /\ ~Tracked(call[c].in)
    BY <2>1 DEF Unit, Tracked
  <2>3. /\ End(c, answer) /\ clean' = clean \ {c} /\ acked' = acked
        /\ fields' = Assigned(Blank, call[c].in)
    BY <1>1, <2>2 DEF CreateInstance, Acknowledge
  <2> QED
    BY <2>1, <2>2, <2>3, KeptLife, EmptyLists
<1>2. CASE exists
  BY <1>2, KeptRefuse DEF CreateInstance
<1> QED
  BY <1>1, <1>2

LEMMA EditsInvInit == Init => EditsInv
<1> SUFFICES ASSUME Init PROVE Kept
  BY ShapeInit DEF EditsInv
<1>1. \A c \in Clients : call[c] = Idle
  BY DEF Init
<1>2. Idle.pc = "idle"
  BY DEF Idle
<1>3. CopiesAccepted
  BY <1>1, <1>2 DEF CopiesAccepted
<1>4. KeyedLists
  BY EmptyLists DEF Init, KeyedLists
<1>5. clean = {} /\ acked = {}
  BY DEF Init
<1>6. CleanAlone /\ CleanCurrent /\ FactsKnown /\ FactsAlive /\ FactsHeld /\ AckedEditKept
  BY <1>5 DEF CleanAlone, CleanCurrent, FactsKnown, FactsAlive, FactsHeld, AckedEditKept
<1> QED
  BY <1>3, <1>4, <1>6 DEF Kept

LEMMA EditsInvStep == EditsInv /\ [Next]_vars => EditsInv'
<1> SUFFICES ASSUME EditsInv, [Next]_vars PROVE Kept'
  BY ShapeStep DEF EditsInv
<1>1. ASSUME NEW c \in Clients, NEW x \in Inputs, Begin(c, x) PROVE Kept'
  BY <1>1, KeptBegin
<1>2. ASSUME NEW c \in Clients, GetInstance(c) \/ ValidateCreate(c) PROVE Kept'
  BY <1>2, KeptGet, KeptValidate
<1>3. ASSUME NEW c \in Clients, CallFails(c) PROVE Kept'
  BY <1>3, KeptRefuse DEF CallFails
<1>4. ASSUME NEW c \in Clients, NEW a \in Answers,
             PatchInstance(c, a) \/ DeleteInstance(c, a) \/ CreateInstance(c, a)
      PROVE  Kept'
  BY <1>4, KeptPatch, KeptDelete, KeptCreate
<1>5. CASE UNCHANGED vars
  <2>1. UNCHANGED <<exists, fields, call, clean, acked>>
    BY <1>5 DEF vars, history
  <2>2. Busy' = Busy
    BY <2>1 DEF Busy
  <2>3. CopiesAccepted' /\ KeyedLists' /\ CleanAlone' /\ CleanCurrent'
    BY <2>1, <2>2 DEF EditsInv, Kept, CopiesAccepted, KeyedLists, CleanAlone, CleanCurrent
  <2>4. FactsKnown' /\ FactsAlive' /\ FactsHeld'
    BY <2>1, <2>2 DEF EditsInv, Kept, FactsKnown, FactsAlive, FactsHeld
  <2>5. AckedEditKept'
    BY <2>1 DEF EditsInv, Kept, AckedEditKept, StoredValue
  <2> QED
    BY <2>3, <2>4, <2>5 DEF Kept
<1> QED
  BY <1>1, <1>2, <1>3, <1>4, <1>5 DEF Next

\* What updateRoute, deleteRoute, updateBlock or deleteBlock acknowledged stands
\* until a request about the same entry, or about the instance as a whole,
\* comes in: for any clients and inputs, if no rival was in flight with it.
THEOREM AckedEditKeptAlways == Spec => []AckedEditKept
<1>1. EditsInv => AckedEditKept
  BY DEF EditsInv, Kept
<1> QED
  BY <1>1, EditsInvInit, EditsInvStep, PTL DEF Spec

----------------------------------------------------------------------------
(* The servers that are rendered. *)

LEMMA TheOnly ==
    ASSUME NEW k \in Nat
    PROVE  Max({k}) = k
<1>1. \E x \in {k} : \A y \in {k} : x >= y
  OBVIOUS
<1> QED BY <1>1 DEF Max

LEMMA TheSet ==
    ASSUME NEW s
    PROVE  ToSet(s) = SetOf(s)
BY DEF ToSet, SetOf

\* Selected keeps the entries of a list that are in S, each at one place.
Places(list, S, at) ==
    LET P == {i \in DOMAIN list : list[i] \in S}
        t == Selected(list, S) IN
    /\ at \in [P -> DOMAIN t]
    /\ \A i \in P : t[at[i]] = list[i]
    /\ \A i, j \in P : at[i] = at[j] => i = j
    /\ \A k \in DOMAIN t : \E i \in P : at[i] = k

LEMMA SelectedFrom ==
    ASSUME NEW T, NEW list \in Seq(T), NEW S
    PROVE  Selected(list, S) \in Seq(T) /\ \E at : Places(list, S, at)
<1> DEFINE P == {i \in DOMAIN list : list[i] \in S}
           Place(i) == Cardinality({j \in P : j <= i})
           n == Cardinality(P)
           t == Selected(list, S)
           at == [i \in P |-> Place(i)]
<1>1. /\ DOMAIN list = 1 .. Len(list) /\ Len(list) \in Nat /\ P \subseteq DOMAIN list
      /\ P \subseteq Nat /\ \A i \in DOMAIN list : list[i] \in T
  OBVIOUS
<1>2. t = [k \in 1 .. n |-> list[CHOOSE i \in P : Place(i) = k]]
  BY DEF Selected
<1>3. IsFiniteSet(P) /\ n \in Nat
  <2>1. IsFiniteSet(1 .. Len(list))
    BY <1>1, FS_Interval
  <2>2. IsFiniteSet(P)
    BY <1>1, <2>1, FS_Subset
  <2> QED BY <2>2, FS_CardinalityType
<1> HIDE DEF P, t
<1>4. ASSUME NEW i \in P
      PROVE  /\ IsFiniteSet({j \in P : j <= i}) /\ Place(i) \in 1 .. n
  <2> DEFINE U == {j \in P : j <= i}
  <2>1. U \in SUBSET P /\ i \in U
    BY <1>1
  <2> HIDE DEF U
  <2>2. IsFiniteSet(U) /\ Cardinality(U) <= n
    BY <1>3, <2>1, FS_Subset
  <2>3. Cardinality(U) \in Nat /\ Cardinality(U) # 0
    BY <2>1, <2>2, FS_CardinalityType, FS_EmptySet
  <2> QED BY <1>3, <2>2, <2>3 DEF U
<1>5. ASSUME NEW i \in P, NEW j \in P, Place(i) = Place(j)
      PROVE  i = j
  <2>1. ASSUME NEW x \in P, NEW y \in P, x < y, Place(x) = Place(y)
        PROVE  FALSE
    <3> DEFINE U == {z \in P : z <= x}
               V == {z \in P : z <= y}
    <3>1. U \in SUBSET V /\ y \in V /\ y \notin U
      BY <1>1, <2>1
    <3>2. IsFiniteSet(V) /\ Cardinality(U) = Cardinality(V)
      BY <1>4, <2>1
    <3> HIDE DEF U, V
    <3>3. U = V
      BY <3>1, <3>2, FS_Subset
    <3> QED BY <3>1, <3>3
  <2> QED BY <1>1, <1>5, <2>1
<1> HIDE DEF n
<1>6. at \in Injection(P, 1 .. n)
  <2>1. at \in [P -> 1 .. n]
    BY <1>4
  <2>2. \A i, j \in P : at[i] = at[j] => i = j
    BY <1>5
  <2> QED BY <2>1, <2>2 DEF Injection, IsInjective
<1>7. at \in Surjection(P, 1 .. n)
  <2>1. IsFiniteSet(1 .. n) /\ Cardinality(1 .. n) = n
    BY <1>3, FS_Interval
  <2> HIDE DEF at
  <2> QED BY <1>6, <2>1, FS_Injection DEF n
<1>8. ASSUME NEW k \in 1 .. n
      PROVE  \E i \in P : at[i] = k /\ t[k] = list[i]
  <2>1. PICK i \in P : at[i] = k
    BY <1>7 DEF Surjection
  <2>2. Place(i) = k
    BY <2>1
  <2>3. \A j \in P : Place(j) = k => j = i
    BY <1>5, <2>2
  <2>4. (CHOOSE j \in P : Place(j) = k) = i
    BY <2>2, <2>3
  <2>5. t[k] = list[CHOOSE j \in P : Place(j) = k]
    BY <1>2
  <2> QED BY <2>1, <2>4, <2>5
<1>9. t \in Seq(T) /\ DOMAIN t = 1 .. n
  <2>1. DOMAIN t = 1 .. n
    BY <1>2
  <2>2. t = [k \in 1 .. n |-> t[k]]
    BY <1>2, <2>1
  <2>3. \A k \in 1 .. n : t[k] \in T
    BY <1>1, <1>8
  <2> QED BY <1>3, <2>1, <2>2, <2>3
<1>10. ASSUME NEW i \in P
       PROVE  t[at[i]] = list[i]
  <2>1. at[i] \in 1 .. n
    BY <1>4
  <2>2. PICK j \in P : at[j] = at[i] /\ t[at[i]] = list[j]
    BY <1>8, <2>1
  <2>3. j = i
    BY <1>6, <2>2 DEF Injection, IsInjective
  <2> QED BY <2>2, <2>3
<1>11. /\ at \in [P -> DOMAIN t]
       /\ \A i, j \in P : at[i] = at[j] => i = j
       /\ \A k \in DOMAIN t : \E i \in P : at[i] = k
  BY <1>5, <1>7, <1>9, <1>4 DEF Surjection
<1> HIDE DEF at
<1>12. Places(list, S, at)
  BY <1>10, <1>11 DEF P, t, Places
<1> QED BY <1>9, <1>12 DEF t

\* In other words: it has those entries, and none twice that the list has once.
LEMMA SelectedIs ==
    ASSUME NEW T, NEW list \in Seq(T), NEW S
    PROVE  LET t == Selected(list, S) IN
           /\ t \in Seq(T) /\ ToSet(t) = ToSet(list) \cap S
           /\ \A k, m \in DOMAIN t : k # m =>
                 \E i, j \in DOMAIN list : i # j /\ t[k] = list[i] /\ t[m] = list[j]
<1> DEFINE P == {i \in DOMAIN list : list[i] \in S}
           t == Selected(list, S)
<1>1. t \in Seq(T)
  BY SelectedFrom
<1>2. PICK at : Places(list, S, at)
  BY SelectedFrom
<1>3. /\ at \in [P -> DOMAIN t]
      /\ \A i \in P : t[at[i]] = list[i]
      /\ \A i, j \in P : at[i] = at[j] => i = j
      /\ \A k \in DOMAIN t : \E i \in P : at[i] = k
  BY <1>2 DEF Places
<1> HIDE DEF t
<1>4. \A k \in DOMAIN t : \E i \in P : at[i] = k /\ t[k] = list[i]
  BY <1>3
<1>5. ToSet(t) = ToSet(list) \cap S
  <2>1. \A x : x \in SetOf(t) <=> x \in SetOf(list) /\ x \in S
    BY <1>3, <1>4 DEF SetOf
  <2> QED BY <2>1, TheSet
<1>6. \A k, m \in DOMAIN t : k # m =>
         \E i, j \in DOMAIN list : i # j /\ t[k] = list[i] /\ t[m] = list[j]
  BY <1>4
<1> QED BY <1>1, <1>5, <1>6 DEF t

\* A list without two routes of the same path, and one without two of the same key.
OnePath(list) == /\ list \in Seq(Entries)
                 /\ \A i, j \in DOMAIN list : list[i].key[2] = list[j].key[2] => i = j
Routes(list) == Keyed(list) /\ \A e \in ToSet(list) : e.key = <<e.key[1], e.key[2]>>

LEMMA SelectedPaths ==
    ASSUME NEW list, OnePath(list), NEW S
    PROVE  OnePath(Selected(list, S)) /\ ToSet(Selected(list, S)) = ToSet(list) \cap S
BY SelectedIs DEF OnePath

LEMMA RoutesOf ==
    ASSUME Routes(fields[Locations]), NEW name
    PROVE  /\ OnePath(LocationsOf(name))
           /\ ToSet(LocationsOf(name)) = {e \in ToSet(fields[Locations]) : e.key[1] = name}
<1> DEFINE list == fields[Locations]
           S == {e \in ToSet(list) : e.key[1] = name}
           t == LocationsOf(name)
<1>1. t = Selected(list, S)
  BY DEF LocationsOf
<1>2. /\ list \in Seq(Entries) /\ \A i, j \in DOMAIN list : list[i].key = list[j].key => i = j
      /\ \A e \in ToSet(list) : e.key = <<e.key[1], e.key[2]>>
  BY DEF Routes, Keyed
<1> HIDE DEF list, t
<1>3. /\ t \in Seq(Entries) /\ ToSet(t) = ToSet(list) \cap S
      /\ \A k, m \in DOMAIN t : k # m =>
            \E i, j \in DOMAIN list : i # j /\ t[k] = list[i] /\ t[m] = list[j]
  <2> HIDE DEF S
  <2> QED BY <1>1, <1>2, SelectedIs
<1>4. ASSUME NEW k \in DOMAIN t, NEW m \in DOMAIN t, k # m, t[k].key[2] = t[m].key[2]
      PROVE  FALSE
  <2>1. t[k] \in ToSet(t) /\ t[m] \in ToSet(t)
    BY DEF ToSet
  <2>2. t[k].key = <<name, t[k].key[2]>> /\ t[m].key = <<name, t[m].key[2]>>
    BY <1>2, <1>3, <2>1
  <2>3. t[k].key = t[m].key
    BY <1>4, <2>2
  <2> QED BY <1>2, <1>3, <1>4, <2>3
<1>5. OnePath(t)
  BY <1>3, <1>4 DEF OnePath
<1> QED BY <1>3, <1>5 DEF t, list

\* The index of a path of all servers is where its route is.
LEMMA TheDefault ==
    ASSUME OnePath(LocationsOf(None)), NEW p \in DOMAIN LocationsOf(None)
    PROVE  DefaultLocationsIndex(LocationsOf(None)[p].key[2]) = p
<1> DEFINE d == LocationsOf(None)
           path == d[p].key[2]
           last == Max({i \in DOMAIN d : d[i].key[2] = path})
           I == 1 .. last - 1
           f == [i \in I |-> d[i].key[2]]
<1>1. DefaultLocationsIndex(path) = 1 + Cardinality({d[i].key[2] : i \in I})
  BY DEF DefaultLocationsIndex
<1>2. /\ DOMAIN d = 1 .. Len(d) /\ Len(d) \in Nat
      /\ \A i, j \in DOMAIN d : d[i].key[2] = d[j].key[2] => i = j
  BY DEF OnePath
<1> HIDE DEF d
<1>3. last = p
  <2>1. {i \in DOMAIN d : d[i].key[2] = path} = {p}
    BY <1>2 DEF d
  <2>2. p \in Nat
    BY <1>2 DEF d
  <2> QED BY <2>1, <2>2, TheOnly
<1> HIDE DEF last, path
<1>4. p \in Nat /\ 1 <= p /\ p <= Len(d) /\ I \subseteq DOMAIN d
  BY <1>2, <1>3 DEF d
<1>5. f \in Bijection(I, {d[i].key[2] : i \in I})
  BY <1>2, <1>4 DEF Bijection, Injection, Surjection, IsInjective
<1> HIDE DEF f
<1>6. IsFiniteSet(I) /\ Cardinality(I) = p - 1
  BY <1>3, <1>4, FS_Interval
<1>7. Cardinality({d[i].key[2] : i \in I}) = p - 1
  <2>1. ExistsBijection(I, {d[i].key[2] : i \in I})
    BY <1>5 DEF ExistsBijection
  <2> QED BY <1>6, <2>1, FS_Bijection
<1> QED BY <1>1, <1>4, <1>7 DEF d, path

\* The routes of a server: its own ones, and for the other paths those of all servers.
LEMMA RoutesOfServer ==
    ASSUME NEW name, OnePath(LocationsOf(None)), OnePath(LocationsOf(name))
    PROVE  LET t == ServerLocations(name)
               d == LocationsOf(None)
               o == LocationsOf(name) IN
           /\ OnePath(t) /\ ToSet(o) \subseteq ToSet(t)
           /\ \A e \in ToSet(d) : (\A g \in ToSet(o) : g.key[2] # e.key[2]) => e \in ToSet(t)
<1> DEFINE d == LocationsOf(None)
           o == LocationsOf(name)
           rest == Selected(o, {e \in ToSet(o) : ~HasDefault(e.key[2])})
           For(i) == {k \in DOMAIN o : /\ HasDefault(o[k].key[2])
                                       /\ DefaultLocationsIndex(o[k].key[2]) = i}
           first == [i \in DOMAIN d |-> IF For(i) = {} THEN d[i] ELSE o[Max(For(i))]]
           t == ServerLocations(name)
<1>1. t = first \o rest
  BY DEF ServerLocations
<1>2. /\ d \in Seq(Entries) /\ DOMAIN d = 1 .. Len(d) /\ Len(d) \in Nat
      /\ \A i, j \in DOMAIN d : d[i].key[2] = d[j].key[2] => i = j
      /\ \A i \in DOMAIN d : d[i] \in Entries
  BY DEF OnePath
<1>3. /\ o \in Seq(Entries) /\ DOMAIN o \subseteq Nat
      /\ \A i, j \in DOMAIN o : o[i].key[2] = o[j].key[2] => i = j
      /\ \A i \in DOMAIN o : o[i] \in Entries
  BY DEF OnePath
<1>4. OnePath(rest) /\ ToSet(rest) = {e \in ToSet(o) : ~HasDefault(e.key[2])}
  <2> DEFINE S == {e \in ToSet(o) : ~HasDefault(e.key[2])}
  <2>1. S \subseteq ToSet(o)
    OBVIOUS
  <2> HIDE DEF S
  <2>2. OnePath(Selected(o, S)) /\ ToSet(Selected(o, S)) = ToSet(o) \cap S
    BY SelectedPaths
  <2>3. ToSet(Selected(o, S)) = S
    BY <2>1, <2>2
  <2> QED BY <2>2, <2>3 DEF S
<1>5. \A path : HasDefault(path) <=> \E i \in DOMAIN d : d[i].key[2] = path
  BY TheSet DEF HasDefault, SetOf
<1>6. \A p \in DOMAIN d : DefaultLocationsIndex(d[p].key[2]) = p
  BY TheDefault
<1> HIDE DEF d, o, rest
<1>7. ASSUME NEW i \in DOMAIN d
      PROVE  /\ \A k \in DOMAIN o : o[k].key[2] = d[i].key[2] => For(i) = {k}
             /\ (\A k \in DOMAIN o : o[k].key[2] # d[i].key[2]) => For(i) = {}
  <2>1. ASSUME NEW k \in DOMAIN o
        PROVE  k \in For(i) <=> o[k].key[2] = d[i].key[2]
    BY <1>5, <1>6
  <2> QED BY <1>3, <2>1
<1> HIDE DEF For
<1>8. ASSUME NEW i \in DOMAIN d
      PROVE  /\ \A k \in DOMAIN o : o[k].key[2] = d[i].key[2] => first[i] = o[k]
             /\ (\A k \in DOMAIN o : o[k].key[2] # d[i].key[2]) => first[i] = d[i]
             /\ first[i] \in Entries /\ first[i].key[2] = d[i].key[2]
  <2>1. ASSUME NEW k \in DOMAIN o, o[k].key[2] = d[i].key[2]
        PROVE  first[i] = o[k]
    <3>1. For(i) = {k} /\ k \in Nat
      BY <1>3, <1>7, <2>1
    <3> QED BY <3>1, TheOnly
  <2>2. (\A k \in DOMAIN o : o[k].key[2] # d[i].key[2]) => first[i] = d[i]
    BY <1>7
  <2> QED BY <1>2, <1>3, <2>1, <2>2
<1>9. first \in Seq(Entries) /\ DOMAIN first = DOMAIN d /\ Len(first) = Len(d)
  <2>1. DOMAIN first = 1 .. Len(d)
    BY <1>2
  <2>2. first = [i \in 1 .. Len(d) |-> first[i]]
    BY <2>1
  <2> HIDE DEF first
  <2> QED BY <1>2, <1>8, <2>1, <2>2
<1> HIDE DEF first
<1>10. /\ rest \in Seq(Entries) /\ DOMAIN rest = 1 .. Len(rest) /\ Len(rest) \in Nat
       /\ \A i, j \in DOMAIN rest : rest[i].key[2] = rest[j].key[2] => i = j
  BY <1>4 DEF OnePath
<1>11. /\ t \in Seq(Entries) /\ DOMAIN t = 1 .. Len(d) + Len(rest)
       /\ \A i \in DOMAIN d : t[i] = first[i]
       /\ \A i \in DOMAIN rest : t[Len(d) + i] = rest[i]
  <2>1. t \in Seq(Entries) /\ Len(t) = Len(d) + Len(rest)
    <3>1. first \o rest \in Seq(Entries)
      BY <1>9, <1>10
    <3>2. Len(first \o rest) = Len(first) + Len(rest)
      BY <1>9, <1>10
    <3> QED BY <1>1, <1>9, <3>1, <3>2
  <2>2. DOMAIN t = 1 .. Len(d) + Len(rest)
    BY <2>1
  <2>3. ASSUME NEW i \in DOMAIN d PROVE t[i] = first[i]
    <3>1. i \in Nat /\ 1 <= i /\ i <= Len(first)
      BY <1>2, <1>9
    <3> QED BY <1>1, <1>2, <1>9, <1>10, <3>1
  <2>4. ASSUME NEW i \in DOMAIN rest PROVE t[Len(d) + i] = rest[i]
    <3>1. i \in Nat /\ 1 <= i /\ i <= Len(rest)
      BY <1>10
    <3> QED BY <1>1, <1>2, <1>9, <1>10, <3>1
  <2> QED BY <2>1, <2>2, <2>3, <2>4
<1>12. \A i \in DOMAIN t : \/ i \in DOMAIN d
                           \/ i - Len(d) \in DOMAIN rest /\ t[i] = rest[i - Len(d)]
  BY <1>2, <1>10, <1>11
<1>13. \A e \in ToSet(rest) : e \in ToSet(o) /\ \A i \in DOMAIN d : d[i].key[2] # e.key[2]
  BY <1>4, <1>5
<1>14. \A k \in DOMAIN rest : rest[k] \in ToSet(rest)
  BY TheSet DEF SetOf
<1> HIDE DEF t
<1>15. ASSUME NEW i \in DOMAIN t, NEW j \in DOMAIN t, t[i].key[2] = t[j].key[2]
       PROVE  i = j
  <2>1. CASE i \in DOMAIN d /\ j \in DOMAIN d
    BY <1>2, <1>8, <1>11, <1>15, <2>1
  <2>2. CASE i \notin DOMAIN d /\ j \notin DOMAIN d
    <3>1. i - Len(d) = j - Len(d)
      BY <1>10, <1>12, <1>15, <2>2
    <3> QED BY <1>2, <1>10, <1>11, <3>1
  <2>3. CASE i \in DOMAIN d /\ j \notin DOMAIN d
    <3>1. t[j] = rest[j - Len(d)] /\ j - Len(d) \in DOMAIN rest
      BY <1>12, <2>3
    <3>2. t[i].key[2] = d[i].key[2]
      BY <1>8, <1>11, <2>3
    <3>3. t[j] \in ToSet(rest)
      BY <1>14, <3>1
    <3>4. d[i].key[2] # t[j].key[2]
      BY <1>13, <2>3, <3>3
    <3> QED BY <1>15, <3>2, <3>4
  <2>4. CASE i \notin DOMAIN d /\ j \in DOMAIN d
    <3>1. t[i] = rest[i - Len(d)] /\ i - Len(d) \in DOMAIN rest
      BY <1>12, <2>4
    <3>2. t[j].key[2] = d[j].key[2]
      BY <1>8, <1>11, <2>4
    <3>3. t[i] \in ToSet(rest)
      BY <1>14, <3>1
    <3>4. d[j].key[2] # t[i].key[2]
      BY <1>13, <2>4, <3>3
    <3> QED BY <1>15, <3>2, <3>4
  <2> QED BY <2>1, <2>2, <2>3, <2>4
<1>16. \A i \in DOMAIN t : t[i] \in ToSet(t)
  BY TheSet DEF SetOf
<1>17. \A i \in DOMAIN rest : Len(d) + i \in DOMAIN t
  BY <1>2, <1>10, <1>11
<1>18. \A i \in DOMAIN d : i \in DOMAIN t
  BY <1>2, <1>10, <1>11
<1>19. ASSUME NEW e \in ToSet(o)
       PROVE  e \in ToSet(t)
  <2>1. PICK k \in DOMAIN o : e = o[k]
    BY TheSet DEF SetOf
  <2>2. CASE HasDefault(e.key[2])
    <3>1. PICK i \in DOMAIN d : d[i].key[2] = e.key[2]
      BY <1>5, <2>2
    <3>2. t[i] = e
      BY <1>8, <1>11, <2>1, <3>1
    <3> QED BY <1>16, <1>18, <3>2
  <2>3. CASE ~HasDefault(e.key[2])
    <3>1. e \in ToSet(rest)
      BY <1>4, <2>3 DEF o, rest
    <3>2. PICK i \in DOMAIN rest : rest[i] = e
      BY <3>1, TheSet DEF SetOf
    <3> QED BY <1>11, <1>16, <1>17, <3>2
  <2> QED BY <2>2, <2>3
<1>20. ASSUME NEW e \in ToSet(d), \A g \in ToSet(o) : g.key[2] # e.key[2]
       PROVE  e \in ToSet(t)
  <2>1. PICK i \in DOMAIN d : e = d[i]
    BY TheSet DEF SetOf
  <2>2. \A k \in DOMAIN o : o[k] \in ToSet(o)
    BY TheSet DEF SetOf
  <2>3. t[i] = e
    BY <1>8, <1>11, <1>20, <2>1, <2>2
  <2> QED BY <1>16, <1>18, <2>3
<1>21. OnePath(t) /\ ToSet(o) \subseteq ToSet(t)
  BY <1>11, <1>15, <1>19 DEF OnePath
<1> QED BY <1>20, <1>21 DEF t, d, o

\* The names of a finite set, each at one place.
LEMMA Listing ==
    ASSUME NEW S, IsFiniteSet(S)
    PROVE  LET s == SetToSeq(S) IN
           /\ s \in Seq(S) /\ DOMAIN s = 1 .. Len(s) /\ Len(s) \in Nat
           /\ \A i, j \in DOMAIN s : s[i] = s[j] => i = j
           /\ \A x \in S : \E i \in DOMAIN s : s[i] = x
<1> DEFINE n == Cardinality(S)
           s == SetToSeq(S)
<1>1. n \in Nat /\ ExistsBijection(1 .. n, S)
  BY FS_CardinalityType
<1>2. PICK f : f \in Bijection(1 .. n, S)
  BY <1>1 DEF ExistsBijection
<1>3. f \in [1 .. n -> S] /\ IsInjective(f)
  BY <1>2 DEF Bijection, Injection, IsInjective
<1>4. s = CHOOSE g \in [1 .. n -> S] : IsInjective(g)
  BY DEF SetToSeq
<1>5. IsFiniteSet(1 .. n) /\ Cardinality(1 .. n) = n
  BY <1>1, FS_Interval
<1> HIDE DEF n, s
<1>6. s \in [1 .. n -> S] /\ IsInjective(s)
  BY <1>3, <1>4
<1>7. s \in Injection(1 .. n, S)
  BY <1>6 DEF Injection, IsInjective
<1>8. s \in Surjection(1 .. n, S)
  BY <1>5, <1>7, FS_Injection DEF n
<1>9. s \in Seq(S) /\ DOMAIN s = 1 .. Len(s) /\ Len(s) \in Nat
  BY <1>1, <1>6
<1>10. \A i, j \in DOMAIN s : s[i] = s[j] => i = j
  BY <1>6 DEF IsInjective
<1>11. \A x \in S : \E i \in DOMAIN s : s[i] = x
  BY <1>6, <1>8 DEF Surjection
<1> QED BY <1>9, <1>10, <1>11 DEF s

LEMMA Joined ==
    ASSUME NEW T, NEW x \in T, NEW a \in Seq(T), NEW b \in Seq(T)
    PROVE  LET s == <<x>> \o a \o b IN
           /\ s \in Seq(T) /\ Len(s) = 1 + Len(a) + Len(b) /\ s[1] = x
           /\ \A i \in DOMAIN a : s[1 + i] = a[i]
           /\ \A i \in DOMAIN b : s[1 + Len(a) + i] = b[i]
<1> DEFINE h == <<x>> \o a
           s == h \o b
<1>1. Len(a) \in Nat /\ Len(b) \in Nat /\ DOMAIN a = 1 .. Len(a) /\ DOMAIN b = 1 .. Len(b)
  OBVIOUS
<1>2. h \in Seq(T) /\ Len(h) = 1 + Len(a) /\ h[1] = x /\ \A i \in DOMAIN a : h[1 + i] = a[i]
  <2>1. <<x>> \in Seq(T) /\ Len(<<x>>) = 1
    OBVIOUS
  <2>2. h \in Seq(T) /\ Len(h) = 1 + Len(a)
    BY <2>1
  <2>3. h[1] = x
    BY <1>1
  <2>4. \A i \in DOMAIN a : h[1 + i] = a[i]
    BY <1>1, <2>1
  <2> QED BY <2>2, <2>3, <2>4
<1> HIDE DEF h
<1>3. s \in Seq(T) /\ Len(s) = Len(h) + Len(b)
  BY <1>2
<1>4. \A i \in 1 .. Len(h) : s[i] = h[i]
  BY <1>1, <1>2
<1>5. \A i \in DOMAIN b : s[Len(h) + i] = b[i]
  BY <1>1, <1>2
<1> HIDE DEF s
<1>6. s[1] = x /\ \A i \in DOMAIN a : s[1 + i] = a[i]
  <2>1. 1 \in 1 .. Len(h)
    BY <1>1, <1>2
  <2>2. \A i \in DOMAIN a : 1 + i \in 1 .. Len(h)
    BY <1>1, <1>2
  <2> QED BY <1>2, <1>4, <2>1, <2>2
<1> QED BY <1>2, <1>3, <1>5, <1>6 DEF h, s

\* The default server comes first, and every name has one other server.
OneServerEach(servers, tls) ==
    /\ DOMAIN servers = 1 .. Len(servers) /\ Len(servers) \in Nat /\ 1 \in DOMAIN servers
    /\ servers[1] = DefaultServer
    /\ \A i \in DOMAIN servers : i # 1 =>
          \E name \in NamedServers(tls) : servers[i] = Server(name, tls)
    /\ \A name \in NamedServers(tls) : \E i \in DOMAIN servers :
          i # 1 /\ servers[i] = Server(name, tls)
    /\ \A i, j \in DOMAIN servers :
          i # 1 /\ j # 1 /\ servers[i].name = servers[j].name => i = j

LEMMA Produced ==
    ASSUME NEW tls, IsFiniteSet(NamedServers(tls))
    PROVE  OneServerEach(produceServers(tls), tls)
<1> DEFINE N == NamedServers(tls)
           W == {n \in NamedServers(tls) : isWildCard(n) /\ TLSSecretName(n, tls) # None}
           E == N \ W
           T == {DefaultServer} \cup {Server(n, tls) : n \in N}
           u == SetToSeq(E)
           v == SetToSeq(W)
           a == [i \in DOMAIN u |-> Server(u[i], tls)]
           b == [i \in DOMAIN v |-> Server(v[i], tls)]
           s == produceServers(tls)
<1>1. s = <<DefaultServer>> \o a \o b
  BY DEF produceServers
<1>2. \A n : Server(n, tls).name = n
  BY DEF Server
<1>3. W \subseteq N /\ E \subseteq N /\ E \cap W = {} /\ N = E \cup W
  OBVIOUS
<1> HIDE DEF W, s
<1>4. IsFiniteSet(W) /\ IsFiniteSet(E)
  BY <1>3, FS_Subset
<1> HIDE DEF E, N
<1>5. /\ u \in Seq(E) /\ DOMAIN u = 1 .. Len(u) /\ Len(u) \in Nat
      /\ \A i, j \in DOMAIN u : u[i] = u[j] => i = j
      /\ \A x \in E : \E i \in DOMAIN u : u[i] = x
  BY <1>4, Listing
<1>6. /\ v \in Seq(W) /\ DOMAIN v = 1 .. Len(v) /\ Len(v) \in Nat
      /\ \A i, j \in DOMAIN v : v[i] = v[j] => i = j
      /\ \A x \in W : \E i \in DOMAIN v : v[i] = x
  BY <1>4, Listing
<1> HIDE DEF u, v
<1>7. /\ a \in Seq(T) /\ Len(a) = Len(u) /\ DOMAIN a = DOMAIN u
      /\ \A i \in DOMAIN a : a[i] = Server(u[i], tls) /\ u[i] \in E
  BY <1>3, <1>5
<1>8. /\ b \in Seq(T) /\ Len(b) = Len(v) /\ DOMAIN b = DOMAIN v
      /\ \A i \in DOMAIN b : b[i] = Server(v[i], tls) /\ v[i] \in W
  BY <1>3, <1>6
<1>9. DefaultServer \in T
  OBVIOUS
<1> HIDE DEF T, a, b
<1>10. /\ s \in Seq(T) /\ Len(s) = 1 + Len(a) + Len(b) /\ s[1] = DefaultServer
       /\ \A i \in DOMAIN a : s[1 + i] = a[i]
       /\ \A i \in DOMAIN b : s[1 + Len(a) + i] = b[i]
  <2>1. a \in Seq(T) /\ b \in Seq(T) /\ DefaultServer \in T
    BY <1>7, <1>8, <1>9
  <2> QED BY <1>1, <2>1, Joined
<1>11. DOMAIN s = 1 .. Len(s) /\ Len(s) \in Nat /\ 1 \in DOMAIN s
  BY <1>5, <1>6, <1>7, <1>8, <1>10
<1>12. ASSUME NEW i \in DOMAIN s, i # 1
       PROVE  \/ i - 1 \in DOMAIN u /\ s[i] = Server(u[i - 1], tls) /\ u[i - 1] \in E
              \/ LET k == i - 1 - Len(u) IN
                 k \in DOMAIN v /\ s[i] = Server(v[k], tls) /\ v[k] \in W
  <2>1. CASE i <= 1 + Len(u)
    <3>1. i - 1 \in DOMAIN a /\ 1 + (i - 1) = i
      BY <1>5, <1>7, <1>11, <1>12, <2>1
    <3>2. s[i] = a[i - 1]
      BY <1>10, <3>1
    <3> QED BY <1>7, <3>1, <3>2
  <2>2. CASE i > 1 + Len(u)
    <3> DEFINE k == i - 1 - Len(u)
    <3>1. k \in DOMAIN b /\ 1 + Len(a) + k = i
      <4>1. i \in Nat /\ i <= 1 + Len(u) + Len(v)
        BY <1>7, <1>8, <1>10, <1>11
      <4>2. k \in 1 .. Len(v) /\ 1 + Len(u) + k = i
        BY <1>5, <1>6, <2>2, <4>1
      <4> QED BY <1>6, <1>7, <1>8, <4>2
    <3> HIDE DEF k
    <3>2. s[i] = b[k]
      BY <1>10, <3>1
    <3>3. k \in DOMAIN v /\ s[i] = Server(v[k], tls) /\ v[k] \in W
      BY <1>8, <3>1, <3>2
    <3> QED BY <3>3 DEF k
  <2> QED BY <1>5, <1>11, <2>1, <2>2
<1>13. \A i \in DOMAIN s : i # 1 => \E name \in N : s[i] = Server(name, tls)
  BY <1>3, <1>12
<1>14. ASSUME NEW name \in N
       PROVE  \E i \in DOMAIN s : i # 1 /\ s[i] = Server(name, tls)
  <2>1. CASE name \in E
    <3>1. PICK i \in DOMAIN u : u[i] = name
      BY <1>5, <2>1
    <3>2. s[1 + i] = Server(name, tls)
      BY <1>7, <1>10, <3>1
    <3>3. 1 + i \in DOMAIN s /\ 1 + i # 1
      BY <1>5, <1>6, <1>7, <1>8, <1>10, <1>11
    <3> QED BY <3>2, <3>3
  <2>2. CASE name \in W
    <3>1. PICK i \in DOMAIN v : v[i] = name
      BY <1>6, <2>2
    <3>2. s[1 + Len(a) + i] = Server(name, tls)
      BY <1>8, <1>10, <3>1
    <3>3. 1 + Len(a) + i \in DOMAIN s /\ 1 + Len(a) + i # 1
      BY <1>5, <1>6, <1>7, <1>8, <1>10, <1>11
    <3> QED BY <3>2, <3>3
  <2> QED BY <1>3, <2>1, <2>2
<1>15. ASSUME NEW i \in DOMAIN s, NEW j \in DOMAIN s, i # 1, j # 1, s[i].name = s[j].name
       PROVE  i = j
  <2>1. i \in Nat /\ j \in Nat /\ Len(u) \in Nat
    BY <1>5, <1>11
  <2>2. \/ i - 1 \in DOMAIN u /\ s[i].name = u[i - 1] /\ u[i - 1] \in E
        \/ LET k == i - 1 - Len(u) IN k \in DOMAIN v /\ s[i].name = v[k] /\ v[k] \in W
    BY <1>2, <1>12, <1>15
  <2>3. \/ j - 1 \in DOMAIN u /\ s[j].name = u[j - 1] /\ u[j - 1] \in E
        \/ LET k == j - 1 - Len(u) IN k \in DOMAIN v /\ s[j].name = v[k] /\ v[k] \in W
    BY <1>2, <1>12, <1>15
  <2>4. CASE i - 1 \in DOMAIN u /\ j - 1 \in DOMAIN u /\ u[i - 1] = u[j - 1]
    <3>1. i - 1 = j - 1
      BY <1>5, <2>4
    <3> QED BY <2>1, <3>1
  <2>5. CASE LET k == i - 1 - Len(u)
                 m == j - 1 - Len(u) IN
             k \in DOMAIN v /\ m \in DOMAIN v /\ v[k] = v[m]
    <3>1. i - 1 - Len(u) = j - 1 - Len(u)
      BY <1>6, <2>5
    <3> QED BY <2>1, <3>1
  <2> QED BY <1>3, <1>15, <2>2, <2>3, <2>4, <2>5
<1> QED BY <1>10, <1>11, <1>13, <1>14, <1>15 DEF OneServerEach, N, s

IsServer(x, name, tls) ==
    /\ x.name = name /\ ~x.default /\ x.secret = TLSSecretName(name, tls)
    /\ x.locations = ServerLocations(name) /\ x.block = ServerBlockContent(name) /\ ~x.http
IsDefault(x) ==
    /\ x.name = None /\ x.default /\ x.secret = None
    /\ x.locations = LocationsOf(None) /\ x.block = DefaultBlock /\ x.http

\* What is rendered: those servers, of which the default one has the options of
\* the HTTP port, and the first one with a certificate those of the HTTPS port.
RightServers(servers, tls) ==
    LET secured == {i \in DOMAIN servers : servers[i].secret # None} IN
    /\ DOMAIN servers = 1 .. Len(servers) /\ Len(servers) \in Nat /\ 1 \in DOMAIN servers
    /\ IsDefault(servers[1])
    /\ \A i \in DOMAIN servers : i # 1 =>
          \E name \in NamedServers(tls) : IsServer(servers[i], name, tls)
    /\ \A name \in NamedServers(tls) : \E i \in DOMAIN servers :
          i # 1 /\ IsServer(servers[i], name, tls)
    /\ \A i, j \in DOMAIN servers : servers[i].name = servers[j].name => i = j
    /\ \A i \in DOMAIN servers :
          servers[i].https <=> i \in secured /\ \A j \in secured : i <= j

LEMMA Rendered ==
    ASSUME NEW tls, IsFiniteSet(NamedServers(tls)), None \notin NamedServers(tls)
    PROVE  RightServers(Render(tls), tls)
<1> DEFINE N == NamedServers(tls)
           m == produceServers(tls)
           s == Render(tls)
           D == DOMAIN m
           first(S) == {i \in S : \A j \in S : i <= j}
           http == first({j \in D : m[j].default})
           secured == {j \in D : m[j].secret # None}
           https == first(secured)
<1>1. s = [i \in D |-> [m[i] EXCEPT !.http = i \in http, !.https = i \in https]]
  BY DEF Render, initListenOptions
<1>2. /\ D = 1 .. Len(m) /\ Len(m) \in Nat /\ 1 \in D /\ m[1] = DefaultServer
      /\ \A i \in D : i # 1 => \E name \in N : m[i] = Server(name, tls)
      /\ \A name \in N : \E i \in D : i # 1 /\ m[i] = Server(name, tls)
      /\ \A i, j \in D : i # 1 /\ j # 1 /\ m[i].name = m[j].name => i = j
  BY Produced DEF OneServerEach
<1>3. ASSUME NEW name
      PROVE  LET x == Server(name, tls) IN
             /\ x = [name |-> x.name, default |-> x.default, secret |-> x.secret,
                     locations |-> x.locations, block |-> x.block, http |-> x.http,
                     https |-> x.https]
             /\ x.name = name /\ ~x.default /\ x.secret = TLSSecretName(name, tls)
             /\ x.locations = ServerLocations(name) /\ x.block = ServerBlockContent(name)
  BY DEF Server
<1>4. LET x == DefaultServer IN
      /\ x = [name |-> x.name, default |-> x.default, secret |-> x.secret,
              locations |-> x.locations, block |-> x.block, http |-> x.http, https |-> x.https]
      /\ x.name = None /\ x.default /\ x.secret = None
      /\ x.locations = LocationsOf(None) /\ x.block = DefaultBlock
  BY DEF DefaultServer
<1> HIDE DEF m, s, N
<1>5. \A i \in D : m[i] = [name |-> m[i].name, default |-> m[i].default, secret |-> m[i].secret,
                           locations |-> m[i].locations, block |-> m[i].block,
                           http |-> m[i].http, https |-> m[i].https]
  BY <1>2, <1>3, <1>4
<1>6. http = {1}
  <2>1. \A j \in D : m[j].default <=> j = 1
    BY <1>2, <1>3, <1>4
  <2>2. {j \in D : m[j].default} = {1}
    BY <1>2, <2>1
  <2> QED BY <2>2
<1> HIDE DEF D, http, https
<1>7. ASSUME NEW i \in D
      PROVE  /\ s[i].name = m[i].name /\ s[i].default = m[i].default
             /\ s[i].secret = m[i].secret /\ s[i].locations = m[i].locations
             /\ s[i].block = m[i].block
             /\ s[i].http <=> i = 1
             /\ s[i].https <=> i \in https
  <2> DEFINE h == i \in http
             k == i \in https
  <2>1. s[i] = [m[i] EXCEPT !.http = h, !.https = k]
    BY <1>1
  <2>2. s[i] = [name |-> m[i].name, default |-> m[i].default, secret |-> m[i].secret,
                locations |-> m[i].locations, block |-> m[i].block,
                http |-> h, https |-> k]
    BY <1>5, <2>1
  <2> HIDE DEF h, k
  <2>3. /\ s[i].name = m[i].name /\ s[i].default = m[i].default
        /\ s[i].secret = m[i].secret /\ s[i].locations = m[i].locations
        /\ s[i].block = m[i].block
    BY <2>2
  <2>4. s[i].http = h /\ s[i].https = k
    BY <2>2
  <2>5. (h <=> i = 1) /\ (k <=> i \in https)
    BY <1>6 DEF h, k
  <2> QED BY <2>3, <2>4, <2>5
<1>8. DOMAIN s = D /\ Len(s) = Len(m)
  <2>1. DOMAIN s = D
    BY <1>1
  <2>2. DOMAIN s = 1 .. Len(m)
    BY <1>2, <2>1 DEF D
  <2> QED BY <1>2, <2>1, <2>2
<1>9. {i \in D : s[i].secret # None} = secured
  BY <1>7
<1>10. IsDefault(s[1])
  BY <1>2, <1>4, <1>7 DEF IsDefault
<1>11. ASSUME NEW i \in D, i # 1
       PROVE  /\ s[i].name \in N /\ \E name \in N : IsServer(s[i], name, tls)
  <2>1. PICK name \in N : m[i] = Server(name, tls)
    BY <1>2, <1>11
  <2>2. IsServer(s[i], name, tls) /\ s[i].name = name
    BY <1>3, <1>7, <1>11, <2>1 DEF IsServer
  <2> QED BY <2>2
<1>12. ASSUME NEW name \in N
       PROVE  \E i \in D : i # 1 /\ IsServer(s[i], name, tls)
  <2>1. PICK i \in D : i # 1 /\ m[i] = Server(name, tls)
    BY <1>2
  <2>2. IsServer(s[i], name, tls)
    BY <1>3, <1>7, <2>1 DEF IsServer
  <2> QED BY <2>1, <2>2
<1>13. ASSUME NEW i \in D, NEW j \in D, s[i].name = s[j].name
       PROVE  i = j
  <2>1. CASE i # 1 /\ j # 1
    BY <1>2, <1>7, <1>13, <2>1
  <2>2. CASE i = 1 \/ j = 1
    BY <1>10, <1>11, <1>13, <2>2 DEF IsDefault, N
  <2> QED BY <2>1, <2>2
<1>14. \A i \in D : s[i].https <=> i \in secured /\ \A j \in secured : i <= j
  BY <1>7 DEF https
<1> HIDE DEF secured
<1> QED BY <1>2, <1>8, <1>9, <1>10, <1>11, <1>12, <1>13, <1>14 DEF RightServers, N, s

----------------------------------------------------------------------------
(* The keys of routes and server blocks, and what is rendered of them. *)

\* Routes have a server and a path, and server blocks a server.
RightKeys(fs) ==
    /\ \A e \in SetOf(fs[Locations]) : e.key = <<e.key[1], e.key[2]>>
    /\ \A e \in SetOf(fs[ServerBlocks]) : e.key = <<e.key[1], ServerBlock>> /\ e.key[1] # None

CopiesHaveKeys == \A c \in Clients : call[c].pc = "patch" => RightKeys(call[c].copy)
KeysInv == EditsInv /\ RightKeys(fields) /\ CopiesHaveKeys

LEMMA EditedKeys ==
    ASSUME NEW x \in Inputs, NEW copy, copy = [f \in Fields |-> copy[f]],
           Accepts(copy, x), \A l \in Lists : Keyed(copy[l]), RightKeys(copy)
    PROVE  RightKeys(Edited(copy, x))
<1> DEFINE new == Edited(copy, x)
           e == ValueOf(x)
<1>1. /\ Locations \in Fields /\ ServerBlocks \in Fields /\ Locations # ServerBlocks
      /\ \A t : <<"block", t>> # Locations /\ <<"block", t>> # ServerBlocks
      /\ Locations \in Lists /\ ServerBlocks \in Lists
  BY UnitKinds DEF Units, Locations, ServerBlocks
<1>2. Keyed(copy[Locations]) /\ Keyed(copy[ServerBlocks])
  BY <1>1
<1>3. e.key = x.key /\ (Tracked(x) => e \in Entries)
  BY DEF ValueOf, Entries
<1> HIDE DEF e
<1>4. CASE x.op = "UpdateRoute"
  <2>1. new = [copy EXCEPT ![Locations] = Replaced(copy[Locations], e)]
    BY <1>4 DEF Edited, UpdateRoute, e
  <2>2. new[Locations] = Replaced(copy[Locations], e) /\ new[ServerBlocks] = copy[ServerBlocks]
    BY <1>1, <2>1
  <2>3. e \in Entries /\ e.key = <<e.key[1], e.key[2]>>
    BY <1>3, <1>4, UnitOf, KeysAssumption DEF IsEdit
  <2>4. \A y \in SetOf(new[Locations]) : y = e \/ y \in SetOf(copy[Locations])
    BY <1>2, <2>2, <2>3, ReplacedList
  <2> HIDE DEF new
  <2> QED BY <2>2, <2>3, <2>4 DEF RightKeys, new
<1>5. CASE x.op = "DeleteRoute"
  <2>1. new = [copy EXCEPT ![Locations] = Removed(copy[Locations], x.key)]
    BY <1>5 DEF Edited, DeleteRoute
  <2>2. new[Locations] = Removed(copy[Locations], x.key) /\ new[ServerBlocks] = copy[ServerBlocks]
    BY <1>1, <2>1
  <2>3. IndexOf(copy[Locations], x.key) # {}
    BY <1>5 DEF Accepts
  <2>4. \A y \in SetOf(new[Locations]) : y \in SetOf(copy[Locations])
    BY <1>2, <2>2, <2>3, RemovedList
  <2> HIDE DEF new
  <2> QED BY <2>2, <2>4 DEF RightKeys, new
<1>6. CASE x.op = "UpdateBlock" /\ x.server # None
  <2>1. new = [copy EXCEPT ![ServerBlocks] = Replaced(copy[ServerBlocks], e)]
    BY <1>6 DEF Edited, UpdateBlock, e
  <2>2. new[ServerBlocks] = Replaced(copy[ServerBlocks], e) /\ new[Locations] = copy[Locations]
    BY <1>1, <2>1
  <2>3. x.key = <<x.server, x.type>> /\ x.type = ServerBlock
    BY <1>6, KeysAssumption DEF Accepts, validateBlock
  <2>4. e \in Entries /\ e.key = <<e.key[1], ServerBlock>> /\ e.key[1] # None
    BY <1>3, <1>6, <2>3, UnitOf DEF IsEdit
  <2>5. \A y \in SetOf(new[ServerBlocks]) : y = e \/ y \in SetOf(copy[ServerBlocks])
    BY <1>2, <2>2, <2>4, ReplacedList
  <2> HIDE DEF new
  <2> QED BY <2>2, <2>4, <2>5 DEF RightKeys, new
<1>7. CASE x.op = "DeleteBlock" /\ x.server # None
  <2>1. new = [copy EXCEPT ![ServerBlocks] = Removed(copy[ServerBlocks], x.key)]
    BY <1>7 DEF Edited, DeleteBlock
  <2>2. new[ServerBlocks] = Removed(copy[ServerBlocks], x.key) /\ new[Locations] = copy[Locations]
    BY <1>1, <2>1
  <2>3. IndexOf(copy[ServerBlocks], x.key) # {}
    BY <1>7 DEF Accepts
  <2>4. \A y \in SetOf(new[ServerBlocks]) : y \in SetOf(copy[ServerBlocks])
    BY <1>2, <2>2, <2>3, RemovedList
  <2> HIDE DEF new
  <2> QED BY <2>2, <2>4 DEF RightKeys, new
<1>8. CASE x.op \in {"UpdateBlock", "DeleteBlock"} /\ x.server = None
  <2>1. new = [copy EXCEPT ![<<"block", x.type>>] = new[<<"block", x.type>>]]
    BY <1>8 DEF Edited, UpdateBlock, DeleteBlock
  <2> HIDE DEF new
  <2>2. new[Locations] = copy[Locations] /\ new[ServerBlocks] = copy[ServerBlocks]
    BY <1>1, <2>1
  <2> QED BY <2>2 DEF RightKeys, new
<1>9. CASE ~IsEdit(x)
  <2>1. new = Assigned(copy, x)
    BY <1>9 DEF Edited, IsEdit
  <2>2. Locations \notin DOMAIN Wants(x) /\ ServerBlocks \notin DOMAIN Wants(x)
    BY <1>1, WantsPlain, UnitKinds DEF Units
  <2>3. new[Locations] = copy[Locations] /\ new[ServerBlocks] = copy[ServerBlocks]
    BY <1>1, <2>1, <2>2 DEF Assigned
  <2> HIDE DEF new
  <2> QED BY <2>3 DEF RightKeys, new
<1> QED BY <1>4, <1>5, <1>6, <1>7, <1>8, <1>9 DEF IsEdit

\* Requests that do not patch have no copy, and what they create has no lists.
LEMMA KeysMove ==
    ASSUME KeysInv, NEW c \in Clients, NEW q, call' = [call EXCEPT ![c] = q],
           q.pc = "patch" => RightKeys(q.copy)
    PROVE  CopiesHaveKeys'
<1>1. call'[c] = q /\ \A d \in Clients : d # c => call'[d] = call[d]
  BY OneCall DEF KeysInv, EditsInv
<1> QED BY <1>1 DEF KeysInv, CopiesHaveKeys

LEMMA KeysEnd ==
    ASSUME KeysInv, NEW c \in Clients, NEW a, End(c, a)
    PROVE  CopiesHaveKeys'
<1>1. call' = [call EXCEPT ![c] = Ended(a)] /\ Ended(a).pc # "patch"
  BY CallEnd DEF Ended
<1> QED BY <1>1, KeysMove

LEMMA KeysRefuse ==
    ASSUME KeysInv, NEW c \in Clients, Refuse(c)
    PROVE  RightKeys(fields') /\ CopiesHaveKeys'
BY KeysEnd DEF Refuse, Acknowledge, KeysInv

LEMMA NoKeys ==
    /\ RightKeys(Blank)
    /\ \A x \in Inputs : RightKeys(Assigned(Blank, x))
<1>1. Locations \in Lists /\ ServerBlocks \in Lists
  BY UnitKinds
<1>2. \A l \in Lists : l \in Fields /\ l \notin Plain
  BY UnitKinds DEF Units
<1>3. \A l \in Lists : Blank[l] = <<>>
  BY <1>2 DEF Blank
<1>4. \A x \in Inputs : \A l \in Lists : Assigned(Blank, x)[l] = <<>>
  BY <1>2, <1>3, WantsPlain DEF Assigned
<1>5. SetOf(<<>>) = {}
  BY DEF SetOf
<1> QED BY <1>1, <1>3, <1>4, <1>5 DEF RightKeys

LEMMA KeysGet ==
    ASSUME KeysInv, NEW c \in Clients, GetInstance(c)
    PROVE  RightKeys(fields') /\ CopiesHaveKeys'
<1> DEFINE x == call[c].in
           s == IF x.op = "DeleteInstance" THEN "delete" ELSE "patch"
           q == HasRead(c, s)
<1>1. CASE exists /\ Accepts(fields, x)
  <2>1. call' = [call EXCEPT ![c] = q] /\ fields' = fields
    BY <1>1, CallRead DEF GetInstance, KeysInv, EditsInv
  <2>2. q.copy = fields
    BY DEF HasRead
  <2> HIDE DEF q
  <2> QED BY <2>1, <2>2, KeysMove DEF KeysInv
<1>2. CASE ~(exists /\ Accepts(fields, x))
  BY <1>2, KeysRefuse DEF GetInstance
<1> QED BY <1>1, <1>2

LEMMA KeysValidate ==
    ASSUME KeysInv, NEW c \in Clients, ValidateCreate(c)
    PROVE  RightKeys(fields') /\ CopiesHaveKeys'
<1>1. CASE validateCreate(call[c].in)
  <2> DEFINE q == [call[c] EXCEPT !.pc = "create"]
  <2>1. call' = [call EXCEPT ![c] = q] /\ fields' = fields /\ q.pc = "create"
    BY <1>1 DEF ValidateCreate, KeysInv, EditsInv, Shape, IsRecord
  <2> HIDE DEF q
  <2> QED BY <2>1, KeysMove DEF KeysInv
<1>2. CASE ~validateCreate(call[c].in)
  BY <1>2, KeysRefuse DEF ValidateCreate
<1> QED BY <1>1, <1>2

\* A list of the patched instance is as the edit or as the stored one.
LEMMA KeysPatch ==
    ASSUME KeysInv, NEW c \in Clients, NEW a, PatchInstance(c, a)
    PROVE  RightKeys(fields') /\ CopiesHaveKeys'
<1> DEFINE q == call[c]
           new == Edited(q.copy, q.in)
<1>1. CASE exists
  <2>1. q.pc = "patch" /\ fields' = Patched(fields, q.copy, new) /\ End(c, a)
    BY <1>1 DEF PatchInstance, Acknowledge
  <2>2. /\ q.in \in Inputs /\ q.copy = [f \in Fields |-> q.copy[f]]
        /\ Accepts(q.copy, q.in) /\ \A l \in Lists : Keyed(q.copy[l])
        /\ RightKeys(q.copy) /\ RightKeys(fields)
    BY <2>1 DEF KeysInv, EditsInv, Shape, Kept, CopiesAccepted, CopiesHaveKeys
  <2>3. RightKeys(new)
    BY <2>2, EditedKeys
  <2> HIDE DEF new
  <2>4. Locations \in Fields /\ ServerBlocks \in Fields
    BY UnitKinds DEF Units
  <2>5. \A l \in {Locations, ServerBlocks} : fields'[l] = new[l] \/ fields'[l] = fields[l]
    BY <2>1, <2>4 DEF Patched
  <2>6. RightKeys(fields')
    BY <2>2, <2>3, <2>5 DEF RightKeys
  <2> QED BY <2>1, <2>6, KeysEnd
<1>2. CASE ~exists
  BY <1>2, KeysRefuse DEF PatchInstance
<1> QED BY <1>1, <1>2

LEMMA KeysLife ==
    ASSUME KeysInv, NEW c \in Clients, NEW a, DeleteInstance(c, a) \/ CreateInstance(c, a)
    PROVE  RightKeys(fields') /\ CopiesHaveKeys'
<1>1. CASE Refuse(c)
  BY <1>1, KeysRefuse
<1>2. CASE DeleteInstance(c, a) /\ ~Refuse(c)
  BY <1>2, NoKeys, KeysEnd DEF DeleteInstance, Acknowledge
<1>3. CASE CreateInstance(c, a) /\ ~Refuse(c)
  <2>1. call[c].in \in Inputs
    BY <1>3 DEF CreateInstance, KeysInv, EditsInv, Shape
  <2>2. fields' = Assigned(Blank, call[c].in) /\ End(c, a)
    BY <1>3 DEF CreateInstance, Acknowledge
  <2> QED BY <2>1, <2>2, NoKeys, KeysEnd
<1> QED BY <1>1, <1>2, <1>3

LEMMA TheFirst ==
    ASSUME NEW S \in SUBSET Nat, S # {}
    PROVE  \E k \in S : \A j \in S : k <= j
<1>1. \E x \in S : \A y \in S : ~(<<y, x>> \in OpToRel(<, Nat))
  BY NatLessThanWellFounded, WFMin
<1>2. PICK k \in S : \A j \in S : ~(j < k)
  BY <1>1 DEF OpToRel
<1>3. \A j \in S : k <= j
  BY <1>2
<1> QED BY <1>3

LEMMA ListKeys ==
    ASSUME KeysInv
    PROVE  /\ Keyed(fields[Locations]) /\ Keyed(fields[ServerBlocks])
           /\ Routes(fields[Locations])
           /\ \A e \in ToSet(fields[ServerBlocks]) :
                 e.key = <<e.key[1], ServerBlock>> /\ e.key[1] # None
<1>1. Keyed(fields[Locations]) /\ Keyed(fields[ServerBlocks])
  BY UnitKinds DEF KeysInv, EditsInv, Kept, KeyedLists
<1> QED BY <1>1, TheSet DEF KeysInv, RightKeys, Routes

LEMMA FewNames ==
    ASSUME NEW list, Keyed(list)
    PROVE  IsFiniteSet(NamesIn(list))
<1> DEFINE D == DOMAIN list
           T == {list[i].key[1] : i \in D}
           f == [i \in D |-> list[i].key[1]]
<1>1. IsFiniteSet(D)
  BY OfList, FS_Interval
<1>2. f \in Surjection(D, T)
  BY DEF Surjection
<1> HIDE DEF f, D
<1>3. IsFiniteSet(T)
  BY <1>1, <1>2, FS_Surjection
<1>4. NamesIn(list) \subseteq T
  BY TheSet DEF NamesIn, SetOf, D
<1> HIDE DEF T
<1> QED BY <1>3, <1>4, FS_Subset

LEMMA RightlyServed ==
    ASSUME KeysInv, NEW tls \in Certificates
    PROVE  RightServers(Render(tls), tls)
<1>1. IsFiniteSet(NamesIn(fields[Locations])) /\ IsFiniteSet(NamesIn(fields[ServerBlocks]))
  BY ListKeys, FewNames
<1>2. IsFiniteSet(DOMAIN tls) /\ None \notin DOMAIN tls
  BY NamesAssumption
<1>3. IsFiniteSet(NamedServers(tls))
  BY <1>1, <1>2, FS_Union DEF NamedServers
<1>4. None \notin NamedServers(tls)
  BY <1>2 DEF NamedServers, NamesIn
<1> QED BY <1>3, <1>4, Rendered

\* What is in a list with one route of each path is found by its path.
LEMMA FoundByPath ==
    ASSUME NEW t, OnePath(t), NEW e \in ToSet(t)
    PROVE  \E i \in DOMAIN t : {j \in DOMAIN t : t[j].key[2] = e.key[2]} = {i} /\ t[i] = e
<1>1. PICK i \in DOMAIN t : t[i] = e
  BY TheSet DEF SetOf
<1>2. {j \in DOMAIN t : t[j].key[2] = e.key[2]} = {i}
  BY <1>1 DEF OnePath
<1> QED BY <1>1, <1>2

LEMMA RouteServed ==
    ASSUME KeysInv, NEW tls \in Certificates, NEW e \in ToSet(fields[Locations]),
           NEW server \in ToSet(Render(tls)),
           \/ e.key[1] = server.name
           \/ e.key[1] = None /\ \A g \in ToSet(fields[Locations]) :
                 g.key # <<server.name, e.key[2]>>
    PROVE  \E i \in DOMAIN server.locations :
              Locating(server, e.key[2]) = {i} /\ server.locations[i] = e
<1> DEFINE n == server.name
           t == server.locations
<1>1. PICK k \in DOMAIN Render(tls) : server = Render(tls)[k]
  BY TheSet DEF SetOf
<1>2. IsDefault(server) \/ \E name \in NamedServers(tls) : IsServer(server, name, tls)
  BY <1>1, RightlyServed DEF RightServers
<1>3. Routes(fields[Locations])
  BY ListKeys
<1>4. \A name : /\ OnePath(LocationsOf(name))
                /\ ToSet(LocationsOf(name)) = {g \in ToSet(fields[Locations]) : g.key[1] = name}
  BY <1>3, RoutesOf
<1>5. OnePath(t) /\ e \in ToSet(t)
  <2>1. CASE IsDefault(server)
    <3>1. t = LocationsOf(None) /\ e.key[1] = None
      BY <2>1 DEF IsDefault
    <3> QED BY <1>4, <3>1
  <2>2. CASE \E name \in NamedServers(tls) : IsServer(server, name, tls)
    <3>1. t = ServerLocations(n)
      BY <2>2 DEF IsServer
    <3>2. /\ OnePath(t) /\ ToSet(LocationsOf(n)) \subseteq ToSet(t)
          /\ \A x \in ToSet(LocationsOf(None)) :
                (\A g \in ToSet(LocationsOf(n)) : g.key[2] # x.key[2]) => x \in ToSet(t)
      <4> HIDE DEF n, t
      <4> QED BY <1>4, <3>1, RoutesOfServer
    <3>3. CASE e.key[1] = n
      BY <1>4, <3>2, <3>3
    <3>4. CASE /\ e.key[1] = None
               /\ \A g \in ToSet(fields[Locations]) : g.key # <<n, e.key[2]>>
      <4>1. \A g \in ToSet(fields[Locations]) : g.key = <<g.key[1], g.key[2]>>
        BY <1>3 DEF Routes
      <4>2. \A g \in ToSet(LocationsOf(n)) : g.key[2] # e.key[2]
        BY <1>4, <3>4, <4>1
      <4>3. e \in ToSet(LocationsOf(None))
        BY <1>4, <3>4
      <4> QED BY <3>2, <4>2, <4>3
    <3> QED BY <3>3, <3>4
  <2> QED BY <1>2, <2>1, <2>2
<1>6. Locating(server, e.key[2]) = {j \in DOMAIN t : t[j].key[2] = e.key[2]}
  BY DEF Locating
<1> QED BY <1>5, <1>6, FoundByPath

\* The upstream of a route with a destination, if it has a name of its own.
LEMMA RouteProxied ==
    ASSUME KeysInv, NEW e \in ToSet(fields[Locations]), e.value \in Destinations
    PROVE  LET named == {i \in DOMAIN Upstreams : Upstreams[i].key = LocationKey[e.key[2]]}
           IN Cardinality(named) = 1 => \A i \in named : Upstreams[i].to = e.value
<1> DEFINE routes == fields[Locations]
           S == {x \in ToSet(routes) : x.value \in Destinations}
           proxied == Selected(routes, S)
           named == {i \in DOMAIN Upstreams : Upstreams[i].key = LocationKey[e.key[2]]}
<1>1. Upstreams = [i \in DOMAIN proxied |->
                      [key |-> LocationKey[proxied[i].key[2]], to |-> proxied[i].value]]
  BY DEF Upstreams
<1>2. routes \in Seq(Entries)
  BY ListKeys DEF Keyed
<1>3. e \in S /\ e \in ToSet(routes)
  OBVIOUS
<1> HIDE DEF S, routes
<1>4. proxied \in Seq(Entries) /\ ToSet(proxied) = ToSet(routes) \cap S
  BY <1>2, SelectedIs
<1> HIDE DEF proxied
<1>5. PICK k \in DOMAIN proxied : proxied[k] = e
  BY <1>3, <1>4, TheSet DEF SetOf
<1>6. k \in named /\ Upstreams[k].to = e.value
  BY <1>1, <1>5
<1>7. IsFiniteSet(named)
  <2>1. IsFiniteSet(1 .. Len(proxied)) /\ DOMAIN proxied = 1 .. Len(proxied)
    BY <1>4, FS_Interval
  <2>2. named \subseteq 1 .. Len(proxied)
    BY <1>1, <2>1
  <2> HIDE DEF named
  <2> QED BY <2>1, <2>2, FS_Subset
<1> HIDE DEF named
<1>8. ASSUME Cardinality(named) = 1, NEW i \in named
      PROVE  Upstreams[i].to = e.value
  <2>1. PICK x : named = {x}
    BY <1>7, <1>8, FS_Singleton
  <2> QED BY <1>6, <1>8, <2>1
<1> QED BY <1>8 DEF named

\* A server block that was set is the one of its server.
LEMMA BlockServed ==
    ASSUME KeysInv, NEW tls \in Certificates, NEW e \in ToSet(fields[ServerBlocks])
    PROVE  \E s \in ToSet(Render(tls)) :
              /\ s.name = e.key[1] /\ s.block # <<>> /\ Last(s.block) = e.value.content
              /\ ~e.value.extend => Len(s.block) = 1
<1> DEFINE list == fields[ServerBlocks]
           name == e.key[1]
           own == {i \in DOMAIN list : list[i].key[1] = name}
           before == IF e.value.extend THEN DefaultBlock ELSE <<>>
           block == before \o <<e.value.content>>
<1>1. /\ Keyed(list) /\ \A x \in ToSet(list) : x.key = <<x.key[1], ServerBlock>>
      /\ name # None
  BY ListKeys
<1>2. name \in NamedServers(tls)
  BY <1>1 DEF NamedServers, NamesIn
<1>3. PICK k \in DOMAIN Render(tls) : IsServer(Render(tls)[k], name, tls)
  BY <1>2, RightlyServed DEF RightServers
<1>4. PICK i \in DOMAIN list : list[i] = e
  BY TheSet DEF SetOf
<1>5. own = {i} /\ i \in Nat
  <2>1. \A j \in DOMAIN list : list[j] \in ToSet(list)
    BY TheSet DEF SetOf
  <2>2. \A j \in own : list[j].key = e.key
    BY <1>1, <1>4, <2>1
  <2>3. DOMAIN list \subseteq Nat /\ \A a, b \in DOMAIN list : list[a].key = list[b].key => a = b
    BY <1>1, OfList DEF Keyed
  <2> QED BY <1>4, <2>2, <2>3
<1>6. ServerBlockContent(name) = block
  <2>1. list[Max(own)] = e /\ own # {}
    BY <1>4, <1>5, TheOnly
  <2> QED BY <2>1 DEF ServerBlockContent
<1>7. \E n \in {0, 1} : /\ Len(before) = n /\ before = [j \in 1 .. n |-> before[j]]
                        /\ ~e.value.extend => n = 0
  BY DEF DefaultBlock
<1> HIDE DEF before
<1>8. /\ Len(block) = Len(before) + 1 /\ block # <<>> /\ block[Len(block)] = e.value.content
      /\ ~e.value.extend => Len(block) = 1
  BY <1>7
<1>9. Render(tls)[k] \in ToSet(Render(tls))
  BY TheSet DEF SetOf
<1> QED BY <1>3, <1>6, <1>8, <1>9 DEF IsServer, Last

\* A server whose name or wildcard has a certificate is given one.
LEMMA Secured ==
    ASSUME NEW tls \in Certificates, NEW s,
           IsDefault(s) \/ \E name : IsServer(s, name, tls),
           WildcardOf[s.name] \in DOMAIN tls
    PROVE  s.secret # None
<1>1. None \notin DOMAIN tls /\ (\A h \in DOMAIN tls : tls[h] # None) /\ WildcardOf[None] = None
  BY NamesAssumption
<1>2. CASE IsDefault(s)
  BY <1>1, <1>2 DEF IsDefault
<1>3. CASE \E name : IsServer(s, name, tls)
  BY <1>1, <1>3 DEF IsServer, TLSSecretName
<1> QED BY <1>2, <1>3

LEMMA Listening ==
    ASSUME KeysInv, NEW tls \in Certificates
    PROVE  LET D == DOMAIN Render(tls)
               s == Render(tls) IN
           /\ Cardinality({i \in D : s[i].default}) = 1
           /\ Cardinality({i \in D : s[i].default /\ s[i].http}) = 1
           /\ \A i, j \in D : s[i].name = s[j].name => i = j
           /\ (\E x \in ToSet(s) : x.secret # None) =>
                 /\ Cardinality({i \in D : s[i].https /\ s[i].secret # None}) = 1
                 /\ Cardinality({i \in D : s[i].https}) = 1
           /\ \A x \in ToSet(s) : WildcardOf[x.name] \in DOMAIN tls => x.secret # None
<1> DEFINE s == Render(tls)
           D == DOMAIN s
           secured == {i \in D : s[i].secret # None}
<1>1. /\ D = 1 .. Len(s) /\ Len(s) \in Nat /\ 1 \in D /\ IsDefault(s[1])
      /\ \A i \in D : i # 1 => \E name \in NamedServers(tls) : IsServer(s[i], name, tls)
      /\ \A i, j \in D : s[i].name = s[j].name => i = j
      /\ \A i \in D : s[i].https <=> i \in secured /\ \A j \in secured : i <= j
  BY RightlyServed DEF RightServers
<1> HIDE DEF s
<1>2. {i \in D : s[i].default} = {1} /\ {i \in D : s[i].default /\ s[i].http} = {1}
  BY <1>1 DEF IsDefault, IsServer
<1>3. ASSUME \E x \in ToSet(s) : x.secret # None
      PROVE  \E k : /\ {i \in D : s[i].https /\ s[i].secret # None} = {k}
                    /\ {i \in D : s[i].https} = {k}
  <2>1. secured # {} /\ secured \subseteq Nat
    BY <1>1, <1>3, TheSet DEF SetOf
  <2>2. PICK k \in secured : \A j \in secured : k <= j
    <3> HIDE DEF secured
    <3> QED BY <2>1, TheFirst
  <2>3. \A i \in D : s[i].https <=> i = k
    BY <1>1, <2>1, <2>2
  <2> QED BY <2>2, <2>3
<1>4. \A x \in ToSet(s) : WildcardOf[x.name] \in DOMAIN tls => x.secret # None
  <2>1. \A x \in ToSet(s) : IsDefault(x) \/ \E name : IsServer(x, name, tls)
    BY <1>1, TheSet DEF SetOf
  <2> QED BY <2>1, Secured
<1>5. \A k : Cardinality({k}) = 1
  BY FS_Singleton
<1> QED BY <1>1, <1>2, <1>3, <1>4, <1>5 DEF s

THEOREM KeysInvariance == Spec => []KeysInv
<1>1. Init => KeysInv
  <2> SUFFICES ASSUME Init PROVE RightKeys(fields) /\ CopiesHaveKeys
    BY EditsInvInit DEF KeysInv
  <2>1. RightKeys(fields)
    BY NoKeys DEF Init
  <2>2. CopiesHaveKeys
    BY DEF Init, Idle, CopiesHaveKeys
  <2> QED BY <2>1, <2>2
<1>2. KeysInv /\ [Next]_vars => KeysInv'
  <2> SUFFICES ASSUME KeysInv, [Next]_vars PROVE RightKeys(fields') /\ CopiesHaveKeys'
    BY EditsInvStep DEF KeysInv, RightKeys
  <2>1. ASSUME NEW c \in Clients, NEW x \in Inputs, Begin(c, x)
        PROVE  RightKeys(fields') /\ CopiesHaveKeys'
    <3>1. call' = [call EXCEPT ![c] = Began(x)] /\ Began(x).pc # "patch" /\ fields' = fields
      BY <2>1, CallBegin DEF Began, Begin
    <3> QED BY <3>1, KeysMove DEF KeysInv
  <2>2. ASSUME NEW c \in Clients, GetInstance(c) \/ ValidateCreate(c)
        PROVE  RightKeys(fields') /\ CopiesHaveKeys'
    BY <2>2, KeysGet, KeysValidate
  <2>3. ASSUME NEW c \in Clients, CallFails(c)
        PROVE  RightKeys(fields') /\ CopiesHaveKeys'
    BY <2>3, KeysRefuse DEF CallFails
  <2>4. ASSUME NEW c \in Clients, NEW a \in Answers,
               PatchInstance(c, a) \/ DeleteInstance(c, a) \/ CreateInstance(c, a)
        PROVE  RightKeys(fields') /\ CopiesHaveKeys'
    BY <2>4, KeysPatch, KeysLife
  <2>5. CASE UNCHANGED vars
    BY <2>5 DEF vars, KeysInv, CopiesHaveKeys
  <2> QED BY <2>1, <2>2, <2>3, <2>4, <2>5 DEF Next
<1> QED BY <1>1, <1>2, PTL DEF Spec

\* Whatever edits came in, in whatever order: a route is served by its server
\* and nobody else's route takes its place, a route of all servers by each one
\* that has none of its own for that path, no server has a path twice, and a
\* request goes to the destination of its route if no other route has an
\* upstream of the same name.
THEOREM RoutesServedAlways == Spec => []RoutesServed
<1>1. KeysInv => RoutesServed
  <2> SUFFICES ASSUME KeysInv, NEW tls \in Certificates, NEW e \in ToSet(fields[Locations])
               PROVE  /\ \A server \in ToSet(Render(tls)) :
                            LET own == e.key[1] = server.name
                                served == \/ own
                                          \/ e.key[1] = None /\ \A g \in ToSet(fields[Locations]) :
                                                g.key # <<server.name, e.key[2]>>
                            IN served => \E i \in DOMAIN server.locations :
                                            /\ Locating(server, e.key[2]) = {i}
                                            /\ server.locations[i] = e
                      /\ \E server \in ToSet(Render(tls)) : server.name = e.key[1]
                      /\ e.value \in Destinations =>
                            LET named == {i \in DOMAIN Upstreams :
                                             Upstreams[i].key = LocationKey[e.key[2]]}
                            IN Cardinality(named) = 1 =>
                                  \A i \in named : Upstreams[i].to = e.value
    BY DEF RoutesServed
  <2>1. \E server \in ToSet(Render(tls)) : server.name = e.key[1]
    <3>1. \A k \in DOMAIN Render(tls) : Render(tls)[k] \in ToSet(Render(tls))
      BY TheSet DEF SetOf
    <3>2. 1 \in DOMAIN Render(tls) /\ Render(tls)[1].name = None
      BY RightlyServed DEF RightServers, IsDefault
    <3>3. e.key[1] # None => \E k \in DOMAIN Render(tls) : Render(tls)[k].name = e.key[1]
      <4>1. e.key[1] # None => e.key[1] \in NamedServers(tls)
        BY DEF NamedServers, NamesIn
      <4> QED BY <4>1, RightlyServed DEF RightServers, IsServer
    <3> QED BY <3>1, <3>2, <3>3
  <2> QED BY <2>1, RouteServed, RouteProxied
<1> QED BY <1>1, KeysInvariance, PTL

\* Whatever servers the edits leave, each name has one server, the default one
\* has the options of the HTTP port and one with a certificate those of the
\* HTTPS port; a wildcard's certificate is given to the servers that it covers;
\* and the block that was set for a server is rendered in that server.
THEOREM ServersListenAlways == Spec => []ServersListen
<1>1. KeysInv => ServersListen
  BY Listening, BlockServed DEF ServersListen
<1> QED BY <1>1, KeysInvariance, PTL

----------------------------------------------------------------------------
(* Edits of binds and upstream options: UpstreamOptions, whose             *)
(* specification is OptionsSpec.                                           *)

EnsureArgs == [primary : Apps, canaries : SUBSET Apps,
               policy : PolicyArgs, balance : BalanceArgs]

----------------------------------------------------------------------------
(* What the edits return. *)

\* applyUpstreamOptionsDefaults changes neither the primary bind nor the
\* canaries, and a stored entry has the type of an option.
LEMMA WithDefaultsType ==
    ASSUME NEW args \in EnsureArgs
    PROVE  /\ WithDefaults(args) \in UpstreamOption
           /\ WithDefaults(args).primary = args.primary
           /\ WithDefaults(args).canaries = args.canaries
<1> DEFINE p == args.policy
           t == IF p.weight <= 100 THEN 100 ELSE p.weight * 10
<1>1. /\ args.policy \in Policy
      /\ args.balance \in Balance
      /\ args.primary \in Apps
      /\ args.canaries \in SUBSET Apps
  BY ArgsAssumption DEF EnsureArgs
<1>2. t \in Int
  <2>1. p.weight \in Int
    BY <1>1 DEF Policy
  <2> QED BY <2>1
<1>3. WithWeightTotal(p) \in Policy
  <2>1. [p EXCEPT !.weightTotal = t] \in Policy
    BY <1>1, <1>2 DEF Policy
  <2> QED BY <1>1, <2>1 DEF WithWeightTotal
<1>4. [args.balance EXCEPT !.algorithm = IF @ = "unset" THEN "round_robin" ELSE @]
          \in Balance
  BY <1>1 DEF Balance
<1> QED BY <1>1, <1>3, <1>4 DEF WithDefaults, EnsureArgs, UpstreamOption

\* An option that Nginx can be configured with.
Servable(x) ==
    /\ x.balance.algorithm \in {"round_robin", "chash", "ewma"}
    /\ x.balance.algorithm = "chash" <=> x.balance.hashKey
    /\ x.policy.header => x.policy.headerValue # x.policy.headerPattern
    /\ x.policy.weight > 0 => x.policy.weightTotal # 0

\* What passes the validations and then gets its defaults is such an option.
LEMMA EnsureIsServable ==
    ASSUME NEW args \in EnsureArgs, ValidateTrafficShapingOptions(args),
           ValidateLoadBalanceOptions(args)
    PROVE  Servable(WithDefaults(args))
<1> DEFINE e == WithDefaults(args)
           p == args.policy
           t == IF p.weight <= 100 THEN 100 ELSE p.weight * 10
<1>1. p \in Policy /\ args.balance \in Balance
  BY ArgsAssumption DEF EnsureArgs
<1>2. /\ e.policy = WithWeightTotal(p)
      /\ e.balance = [args.balance EXCEPT
                         !.algorithm = IF @ = "unset" THEN "round_robin" ELSE @]
  BY DEF WithDefaults, EnsureArgs
<1> HIDE DEF e
<1>3. /\ e.balance.hashKey = args.balance.hashKey
      /\ e.balance.algorithm = IF args.balance.algorithm = "unset"
                               THEN "round_robin" ELSE args.balance.algorithm
  BY <1>1, <1>2 DEF Balance
<1>4. /\ e.balance.algorithm \in {"round_robin", "chash", "ewma"}
      /\ e.balance.algorithm = "chash" <=> e.balance.hashKey
  <2>1. args.balance.algorithm \in {"unset", "round_robin", "chash", "ewma", "unknown"}
    BY <1>1 DEF Balance
  <2> QED
    BY <1>3, <2>1 DEF ValidateLoadBalanceOptions
<1>5. /\ e.policy.header = p.header
      /\ e.policy.headerValue = p.headerValue
      /\ e.policy.headerPattern = p.headerPattern
  BY <1>1, <1>2 DEF WithWeightTotal, Policy
<1>6. e.policy.header => e.policy.headerValue # e.policy.headerPattern
  <2>1. /\ p.header => p.headerValue \/ p.headerPattern
        /\ ~(p.headerValue /\ p.headerPattern)
    BY DEF ValidateTrafficShapingOptions
  <2>2. p.headerValue \in BOOLEAN /\ p.headerPattern \in BOOLEAN
    BY <1>1 DEF Policy
  <2> HIDE DEF p
  <2> QED
    BY <1>5, <2>1, <2>2
<1>7. e.policy.weight > 0 => e.policy.weightTotal # 0
  <2>1. p.weight \in Int
    BY <1>1 DEF Policy
  <2>2. p.weight > 0 => t # 0
    BY <2>1
  <2>3. /\ [p EXCEPT !.weightTotal = t].weight = p.weight
        /\ [p EXCEPT !.weightTotal = t].weightTotal = t
    BY <1>1 DEF Policy
  <2> QED
    BY <1>2, <2>2, <2>3 DEF WithWeightTotal
<1>8. Servable(e)
  BY <1>4, <1>6, <1>7 DEF Servable
<1> QED
  BY <1>8 DEF e

\* EnsureUpstreamOptions keeps the other entries and puts the new one in place
\* of the entry of the same primary bind.
LEMMA EnsureResultsOthers ==
    ASSUME NEW opts, IsCanaryForest(opts),
           NEW args \in EnsureArgs,
           NEW new \in EnsureResults(opts, args)
    PROVE  new = Others(opts, args.primary) \cup {WithDefaults(args)}
<1> DEFINE same == {uo \in opts : uo.primary = args.primary}
<1>1. CASE same = {}
  BY <1>1 DEF EnsureResults, Others
<1>2. CASE same # {}
  <2>1. PICK uo \in same : new = (opts \ {uo}) \cup {WithDefaults(args)}
    BY <1>2 DEF EnsureResults
  <2>2. opts \ {uo} = Others(opts, args.primary)
    BY <2>1 DEF IsCanaryForest, Others
  <2> QED BY <2>1, <2>2
<1> QED BY <1>1, <1>2

\* A validated EnsureUpstreamOptions turns a canary forest into another one.
LEMMA EnsureKeepsForest ==
    ASSUME NEW bs, NEW opts, IsCanaryForest(opts),
           NEW args \in EnsureArgs, CanEnsure(bs, opts, args),
           NEW new \in EnsureResults(opts, args)
    PROVE  IsCanaryForest(new)
<1> DEFINE others == Others(opts, args.primary)
           e == WithDefaults(args)
<1>1. /\ new = others \cup {e}
      /\ e.primary = args.primary
      /\ e.canaries = args.canaries
  BY EnsureResultsOthers, WithDefaultsType
<1> HIDE DEF e
<1>2. \A x \in others : x \in opts /\ x.primary # e.primary
  BY <1>1 DEF Others
<1>3. \A x, y \in new : x.primary = y.primary => x = y
  BY <1>1, <1>2 DEF IsCanaryForest
<1>4. ASSUME NEW c \in e.canaries
      PROVE  /\ c # e.primary
             /\ e.canaries = {c}
             /\ \E y \in new : y.primary = c /\ y.canaries = {}
             /\ \A y \in new : c \in y.canaries => y = e
  BY <1>1, <1>2, <1>4
     DEF CanEnsure, ValidateUpstreamOptionsArgs, ValidateCanaryBinds
<1>5. ASSUME NEW x \in others, NEW c \in x.canaries
      PROVE  /\ c # x.primary
             /\ x.canaries = {c}
             /\ \E y \in new : y.primary = c /\ y.canaries = {}
             /\ \A y \in new : c \in y.canaries => y = x
  <2>1. c # x.primary /\ x.canaries = {c}
    BY <1>2, <1>5 DEF IsCanaryForest
  <2>2. \E y \in new : y.primary = c /\ y.canaries = {}
    <3>1. CASE c = args.primary
      <4>1. IsReferencedAsCanary(opts, args.primary)
        BY <1>5, <3>1 DEF IsReferencedAsCanary
      <4> QED BY <1>1, <3>1, <4>1 DEF CanEnsure
    <3>2. CASE c # args.primary
      <4>1. PICK y \in opts : y.primary = c /\ y.canaries = {}
        BY <1>2, <1>5 DEF IsCanaryForest
      <4> QED BY <1>1, <3>2, <4>1 DEF Others
    <3> QED BY <3>1, <3>2
  <2>3. ASSUME NEW y \in new, c \in y.canaries
        PROVE  y = x
    <3>1. CASE y \in others
      BY <1>2, <1>5, <2>3, <3>1 DEF IsCanaryForest
    <3>2. CASE y = e
      BY <1>1, <1>5, <2>3, <3>2 DEF CanEnsure, ValidateCanaryBinds
    <3> QED BY <1>1, <3>1, <3>2
  <2> QED BY <2>1, <2>2, <2>3
<1> QED BY <1>1, <1>3, <1>4, <1>5 DEF IsCanaryForest

\* DeleteUpstreamOptions turns a canary forest into another one.
LEMMA DeleteKeepsForest ==
    ASSUME NEW opts \in SUBSET UpstreamOption, IsCanaryForest(opts),
           NEW app \in Apps
    PROVE  IsCanaryForest(DeleteResult(opts, app))
<1> DEFINE cut(uo) == [uo EXCEPT !.canaries = @ \ {app}]
           new == DeleteResult(opts, app)
<1>1. \A z \in new : \E uo \in opts : uo.primary # app /\ z = cut(uo)
  BY DEF DeleteResult, Others
<1>2. \A uo \in opts : uo.primary # app => cut(uo) \in new
  BY DEF DeleteResult, Others
<1>3. \A uo \in opts : /\ cut(uo).primary = uo.primary
                       /\ cut(uo).canaries = uo.canaries \ {app}
  BY DEF UpstreamOption
<1> HIDE DEF cut, new
<1>4. \A x, y \in new : x.primary = y.primary => x = y
  BY <1>1, <1>3 DEF IsCanaryForest
<1>5. ASSUME NEW z \in new, NEW c \in z.canaries
      PROVE  /\ c # z.primary
             /\ z.canaries = {c}
             /\ \E y \in new : y.primary = c /\ y.canaries = {}
             /\ \A y \in new : c \in y.canaries => y = z
  <2>1. PICK x \in opts : x.primary # app /\ z = cut(x)
    BY <1>1
  <2>2. c \in x.canaries /\ c # app
    BY <1>3, <1>5, <2>1
  <2>3. /\ c # x.primary
        /\ x.canaries = {c}
        /\ \E y \in opts : y.primary = c /\ y.canaries = {}
        /\ \A y \in opts : c \in y.canaries => y = x
    BY <2>2 DEF IsCanaryForest
  <2>4. c # z.primary /\ z.canaries = {c}
    BY <1>3, <2>1, <2>2, <2>3
  <2>5. \E y \in new : y.primary = c /\ y.canaries = {}
    BY <1>2, <1>3, <2>2, <2>3
  <2>6. \A y \in new : c \in y.canaries => y = z
    BY <1>1, <1>3, <2>1, <2>3
  <2> QED BY <2>4, <2>5, <2>6
<1>6. IsCanaryForest(new)
  BY <1>4, <1>5 DEF IsCanaryForest
<1> QED BY <1>6 DEF new
----------------------------------------------------------------------------
(* The inductive invariant. *)

\* The rules of options hold of the stored list and of every list
\* that a request is about to store: a stale patch carries a whole list that
\* was valid when it was read and stays valid however late it arrives.
WellFormed(opts) ==
    /\ IsCanaryForest(opts)
    /\ IsShapedByCanary(opts)
    /\ \A x \in opts : Servable(x)

OptionsInv ==
    /\ OptionsTypeOK
    /\ WellFormed(upstreamOptions)
    /\ \A r \in Requests :
          pending[r].field = "upstreamOptions" => WellFormed(pending[r].new)

\* Initially nothing is stored and nothing is in flight.
LEMMA OptionsInvInit == OptionsInit => OptionsInv
<1> SUFFICES ASSUME OptionsInit PROVE OptionsInv
  OBVIOUS
<1>1. OptionsTypeOK
  BY DEF OptionsInit, OptionsTypeOK, Pending, NoPatch
<1>2. WellFormed(upstreamOptions)
  BY DEF OptionsInit, WellFormed, IsCanaryForest, IsShapedByCanary
<1>3. \A r \in Requests : pending[r].field # "upstreamOptions"
  BY DEF OptionsInit, NoPatch
<1> QED BY <1>1, <1>2, <1>3 DEF OptionsInv

\* A request that is about to store a well-formed list keeps the invariant.
LEMMA BeginKeepsOptionsInv ==
    ASSUME OptionsInv, NEW r \in Requests, NEW p \in Pending,
           pending' = [pending EXCEPT ![r] = p],
           UNCHANGED <<binds, upstreamOptions>>,
           p.field = "upstreamOptions" => WellFormed(p.new)
    PROVE  OptionsInv'
<1>1. OptionsTypeOK'
  BY DEF OptionsInv, OptionsTypeOK
<1>2. WellFormed(upstreamOptions)'
  BY DEF OptionsInv
<1>3. \A s \in Requests :
         pending'[s].field = "upstreamOptions" => WellFormed(pending'[s].new)
  BY DEF OptionsInv, OptionsTypeOK
<1> QED BY <1>1, <1>2, <1>3 DEF OptionsInv

\* EnsureUpstreamOptions: the list that will be stored is well formed.
LEMMA EnsureKeepsWellFormed ==
    ASSUME NEW bs, NEW opts, WellFormed(opts),
           NEW args \in EnsureArgs, CanEnsure(bs, opts, args),
           NEW new \in EnsureResults(opts, args)
    PROVE  WellFormed(new)
<1> DEFINE e == WithDefaults(args)
<1>1. IsCanaryForest(new)
  BY EnsureKeepsForest DEF WellFormed
<1>2. /\ new = Others(opts, args.primary) \cup {e}
      /\ e.canaries = args.canaries
  BY EnsureResultsOthers, WithDefaultsType DEF WellFormed
<1>3. HasTrafficShapingPolicy(e.policy) => HasTrafficShapingPolicy(args.policy)
  <2>1. e.policy = WithWeightTotal(args.policy)
    BY DEF WithDefaults, EnsureArgs
  <2>2. /\ WithWeightTotal(args.policy).weight = args.policy.weight
        /\ WithWeightTotal(args.policy).header = args.policy.header
        /\ WithWeightTotal(args.policy).cookie = args.policy.cookie
    <3>1. args.policy \in Policy
      BY ArgsAssumption DEF EnsureArgs
    <3> QED BY <3>1 DEF WithWeightTotal, Policy
  <2> QED BY <2>1, <2>2 DEF HasTrafficShapingPolicy
<1>4. args.canaries # {} => ~HasTrafficShapingPolicy(args.policy)
  BY DEF CanEnsure, ValidateTrafficShapingOptions
<1> HIDE DEF e
<1>5. IsShapedByCanary(new)
  BY <1>2, <1>3, <1>4 DEF IsShapedByCanary, WellFormed, Others
<1>6. Servable(e)
  BY EnsureIsServable DEF CanEnsure, e
<1>7. \A x \in new : Servable(x)
  BY <1>2, <1>6 DEF WellFormed, Others
<1> QED BY <1>1, <1>5, <1>7 DEF WellFormed

\* DeleteUpstreamOptions: the list that will be stored is well formed, and its
\* entries keep the type of options.
LEMMA DeleteKeepsWellFormed ==
    ASSUME NEW opts \in SUBSET UpstreamOption, WellFormed(opts),
           NEW app \in Apps
    PROVE  /\ WellFormed(DeleteResult(opts, app))
           /\ DeleteResult(opts, app) \in SUBSET UpstreamOption
<1>1. \A z \in DeleteResult(opts, app) :
         \E uo \in opts : z = [uo EXCEPT !.canaries = @ \ {app}]
  BY DEF DeleteResult, Others
<1>2. ASSUME NEW z \in DeleteResult(opts, app)
      PROVE  /\ z \in UpstreamOption
             /\ z.canaries # {} => ~HasTrafficShapingPolicy(z.policy)
             /\ Servable(z)
  <2>1. PICK uo \in opts : z = [uo EXCEPT !.canaries = @ \ {app}]
    BY <1>1
  <2>2. /\ z \in UpstreamOption
        /\ z.canaries = uo.canaries \ {app}
        /\ z.policy = uo.policy
        /\ z.balance = uo.balance
    BY <2>1 DEF UpstreamOption
  <2>3. Servable(z)
    BY <2>2 DEF WellFormed, Servable
  <2> QED BY <2>2, <2>3 DEF WellFormed, IsShapedByCanary
<1>3. IsCanaryForest(DeleteResult(opts, app))
  BY DeleteKeepsForest DEF WellFormed
<1> QED BY <1>2, <1>3 DEF WellFormed, IsShapedByCanary

\* Every step of the specification keeps the invariant.
LEMMA OptionsInvNext == OptionsInv /\ [OptionsNext]_optionsVars => OptionsInv'
<1> SUFFICES ASSUME OptionsInv, [OptionsNext]_optionsVars PROVE OptionsInv'
  OBVIOUS
<1>1. ASSUME NEW r \in Requests, BindApp(r) PROVE OptionsInv'
  <2>1. PICK p : /\ p \in Pending
                 /\ p.field = "binds"
                 /\ pending' = [pending EXCEPT ![r] = p]
                 /\ UNCHANGED <<binds, upstreamOptions>>
    <3>1. PICK b \in BindArgs :
             BeginEdit(r, "binds", binds, BindAppResult(binds, b))
      BY <1>1 DEF BindApp
    <3>2. [field |-> "binds", old |-> binds, new |-> BindAppResult(binds, b)]
              \in Pending
      BY ArgsAssumption DEF OptionsInv, OptionsTypeOK, BindAppResult, Pending, Patch
    <3> QED BY <3>1, <3>2 DEF BeginEdit
  <2> QED BY <2>1, BeginKeepsOptionsInv
<1>2. ASSUME NEW r \in Requests, UnbindApp(r) PROVE OptionsInv'
  <2>1. PICK p : /\ p \in Pending
                 /\ p.field = "binds"
                 /\ pending' = [pending EXCEPT ![r] = p]
                 /\ UNCHANGED <<binds, upstreamOptions>>
    <3>1. PICK app \in Apps : \E new \in UnbindAppResults(binds, app) :
                                 BeginEdit(r, "binds", binds, new)
      BY <1>2 DEF UnbindApp
    <3> PICK new \in UnbindAppResults(binds, app) :
            BeginEdit(r, "binds", binds, new)
      BY <3>1
    <3>2. new \in SUBSET Bind
      BY DEF OptionsInv, OptionsTypeOK, UnbindAppResults
    <3>3. [field |-> "binds", old |-> binds, new |-> new] \in Pending
      BY <3>2 DEF OptionsInv, OptionsTypeOK, Pending, Patch
    <3> QED BY <3>3 DEF BeginEdit
  <2> QED BY <2>1, BeginKeepsOptionsInv
<1>3. ASSUME NEW r \in Requests, EnsureUpstreamOptions(r) PROVE OptionsInv'
  <2>1. PICK p : /\ p \in Pending
                 /\ WellFormed(p.new)
                 /\ pending' = [pending EXCEPT ![r] = p]
                 /\ UNCHANGED <<binds, upstreamOptions>>
    <3>0. PICK args \in EnsureArgs :
             /\ CanEnsure(binds, upstreamOptions, args)
             /\ \E new \in EnsureResults(upstreamOptions, args) :
                   BeginEdit(r, "upstreamOptions", upstreamOptions, new)
      BY <1>3 DEF EnsureUpstreamOptions, EnsureArgs
    <3>1. PICK new \in EnsureResults(upstreamOptions, args) :
             BeginEdit(r, "upstreamOptions", upstreamOptions, new)
      BY <3>0
    <3>2. WellFormed(upstreamOptions)
      BY DEF OptionsInv
    <3>3. WellFormed(new)
      BY <3>0, <3>2, EnsureKeepsWellFormed
    <3>4. new \in SUBSET UpstreamOption
      <4>1. WithDefaults(args) \in UpstreamOption
        BY WithDefaultsType
      <4>2. new = Others(upstreamOptions, args.primary)
                      \cup {WithDefaults(args)}
        BY <3>2, EnsureResultsOthers DEF WellFormed
      <4> QED BY <4>1, <4>2 DEF Others, OptionsInv, OptionsTypeOK
    <3>5. [field |-> "upstreamOptions", old |-> upstreamOptions, new |-> new]
              \in Pending
      BY <3>4 DEF OptionsInv, OptionsTypeOK, Pending, Patch
    <3> DEFINE q == [field |-> "upstreamOptions", old |-> upstreamOptions,
                     new |-> new]
    <3>6. q.new = new
      OBVIOUS
    <3>7. pending' = [pending EXCEPT ![r] = q]
      BY <3>1 DEF BeginEdit
    <3>8. UNCHANGED <<binds, upstreamOptions>>
      BY <3>1 DEF BeginEdit
    <3> HIDE DEF q
    <3>9. q \in Pending
      BY <3>5 DEF q
    <3> QED BY <3>3, <3>6, <3>7, <3>8, <3>9
  <2> QED BY <2>1, BeginKeepsOptionsInv
<1>4. ASSUME NEW r \in Requests, DeleteUpstreamOptions(r) PROVE OptionsInv'
  <2>1. PICK p : /\ p \in Pending
                 /\ WellFormed(p.new)
                 /\ pending' = [pending EXCEPT ![r] = p]
                 /\ UNCHANGED <<binds, upstreamOptions>>
    <3>1. PICK app \in Apps :
             BeginEdit(r, "upstreamOptions", upstreamOptions,
                   DeleteResult(upstreamOptions, app))
      BY <1>4 DEF DeleteUpstreamOptions
    <3>2. /\ WellFormed(DeleteResult(upstreamOptions, app))
          /\ DeleteResult(upstreamOptions, app) \in SUBSET UpstreamOption
      BY DeleteKeepsWellFormed DEF OptionsInv, OptionsTypeOK
    <3>3. [field |-> "upstreamOptions", old |-> upstreamOptions,
           new |-> DeleteResult(upstreamOptions, app)] \in Pending
      BY <3>2 DEF OptionsInv, OptionsTypeOK, Pending, Patch
    <3> DEFINE q == [field |-> "upstreamOptions", old |-> upstreamOptions,
                     new |-> DeleteResult(upstreamOptions, app)]
    <3>4. q.new = DeleteResult(upstreamOptions, app)
      OBVIOUS
    <3>5. pending' = [pending EXCEPT ![r] = q]
      BY <3>1 DEF BeginEdit
    <3>6. UNCHANGED <<binds, upstreamOptions>>
      BY <3>1 DEF BeginEdit
    <3> HIDE DEF q
    <3>7. q \in Pending
      BY <3>3 DEF q
    <3> QED BY <3>2, <3>4, <3>5, <3>6, <3>7
  <2> QED BY <2>1, BeginKeepsOptionsInv
<1>5. ASSUME NEW r \in Requests, patchInstance(r) PROVE OptionsInv'
  <2>1. /\ pending[r] \in Pending
        /\ pending' = [pending EXCEPT ![r] = NoPatch]
        /\ NoPatch \in Pending
    BY <1>5 DEF patchInstance, OptionsInv, OptionsTypeOK, Pending
  <2>2. \A s \in Requests :
           pending'[s].field = "upstreamOptions" => WellFormed(pending'[s].new)
    BY <2>1 DEF OptionsInv, OptionsTypeOK, NoPatch
  <2>3. CASE pending[r].field = "binds"
    <3>1. /\ pending[r].new \in SUBSET Bind
          /\ UNCHANGED upstreamOptions
          /\ binds' \in {binds, pending[r].new}
      BY <1>5, <2>1, <2>3 DEF patchInstance, MergePatch, Pending, Patch, NoPatch
    <3>2. OptionsTypeOK'
      BY <2>1, <3>1 DEF OptionsInv, OptionsTypeOK
    <3>3. WellFormed(upstreamOptions)'
      BY <3>1 DEF OptionsInv
    <3> QED BY <2>2, <3>2, <3>3 DEF OptionsInv
  <2>4. CASE pending[r].field = "upstreamOptions"
    <3>1. /\ pending[r].new \in SUBSET UpstreamOption
          /\ UNCHANGED binds
          /\ upstreamOptions' \in {upstreamOptions, pending[r].new}
      BY <1>5, <2>1, <2>4 DEF patchInstance, MergePatch, Pending, Patch, NoPatch
    <3>2. OptionsTypeOK'
      BY <2>1, <3>1 DEF OptionsInv, OptionsTypeOK
    <3>3. WellFormed(upstreamOptions')
      BY <2>4, <3>1 DEF OptionsInv
    <3> QED BY <2>2, <3>2, <3>3 DEF OptionsInv
  <2> QED BY <1>5, <2>3, <2>4 DEF patchInstance
<1>6. ASSUME NEW r \in Requests, PatchFails(r) PROVE OptionsInv'
  <2>1. /\ NoPatch \in Pending
        /\ NoPatch.field # "upstreamOptions"
    BY DEF Pending, NoPatch
  <2> QED BY <1>6, <2>1, BeginKeepsOptionsInv DEF PatchFails
<1>7. CASE UNCHANGED optionsVars
  <2>1. OptionsTypeOK'
    BY <1>7 DEF optionsVars, OptionsInv, OptionsTypeOK
  <2>2. WellFormed(upstreamOptions')
    BY <1>7 DEF optionsVars, OptionsInv
  <2> QED BY <1>7, <2>1, <2>2 DEF optionsVars, OptionsInv
<1> QED BY <1>1, <1>2, <1>3, <1>4, <1>5, <1>6, <1>7 DEF OptionsNext

\* The invariant holds in every reachable state.
THEOREM OptionsInvariance == OptionsSpec => []OptionsInv
  BY OptionsInvInit, OptionsInvNext, PTL DEF OptionsSpec

\* The stored lists and the patches in flight always have the API's types.
THEOREM OptionsTypeCorrectness == OptionsSpec => []OptionsTypeOK
<1>1. OptionsInv => OptionsTypeOK
  BY DEF OptionsInv
<1> QED BY <1>1, OptionsInvariance, PTL

\* However many requests overlap, the stored options form a canary forest:
\* the rules of EnsureUpstreamOptions survive patches that carry no
\* resourceVersion.
THEOREM CanaryForestAlways == OptionsSpec => []CanaryForest
<1>1. OptionsInv => CanaryForest
  BY DEF OptionsInv, WellFormed, CanaryForest
<1> QED BY <1>1, OptionsInvariance, PTL

\* However many requests overlap, a primary bind with a canary has no policy
\* and at most one bind of its group has a weight.
THEOREM OneWeightPerGroupAlways == OptionsSpec => []OneWeightPerGroup
<1>1. OptionsInv => OneWeightPerGroup
  <2> SUFFICES ASSUME OptionsInv, NEW x \in upstreamOptions, x.canaries # {},
                      NEW c \in x.canaries \cup {x.primary},
                      NEW d \in x.canaries \cup {x.primary},
                      HasWeight(upstreamOptions, c),
                      HasWeight(upstreamOptions, d)
               PROVE  c = d
    BY DEF OptionsInv, WellFormed, IsShapedByCanary, OneWeightPerGroup
  <2>1. ~HasWeight(upstreamOptions, x.primary)
    BY DEF OptionsInv, WellFormed, IsCanaryForest, IsShapedByCanary, HasWeight,
           HasTrafficShapingPolicy
  <2>2. c \in x.canaries /\ d \in x.canaries
    BY <2>1
  <2> QED BY <2>2 DEF OptionsInv, WellFormed, IsCanaryForest
<1> QED BY <1>1, OptionsInvariance, PTL

\* However many requests overlap, every stored option can be served: the
\* defaults complete what the validations have let pass, and no patch brings
\* back an entry without them.
THEOREM OptionsServableAlways == OptionsSpec => []OptionsServable
<1>1. OptionsInv => OptionsServable
  BY DEF OptionsInv, WellFormed, Servable, OptionsServable
<1> QED BY <1>1, OptionsInvariance, PTL
=============================================================================
