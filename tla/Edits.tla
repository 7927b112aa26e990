-------------------------------- MODULE Edits --------------------------------
(***************************************************************************)
(* The life of one instance and the edits of its specification through the *)
(* API: blocks, routes, metadata, its plan and flavors, start and stop.    *)
(*                                                                         *)
(* An edit reads the instance, changes a copy of it and sends the          *)
(* difference of the two as a JSON merge patch, which the API server       *)
(* applies to whatever the instance is by then.  A patch is about fields:  *)
(* a field that the edit left alone is not in it, a list is in it as a     *)
(* whole, and an object that became empty is removed with whatever others  *)
(* have put into it meanwhile.                                             *)
(*                                                                         *)
(* Binds and their options, certificates, files and scaling have modules   *)
(* of their own.  Values are abstract; Invalid stands for whatever the     *)
(* checks of contents, names and paths refuse.                             *)
(***************************************************************************)
EXTENDS Naturals, Sequences, FiniteSets

CONSTANTS
    Clients,
    BlockTypes,     \* the blocks that users may set
    ServerBlock,    \* the one of them that may be set for one server only
    MetaKeys,       \* keys of labels and annotations
    Reserved,       \* the ones among them that are not for users
    TemplateKeys,   \* fields of a plan that an instance may override
    Plans,
    DefaultPlans,   \* the plans that are marked as the default one
    Flavors,        \* the flavors that exist
    CreationOnly,   \* the ones that cannot be set or unset later
    Incompatible,   \* the ones that each refuses
    Inputs,         \* what clients ask for
    Absent,         \* the value of a field that is not there
    None,           \* no server, no name of a plan
    Invalid,        \* a value that is refused
    NoTask,         \* no request
    MaxCalls        \* bound: requests ever made

VARIABLES
    exists,         \* whether there is an instance
    fields,         \* the fields of the instance
    call,           \* the request of each client
    made,           \* how many requests were made
    lives,          \* how many instances of this name were created
    born,           \* history: the flavors for creation that the instance got then
    crossed,        \* history: an edit of an instance was applied to a later one
    clean,          \* history: requests that met no rival
    acked           \* history: what was acknowledged of entries of lists and blocks

history == <<born, crossed, clean, acked>>
vars == <<exists, fields, call, made, lives, history>>

----------------------------------------------------------------------------
(* Fields. *)

Plan == <<"spec", "plan">>
FlavorNames == <<"spec", "flavors">>
Shutdown == <<"spec", "shutdown">>
Locations == <<"list", "locations">>
ServerBlocks == <<"list", "serverBlocks">>

\* What an instance is about: each is a leaf of the patch of its own (the team
\* is in several places, always with one value).
AboutKeys == {"description", "team", "tags", "ip", "lbName"}

About == {<<"about", k>> : k \in AboutKeys}
Blocks == {<<"block", b>> : b \in BlockTypes}
Metadata == {<<"meta", k>> : k \in MetaKeys}
PlanTemplate == {<<"template", k>> : k \in TemplateKeys}
Lists == {Locations, ServerBlocks}

\* The fields that are registers of their own.
Plain == Metadata \cup PlanTemplate \cup About \cup {Plan, FlavorNames, Shutdown}
Fields == Plain \cup Blocks \cup Lists

Blank == [f \in Fields |-> IF f \in Lists THEN <<>> ELSE Absent]

\* The fields of the same JSON object, which is left out when it is empty.
\* Metadata never is: it has the keys that the API reserves.
Siblings(f) == IF f \in Blocks THEN Blocks
               ELSE IF f \in PlanTemplate THEN PlanTemplate ELSE {f}

\* As Patched, with the whole copy in the patch (a mutant).
PatchedWhole(stored, old, new) == new

\* patchInstance: CreateMergePatch, and what the API server makes of it.
Patched(stored, old, new) ==
    [f \in Fields |->
        IF \/ old[f] # new[f]
           \/ f \in Blocks \cup PlanTemplate
              /\ (\E g \in Siblings(f) : old[g] # Absent)
              /\ (\A g \in Siblings(f) : new[g] = Absent)
        THEN new[f] ELSE stored[f]]

----------------------------------------------------------------------------
(* Plans and flavors. *)

\* The plan of that name, or the only default one.
getPlan(name) ==
    IF name # None THEN {name} \cap Plans
    ELSE IF \E p \in Plans : DefaultPlans = {p} THEN DefaultPlans ELSE {}

SetOf(s) == {s[i] : i \in DOMAIN s}

\* As validateFlavors, which only looks at what is added (a mutant).
validateAddedFlavors(isCreation, existing, flavors) ==
    LET added == SetOf(flavors) \ existing IN
    /\ \A i, j \in DOMAIN flavors : flavors[i] = flavors[j] => i = j
    /\ \A f \in added : /\ f \in Flavors
                        /\ f \in CreationOnly => isCreation
                        /\ Incompatible[f] \cap SetOf(flavors) = {}

\* Flavors that are added must exist, accept the others, and be there from the
\* creation on if they are for creation; those must also stay.
validateFlavors(isCreation, existing, flavors) ==
    LET added == SetOf(flavors) \ existing
        removed == existing \ SetOf(flavors) IN
    /\ \A i, j \in DOMAIN flavors : flavors[i] = flavors[j] => i = j
    /\ \A f \in added : /\ f \in Flavors
                        /\ f \in CreationOnly => isCreation
                        /\ Incompatible[f] \cap SetOf(flavors) = {}
    /\ \A f \in removed : f \notin CreationOnly

FlavorsOf(value) == IF value = Absent THEN {} ELSE value

----------------------------------------------------------------------------
(* What requests do to a copy of the instance. *)

\* What a request says of About: setLoadBalancerName leaves the name alone when it
\* is given none, the other setters write what they get.
Told(in) == {k \in AboutKeys : k = "lbName" => in.about[k] # Absent}

\* The assignments of a request about plain fields.
Wants(in) ==
    CASE in.op = "SetMetadata" ->
           [f \in {<<"meta", k>> : k \in DOMAIN in.items} |-> in.items[f[2]]]
      [] in.op = "UnsetMetadata" -> [f \in {<<"meta", k>> : k \in in.keys} |-> Absent]
      [] in.op = "Start" -> [f \in {Shutdown} |-> Absent]
      [] in.op = "Stop" -> [f \in {Shutdown} |-> "true"]
      [] in.op \in {"CreateInstance", "UpdateInstance"} ->
           [f \in (IF in.op = "UpdateInstance" /\ in.plan = None THEN {} ELSE {Plan})
                  \cup {FlavorNames} \cup {<<"about", k>> : k \in Told(in)} \cup PlanTemplate
                  \cup {<<"meta", k>> : k \in DOMAIN in.items} |->
              CASE f = Plan -> CHOOSE p \in Plans \cup {None} :
                                  p \in getPlan(in.plan) \/ getPlan(in.plan) = {}
                [] f = FlavorNames -> SetOf(in.flavors)
                [] f \in About -> in.about[f[2]]
                [] f \in PlanTemplate -> in.template[f[2]]
                [] OTHER -> in.items[f[2]]]
      [] OTHER -> [f \in {} |-> Absent]

\* Metadata has its own keys, and requests and values are not confused with the
\* marks for what is not there.
ASSUME InputsAssumption ==
    \A in \in Inputs :
        /\ in.op = "UnsetMetadata" => in.keys \subseteq MetaKeys
        /\ in.op \in {"SetMetadata", "CreateInstance", "UpdateInstance"} =>
              DOMAIN in.items \subseteq MetaKeys
        /\ in.op \in {"CreateInstance", "UpdateInstance"} => SetOf(in.flavors) # Absent
        /\ Wants(in) # NoTask

\* As IndexOf, by path alone (a mutant).
IndexOfPath(list, key) == {i \in DOMAIN list : list[i].key[2] = key[2]
                              /\ \A j \in DOMAIN list : list[j].key[2] = key[2] => i <= j}

\* hasPath and hasServerBlock: entries of lists are found by their keys.
IndexOf(list, key) == {i \in DOMAIN list : list[i].key = key
                          /\ \A j \in DOMAIN list : list[j].key = key => i <= j}
Replaced(list, entry) ==
    IF IndexOf(list, entry.key) = {} THEN Append(list, entry)
    ELSE [i \in DOMAIN list |-> IF i \in IndexOf(list, entry.key) THEN entry ELSE list[i]]
Removed(list, key) ==
    [i \in 1 .. Len(list) - 1 |->
        IF \E k \in IndexOf(list, key) : k <= i THEN list[i + 1] ELSE list[i]]

ValueOf(in) == [key |-> in.key, value |-> in.value]

validateBlock(in) ==
    in.type \in BlockTypes /\ in.value # Invalid /\ (in.server # None => in.type = ServerBlock)
validateRoute(in) == in.value # Invalid

UpdateBlock(copy, in) ==
    IF in.server = None THEN [copy EXCEPT ![<<"block", in.type>>] = in.value]
    ELSE [copy EXCEPT ![ServerBlocks] = Replaced(@, ValueOf(in))]
DeleteBlock(copy, in) ==
    IF in.server = None THEN [copy EXCEPT ![<<"block", in.type>>] = Absent]
    ELSE [copy EXCEPT ![ServerBlocks] = Removed(@, in.key)]
UpdateRoute(copy, in) == [copy EXCEPT ![Locations] = Replaced(@, ValueOf(in))]
DeleteRoute(copy, in) == [copy EXCEPT ![Locations] = Removed(@, in.key)]

\* SetMetadata, UnsetMetadata, UpdateInstance, Start and Stop.
Assigned(copy, in) ==
    [f \in Fields |-> IF f \in DOMAIN Wants(in) THEN Wants(in)[f] ELSE copy[f]]

Edited(copy, in) ==
    CASE in.op = "UpdateBlock" -> UpdateBlock(copy, in)
      [] in.op = "DeleteBlock" -> DeleteBlock(copy, in)
      [] in.op = "UpdateRoute" -> UpdateRoute(copy, in)
      [] in.op = "DeleteRoute" -> DeleteRoute(copy, in)
      [] OTHER -> Assigned(copy, in)

\* What a request is refused for once the instance is read.
validateUpdateInstanceArgs(copy, in) ==
    getPlan(in.plan) # {} /\ validateFlavors(FALSE, FlavorsOf(copy[FlavorNames]), in.flavors)
validateMetadata(keys) == keys \cap Reserved = {}
Accepts(copy, in) ==
    CASE in.op = "UpdateBlock" -> validateBlock(in)
      [] in.op = "DeleteBlock" ->
           IF in.server = None
           THEN in.type \in BlockTypes /\ copy[<<"block", in.type>>] # Absent
           ELSE IndexOf(copy[ServerBlocks], in.key) # {}
      [] in.op = "UpdateRoute" -> validateRoute(in)
      [] in.op = "DeleteRoute" -> IndexOf(copy[Locations], in.key) # {}
      [] in.op = "SetMetadata" -> validateMetadata(DOMAIN in.items)
      [] in.op = "UnsetMetadata" ->
           validateMetadata(in.keys) /\ \A k \in in.keys : copy[<<"meta", k>>] # Absent
      [] in.op = "UpdateInstance" ->
           validateUpdateInstanceArgs(copy, in) /\ \A k \in Told(in) : in.about[k] # Invalid
      [] OTHER -> TRUE

validateCreate(in) ==
    /\ \A k \in Told(in) : in.about[k] # Invalid
    /\ getPlan(in.plan) # {}
    /\ ~exists
    /\ validateFlavors(TRUE, {}, in.flavors)

----------------------------------------------------------------------------
(* Rivals: requests whose edits the patches cannot keep apart. *)

Unit(in) == CASE in.op \in {"UpdateRoute", "DeleteRoute"} -> Locations
              [] in.op \in {"UpdateBlock", "DeleteBlock"} /\ in.server # None -> ServerBlocks
              [] in.op \in {"UpdateBlock", "DeleteBlock"} /\ in.server = None ->
                   <<"block", in.type>>
              [] in.op \in {"CreateInstance", "DeleteInstance"} -> <<"instance", "all">>
              [] OTHER -> <<"other", "none">>

\* A block for all servers has one key, and is not set to what is not there.
ASSUME BlocksAssumption ==
    \A in, other \in Inputs : Unit(in)[1] = "block" =>
        /\ Unit(other) = Unit(in) => other.key = in.key
        /\ in.op = "UpdateBlock" => in.value # Absent

\* Edits of one list, or of one block; the deletion of a block and any other
\* edit of blocks; and whatever happens while instances come and go.
Rival(in, other) ==
    \/ Unit(in) = Unit(other) /\ Unit(in) # <<"other", "none">>
    \/ Unit(in)[1] = "block" /\ Unit(other)[1] = "block"
       /\ "DeleteBlock" \in {in.op, other.op}
    \/ <<"instance", "all">> \in {Unit(in), Unit(other)}

Fact(in) == [unit |-> Unit(in), key |-> in.key,
             value |-> IF in.op \in {"UpdateRoute", "UpdateBlock"} THEN in.value ELSE Absent]
Tracked(in) == Unit(in)[1] \in {"list", "block"}

----------------------------------------------------------------------------
(* Requests. *)

Idle == [pc |-> "idle", in |-> None, copy |-> Blank, life |-> 0, answer |-> "none"]

Init ==
    /\ exists = FALSE
    /\ fields = Blank
    /\ call = [c \in Clients |-> Idle]
    /\ made = 0
    /\ lives = 0
    /\ born = {} /\ crossed = FALSE
    /\ clean = {} /\ acked = {}

Busy == {c \in Clients : call[c].pc # "idle"}

Begin(c, in) ==
    LET rivals == {d \in Busy : Rival(in, call[d].in)} IN
    /\ call[c].pc = "idle"
    /\ made < MaxCalls /\ made' = made + 1
    /\ call' = [call EXCEPT ![c] =
          [pc |-> "read", in |-> in, copy |-> Blank, life |-> 0, answer |-> "none"]]
    /\ clean' = (clean \ rivals) \cup (IF rivals = {} THEN {c} ELSE {})
    /\ acked' = {a \in acked : /\ <<"instance", "all">> # Unit(in)
                               /\ Tracked(in) => <<a.unit, a.key>> # <<Unit(in), in.key>>}
    /\ UNCHANGED <<exists, fields, lives, born, crossed>>

End(c, answer) == call' = [call EXCEPT ![c] = [Idle EXCEPT !.answer = answer]]
Acknowledge(c, answer) ==
    /\ End(c, answer)
    /\ clean' = clean \ {c}
    /\ acked' = IF answer = "ok" /\ c \in clean /\ Tracked(call[c].in)
                THEN acked \cup {Fact(call[c].in)} ELSE acked
Refuse(c) == Acknowledge(c, "error") /\ UNCHANGED <<exists, fields, lives, born, crossed>>

\* GetInstance, and the edit of the copy.
GetInstance(c) ==
    LET in == call[c].in IN
    /\ call[c].pc = "read" /\ in.op # "CreateInstance"
    /\ IF exists /\ Accepts(fields, in)
       THEN /\ call' = [call EXCEPT
                  ![c].pc = IF in.op = "DeleteInstance" THEN "delete" ELSE "patch",
                  ![c].copy = fields, ![c].life = lives]
            /\ UNCHANGED <<exists, fields, lives, history>>
       ELSE Refuse(c)
    /\ UNCHANGED made

PatchInstance(c, answer) ==
    LET q == call[c] IN
    /\ q.pc = "patch"
    /\ IF exists
       THEN /\ fields' = Patched(fields, q.copy, Edited(q.copy, q.in))
            /\ crossed' = (crossed \/ q.life # lives)
            /\ Acknowledge(c, answer)
            /\ UNCHANGED <<exists, lives, born>>
       ELSE Refuse(c)
    /\ UNCHANGED made

DeleteInstance(c, answer) ==
    /\ call[c].pc = "delete"
    /\ IF exists
       THEN /\ exists' = FALSE /\ fields' = Blank
            /\ Acknowledge(c, answer)
            /\ UNCHANGED <<lives, born, crossed>>
       ELSE Refuse(c)
    /\ UNCHANGED made

\* CreateInstance: it is checked first that there is none, and the API server
\* checks again.
ValidateCreate(c) ==
    /\ call[c].pc = "read" /\ call[c].in.op = "CreateInstance"
    /\ IF validateCreate(call[c].in)
       THEN call' = [call EXCEPT ![c].pc = "create"]
            /\ UNCHANGED <<exists, fields, lives, history>>
       ELSE Refuse(c)
    /\ UNCHANGED made

CreateInstance(c, answer) ==
    /\ call[c].pc = "create"
    /\ IF ~exists
       THEN /\ exists' = TRUE
            /\ fields' = Assigned(Blank, call[c].in)
            /\ lives' = lives + 1
            /\ born' = SetOf(call[c].in.flavors) \cap CreationOnly
            /\ crossed' = FALSE
            /\ Acknowledge(c, answer)
       ELSE Refuse(c)
    /\ UNCHANGED made

\* A call fails, or takes effect and its answer is lost.
CallFails(c) == call[c].pc # "idle" /\ Refuse(c) /\ UNCHANGED made

Answers == {"ok", "error"}

Next == \E c \in Clients :
    \/ \E in \in Inputs : Begin(c, in)
    \/ GetInstance(c) \/ ValidateCreate(c) \/ CallFails(c)
    \/ \E answer \in Answers :
          PatchInstance(c, answer) \/ DeleteInstance(c, answer) \/ CreateInstance(c, answer)

Spec == Init /\ [][Next]_vars

----------------------------------------------------------------------------
(* The promise that Spec implements: InstanceMap for the plain fields. *)

Task(c) == IF call[c].pc = "idle" THEN NoTask ELSE Wants(call[c].in)
Held(c) == IF call[c].pc \in {"patch", "delete"}
           THEN {f \in DOMAIN Wants(call[c].in) : call[c].copy[f] = Wants(call[c].in)[f]}
           ELSE {}

Register == INSTANCE InstanceMap WITH
    Fields <- Plain,
    Tasks <- {Wants(in) : in \in Inputs},
    fields <- [f \in Plain |-> fields[f]],
    task <- [c \in Clients |-> Task(c)],
    held <- [c \in Clients |-> Held(c)],
    answer <- [c \in Clients |-> call[c].answer]

----------------------------------------------------------------------------
(* Properties. *)

\* Objects have their shape, and a request that edits a copy has read it in a
\* life of the instance.
TypeOK ==
    /\ exists \in BOOLEAN
    /\ DOMAIN fields = Fields
    /\ \A f \in Lists : fields[f] \in Seq([key : {in.key : in \in {i \in Inputs : Tracked(i)}},
                                           value : {in.value : in \in {i \in Inputs : Tracked(i)}}])
    /\ \A c \in Clients : call[c].pc \in {"idle", "read", "patch", "delete", "create"}
    /\ \A c \in Clients : call[c].pc \in {"patch", "delete"} => call[c].life \in 1..lives
    /\ made \in 0..MaxCalls /\ lives \in 0..made

\* Edits of plain fields behave as on registers: see InstanceMap.  A patch never
\* undoes what others did to fields that its request is not about, and an answer
\* is good only if every field of the request had its value meanwhile.
ImplementsRegister == Register!Spec

StoredValue(unit, key) ==
    IF unit \notin Lists THEN fields[unit]
    ELSE LET at == IndexOf(fields[unit], key) IN
         IF at = {} THEN Absent ELSE fields[unit][CHOOSE i \in at : TRUE].value

\* The last acknowledged edit of a route or of a block stands, whatever overlaps
\* with it on other parts: only an overlapping edit of the same list, the
\* deletion of some block, or of the instance, may undo it.
AckedEditKept ==
    \A a \in acked : exists => StoredValue(a.unit, a.key) = a.value

\* An instance keeps the flavors for creation that it was created with, and gets
\* no other, although updates are checked against a copy: only an update that
\* was begun on an earlier instance of the same name can change that.
CreationFlavorsKept ==
    exists /\ ~crossed => FlavorsOf(fields[FlavorNames]) \cap CreationOnly = born
=============================================================================
