----------------------------- MODULE InstanceMap -----------------------------
(***************************************************************************)
(* What the API promises about the fields of an instance, whatever calls   *)
(* its requests are made of: each field is a register of its own.          *)
(*                                                                         *)
(* A request wants some fields to have some values.  Fields only change to *)
(* what a request in flight wants, or with the instance as a whole.  A     *)
(* request that is answered well has found each of its fields with its     *)
(* value, or has put it there: nothing that another request did to other   *)
(* fields is undone by it, and all of its own was in place at some moment  *)
(* while it ran.                                                           *)
(***************************************************************************)
CONSTANTS
    Clients,
    Fields,
    Tasks,     \* what requests may want: functions from some of the fields
    Absent,    \* the value of a field that is not there
    NoTask

VARIABLES
    exists,    \* whether there is an instance
    fields,
    task,      \* what the request of each client wants, if it has one
    held,      \* the fields that the request has found with their value
    answer     \* the answer to the last request of each client

vars == <<exists, fields, task, held, answer>>

Init ==
    /\ exists = FALSE
    /\ fields = [f \in Fields |-> Absent]
    /\ task = [c \in Clients |-> NoTask]
    /\ held = [c \in Clients |-> {}]
    /\ answer = [c \in Clients |-> "none"]

Begin(c) ==
    /\ task[c] = NoTask
    /\ \E wants \in Tasks : task' = [task EXCEPT ![c] = wants]
    /\ answer' = [answer EXCEPT ![c] = "none"]
    /\ UNCHANGED <<exists, fields, held>>

Look(c) ==
    /\ task[c] # NoTask /\ exists
    /\ held' = [held EXCEPT ![c] = {f \in DOMAIN task[c] : fields[f] = task[c][f]}]
    /\ UNCHANGED <<exists, fields, task, answer>>

End(c, reply) ==
    /\ task[c] # NoTask
    /\ task' = [task EXCEPT ![c] = NoTask]
    /\ held' = [held EXCEPT ![c] = {}]
    /\ answer' = [answer EXCEPT ![c] = reply]

\* Some of the fields get their values; with a good answer only if that is all
\* there was to do.
Finish(c, reply) ==
    /\ End(c, reply)
    /\ exists
    /\ fields' = [f \in Fields |-> fields'[f]]
    /\ \A f \in Fields :
          fields'[f] = fields[f] \/ (f \in DOMAIN task[c] /\ fields'[f] = task[c][f])
    /\ reply = "ok" => \A f \in DOMAIN task[c] \ held[c] : fields'[f] = task[c][f]
    /\ UNCHANGED exists

Refuse(c) == End(c, "error") /\ UNCHANGED <<exists, fields>>

Create(c, reply) ==
    /\ End(c, reply)
    /\ ~exists /\ exists' = TRUE
    /\ fields' = [f \in Fields |-> IF f \in DOMAIN task[c] THEN task[c][f] ELSE Absent]

Delete(c, reply) ==
    /\ End(c, reply)
    /\ exists /\ exists' = FALSE
    /\ fields' = [f \in Fields |-> Absent]

Next ==
    \E c \in Clients :
        \/ Begin(c) \/ Look(c) \/ Refuse(c)
        \/ \E reply \in {"ok", "error"} :
              Finish(c, reply) \/ Create(c, reply) \/ Delete(c, reply)

Spec == Init /\ [][Next]_vars
=============================================================================
