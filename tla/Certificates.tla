---------------------------- MODULE Certificates ----------------------------
(***************************************************************************)
(* Certificates of one instance: the ones that users upload, and the ones  *)
(* that cert-manager issues on request.                                    *)
(*                                                                         *)
(* An uploaded certificate is a Secret with a generated name, found again  *)
(* by a label that holds the name of the certificate, and an entry of      *)
(* Spec.TLS.  A request to cert-manager is an entry of                     *)
(* Spec.DynamicCertificates; the operator makes a Certificate of it and    *)
(* cert-manager a Secret, which carries the same label.  The operator then *)
(* gives Nginx one Secret for each name.                                   *)
(*                                                                         *)
(* Unlike other edits, the ones of this module send the whole instance     *)
(* back, and the API server refuses it when the instance has changed since *)
(* it was read.  A request takes several calls; each may fail, and others  *)
(* come between them.                                                      *)
(***************************************************************************)
EXTENDS Naturals, Sequences, FiniteSets, SequencesExt

CONSTANTS
    MaxActive,      \* bound: requests in flight at the same time
    CertNames,      \* names of certificates
    Issuers,
    DefaultIssuer,
    Hosts,          \* DNS names
    Inputs,         \* what clients ask for, in each request
    Legacy,         \* what the deprecated field CertManager may hold
    None,           \* no name, no issuer, nothing
    MaxEvents       \* bound: requests, failed calls, crashes and edits of other parts

\* Requests are numbered; a generated Secret has the number of its creator.
Requests == 1..MaxEvents

VARIABLES
    tls,            \* Spec.TLS, in order
    requests,       \* Spec.DynamicCertificates.CertManagerRequests, in order
    legacy,         \* Spec.DynamicCertificates.CertManager, or none
    secrets,
    certs,          \* cert-manager's Certificates
    nginx,          \* the Secrets that Nginx was given, as they were then
    api,            \* the requests in flight
    stale,          \* requests whose copy of the instance is outdated
    op,             \* the reconciler
    pending,        \* the reconciler was told of a change
    failures,
    clean,          \* history: requests that overlapped none that touches the same
    partial,        \* history: an upload wrote the Secret, and then failed, had an
                    \* outdated copy of the instance or met another request
                    \* about its name
    requested,      \* history: names that cert-manager was ever asked for
    acked           \* history: what was last acknowledged about each name

spec == <<tls, requests, legacy>>
history == <<clean, partial, requested, acked>>
vars == <<spec, secrets, certs, nginx, api, stale, op, pending, failures, history>>

\* What the handlers let through: only requests to cert-manager may lack a name,
\* and they are cancelled by issuer if no name is given.  The deprecated field
\* dates from before requests had names.
Input == [op : {"upload", "remove", "request", "byIssuer", "byName"},
          name : CertNames \cup {None}, issuer : Issuers \cup {None},
          hosts : SUBSET Hosts, serial : Nat]
ASSUME CertificatesAssumption ==
    /\ DefaultIssuer \in Issuers
    /\ None \notin CertNames \cup Issuers \cup Nat
    /\ CertNames \cap Issuers = {} /\ Nat \cap (CertNames \cup Issuers) = {}
    /\ {"idle", "certificates"} \cap (CertNames \cup Issuers) = {}
    /\ MaxActive \in Nat
    /\ \A r \in Requests : \A in \in Inputs[r] :
          /\ in \in Input
          /\ in.op \in {"upload", "remove", "byName"} => in.name # None
          /\ in.op = "byIssuer" => in.name = None
    /\ Legacy \subseteq [name : {None}, issuer : Issuers, hosts : SUBSET Hosts]
    /\ MaxEvents \in Nat

----------------------------------------------------------------------------
(* Requests to cert-manager. *)

issuerOrDefault(issuer) == IF issuer = None THEN DefaultIssuer ELSE issuer

\* A request without a name is known by its issuer, with a prefix that uploads
\* may not use.
RequiredName(req) == IF req.name # None THEN req.name ELSE req.issuer

RequestOf(in) == [name |-> in.name, issuer |-> issuerOrDefault(in.issuer), hosts |-> in.hosts]

\* CertManagerRequests: entries of the same name, or without a name and of the
\* same issuer, are one request for all of their hosts.
EntriesOf(reqs, old) == ToSet(reqs) \cup (IF old = None THEN {} ELSE {old})
CertManagerRequests(reqs, old) ==
    {[name |-> n,
      hosts |-> UNION {q.hosts : q \in {e \in EntriesOf(reqs, old) : RequiredName(e) = n}}]
        : n \in {RequiredName(e) : e \in EntriesOf(reqs, old)}}

Without(seq, k) == SubSeq(seq, 1, k - 1) \o SubSeq(seq, k + 1, Len(seq))
First(seq, Test(_)) == SelectInSeq(seq, Test)

findCertManagerRequestByName(reqs, name) ==
    IF name = None THEN 0 ELSE First(reqs, LAMBDA q : q.name = name)
findCertManagerRequestByIssuer(reqs, issuer) ==
    First(reqs, LAMBDA q : q.issuer = issuer)

\* As UpdateCertManagerRequest, by issuer even if there is a name (a mutant).
UpdateRequestByIssuer(copy, in) ==
    LET at == findCertManagerRequestByIssuer(copy.requests, issuerOrDefault(in.issuer)) IN
    [copy EXCEPT
       !.legacy = IF @ # None /\ @.issuer = issuerOrDefault(in.issuer) THEN None ELSE @,
       !.requests = IF at = 0 THEN Append(@, RequestOf(in))
                    ELSE [@ EXCEPT ![at] = RequestOf(in)]]

\* By name if it has one; if not by the issuer that was sent, which is not the
\* one that is stored when the default is used.
UpdateCertManagerRequest(copy, in) ==
    LET byName == findCertManagerRequestByName(copy.requests, in.name)
        byIssuer == findCertManagerRequestByIssuer(copy.requests, in.issuer)
        at == IF in.name # None THEN byName ELSE byIssuer IN
    [copy EXCEPT
       !.legacy = IF @ # None /\ @.issuer = issuerOrDefault(in.issuer) THEN None ELSE @,
       !.requests = IF at = 0 THEN Append(@, RequestOf(in))
                    ELSE [@ EXCEPT ![at] = RequestOf(in)]]

DeleteCertManagerRequestByIssuer(copy, in) ==
    LET issuer == issuerOrDefault(in.issuer)
        at == findCertManagerRequestByIssuer(copy.requests, issuer) IN
    IF copy.legacy # None /\ copy.legacy.issuer = issuer
    THEN [copy EXCEPT !.legacy = None]
    ELSE IF at = 0 THEN copy ELSE [copy EXCEPT !.requests = Without(@, at)]

DeleteCertManagerRequestByName(copy, in) ==
    LET at == findCertManagerRequestByName(copy.requests, in.name) IN
    IF copy.legacy # None /\ copy.legacy.name = in.name
    THEN [copy EXCEPT !.legacy = None]
    ELSE IF at = 0 THEN copy ELSE [copy EXCEPT !.requests = Without(@, at)]

----------------------------------------------------------------------------

NoCopy == [tls |-> <<>>, requests |-> <<>>, legacy |-> None]
Copy == [tls |-> tls, requests |-> requests, legacy |-> legacy]
IdleCall == [pc |-> "idle", in |-> None, copy |-> NoCopy, secret |-> None, wrote |-> FALSE]
IdleOp == [pc |-> "idle", copy |-> NoCopy, old |-> {}, todo |-> {}, ready |-> {}]

Init ==
    /\ tls = <<>> /\ requests = <<>>
    /\ legacy \in Legacy \cup {None}
    /\ secrets = {} /\ certs = {} /\ nginx = {}
    /\ api = [r \in Requests |-> IdleCall]
    /\ stale = {}
    /\ op = IdleOp
    /\ pending = TRUE
    /\ failures = 0
    /\ clean = {} /\ partial = FALSE
    /\ requested = IF legacy = None THEN {} ELSE {RequiredName(legacy)}
    /\ acked = [n \in CertNames \cup Issuers |-> None]

Begun == {r \in Requests : api[r].pc # "idle"}
WithinBound == failures + Cardinality(Begun) < MaxEvents
Fail == WithinBound /\ failures' = failures + 1

SecretsOf(name) == {s \in secrets : s.name = name}
CertData(in) == [hosts |-> in.hosts, serial |-> in.serial]

\* The name that an input is about.
Subject(in) == IF in.op = "byIssuer" THEN issuerOrDefault(in.issuer)
               ELSE RequiredName([name |-> in.name, issuer |-> issuerOrDefault(in.issuer)])
Active == {r \in Requests : api[r].pc \notin {"idle", "done"}}

\* An input also touches the request that another one made if it finds it by its
\* issuer: cancelling by issuer, and asking again without a name, take the first
\* request of that issuer, with a name or not.
Touches(in, other) ==
    \/ Subject(in) = Subject(other)
    \/ /\ in.op \in {"byIssuer", "request"} /\ in.name = None
       /\ other.op = "request" /\ issuerOrDefault(in.issuer) = issuerOrDefault(other.issuer)
Rivals(r, in) ==
    {q \in Active \ {r} : Touches(in, api[q].in) \/ Touches(api[q].in, in)}

Go(r, call) == api' = [api EXCEPT ![r] = call]

\* The request ends: well, or with an error.
Over(r) == Go(r, [IdleCall EXCEPT !.pc = "done"]) /\ clean' = clean \ {r}
Succeed(r) ==
    /\ Over(r)
    /\ acked' = IF r \in clean /\ api[r].in.op \in {"upload", "request"}
                THEN [acked EXCEPT ![Subject(api[r].in)] = api[r].in] ELSE acked
    /\ partial' = (partial \/ (api[r].wrote /\ (r \in stale \/ r \notin clean)))
    /\ UNCHANGED requested
Refuse(r) ==
    /\ Over(r)
    /\ partial' = (partial \/ api[r].wrote)
    /\ UNCHANGED <<requested, acked>>
Proceed(r, call) == Go(r, call) /\ UNCHANGED history

\* Whoever else has read the instance now has an old copy; the reconciler is told.
InstanceChanges(r) == stale' = Active \ {r} /\ pending' = TRUE

Begin(r, in) ==
    /\ api[r].pc = "idle" /\ \A q \in 1 .. r - 1 : api[q].pc # "idle"
    /\ WithinBound /\ Cardinality(Active) < MaxActive
    /\ Go(r, [IdleCall EXCEPT !.pc = "read", !.in = in])
    /\ LET rivals == Rivals(r, in) IN
       clean' = (clean \ rivals) \cup (IF rivals = {} THEN {r} ELSE {})
    /\ acked' = [n \in DOMAIN acked |->
                    IF acked[n] = None \/ Touches(in, acked[n]) THEN None ELSE acked[n]]
    /\ requested' = requested \cup (IF in.op = "request" THEN {Subject(in)} ELSE {})
    /\ UNCHANGED <<spec, secrets, certs, nginx, stale, op, pending, failures, partial>>

\* GetInstance, and what follows from it alone.
ReadInstance(r) ==
    LET call == api[r] IN
    /\ call.pc = "read"
    /\ stale' = stale \ {r}
    /\ LET With(pc, copy) == Proceed(r, [call EXCEPT !.pc = pc, !.copy = copy])
           Edited(copy) == IF copy = Copy THEN Refuse(r) ELSE With("update", copy) IN
       \/ call.in.op = "upload"   /\ With("hosts", Copy)
       \/ call.in.op = "remove"   /\ IF tls = <<>> THEN Refuse(r) ELSE With("lookup", Copy)
       \/ call.in.op = "request"  /\ With("update", UpdateCertManagerRequest(Copy, call.in))
       \/ call.in.op = "byIssuer" /\ Edited(DeleteCertManagerRequestByIssuer(Copy, call.in))
       \/ call.in.op = "byName"   /\ Edited(DeleteCertManagerRequestByName(Copy, call.in))
    /\ UNCHANGED <<spec, secrets, certs, nginx, op, pending, failures>>

\* As GetCertificates, only what Nginx already has (a mutant).
GetServedCertificates ==
    {[name |-> s.name, hosts |-> s.cert.hosts] :
        s \in {t \in secrets : t.id \in {n.id : n \in nginx}}}

\* GetCertificates: by name, what Nginx or else Spec.TLS refers to; what
\* cert-manager was asked for where there is nothing yet.
GetCertificates ==
    LET Shown(ids) == {[name |-> s.name, hosts |-> s.cert.hosts] :
                          s \in {t \in secrets : t.id \in ids}}
        given == Shown({n.id : n \in nginx})
        bound == {c \in Shown({t.id : t \in ToSet(tls)}) : \A g \in given : g.name # c.name}
    IN given \cup bound
       \cup {q \in CertManagerRequests(requests, legacy) :
                \A c \in given \cup bound : c.name # q.name}

\* No certificate of another name may have one of the hosts.
CheckHosts(r) ==
    /\ api[r].pc = "hosts"
    /\ IF \E c \in GetCertificates : /\ c.name # api[r].in.name
                                     /\ c.hosts \cap api[r].in.hosts # {}
       THEN Refuse(r)
       ELSE Proceed(r, [api[r] EXCEPT !.pc = "lookup"])
    /\ UNCHANGED <<spec, secrets, certs, nginx, stale, op, pending, failures>>

GetTLSSecretByCertificateName(r) ==
    LET found == SecretsOf(api[r].in.name)
        upload == api[r].in.op = "upload" IN
    /\ api[r].pc = "lookup"
    /\ \/ /\ Cardinality(found) = 1
          /\ \E s \in found :
                Proceed(r, [api[r] EXCEPT !.secret = s, !.pc = IF upload THEN "write" ELSE "update"])
       \/ found = {} /\ upload /\ Proceed(r, [api[r] EXCEPT !.pc = "create"])
       \/ Cardinality(found) # 1 /\ ~(found = {} /\ upload) /\ Refuse(r)
    /\ UNCHANGED <<spec, secrets, certs, nginx, stale, op, pending, failures>>

CreateSecret(r) ==
    LET s == [id |-> r, name |-> api[r].in.name, cert |-> CertData(api[r].in), by |-> r] IN
    /\ api[r].pc = "create"
    /\ secrets' = secrets \cup {s}
    /\ pending' = TRUE
    /\ Proceed(r, [api[r] EXCEPT !.pc = "update", !.secret = s, !.wrote = TRUE])
    /\ UNCHANGED <<spec, certs, nginx, stale, op, failures>>

\* The Secret that was found is left alone if it is the same, and is not
\* written if it has changed or is gone since.
UpdateSecret(r) ==
    LET old == api[r].secret
        new == [old EXCEPT !.cert = CertData(api[r].in), !.by = r] IN
    /\ api[r].pc = "write"
    /\ \/ /\ old.cert = new.cert
          /\ Proceed(r, [api[r] EXCEPT !.pc = "update"])
          /\ UNCHANGED <<secrets, pending>>
       \/ /\ old.cert # new.cert /\ old \in secrets
          /\ secrets' = (secrets \ {old}) \cup {new}
          /\ pending' = (pending \/ old.id \in Requests)   \* owned by the instance
          /\ Proceed(r, [api[r] EXCEPT !.pc = "update", !.secret = new, !.wrote = TRUE])
       \/ /\ old.cert # new.cert /\ old \notin secrets
          /\ Refuse(r) /\ UNCHANGED <<secrets, pending>>
    /\ UNCHANGED <<spec, certs, nginx, stale, op, failures>>

findCertificate(entries, id) == First(entries, LAMBDA t : t.id = id)

\* updateInstanceSpecWithCertificateInfos and DeleteCertificate on Spec.TLS.
WithCertificate(entries, s) ==
    LET k == findCertificate(entries, s.id)
        entry == [id |-> s.id, hosts |-> s.cert.hosts] IN
    IF k = 0 THEN Append(entries, entry) ELSE [entries EXCEPT ![k] = entry]
\* As WithoutCertificate, which takes the entry out at the front (a mutant).
WithoutFirst(entries, s) ==
    LET k == findCertificate(entries, s.id) IN
    IF k = 0 THEN entries ELSE Tail(entries)

WithoutCertificate(entries, s) ==
    LET k == findCertificate(entries, s.id) IN
    IF k = 0 THEN entries ELSE Without(entries, k)

\* The instance is sent back, unless an upload has nothing to change in it.
UpdateInstance(r) ==
    LET call == api[r]
        copy == CASE call.in.op = "upload" ->
                       [call.copy EXCEPT !.tls = WithCertificate(@, call.secret)]
                  [] call.in.op = "remove" ->
                       [call.copy EXCEPT !.tls = WithoutCertificate(@, call.secret)]
                  [] OTHER -> call.copy
        same == call.in.op = "upload" /\ copy = call.copy IN
    /\ call.pc = "update"
    /\ IF same \/ r \in stale
       THEN /\ IF same THEN Succeed(r) ELSE Refuse(r)
            /\ UNCHANGED <<spec, stale, pending>>
       ELSE /\ tls' = copy.tls /\ requests' = copy.requests /\ legacy' = copy.legacy
            /\ InstanceChanges(r)
            /\ IF call.in.op = "remove" THEN Proceed(r, [call EXCEPT !.pc = "delete"])
               ELSE Succeed(r)
    /\ UNCHANGED <<secrets, certs, nginx, op, failures>>

DeleteSecret(r) ==
    LET gone == {s \in secrets : s.id = api[r].secret.id} IN
    /\ api[r].pc = "delete"
    /\ secrets' = secrets \ gone
    /\ pending' = (pending \/ api[r].secret.id \in Requests)
    /\ IF gone = {} THEN Refuse(r) ELSE Succeed(r)
    /\ UNCHANGED <<spec, certs, nginx, stale, op, failures>>

\* Any call to the API server may fail; so does a request that the annotations
\* of its issuer forbid.
CallFails(r) ==
    /\ r \in Active
    /\ Fail
    /\ Refuse(r)
    /\ UNCHANGED <<spec, secrets, certs, nginx, stale, op, pending>>

\* Some other part of the instance is edited.
OtherEdit ==
    /\ Fail
    /\ stale' = Active
    /\ pending' = TRUE
    /\ UNCHANGED <<spec, secrets, certs, nginx, api, op, history>>

ApiStep(r) ==
    \/ \E in \in Inputs[r] : Begin(r, in)
    \/ ReadInstance(r) \/ CheckHosts(r) \/ GetTLSSecretByCertificateName(r)
    \/ CreateSecret(r) \/ UpdateSecret(r) \/ UpdateInstance(r) \/ DeleteSecret(r)
    \/ CallFails(r)

----------------------------------------------------------------------------
(* The reconciler. *)

\* Reconcile ends with an error: it is tried again.
Abort == op' = IdleOp /\ pending' = TRUE

NamesOf(set) == {x.name : x \in set}

\* As StartReconcile, without removeOldCertificates (a mutant).
StartWithoutRemoving ==
    /\ op.pc = "idle" /\ pending
    /\ pending' = FALSE
    /\ op' = [IdleOp EXCEPT !.pc = "certificates", !.copy = Copy,
                            !.todo = CertManagerRequests(requests, legacy)]
    /\ UNCHANGED <<spec, secrets, certs, nginx, api, stale, failures, history>>

\* removeOldCertificates: what is no longer requested.
StartReconcile ==
    LET wanted == CertManagerRequests(requests, legacy) IN
    /\ op.pc = "idle" /\ pending
    /\ pending' = FALSE
    /\ op' = [IdleOp EXCEPT !.pc = "certificates", !.copy = Copy, !.todo = wanted,
                            !.old = NamesOf(certs) \ NamesOf(wanted)]
    /\ UNCHANGED <<spec, secrets, certs, nginx, api, stale, failures, history>>

RemoveOldCertificate ==
    /\ op.pc = "certificates" /\ op.old # {}
    /\ \E n \in op.old :
          /\ certs' = {c \in certs : c.name # n}
          /\ op' = [op EXCEPT !.old = @ \ {n}, !.pc = n]
    /\ pending' = TRUE
    /\ UNCHANGED <<spec, secrets, nginx, api, stale, failures, history>>

RemoveOldSecret ==
    /\ op.pc \in CertNames \cup Issuers
    /\ secrets' = {s \in secrets : s.id # op.pc}
    /\ op' = [op EXCEPT !.pc = "certificates"]
    /\ UNCHANGED <<spec, certs, nginx, api, stale, pending, failures, history>>

\* As TakeOverPreviousSecret, for which a missing Secret is an error (a mutant).
TakeOverExistingSecret(n) ==
    LET previous == SecretsOf(n) IN
    /\ \A s \in secrets : s.id # n
    /\ Cardinality(previous) = 1
    /\ secrets' = secrets \cup {[p EXCEPT !.id = n] : p \in previous}

\* takeOverPreviousSecret: so that Nginx has something to serve while
\* cert-manager works, its Secret starts as a copy of the uploaded one.
TakeOverPreviousSecret(n) ==
    LET previous == SecretsOf(n) IN
    /\ \A s \in secrets : s.id # n
    /\ Cardinality(previous) <= 1
    /\ secrets' = secrets \cup {[p EXCEPT !.id = n] : p \in previous}

\* One request: the Certificate is created, and then is not ready; or updated,
\* and then the old one tells whether it is ready.
EnsureCertificate ==
    /\ op.pc = "certificates" /\ op.old = {}
    /\ \E q \in op.todo :
         LET new == [name |-> q.name, hosts |-> q.hosts, ready |-> FALSE] IN
         \/ /\ q.name \notin NamesOf(certs)
            /\ \/ /\ TakeOverPreviousSecret(q.name)
                  /\ certs' = certs \cup {new}
               \/ /\ \E s \in secrets : s.id = q.name
                  /\ certs' = certs \cup {new} /\ UNCHANGED secrets
               \/ /\ \A s \in secrets : s.id # q.name
                  /\ Cardinality(SecretsOf(q.name)) > 1
                  /\ UNCHANGED <<certs, secrets>>
            /\ Abort
         \/ \E old \in certs :
            /\ old.name = q.name
            /\ certs' = (certs \ {old}) \cup {[old EXCEPT !.hosts = q.hosts]}
            /\ IF old.ready
               THEN /\ op' = [op EXCEPT !.todo = @ \ {q}, !.ready = @ \cup {old}]
                    /\ pending' = (pending \/ old.hosts # q.hosts)
               ELSE Abort
            /\ UNCHANGED secrets
    /\ UNCHANGED <<spec, nginx, api, stale, failures, history>>

\* newNginxTLS: one Secret for each name of a certificate; of two entries of
\* Spec.TLS the last, and cert-manager's before any.
newNginxTLS(entries, ready) ==
    LET NameOf(id) == NamesOf({s \in secrets : s.id = id})
        last == {k \in DOMAIN entries :
                   /\ NameOf(entries[k].id) # {}
                   /\ NameOf(entries[k].id) \cap NamesOf(ready) = {}
                   /\ \A j \in k + 1 .. Len(entries) :
                         NameOf(entries[j].id) # NameOf(entries[k].id)}
        ids == {entries[k].id : k \in last} \cup NamesOf(ready) IN
    {s \in secrets : s.id \in ids}

ReconcileNginx ==
    /\ op.pc = "certificates" /\ op.old = {} /\ op.todo = {}
    /\ nginx' = newNginxTLS(op.copy.tls, op.ready)
    /\ op' = IdleOp
    /\ UNCHANGED <<spec, secrets, certs, api, stale, pending, failures, history>>

\* A call fails, or the operator restarts.
ReconcileFails ==
    /\ op.pc # "idle"
    /\ Fail
    /\ Abort
    /\ UNCHANGED <<spec, secrets, certs, nginx, api, stale, history>>

Reconcile ==
    \/ StartReconcile \/ RemoveOldCertificate \/ RemoveOldSecret
    \/ EnsureCertificate \/ ReconcileNginx

\* cert-manager issues what a Certificate asks for, and does so again when its
\* Secret is not that.
Issued(c) == c.ready /\ \E s \in secrets : /\ s.id = c.name /\ s.by = None
                                           /\ s.cert.hosts = c.hosts
Issue(c) ==
    /\ ~Issued(c)
    /\ secrets' = {s \in secrets : s.id # c.name} \cup
                  {[id |-> c.name, name |-> c.name, cert |-> [hosts |-> c.hosts, serial |-> 0],
                    by |-> None]}
    /\ certs' = (certs \ {c}) \cup {[c EXCEPT !.ready = TRUE]}
    /\ pending' = TRUE
    /\ UNCHANGED <<spec, nginx, api, stale, op, failures, history>>

CertManager == \E c \in certs : Issue(c)

----------------------------------------------------------------------------

Next ==
    \/ \E r \in Requests : ApiStep(r)
    \/ OtherEdit
    \/ Reconcile \/ ReconcileFails
    \/ CertManager

Spec == Init /\ [][Next]_vars

\* The work queue calls the reconciler again and again, and cert-manager issues.
FairSpec == Spec /\ WF_vars(Reconcile) /\ WF_vars(CertManager)

----------------------------------------------------------------------------
(* Properties. *)

\* Objects have their shape.
TypeOK ==
    /\ \A t \in ToSet(tls) : t.id \in Requests \cup CertNames /\ t.hosts \subseteq Hosts
    /\ \A q \in ToSet(requests) : q.issuer \in Issuers /\ q.hosts \subseteq Hosts
    /\ \A s \in secrets : s.id \in Requests \cup CertNames \cup Issuers
    /\ NamesOf(certs) \subseteq CertNames \cup Issuers
    /\ Cardinality(NamesOf(certs)) = Cardinality(certs)
    /\ stale \subseteq Requests

\* An upload that was acknowledged and overlapped no other request about its
\* name is bound to the instance with the data that was sent, whatever is asked
\* about other names meanwhile.  Only for names that cert-manager was never
\* asked for: there the operator, still at work on a cancelled request, deletes
\* the Secret that the upload has reused.
AckedCertificateKept ==
    \A n \in CertNames \ requested :
        acked[n] # None /\ acked[n].op = "upload" =>
            \E t \in ToSet(tls), s \in secrets :
                /\ t.id = s.id /\ s.name = n
                /\ s.cert = CertData(acked[n]) /\ t.hosts = s.cert.hosts

\* A request to cert-manager that was acknowledged stands, for all of its hosts
\* and, if it has a name, no other ones.  (One without a name may leave an older
\* one of its issuer in place, and is then issued together with it.)
AckedRequestKept ==
    \A n \in CertNames \cup Issuers :
        acked[n] # None /\ acked[n].op = "request" =>
            \E q \in CertManagerRequests(requests, legacy) :
                /\ q.name = n /\ acked[n].hosts \subseteq q.hosts
                /\ acked[n].name # None => q.hosts = acked[n].hosts

\* As long as no upload is halfway, failed halfway, took an outdated copy of the
\* instance for one that needs no change, or met another request about its name,
\* no two certificates of different names are bound to the same host, although
\* uploads check that against what others have not written yet.  Only for names
\* that cert-manager was never asked for: what it issues hides the uploaded
\* certificate from the check.
HostsDisjoint ==
    ~partial /\ (\A r \in Active : ~api[r].wrote) =>
        \A s, t \in {x \in secrets : /\ x.id \in {e.id : e \in ToSet(tls)}
                                    /\ x.name \notin requested} :
            s.name # t.name => s.cert.hosts \cap t.cert.hosts = {}

Calm == ~pending /\ op = IdleOp /\ Active = {} /\ \A c \in certs : Issued(c)

\* When nothing is left to do, there is a Certificate for each request and no
\* other one, and Nginx was given the Secrets as they are: the ones of
\* cert-manager, and of the entries of Spec.TLS.  (Not where cert-manager has left
\* its Secret behind and an upload uses that: nobody watches it.)
QuiescentCertificates ==
    Calm => /\ {[name |-> c.name, hosts |-> c.hosts] : c \in certs}
                   = CertManagerRequests(requests, legacy)
            /\ \A n \in NamesOf(certs) \cup (CertNames \ requested) :
                  {s \in nginx : s.name = n} = {s \in newNginxTLS(tls, certs) : s.name = n}

\* In the end nothing is left to do, unless cert-manager was asked for a name
\* that two Secrets already have: the reconciler then fails each time.
EventuallyCalm ==
    <>[](\/ ~pending /\ op = IdleOp
         \/ \E n \in NamesOf(CertManagerRequests(requests, legacy)) :
               Cardinality(SecretsOf(n)) > 1 /\ \A s \in SecretsOf(n) : s.id # n)
=============================================================================
