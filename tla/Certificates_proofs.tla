------------------------ MODULE Certificates_proofs ------------------------
(***************************************************************************)
(* What the API acknowledged about certificates is kept, for any names,    *)
(* issuers, hosts, inputs and number of requests: an uploaded certificate  *)
(* has its Secret and its entry of Spec.TLS, and a request to cert-manager *)
(* stays in the spec.  Both speak of requests that no rival overlaps, so   *)
(* the argument is about three kinds of steps: of the request itself, of   *)
(* requests about something else, which must leave it alone although they  *)
(* patch the same lists, and of the operator and cert-manager, which work  *)
(* only on names that cert-manager was asked for.  Two more parts build on *)
(* that: when all is quiet, Certificates and Nginx are what the spec asks  *)
(* for; and hosts of different certificates stay apart, although uploads   *)
(* check them long before they bind them.                                  *)
(***************************************************************************)
EXTENDS Certificates, FiniteSetTheorems, SequenceTheorems, TLAPS

\* The types: names of certificates, identities of Secrets (the number of the
\* request that created it, or the name that cert-manager issued it for), the
\* entries of Spec.TLS, requests to cert-manager, copies of the instance.
Names == CertNames \cup Issuers
Ids == Requests \cup Names
Entry == [id : Ids, hosts : SUBSET Hosts]
Req == [name : CertNames \cup {None}, issuer : Issuers, hosts : SUBSET Hosts]
LegacyReq == [name : {None}, issuer : Issuers, hosts : SUBSET Hosts]
Copies == [tls : Seq(Entry), requests : Seq(Req), legacy : LegacyReq \cup {None}]
Data == [hosts : SUBSET Hosts, serial : Nat]
Secret == [id : Ids, name : Names, cert : Data, by : Requests \cup {None}]

\* The smallest of a set of positions.
LEMMA Smallest ==
    ASSUME NEW S \in SUBSET Nat, S # {}
    PROVE  /\ Min(S) \in S
           /\ \A k \in S : Min(S) <= k
<1>1. \E x \in S : \A y \in S : ~(<<y, x>> \in OpToRel(<, Nat))
  BY NatLessThanWellFounded, WFMin
<1>2. PICK m \in S : \A k \in S : ~(k < m)
  BY <1>1 DEF OpToRel
<1>3. \E x \in S : \A y \in S : x <= y
  BY <1>2
<1> QED BY <1>3 DEF Min

\* What the lookups return: 0, or the first position that matches.
LEMMA FoundByName ==
    ASSUME NEW s \in Seq(Req), NEW name \in CertNames
    PROVE  LET at == findCertManagerRequestByName(s, name)
           IN  \/ at = 0 /\ \A k \in DOMAIN s : s[k].name # name
               \/ at \in DOMAIN s /\ s[at].name = name
<1> DEFINE I == {k \in 1..Len(s) : s[k].name = name}
<1>1. name # None
  BY CertificatesAssumption
<1>2. findCertManagerRequestByName(s, name) = IF I # {} THEN Min(I) ELSE 0
  BY <1>1 DEF findCertManagerRequestByName, First, SelectInSeq
<1>3. I \in SUBSET Nat /\ DOMAIN s = 1..Len(s)
  OBVIOUS
<1>4. I # {} => Min(I) \in I
  BY <1>3, Smallest
<1> QED BY <1>2, <1>3, <1>4

LEMMA FoundByIssuer ==
    ASSUME NEW s \in Seq(Req), NEW issuer
    PROVE  LET at == findCertManagerRequestByIssuer(s, issuer)
           IN  \/ at = 0 /\ \A k \in DOMAIN s : s[k].issuer # issuer
               \/ at \in DOMAIN s /\ s[at].issuer = issuer
<1> DEFINE I == {k \in 1..Len(s) : s[k].issuer = issuer}
<1>2. findCertManagerRequestByIssuer(s, issuer) = IF I # {} THEN Min(I) ELSE 0
  BY DEF findCertManagerRequestByIssuer, First, SelectInSeq
<1>3. I \in SUBSET Nat /\ DOMAIN s = 1..Len(s)
  OBVIOUS
<1>4. I # {} => Min(I) \in I
  BY <1>3, Smallest
<1> QED BY <1>2, <1>3, <1>4

LEMMA FoundCertificate ==
    ASSUME NEW s \in Seq(Entry), NEW id
    PROVE  LET at == findCertificate(s, id)
           IN  \/ at = 0 /\ \A k \in DOMAIN s : s[k].id # id
               \/ at \in DOMAIN s /\ s[at].id = id
<1> DEFINE I == {k \in 1..Len(s) : s[k].id = id}
<1>2. findCertificate(s, id) = IF I # {} THEN Min(I) ELSE 0
  BY DEF findCertificate, First, SelectInSeq
<1>3. I \in SUBSET Nat /\ DOMAIN s = 1..Len(s)
  OBVIOUS
<1>4. I # {} => Min(I) \in I
  BY <1>3, Smallest
<1> QED BY <1>2, <1>3, <1>4

\* An element is taken out of a sequence; the others stay, in their order.
LEMMA WithoutOne ==
    ASSUME NEW S, NEW s \in Seq(S), NEW at \in DOMAIN s
    PROVE  /\ Without(s, at) \in Seq(S)
           /\ DOMAIN Without(s, at) = 1 .. Len(s) - 1
           /\ \A k \in 1 .. Len(s) - 1 :
                 Without(s, at)[k] = s[IF k < at THEN k ELSE k + 1]
<1>1. at \in 1..Len(s) /\ Len(s) \in Nat
  OBVIOUS
<1> DEFINE a == SubSeq(s, 1, at - 1)
           b == SubSeq(s, at + 1, Len(s))
<1>2. a \in Seq(S) /\ Len(a) = at - 1 /\ \A k \in 1..at - 1 : a[k] = s[k]
  BY <1>1
<1>3. b \in Seq(S) /\ Len(b) = Len(s) - at /\ \A k \in 1..Len(s) - at : b[k] = s[k + at]
  BY <1>1
<1>4. Without(s, at) = a \o b
  BY DEF Without
<1> HIDE DEF a, b
<1>5. Without(s, at) \in Seq(S) /\ Len(Without(s, at)) = Len(s) - 1
  BY <1>1, <1>2, <1>3, <1>4
<1>6. ASSUME NEW k \in 1 .. Len(s) - 1
      PROVE  Without(s, at)[k] = s[IF k < at THEN k ELSE k + 1]
  <2>1. CASE k < at
    BY <1>1, <1>2, <1>3, <1>4, <2>1
  <2>2. CASE ~(k < at)
    <3>1. (a \o b)[k] = b[k - (at - 1)]
      <4>1. k \in 1 .. Len(a) + Len(b) /\ ~(k <= Len(a))
        BY <1>1, <1>2, <1>3, <2>2
      <4>2. (a \o b)[k] = b[k - Len(a)]
        BY <1>2, <1>3, <4>1, ConcatProperties
      <4> QED BY <1>2, <4>2
    <3>2. k - (at - 1) \in 1..Len(s) - at /\ k - (at - 1) + at = k + 1
      BY <1>1, <2>2
    <3>3. b[k - (at - 1)] = s[k - (at - 1) + at]
      BY <1>3, <3>2
    <3>4. Without(s, at)[k] = s[k + 1]
      BY <1>4, <3>1, <3>2, <3>3
    <3> QED BY <2>2, <3>4
  <2> QED BY <2>1, <2>2
<1> QED BY <1>5, <1>6

----------------------------------------------------------------------------
(* Edits of the requests to cert-manager. *)

\* The inputs that the API can have parsed.
Inp == {in \in Input :
          /\ in.op \in {"upload", "remove", "byName"} => in.name # None
          /\ in.op = "byIssuer" => in.name = None}

\* No two requests to cert-manager have the same name.
Distinct(reqs) ==
    \A j, k \in DOMAIN reqs :
        reqs[j].name # None /\ reqs[j].name = reqs[k].name => j = k

\* What an input is made of.
LEMMA InputFacts ==
    ASSUME NEW in \in Inp
    PROVE  /\ in \in Input
           /\ in.name \in CertNames \cup {None} /\ in.issuer \in Issuers \cup {None}
           /\ in.hosts \in SUBSET Hosts /\ in.serial \in Nat
           /\ in.op \in {"upload", "remove", "request", "byIssuer", "byName"}
           /\ in.op \in {"upload", "remove", "byName"} => in.name \in CertNames
           /\ in.op = "byIssuer" => in.name = None
           /\ issuerOrDefault(in.issuer) \in Issuers
           /\ RequestOf(in) \in Req
           /\ RequestOf(in).name = in.name
           /\ RequestOf(in).issuer = issuerOrDefault(in.issuer)
           /\ RequestOf(in).hosts = in.hosts
<1>1. in \in Input
  BY DEF Inp
<1>2. issuerOrDefault(in.issuer) \in Issuers
  BY <1>1, CertificatesAssumption DEF Input, issuerOrDefault
<1> QED BY <1>1, <1>2 DEF Inp, Input, RequestOf, Req

\* One of several requests is replaced, added or taken out.
LEMMA ReplaceRequest ==
    ASSUME NEW s \in Seq(Req), NEW new \in Req, NEW at \in DOMAIN s,
           s[at].name = new.name \/ new.name = None
    PROVE  LET t == [s EXCEPT ![at] = new]
           IN  /\ t \in Seq(Req)
               /\ new \in ToSet(t) /\ ToSet(t) \subseteq ToSet(s) \cup {new}
               /\ \A e \in ToSet(s) : e \in ToSet(t) \/ e = s[at]
               /\ Distinct(s) => Distinct(t)
<1> DEFINE t == [s EXCEPT ![at] = new]
<1>1. t \in Seq(Req) /\ DOMAIN t = DOMAIN s /\ t[at] = new
  OBVIOUS
<1>2. \A k \in DOMAIN s : k # at => t[k] = s[k]
  OBVIOUS
<1> HIDE DEF t
<1>3. new \in ToSet(t) /\ ToSet(t) \subseteq ToSet(s) \cup {new}
  BY <1>1, <1>2 DEF ToSet
<1>4. \A e \in ToSet(s) : e \in ToSet(t) \/ e = s[at]
  BY <1>1, <1>2 DEF ToSet
<1>5. Distinct(s) => Distinct(t)
  BY <1>1, <1>2 DEF Distinct
<1>6. QED BY <1>1, <1>3, <1>4, <1>5 DEF t

\* A new request at the end of the list.
LEMMA AddRequest ==
    ASSUME NEW s \in Seq(Req), NEW new \in Req,
           new.name # None => \A k \in DOMAIN s : s[k].name # new.name
    PROVE  LET t == Append(s, new)
           IN  /\ t \in Seq(Req)
               /\ new \in ToSet(t) /\ ToSet(t) \subseteq ToSet(s) \cup {new}
               /\ ToSet(s) \subseteq ToSet(t)
               /\ Distinct(s) => Distinct(t)
<1> DEFINE t == Append(s, new)
<1>1. /\ t \in Seq(Req) /\ DOMAIN t = 1 .. Len(s) + 1 /\ t[Len(s) + 1] = new
      /\ DOMAIN s = 1 .. Len(s) /\ Len(s) \in Nat
  OBVIOUS
<1>2. \A k \in 1 .. Len(s) : t[k] = s[k]
  OBVIOUS
<1>3. \A k \in 1 .. Len(s) + 1 : k \in 1 .. Len(s) \/ k = Len(s) + 1
  BY <1>1
<1> HIDE DEF t
<1>4. new \in ToSet(t) /\ ToSet(t) \subseteq ToSet(s) \cup {new}
  BY <1>1, <1>2, <1>3 DEF ToSet
<1>5. ToSet(s) \subseteq ToSet(t)
  BY <1>1, <1>2 DEF ToSet
<1>6. Distinct(s) => Distinct(t)
  BY <1>1, <1>2, <1>3 DEF Distinct
<1> QED BY <1>1, <1>4, <1>5, <1>6 DEF t

\* The list without one of its requests.
LEMMA DropRequest ==
    ASSUME NEW s \in Seq(Req), NEW at \in DOMAIN s
    PROVE  /\ Without(s, at) \in Seq(Req)
           /\ ToSet(Without(s, at)) \subseteq ToSet(s)
           /\ \A e \in ToSet(s) : e \in ToSet(Without(s, at)) \/ e = s[at]
           /\ Distinct(s) => Distinct(Without(s, at))
<1> DEFINE t == Without(s, at)
           From(k) == IF k < at THEN k ELSE k + 1
<1>1. /\ t \in Seq(Req) /\ DOMAIN t = 1 .. Len(s) - 1
      /\ \A k \in 1 .. Len(s) - 1 : t[k] = s[From(k)]
  BY WithoutOne
<1>2. Len(s) \in Nat /\ DOMAIN s = 1 .. Len(s) /\ at \in 1 .. Len(s)
  OBVIOUS
<1>3. \A k \in 1 .. Len(s) - 1 : From(k) \in DOMAIN s
  BY <1>2
<1>4. \A j, k \in 1 .. Len(s) - 1 : From(j) = From(k) => j = k
  BY <1>2
<1>5. \A k \in DOMAIN s : k = at \/ \E j \in 1 .. Len(s) - 1 : From(j) = k
  <2> SUFFICES ASSUME NEW k \in DOMAIN s, k # at
               PROVE  \E j \in 1 .. Len(s) - 1 : From(j) = k
    OBVIOUS
  <2>1. CASE k < at
    <3>1. k \in 1 .. Len(s) - 1 /\ From(k) = k
      BY <1>2, <2>1
    <3> QED BY <3>1
  <2>2. CASE k > at
    <3>1. k - 1 \in 1 .. Len(s) - 1 /\ From(k - 1) = k
      BY <1>2, <2>2
    <3> QED BY <3>1
  <2> QED BY <1>2, <2>1, <2>2
<1> HIDE DEF t, From
<1>6. ToSet(t) \subseteq ToSet(s)
  BY <1>1, <1>3 DEF ToSet
<1>7. ASSUME NEW e \in ToSet(s), e # s[at]
      PROVE  e \in ToSet(t)
  <2>1. PICK k \in DOMAIN s : e = s[k]
    BY DEF ToSet
  <2>2. PICK j \in 1 .. Len(s) - 1 : From(j) = k
    BY <1>5, <1>7, <2>1
  <2>3. j \in DOMAIN t /\ t[j] = e
    BY <1>1, <2>1, <2>2
  <2> QED BY <2>3 DEF ToSet
<1>8. Distinct(s) => Distinct(t)
  <2>0. DOMAIN t = 1 .. Len(s) - 1
    BY <1>1
  <2> SUFFICES ASSUME Distinct(s), NEW j \in DOMAIN t, NEW k \in DOMAIN t,
                      t[j].name # None, t[j].name = t[k].name
               PROVE  j = k
    BY Zenon DEF Distinct
  <2>1. s[From(j)].name # None /\ s[From(j)].name = s[From(k)].name
    BY <1>1, <2>0
  <2>2. From(j) = From(k)
    BY <1>3, <2>0, <2>1 DEF Distinct
  <2> QED BY <1>4, <2>0, <2>2
<1> QED BY <1>1, <1>6, <1>7, <1>8 DEF t

\* UpdateCertManagerRequest on any copy of an instance: the request is there,
\* and no other one is lost that has neither its name nor, if it has none, its
\* issuer.
LEMMA RequestEdit ==
    ASSUME NEW copy \in Copies, NEW in \in Inp, in.op = "request"
    PROVE  LET new == UpdateCertManagerRequest(copy, in)
           IN  /\ new \in Copies /\ new.tls = copy.tls
               /\ RequestOf(in) \in ToSet(new.requests)
               /\ ToSet(new.requests) \subseteq ToSet(copy.requests) \cup {RequestOf(in)}
               /\ new.legacy \in {copy.legacy, None}
               /\ Distinct(copy.requests) => Distinct(new.requests)
               /\ \A e \in ToSet(copy.requests) :
                     \/ e \in ToSet(new.requests)
                     \/ in.name # None /\ e.name = in.name
                     \/ in.name = None /\ e.issuer = in.issuer
<1> DEFINE s == copy.requests
           at == IF in.name # None THEN findCertManagerRequestByName(s, in.name)
                 ELSE findCertManagerRequestByIssuer(s, in.issuer)
           list == IF at = 0 THEN Append(s, RequestOf(in)) ELSE [s EXCEPT ![at] = RequestOf(in)]
           old == IF copy.legacy # None /\ copy.legacy.issuer = issuerOrDefault(in.issuer)
                  THEN None ELSE copy.legacy
           new == UpdateCertManagerRequest(copy, in)
<1>1. s \in Seq(Req) /\ copy.tls \in Seq(Entry) /\ copy.legacy \in LegacyReq \cup {None}
  BY DEF Copies
<1>2. RequestOf(in) \in Req /\ RequestOf(in).name = in.name /\ in.name \in CertNames \cup {None}
  BY InputFacts
<1>3. \/ at = 0 /\ (in.name # None => \A k \in DOMAIN s : s[k].name # in.name)
      \/ at \in DOMAIN s /\ in.name # None /\ s[at].name = in.name
      \/ at \in DOMAIN s /\ in.name = None /\ s[at].issuer = in.issuer
  <2>1. CASE in.name # None
    BY <1>1, <1>2, <2>1, FoundByName
  <2>2. CASE in.name = None
    BY <1>1, <2>2, FoundByIssuer
  <2> QED BY <2>1, <2>2
<1>4. new = [copy EXCEPT !.legacy = old, !.requests = list]
  BY DEF UpdateCertManagerRequest
<1>5. old \in {copy.legacy, None}
  OBVIOUS
<1> HIDE DEF old, at
<1>6. /\ list \in Seq(Req) /\ RequestOf(in) \in ToSet(list)
      /\ ToSet(list) \subseteq ToSet(s) \cup {RequestOf(in)}
      /\ Distinct(s) => Distinct(list)
      /\ \A e \in ToSet(s) :
            \/ e \in ToSet(list)
            \/ in.name # None /\ e.name = in.name
            \/ in.name = None /\ e.issuer = in.issuer
  <2>0. 0 \notin DOMAIN s
    BY <1>1
  <2>1. CASE at = 0
    <3>1. list = Append(s, RequestOf(in))
      BY <2>1
    <3>2. RequestOf(in).name # None => \A k \in DOMAIN s : s[k].name # RequestOf(in).name
      BY <1>2, <1>3, <2>0, <2>1
    <3> HIDE DEF s, list
    <3> QED BY <1>1, <1>2, <3>1, <3>2, AddRequest
  <2>2. CASE at \in DOMAIN s
    <3>1. list = [s EXCEPT ![at] = RequestOf(in)]
      BY <2>0, <2>2
    <3>2. s[at].name = RequestOf(in).name \/ RequestOf(in).name = None
      BY <1>2, <1>3, <2>0, <2>2
    <3> HIDE DEF s, list
    <3> QED BY <1>1, <1>2, <1>3, <2>0, <2>2, <3>1, <3>2, ReplaceRequest
  <2> QED BY <1>3, <2>1, <2>2
<1> HIDE DEF list, new, s
<1>7. /\ new \in Copies /\ new.tls = copy.tls /\ new.requests = list /\ new.legacy = old
  BY <1>1, <1>4, <1>5, <1>6 DEF Copies
<1> QED BY <1>5, <1>6, <1>7 DEF new, s

\* The two ways to cancel a request take out what they are asked for at most.
Cancels(copy, new, in) ==
    /\ new \in Copies /\ new.tls = copy.tls
    /\ ToSet(new.requests) \subseteq ToSet(copy.requests)
    /\ new.legacy \in {copy.legacy, None}
    /\ Distinct(copy.requests) => Distinct(new.requests)
    /\ \A e \in ToSet(copy.requests) :
          \/ e \in ToSet(new.requests)
          \/ in.op = "byName" /\ e.name = in.name
          \/ in.op = "byIssuer" /\ e.issuer = issuerOrDefault(in.issuer)

\* What the deletions leave: all that they were not asked to delete.
LEMMA CancelEdit ==
    ASSUME NEW copy \in Copies, NEW in, NEW new, NEW at,
           \/ new = [copy EXCEPT !.legacy = None]
           \/ new = copy
           \/ /\ at \in DOMAIN copy.requests
              /\ new = [copy EXCEPT !.requests = Without(@, at)]
              /\ \/ in.op = "byName" /\ copy.requests[at].name = in.name
                 \/ in.op = "byIssuer" /\ copy.requests[at].issuer = issuerOrDefault(in.issuer)
    PROVE  Cancels(copy, new, in)
<1> DEFINE list == Without(copy.requests, at)
<1>1. CASE new = copy
  BY <1>1 DEF Cancels
<1>3. CASE new = [copy EXCEPT !.legacy = None]
  <2>1. /\ new \in Copies /\ new.tls = copy.tls /\ new.requests = copy.requests
        /\ new.legacy = None
    BY <1>3 DEF Copies
  <2> QED BY <2>1 DEF Cancels
<1>4. CASE /\ at \in DOMAIN copy.requests
           /\ new = [copy EXCEPT !.requests = list]
           /\ \/ in.op = "byName" /\ copy.requests[at].name = in.name
              \/ in.op = "byIssuer" /\ copy.requests[at].issuer = issuerOrDefault(in.issuer)
  <2>1. copy.requests \in Seq(Req)
    BY DEF Copies
  <2>2. /\ list \in Seq(Req) /\ ToSet(list) \subseteq ToSet(copy.requests)
        /\ \A e \in ToSet(copy.requests) : e \in ToSet(list) \/ e = copy.requests[at]
        /\ Distinct(copy.requests) => Distinct(list)
    BY <1>4, <2>1, DropRequest
  <2> HIDE DEF list
  <2>3. /\ new \in Copies /\ new.tls = copy.tls /\ new.requests = list
        /\ new.legacy = copy.legacy
    BY <1>4, <2>2 DEF Copies
  <2> QED BY <1>4, <2>2, <2>3 DEF Cancels
<1> QED BY <1>1, <1>3, <1>4

\* Both deletions are such edits.
LEMMA ByIssuerEdit ==
    ASSUME NEW copy \in Copies, NEW in \in Inp, in.op = "byIssuer"
    PROVE  Cancels(copy, DeleteCertManagerRequestByIssuer(copy, in), in)
<1> DEFINE issuer == issuerOrDefault(in.issuer)
           at == findCertManagerRequestByIssuer(copy.requests, issuer)
           new == DeleteCertManagerRequestByIssuer(copy, in)
<1>1. at = 0 \/ (at \in DOMAIN copy.requests /\ copy.requests[at].issuer = issuer)
  BY FoundByIssuer DEF Copies
<1>2. \/ new = [copy EXCEPT !.legacy = None]
      \/ new = copy
      \/ at # 0 /\ new = [copy EXCEPT !.requests = Without(@, at)]
  BY DEF DeleteCertManagerRequestByIssuer
<1> HIDE DEF at, new
<1> QED BY <1>1, <1>2, CancelEdit DEF new

LEMMA ByNameEdit ==
    ASSUME NEW copy \in Copies, NEW in \in Inp, in.op = "byName"
    PROVE  Cancels(copy, DeleteCertManagerRequestByName(copy, in), in)
<1> DEFINE at == findCertManagerRequestByName(copy.requests, in.name)
           new == DeleteCertManagerRequestByName(copy, in)
<1>0. in.name \in CertNames
  BY InputFacts
<1>1. at = 0 \/ (at \in DOMAIN copy.requests /\ copy.requests[at].name = in.name)
  BY <1>0, FoundByName DEF Copies
<1>2. \/ new = [copy EXCEPT !.legacy = None]
      \/ new = copy
      \/ at # 0 /\ new = [copy EXCEPT !.requests = Without(@, at)]
  BY DEF DeleteCertManagerRequestByName
<1> HIDE DEF at, new
<1> QED BY <1>1, <1>2, CancelEdit DEF new

----------------------------------------------------------------------------
(* Types, and what each step of a request does. *)

\* A call, and what is so in each of its phases.
Pcs == {"idle", "read", "hosts", "lookup", "create", "write", "update", "delete", "done"}
Call == [pc : Pcs, in : Input \cup {None}, copy : Copies, secret : Secret \cup {None},
         wrote : BOOLEAN]
InFlight(c) ==
    /\ c.wrote => c.pc = "update"
    /\ c.pc \notin {"idle", "done"} =>
          /\ c.in \in Inp
          /\ c.wrote => c.in.op = "upload"
          /\ c.pc \in {"hosts", "create", "write"} => c.in.op = "upload"
          /\ c.pc = "lookup" => c.in.op \in {"upload", "remove"}
          /\ c.pc = "delete" => c.in.op = "remove"
          /\ c.pc \in {"write", "delete"} => c.secret \in Secret
          /\ c.pc = "update" /\ c.in.op \in {"upload", "remove"} => c.secret \in Secret

CallTypes == api \in [Requests -> Call] /\ \A r \in Requests : InFlight(api[r])
SpecTypes == /\ tls \in Seq(Entry) /\ requests \in Seq(Req)
             /\ legacy \in LegacyReq \cup {None}

\* What a request makes of its copy of the instance, apart from Spec.TLS.
Prepared(copy, in) ==
    CASE in.op \in {"upload", "remove"} -> copy
      [] in.op = "request"  -> UpdateCertManagerRequest(copy, in)
      [] in.op = "byIssuer" -> DeleteCertManagerRequestByIssuer(copy, in)
      [] in.op = "byName"   -> DeleteCertManagerRequestByName(copy, in)

\* A request moves, and no other one does; it goes on, or ends.
Moved(r) == /\ api' \in [Requests -> Call]
            /\ \A q \in Requests \ {r} : api'[q] = api[q]
GoesOn(r) == /\ Moved(r) /\ api'[r].in = api[r].in
             /\ api'[r].pc \notin {"idle", "done"} /\ InFlight(api'[r])
             /\ UNCHANGED history
Ends(r) == /\ Moved(r) /\ api'[r].pc = "done" /\ InFlight(api'[r])
           /\ clean' = clean \ {r} /\ UNCHANGED requested
Refused(r) == Ends(r) /\ partial' = (partial \/ api[r].wrote) /\ UNCHANGED acked
Succeeded(r) ==
    /\ Ends(r) /\ partial' = (partial \/ (api[r].wrote /\ (r \in stale \/ r \notin clean)))
    /\ acked' = IF r \in clean /\ api[r].in.op \in {"upload", "request"}
                THEN [acked EXCEPT ![Subject(api[r].in)] = api[r].in] ELSE acked

\* The copy that GetInstance returns, and the calls that do nothing.
LEMMA CopyType == SpecTypes => Copy \in Copies /\ Copy.tls = tls
                              /\ Copy.requests = requests /\ Copy.legacy = legacy
BY DEF SpecTypes, Copy, Copies

LEMMA IdleType == /\ IdleCall \in Call /\ IdleCall.wrote = FALSE
                  /\ NoCopy \in Copies
BY DEF IdleCall, Call, NoCopy, Copies, Pcs

\* The four ways in which the steps of a call end.
LEMMA GoMoves ==
    ASSUME CallTypes, NEW r \in Requests, NEW c \in Call, Go(r, c)
    PROVE  Moved(r) /\ api'[r] = c
BY DEF CallTypes, Moved, Go

LEMMA OverEnds ==
    ASSUME CallTypes, NEW r \in Requests, Over(r), UNCHANGED requested
    PROVE  Ends(r)
<1> DEFINE c == [IdleCall EXCEPT !.pc = "done"]
<1>1. c \in Call /\ c.pc = "done" /\ c.wrote = FALSE
  <2>1. "done" \in Pcs /\ IdleCall \in Call /\ IdleCall.wrote = FALSE
    BY IdleType DEF Pcs
  <2>2. \A d \in Call : /\ [d EXCEPT !.pc = "done"] \in Call
                        /\ [d EXCEPT !.pc = "done"].pc = "done"
                        /\ [d EXCEPT !.pc = "done"].wrote = d.wrote
    BY DEF Call, Pcs
  <2> QED BY <2>1, <2>2, Zenon
<1> HIDE DEF c
<1>2. Moved(r) /\ api'[r] = c
  BY <1>1, GoMoves DEF Over, c
<1> QED BY <1>1, <1>2 DEF Ends, InFlight, Over

LEMMA RefuseEnds ==
    ASSUME CallTypes, NEW r \in Requests, Refuse(r)
    PROVE  Refused(r)
BY OverEnds DEF Refuse, Refused

LEMMA SucceedEnds ==
    ASSUME CallTypes, NEW r \in Requests, Succeed(r)
    PROVE  Succeeded(r)
BY OverEnds DEF Succeed, Succeeded

\* What GetInstance has read is prepared, or the request is refused.
LEMMA PreparedType ==
    ASSUME SpecTypes, NEW in \in Inp
    PROVE  Prepared(Copy, in) \in Copies
<1>1. Copy \in Copies
  BY CopyType
<1>2. in.op \in {"upload", "remove", "request", "byIssuer", "byName"}
  BY InputFacts
<1>3. CASE in.op \in {"upload", "remove"}
  BY <1>1, <1>3 DEF Prepared
<1>4. CASE in.op = "request"
  BY <1>1, <1>4, RequestEdit DEF Prepared
<1>5. CASE in.op = "byIssuer"
  BY <1>1, <1>5, ByIssuerEdit DEF Prepared, Cancels
<1>6. CASE in.op = "byName"
  BY <1>1, <1>6, ByNameEdit DEF Prepared, Cancels
<1> QED BY <1>2, <1>3, <1>4, <1>5, <1>6

\* What each step of a request does, one lemma for each.
LEMMA ReadEffect ==
    ASSUME CallTypes, SpecTypes, NEW r \in Requests, ReadInstance(r)
    PROVE  \/ Refused(r)
           \/ /\ GoesOn(r) /\ ~api[r].wrote /\ ~api'[r].wrote
              /\ api'[r].copy = Prepared(Copy, api[r].in)
              /\ api'[r].pc = CASE api[r].in.op = "upload" -> "hosts"
                                 [] api[r].in.op = "remove" -> "lookup"
                                 [] OTHER -> "update"
<1> DEFINE c == api[r]
           With(p, k) == [c EXCEPT !.pc = p, !.copy = k]
<1>1. c \in Call /\ InFlight(c) /\ c.pc = "read"
  BY DEF CallTypes, ReadInstance
<1>2. c.in \in Inp /\ ~c.wrote
  BY <1>1 DEF InFlight
<1>3. c.in.op \in {"upload", "remove", "request", "byIssuer", "byName"}
  BY <1>2, InputFacts
<1>4. Prepared(Copy, c.in) \in Copies
  BY <1>2, PreparedType
<1>5. ASSUME NEW p \in {"hosts", "lookup", "update"}, Proceed(r, With(p, Prepared(Copy, c.in))),
             p = CASE c.in.op = "upload" -> "hosts"
                   [] c.in.op = "remove" -> "lookup"
                   [] OTHER -> "update"
      PROVE  /\ GoesOn(r) /\ ~c.wrote /\ ~api'[r].wrote
             /\ api'[r].copy = Prepared(Copy, c.in) /\ api'[r].pc = p
  <2> DEFINE d == With(p, Prepared(Copy, c.in))
  <2>0. p \in Pcs
    BY DEF Pcs
  <2>1. /\ d \in Call /\ d.pc = p /\ d.in = c.in /\ d.copy = Prepared(Copy, c.in)
        /\ d.wrote = c.wrote
    BY <1>1, <1>4, <2>0 DEF Call
  <2> HIDE DEF d
  <2>2. Moved(r) /\ api'[r] = d /\ UNCHANGED history
    BY <1>5, <2>1, GoMoves DEF Proceed, d
  <2>3. p = "hosts" => c.in.op = "upload"
    BY <1>3, <1>5
  <2>4. p = "lookup" => c.in.op = "remove"
    BY <1>3, <1>5
  <2>5. p = "update" => c.in.op \notin {"upload", "remove"}
    BY <1>3, <1>5
  <2>6. InFlight(d)
    BY <1>2, <2>1, <2>3, <2>4, <2>5 DEF InFlight
  <2> QED BY <1>2, <2>1, <2>2, <2>6 DEF GoesOn
<1> HIDE DEF c
<1>6. \/ c.in.op = "upload" /\ Proceed(r, With("hosts", Copy))
      \/ c.in.op = "remove" /\ (Refuse(r) \/ Proceed(r, With("lookup", Copy)))
      \/ /\ c.in.op = "request"
         /\ Proceed(r, With("update", UpdateCertManagerRequest(Copy, c.in)))
      \/ /\ c.in.op = "byIssuer"
         /\ \/ Refuse(r)
            \/ Proceed(r, With("update", DeleteCertManagerRequestByIssuer(Copy, c.in)))
      \/ /\ c.in.op = "byName"
         /\ \/ Refuse(r)
            \/ Proceed(r, With("update", DeleteCertManagerRequestByName(Copy, c.in)))
  BY Zenon DEF ReadInstance, c
<1>7. \/ Refuse(r)
      \/ c.in.op = "upload" /\ Proceed(r, With("hosts", Prepared(Copy, c.in)))
      \/ c.in.op = "remove" /\ Proceed(r, With("lookup", Prepared(Copy, c.in)))
      \/ /\ c.in.op \notin {"upload", "remove"}
         /\ Proceed(r, With("update", Prepared(Copy, c.in)))
  <2> HIDE DEF With
  <2> QED BY <1>6 DEF Prepared
<1> HIDE DEF With
<1> QED BY <1>5, <1>7, RefuseEnds DEF c

LEMMA CheckEffect ==
    ASSUME CallTypes, NEW r \in Requests, CheckHosts(r)
    PROVE  \/ Refused(r)
           \/ /\ GoesOn(r) /\ api'[r].pc = "lookup" /\ ~api[r].wrote /\ ~api'[r].wrote
              /\ api'[r].copy = api[r].copy
              /\ \A c \in GetCertificates :
                    c.name # api[r].in.name => c.hosts \cap api[r].in.hosts = {}
<1> DEFINE d == [api[r] EXCEPT !.pc = "lookup"]
<1>1. api[r] \in Call /\ InFlight(api[r]) /\ api[r].pc = "hosts"
  BY DEF CallTypes, CheckHosts
<1>2. /\ d \in Call /\ d.pc = "lookup" /\ d.in = api[r].in /\ d.copy = api[r].copy
      /\ d.wrote = api[r].wrote
  BY <1>1 DEF Call, Pcs
<1> HIDE DEF d
<1>3. \/ Refuse(r)
      \/ /\ Proceed(r, d)
         /\ \A c \in GetCertificates :
               c.name # api[r].in.name => c.hosts \cap api[r].in.hosts = {}
  BY DEF CheckHosts, d
<1>4. CASE Proceed(r, d)
  <2>1. Moved(r) /\ api'[r] = d /\ UNCHANGED history
    BY <1>2, <1>4, GoMoves DEF Proceed
  <2>2. InFlight(d) /\ ~d.wrote /\ ~api[r].wrote
    BY <1>1, <1>2 DEF InFlight
  <2>3. GoesOn(r) /\ api'[r] = d
    BY <1>2, <2>1, <2>2 DEF GoesOn
  <2> QED BY <1>2, <1>3, <2>2, <2>3, RefuseEnds
<1> QED BY <1>3, <1>4, RefuseEnds

LEMMA LookupEffect ==
    ASSUME CallTypes, secrets \subseteq Secret, IsFiniteSet(secrets), NEW r \in Requests,
           GetTLSSecretByCertificateName(r)
    PROVE  \/ Refused(r)
           \/ /\ GoesOn(r) /\ ~api[r].wrote /\ ~api'[r].wrote /\ api'[r].copy = api[r].copy
              /\ \/ /\ api[r].in.op = "upload" /\ api'[r].pc = "create"
                    /\ SecretsOf(api[r].in.name) = {}
                 \/ /\ api'[r].pc = IF api[r].in.op = "upload" THEN "write" ELSE "update"
                    /\ api'[r].secret \in secrets /\ api'[r].secret.name = api[r].in.name
                    /\ \A s \in SecretsOf(api[r].in.name) : s = api'[r].secret
<1> DEFINE c == api[r]
           found == SecretsOf(c.in.name)
           upload == c.in.op = "upload"
           p == IF upload THEN "write" ELSE "update"
           d(s) == [c EXCEPT !.secret = s, !.pc = p]
           e == [c EXCEPT !.pc = "create"]
<1>1. c \in Call /\ InFlight(c) /\ c.pc = "lookup"
  BY DEF CallTypes, GetTLSSecretByCertificateName
<1>2. c.in \in Inp /\ c.in.op \in {"upload", "remove"} /\ ~c.wrote
  BY <1>1 DEF InFlight
<1>3. \A s \in Secret : /\ d(s) \in Call /\ d(s).pc = p /\ d(s).in = c.in
                        /\ d(s).copy = c.copy /\ d(s).secret = s /\ d(s).wrote = c.wrote
  BY <1>1 DEF Call, Pcs
<1>4. /\ e \in Call /\ e.pc = "create" /\ e.in = c.in /\ e.copy = c.copy
      /\ e.wrote = c.wrote
  BY <1>1 DEF Call, Pcs
<1> HIDE DEF d, e
<1>5. \/ Cardinality(found) = 1 /\ \E s \in found : Proceed(r, d(s))
      \/ found = {} /\ upload /\ Proceed(r, e)
      \/ Refuse(r)
  BY Zenon DEF GetTLSSecretByCertificateName, d, e
<1> HIDE DEF c
<1>6. CASE Cardinality(found) = 1 /\ \E s \in found : Proceed(r, d(s))
  <2>1. PICK s \in found : Proceed(r, d(s))
    BY <1>6
  <2>2. s \in secrets /\ s.name = c.in.name /\ s \in Secret
    BY DEF SecretsOf
  <2>3. \A x \in found : x = s
    <3>1. IsFiniteSet(found)
      BY FS_Subset DEF SecretsOf
    <3>2. \E x : found = {x}
      BY <1>6, <3>1, FS_Singleton
    <3> QED BY <3>2
  <2>4. Moved(r) /\ api'[r] = d(s) /\ UNCHANGED history
    BY <1>3, <2>1, <2>2, GoMoves DEF Proceed
  <2>5. InFlight(d(s))
    BY <1>2, <1>3, <2>2 DEF InFlight
  <2>6. GoesOn(r)
    BY <1>3, <2>2, <2>4, <2>5 DEF GoesOn, c
  <2> QED BY <1>2, <1>3, <2>2, <2>3, <2>4, <2>6 DEF c
<1>7. CASE found = {} /\ upload /\ Proceed(r, e)
  <2>1. Moved(r) /\ api'[r] = e /\ UNCHANGED history
    BY <1>4, <1>7, GoMoves DEF Proceed
  <2>2. InFlight(e)
    BY <1>2, <1>4, <1>7 DEF InFlight
  <2>3. GoesOn(r)
    BY <1>4, <2>1, <2>2 DEF GoesOn, c
  <2> QED BY <1>2, <1>4, <1>7, <2>1, <2>3 DEF c
<1> QED BY <1>5, <1>6, <1>7, RefuseEnds

LEMMA CreateEffect ==
    ASSUME CallTypes, NEW r \in Requests, CreateSecret(r)
    PROVE  LET s == [id |-> r, name |-> api[r].in.name, cert |-> CertData(api[r].in), by |-> r]
           IN  /\ GoesOn(r) /\ api[r].pc = "create" /\ api[r].in.op = "upload"
               /\ ~api[r].wrote /\ api'[r].wrote
               /\ api'[r].pc = "update" /\ api'[r].copy = api[r].copy /\ api'[r].secret = s
               /\ s \in Secret /\ s.id = r /\ s.name = api[r].in.name
               /\ s.cert = CertData(api[r].in) /\ s.by = r
               /\ secrets' = secrets \cup {s}
<1> DEFINE c == api[r]
           s == [id |-> r, name |-> c.in.name, cert |-> CertData(c.in), by |-> r]
           d == [c EXCEPT !.pc = "update", !.secret = s, !.wrote = TRUE]
<1>1. c \in Call /\ InFlight(c) /\ c.pc = "create"
  BY DEF CallTypes, CreateSecret
<1>2. c.in \in Inp /\ c.in.op = "upload" /\ ~c.wrote
  BY <1>1 DEF InFlight
<1>3. CertData(c.in) \in Data /\ c.in.name \in Names /\ r \in Ids
  BY <1>2, InputFacts DEF CertData, Data, Names, Ids
<1>4. s \in Secret
  BY <1>3 DEF Secret
<1>5. secrets' = secrets \cup {s} /\ Proceed(r, d)
  BY DEF CreateSecret
<1>6. s.id = r /\ s.name = c.in.name /\ s.cert = CertData(c.in) /\ s.by = r
  OBVIOUS
<1> HIDE DEF s
<1>7. /\ d \in Call /\ d.pc = "update" /\ d.in = c.in /\ d.copy = c.copy /\ d.secret = s
      /\ d.wrote = TRUE
  <2>1. "update" \in Pcs
    BY DEF Pcs
  <2>2. \A x \in Call :
          LET y == [x EXCEPT !.pc = "update", !.secret = s, !.wrote = TRUE]
          IN  /\ y \in Call /\ y.pc = "update" /\ y.in = x.in /\ y.copy = x.copy
              /\ y.secret = s /\ y.wrote = TRUE
    BY <1>4, <2>1 DEF Call
  <2> QED BY <1>1, <2>2
<1> HIDE DEF d
<1>8. Moved(r) /\ api'[r] = d /\ UNCHANGED history
  BY <1>5, <1>7, GoMoves DEF Proceed
<1>9. InFlight(d)
  BY <1>2, <1>4, <1>7 DEF InFlight
<1>10. GoesOn(r)
  BY <1>7, <1>8, <1>9 DEF GoesOn
<1> HIDE DEF c
<1>11. /\ GoesOn(r) /\ c.pc = "create" /\ c.in.op = "upload"
       /\ ~c.wrote /\ api'[r].wrote
       /\ api'[r].pc = "update" /\ api'[r].copy = c.copy /\ api'[r].secret = s
       /\ s \in Secret /\ s.id = r /\ s.name = c.in.name
       /\ s.cert = CertData(c.in) /\ s.by = r
       /\ secrets' = secrets \cup {s}
  BY <1>1, <1>2, <1>4, <1>5, <1>6, <1>7, <1>8, <1>10
<1> QED BY <1>11, Zenon DEF c, s

\* The Secret of a request after it has been written.
Written(r) == [api[r].secret EXCEPT !.cert = CertData(api[r].in), !.by = r]

LEMMA WriteEffect ==
    ASSUME CallTypes, NEW r \in Requests, UpdateSecret(r)
    PROVE  /\ api[r].pc = "write" /\ api[r].in.op = "upload" /\ api[r].secret \in Secret
           /\ ~api[r].wrote
           /\ \/ Refused(r) /\ secrets' = secrets
              \/ /\ GoesOn(r) /\ ~api'[r].wrote /\ secrets' = secrets
                 /\ api'[r].pc = "update" /\ api'[r].copy = api[r].copy
                 /\ api'[r].secret = api[r].secret
                 /\ api[r].secret.cert = CertData(api[r].in)
              \/ /\ GoesOn(r) /\ api'[r].wrote
                 /\ api'[r].pc = "update" /\ api'[r].copy = api[r].copy
                 /\ api[r].secret \in secrets /\ api'[r].secret = Written(r)
                 /\ secrets' = (secrets \ {api[r].secret}) \cup {Written(r)}
                 /\ Written(r) \in Secret
                 /\ Written(r).id = api[r].secret.id /\ Written(r).name = api[r].secret.name
                 /\ Written(r).cert = CertData(api[r].in) /\ Written(r).by = r
                 /\ api[r].secret.cert # CertData(api[r].in)
<1> DEFINE c == api[r]
           old == c.secret
           new == Written(r)
           same == [c EXCEPT !.pc = "update"]
           d == [c EXCEPT !.pc = "update", !.secret = new, !.wrote = TRUE]
<1>1. c \in Call /\ InFlight(c) /\ c.pc = "write"
  BY DEF CallTypes, UpdateSecret
<1>2. c.in \in Inp /\ c.in.op = "upload" /\ ~c.wrote /\ old \in Secret
  BY <1>1 DEF InFlight
<1>3. CertData(c.in) \in Data
  BY <1>2, InputFacts DEF CertData, Data
<1>4. /\ new \in Secret /\ new.id = old.id /\ new.name = old.name
      /\ new.cert = CertData(c.in) /\ new.by = r
  <2>1. \A x \in Secret, y \in Data :
          LET z == [x EXCEPT !.cert = y, !.by = r]
          IN  z \in Secret /\ z.id = x.id /\ z.name = x.name /\ z.cert = y /\ z.by = r
    BY DEF Secret
  <2> QED BY <1>2, <1>3, <2>1 DEF Written
<1>5. \/ old.cert = new.cert /\ Proceed(r, same) /\ secrets' = secrets
      \/ /\ old.cert # new.cert /\ old \in secrets
         /\ secrets' = (secrets \ {old}) \cup {new} /\ Proceed(r, d)
      \/ Refuse(r) /\ secrets' = secrets
  BY Zenon DEF UpdateSecret, Written
<1> HIDE DEF new
<1>6. /\ same \in Call /\ same.pc = "update" /\ same.in = c.in /\ same.copy = c.copy
      /\ same.secret = old /\ same.wrote = c.wrote
  <2>1. "update" \in Pcs
    BY DEF Pcs
  <2> QED BY <1>1, <2>1 DEF Call
<1>7. /\ d \in Call /\ d.pc = "update" /\ d.in = c.in /\ d.copy = c.copy /\ d.secret = new
      /\ d.wrote = TRUE
  <2>1. "update" \in Pcs
    BY DEF Pcs
  <2>2. \A x \in Call :
          LET y == [x EXCEPT !.pc = "update", !.secret = new, !.wrote = TRUE]
          IN  /\ y \in Call /\ y.pc = "update" /\ y.in = x.in /\ y.copy = x.copy
              /\ y.secret = new /\ y.wrote = TRUE
    BY <1>4, <2>1 DEF Call
  <2> QED BY <1>1, <2>2
<1> HIDE DEF same, d
<1>8. ASSUME NEW e \in {same, d}, Proceed(r, e)
      PROVE  GoesOn(r) /\ api'[r] = e
  <2>1. Moved(r) /\ api'[r] = e /\ UNCHANGED history
    BY <1>6, <1>7, <1>8, GoMoves DEF Proceed
  <2>2. InFlight(e)
    BY <1>2, <1>4, <1>6, <1>7 DEF InFlight
  <2> QED BY <1>6, <1>7, <2>1, <2>2 DEF GoesOn
<1> HIDE DEF c
<1>9. /\ c.pc = "write" /\ c.in.op = "upload" /\ old \in Secret /\ ~c.wrote
      /\ \/ Refused(r) /\ secrets' = secrets
         \/ /\ GoesOn(r) /\ ~api'[r].wrote /\ secrets' = secrets
            /\ api'[r].pc = "update" /\ api'[r].copy = c.copy
            /\ api'[r].secret = c.secret
            /\ c.secret.cert = CertData(c.in)
         \/ /\ GoesOn(r) /\ api'[r].wrote
            /\ api'[r].pc = "update" /\ api'[r].copy = c.copy
            /\ c.secret \in secrets /\ api'[r].secret = new
            /\ secrets' = (secrets \ {c.secret}) \cup {new}
            /\ new \in Secret
            /\ new.id = c.secret.id /\ new.name = c.secret.name
            /\ new.cert = CertData(c.in) /\ new.by = r
            /\ c.secret.cert # CertData(c.in)
  BY <1>1, <1>2, <1>4, <1>5, <1>6, <1>7, <1>8, RefuseEnds
<1> QED BY <1>9, Zenon DEF c, new


\* Spec.TLS as a request would send it back.
Entries(c) ==
    IF c.in.op = "upload" THEN WithCertificate(c.copy.tls, c.secret)
    ELSE IF c.in.op = "remove" THEN WithoutCertificate(c.copy.tls, c.secret)
    ELSE c.copy.tls

LEMMA UpdateEffect ==
    ASSUME CallTypes, NEW r \in Requests, UpdateInstance(r)
    PROVE  /\ api[r].pc = "update" /\ api[r].in \in Inp
           /\ \/ /\ api[r].in.op = "upload" /\ Entries(api[r]) = api[r].copy.tls
                 /\ Succeeded(r) /\ UNCHANGED <<spec, stale>>
              \/ r \in stale /\ Refused(r) /\ UNCHANGED <<spec, stale>>
              \/ /\ r \notin stale /\ stale' = Active \ {r}
                 /\ tls' = Entries(api[r])
                 /\ requests' = api[r].copy.requests /\ legacy' = api[r].copy.legacy
                 /\ \/ /\ api[r].in.op = "remove" /\ GoesOn(r)
                       /\ api'[r].pc = "delete" /\ ~api'[r].wrote /\ ~api[r].wrote
                       /\ api'[r].secret = api[r].secret
                    \/ api[r].in.op # "remove" /\ Succeeded(r)
<1> DEFINE c == api[r]
           copy == CASE c.in.op = "upload" ->
                          [c.copy EXCEPT !.tls = WithCertificate(@, c.secret)]
                     [] c.in.op = "remove" ->
                          [c.copy EXCEPT !.tls = WithoutCertificate(@, c.secret)]
                     [] OTHER -> c.copy
           same == c.in.op = "upload" /\ copy = c.copy
           d == [c EXCEPT !.pc = "delete"]
<1>1. c \in Call /\ InFlight(c) /\ c.pc = "update"
  BY DEF CallTypes, UpdateInstance
<1>2. c.in \in Inp /\ c.copy \in Copies /\ (c.wrote => c.in.op = "upload") /\ c.wrote \in BOOLEAN
  BY <1>1 DEF InFlight, Call
<1>3. c.in.op \in {"upload", "remove", "request", "byIssuer", "byName"}
  BY <1>2, InputFacts
<1>4. /\ copy.tls = Entries(c) /\ copy.requests = c.copy.requests
      /\ copy.legacy = c.copy.legacy
  <2>1. \A x \in Copies : \A y :
           LET z == [x EXCEPT !.tls = y]
           IN  z.tls = y /\ z.requests = x.requests /\ z.legacy = x.legacy
    BY DEF Copies
  <2>2. CASE c.in.op = "upload"
    BY <1>2, <2>1, <2>2 DEF Entries
  <2>3. CASE c.in.op = "remove"
    BY <1>2, <2>1, <2>3 DEF Entries
  <2>4. CASE c.in.op \notin {"upload", "remove"}
    BY <2>4 DEF Entries
  <2> QED BY <2>2, <2>3, <2>4
<1>5. /\ d \in Call /\ d.pc = "delete" /\ d.in = c.in /\ d.secret = c.secret
      /\ d.wrote = c.wrote
  <2>1. "delete" \in Pcs
    BY DEF Pcs
  <2> QED BY <1>1, <2>1 DEF Call
<1> HIDE DEF d
<1>6. \/ same /\ Succeed(r) /\ UNCHANGED <<spec, stale>>
      \/ r \in stale /\ Refuse(r) /\ UNCHANGED <<spec, stale>>
      \/ /\ r \notin stale
         /\ tls' = copy.tls /\ requests' = copy.requests /\ legacy' = copy.legacy
         /\ InstanceChanges(r)
         /\ \/ c.in.op = "remove" /\ Proceed(r, d)
            \/ c.in.op # "remove" /\ Succeed(r)
  BY Zenon DEF UpdateInstance, d
<1> HIDE DEF copy
<1>7. ASSUME c.in.op = "remove", Proceed(r, d)
      PROVE  GoesOn(r) /\ api'[r] = d /\ ~d.wrote /\ ~c.wrote
  <2>1. Moved(r) /\ api'[r] = d /\ UNCHANGED history
    BY <1>5, <1>7, GoMoves DEF Proceed
  <2>2. ~c.wrote /\ c.secret \in Secret
    BY <1>1, <1>2, <1>7 DEF InFlight
  <2>3. InFlight(d)
    BY <1>2, <1>5, <1>7, <2>2 DEF InFlight
  <2> QED BY <1>5, <2>1, <2>2, <2>3 DEF GoesOn
<1>8. same => c.in.op = "upload" /\ Entries(c) = c.copy.tls
  BY <1>4
<1> HIDE DEF same, c
<1>9. CASE same /\ Succeed(r) /\ UNCHANGED <<spec, stale>>
  BY <1>1, <1>2, <1>8, <1>9, SucceedEnds DEF c
<1>10. CASE r \in stale /\ Refuse(r) /\ UNCHANGED <<spec, stale>>
  BY <1>1, <1>2, <1>10, RefuseEnds DEF c
<1>11. CASE /\ r \notin stale
            /\ tls' = copy.tls /\ requests' = copy.requests /\ legacy' = copy.legacy
            /\ InstanceChanges(r)
            /\ \/ c.in.op = "remove" /\ Proceed(r, d)
               \/ c.in.op # "remove" /\ Succeed(r)
  <2>1. /\ stale' = Active \ {r} /\ tls' = Entries(c)
        /\ requests' = c.copy.requests /\ legacy' = c.copy.legacy
    BY <1>4, <1>11 DEF InstanceChanges
  <2>2. CASE c.in.op = "remove" /\ Proceed(r, d)
    <3>1. GoesOn(r) /\ api'[r].pc = "delete" /\ ~api'[r].wrote /\ ~c.wrote
          /\ api'[r].secret = c.secret
      BY <1>5, <1>7, <2>2
    <3> QED BY <1>1, <1>2, <1>11, <2>1, <2>2, <3>1 DEF c
  <2>3. CASE c.in.op # "remove" /\ Succeed(r)
    <3>1. Succeeded(r)
      BY <2>3, SucceedEnds
    <3> QED BY <1>1, <1>2, <1>11, <2>1, <2>3, <3>1 DEF c
  <2> QED BY <1>11, <2>2, <2>3
<1> QED BY <1>6, <1>9, <1>10, <1>11

LEMMA DeleteEffect ==
    ASSUME CallTypes, NEW r \in Requests, DeleteSecret(r)
    PROVE  /\ api[r].pc = "delete" /\ api[r].in.op = "remove" /\ api[r].secret \in Secret
           /\ ~api[r].wrote
           /\ secrets' = {s \in secrets : s.id # api[r].secret.id}
           /\ Refused(r) \/ Succeeded(r)
<1>1. InFlight(api[r]) /\ api[r].pc = "delete"
  BY DEF CallTypes, DeleteSecret
<1>2. secrets' = {s \in secrets : s.id # api[r].secret.id}
  BY DEF DeleteSecret
<1>3. Refuse(r) \/ Succeed(r)
  BY DEF DeleteSecret
<1> QED BY <1>1, <1>2, <1>3, RefuseEnds, SucceedEnds DEF InFlight

LEMMA BeginEffect ==
    ASSUME CallTypes, NEW r \in Requests, NEW in \in Inputs[r], Begin(r, in)
    PROVE  /\ in \in Inp /\ Moved(r) /\ api[r].pc = "idle"
           /\ api'[r].pc = "read" /\ api'[r].in = in /\ api'[r].secret = None
           /\ ~api'[r].wrote /\ InFlight(api'[r])
           /\ clean' = (clean \ Rivals(r, in)) \cup (IF Rivals(r, in) = {} THEN {r} ELSE {})
<1> DEFINE d == [IdleCall EXCEPT !.pc = "read", !.in = in]
<1>1. in \in Inp
  BY CertificatesAssumption DEF Inp
<1>2. in \in Input
  BY <1>1 DEF Inp
<1>3. /\ d \in Call /\ d.pc = "read" /\ d.in = in /\ d.secret = None /\ d.wrote = FALSE
  <2>1. "read" \in Pcs /\ IdleCall \in Call /\ IdleCall.wrote = FALSE /\ IdleCall.secret = None
    BY IdleType DEF Pcs, IdleCall
  <2>2. \A x \in Call :
          LET y == [x EXCEPT !.pc = "read", !.in = in]
          IN  /\ y \in Call /\ y.pc = "read" /\ y.in = in /\ y.secret = x.secret
              /\ y.wrote = x.wrote
    BY <1>2, <2>1 DEF Call
  <2> QED BY <2>1, <2>2
<1> HIDE DEF d
<1>4. Moved(r) /\ api'[r] = d
  BY <1>3, GoMoves DEF Begin, d
<1>5. InFlight(d)
  BY <1>1, <1>3 DEF InFlight
<1>6. /\ api[r].pc = "idle"
      /\ clean' = (clean \ Rivals(r, in)) \cup (IF Rivals(r, in) = {} THEN {r} ELSE {})
  BY DEF Begin
<1> QED BY <1>1, <1>3, <1>4, <1>5, <1>6


----------------------------------------------------------------------------
(* Which requests overlap, and what was acknowledged. *)

\* The history records inputs.
Acknowledged == acked \in [Names -> Inp \cup {None}]

\* A clean request has no active rival.
Alone ==
    \A r \in clean :
        /\ r \in Active
        /\ \A q \in Active \ {r} :
              ~Touches(api[r].in, api[q].in) /\ ~Touches(api[q].in, api[r].in)

\* Nothing that is under way touches what was acknowledged.
Acks ==
    \A n \in Names : acked[n] # None =>
        /\ acked[n].op \in {"upload", "request"} /\ Subject(acked[n]) = n
        /\ \A q \in Active : ~Touches(api[q].in, acked[n])

History == Acknowledged /\ Alone /\ Acks

\* An input is about a name.
LEMMA SubjectType == \A in \in Inp : Subject(in) \in Names
<1> SUFFICES ASSUME NEW in \in Inp PROVE Subject(in) \in Names
  OBVIOUS
<1>1. in.name \in CertNames \cup {None} /\ issuerOrDefault(in.issuer) \in Issuers
  BY InputFacts
<1> QED BY <1>1 DEF Subject, RequiredName, Names

\* What a request does, for those who look at who is active.
LEMMA StillActive ==
    ASSUME CallTypes, NEW r \in Active, GoesOn(r)
    PROVE  Active' = Active /\ \A q \in Active : api'[q].in = api[q].in
<1>1. \A q \in Requests \ {r} : api'[q] = api[q]
  BY DEF GoesOn, Moved
<1>2. api'[r].pc \notin {"idle", "done"} /\ api'[r].in = api[r].in
  BY DEF GoesOn
<1> QED BY <1>1, <1>2 DEF Active

LEMMA NoLongerActive ==
    ASSUME CallTypes, NEW r \in Active, Ends(r)
    PROVE  Active' = Active \ {r} /\ \A q \in Active' : api'[q] = api[q]
<1>1. \A q \in Requests \ {r} : api'[q] = api[q]
  BY DEF Ends, Moved
<1>2. api'[r].pc = "done"
  BY DEF Ends
<1> QED BY <1>1, <1>2 DEF Active

LEMMA NewlyActive ==
    ASSUME CallTypes, NEW r \in Requests, NEW in \in Inputs[r], Begin(r, in)
    PROVE  /\ r \notin Active /\ Active' = Active \cup {r} /\ api'[r].in = in
           /\ \A q \in Active : api'[q] = api[q]
<1>1. /\ Moved(r) /\ api[r].pc = "idle" /\ api'[r].pc = "read" /\ api'[r].in = in
  BY BeginEffect
<1>2. \A q \in Requests \ {r} : api'[q] = api[q]
  BY <1>1 DEF Moved
<1> QED BY <1>1, <1>2 DEF Active

\* A step of a request keeps what is known of the history.
LEMMA HistoryGoesOn ==
    ASSUME CallTypes, History, NEW r \in Active, GoesOn(r)
    PROVE  History'
<1>1. Active' = Active /\ \A q \in Active : api'[q].in = api[q].in
  BY StillActive
<1>2. UNCHANGED <<clean, acked>>
  BY DEF GoesOn, history
<1>3. Alone'
  BY <1>1, <1>2 DEF History, Alone
<1>4. Acks'
  BY <1>1, <1>2 DEF History, Acks
<1> QED BY <1>2, <1>3, <1>4 DEF History, Acknowledged

LEMMA HistoryRefused ==
    ASSUME CallTypes, History, NEW r \in Active, Refused(r)
    PROVE  History'
<1>1. Active' = Active \ {r} /\ \A q \in Active' : api'[q] = api[q]
  BY NoLongerActive DEF Refused
<1>2. clean' = clean \ {r} /\ acked' = acked
  BY DEF Refused, Ends
<1>3. Alone'
  BY <1>1, <1>2 DEF History, Alone
<1>4. Acks'
  BY <1>1, <1>2 DEF History, Acks
<1> QED BY <1>2, <1>3, <1>4 DEF History, Acknowledged

LEMMA HistorySucceeded ==
    ASSUME CallTypes, History, NEW r \in Active, Succeeded(r)
    PROVE  History'
<1> DEFINE in == api[r].in
<1>1. Active' = Active \ {r} /\ \A q \in Active' : api'[q] = api[q]
  BY NoLongerActive DEF Succeeded
<1>2. clean' = clean \ {r}
  BY DEF Succeeded, Ends
<1>3. \/ acked' = acked
      \/ /\ r \in clean /\ in.op \in {"upload", "request"}
         /\ acked' = [acked EXCEPT ![Subject(in)] = in]
  BY DEF Succeeded
<1>4. in \in Inp /\ Subject(in) \in Names
  BY SubjectType DEF CallTypes, InFlight, Active
<1>5. Alone'
  BY <1>1, <1>2 DEF History, Alone
<1>6. Acknowledged'
  BY <1>3, <1>4 DEF History, Acknowledged
<1>7. Acks'
  <2> SUFFICES ASSUME NEW n \in Names, acked'[n] # None
               PROVE  /\ acked'[n].op \in {"upload", "request"} /\ Subject(acked'[n]) = n
                      /\ \A q \in Active' : ~Touches(api'[q].in, acked'[n])
    BY DEF Acks
  <2>1. CASE acked'[n] = acked[n]
    BY <1>1, <2>1 DEF History, Acks
  <2>2. CASE acked'[n] # acked[n]
    <3>1. r \in clean /\ in.op \in {"upload", "request"} /\ n = Subject(in) /\ acked'[n] = in
      BY <1>3, <1>4, <2>2 DEF History, Acknowledged
    <3>2. \A q \in Active \ {r} : ~Touches(api[q].in, in)
      BY <3>1 DEF History, Alone
    <3> QED BY <1>1, <3>1, <3>2
  <2> QED BY <2>1, <2>2
<1> QED BY <1>5, <1>6, <1>7 DEF History

LEMMA HistoryBegins ==
    ASSUME CallTypes, History, NEW r \in Requests, NEW in \in Inputs[r], Begin(r, in)
    PROVE  History'
<1>1. /\ r \notin Active /\ Active' = Active \cup {r} /\ api'[r].in = in
      /\ \A q \in Active : api'[q] = api[q]
  BY NewlyActive
<1>2. clean' = (clean \ Rivals(r, in)) \cup (IF Rivals(r, in) = {} THEN {r} ELSE {})
  BY BeginEffect
<1>3. acked' = [n \in Names |-> IF acked[n] = None \/ Touches(in, acked[n]) THEN None
                                ELSE acked[n]]
  BY DEF Begin, History, Acknowledged
<1>4. Alone'
  <2> SUFFICES ASSUME NEW x \in clean', NEW q \in Active' \ {x}
               PROVE  /\ x \in Active' /\ ~Touches(api'[x].in, api'[q].in)
                      /\ ~Touches(api'[q].in, api'[x].in)
    <3>1. \A x \in clean' : x \in Active'
      BY <1>1, <1>2 DEF History, Alone
    <3> QED BY <3>1 DEF Alone
  <2>1. CASE x = r
    <3>1. Rivals(r, in) = {} /\ q \in Active \ {r}
      BY <1>1, <1>2, <2>1 DEF History, Alone
    <3> QED BY <1>1, <2>1, <3>1 DEF Rivals
  <2>2. CASE x # r /\ q = r
    <3>1. x \in Active \ {r} /\ x \notin Rivals(r, in)
      BY <1>1, <1>2, <2>2 DEF History, Alone
    <3> QED BY <1>1, <2>2, <3>1 DEF Rivals
  <2>3. CASE x # r /\ q # r
    BY <1>1, <1>2, <2>3 DEF History, Alone
  <2> QED BY <2>1, <2>2, <2>3
<1>5. Acknowledged'
  BY <1>3 DEF History, Acknowledged
<1>6. Acks'
  <2> SUFFICES ASSUME NEW n \in Names, acked'[n] # None
               PROVE  /\ acked'[n].op \in {"upload", "request"} /\ Subject(acked'[n]) = n
                      /\ \A q \in Active' : ~Touches(api'[q].in, acked'[n])
    BY DEF Acks
  <2>1. acked'[n] = acked[n] /\ acked[n] # None /\ ~Touches(in, acked[n])
    BY <1>3
  <2> QED BY <1>1, <2>1 DEF History, Acks
<1> QED BY <1>4, <1>5, <1>6 DEF History


----------------------------------------------------------------------------
(* The spec. *)

\* The entry of Spec.TLS that belongs to a Secret.
EntryOf(s) == [id |-> s.id, hosts |-> s.cert.hosts]

LEMMA SecretFacts ==
    ASSUME NEW x \in Secret
    PROVE  /\ x.id \in Ids /\ x.name \in Names /\ x.cert \in Data
           /\ x.cert.hosts \in SUBSET Hosts
           /\ EntryOf(x) \in Entry /\ EntryOf(x).id = x.id
           /\ EntryOf(x).hosts = x.cert.hosts
<1>1. x.id \in Ids /\ x.name \in Names /\ x.cert \in Data
  BY DEF Secret
<1>2. x.cert.hosts \in SUBSET Hosts
  BY <1>1 DEF Data
<1> QED BY <1>1, <1>2 DEF EntryOf, Entry

\* An upload leaves the entries of other Secrets alone, and so does a removal.
LEMMA WithEdit ==
    ASSUME NEW s \in Seq(Entry), NEW x \in Secret
    PROVE  LET t == WithCertificate(s, x)
           IN  /\ t \in Seq(Entry) /\ EntryOf(x) \in ToSet(t)
               /\ ToSet(t) \subseteq ToSet(s) \cup {EntryOf(x)}
               /\ \A e \in ToSet(s) : e.id # x.id => e \in ToSet(t)
<1> DEFINE t == WithCertificate(s, x)
           k == findCertificate(s, x.id)
<1>1. EntryOf(x) \in Entry
  BY SecretFacts
<1>2. k = 0 \/ (k \in DOMAIN s /\ s[k].id = x.id)
  BY FoundCertificate
<1>3. t = IF k = 0 THEN Append(s, EntryOf(x)) ELSE [s EXCEPT ![k] = EntryOf(x)]
  BY DEF WithCertificate, EntryOf
<1>4. DOMAIN s = 1 .. Len(s) /\ Len(s) \in Nat
  OBVIOUS
<1> HIDE DEF k, t
<1>5. CASE k = 0
  <2>1. t = Append(s, EntryOf(x))
    BY <1>3, <1>5
  <2>2. /\ t \in Seq(Entry) /\ DOMAIN t = 1 .. Len(s) + 1 /\ t[Len(s) + 1] = EntryOf(x)
        /\ \A j \in 1 .. Len(s) : t[j] = s[j]
    BY <1>1, <2>1
  <2>3. \A j \in 1 .. Len(s) + 1 : j \in 1 .. Len(s) \/ j = Len(s) + 1
    BY <1>4
  <2>4. EntryOf(x) \in ToSet(t) /\ ToSet(t) \subseteq ToSet(s) \cup {EntryOf(x)}
    BY <1>4, <2>2, <2>3 DEF ToSet
  <2>5. ToSet(s) \subseteq ToSet(t)
    BY <1>4, <2>2 DEF ToSet
  <2> QED BY <2>2, <2>4, <2>5 DEF t
<1>6. CASE k \in DOMAIN s /\ s[k].id = x.id
  <2>0. k # 0
    BY <1>4, <1>6
  <2>1. t = [s EXCEPT ![k] = EntryOf(x)]
    BY <1>3, <2>0
  <2>2. /\ t \in Seq(Entry) /\ DOMAIN t = DOMAIN s /\ t[k] = EntryOf(x)
        /\ \A j \in DOMAIN s : j # k => t[j] = s[j]
    BY <1>1, <1>6, <2>1
  <2>3. EntryOf(x) \in ToSet(t) /\ ToSet(t) \subseteq ToSet(s) \cup {EntryOf(x)}
    BY <1>6, <2>2 DEF ToSet
  <2>4. \A e \in ToSet(s) : e.id # x.id => e \in ToSet(t)
    BY <1>6, <2>2 DEF ToSet
  <2> QED BY <2>2, <2>3, <2>4 DEF t
<1> QED BY <1>2, <1>5, <1>6

\* Spec.TLS without the entry of a Secret: the other ones stay.
LEMMA WithoutEdit ==
    ASSUME NEW s \in Seq(Entry), NEW x
    PROVE  LET t == WithoutCertificate(s, x)
           IN  /\ t \in Seq(Entry) /\ ToSet(t) \subseteq ToSet(s)
               /\ \A e \in ToSet(s) : e.id # x.id => e \in ToSet(t)
<1> DEFINE t == WithoutCertificate(s, x)
           k == findCertificate(s, x.id)
<1>1. k = 0 \/ (k \in DOMAIN s /\ s[k].id = x.id)
  BY FoundCertificate
<1>2. t = IF k = 0 THEN s ELSE Without(s, k)
  BY DEF WithoutCertificate
<1> HIDE DEF k, t
<1>3. CASE k = 0
  BY <1>2, <1>3 DEF t
<1>4. CASE k \in DOMAIN s /\ s[k].id = x.id
  <2>1. t = Without(s, k) /\ DOMAIN s = 1 .. Len(s) /\ Len(s) \in Nat /\ k \in 1 .. Len(s)
    BY <1>2, <1>4
  <2> DEFINE From(j) == IF j < k THEN j ELSE j + 1
  <2>2. /\ t \in Seq(Entry) /\ DOMAIN t = 1 .. Len(s) - 1
        /\ \A j \in 1 .. Len(s) - 1 : t[j] = s[From(j)]
    BY <1>4, <2>1, WithoutOne
  <2>3. \A j \in 1 .. Len(s) - 1 : From(j) \in DOMAIN s
    BY <2>1
  <2>4. ASSUME NEW j \in DOMAIN s, j # k
        PROVE  \E i \in 1 .. Len(s) - 1 : From(i) = j
    <3>1. CASE j < k
      <4>1. j \in 1 .. Len(s) - 1 /\ From(j) = j
        BY <2>1, <3>1
      <4> QED BY <4>1
    <3>2. CASE j > k
      <4>1. j - 1 \in 1 .. Len(s) - 1 /\ From(j - 1) = j
        BY <2>1, <3>2
      <4> QED BY <4>1
    <3> QED BY <2>1, <2>4, <3>1, <3>2
  <2> HIDE DEF From
  <2>5. ToSet(t) \subseteq ToSet(s)
    BY <2>2, <2>3 DEF ToSet
  <2>6. ASSUME NEW e \in ToSet(s), e.id # x.id
        PROVE  e \in ToSet(t)
    <3>1. PICK j \in DOMAIN s : e = s[j]
      BY DEF ToSet
    <3>2. PICK i \in 1 .. Len(s) - 1 : From(i) = j
      BY <1>4, <2>4, <2>6, <3>1
    <3>3. i \in DOMAIN t /\ t[i] = e
      BY <2>2, <3>1, <3>2
    <3> QED BY <3>3 DEF ToSet
  <2> QED BY <2>2, <2>5, <2>6 DEF t
<1> QED BY <1>1, <1>3, <1>4

\* The copy that a request sends is the instance with its own edit, unless the
\* instance has changed since it was read.
Fresh ==
    \A r \in Active : r \notin stale /\ api[r].pc \notin {"read", "delete"} =>
        api[r].copy = Prepared(Copy, api[r].in)

\* What is acknowledged stands, and there are no two requests of one name.
Standing ==
    /\ Distinct(requests)
    /\ \A n \in Names : acked[n] # None /\ acked[n].op = "request" =>
          RequestOf(acked[n]) \in ToSet(requests)

\* The requests that an edit leaves.
LEMMA PreparedKeeps ==
    ASSUME NEW copy \in Copies, NEW in \in Inp
    PROVE  LET new == Prepared(copy, in)
           IN  /\ new \in Copies /\ new.tls = copy.tls
               /\ ToSet(new.requests) \subseteq
                     ToSet(copy.requests) \cup (IF in.op = "request" THEN {RequestOf(in)} ELSE {})
               /\ in.op = "request" => RequestOf(in) \in ToSet(new.requests)
               /\ new.legacy \in {copy.legacy, None}
               /\ Distinct(copy.requests) => Distinct(new.requests)
               /\ \A e \in ToSet(copy.requests) :
                     \/ e \in ToSet(new.requests)
                     \/ in.op \in {"request", "byName"} /\ in.name # None /\ e.name = in.name
                     \/ /\ in.op \in {"request", "byIssuer"} /\ in.name = None
                        /\ e.issuer = issuerOrDefault(in.issuer)
<1> DEFINE new == Prepared(copy, in)
<1>1. /\ in.op \in {"upload", "remove", "request", "byIssuer", "byName"}
      /\ in.op = "byName" => in.name \in CertNames
      /\ in.op = "byIssuer" => in.name = None
  BY InputFacts
<1>2. CASE in.op \in {"upload", "remove"}
  <2>1. new = copy
    BY <1>2 DEF Prepared
  <2> QED BY <1>2, <2>1
<1>3. CASE in.op = "request"
  <2>1. new = UpdateCertManagerRequest(copy, in)
    BY <1>3 DEF Prepared
  <2>2. copy.requests \in Seq(Req)
    BY DEF Copies
  <2>3. \A e \in ToSet(copy.requests) : e.issuer \in Issuers
    <3>1. \A k \in DOMAIN copy.requests : copy.requests[k] \in Req
      BY <2>2
    <3>2. \A q \in Req : q.issuer \in Issuers
      BY DEF Req
    <3> QED BY <3>1, <3>2 DEF ToSet
  <2>4. in.issuer \in Issuers => issuerOrDefault(in.issuer) = in.issuer
    BY CertificatesAssumption DEF issuerOrDefault
  <2>5. /\ new \in Copies /\ new.tls = copy.tls
        /\ RequestOf(in) \in ToSet(new.requests)
        /\ ToSet(new.requests) \subseteq ToSet(copy.requests) \cup {RequestOf(in)}
        /\ new.legacy \in {copy.legacy, None}
        /\ Distinct(copy.requests) => Distinct(new.requests)
        /\ \A e \in ToSet(copy.requests) :
              \/ e \in ToSet(new.requests)
              \/ in.name # None /\ e.name = in.name
              \/ in.name = None /\ e.issuer = in.issuer
    BY <1>3, <2>1, RequestEdit
  <2> HIDE DEF new
  <2>6. \A e \in ToSet(copy.requests) :
           \/ e \in ToSet(new.requests)
           \/ in.op \in {"request", "byName"} /\ in.name # None /\ e.name = in.name
           \/ /\ in.op \in {"request", "byIssuer"} /\ in.name = None
              /\ e.issuer = issuerOrDefault(in.issuer)
    BY <1>3, <2>3, <2>4, <2>5
  <2> QED BY <1>3, <2>5, <2>6 DEF new
<1>4. CASE in.op = "byIssuer"
  <2>1. Cancels(copy, new, in)
    BY <1>4, ByIssuerEdit DEF Prepared
  <2> HIDE DEF new
  <2> QED BY <1>1, <1>4, <2>1 DEF Cancels, new
<1>5. CASE in.op = "byName"
  <2>1. Cancels(copy, new, in)
    BY <1>5, ByNameEdit DEF Prepared
  <2>2. in.name # None
    BY <1>1, <1>5, CertificatesAssumption
  <2> HIDE DEF new
  <2> QED BY <1>5, <2>1, <2>2 DEF Cancels, new
<1> QED BY <1>1, <1>2, <1>3, <1>4, <1>5


\* The Secrets of the cluster.
Store == secrets \subseteq Secret /\ IsFiniteSet(secrets)

\* Calls keep their types when one of them moves.
LEMMA MovedTypes ==
    ASSUME CallTypes, NEW r \in Requests, Moved(r), InFlight(api'[r])
    PROVE  CallTypes'
<1>1. \A q \in Requests : InFlight(api'[q])
  BY DEF CallTypes, Moved
<1> QED BY <1>1 DEF CallTypes, Moved

\* The request steps, by what they do to the requests and to the spec: one ends
\* or goes on with the copy it has, one reads, one writes the spec.
Edits(r) ==
    /\ api[r].pc = "update" /\ api[r].in \in Inp
    /\ r \notin stale /\ stale' = Active \ {r}
    /\ tls' = Entries(api[r])
    /\ requests' = api[r].copy.requests /\ legacy' = api[r].copy.legacy
    /\ \/ /\ api[r].in.op = "remove" /\ GoesOn(r)
          /\ api'[r].pc = "delete" /\ api'[r].secret = api[r].secret
       \/ api[r].in.op # "remove" /\ Succeeded(r)

Sits(r) ==
    /\ UNCHANGED spec /\ stale' = stale
    /\ \/ /\ GoesOn(r) /\ api'[r].copy = api[r].copy
          /\ api[r].pc \notin {"read", "delete"} /\ api'[r].pc \notin {"read", "delete"}
       \/ Refused(r)
       \/ /\ Succeeded(r)
          /\ api[r].pc \in {"update", "delete"}
          /\ api[r].in.op \in {"upload", "remove"}

Reads(r) ==
    /\ UNCHANGED spec /\ stale' = stale \ {r}
    /\ \/ Refused(r)
       \/ GoesOn(r) /\ api'[r].copy = Prepared(Copy, api[r].in)

\* Each step of a request is one of these.
LEMMA RequestSteps ==
    ASSUME CallTypes, SpecTypes, Store, NEW r \in Requests, ApiStep(r)
    PROVE  \/ \E in \in Inputs[r] : Begin(r, in)
           \/ r \in Active /\ (Edits(r) \/ Sits(r) \/ Reads(r))
<1>1. CASE ReadInstance(r)
  <2>1. r \in Active /\ UNCHANGED spec /\ stale' = stale \ {r}
    BY <1>1 DEF ReadInstance, Active, spec
  <2> QED BY <1>1, <2>1, ReadEffect DEF Reads
<1>2. CASE CheckHosts(r)
  <2>1. r \in Active /\ UNCHANGED spec /\ stale' = stale /\ api[r].pc = "hosts"
    BY <1>2 DEF CheckHosts, Active, spec
  <2>2. \/ Refused(r)
        \/ GoesOn(r) /\ api'[r].pc = "lookup" /\ api'[r].copy = api[r].copy
    BY <1>2, CheckEffect
  <2> QED BY <2>1, <2>2 DEF Sits
<1>3. CASE GetTLSSecretByCertificateName(r)
  <2>1. r \in Active /\ UNCHANGED spec /\ stale' = stale /\ api[r].pc = "lookup"
    BY <1>3 DEF GetTLSSecretByCertificateName, Active, spec
  <2>2. \/ Refused(r)
        \/ /\ GoesOn(r) /\ api'[r].pc \in {"create", "write", "update"}
           /\ api'[r].copy = api[r].copy
    BY <1>3, LookupEffect DEF Store
  <2> QED BY <2>1, <2>2 DEF Sits
<1>4. CASE CreateSecret(r)
  <2>1. r \in Active /\ UNCHANGED spec /\ stale' = stale
    BY <1>4 DEF CreateSecret, Active, spec
  <2>2. /\ GoesOn(r) /\ api[r].pc = "create" /\ api'[r].pc = "update"
        /\ api'[r].copy = api[r].copy
    BY <1>4, CreateEffect
  <2> QED BY <2>1, <2>2 DEF Sits
<1>5. CASE UpdateSecret(r)
  <2>1. r \in Active /\ UNCHANGED spec /\ stale' = stale /\ api[r].pc = "write"
    BY <1>5 DEF UpdateSecret, Active, spec
  <2>2. \/ Refused(r)
        \/ GoesOn(r) /\ api'[r].pc = "update" /\ api'[r].copy = api[r].copy
    BY <1>5, WriteEffect
  <2> QED BY <2>1, <2>2 DEF Sits
<1>6. CASE UpdateInstance(r)
  <2>1. r \in Active
    BY <1>6, UpdateEffect DEF Active
  <2>2. \/ /\ api[r].pc = "update" /\ api[r].in.op = "upload"
           /\ Succeeded(r) /\ UNCHANGED <<spec, stale>>
        \/ Refused(r) /\ UNCHANGED <<spec, stale>>
        \/ Edits(r)
    BY <1>6, UpdateEffect DEF Edits
  <2> QED BY <2>1, <2>2 DEF Sits
<1>7. CASE DeleteSecret(r)
  <2>1. UNCHANGED <<spec, stale>>
    BY <1>7 DEF DeleteSecret
  <2>2. /\ api[r].pc = "delete" /\ api[r].in.op = "remove"
        /\ Refused(r) \/ Succeeded(r)
    BY <1>7, DeleteEffect
  <2> QED BY <2>1, <2>2 DEF Sits, Active
<1>8. CASE CallFails(r)
  <2>1. r \in Active /\ UNCHANGED <<spec, stale>> /\ Refused(r)
    BY <1>8, RefuseEnds DEF CallFails
  <2> QED BY <2>1 DEF Sits
<1> QED
  BY <1>1, <1>2, <1>3, <1>4, <1>5, <1>6, <1>7, <1>8 DEF ApiStep

----------------------------------------------------------------------------
(* Requests to cert-manager stand. *)

\* What is so of requests, whatever the operator does.
Api == CallTypes /\ SpecTypes /\ Fresh /\ Standing /\ History

\* Of an active request.
LEMMA ApiTypes ==
    ASSUME Api, NEW r \in Active
    PROVE  /\ r \in Requests /\ api[r] \in Call /\ InFlight(api[r])
           /\ api[r].pc \notin {"idle", "done"} /\ api[r].in \in Inp
           /\ api[r].copy \in Copies
<1>1. r \in Requests /\ api[r] \in Call /\ InFlight(api[r]) /\ api[r].pc \notin {"idle", "done"}
  BY DEF Api, CallTypes, Active
<1> QED BY <1>1 DEF InFlight, Call

\* The list that UpdateInstance writes.
LEMMA EntriesType ==
    ASSUME NEW c \in Call, InFlight(c), c.pc = "update"
    PROVE  Entries(c) \in Seq(Entry)
<1>1. c.copy \in Copies /\ c.copy.tls \in Seq(Entry)
  BY DEF Call, Copies
<1>2. CASE c.in.op = "upload"
  BY <1>1, <1>2, WithEdit DEF Entries, InFlight
<1>3. CASE c.in.op = "remove"
  BY <1>1, <1>3, WithoutEdit DEF Entries
<1> QED BY <1>1, <1>2, <1>3 DEF Entries

\* An acknowledged request is lost by an edit only if that touches it.
LEMMA EditStanding ==
    ASSUME Api, NEW r \in Active, NEW n \in Names, acked[n] # None, acked[n].op = "request",
           requests' = Prepared(Copy, api[r].in).requests
    PROVE  RequestOf(acked[n]) \in ToSet(requests')
<1> DEFINE in == api[r].in
           a == acked[n]
           e == RequestOf(a)
<1>1. in \in Inp /\ a \in Inp
  BY ApiTypes DEF Api, History, Acknowledged
<1>2. Copy \in Copies /\ Copy.requests = requests /\ e \in ToSet(requests)
  BY CopyType DEF Api, Standing
<1>3. /\ e.name = a.name /\ e.issuer = issuerOrDefault(a.issuer)
      /\ in.op \in {"request", "byName"} => in.op # "byIssuer"
  BY <1>1, InputFacts
<1>4. ~Touches(in, a)
  BY DEF Api, History, Acks
<1>5. \/ e \in ToSet(requests')
      \/ in.op \in {"request", "byName"} /\ in.name # None /\ e.name = in.name
      \/ /\ in.op \in {"request", "byIssuer"} /\ in.name = None
         /\ e.issuer = issuerOrDefault(in.issuer)
  <2> DEFINE new == Prepared(Copy, in)
  <2> HIDE DEF e, in
  <2>1. \A x \in ToSet(Copy.requests) :
           \/ x \in ToSet(new.requests)
           \/ in.op \in {"request", "byName"} /\ in.name # None /\ x.name = in.name
           \/ /\ in.op \in {"request", "byIssuer"} /\ in.name = None
              /\ x.issuer = issuerOrDefault(in.issuer)
    BY <1>1, <1>2, PreparedKeeps
  <2>2. ToSet(requests') = ToSet(new.requests)
    BY DEF in
  <2> HIDE DEF new
  <2> QED BY <1>2, <2>1, <2>2
<1> HIDE DEF e, a, in
<1>6. CASE in.op \in {"request", "byName"} /\ in.name # None /\ e.name = in.name
  <2>1. Subject(in) = in.name
    BY <1>6 DEF Subject, RequiredName
  <2>2. Subject(a) = a.name
    BY <1>3, <1>6 DEF Subject, RequiredName, a
  <2> QED BY <1>3, <1>4, <1>6, <2>1, <2>2 DEF Touches
<1>7. CASE /\ in.op \in {"request", "byIssuer"} /\ in.name = None
           /\ e.issuer = issuerOrDefault(in.issuer)
  BY <1>3, <1>4, <1>7 DEF Touches, a
<1> QED BY <1>5, <1>6, <1>7 DEF e, a

\* The write of the instance keeps Api: it is made from a current copy.
LEMMA EditsKeep ==
    ASSUME Api, NEW r \in Active, Edits(r)
    PROVE  Api'
<1> DEFINE in == api[r].in
<1>0. /\ r \in Requests /\ api[r] \in Call /\ InFlight(api[r]) /\ in \in Inp
      /\ api[r].copy \in Copies
  BY ApiTypes
<1>1. GoesOn(r) \/ Succeeded(r)
  BY DEF Edits
<1>2. Moved(r) /\ InFlight(api'[r])
  BY <1>1 DEF GoesOn, Succeeded, Ends
<1>3. CallTypes'
  BY <1>0, <1>2, MovedTypes DEF Api
<1>4. SpecTypes'
  <2>1. tls' \in Seq(Entry)
    BY <1>0, EntriesType DEF Edits
  <2>2. requests' \in Seq(Req) /\ legacy' \in LegacyReq \cup {None}
    BY <1>0 DEF Edits, Copies
  <2> QED BY <2>1, <2>2 DEF SpecTypes
<1>5. History'
  BY <1>1, HistoryGoesOn, HistorySucceeded DEF Api
<1>6. Fresh'
  <2>1. CASE GoesOn(r) /\ api'[r].pc = "delete"
    <3>1. Active' = Active
      BY <2>1, StillActive DEF Api
    <3> QED BY <2>1, <3>1 DEF Fresh, Edits
  <2>2. CASE Succeeded(r)
    <3>1. Active' = Active \ {r}
      BY <2>2, NoLongerActive DEF Api, Succeeded
    <3> QED BY <3>1 DEF Fresh, Edits
  <2> QED BY <2>1, <2>2 DEF Edits
<1>7. api[r].copy = Prepared(Copy, in)
  BY DEF Api, Fresh, Edits
<1>8. requests' = Prepared(Copy, in).requests
  BY <1>7 DEF Edits
<1>9. Distinct(requests)'
  <2>1. Distinct(Copy.requests) /\ Copy \in Copies
    BY CopyType DEF Api, Standing
  <2>2. Distinct(Prepared(Copy, in).requests)
    BY <1>0, <2>1, PreparedKeeps
  <2> QED BY <1>8, <2>2 DEF Distinct
<1>10. ASSUME NEW n \in Names, acked'[n] # None, acked'[n].op = "request"
       PROVE  RequestOf(acked'[n]) \in ToSet(requests')
  <2>1. CASE acked'[n] = acked[n]
    BY <1>8, <1>10, <2>1, EditStanding
  <2>2. CASE acked'[n] # acked[n]
    <3>1. acked'[n] = in
      <4>1. acked' # acked
        BY <2>2
      <4>2. acked' = [acked EXCEPT ![Subject(in)] = in]
        BY <1>1, <4>1 DEF GoesOn, history, Succeeded
      <4>3. acked \in [Names -> Inp \cup {None}]
        BY DEF Api, History, Acknowledged
      <4> QED BY <2>2, <4>2, <4>3
    <3>2. Copy \in Copies
      BY CopyType DEF Api
    <3>3. RequestOf(in) \in ToSet(Prepared(Copy, in).requests)
      BY <1>0, <1>10, <3>1, <3>2, PreparedKeeps
    <3> QED BY <1>8, <3>1, <3>3
  <2> QED BY <2>1, <2>2
<1>11. Standing'
  BY <1>9, <1>10 DEF Standing, RequestOf
<1> QED BY <1>3, <1>4, <1>5, <1>6, <1>11 DEF Api

\* So do the steps that leave the spec alone.
LEMMA SitsKeep ==
    ASSUME Api, NEW r \in Active, Sits(r) \/ Reads(r)
    PROVE  Api'
<1>0. r \in Requests /\ UNCHANGED <<tls, requests, legacy>> /\ stale' \in {stale, stale \ {r}}
  BY ApiTypes DEF Sits, Reads, spec
<1>1. GoesOn(r) \/ Refused(r) \/ Succeeded(r)
  BY DEF Sits, Reads
<1>2. Moved(r) /\ InFlight(api'[r])
  BY <1>1 DEF GoesOn, Refused, Succeeded, Ends
<1>3. CallTypes'
  BY <1>0, <1>2, MovedTypes DEF Api
<1>4. SpecTypes'
  BY <1>0 DEF SpecTypes, Api
<1>5. History'
  BY <1>1, HistoryGoesOn, HistoryRefused, HistorySucceeded DEF Api
<1>6. Copy' = Copy
  BY <1>0 DEF Copy
<1>7. Fresh'
  <2>1. CASE GoesOn(r)
    <3>1. Active' = Active /\ \A q \in Active : api'[q].in = api[q].in
      BY <2>1, StillActive DEF Api
    <3>2. \A q \in Active \ {r} : api'[q] = api[q] /\ (q \notin stale' => q \notin stale)
      BY <1>0, <1>2 DEF Moved, Active
    <3>3. r \notin stale' /\ api'[r].pc \notin {"read", "delete"} =>
             api'[r].copy = Prepared(Copy, api[r].in)
      <4>1. CASE Reads(r)
        <5>1. ~Refused(r)
          BY <2>1 DEF GoesOn, Refused, Ends
        <5> QED BY <4>1, <5>1 DEF Reads
      <4>2. CASE Sits(r)
        <5>1. /\ api'[r].copy = api[r].copy /\ stale' = stale
              /\ api[r].pc \notin {"read", "delete"}
          BY <2>1, <4>2 DEF Sits, GoesOn, Refused, Succeeded, Ends
        <5> QED BY <5>1 DEF Api, Fresh
      <4> QED BY <4>1, <4>2
    <3> SUFFICES ASSUME NEW q \in Active, q \notin stale', api'[q].pc \notin {"read", "delete"}
                 PROVE  api'[q].copy = Prepared(Copy, api[q].in)
      BY <1>6, <3>1 DEF Fresh, Prepared
    <3> QED BY <3>2, <3>3 DEF Api, Fresh
  <2>2. CASE Ends(r)
    <3>1. Active' = Active \ {r} /\ \A q \in Active' : api'[q] = api[q]
      BY <2>2, NoLongerActive DEF Api
    <3>2. \A q \in Active' : q \notin stale' => q \notin stale
      BY <1>0, <3>1
    <3> SUFFICES ASSUME NEW q \in Active', q \notin stale', api'[q].pc \notin {"read", "delete"}
                 PROVE  api'[q].copy = Prepared(Copy, api'[q].in)
      BY <1>6 DEF Fresh, Prepared
    <3> QED BY <3>1, <3>2 DEF Api, Fresh
  <2> QED BY <1>1, <2>1, <2>2 DEF Refused, Succeeded
<1>8. ASSUME NEW n \in Names, acked'[n] # None, acked'[n].op = "request"
      PROVE  acked'[n] = acked[n]
  <2>1. CASE acked' = acked
    BY <2>1
  <2>2. CASE acked' # acked
    <3>1. Succeeded(r) /\ ~GoesOn(r) /\ ~Refused(r)
      BY <1>1, <2>2 DEF GoesOn, history, Refused
    <3>2. api[r].in.op \in {"upload", "remove"}
      BY <3>1 DEF Sits, Reads
    <3>3. acked' = [acked EXCEPT ![Subject(api[r].in)] = api[r].in]
      BY <2>2, <3>1 DEF Succeeded
    <3>4. acked \in [Names -> Inp \cup {None}]
      BY DEF Api, History, Acknowledged
    <3> QED BY <1>8, <3>2, <3>3, <3>4
  <2> QED BY <2>1, <2>2
<1>9. Standing'
  BY <1>0, <1>8 DEF Api, Standing, RequestOf, Distinct
<1> QED BY <1>3, <1>4, <1>5, <1>7, <1>9 DEF Api

\* So does a request that begins: its rivals are clean no more.
LEMMA BeginKeeps ==
    ASSUME Api, NEW r \in Requests, NEW in \in Inputs[r], Begin(r, in)
    PROVE  Api'
<1>1. Moved(r) /\ InFlight(api'[r]) /\ api'[r].pc = "read"
  BY BeginEffect DEF Api
<1>2. UNCHANGED <<tls, requests, legacy, stale>>
  BY DEF Begin, spec
<1>3. CallTypes' /\ SpecTypes'
  BY <1>1, <1>2, MovedTypes DEF Api, SpecTypes
<1>4. History'
  BY HistoryBegins DEF Api
<1>5. Active' = Active \cup {r} /\ \A q \in Active : api'[q] = api[q]
  BY NewlyActive DEF Api
<1>6. Copy' = Copy
  BY <1>2 DEF Copy
<1>7. Fresh'
  <2> SUFFICES ASSUME NEW q \in Active', q \notin stale', api'[q].pc \notin {"read", "delete"}
               PROVE  api'[q].copy = Prepared(Copy, api'[q].in)
    BY <1>6 DEF Fresh, Prepared
  <2> QED BY <1>1, <1>2, <1>5 DEF Api, Fresh
<1>8. \A n \in Names : acked'[n] # None => acked'[n] = acked[n]
  BY DEF Begin, Api, History, Acknowledged
<1>9. Standing'
  BY <1>2, <1>8 DEF Api, Standing, RequestOf, Distinct
<1> QED BY <1>3, <1>4, <1>7, <1>9 DEF Api

\* And the steps that are not of requests.
LEMMA RestKeeps ==
    ASSUME Api, UNCHANGED <<spec, api, history>>, stale' \in {stale, Active}
    PROVE  Api'
<1>1. UNCHANGED <<tls, requests, legacy, api, clean, acked>> /\ Copy' = Copy /\ Active' = Active
  BY DEF spec, history, Copy, Active
<1>2. CallTypes' /\ SpecTypes'
  BY <1>1 DEF Api, CallTypes, SpecTypes, InFlight
<1>3. Fresh'
  <2> SUFFICES ASSUME NEW q \in Active, q \notin stale', api[q].pc \notin {"read", "delete"}
               PROVE  api[q].copy = Prepared(Copy, api[q].in)
    BY <1>1 DEF Fresh, Prepared
  <2> QED BY <1>1 DEF Api, Fresh
<1>4. Standing'
  BY <1>1 DEF Api, Standing, RequestOf, Distinct
<1>5. History'
  BY <1>1 DEF Api, History, Acknowledged, Alone, Acks
<1> QED BY <1>2, <1>3, <1>4, <1>5 DEF Api

----------------------------------------------------------------------------
(* The operator and cert-manager. *)

\* Types of what cert-manager and the operator hold.
Cert == [name : Names, hosts : SUBSET Hosts, ready : BOOLEAN]
Wanted == [name : Names, hosts : SUBSET Hosts]
OpPcs == {"idle", "certificates"} \cup Names
OpType == [pc : OpPcs, copy : Copies, old : SUBSET Names, todo : SUBSET Wanted,
           ready : SUBSET Cert]
World == Store /\ certs \subseteq Cert /\ op \in OpType

\* They work on names that cert-manager was asked for.
AskedFor ==
    /\ NamesOf(certs) \subseteq requested /\ op.old \subseteq requested
    /\ NamesOf(op.todo) \subseteq requested
    /\ op.pc \in Names => op.pc \in requested
    /\ \A e \in EntriesOf(requests, legacy) : RequiredName(e) \in requested
    /\ \A r \in Active : api[r].in.op = "request" => Subject(api[r].in) \in requested

\* The Secrets that they make are cert-manager's own, and so are the ones they
\* take away.
OwnSecrets ==
    /\ \A s \in secrets' : s \in secrets \/ (s.id = s.name /\ s.name \in requested)
    /\ \A s \in secrets : s \in secrets' \/ (s.id \in Names /\ s.id \in requested)

\* What a step of theirs does.
Operates == UNCHANGED <<spec, api, stale, history>> /\ World' /\ AskedFor' /\ OwnSecrets

\* The requests in the spec, and the Certificates wanted for them.
LEMMA EntryTypes ==
    ASSUME SpecTypes, NEW e \in EntriesOf(requests, legacy)
    PROVE  /\ e.name \in CertNames \cup {None} /\ e.issuer \in Issuers /\ e.hosts \in SUBSET Hosts
           /\ RequiredName(e) \in Names
<1>1. \A q \in ToSet(requests) : q \in Req
  BY DEF SpecTypes, ToSet
<1>2. \A q \in Req : q.name \in CertNames \cup {None} /\ q.issuer \in Issuers
                     /\ q.hosts \in SUBSET Hosts
  BY DEF Req
<1>3. \A q \in LegacyReq : q.name = None /\ q.issuer \in Issuers /\ q.hosts \in SUBSET Hosts
  BY DEF LegacyReq
<1>4. e \in ToSet(requests) \/ e \in LegacyReq
  BY DEF EntriesOf, SpecTypes
<1>5. /\ e.name \in CertNames \cup {None} /\ e.issuer \in Issuers /\ e.hosts \in SUBSET Hosts
  BY <1>1, <1>2, <1>3, <1>4
<1> QED BY <1>5 DEF RequiredName, Names

LEMMA WantedTypes ==
    ASSUME SpecTypes, AskedFor
    PROVE  /\ CertManagerRequests(requests, legacy) \subseteq Wanted
           /\ NamesOf(CertManagerRequests(requests, legacy)) \subseteq requested
<1> DEFINE E == EntriesOf(requests, legacy)
           Of(n) == UNION {q.hosts : q \in {e \in E : RequiredName(e) = n}}
           W == CertManagerRequests(requests, legacy)
<1>1. W = {[name |-> n, hosts |-> Of(n)] : n \in {RequiredName(e) : e \in E}}
  BY DEF CertManagerRequests
<1>2. \A e \in E : e.hosts \in SUBSET Hosts /\ RequiredName(e) \in Names
  BY EntryTypes
<1>3. \A e \in E : RequiredName(e) \in requested
  BY DEF AskedFor
<1> HIDE DEF E
<1>4. \A n : Of(n) \in SUBSET Hosts
  BY <1>2
<1> HIDE DEF Of, W
<1>5. \A q \in W : \E e \in E : q = [name |-> RequiredName(e), hosts |-> Of(RequiredName(e))]
  BY <1>1
<1>6. \A q \in W : q \in Wanted /\ q.name \in requested
  BY <1>2, <1>3, <1>4, <1>5 DEF Wanted
<1> QED BY <1>6 DEF NamesOf, W

\* Each step of the operator is such a step.
LEMMA StartOperates ==
    ASSUME SpecTypes, World, AskedFor, StartReconcile
    PROVE  Operates
<1> DEFINE W == CertManagerRequests(requests, legacy)
           O == NamesOf(certs) \ NamesOf(W)
           d == [IdleOp EXCEPT !.pc = "certificates", !.copy = Copy, !.todo = W, !.old = O]
<1>1. /\ UNCHANGED <<spec, secrets, certs, nginx, api, stale, failures, history>>
      /\ op' = d
  BY DEF StartReconcile
<1>2. W \subseteq Wanted /\ NamesOf(W) \subseteq requested
  BY WantedTypes
<1>3. O \subseteq Names /\ O \subseteq requested
  BY DEF AskedFor, World, Cert, NamesOf
<1>4. Copy \in Copies
  BY CopyType
<1> HIDE DEF W, O
<1>5. /\ d \in OpType /\ d.old = O /\ d.todo = W /\ d.pc = "certificates"
  <2>1. "certificates" \in OpPcs /\ "idle" \in OpPcs
    BY DEF OpPcs
  <2> QED BY <1>2, <1>3, <1>4, <2>1, IdleType DEF IdleOp, OpType
<1>6. "certificates" \notin Names
  BY CertificatesAssumption DEF Names
<1> HIDE DEF d
<1>7. World'
  BY <1>1, <1>5 DEF World, Store
<1>8. AskedFor'
  <2>1. UNCHANGED <<requests, legacy, requested, api, certs, Active>>
    BY <1>1 DEF spec, history, Active
  <2> QED BY <1>1, <1>2, <1>3, <1>5, <1>6, <2>1
         DEF AskedFor, NamesOf, EntriesOf, RequiredName, Subject, issuerOrDefault
<1> QED BY <1>1, <1>7, <1>8 DEF Operates, OwnSecrets

\* The names that the operator works on, after a step of its own.
LEMMA StillAsked ==
    ASSUME AskedFor, UNCHANGED <<spec, api, stale, history>>, World', OwnSecrets,
           \A c \in certs' : c.name \in requested,
           op'.old \subseteq requested, \A q \in op'.todo : q.name \in requested,
           op'.pc \in Names => op'.pc \in requested
    PROVE  Operates
<1>1. UNCHANGED <<requests, legacy, requested, api, Active>>
  BY DEF spec, history, Active
<1>2. AskedFor'
  BY <1>1 DEF AskedFor, NamesOf, EntriesOf, RequiredName, Subject, issuerOrDefault
<1> QED BY <1>2 DEF Operates

\* What the operator holds has names that were asked for.
LEMMA OpNames ==
    ASSUME World, AskedFor
    PROVE  /\ \A c \in certs : c \in Cert /\ c.name \in Names /\ c.name \in requested
           /\ \A q \in op.todo : q \in Wanted /\ q.name \in Names /\ q.name \in requested
           /\ op.old \subseteq Names /\ op.old \subseteq requested
           /\ "certificates" \notin Names /\ "idle" \notin Names
           /\ IdleOp \in OpType /\ IdleOp.pc = "idle" /\ IdleOp.old = {} /\ IdleOp.todo = {}
<1>1. \A c \in certs : c \in Cert /\ c.name \in Names /\ c.name \in requested
  BY DEF World, AskedFor, NamesOf, Cert
<1>2. \A q \in op.todo : q \in Wanted /\ q.name \in Names /\ q.name \in requested
  BY DEF World, AskedFor, NamesOf, OpType, Wanted
<1>3. op.old \subseteq Names /\ op.old \subseteq requested
  BY DEF World, AskedFor, OpType
<1>4. "certificates" \notin Names /\ "idle" \notin Names
  BY CertificatesAssumption DEF Names
<1>5. /\ IdleOp \in OpType /\ IdleOp.pc = "idle" /\ IdleOp.old = {} /\ IdleOp.todo = {}
  <2>1. "idle" \in OpPcs
    BY DEF OpPcs
  <2> QED BY <2>1, IdleType DEF IdleOp, OpType
<1> QED BY <1>1, <1>2, <1>3, <1>4, <1>5

LEMMA RemoveCertificateOperates ==
    ASSUME World, AskedFor, RemoveOldCertificate
    PROVE  Operates
<1>1. /\ UNCHANGED <<spec, secrets, nginx, api, stale, failures, history>>
      /\ \E n \in op.old : /\ certs' = {c \in certs : c.name # n}
                           /\ op' = [op EXCEPT !.old = @ \ {n}, !.pc = n]
  BY DEF RemoveOldCertificate
<1>2. PICK n \in op.old : /\ certs' = {c \in certs : c.name # n}
                          /\ op' = [op EXCEPT !.old = @ \ {n}, !.pc = n]
  BY <1>1
<1>3. n \in Names /\ n \in requested /\ n \in OpPcs
  BY OpNames DEF OpPcs
<1>4. op' \in OpType /\ op'.old = op.old \ {n} /\ op'.todo = op.todo /\ op'.pc = n
  BY <1>2, <1>3 DEF World, OpType
<1>5. World' /\ OwnSecrets
  BY <1>1, <1>2, <1>4 DEF World, Store, OwnSecrets
<1> QED BY <1>1, <1>2, <1>3, <1>4, <1>5, OpNames, StillAsked

LEMMA RemoveSecretOperates ==
    ASSUME World, AskedFor, RemoveOldSecret
    PROVE  Operates
<1>1. /\ UNCHANGED <<spec, certs, nginx, api, stale, pending, failures, history>>
      /\ secrets' = {s \in secrets : s.id # op.pc} /\ op.pc \in Names
      /\ op' = [op EXCEPT !.pc = "certificates"]
  BY DEF RemoveOldSecret, Names
<1>2. op.pc \in requested
  BY <1>1 DEF AskedFor
<1>3. /\ op' \in OpType /\ op'.old = op.old /\ op'.todo = op.todo /\ op'.pc = "certificates"
  <2>1. "certificates" \in OpPcs
    BY DEF OpPcs
  <2> QED BY <1>1, <2>1 DEF World, OpType
<1>4. IsFiniteSet(secrets')
  BY <1>1, FS_Subset DEF World, Store
<1>5. World' /\ OwnSecrets
  BY <1>1, <1>2, <1>3, <1>4 DEF World, Store, OwnSecrets
<1> QED BY <1>1, <1>3, <1>5, OpNames, StillAsked

LEMMA NginxOperates ==
    ASSUME World, AskedFor, ReconcileNginx \/ ReconcileFails
    PROVE  Operates
<1>1. /\ UNCHANGED <<spec, secrets, certs, api, stale, history>> /\ op' = IdleOp
  BY DEF ReconcileNginx, ReconcileFails, Abort
<1>2. World' /\ OwnSecrets
  BY <1>1, OpNames DEF World, Store, OwnSecrets
<1> QED BY <1>1, <1>2, OpNames, StillAsked

\* The Secret that is taken over.
LEMMA TakenOver ==
    ASSUME Store, NEW n \in Names, TakeOverPreviousSecret(n)
    PROVE  /\ Store' /\ secrets \subseteq secrets'
           /\ \A s \in secrets' : s \in secrets \/ (s.id = n /\ s.name = n)
<1> DEFINE previous == SecretsOf(n)
           new == {[p EXCEPT !.id = n] : p \in previous}
<1>1. secrets' = secrets \cup new /\ Cardinality(previous) <= 1
  BY DEF TakeOverPreviousSecret
<1>2. IsFiniteSet(previous) /\ \A p \in previous : p \in Secret /\ p.name = n
  BY FS_Subset DEF SecretsOf, Store
<1>3. \A p \in previous : LET q == [p EXCEPT !.id = n]
                          IN  q \in Secret /\ q.id = n /\ q.name = n
  <2>1. \A p \in Secret : LET q == [p EXCEPT !.id = n]
                          IN  q \in Secret /\ q.id = n /\ q.name = p.name
    BY DEF Secret, Ids
  <2> QED BY <1>2, <2>1
<1> HIDE DEF previous
<1>4. previous = {} \/ \E p : previous = {p}
  <2>1. Cardinality(previous) \in Nat
    BY <1>2, FS_CardinalityType
  <2>2. Cardinality(previous) = 0 \/ Cardinality(previous) = 1
    BY <1>1, <2>1
  <2> QED BY <1>2, <2>2, FS_EmptySet, FS_Singleton
<1>5. IsFiniteSet(new)
  <2>1. CASE previous = {}
    <3>1. new = {}
      BY <2>1
    <3> QED BY <3>1, FS_EmptySet
  <2>2. CASE \E p : previous = {p}
    <3>1. PICK p : previous = {p}
      BY <2>2
    <3>2. new = {[p EXCEPT !.id = n]}
      BY <3>1
    <3> QED BY <3>2, FS_Singleton
  <2> QED BY <1>4, <2>1, <2>2
<1>6. \A s \in new : s \in Secret /\ s.id = n /\ s.name = n
  BY <1>3
<1> HIDE DEF new
<1>7. IsFiniteSet(secrets')
  BY <1>1, <1>5, FS_Union DEF Store
<1> QED BY <1>1, <1>6, <1>7 DEF Store

LEMMA EnsureOperates ==
    ASSUME World, AskedFor, EnsureCertificate
    PROVE  Operates
<1> DEFINE New(q) == [name |-> q.name, hosts |-> q.hosts, ready |-> FALSE]
           Hosted(c, q) == [c EXCEPT !.hosts = q.hosts]
           Creates(q) == \/ TakeOverPreviousSecret(q.name) /\ certs' = certs \cup {New(q)}
                         \/ certs' = certs \cup {New(q)} /\ UNCHANGED secrets
                         \/ UNCHANGED <<certs, secrets>>
           Updates(q, c) ==
              /\ certs' = (certs \ {c}) \cup {Hosted(c, q)} /\ UNCHANGED secrets
              /\ op' = IdleOp \/ op' = [op EXCEPT !.todo = @ \ {q}, !.ready = @ \cup {c}]
<1>1. UNCHANGED <<spec, api, stale, history>>
  BY DEF EnsureCertificate
<1>2. \E q \in op.todo : \/ Creates(q) /\ op' = IdleOp
                         \/ \E c \in certs : Updates(q, c)
  BY Zenon DEF EnsureCertificate, Abort
<1> HIDE DEF Creates, Updates
<1>3. PICK q \in op.todo : \/ Creates(q) /\ op' = IdleOp
                           \/ \E c \in certs : Updates(q, c)
  BY <1>2
<1>4. q \in Wanted /\ q.name \in Names /\ q.name \in requested /\ q.hosts \in SUBSET Hosts
  BY OpNames DEF Wanted
<1>5. CASE Creates(q) /\ op' = IdleOp
  <2>1. New(q) \in Cert /\ New(q).name = q.name
    BY <1>4 DEF Cert
  <2> HIDE DEF New
  <2>2. /\ Store' /\ secrets \subseteq secrets'
        /\ \A s \in secrets' : s \in secrets \/ (s.id = s.name /\ s.name \in requested)
    <3>1. CASE TakeOverPreviousSecret(q.name)
      BY <1>4, <3>1, TakenOver DEF World
    <3>2. CASE UNCHANGED secrets
      BY <3>2 DEF World, Store
    <3> QED BY <1>5, <3>1, <3>2 DEF Creates
  <2>3. \A c \in certs' : c \in certs \/ c = New(q)
    BY <1>5 DEF Creates
  <2>4. World' /\ OwnSecrets
    BY <1>5, <2>1, <2>2, <2>3, OpNames DEF World, OwnSecrets
  <2>5. \A c \in certs' : c.name \in requested
    BY <1>4, <2>1, <2>3, OpNames
  <2> QED BY <1>1, <1>5, <2>4, <2>5, OpNames, StillAsked
<1>6. ASSUME NEW c \in certs, Updates(q, c)
      PROVE  Operates
  <2>1. c \in Cert /\ c.name \in requested
    BY OpNames
  <2>2. Hosted(c, q) \in Cert /\ Hosted(c, q).name = c.name
    BY <1>4, <2>1 DEF Cert
  <2> HIDE DEF Hosted
  <2>3. /\ op' \in OpType /\ op'.old \subseteq op.old /\ op'.todo \subseteq op.todo
        /\ op'.pc \in {"idle", op.pc}
    <3>1. CASE op' = IdleOp
      BY <3>1, OpNames
    <3>2. CASE op' = [op EXCEPT !.todo = @ \ {q}, !.ready = @ \cup {c}]
      BY <2>1, <3>2 DEF World, OpType
    <3> QED BY <1>6, <3>1, <3>2 DEF Updates
  <2>4. secrets' = secrets /\ \A d \in certs' : d \in certs \/ d = Hosted(c, q)
    BY <1>6 DEF Updates
  <2>5. World' /\ OwnSecrets
    BY <2>2, <2>3, <2>4 DEF World, Store, OwnSecrets
  <2>6. \A d \in certs' : d.name \in requested
    BY <2>1, <2>2, <2>4, OpNames
  <2>7. op'.pc \in Names => op'.pc \in requested
    BY <2>3, OpNames DEF AskedFor
  <2> QED BY <1>1, <2>3, <2>5, <2>6, <2>7, OpNames, StillAsked
<1> QED BY <1>3, <1>5, <1>6

\* And so is each one of cert-manager.
LEMMA IssueOperates ==
    ASSUME World, AskedFor, CertManager
    PROVE  Operates
<1>1. PICK c \in certs : Issue(c)
  BY DEF CertManager
<1> DEFINE d == [hosts |-> c.hosts, serial |-> 0]
           x == [id |-> c.name, name |-> c.name, cert |-> d, by |-> None]
           e == [c EXCEPT !.ready = TRUE]
<1>2. /\ UNCHANGED <<spec, nginx, api, stale, op, failures, history>>
      /\ secrets' = {s \in secrets : s.id # c.name} \cup {x}
      /\ certs' = (certs \ {c}) \cup {e}
  BY <1>1 DEF Issue
<1>3. c \in Cert /\ c.name \in Names /\ c.name \in requested /\ c.hosts \in SUBSET Hosts
  BY OpNames DEF Cert
<1>4. d \in Data
  BY <1>3 DEF Data
<1> HIDE DEF d
<1>5. x \in Secret /\ x.id = c.name /\ x.name = c.name
  BY <1>3, <1>4 DEF Secret, Ids
<1>6. e \in Cert /\ e.name = c.name
  <2>1. \A y \in Cert : LET z == [y EXCEPT !.ready = TRUE] IN z \in Cert /\ z.name = y.name
    BY DEF Cert
  <2> QED BY <1>3, <2>1
<1> HIDE DEF x, e
<1>7. IsFiniteSet(secrets')
  <2>1. IsFiniteSet({s \in secrets : s.id # c.name}) /\ IsFiniteSet({x})
    BY FS_Subset, FS_Singleton DEF World, Store
  <2> QED BY <1>2, <2>1, FS_Union
<1>8. World' /\ OwnSecrets
  BY <1>2, <1>3, <1>5, <1>6, <1>7 DEF World, Store, OwnSecrets
<1>9. op' = op /\ \A y \in certs' : y.name \in requested
  BY <1>2, <1>3, <1>6, OpNames
<1> QED BY <1>2, <1>8, <1>9, OpNames, StillAsked DEF AskedFor

LEMMA OtherSteps ==
    ASSUME SpecTypes, World, AskedFor, Reconcile \/ ReconcileFails \/ CertManager
    PROVE  Operates
BY StartOperates, RemoveCertificateOperates, RemoveSecretOperates, EnsureOperates,
   NginxOperates, IssueOperates DEF Reconcile

----------------------------------------------------------------------------
(* Uploaded certificates stay: what a request does to Secrets. *)

\* The requests that may have created a Secret, and the ones that hold one.
Born == {k \in Requests : \/ api[k].pc = "done"
                          \/ api[k].pc = "update" /\ api[k].in.op = "upload"}
Holds(c) == \/ c.pc \in {"write", "delete"}
            \/ c.pc = "update" /\ c.in.op \in {"upload", "remove"}

\* What a step of a request may change, apart from Secrets...
Step(r) ==
    /\ r \in Active /\ Moved(r) /\ UNCHANGED <<certs, op, requested>>
    /\ api'[r].pc = "done" \/ (api'[r].in = api[r].in /\ clean' = clean)
    /\ api'[r].pc = "done" => clean' = clean \ {r}
    /\ r \in Born => r \in Born'
    /\ \/ api'[r].pc \in {"done", "delete"}
       \/ /\ api[r].pc \notin {"read", "delete"} /\ api'[r].pc \notin {"read", "done"}
          /\ api'[r].copy = api[r].copy
       \/ api[r].pc = "read" /\ api'[r].copy = Prepared(Copy, api[r].in) /\ tls' = tls
    /\ tls' = tls \/ (api[r].pc = "update" /\ r \notin stale /\ tls' = Entries(api[r]))
    /\ acked' = acked \/ /\ api[r].pc = "update" /\ secrets' = secrets
                         /\ r \in clean
                         /\ acked' = [acked EXCEPT ![Subject(api[r].in)] = api[r].in]
                         /\ \/ tls' = Entries(api[r])
                            \/ (tls' = tls /\ Entries(api[r]) = api[r].copy.tls)

\* ... and what it does to Secrets: nothing, ...
Keeps(r) ==
    /\ secrets' = secrets
    /\ Holds(api'[r]) =>
          \/ /\ api[r].pc = "lookup"
             /\ api'[r].secret \in secrets /\ api'[r].secret.name = api[r].in.name
             /\ api'[r].pc = "update" => api[r].in.op = "remove"
          \/ /\ Holds(api[r]) /\ api'[r].secret = api[r].secret /\ api'[r].pc # "write"
             /\ api'[r].pc = "update" =>
                   api[r].pc = "write" /\ api[r].secret.cert = CertData(api[r].in)

\* ... the creation of one, ...
Made(r) == [id |-> r, name |-> api[r].in.name, cert |-> CertData(api[r].in), by |-> r]
Creates(r) ==
    /\ api[r].pc = "create" /\ api[r].in.op = "upload"
    /\ api'[r].pc = "update" /\ api'[r].secret = Made(r) /\ Made(r) \in Secret
    /\ Made(r).id = r /\ Made(r).name = api[r].in.name /\ Made(r).cert = CertData(api[r].in)
    /\ secrets' = secrets \cup {Made(r)}

\* ... an update of the one that it holds, ...
Writes(r) ==
    /\ api[r].pc = "write" /\ api[r].in.op = "upload"
    /\ api'[r].pc = "update" /\ api'[r].secret = Written(r) /\ Written(r) \in Secret
    /\ Written(r).id = api[r].secret.id /\ Written(r).name = api[r].secret.name
    /\ Written(r).cert = CertData(api[r].in)
    /\ api[r].secret \in secrets
    /\ secrets' = (secrets \ {api[r].secret}) \cup {Written(r)}

\* ... or a deletion.
Deletes(r) ==
    /\ api[r].pc = "delete" /\ api[r].in.op = "remove" /\ api'[r].pc = "done"
    /\ secrets' = {s \in secrets : s.id # api[r].secret.id}

\* A call that goes on, is refused or succeeds makes such a step.
LEMMA GoesOnStep ==
    ASSUME Api, NEW r \in Active, GoesOn(r), UNCHANGED <<certs, op>>,
           r \in Born => r \in Born',
           \/ api'[r].pc = "delete"
           \/ /\ api[r].pc \notin {"read", "delete"} /\ api'[r].pc # "read"
              /\ api'[r].copy = api[r].copy
           \/ api[r].pc = "read" /\ api'[r].copy = Prepared(Copy, api[r].in) /\ tls' = tls,
           tls' = tls \/ (api[r].pc = "update" /\ r \notin stale /\ tls' = Entries(api[r]))
    PROVE  Step(r)
BY DEF GoesOn, Step, history

LEMMA RefusedStep ==
    ASSUME Api, NEW r \in Active, Refused(r), UNCHANGED <<certs, op, tls>>
    PROVE  Step(r) /\ ~Holds(api'[r])
<1>1. r \in Born' /\ api'[r].pc = "done"
  BY DEF Refused, Ends, Born, Active
<1> QED BY <1>1 DEF Refused, Ends, Step, Holds

LEMMA SucceededStep ==
    ASSUME Api, NEW r \in Active, Succeeded(r), UNCHANGED <<certs, op>>,
           tls' = tls \/ (api[r].pc = "update" /\ r \notin stale /\ tls' = Entries(api[r])),
           \/ api[r].in.op = "remove"
           \/ /\ api[r].pc = "update" /\ secrets' = secrets
              /\ tls' = Entries(api[r]) \/ (tls' = tls /\ Entries(api[r]) = api[r].copy.tls)
    PROVE  Step(r) /\ ~Holds(api'[r])
<1>1. r \in Born' /\ api'[r].pc = "done"
  BY DEF Succeeded, Ends, Born, Active
<1> QED BY <1>1 DEF Succeeded, Ends, Step, Holds

\* Every step of a request is of these kinds.
LEMMA StepKinds ==
    ASSUME Api, World, NEW r \in Requests, ApiStep(r)
    PROVE  \/ \E in \in Inputs[r] : Begin(r, in)
           \/ Step(r) /\ (Keeps(r) \/ Creates(r) \/ Writes(r) \/ Deletes(r))
<1>0. CallTypes /\ SpecTypes /\ Store
  BY DEF Api, World
<1>1. CASE ReadInstance(r)
  <2>1. r \in Active /\ UNCHANGED <<certs, op, tls, secrets>> /\ api[r].pc = "read"
    BY <1>1 DEF ReadInstance, Active, spec
  <2>2. CASE Refused(r)
    BY <2>1, <2>2, RefusedStep DEF Keeps
  <2>3. CASE ~Refused(r)
    <3>1. /\ GoesOn(r) /\ api'[r].copy = Prepared(Copy, api[r].in)
          /\ api'[r].pc = CASE api[r].in.op = "upload" -> "hosts"
                             [] api[r].in.op = "remove" -> "lookup"
                             [] OTHER -> "update"
      BY <1>0, <1>1, <2>3, ReadEffect
    <3>2. ~Holds(api'[r])
      <4>1. api'[r].in = api[r].in
        BY <3>1 DEF GoesOn
      <4> QED BY <3>1, <4>1 DEF Holds
    <3>3. r \notin Born
      BY <2>1 DEF Born
    <3> QED BY <2>1, <3>1, <3>2, <3>3, GoesOnStep DEF Keeps
  <2> QED BY <2>2, <2>3
<1>2. CASE CheckHosts(r)
  <2>1. r \in Active /\ UNCHANGED <<certs, op, tls, secrets>> /\ api[r].pc = "hosts"
    BY <1>2 DEF CheckHosts, Active, spec
  <2>2. CASE Refused(r)
    BY <2>1, <2>2, RefusedStep DEF Keeps
  <2>3. CASE ~Refused(r)
    <3>1. GoesOn(r) /\ api'[r].pc = "lookup" /\ api'[r].copy = api[r].copy
      BY <1>0, <1>2, <2>3, CheckEffect
    <3>2. ~Holds(api'[r]) /\ r \notin Born
      BY <2>1, <3>1 DEF Holds, Born
    <3> QED BY <2>1, <3>1, <3>2, GoesOnStep DEF Keeps
  <2> QED BY <2>2, <2>3
<1>3. CASE GetTLSSecretByCertificateName(r)
  <2>1. r \in Active /\ UNCHANGED <<certs, op, tls, secrets>> /\ api[r].pc = "lookup"
    BY <1>3 DEF GetTLSSecretByCertificateName, Active, spec
  <2>2. CASE Refused(r)
    BY <2>1, <2>2, RefusedStep DEF Keeps
  <2>3. CASE ~Refused(r)
    <3>1. /\ GoesOn(r) /\ api'[r].copy = api[r].copy
          /\ \/ api'[r].pc = "create"
             \/ /\ api'[r].pc = IF api[r].in.op = "upload" THEN "write" ELSE "update"
                /\ api'[r].secret \in secrets /\ api'[r].secret.name = api[r].in.name
      BY <1>0, <1>3, <2>3, LookupEffect DEF Store
    <3>2. api[r].in.op \in {"upload", "remove"}
      BY <1>0, <2>1 DEF CallTypes, InFlight
    <3>3. r \notin Born /\ api'[r].pc # "read"
      BY <2>1, <3>1 DEF Born
    <3>4. Keeps(r)
      BY <2>1, <3>1, <3>2 DEF Keeps, Holds
    <3> QED BY <2>1, <3>1, <3>3, <3>4, GoesOnStep
  <2> QED BY <2>2, <2>3
<1>4. CASE CreateSecret(r)
  <2>1. r \in Active /\ UNCHANGED <<certs, op, tls>>
    BY <1>4 DEF CreateSecret, Active, spec
  <2>2. /\ GoesOn(r) /\ api'[r].copy = api[r].copy /\ Creates(r)
    BY <1>0, <1>4, CreateEffect DEF Creates, Made
  <2>3. r \notin Born
    BY <2>2 DEF Born, Creates
  <2> QED BY <2>1, <2>2, <2>3, GoesOnStep DEF Creates
<1>5. CASE UpdateSecret(r)
  <2>1. r \in Active /\ UNCHANGED <<certs, op, tls>>
    BY <1>5 DEF UpdateSecret, Active, spec
  <2>2. api[r].pc = "write" /\ api[r].in.op = "upload"
    BY <1>0, <1>5, WriteEffect
  <2>3. \/ Refused(r) /\ secrets' = secrets
        \/ /\ GoesOn(r) /\ api'[r].pc = "update" /\ api'[r].copy = api[r].copy
           /\ secrets' = secrets /\ api'[r].secret = api[r].secret
           /\ api[r].secret.cert = CertData(api[r].in)
        \/ /\ GoesOn(r) /\ api'[r].pc = "update" /\ api'[r].copy = api[r].copy /\ Writes(r)
    BY <1>0, <1>5, WriteEffect DEF Writes
  <2>4. r \notin Born
    BY <2>2 DEF Born
  <2>5. CASE Refused(r) /\ secrets' = secrets
    BY <2>1, <2>5, RefusedStep DEF Keeps
  <2>6. CASE /\ GoesOn(r) /\ api'[r].pc = "update" /\ api'[r].copy = api[r].copy
             /\ secrets' = secrets /\ api'[r].secret = api[r].secret
             /\ api[r].secret.cert = CertData(api[r].in)
    <3>1. Keeps(r)
      BY <2>2, <2>6 DEF Keeps, Holds
    <3> QED BY <2>1, <2>2, <2>4, <2>6, <3>1, GoesOnStep
  <2>7. CASE GoesOn(r) /\ api'[r].pc = "update" /\ api'[r].copy = api[r].copy /\ Writes(r)
    BY <2>1, <2>2, <2>4, <2>7, GoesOnStep
  <2> QED BY <2>3, <2>5, <2>6, <2>7
<1>6. CASE UpdateInstance(r)
  <2>1. UNCHANGED <<certs, op, secrets>> /\ api[r].pc = "update" /\ r \in Active
    BY <1>6 DEF UpdateInstance, Active
  <2>2. \/ /\ Succeeded(r) /\ tls' = tls /\ Entries(api[r]) = api[r].copy.tls
        \/ Refused(r) /\ tls' = tls
        \/ /\ r \notin stale /\ tls' = Entries(api[r])
           /\ \/ /\ api[r].in.op = "remove" /\ GoesOn(r) /\ api'[r].pc = "delete"
                 /\ api'[r].secret = api[r].secret
              \/ Succeeded(r)
    BY <1>0, <1>6, UpdateEffect DEF spec
  <2>3. CASE /\ Succeeded(r)
             /\ \/ tls' = tls /\ Entries(api[r]) = api[r].copy.tls
                \/ r \notin stale /\ tls' = Entries(api[r])
    BY <2>1, <2>3, SucceededStep DEF Keeps
  <2>4. CASE Refused(r) /\ tls' = tls
    BY <2>1, <2>4, RefusedStep DEF Keeps
  <2>5. CASE /\ r \notin stale /\ tls' = Entries(api[r])
             /\ api[r].in.op = "remove" /\ GoesOn(r) /\ api'[r].pc = "delete"
             /\ api'[r].secret = api[r].secret
    <3>1. r \notin Born
      BY <2>1, <2>5 DEF Born
    <3>2. Keeps(r)
      BY <2>1, <2>5 DEF Keeps, Holds
    <3> QED BY <2>1, <2>5, <3>1, <3>2, GoesOnStep
  <2> QED BY <2>2, <2>3, <2>4, <2>5
<1>7. CASE DeleteSecret(r)
  <2>1. UNCHANGED <<certs, op, tls>> /\ r \in Active
    BY <1>7 DEF DeleteSecret, Active, spec
  <2>2. /\ api[r].pc = "delete" /\ api[r].in.op = "remove"
        /\ secrets' = {s \in secrets : s.id # api[r].secret.id}
        /\ Refused(r) \/ Succeeded(r)
    BY <1>0, <1>7, DeleteEffect
  <2>3. api'[r].pc = "done"
    BY <2>2 DEF Refused, Succeeded, Ends
  <2> QED BY <2>1, <2>2, <2>3, RefusedStep, SucceededStep DEF Deletes
<1>8. CASE CallFails(r)
  <2>1. r \in Active /\ UNCHANGED <<certs, op, tls, secrets>> /\ Refused(r)
    BY <1>0, <1>8, RefuseEnds DEF CallFails, spec
  <2> QED BY <2>1, RefusedStep DEF Keeps
<1> QED
  BY <1>1, <1>2, <1>3, <1>4, <1>5, <1>6, <1>7, <1>8 DEF ApiStep

Kinds(r) == Keeps(r) \/ Creates(r) \/ Writes(r) \/ Deletes(r)

\* Types are kept.
LEMMA StoreKept ==
    ASSUME World, NEW r, Step(r), Kinds(r)
    PROVE  World'
<1>1. certs' = certs /\ op' = op
  BY DEF Step
<1>2. Store'
  <2>1. CASE Keeps(r)
    BY <2>1 DEF Keeps, World, Store
  <2>2. CASE Creates(r)
    <3>1. IsFiniteSet(secrets')
      BY <2>2, FS_AddElement DEF Creates, World, Store
    <3> QED BY <2>2, <3>1 DEF Creates, World, Store
  <2>3. CASE Writes(r)
    <3>1. IsFiniteSet(secrets \ {api[r].secret})
      BY FS_Subset DEF World, Store
    <3>2. IsFiniteSet(secrets')
      BY <2>3, <3>1, FS_AddElement DEF Writes
    <3> QED BY <2>3, <3>2 DEF Writes, World, Store
  <2>4. CASE Deletes(r)
    <3>1. IsFiniteSet(secrets')
      BY <2>4, FS_Subset DEF Deletes, World, Store
    <3> QED BY <2>4, <3>1 DEF Deletes, World, Store
  <2> QED BY <2>1, <2>2, <2>3, <2>4 DEF Kinds
<1> QED BY <1>1, <1>2 DEF World

\* A request that ends well leaves only names that were asked for.
LEMMA AskedKept ==
    ASSUME Api, AskedFor, NEW r \in Active, Step(r), Edits(r) \/ Sits(r) \/ Reads(r)
    PROVE  AskedFor'
<1> DEFINE in == api[r].in
<1>1. UNCHANGED <<certs, op, requested>>
  BY DEF Step
<1>2. \A q \in Active' : q \in Active /\ api'[q].in = api[q].in
  <2>1. \A q \in Requests \ {r} : api'[q] = api[q]
    BY DEF Step, Moved
  <2>2. r \in Active' => api'[r].in = api[r].in
    BY DEF Step, Active
  <2> QED BY <2>1, <2>2 DEF Active
<1>3. \A e \in EntriesOf(requests', legacy') : RequiredName(e) \in requested
  <2>1. CASE UNCHANGED spec
    BY <2>1 DEF AskedFor, spec
  <2>2. CASE Edits(r)
    <3>1. in \in Inp /\ Copy \in Copies /\ Copy.requests = requests /\ Copy.legacy = legacy
      BY ApiTypes, CopyType DEF Api
    <3>2. requests' = Prepared(Copy, in).requests /\ legacy' = Prepared(Copy, in).legacy
      BY <2>2 DEF Api, Fresh, Edits
    <3>3. /\ ToSet(Prepared(Copy, in).requests) \subseteq
                ToSet(requests) \cup (IF in.op = "request" THEN {RequestOf(in)} ELSE {})
          /\ Prepared(Copy, in).legacy \in {legacy, None}
      BY <3>1, PreparedKeeps
    <3>4. in.op = "request" => RequiredName(RequestOf(in)) = Subject(in)
      BY DEF RequestOf, RequiredName, Subject
    <3>5. in.op = "request" => RequiredName(RequestOf(in)) \in requested
      BY <3>4 DEF AskedFor
    <3>6. ToSet(requests') = ToSet(Prepared(Copy, in).requests)
      BY <3>2
    <3> HIDE DEF in
    <3>7. \A e \in EntriesOf(requests', legacy') :
             e \in EntriesOf(requests, legacy) \/ (in.op = "request" /\ e = RequestOf(in))
      BY <3>2, <3>3, <3>6 DEF EntriesOf
    <3> QED BY <3>5, <3>7 DEF AskedFor
  <2> QED BY <2>1, <2>2 DEF Sits, Reads
<1>4. \A q \in Active' : api'[q].in.op = "request" => Subject(api'[q].in) \in requested
  BY <1>2 DEF AskedFor
<1> QED
  BY <1>1, <1>3, <1>4 DEF AskedFor, NamesOf, EntriesOf, RequiredName, Subject, issuerOrDefault

\* A request that begins may ask for one more name.
LEMMA AskedBegins ==
    ASSUME Api, World, AskedFor, NEW r \in Requests, NEW in \in Inputs[r], Begin(r, in)
    PROVE  World' /\ AskedFor'
<1>1. UNCHANGED <<requests, legacy, secrets, certs, op>>
  BY DEF Begin, spec
<1>2. Active' = Active \cup {r} /\ api'[r].in = in /\ \A q \in Active : api'[q] = api[q]
  BY NewlyActive DEF Api
<1>3. requested \subseteq requested' /\ (in.op = "request" => Subject(in) \in requested')
  BY DEF Begin
<1>4. \A q \in Active' : api'[q].in.op = "request" => Subject(api'[q].in) \in requested'
  BY <1>2, <1>3 DEF AskedFor
<1>5. AskedFor'
  BY <1>1, <1>3, <1>4 DEF AskedFor, NamesOf, EntriesOf, RequiredName, Subject, issuerOrDefault
<1> QED BY <1>1, <1>5 DEF World, Store

----------------------------------------------------------------------------
(* Secrets are who they seem to be. *)

\* The Secrets, and the copies of them that requests hold.
Objects == secrets \cup {api[k].secret : k \in {q \in Requests : Holds(api[q])}}

\* Objects of one id have one name.  An id is the number of a request that has
\* created its Secret, or is the name of what cert-manager was asked for.
Sound(objects, born, asked) ==
    /\ \A s \in objects : s.id \in born \/ (s.id = s.name /\ s.name \in asked)
    /\ \A s, t \in objects : s.id = t.id => s.name = t.name

\* Secrets, the copies that requests hold and the entries of Spec.TLS are what
\* their ids say.
Identity ==
    /\ Sound(Objects, Born, requested)
    /\ \A k \in Requests : Holds(api[k]) => api[k].secret.name = api[k].in.name
    /\ \A e \in ToSet(tls) : e.id \in Born \cup Names
    /\ \A k \in Active : api[k].pc \notin {"read", "delete"} =>
          \A e \in ToSet(api[k].copy.tls) : e.id \in Born \cup Names

\* How the objects may change.
Grows(O, P, B, C, A, D, Z) ==
    /\ B \subseteq C /\ A \subseteq D /\ C \cap Names = {}
    /\ \A x \in P : x.name \in Names
    /\ \A x \in P : \/ \E y \in O : x.id = y.id /\ x.name = y.name
                    \/ x.id = x.name /\ x.name \in D
                    \/ x \in Z
    /\ \A z \in Z : z.id \in C \ B
    /\ \A y, z \in Z : y = z

\* Objects that change so are still sound.
LEMMA SoundKept ==
    ASSUME NEW O, NEW P, NEW B, NEW C, NEW A, NEW D, NEW Z,
           Sound(O, B, A), Grows(O, P, B, C, A, D, Z)
    PROVE  Sound(P, C, D)
<1> USE DEF Grows
<1>1. ASSUME NEW x \in P
      PROVE  x.id \in C \/ (x.id = x.name /\ x.name \in D)
  BY DEF Sound
<1>2. ASSUME NEW x \in P, NEW w \in P, x.id = w.id
      PROVE  x.name = w.name
  <2>1. \A v \in P : v.id = v.name => v.id \notin C
    OBVIOUS
  <2>2. CASE x \in Z
    <3>1. x.id \in C \ B
      BY <2>2
    <3>2. CASE \E y \in O : w.id = y.id /\ w.name = y.name
      <4>1. PICK y \in O : w.id = y.id /\ w.name = y.name
        BY <3>2
      <4>2. y.id = y.name
        BY <1>2, <3>1, <4>1 DEF Sound
      <4> QED BY <1>2, <2>1, <3>1, <4>1, <4>2
    <3> QED BY <1>2, <2>1, <2>2, <3>1, <3>2
  <2>3. CASE w \in Z
    <3>1. w.id \in C \ B
      BY <2>3
    <3>2. CASE \E y \in O : x.id = y.id /\ x.name = y.name
      <4>1. PICK y \in O : x.id = y.id /\ x.name = y.name
        BY <3>2
      <4>2. y.id = y.name
        BY <1>2, <3>1, <4>1 DEF Sound
      <4> QED BY <1>2, <2>1, <3>1, <4>1, <4>2
    <3> QED BY <1>2, <2>1, <2>3, <3>1, <3>2
  <2>4. CASE x \notin Z /\ w \notin Z
    <3>1. ASSUME NEW v \in P, v \notin Z
          PROVE  v.id = v.name \/ (v.id \in B /\ \E y \in O : v.id = y.id /\ v.name = y.name)
      BY <3>1 DEF Sound
    <3>2. CASE x.id = x.name
      BY <1>2, <2>1, <2>4, <3>1, <3>2
    <3>3. CASE x.id # x.name
      <4>1. x.id \in B /\ \E y \in O : x.id = y.id /\ x.name = y.name
        BY <2>4, <3>1, <3>3
      <4>2. w.id # w.name
        BY <1>2, <2>1, <4>1
      <4>3. \E y \in O : w.id = y.id /\ w.name = y.name
        BY <2>4, <3>1, <4>2
      <4> QED BY <1>2, <4>1, <4>3 DEF Sound
    <3> QED BY <3>2, <3>3
  <2> QED BY <2>2, <2>3, <2>4
<1> QED BY <1>1, <1>2 DEF Sound

\* A Secret of the API and one of cert-manager never share an id.
LEMMA NumbersNotNames == Requests \cap Names = {}
<1>1. Requests \subseteq Nat
  BY CertificatesAssumption DEF Requests
<1> QED BY <1>1, CertificatesAssumption DEF Names

\* How a step of a request changes the objects.
LEMMA ObjectsStep ==
    ASSUME Api, Identity, NEW r \in Active, Step(r), Kinds(r)
    PROVE  /\ \A x \in Objects' : \/ \E y \in Objects : x.id = y.id /\ x.name = y.name
                                  \/ Creates(r) /\ x = Made(r)
           /\ Holds(api'[r]) => api'[r].secret.name = api[r].in.name
           /\ Born \subseteq Born'
<1>0. r \in Requests /\ \A q \in Requests \ {r} : api'[q] = api[q]
  BY DEF Step, Moved, Active
<1>1. Born \subseteq Born'
  <2>1. r \in Born => r \in Born'
    BY DEF Step
  <2> QED BY <1>0, <2>1 DEF Born
<1>2. Holds(api[r]) => api[r].secret \in Objects /\ api[r].secret.name = api[r].in.name
  BY <1>0 DEF Objects, Identity
<1>3. \A x \in Objects' : \/ x \in secrets' \/ x \in Objects
                          \/ Holds(api'[r]) /\ x = api'[r].secret
  <2>1. \A x \in Objects' : \/ x \in secrets'
                             \/ \E k \in Requests : Holds(api'[k]) /\ x = api'[k].secret
    BY DEF Objects, Holds
  <2>2. \A k \in Requests \ {r} : Holds(api'[k]) => api'[k].secret \in Objects
    BY <1>0 DEF Objects, Holds
  <2> QED BY <2>1, <2>2
<1>4. CASE Keeps(r)
  <2>1. Holds(api'[r]) => api'[r].secret \in Objects /\ api'[r].secret.name = api[r].in.name
    BY <1>2, <1>4 DEF Keeps, Objects
  <2>2. \A x \in Objects' : x \in Objects
    BY <1>3, <1>4, <2>1 DEF Keeps, Objects
  <2> QED BY <1>1, <2>1, <2>2
<1>5. CASE Creates(r)
  <2>1. \A x \in secrets' : x \in Objects \/ x = Made(r)
    BY <1>5 DEF Creates, Objects
  <2>2. api'[r].secret = Made(r) /\ api'[r].secret.name = api[r].in.name
    BY <1>5 DEF Creates
  <2> QED BY <1>1, <1>3, <1>5, <2>1, <2>2
<1>6. CASE Writes(r)
  <2>1. /\ Holds(api[r]) /\ api'[r].secret = Written(r)
        /\ Written(r).id = api[r].secret.id /\ Written(r).name = api[r].secret.name
    BY <1>6 DEF Writes, Holds
  <2>2. \A x \in secrets' : x \in Objects \/ x = Written(r)
    BY <1>6 DEF Writes, Objects
  <2>3. \A x \in Objects' : x \in Objects \/ x = Written(r)
    BY <1>3, <2>1, <2>2
  <2> QED BY <1>1, <1>2, <2>1, <2>3
<1>7. CASE Deletes(r)
  <2>1. ~Holds(api'[r]) /\ \A x \in secrets' : x \in Objects
    BY <1>7 DEF Deletes, Holds, Objects
  <2> QED BY <1>1, <1>3, <2>1
<1> QED BY <1>4, <1>5, <1>6, <1>7 DEF Kinds

\* The copy of a request that is not outdated has Spec.TLS as it is.
LEMMA FreshEntries ==
    ASSUME Api, NEW r \in Active, r \notin stale, api[r].pc = "update"
    PROVE  api[r].copy.tls = tls
<1>1. api[r].copy = Prepared(Copy, api[r].in) /\ api[r].in \in Inp
  BY ApiTypes DEF Api, Fresh
<1>2. Copy \in Copies /\ Copy.tls = tls
  BY CopyType DEF Api
<1> QED BY <1>1, <1>2, PreparedKeeps

\* Spec.TLS after a step of a request.
LEMMA EntriesStep ==
    ASSUME Api, NEW r \in Active, Step(r)
    PROVE  /\ \A e \in ToSet(tls') : \/ e \in ToSet(tls)
                                     \/ /\ Holds(api[r]) /\ api[r].secret \in Secret
                                        /\ e.id = api[r].secret.id
           /\ \A e \in ToSet(tls) : \/ e \in ToSet(tls')
                                    \/ Holds(api[r]) /\ e.id = api[r].secret.id
<1>1. CASE tls' = tls
  BY <1>1
<1>2. CASE tls' # tls
  <2> DEFINE s == api[r].secret
  <2>1. /\ api[r].pc = "update" /\ r \notin stale /\ tls' = Entries(api[r])
    BY <1>2 DEF Step
  <2>2. api[r].copy.tls = tls
    BY <2>1, FreshEntries
  <2>3. /\ tls \in Seq(Entry) /\ InFlight(api[r]) /\ api[r].pc \notin {"idle", "done"}
    BY ApiTypes DEF Api, SpecTypes
  <2>4. CASE api[r].in.op = "upload"
    <3>1. s \in Secret /\ Holds(api[r])
      BY <2>1, <2>3, <2>4 DEF InFlight, Holds
    <3>2. tls' = WithCertificate(tls, s)
      BY <2>1, <2>2, <2>4 DEF Entries
    <3>3. /\ ToSet(WithCertificate(tls, s)) \subseteq ToSet(tls) \cup {EntryOf(s)}
          /\ \A e \in ToSet(tls) : e.id # s.id => e \in ToSet(WithCertificate(tls, s))
          /\ EntryOf(s).id = s.id
      BY <2>3, <3>1, WithEdit, SecretFacts
    <3> QED BY <3>1, <3>2, <3>3
  <2>5. CASE api[r].in.op = "remove"
    <3>1. s \in Secret /\ Holds(api[r])
      BY <2>1, <2>3, <2>5 DEF InFlight, Holds
    <3>2. tls' = WithoutCertificate(tls, s)
      BY <2>1, <2>2, <2>5 DEF Entries
    <3>3. /\ ToSet(WithoutCertificate(tls, s)) \subseteq ToSet(tls)
          /\ \A e \in ToSet(tls) : e.id # s.id => e \in ToSet(WithoutCertificate(tls, s))
      BY <2>3, WithoutEdit
    <3> QED BY <3>1, <3>2, <3>3
  <2>6. CASE api[r].in.op \notin {"upload", "remove"}
    BY <1>2, <2>1, <2>2, <2>6 DEF Entries
  <2> QED BY <2>4, <2>5, <2>6
<1> QED BY <1>1, <1>2

\* Every step keeps Identity: of a request, ...
LEMMA IdentityStep ==
    ASSUME Api, Api', World, AskedFor, Identity, NEW r \in Active, Step(r), Kinds(r)
    PROVE  Identity'
<1> DEFINE Z == IF Creates(r) THEN {Made(r)} ELSE {}
<1>0. r \in Requests /\ \A q \in Requests \ {r} : api'[q] = api[q]
  BY DEF Step, Moved, Active
<1>1. /\ \A x \in Objects' : \/ \E y \in Objects : x.id = y.id /\ x.name = y.name
                             \/ Creates(r) /\ x = Made(r)
      /\ Holds(api'[r]) => api'[r].secret.name = api[r].in.name
      /\ Born \subseteq Born'
  BY ObjectsStep
<1>2. World'
  BY StoreKept
<1>3. \A x \in Objects' : x.name \in Names
  <2>1. \A k \in Requests : Holds(api'[k]) => api'[k].secret \in Secret
    BY DEF Api, CallTypes, InFlight, Holds
  <2>2. secrets' \subseteq Secret
    BY <1>2 DEF World, Store, Secret, Data
  <2>3. Objects' \subseteq Secret
    BY <2>1, <2>2 DEF Objects, Holds
  <2> QED BY <2>3, SecretFacts
<1>4. Born' \cap Names = {} /\ Born \cap Names = {}
  BY NumbersNotNames DEF Born
<1>5. \A z \in Z : z.id \in Born' \ Born
  <2>1. Creates(r) => r \in Born' /\ r \notin Born /\ Made(r).id = r
    BY <1>0 DEF Creates, Born, Step
  <2> QED BY <2>1
<1>6. Sound(Objects', Born', requested')
  <2>1. \A x \in Objects' : \/ \E y \in Objects : x.id = y.id /\ x.name = y.name
                            \/ x.id = x.name /\ x.name \in requested'
                            \/ x \in Z
    BY <1>1
  <2>2. \A y, z \in Z : y = z
    OBVIOUS
  <2>3. requested \subseteq requested' /\ Sound(Objects, Born, requested)
    BY DEF Step, Identity
  <2> HIDE DEF Z
  <2>4. Grows(Objects, Objects', Born, Born', requested, requested', Z)
    BY <1>1, <1>3, <1>4, <1>5, <2>1, <2>2, <2>3 DEF Grows
  <2> QED BY <2>3, <2>4, SoundKept
<1>7. \A k \in Requests : Holds(api'[k]) => api'[k].secret.name = api'[k].in.name
  <2>1. Holds(api'[r]) => api'[r].in = api[r].in
    BY DEF Step, Holds
  <2> QED BY <1>0, <1>1, <2>1 DEF Identity
<1>8. Holds(api[r]) /\ api[r].secret \in Secret => api[r].secret.id \in Born \cup Names
  <2>1. Holds(api[r]) => api[r].secret \in Objects
    BY <1>0 DEF Objects
  <2>2. \A x \in Secret : x.name \in Names
    BY SecretFacts
  <2> QED BY <2>1, <2>2 DEF Identity, Sound
<1>9. \A e \in ToSet(tls') : e.id \in Born' \cup Names
  BY <1>1, <1>8, EntriesStep DEF Identity
<1>10. ASSUME NEW k \in Active', api'[k].pc \notin {"read", "delete"}
       PROVE  \A e \in ToSet(api'[k].copy.tls) : e.id \in Born' \cup Names
  <2>1. CASE k # r
    <3>1. k \in Active /\ api'[k] = api[k]
      BY <1>0, <2>1 DEF Active
    <3> QED BY <1>1, <1>10, <3>1 DEF Identity
  <2>2. CASE k = r
    <3>1. \/ api[r].pc \notin {"read", "delete"} /\ api'[r].copy = api[r].copy
          \/ api'[r].copy = Prepared(Copy, api[r].in)
      BY <1>10, <2>2 DEF Step, Active
    <3>2. Prepared(Copy, api[r].in).tls = tls
      <4>1. Copy \in Copies /\ Copy.tls = tls /\ api[r].in \in Inp
        BY CopyType, ApiTypes DEF Api
      <4> QED BY <4>1, PreparedKeeps
    <3> QED BY <1>1, <2>2, <3>1, <3>2 DEF Identity
  <2> QED BY <2>1, <2>2
<1>11. Sound(Objects, Born, requested)'
  BY <1>6 DEF Sound
<1>12. \A k \in Requests : (Holds(api[k]) => api[k].secret.name = api[k].in.name)'
  BY <1>7 DEF Holds
<1> QED BY <1>9, <1>10, <1>11, <1>12 DEF Identity, Names

\* ... of the operator and cert-manager, ...
LEMMA IdentityRests ==
    ASSUME Api, World', Identity, UNCHANGED <<tls, api>>, requested \subseteq requested',
           \A s \in secrets' : s \in secrets \/ (s.id = s.name /\ s.name \in requested')
    PROVE  Identity'
<1>1. Born' = Born /\ Active' = Active
  BY DEF Born, Active
<1>2. Objects' \subseteq Objects \cup secrets'
  BY DEF Objects, Holds
<1>3. Objects' \subseteq Secret
  <2>1. \A k \in Requests : Holds(api[k]) => api[k].secret \in Secret
    BY DEF Api, CallTypes, InFlight, Holds
  <2>2. secrets' \subseteq Secret
    BY DEF World, Store, Secret, Data
  <2> QED BY <2>1, <2>2 DEF Objects, Holds
<1>4. \A x \in Objects' : x.name \in Names
  BY <1>3, SecretFacts
<1>5. \A x \in Objects' : \/ \E y \in Objects : x.id = y.id /\ x.name = y.name
                          \/ x.id = x.name /\ x.name \in requested'
                          \/ x \in {}
  BY <1>2 DEF Objects
<1>6. Sound(Objects', Born', requested')
  <2>1. Sound(Objects, Born, requested) /\ Born \cap Names = {}
    BY NumbersNotNames DEF Identity, Born
  <2>2. Grows(Objects, Objects', Born, Born', requested, requested', {})
    BY <1>1, <1>4, <1>5, <2>1 DEF Grows
  <2> QED BY <2>1, <2>2, SoundKept
<1>7. Sound(Objects, Born, requested)'
  BY <1>6 DEF Sound
<1>8. \A k \in Requests : (Holds(api[k]) => api[k].secret.name = api[k].in.name)'
  BY DEF Identity, Holds
<1> QED BY <1>1, <1>7, <1>8 DEF Identity, Names

\* ... and the start of a request.
LEMMA IdentityBegins ==
    ASSUME Api, World, AskedFor, Identity, NEW r \in Requests, NEW in \in Inputs[r], Begin(r, in)
    PROVE  Identity'
<1>1. /\ r \notin Active /\ Active' = Active \cup {r} /\ api'[r].in = in
      /\ \A q \in Active : api'[q] = api[q]
  BY NewlyActive DEF Api
<1>2. /\ api[r].pc = "idle" /\ api'[r].pc = "read"
      /\ \A q \in Requests \ {r} : api'[q] = api[q]
  BY BeginEffect DEF Api, Moved
<1>3. UNCHANGED <<tls, secrets>> /\ requested \subseteq requested'
  BY DEF Begin, spec
<1>4. Born' = Born
  BY <1>2 DEF Born
<1>5. ~Holds(api'[r]) /\ ~Holds(api[r])
  BY <1>2 DEF Holds
<1>6. \A q \in Requests : Holds(api'[q]) => Holds(api[q]) /\ api'[q] = api[q]
  BY <1>2, <1>5
<1>7. Objects' \subseteq Objects
  BY <1>3, <1>6 DEF Objects, Holds
<1>8. Sound(Objects, Born, requested)'
  BY <1>3, <1>4, <1>7 DEF Identity, Sound
<1>9. \A k \in Requests : (Holds(api[k]) => api[k].secret.name = api[k].in.name)'
  BY <1>6 DEF Identity, Holds
<1>10. \A k \in Active' : api'[k].pc \notin {"read", "delete"} =>
          \A e \in ToSet(api'[k].copy.tls) : e.id \in Born' \cup Names
  BY <1>1, <1>2, <1>4 DEF Identity
<1> QED BY <1>3, <1>4, <1>8, <1>9, <1>10 DEF Identity, Names

----------------------------------------------------------------------------
(* An uploaded certificate stays bound. *)

\* A step leaves the Secrets of a name alone, and the entries that they have.
Untouched(n) ==
    /\ \A s \in secrets \cup secrets' : s.name = n => s \in secrets /\ s \in secrets'
    /\ \A e \in ToSet(tls) : e \in ToSet(tls') \/ \A s \in secrets : s.id = e.id => s.name # n

\* An upload that overlaps no other one of its name finds its Secret as it left
\* it; if its copy of the instance has entries that are gone since, they are not
\* of its name.
Secured(r) ==
    /\ api[r].pc = "write" => api[r].secret \in secrets
    /\ api[r].pc = "update" =>
          api[r].secret \in secrets /\ api[r].secret.cert = CertData(api[r].in)
    /\ api[r].pc # "read" =>
          \A e \in ToSet(api[r].copy.tls) :
             e \in ToSet(tls) \/ \A s \in secrets : s.id = e.id => s.name # api[r].in.name

Uploads(r) == api[r].in.op = "upload" /\ api[r].in.name \notin requested
AllSecured == \A r \in clean : Uploads(r) => Secured(r)

\* An acknowledged upload has a Secret with its data, and an entry for it.
Bound ==
    \A n \in CertNames \ requested : acked[n] # None /\ acked[n].op = "upload" =>
        \E s \in secrets : /\ s.name = n /\ s.cert = CertData(acked[n])
                           /\ EntryOf(s) \in ToSet(tls)

Kept == AllSecured /\ Bound

\* A request about another name leaves a name untouched.
LEMMA UntouchedStep ==
    ASSUME Api, Identity, NEW r \in Active, Step(r), Kinds(r), NEW n,
           api[r].in.op \in {"upload", "remove"} => api[r].in.name # n
    PROVE  Untouched(n)
<1>0. r \in Requests
  BY DEF Active
<1>1. Holds(api[r]) => /\ api[r].secret \in Objects /\ api[r].secret.name # n
                       /\ \A s \in secrets : s.id = api[r].secret.id => s.name # n
  <2>1. Holds(api[r]) => /\ api[r].secret \in Objects
                         /\ api[r].secret.name = api[r].in.name
                         /\ api[r].in.op \in {"upload", "remove"}
    BY <1>0, ApiTypes DEF Objects, Identity, Holds, InFlight
  <2>2. \A s \in secrets : s \in Objects
    BY DEF Objects
  <2> QED BY <2>1, <2>2 DEF Identity, Sound
<1>2. \A s \in secrets \cup secrets' : s.name = n => s \in secrets /\ s \in secrets'
  <2>1. CASE Keeps(r)
    BY <2>1 DEF Keeps
  <2>2. CASE Creates(r)
    BY <2>2 DEF Creates
  <2>3. CASE Writes(r)
    BY <1>1, <2>3 DEF Writes, Holds
  <2>4. CASE Deletes(r)
    BY <1>1, <2>4 DEF Deletes, Holds
  <2> QED BY <2>1, <2>2, <2>3, <2>4 DEF Kinds
<1>3. \A e \in ToSet(tls) : e \in ToSet(tls') \/ \A s \in secrets : s.id = e.id => s.name # n
  BY <1>1, EntriesStep
<1> QED BY <1>2, <1>3 DEF Untouched

\* The operator leaves alone what cert-manager was never asked for.
LEMMA UntouchedRests ==
    ASSUME Operates, Identity, NEW n, n \notin requested
    PROVE  Untouched(n)
<1>1. tls' = tls /\ OwnSecrets
  BY DEF Operates, spec
<1>2. \A s \in secrets : s \in Objects
  BY DEF Objects
<1>3. Born \cap Names = {}
  BY NumbersNotNames DEF Born
<1>4. \A s \in secrets : s.id \in Names => s.name \in requested
  BY <1>2, <1>3 DEF Identity, Sound
<1> QED BY <1>1, <1>4 DEF Untouched, OwnSecrets

\* What an untouched name keeps.
LEMMA SecuredStays ==
    ASSUME NEW k \in Requests, api'[k] = api[k], Secured(k), Untouched(api[k].in.name),
           api[k].pc \in {"write", "update"} => api[k].secret.name = api[k].in.name
    PROVE  Secured(k)'
<1>1. \A e \in ToSet(api[k].copy.tls) :
         e \in ToSet(tls) /\ e \notin ToSet(tls')
            => \A s \in secrets' : s.id = e.id => s.name # api[k].in.name
  BY DEF Untouched
<1>2. api[k].pc # "read" => \A e \in ToSet(api[k].copy.tls) :
         e \in ToSet(tls') \/ \A s \in secrets' : s.id = e.id => s.name # api[k].in.name
  BY <1>1 DEF Untouched, Secured
<1> QED BY <1>2 DEF Secured, Untouched, CertData

LEMMA BoundStays ==
    ASSUME Bound, NEW n \in CertNames \ requested, acked[n] # None, acked[n].op = "upload",
           Untouched(n)
    PROVE  \E s \in secrets' : /\ s.name = n /\ s.cert = CertData(acked[n])
                               /\ EntryOf(s) \in ToSet(tls')
<1>1. PICK s \in secrets : /\ s.name = n /\ s.cert = CertData(acked[n])
                           /\ EntryOf(s) \in ToSet(tls)
  BY DEF Bound
<1>2. s \in secrets' /\ EntryOf(s).id = s.id
  BY <1>1 DEF Untouched, EntryOf
<1>3. EntryOf(s) \in ToSet(tls')
  BY <1>1, <1>2 DEF Untouched
<1> QED BY <1>1, <1>2, <1>3

\* An upload moves on.
LEMMA SecuredMoves ==
    ASSUME Api, World, Identity, NEW r \in Active, Step(r), Kinds(r), Secured(r), Uploads(r),
           api'[r].pc \notin {"done", "delete"}
    PROVE  Secured(r)'
<1> DEFINE n == api[r].in.name
<1>0. /\ r \in Requests /\ api'[r].in = api[r].in /\ api[r].in.op = "upload"
      /\ api[r].in \in Inp
  BY ApiTypes DEF Step, Uploads, Active
<1>1. \/ /\ api[r].pc \notin {"read", "delete"} /\ api'[r].pc # "read"
         /\ api'[r].copy = api[r].copy
      \/ api[r].pc = "read" /\ api'[r].copy = Prepared(Copy, api[r].in) /\ tls' = tls
  BY DEF Step
<1>2. \A e \in ToSet(tls) : e \in ToSet(tls') \/ (Holds(api[r]) /\ e.id = api[r].secret.id)
  BY EntriesStep
<1>3. tls' = tls
  <2>1. CASE tls' # tls
    <3>1. api[r].pc = "update"
      BY <2>1 DEF Step
    <3>2. CASE Keeps(r)
      BY <1>0, <3>1, <3>2, ApiTypes DEF Keeps, Holds, Step, Born
    <3> QED BY <3>1, <3>2 DEF Kinds, Creates, Writes, Deletes
  <2> QED BY <2>1
<1>4. api'[r].pc # "read" => \A e \in ToSet(api'[r].copy.tls) :
         e \in ToSet(tls) \/ \A s \in secrets : s.id = e.id => s.name # n
  <2>1. CASE api[r].pc = "read"
    <3>1. api'[r].copy.tls = tls
      <4>1. Copy \in Copies /\ Copy.tls = tls
        BY CopyType DEF Api
      <4> QED BY <1>0, <1>1, <2>1, <4>1, PreparedKeeps
    <3> QED BY <3>1
  <2>2. CASE api[r].pc # "read"
    BY <1>1, <2>2 DEF Secured
  <2> QED BY <2>1, <2>2
<1>5. api[r].pc \notin {"read", "delete"} => \A e \in ToSet(api[r].copy.tls) : e.id \in Born \cup Names
  BY DEF Identity
<1>6. CASE Keeps(r)
  <2>1. secrets' = secrets
    BY <1>6 DEF Keeps
  <2>2. api'[r].pc = "write" => api'[r].secret \in secrets
    BY <1>0, <1>6 DEF Keeps, Holds
  <2>3. api'[r].pc = "update" =>
          api'[r].secret \in secrets /\ api'[r].secret.cert = CertData(api[r].in)
    BY <1>0, <1>6 DEF Keeps, Holds, Secured
  <2> QED BY <1>0, <1>3, <1>4, <2>1, <2>2, <2>3 DEF Secured, CertData
<1>7. CASE Creates(r)
  <2>1. \A e \in ToSet(api'[r].copy.tls) : e.id # r
    <3>1. r \notin Born /\ r \notin Names
      BY <1>0, <1>7, NumbersNotNames DEF Creates, Born
    <3> QED BY <1>1, <1>5, <1>7, <3>1 DEF Creates
  <2>2. /\ api'[r].pc = "update" /\ api'[r].secret \in secrets'
        /\ api'[r].secret.cert = CertData(api[r].in)
        /\ \A s \in secrets' : s \in secrets \/ s.id = r
    BY <1>7 DEF Creates
  <2> QED BY <1>0, <1>3, <1>4, <2>1, <2>2 DEF Secured, CertData
<1>8. CASE Writes(r)
  <2>1. /\ api'[r].pc = "update" /\ api'[r].secret \in secrets'
        /\ api'[r].secret.cert = CertData(api[r].in)
        /\ \A s \in secrets' : s \in secrets \/ s = Written(r)
        /\ api[r].secret \in secrets
        /\ Written(r).id = api[r].secret.id /\ Written(r).name = api[r].secret.name
    BY <1>8 DEF Writes
  <2> QED BY <1>0, <1>3, <1>4, <2>1 DEF Secured, CertData
<1>9. CASE Deletes(r)
  BY <1>9 DEF Deletes
<1> QED BY <1>6, <1>7, <1>8, <1>9 DEF Kinds

\* Uploads and removals of other names have another subject.
LEMMA OtherSubject ==
    ASSUME NEW in \in Inp, NEW other \in Inp, ~Touches(in, other), other.op = "upload"
    PROVE  in.op \in {"upload", "remove"} => in.name # other.name
<1>1. in.op \in {"upload", "remove"} => Subject(in) = in.name
  BY InputFacts DEF Inp, Subject, RequiredName
<1>2. Subject(other) = other.name
  BY InputFacts DEF Inp, Subject, RequiredName
<1> QED BY <1>1, <1>2 DEF Touches

\* Every step keeps Kept: of a request, ...
LEMMA KeptStep ==
    ASSUME Api, Api', World, Identity, Kept, NEW r \in Active, Step(r), Kinds(r)
    PROVE  Kept'
<1>0. /\ r \in Requests /\ \A q \in Requests \ {r} : api'[q] = api[q]
      /\ api[r].in \in Inp /\ requested' = requested /\ clean' \subseteq clean
  BY ApiTypes DEF Step, Moved, Active
<1>1. ASSUME NEW k \in clean', Uploads(k)'
      PROVE  Secured(k)'
  <2>1. k \in Active /\ k \in clean
    BY <1>0 DEF Api, History, Alone
  <2>2. CASE k # r
    <3>1. k \in Requests /\ api'[k] = api[k] /\ Uploads(k) /\ Secured(k) /\ api[k].in \in Inp
      BY <1>0, <1>1, <2>1, <2>2, ApiTypes DEF Uploads, Kept, AllSecured
    <3>2. ~Touches(api[r].in, api[k].in)
      BY <2>1, <2>2 DEF Api, History, Alone
    <3>3. api[r].in.op \in {"upload", "remove"} => api[r].in.name # api[k].in.name
      BY <1>0, <3>1, <3>2, OtherSubject DEF Uploads
    <3>4. Untouched(api[k].in.name)
      BY <3>3, UntouchedStep
    <3>5. api[k].pc \in {"write", "update"} => api[k].secret.name = api[k].in.name
      BY <3>1 DEF Identity, Holds, Uploads
    <3> QED BY <3>1, <3>4, <3>5, SecuredStays
  <2>3. CASE k = r
    <3>1. api'[r].pc # "done"
      BY <1>1, <2>3 DEF Step
    <3>2. api'[r].in = api[r].in
      BY <3>1 DEF Step
    <3>3. Uploads(r) /\ Secured(r)
      BY <1>0, <1>1, <2>1, <2>3, <3>2 DEF Uploads, Kept, AllSecured
    <3>4. CASE api'[r].pc # "delete"
      BY <2>3, <3>1, <3>3, <3>4, SecuredMoves
    <3>5. CASE api'[r].pc = "delete"
      <4>1. api'[r].in.op = "remove"
        BY <1>0, <3>5 DEF Api, CallTypes, InFlight
      <4> QED BY <1>1, <2>3, <4>1 DEF Uploads
    <3> QED BY <3>4, <3>5
  <2> QED BY <2>2, <2>3
<1>2. ASSUME NEW n \in CertNames \ requested, acked'[n] # None, acked'[n].op = "upload"
      PROVE  \E s \in secrets' : /\ s.name = n /\ s.cert = CertData(acked'[n])
                                 /\ EntryOf(s) \in ToSet(tls')
  <2>0. n \in Names
    BY DEF Names
  <2>1. CASE acked'[n] = acked[n]
    <3>1. acked[n] \in Inp /\ Subject(acked[n]) = n /\ ~Touches(api[r].in, acked[n])
      BY <1>2, <2>0, <2>1 DEF Api, History, Acknowledged, Acks
    <3>2. acked[n].name = n
      BY <1>2, <2>1, <3>1, InputFacts DEF Inp, Subject, RequiredName
    <3>3. Untouched(n)
      BY <1>0, <1>2, <2>1, <3>1, <3>2, OtherSubject, UntouchedStep
    <3> QED BY <1>2, <2>1, <3>3, BoundStays DEF Kept
  <2>2. CASE acked'[n] # acked[n]
    <3> DEFINE in == api[r].in
               s == api[r].secret
    <3>1. /\ api[r].pc = "update" /\ secrets' = secrets /\ r \in clean
          /\ acked' = [acked EXCEPT ![Subject(in)] = in]
          /\ tls' = Entries(api[r]) \/ (tls' = tls /\ Entries(api[r]) = api[r].copy.tls)
      BY <2>2 DEF Step
    <3>2. n = Subject(in) /\ acked'[n] = in
      BY <2>0, <2>2, <3>1 DEF Api, History, Acknowledged
    <3>3. in.op = "upload" /\ n = in.name
      BY <1>0, <1>2, <3>2, InputFacts DEF Inp, Subject, RequiredName
    <3>4. Uploads(r) /\ Secured(r) /\ s \in secrets /\ s.cert = CertData(in) /\ s.name = n
      BY <1>0, <1>2, <3>1, <3>3 DEF Uploads, Kept, AllSecured, Secured, Identity, Holds
    <3>5. Entries(api[r]) = WithCertificate(api[r].copy.tls, s)
      BY <3>3 DEF Entries
    <3>6. EntryOf(s) \in ToSet(Entries(api[r]))
      <4>1. s \in Secret /\ api[r].copy.tls \in Seq(Entry)
        BY <3>4, ApiTypes DEF World, Store, Copies
      <4>2. EntryOf(s) \in ToSet(WithCertificate(api[r].copy.tls, s))
        BY <4>1, WithEdit
      <4> QED BY <3>5, <4>2
    <3>7. EntryOf(s) \in ToSet(tls')
      <4>1. CASE tls' = Entries(api[r])
        BY <3>6, <4>1
      <4>2. CASE tls' = tls /\ Entries(api[r]) = api[r].copy.tls
        <5>1. EntryOf(s) \in ToSet(api[r].copy.tls) /\ EntryOf(s).id = s.id
          BY <3>6, <4>2 DEF EntryOf
        <5>2. EntryOf(s) \in ToSet(tls)
          BY <3>1, <3>3, <3>4, <5>1 DEF Secured
        <5> QED BY <4>2, <5>2
      <4> QED BY <3>1, <4>1, <4>2
    <3> QED BY <3>1, <3>2, <3>4, <3>7
  <2> QED BY <2>1, <2>2
<1>3. Bound'
  BY <1>0, <1>2 DEF Bound, EntryOf, CertData
<1> QED BY <1>1, <1>3 DEF Kept, AllSecured

\* ... of the operator and cert-manager, ...
LEMMA KeptRests ==
    ASSUME Api, Identity, Kept, Operates
    PROVE  Kept'
<1>1. UNCHANGED <<api, clean, requested, acked>>
  BY DEF Operates, history
<1>2. ASSUME NEW k \in clean, Uploads(k)
      PROVE  Secured(k)'
  <2>1. k \in Requests /\ Secured(k) /\ Untouched(api[k].in.name)
    BY <1>2, UntouchedRests DEF Api, History, Alone, Active, Kept, AllSecured, Uploads
  <2>2. api[k].pc \in {"write", "update"} => api[k].secret.name = api[k].in.name
    BY <1>2, <2>1 DEF Identity, Holds, Uploads
  <2> QED BY <1>1, <2>1, <2>2, SecuredStays
<1>3. AllSecured'
  BY <1>1, <1>2 DEF AllSecured, Uploads
<1>4. ASSUME NEW n \in CertNames \ requested, acked[n] # None, acked[n].op = "upload"
      PROVE  \E s \in secrets' : /\ s.name = n /\ s.cert = CertData(acked[n])
                                 /\ EntryOf(s) \in ToSet(tls')
  BY <1>4, UntouchedRests, BoundStays DEF Kept
<1>5. Bound'
  BY <1>1, <1>4 DEF Bound, EntryOf, CertData
<1> QED BY <1>3, <1>5 DEF Kept

\* ... and the start of a request.
LEMMA KeptBegins ==
    ASSUME Api, Kept, NEW r \in Requests, NEW in \in Inputs[r], Begin(r, in)
    PROVE  Kept'
<1>1. /\ Active' = Active \cup {r} /\ api'[r].in = in /\ api'[r].pc = "read"
      /\ \A q \in Active : api'[q] = api[q]
  BY NewlyActive, BeginEffect DEF Api
<1>2. UNCHANGED <<tls, secrets>> /\ requested \subseteq requested'
  BY DEF Begin, spec
<1>3. \A k \in clean' : k = r \/ k \in clean
  BY BeginEffect DEF Api
<1>4. ASSUME NEW k \in clean', Uploads(k)'
      PROVE  Secured(k)'
  <2>1. CASE k = r
    BY <1>1, <2>1 DEF Secured
  <2>2. CASE k # r
    <3>1. k \in clean /\ api'[k] = api[k]
      BY <1>1, <1>3, <2>2 DEF Api, History, Alone
    <3>2. Secured(k)
      BY <1>2, <1>4, <3>1 DEF Uploads, Kept, AllSecured
    <3> QED BY <1>2, <3>1, <3>2 DEF Secured, CertData
  <2> QED BY <2>1, <2>2
<1>5. \A n \in Names : acked'[n] # None => acked'[n] = acked[n]
  BY DEF Begin, Api, History, Acknowledged
<1>6. Bound'
  BY <1>2, <1>5 DEF Kept, Bound, EntryOf, CertData, Names
<1> QED BY <1>4, <1>6 DEF Kept, AllSecured

----------------------------------------------------------------------------
(* The theorems. *)

\* The inductive invariant.
CertificatesInv == Api /\ World /\ AskedFor /\ Identity /\ Kept

LEMMA InitiallyKept == Init => CertificatesInv
<1> SUFFICES ASSUME Init PROVE CertificatesInv
  OBVIOUS
<1>1. \A r \in Requests : api[r] = IdleCall /\ api[r].pc = "idle" /\ api[r].wrote = FALSE
  BY DEF Init, IdleCall
<1>2. Active = {} /\ Born = {} /\ \A r \in Requests : ~Holds(api[r])
  BY <1>1 DEF Active, Born, Holds
<1>3. /\ tls = <<>> /\ requests = <<>> /\ secrets = {} /\ certs = {} /\ clean = {}
      /\ ToSet(tls) = {} /\ ToSet(requests) = {}
  BY DEF Init, ToSet
<1>4. legacy \in LegacyReq \cup {None}
  BY CertificatesAssumption DEF Init, LegacyReq
<1>5. CallTypes
  BY <1>1, IdleType DEF CallTypes, InFlight, Init
<1>6. SpecTypes
  BY <1>3, <1>4 DEF SpecTypes
<1>7. Acknowledged /\ \A n \in Names : acked[n] = None
  BY DEF Init, Acknowledged, Names
<1>8. Api
  BY <1>2, <1>3, <1>5, <1>6, <1>7 DEF Api, Fresh, Standing, Distinct, History, Alone, Acks
<1>9. op \in OpType /\ op.old = {} /\ op.todo = {} /\ op.pc = "idle"
  <2>1. "idle" \in OpPcs
    BY DEF OpPcs
  <2> QED BY <2>1, IdleType DEF Init, IdleOp, OpType
<1>10. World
  BY <1>3, <1>9, FS_EmptySet DEF World, Store
<1>11. AskedFor
  <2>1. \A e \in EntriesOf(requests, legacy) : RequiredName(e) \in requested
    BY <1>3 DEF Init, EntriesOf
  <2>2. "idle" \notin Names
    BY CertificatesAssumption DEF Names
  <2> QED BY <1>2, <1>3, <1>9, <2>1, <2>2 DEF AskedFor, NamesOf
<1>12. Identity
  <2>1. Objects = {}
    BY <1>2, <1>3 DEF Objects
  <2> QED BY <1>2, <1>3, <2>1 DEF Identity, Sound
<1>13. Kept
  BY <1>3, <1>7 DEF Kept, AllSecured, Bound, Names
<1> QED BY <1>8, <1>10, <1>11, <1>12, <1>13 DEF CertificatesInv

LEMMA AlwaysKept == CertificatesInv /\ [Next]_vars => CertificatesInv'
<1> SUFFICES ASSUME CertificatesInv, [Next]_vars PROVE CertificatesInv'
  OBVIOUS
<1> USE DEF CertificatesInv
<1>1. ASSUME NEW r \in Requests, ApiStep(r), ~\E in \in Inputs[r] : Begin(r, in)
      PROVE  CertificatesInv'
  <2>1. r \in Active /\ Step(r) /\ Kinds(r)
    BY <1>1, StepKinds DEF Step, Kinds
  <2>2. Edits(r) \/ Sits(r) \/ Reads(r)
    BY <1>1, RequestSteps DEF Api, World
  <2>3. Api'
    BY <2>1, <2>2, EditsKeep, SitsKeep
  <2>4. World' /\ AskedFor'
    BY <2>1, <2>2, StoreKept, AskedKept
  <2>5. Identity' /\ Kept'
    BY <2>1, <2>3, IdentityStep, KeptStep
  <2> QED BY <2>3, <2>4, <2>5
<1>2. ASSUME NEW r \in Requests, NEW in \in Inputs[r], Begin(r, in)
      PROVE  CertificatesInv'
  BY <1>2, BeginKeeps, AskedBegins, IdentityBegins, KeptBegins
<1>3. ASSUME Operates
      PROVE  CertificatesInv'
  <2>1. Api'
    BY <1>3, RestKeeps DEF Operates
  <2>2. World' /\ AskedFor'
    BY <1>3 DEF Operates
  <2>3. Identity'
    BY <1>3, <2>2, IdentityRests DEF Operates, OwnSecrets, spec, history
  <2> QED BY <1>3, <2>1, <2>2, <2>3, KeptRests
<1>4. CASE Reconcile \/ ReconcileFails \/ CertManager
  BY <1>3, <1>4, OtherSteps DEF Api
<1>5. CASE OtherEdit
  <2>1. UNCHANGED <<spec, secrets, certs, nginx, api, op, history>> /\ stale' = Active
    BY <1>5 DEF OtherEdit
  <2>2. Api'
    BY <2>1, RestKeeps
  <2>3. UNCHANGED <<tls, requests, legacy, requested, clean, acked, Active>>
    BY <2>1 DEF spec, history, Active
  <2>4. World'
    BY <2>1 DEF World, Store
  <2>5. AskedFor'
    BY <2>1, <2>3 DEF AskedFor, NamesOf, EntriesOf, RequiredName, Subject, issuerOrDefault
  <2>6. Identity'
    BY <2>1, <2>3, <2>4, IdentityRests
  <2>7. Kept'
    <3>1. \A r \in clean : /\ Uploads(r)' <=> Uploads(r)
                           /\ Secured(r)' <=> Secured(r)
      BY <2>1, <2>3 DEF Uploads, Secured, CertData
    <3>2. AllSecured'
      BY <2>3, <3>1 DEF Kept, AllSecured
    <3>3. Bound'
      BY <2>1, <2>3 DEF Kept, Bound, EntryOf, CertData
    <3> QED BY <3>2, <3>3 DEF Kept
  <2> QED BY <2>2, <2>4, <2>5, <2>6, <2>7
<1>6. CASE UNCHANGED vars
  <2>1. UNCHANGED <<spec, api, stale, history, secrets, certs, op>>
    BY <1>6 DEF vars
  <2>2. World' /\ OwnSecrets
    BY <2>1 DEF World, Store, OwnSecrets
  <2>3. UNCHANGED <<requests, legacy, requested, Active>>
    BY <2>1 DEF spec, history, Active
  <2>4. AskedFor'
    BY <2>1, <2>3 DEF AskedFor, NamesOf, EntriesOf, RequiredName, Subject, issuerOrDefault
  <2> QED BY <1>3, <2>1, <2>2, <2>4 DEF Operates
<1> HIDE DEF CertificatesInv
<1> QED BY <1>1, <1>2, <1>4, <1>5, <1>6 DEF Next

\* The parts of the invariant need each other: an upload that nothing overlaps
\* keeps its Secret because Secrets are who they seem to be (Identity), other
\* requests hold none of its name (Api), and the operator takes away only what
\* was asked of cert-manager (AskedFor).
THEOREM CertificatesInvariant == Spec => []CertificatesInv
BY InitiallyKept, AlwaysKept, PTL DEF Spec

\* A certificate that the API acknowledged, and that no other request about its
\* name has met since, has its Secret with the data that was uploaded, and the
\* entry of Spec.TLS that names this Secret and these hosts: whatever other
\* requests do to the same lists (patchInstance writes them whole), and
\* wherever the operator stands.
THEOREM AckedCertificateKeptAlways == Spec => []AckedCertificateKept
<1>1. CertificatesInv => AckedCertificateKept
  <2> SUFFICES ASSUME CertificatesInv, NEW n \in CertNames \ requested,
                      acked[n] # None, acked[n].op = "upload"
               PROVE  \E t \in ToSet(tls), s \in secrets :
                         /\ t.id = s.id /\ s.name = n
                         /\ s.cert = CertData(acked[n]) /\ t.hosts = s.cert.hosts
    BY DEF AckedCertificateKept
  <2>1. PICK s \in secrets : /\ s.name = n /\ s.cert = CertData(acked[n])
                             /\ EntryOf(s) \in ToSet(tls)
    BY DEF CertificatesInv, Kept, Bound
  <2>2. EntryOf(s).id = s.id /\ EntryOf(s).hosts = s.cert.hosts
    BY DEF EntryOf
  <2> QED BY <2>1, <2>2
<1> QED BY <1>1, CertificatesInvariant, PTL

\* A request to cert-manager that the API acknowledged, and that no other
\* request about its name has met since, is still among the Certificates that
\* the operator is to make, with its hosts.
THEOREM AckedRequestKeptAlways == Spec => []AckedRequestKept
<1>1. CertificatesInv => AckedRequestKept
  <2> SUFFICES ASSUME CertificatesInv, NEW n \in Names, acked[n] # None,
                      acked[n].op = "request"
               PROVE  \E q \in CertManagerRequests(requests, legacy) :
                         /\ q.name = n /\ acked[n].hosts \subseteq q.hosts
                         /\ acked[n].name # None => q.hosts = acked[n].hosts
    BY DEF AckedRequestKept, Names
  <2> DEFINE E == EntriesOf(requests, legacy)
             a == acked[n]
             e == RequestOf(a)
             H == UNION {q.hosts : q \in {x \in E : RequiredName(x) = n}}
  <2>0. Api /\ SpecTypes /\ Distinct(requests)
    BY DEF CertificatesInv, Api, Standing
  <2>1. a \in Inp /\ Subject(a) = n /\ e \in ToSet(requests)
    BY <2>0 DEF Api, History, Acknowledged, Acks, Standing
  <2>2. e.name = a.name /\ e.issuer = issuerOrDefault(a.issuer) /\ e.hosts = a.hosts
    BY <2>1, InputFacts
  <2>3. e \in E /\ RequiredName(e) = n
    BY <2>1, <2>2 DEF EntriesOf, Subject, RequiredName
  <2>4. \A x \in E : /\ x.name \in CertNames \cup {None} /\ x.issuer \in Issuers
                     /\ x \in ToSet(requests) \/ x.name = None
    <3>1. legacy # None => legacy.name = None
      BY <2>0 DEF SpecTypes, LegacyReq
    <3> QED BY <2>0, <3>1, EntryTypes DEF EntriesOf
  <2>5. a.hosts \subseteq H
    BY <2>2, <2>3
  <2>6. ASSUME a.name # None, NEW x \in E, RequiredName(x) = n
        PROVE  x = e
    <3>1. n = e.name /\ n \in CertNames /\ n \notin Issuers /\ n # None
      BY <2>1, <2>2, <2>6, InputFacts, CertificatesAssumption DEF Subject, RequiredName
    <3>2. x.name = n /\ x \in ToSet(requests)
      BY <2>4, <2>6, <3>1 DEF RequiredName
    <3> QED BY <2>0, <2>1, <3>1, <3>2 DEF ToSet, Distinct
  <2>7. a.name # None => H = a.hosts
    BY <2>2, <2>3, <2>6
  <2>8. [name |-> n, hosts |-> H] \in CertManagerRequests(requests, legacy)
    BY <2>3 DEF CertManagerRequests
  <2> HIDE DEF H
  <2> QED BY <2>5, <2>7, <2>8
<1> QED BY <1>1, CertificatesInvariant, PTL

----------------------------------------------------------------------------
(* When all is quiet. *)

\* An object has one Secret, and a name one Certificate.
Single(objects) == \A s, t \in objects : s.id = t.id => s = t
OneEach(cs) == \A c, d \in cs : c.name = d.name => c = d

Wants == CertManagerRequests(requests, legacy)
AsWanted == {[name |-> c.name, hosts |-> c.hosts] : c \in certs} = Wants

\* newNginxTLS, of any Secrets.
NginxOf(entries, ready, objects) ==
    LET NameOf(id) == NamesOf({s \in objects : s.id = id})
        last == {k \in DOMAIN entries :
                   /\ NameOf(entries[k].id) # {}
                   /\ NameOf(entries[k].id) \cap NamesOf(ready) = {}
                   /\ \A j \in k + 1 .. Len(entries) :
                         NameOf(entries[j].id) # NameOf(entries[k].id)}
        ids == {entries[k].id : k \in last} \cup NamesOf(ready) IN
    {s \in objects : s.id \in ids}

\* Of a name that no Certificate has, Nginx is given the Secret of the last entry.
LastOf(n, entries, objects) ==
    {s \in objects :
        /\ s.name = n
        /\ \E k \in DOMAIN entries :
              /\ entries[k].id = s.id
              /\ \A j \in k + 1 .. Len(entries), t \in objects :
                    t.id = entries[j].id => t.name # n}

\* A pass that was not told of a change works on the spec as it is and on the
\* Certificates as they are: it has nothing to remove that it will remove, and
\* each request is still to do or has a Certificate that is ready.
Pass ==
    op.pc # "idle" /\ ~pending =>
        /\ op.pc = "certificates" /\ op.copy = Copy
        /\ op.old = NamesOf(certs) \ NamesOf(Wants)
        /\ op.todo \subseteq Wants
        /\ \A q \in Wants : \/ q \in op.todo
                            \/ \E c \in op.ready : c.name = q.name /\ c.hosts = q.hosts
        /\ op.ready \subseteq certs

\* After a pass there is a Certificate for each request, and Nginx has what is
\* there: of a name that cert-manager was never asked for, the Secret of the last
\* entry; of one with a Certificate, its Secret as cert-manager has written it.
BoundGiven ==
    \A n \in CertNames \ requested : {s \in nginx : s.name = n} = LastOf(n, tls, secrets)
IssuedGiven ==
    \A c \in certs, s \in secrets : s.id = c.name /\ s.by = None =>
        {t \in nginx : t.name = c.name} = {s}
Rest == op.pc = "idle" /\ ~pending => AsWanted /\ BoundGiven /\ IssuedGiven

QuietInv == Single(secrets) /\ OneEach(certs) /\ Pass /\ Rest

LEMMA GivenByEntry ==
    ASSUME NEW entries, NEW ready, NEW objects, NEW n, Single(objects),
           n \notin NamesOf(ready),
           \A s \in objects : s.name = n => s.id \notin NamesOf(ready)
    PROVE  {s \in NginxOf(entries, ready, objects) : s.name = n} = LastOf(n, entries, objects)
<1> DEFINE NameOf(id) == NamesOf({s \in objects : s.id = id})
           IsLast(k) == \A j \in k + 1 .. Len(entries) :
                         NameOf(entries[j].id) # NameOf(entries[k].id)
           last == {k \in DOMAIN entries :
                      /\ NameOf(entries[k].id) # {}
                      /\ NameOf(entries[k].id) \cap NamesOf(ready) = {}
                      /\ IsLast(k)}
           ids == {entries[k].id : k \in last} \cup NamesOf(ready)
<1>1. NginxOf(entries, ready, objects) = {s \in objects : s.id \in ids}
  BY DEF NginxOf
<1>2. ASSUME NEW s \in objects
      PROVE  NameOf(s.id) = {s.name}
  <2>1. {t \in objects : t.id = s.id} = {s}
    BY DEF Single
  <2> QED BY <2>1 DEF NamesOf
<1>3. ASSUME NEW id
      PROVE  NameOf(id) = {n} <=> \E t \in objects : t.id = id /\ t.name = n
  <2>1. NameOf(id) = {n} => \E t \in objects : t.id = id /\ t.name = n
    <3>1. NameOf(id) = {n} => n \in NameOf(id)
      OBVIOUS
    <3>2. n \in NameOf(id) => \E t \in {s \in objects : s.id = id} : n = t.name
      BY DEF NamesOf
    <3> QED BY <3>1, <3>2
  <2>2. ASSUME NEW t \in objects, t.id = id, t.name = n PROVE NameOf(id) = {n}
    BY <1>2, <2>2
  <2> QED BY <2>1, <2>2
<1>4. ASSUME NEW s \in objects, s.name = n, NEW k \in DOMAIN entries, entries[k].id = s.id
      PROVE  k \in last <=> \A j \in k + 1 .. Len(entries), t \in objects :
                               t.id = entries[j].id => t.name # n
  <2>1. NameOf(entries[k].id) = {n}
    BY <1>2, <1>4
  <2> HIDE DEF NameOf
  <2>2. \A j \in k + 1 .. Len(entries) :
           NameOf(entries[j].id) # {n} <=> \A t \in objects : t.id = entries[j].id => t.name # n
    BY <1>3
  <2>3. NameOf(entries[k].id) # {} /\ NameOf(entries[k].id) \cap NamesOf(ready) = {}
    BY <2>1
  <2>4. IsLast(k) <=> \A j \in k + 1 .. Len(entries), t \in objects :
                               t.id = entries[j].id => t.name # n
    BY <2>1, <2>2
  <2> QED BY <2>3, <2>4
<1>5. ASSUME NEW s \in objects, s.name = n
      PROVE  s.id \in ids <=> \E k \in last : entries[k].id = s.id
  <2> HIDE DEF last
  <2> QED BY <1>5
<1>6. \A k \in last : k \in DOMAIN entries
  OBVIOUS
<1> HIDE DEF ids, last
<1>7. ASSUME NEW s \in objects, s.name = n
      PROVE  s.id \in ids <=>
                \E k \in DOMAIN entries :
                   /\ entries[k].id = s.id
                   /\ \A j \in k + 1 .. Len(entries), t \in objects :
                         t.id = entries[j].id => t.name # n
  <2>1. ASSUME NEW k \in last, entries[k].id = s.id
        PROVE  k \in DOMAIN entries /\ \A j \in k + 1 .. Len(entries), t \in objects :
                         t.id = entries[j].id => t.name # n
    BY <1>4, <1>6, <1>7, <2>1
  <2>2. ASSUME NEW k \in DOMAIN entries, entries[k].id = s.id,
               \A j \in k + 1 .. Len(entries), t \in objects :
                         t.id = entries[j].id => t.name # n
        PROVE  k \in last
    BY <1>4, <1>7, <2>2
  <2> QED BY <1>5, <1>7, <2>1, <2>2
<1> QED BY <1>1, <1>7 DEF LastOf

\* Of a name that has one, the Secret that cert-manager made for it.
LEMMA GivenByName ==
    ASSUME NEW entries, NEW ready, NEW objects, NEW n, Single(objects), n \in NamesOf(ready),
           \A s \in objects : s.id \in NamesOf(ready) => s.id = s.name
    PROVE  {s \in NginxOf(entries, ready, objects) : s.name = n} = {s \in objects : s.id = n}
<1> DEFINE NameOf(id) == NamesOf({s \in objects : s.id = id})
           last == {k \in DOMAIN entries :
                      /\ NameOf(entries[k].id) # {}
                      /\ NameOf(entries[k].id) \cap NamesOf(ready) = {}
                      /\ \A j \in k + 1 .. Len(entries) :
                            NameOf(entries[j].id) # NameOf(entries[k].id)}
           ids == {entries[k].id : k \in last} \cup NamesOf(ready)
<1>1. NginxOf(entries, ready, objects) = {s \in objects : s.id \in ids}
  BY DEF NginxOf
<1>2. ASSUME NEW s \in objects, s.name = n, NEW k \in last, entries[k].id = s.id
      PROVE  FALSE
  <2>1. s.name \in NameOf(entries[k].id)
    BY <1>2 DEF NamesOf
  <2>2. NameOf(entries[k].id) \cap NamesOf(ready) = {}
    BY <1>2
  <2> QED BY <1>2, <2>1, <2>2
<1> HIDE DEF last
<1>3. ASSUME NEW s \in objects, s.name = n, s.id \in ids PROVE s.id = n
  BY <1>2, <1>3
<1>4. ASSUME NEW s \in objects, s.id = n PROVE s.name = n /\ s.id \in ids
  BY <1>4
<1> QED BY <1>1, <1>3, <1>4

\* The Secrets of a name that cert-manager was never asked for have numbers.
LEMMA Numbered ==
    ASSUME Identity, NEW n, n \notin requested, NEW s \in secrets, s.name = n
    PROVE  s.id \in Requests
BY DEF Identity, Sound, Objects, Born

\* The Secrets with the name of a Certificate are cert-manager's.
LEMMA Named ==
    ASSUME Identity, World, NEW s \in secrets, s.id \in NamesOf(certs)
    PROVE  s.id = s.name
<1>1. s.id \in Names
  BY DEF World, NamesOf, Cert
<1> QED BY <1>1, NumbersNotNames DEF Identity, Sound, Objects, Born

\* What Nginx is given at the end of a pass.
LEMMA Given ==
    ASSUME World, AskedFor, Identity, Single(secrets)
    PROVE  /\ \A n \in CertNames \ requested :
                 {s \in newNginxTLS(tls, certs) : s.name = n} = LastOf(n, tls, secrets)
           /\ \A c \in certs, s \in secrets : s.id = c.name =>
                 {t \in newNginxTLS(tls, certs) : t.name = c.name} = {s}
<1>1. newNginxTLS(tls, certs) = NginxOf(tls, certs, secrets)
  BY DEF newNginxTLS, NginxOf
<1>2. ASSUME NEW n \in CertNames \ requested
      PROVE  {s \in NginxOf(tls, certs, secrets) : s.name = n} = LastOf(n, tls, secrets)
  <2>1. n \notin NamesOf(certs) /\ NamesOf(certs) \subseteq Names
    BY DEF AskedFor, World, NamesOf, Cert
  <2>2. \A s \in secrets : s.name = n => s.id \notin NamesOf(certs)
    BY <2>1, Numbered, NumbersNotNames
  <2> QED BY <2>1, <2>2, GivenByEntry
<1>3. ASSUME NEW c \in certs, NEW s \in secrets, s.id = c.name
      PROVE  {t \in NginxOf(tls, certs, secrets) : t.name = c.name} = {s}
  <2>1. c.name \in NamesOf(certs)
    BY DEF NamesOf
  <2>2. {t \in NginxOf(tls, certs, secrets) : t.name = c.name} = {t \in secrets : t.id = c.name}
    BY <2>1, Named, GivenByName
  <2> QED BY <1>3, <2>2 DEF Single
<1> QED BY <1>1, <1>2, <1>3

\* The Secrets of other names do not matter.
LEMMA LastOfName ==
    ASSUME NEW n, NEW entries, NEW O, NEW P,
           \A s \in O \cup P : s.name = n => s \in O /\ s \in P
    PROVE  LastOf(n, entries, O) = LastOf(n, entries, P)
<1>1. \A k : (\A t \in O : t.id = k => t.name # n) <=> (\A t \in P : t.id = k => t.name # n)
  OBVIOUS
<1> QED BY <1>1 DEF LastOf
\* A step of a request leaves the Certificates and what the reconciler does; it
\* tells it of what it changes in the spec and in the Secrets of the instance.
Tells ==
    /\ UNCHANGED <<certs, op, nginx>> /\ requested \subseteq requested'
    /\ \A s \in secrets' : s.by = None => s \in secrets
    /\ \/ pending'
       \/ /\ ~pending /\ UNCHANGED spec
          /\ \A s \in secrets \cup secrets' : s.id \in Requests => s \in secrets /\ s \in secrets'

LEMMA RequestTells ==
    ASSUME Api, World, NEW r \in Requests, ApiStep(r)
    PROVE  Tells
<1>1. CASE \E in \in Inputs[r] : Begin(r, in)
  BY <1>1 DEF Begin, Tells
<1>2. CASE ~\E in \in Inputs[r] : Begin(r, in)
  <2>1. r \in Active /\ UNCHANGED <<certs, op, requested>> /\ Kinds(r)
    BY <1>2, StepKinds DEF Step, Kinds
  <2>2. r # None
    BY CertificatesAssumption DEF Requests
  <2>3. \A s \in secrets' : s.by = None => s \in secrets
    <3>1. Creates(r) => Made(r).by = r
      BY DEF Made
    <3>2. Writes(r) => Written(r).by = r
      <4>1. \A x \in Secret : \A d : [x EXCEPT !.cert = d, !.by = r].by = r
        BY DEF Secret
      <4> QED BY <4>1 DEF Writes, Written, World, Store
    <3> QED BY <2>1, <2>2, <3>1, <3>2 DEF Kinds, Keeps, Creates, Writes, Deletes
  <2>4. /\ nginx' = nginx
        /\ \/ pending'
           \/ /\ ~pending /\ UNCHANGED spec
              /\ \A s \in secrets \cup secrets' : s.id \in Requests => s \in secrets /\ s \in secrets'
    <3>1. CASE \/ ReadInstance(r) \/ CheckHosts(r) \/ GetTLSSecretByCertificateName(r)
               \/ CallFails(r)
      <4>1. UNCHANGED <<spec, secrets, nginx, pending>>
        BY <3>1 DEF ReadInstance, CheckHosts, GetTLSSecretByCertificateName, CallFails
      <4> QED BY <4>1
    <3>2. CASE CreateSecret(r)
      BY <3>2 DEF CreateSecret
    <3>3. CASE UpdateSecret(r)
      <4>1. UNCHANGED <<spec, nginx>>
        BY <3>3 DEF UpdateSecret
      <4>2. \/ UNCHANGED <<secrets, pending>>
            \/ /\ secrets' = (secrets \ {api[r].secret}) \cup {Written(r)}
               /\ pending' = (pending \/ api[r].secret.id \in Requests)
        BY <3>3 DEF UpdateSecret, Written
      <4>3. Written(r).id = api[r].secret.id
        <5>1. api[r].secret \in Secret
          BY <3>3, WriteEffect DEF Api
        <5>2. \A x \in Secret : \A d : [x EXCEPT !.cert = d, !.by = r].id = x.id
          BY DEF Secret
        <5> QED BY <5>1, <5>2 DEF Written
      <4>4. CASE UNCHANGED <<secrets, pending>>
        BY <4>1, <4>4
      <4>5. CASE /\ secrets' = (secrets \ {api[r].secret}) \cup {Written(r)}
                 /\ pending' = (pending \/ api[r].secret.id \in Requests)
        <5>1. CASE pending \/ api[r].secret.id \in Requests
          BY <4>1, <4>5, <5>1
        <5>2. CASE ~pending /\ api[r].secret.id \notin Requests
          BY <4>1, <4>3, <4>5, <5>2
        <5> QED BY <5>1, <5>2
      <4> QED BY <4>2, <4>4, <4>5
    <3>4. CASE UpdateInstance(r)
      <4>1. /\ UNCHANGED <<secrets, nginx>>
            /\ pending' = TRUE \/ UNCHANGED <<spec, pending>>
        BY <3>4, Zenon DEF UpdateInstance, InstanceChanges
      <4> QED BY <4>1
    <3>5. CASE DeleteSecret(r)
      <4>1. /\ UNCHANGED <<spec, nginx>>
            /\ secrets' = secrets \ {s \in secrets : s.id = api[r].secret.id}
            /\ pending' = (pending \/ api[r].secret.id \in Requests)
        BY <3>5 DEF DeleteSecret
      <4> QED BY <4>1
    <3> QED BY <1>2, <3>1, <3>2, <3>3, <3>4, <3>5 DEF ApiStep
  <2> QED BY <2>1, <2>3, <2>4 DEF Tells
<1> QED BY <1>1, <1>2

\* A request makes no second Secret of an id.
LEMMA SingleStep ==
    ASSUME World, Identity, NEW r \in Active, Step(r), Kinds(r), Single(secrets)
    PROVE  Single(secrets')
<1>1. CASE Keeps(r)
  BY <1>1 DEF Keeps
<1>2. CASE Creates(r)
  <2>1. r \notin Born /\ r \in Requests
    BY <1>2 DEF Creates, Born, Active
  <2>2. \A s \in secrets : s.name \in Names
    BY SecretFacts DEF World, Store
  <2>3. \A s \in secrets : s.id # r
    BY <2>1, <2>2, NumbersNotNames DEF Identity, Sound, Objects
  <2> QED BY <1>2, <2>3 DEF Creates, Single
<1>3. CASE Writes(r)
  BY <1>3 DEF Writes, Single
<1>4. CASE Deletes(r)
  BY <1>4 DEF Deletes, Single
<1> QED BY <1>1, <1>2, <1>3, <1>4 DEF Kinds

LEMMA QuietTold ==
    ASSUME Identity, Identity', QuietInv, Single(secrets'), Tells
    PROVE  QuietInv'
<1>1. UNCHANGED <<certs, op, nginx>> /\ requested \subseteq requested'
  BY DEF Tells
<1>2. ASSUME ~pending'
      PROVE  /\ ~pending /\ UNCHANGED <<tls, requests, legacy, Copy, Wants>>
             /\ \A s \in secrets \cup secrets' :
                   s.id \in Requests => s \in secrets /\ s \in secrets'
  <2>1. ~pending /\ UNCHANGED <<tls, requests, legacy>>
    BY <1>2 DEF Tells, spec
  <2>2. Copy' = Copy /\ Wants' = Wants
    BY <2>1 DEF Copy, Wants, CertManagerRequests, EntriesOf, RequiredName
  <2> QED BY <1>2, <2>1, <2>2 DEF Tells
<1>3. Pass'
  BY <1>1, <1>2 DEF QuietInv, Pass, NamesOf
<1>4. ASSUME op'.pc = "idle", ~pending'
      PROVE  AsWanted' /\ BoundGiven' /\ IssuedGiven'
  <2>1. AsWanted /\ BoundGiven /\ IssuedGiven
    BY <1>1, <1>2, <1>4 DEF QuietInv, Rest
  <2>2. ASSUME NEW n \in CertNames \ requested'
        PROVE  {s \in nginx' : s.name = n} = LastOf(n, tls', secrets')
    <3>1. n \in CertNames \ requested
      BY <1>1
    <3>2. \A s \in secrets \cup secrets' : s.name = n => s \in secrets /\ s \in secrets'
      <4>1. \A s \in secrets' : s.name = n => s.id \in Requests
        BY DEF Identity, Sound, Objects, Born
      <4>2. \A s \in secrets : s.name = n => s.id \in Requests
        BY <3>1, Numbered
      <4> QED BY <1>2, <1>4, <4>1, <4>2
    <3>3. LastOf(n, tls, secrets) = LastOf(n, tls, secrets')
      BY <3>2, LastOfName
    <3> QED BY <1>1, <1>2, <1>4, <2>1, <3>1, <3>3 DEF BoundGiven
  <2>3. BoundGiven'
    BY <2>2 DEF BoundGiven
  <2>4. IssuedGiven'
    BY <1>1, <2>1 DEF IssuedGiven, Tells
  <2>5. AsWanted'
    BY <1>1, <1>2, <1>4, <2>1 DEF AsWanted
  <2> QED BY <2>3, <2>4, <2>5
<1>5. Single(secrets)' /\ OneEach(certs)'
  BY <1>1 DEF QuietInv, Single, OneEach
<1> QED BY <1>3, <1>4, <1>5 DEF QuietInv, Rest

\* While it is told of something, nothing is claimed of the reconciler.
LEMMA QuietPending ==
    ASSUME pending', Single(secrets'), OneEach(certs')
    PROVE  QuietInv'
BY DEF QuietInv, Pass, Rest, Single, OneEach

\* The steps of the reconciler, one lemma for each.
LEMMA QuietStart ==
    ASSUME QuietInv, StartReconcile
    PROVE  QuietInv'
<1> DEFINE d == [IdleOp EXCEPT !.pc = "certificates", !.copy = Copy, !.todo = Wants,
                               !.old = NamesOf(certs) \ NamesOf(Wants)]
<1>1. UNCHANGED <<spec, secrets, certs, nginx, api, stale, failures, history>> /\ op' = d
  BY DEF StartReconcile, Wants
<1>2. /\ d.pc = "certificates" /\ d.copy = Copy /\ d.todo = Wants
      /\ d.old = NamesOf(certs) \ NamesOf(Wants) /\ d.ready = {}
  BY DEF IdleOp
<1> HIDE DEF d
<1>3. UNCHANGED <<Copy, Wants>>
  BY <1>1 DEF spec, Copy, Wants, CertManagerRequests, EntriesOf, RequiredName
<1>4. Pass'
  BY <1>1, <1>2, <1>3 DEF Pass, NamesOf
<1>5. Rest'
  BY <1>1, <1>2 DEF Rest
<1> QED BY <1>1, <1>4, <1>5 DEF QuietInv, Single, OneEach

LEMMA QuietRemoveCertificate ==
    ASSUME QuietInv, RemoveOldCertificate
    PROVE  QuietInv'
<1>1. /\ pending' /\ secrets' = secrets
      /\ \E n \in op.old : certs' = {c \in certs : c.name # n}
  BY DEF RemoveOldCertificate
<1>2. Single(secrets') /\ OneEach(certs')
  BY <1>1 DEF QuietInv, Single, OneEach
<1> QED BY <1>1, <1>2, QuietPending

LEMMA QuietRemoveSecret ==
    ASSUME QuietInv, RemoveOldSecret
    PROVE  QuietInv'
<1>1. /\ op.pc \in Names /\ secrets' \subseteq secrets
      /\ UNCHANGED <<certs, pending>>
  BY DEF RemoveOldSecret, Names
<1>2. op.pc \notin {"idle", "certificates"}
  BY <1>1, CertificatesAssumption DEF Names
<1>3. pending'
  BY <1>1, <1>2 DEF QuietInv, Pass
<1>4. Single(secrets') /\ OneEach(certs')
  BY <1>1 DEF QuietInv, Single, OneEach
<1> QED BY <1>3, <1>4, QuietPending

\* What is taken over is the only one of its id.
LEMMA SingleTakenOver ==
    ASSUME Store, NEW n, TakeOverPreviousSecret(n), Single(secrets)
    PROVE  Single(secrets')
<1> DEFINE previous == SecretsOf(n)
           Own(p) == [p EXCEPT !.id = n]
<1>1. /\ \A s \in secrets : s.id # n
      /\ secrets' = secrets \cup {Own(p) : p \in previous} /\ Cardinality(previous) <= 1
  BY DEF TakeOverPreviousSecret
<1>2. IsFiniteSet(previous) /\ \A p \in previous : p \in Secret
  BY FS_Subset DEF SecretsOf, Store
<1>3. \A p \in previous : Own(p).id = n
  BY <1>2 DEF Secret
<1> HIDE DEF previous, Own
<1>4. previous = {} \/ \E p : previous = {p}
  <2>1. Cardinality(previous) \in Nat
    BY <1>2, FS_CardinalityType
  <2>2. Cardinality(previous) = 0 \/ Cardinality(previous) = 1
    BY <1>1, <2>1
  <2> QED BY <1>2, <2>2, FS_EmptySet, FS_Singleton
<1> QED BY <1>1, <1>3, <1>4 DEF Single

LEMMA QuietEnsure ==
    ASSUME World, AskedFor, QuietInv, EnsureCertificate
    PROVE  QuietInv'
<1> DEFINE New(q) == [name |-> q.name, hosts |-> q.hosts, ready |-> FALSE]
           Hosted(c, q) == [c EXCEPT !.hosts = q.hosts]
<1>1. /\ op.pc = "certificates" /\ op.old = {} /\ UNCHANGED <<spec, nginx, history>>
      /\ \E q \in op.todo :
           \/ /\ q.name \notin NamesOf(certs) /\ pending'
              /\ TakeOverPreviousSecret(q.name) \/ UNCHANGED secrets
              /\ certs' = certs \cup {New(q)} \/ UNCHANGED certs
           \/ \E old \in certs :
                /\ old.name = q.name /\ secrets' = secrets
                /\ certs' = (certs \ {old}) \cup {Hosted(old, q)}
                /\ \/ pending'
                   \/ /\ op' = [op EXCEPT !.todo = @ \ {q}, !.ready = @ \cup {old}]
                      /\ pending' = (pending \/ old.hosts # q.hosts)
  BY Zenon DEF EnsureCertificate, Abort
<1>2. PICK q \in op.todo :
           \/ /\ q.name \notin NamesOf(certs) /\ pending'
              /\ TakeOverPreviousSecret(q.name) \/ UNCHANGED secrets
              /\ certs' = certs \cup {New(q)} \/ UNCHANGED certs
           \/ \E old \in certs :
                /\ old.name = q.name /\ secrets' = secrets
                /\ certs' = (certs \ {old}) \cup {Hosted(old, q)}
                /\ \/ pending'
                   \/ /\ op' = [op EXCEPT !.todo = @ \ {q}, !.ready = @ \cup {old}]
                      /\ pending' = (pending \/ old.hosts # q.hosts)
  BY <1>1
<1>3. CASE /\ q.name \notin NamesOf(certs) /\ pending'
           /\ TakeOverPreviousSecret(q.name) \/ UNCHANGED secrets
           /\ certs' = certs \cup {New(q)} \/ UNCHANGED certs
  <2>1. New(q).name = q.name
    OBVIOUS
  <2> HIDE DEF New
  <2>2. OneEach(certs')
    BY <1>3, <2>1 DEF QuietInv, OneEach, NamesOf
  <2>3. Single(secrets')
    <3>1. CASE TakeOverPreviousSecret(q.name)
      BY <3>1, SingleTakenOver DEF World, QuietInv
    <3>2. CASE UNCHANGED secrets
      BY <3>2 DEF QuietInv
    <3> QED BY <1>3, <3>1, <3>2
  <2> QED BY <1>3, <2>2, <2>3, QuietPending
<1>4. ASSUME NEW old \in certs, old.name = q.name, secrets' = secrets,
             certs' = (certs \ {old}) \cup {Hosted(old, q)},
             \/ pending'
             \/ /\ op' = [op EXCEPT !.todo = @ \ {q}, !.ready = @ \cup {old}]
                /\ pending' = (pending \/ old.hosts # q.hosts)
      PROVE  QuietInv'
  <2>1. old \in Cert
    BY DEF World
  <2>2. Hosted(old, q).name = old.name /\ (old.hosts = q.hosts => Hosted(old, q) = old)
    BY <2>1 DEF Cert
  <2> HIDE DEF Hosted
  <2>3. OneEach(certs') /\ Single(secrets')
    BY <1>4, <2>2 DEF QuietInv, OneEach
  <2>4. CASE pending'
    BY <2>3, <2>4, QuietPending
  <2>5. CASE ~pending'
    <3>1. ~pending /\ old.hosts = q.hosts /\ certs' = certs
      BY <1>4, <2>2, <2>5
    <3>2. /\ op'.pc = "certificates" /\ op'.old = {} /\ op'.copy = op.copy
          /\ op'.todo = op.todo \ {q} /\ op'.ready = op.ready \cup {old}
      BY <1>1, <1>4, <2>5 DEF World, OpType
    <3>3. UNCHANGED <<Copy, Wants>>
      <4>1. UNCHANGED <<tls, requests, legacy>>
        BY <1>1 DEF spec
      <4> HIDE <1>1, <1>4
      <4> QED BY <4>1 DEF Copy, Wants, CertManagerRequests, EntriesOf, RequiredName
    <3>4. Pass
      BY DEF QuietInv
    <3>5. Pass'
      BY <1>1, <1>4, <3>1, <3>2, <3>3, <3>4 DEF Pass, NamesOf
    <3>6. Rest'
      BY <3>2 DEF Rest
    <3>7. OneEach(certs)' /\ Single(secrets)'
      BY <2>3 DEF OneEach, Single
    <3> QED BY <3>5, <3>6, <3>7 DEF QuietInv
  <2> QED BY <2>4, <2>5
<1> QED BY <1>2, <1>3, <1>4

\* A pass that was told of nothing ends: all is as wanted, and given to Nginx.
LEMMA QuietNginx ==
    ASSUME SpecTypes, World, AskedFor, Identity, QuietInv, ReconcileNginx
    PROVE  QuietInv'
<1>1. /\ op.pc = "certificates" /\ op.old = {} /\ op.todo = {} /\ op'.pc = "idle"
      /\ nginx' = newNginxTLS(op.copy.tls, op.ready)
      /\ UNCHANGED <<tls, requests, legacy, secrets, certs, pending, requested>>
  BY DEF ReconcileNginx, IdleOp, spec, history
<1>2. Single(secrets) /\ OneEach(certs) /\ Pass
  BY DEF QuietInv
<1>3. Pass'
  BY <1>1 DEF Pass
<1>4. ASSUME ~pending
      PROVE  Rest'
  <2>1. /\ op.copy = Copy /\ {} = NamesOf(certs) \ NamesOf(Wants)
        /\ \A q \in Wants : \E c \in op.ready : c.name = q.name /\ c.hosts = q.hosts
        /\ op.ready \subseteq certs
    BY <1>1, <1>2, <1>4 DEF Pass
  <2>2. Wants \subseteq Wanted
    BY WantedTypes DEF Wants
  <2>3. ASSUME NEW c \in certs
        PROVE  c \in op.ready /\ [name |-> c.name, hosts |-> c.hosts] \in Wants
    <3>1. c.name \in NamesOf(Wants)
      BY <2>1 DEF NamesOf
    <3>2. PICK q \in Wants : q.name = c.name
      BY <3>1 DEF NamesOf
    <3>3. PICK d \in op.ready : d.name = q.name /\ d.hosts = q.hosts
      BY <2>1
    <3>4. d = c
      BY <1>2, <2>1, <3>2, <3>3 DEF OneEach
    <3>5. q = [name |-> q.name, hosts |-> q.hosts]
      BY <2>2 DEF Wanted
    <3> QED BY <3>2, <3>3, <3>4, <3>5
  <2>4. ASSUME NEW q \in Wants
        PROVE  \E c \in certs : q = [name |-> c.name, hosts |-> c.hosts]
    <3>1. PICK c \in op.ready : c.name = q.name /\ c.hosts = q.hosts
      BY <2>1
    <3>2. q = [name |-> q.name, hosts |-> q.hosts]
      BY <2>2 DEF Wanted
    <3> QED BY <2>1, <3>1, <3>2
  <2>5. AsWanted
    BY <2>3, <2>4 DEF AsWanted
  <2>6. op.ready = certs
    BY <2>1, <2>3
  <2>7. nginx' = newNginxTLS(tls, certs)
    BY <1>1, <2>1, <2>6 DEF Copy
  <2>8. Wants' = Wants
    BY <1>1 DEF Wants, CertManagerRequests, EntriesOf, RequiredName
  <2>9. AsWanted'
    BY <1>1, <2>5, <2>8 DEF AsWanted
  <2>10. BoundGiven'
    BY <1>1, <1>2, <2>7, Given DEF BoundGiven
  <2>11. IssuedGiven'
    BY <1>1, <1>2, <2>7, Given DEF IssuedGiven
  <2> QED BY <2>9, <2>10, <2>11 DEF Rest
<1>5. Rest'
  BY <1>1, <1>4 DEF Rest
<1> QED BY <1>1, <1>2, <1>3, <1>5 DEF QuietInv, Single, OneEach

LEMMA QuietIssue ==
    ASSUME World, QuietInv, CertManager
    PROVE  QuietInv'
<1>1. PICK c \in certs : Issue(c)
  BY DEF CertManager
<1> DEFINE x == [id |-> c.name, name |-> c.name, cert |-> [hosts |-> c.hosts, serial |-> 0],
                 by |-> None]
           e == [c EXCEPT !.ready = TRUE]
<1>2. /\ pending' /\ secrets' = {s \in secrets : s.id # c.name} \cup {x}
      /\ certs' = (certs \ {c}) \cup {e}
  BY <1>1 DEF Issue
<1>3. x.id = c.name
  OBVIOUS
<1>4. e.name = c.name
  <2>1. \A y \in Cert : [y EXCEPT !.ready = TRUE].name = y.name
    BY DEF Cert
  <2> QED BY <2>1 DEF World
<1> HIDE DEF x, e
<1>5. Single(secrets') /\ OneEach(certs')
  BY <1>2, <1>3, <1>4 DEF QuietInv, Single, OneEach
<1> QED BY <1>2, <1>5, QuietPending

LEMMA InitiallyQuiet == Init => QuietInv
BY DEF Init, QuietInv, Single, OneEach, Pass, Rest

LEMMA AlwaysQuiet ==
    CertificatesInv /\ CertificatesInv' /\ QuietInv /\ [Next]_vars => QuietInv'
<1> SUFFICES ASSUME CertificatesInv, CertificatesInv', QuietInv, [Next]_vars PROVE QuietInv'
  OBVIOUS
<1>0. /\ Api /\ SpecTypes /\ World /\ AskedFor /\ Identity
      /\ Identity' /\ Single(secrets) /\ OneEach(certs)
  BY DEF CertificatesInv, Api, QuietInv
<1>1. ASSUME NEW r \in Requests, ApiStep(r)
      PROVE  QuietInv'
  <2>1. Tells
    BY <1>0, <1>1, RequestTells
  <2>2. Single(secrets')
    <3>1. CASE \E in \in Inputs[r] : Begin(r, in)
      <4>1. secrets' = secrets
        BY <3>1 DEF Begin
      <4> QED BY <1>0, <4>1
    <3>2. CASE ~\E in \in Inputs[r] : Begin(r, in)
      <4>1. r \in Active /\ Step(r) /\ Kinds(r)
        BY <1>0, <1>1, <3>2, StepKinds DEF Step, Kinds
      <4> QED BY <1>0, <4>1, SingleStep
    <3> QED BY <3>1, <3>2
  <2> QED BY <1>0, <2>1, <2>2, QuietTold
<1>2. CASE Reconcile
  BY <1>0, <1>2, QuietStart, QuietRemoveCertificate, QuietRemoveSecret, QuietEnsure, QuietNginx
     DEF Reconcile
<1>3. CASE OtherEdit \/ ReconcileFails
  <2>1. pending' /\ UNCHANGED <<secrets, certs>>
    BY <1>3 DEF OtherEdit, ReconcileFails, Abort
  <2> QED BY <1>0, <2>1, QuietPending
<1>4. CASE CertManager
  BY <1>0, <1>4, QuietIssue
<1>5. CASE UNCHANGED vars
  <2>1. UNCHANGED <<tls, requests, legacy, secrets, certs, nginx, op, pending, requested>>
    BY <1>5 DEF vars, spec, history
  <2>2. Tells
    BY <2>1 DEF Tells, spec
  <2>3. Single(secrets')
    BY <1>0, <2>1
  <2> QED BY <1>0, <2>2, <2>3, QuietTold
<1> QED BY <1>1, <1>2, <1>3, <1>4, <1>5 DEF Next

\* The reconciler is told of every change that it has to see: of the spec, of
\* Secrets of the instance and of Certificates, also while a pass is under way
\* (Pass); so after a pass that was told of nothing, all is as wanted (Rest).
THEOREM QuietInvariant == Spec => []QuietInv
BY InitiallyQuiet, AlwaysQuiet, CertificatesInvariant, PTL DEF Spec

\* When neither users, the operator nor cert-manager have anything left to do,
\* there is a Certificate for each request in the spec and no other one, and
\* Nginx was given the Secrets as they are now (Pass and Rest).
THEOREM QuiescentCertificatesAlways == Spec => []QuiescentCertificates
<1>1. CertificatesInv /\ QuietInv => QuiescentCertificates
  <2> SUFFICES ASSUME CertificatesInv, QuietInv, Calm
               PROVE  /\ {[name |-> c.name, hosts |-> c.hosts] : c \in certs}
                              = CertManagerRequests(requests, legacy)
                      /\ \A n \in NamesOf(certs) \cup (CertNames \ requested) :
                             {s \in nginx : s.name = n}
                                = {s \in newNginxTLS(tls, certs) : s.name = n}
    BY DEF QuiescentCertificates
  <2>1. AsWanted /\ BoundGiven /\ IssuedGiven /\ Single(secrets)
    BY DEF QuietInv, Rest, Calm, IdleOp
  <2>2. World /\ AskedFor /\ Identity
    BY DEF CertificatesInv
  <2>3. ASSUME NEW n \in CertNames \ requested
        PROVE  {s \in nginx : s.name = n} = {s \in newNginxTLS(tls, certs) : s.name = n}
    BY <2>1, <2>2, Given DEF BoundGiven
  <2>4. ASSUME NEW c \in certs
        PROVE  {s \in nginx : s.name = c.name}
                  = {s \in newNginxTLS(tls, certs) : s.name = c.name}
    <3>1. PICK s \in secrets : s.id = c.name /\ s.by = None
      BY DEF Calm, Issued
    <3>2. {t \in nginx : t.name = c.name} = {s}
      BY <2>1, <3>1 DEF IssuedGiven
    <3>3. {t \in newNginxTLS(tls, certs) : t.name = c.name} = {s}
      BY <2>1, <2>2, <3>1, Given
    <3> QED BY <3>2, <3>3
  <2>5. \A n \in NamesOf(certs) : \E c \in certs : n = c.name
    BY DEF NamesOf
  <2> QED BY <2>1, <2>3, <2>4, <2>5 DEF AsWanted, Wants
<1> QED BY <1>1, QuietInvariant, CertificatesInvariant, PTL

----------------------------------------------------------------------------
(* Hosts of different certificates stay apart. *)

\* An upload wrote its Secret although its copy of the instance is outdated or
\* another request is about its name: what follows is no longer what was checked.
Lost == \/ partial
        \/ \E r \in Active : api[r].wrote /\ (r \in stale \/ r \notin clean)

\* A Secret of a name that cert-manager was never asked for, and one that an
\* upload has written and has yet to bind.
Plain(s) == s.name \notin requested
Rewritten(s) == \E q \in Active : api[q].wrote /\ api[q].secret = s

\* A name has one Secret; ...
Sole == ~Lost => \A s, t \in secrets : Plain(s) /\ s.name = t.name => s = t

\* ... an upload alone that found none will create the first, ...
NoneYet ==
    \A r \in clean : Uploads(r) /\ api[r].pc = "create" =>
        \A s \in secrets : s.name # api[r].in.name

\* ... and one that holds a Secret holds it as it is, with the data that it was
\* sent once it has passed it on.
AsFound ==
    ~Lost => \A r \in Active : Uploads(r) /\ api[r].pc \in {"write", "update"} =>
        \A s \in secrets : s.id = api[r].secret.id => s = api[r].secret
AsSent ==
    \A r \in Active : api[r].in.op = "upload" /\ api[r].pc = "update" =>
        api[r].secret.cert = CertData(api[r].in)

\* A Secret has one entry, with its hosts unless they are being changed.
DistinctIds(entries) == \A j, k \in DOMAIN entries : entries[j].id = entries[k].id => j = k
Agree ==
    ~Lost => \A e \in ToSet(tls), s \in secrets :
        e.id = s.id /\ Plain(s) => e.hosts = s.cert.hosts \/ Rewritten(s)

\* As long as its copy is that of the instance, what an upload has checked holds.
Checked ==
    ~Lost => \A r \in Active \ stale :
        Uploads(r) /\ api[r].pc \in {"lookup", "create", "write", "update"} =>
            \A e \in ToSet(tls), s \in secrets :
                /\ e.id = s.id /\ Plain(s) /\ s.name # api[r].in.name
                /\ e.hosts = s.cert.hosts
                => e.hosts \cap api[r].in.hosts = {}

\* Entries of different names have no host in common.
Apart ==
    ~Lost => \A e, f \in ToSet(tls), s, t \in secrets :
        e.id = s.id /\ f.id = t.id /\ Plain(s) /\ Plain(t) /\ s.name # t.name
            => e.hosts \cap f.hosts = {}

HostsInv == /\ Sole /\ NoneYet /\ AsFound /\ AsSent
            /\ DistinctIds(tls) /\ Agree /\ Checked /\ Apart

\* The lists that uploads and removals write have one entry for each Secret, too.
LEMMA WithDistinct ==
    ASSUME NEW s \in Seq(Entry), NEW x \in Secret, DistinctIds(s)
    PROVE  DistinctIds(WithCertificate(s, x))
<1> DEFINE t == WithCertificate(s, x)
           k == findCertificate(s, x.id)
<1>1. EntryOf(x) \in Entry /\ EntryOf(x).id = x.id
  BY SecretFacts
<1>2. \/ k = 0 /\ \A j \in DOMAIN s : s[j].id # x.id
      \/ k \in DOMAIN s /\ s[k].id = x.id
  BY FoundCertificate
<1>3. t = IF k = 0 THEN Append(s, EntryOf(x)) ELSE [s EXCEPT ![k] = EntryOf(x)]
  BY DEF WithCertificate, EntryOf
<1>4. DOMAIN s = 1 .. Len(s) /\ Len(s) \in Nat
  OBVIOUS
<1> HIDE DEF k, t
<1>5. CASE k = 0
  <2>1. \A j \in DOMAIN s : s[j].id # x.id
    BY <1>2, <1>4, <1>5
  <2>2. /\ DOMAIN t = 1 .. Len(s) + 1 /\ t[Len(s) + 1] = EntryOf(x)
        /\ \A j \in 1 .. Len(s) : t[j] = s[j]
    BY <1>1, <1>3, <1>5
  <2>3. \A j \in 1 .. Len(s) + 1 : j \in 1 .. Len(s) \/ j = Len(s) + 1
    BY <1>4
  <2>4. DistinctIds(t)
    BY <1>1, <1>4, <2>1, <2>2, <2>3 DEF DistinctIds
  <2> QED BY <2>4 DEF t
<1>6. CASE k \in DOMAIN s /\ s[k].id = x.id
  <2>0. k # 0
    BY <1>4, <1>6
  <2>1. /\ DOMAIN t = DOMAIN s /\ t[k] = EntryOf(x)
        /\ \A j \in DOMAIN s : j # k => t[j] = s[j]
    BY <1>1, <1>3, <1>6, <2>0
  <2>2. \A j \in DOMAIN s : t[j].id = s[j].id
    BY <1>1, <1>6, <2>1
  <2>3. DistinctIds(t)
    BY <2>1, <2>2 DEF DistinctIds
  <2> QED BY <2>3 DEF t
<1> QED BY <1>2, <1>5, <1>6

LEMMA WithoutDistinct ==
    ASSUME NEW s \in Seq(Entry), NEW x, DistinctIds(s)
    PROVE  DistinctIds(WithoutCertificate(s, x))
<1> DEFINE t == WithoutCertificate(s, x)
           k == findCertificate(s, x.id)
           From(j) == IF j < k THEN j ELSE j + 1
<1>1. k = 0 \/ k \in DOMAIN s
  BY FoundCertificate
<1>2. t = IF k = 0 THEN s ELSE Without(s, k)
  BY DEF WithoutCertificate
<1> HIDE DEF k, t
<1>3. CASE k = 0
  BY <1>2, <1>3 DEF t
<1>4. CASE k \in DOMAIN s
  <2>1. t = Without(s, k) /\ DOMAIN s = 1 .. Len(s) /\ Len(s) \in Nat /\ k \in 1 .. Len(s)
    BY <1>2, <1>4
  <2>2. /\ DOMAIN t = 1 .. Len(s) - 1
        /\ \A j \in 1 .. Len(s) - 1 : t[j] = s[From(j)]
    BY <1>4, <2>1, WithoutOne
  <2>3. \A j \in 1 .. Len(s) - 1 : From(j) \in DOMAIN s
    BY <2>1
  <2>4. \A i, j \in 1 .. Len(s) - 1 : From(i) = From(j) => i = j
    BY <2>1
  <2> HIDE DEF From
  <2>5. DistinctIds(t)
    BY <2>2, <2>3, <2>4 DEF DistinctIds
  <2> QED BY <2>5 DEF t
<1> QED BY <1>1, <1>3, <1>4

\* A copy that is outdated stays so until the instance is read again.
Outdated(r) ==
    \A q \in stale \cap Active :
        \/ q \in stale'
        \/ q = r /\ (api[r].pc = "read" \/ api'[r].pc \in {"done", "delete"})

\* What a step of a request does that matters here: an upload that has written
\* its Secret ends with the next step, well if it can bind it.
Bears(r) ==
    /\ partial => partial'
    /\ Outdated(r)
    /\ tls' # tls => stale' = Active \ {r} /\ api'[r].pc \in {"done", "delete"}
    /\ Keeps(r) \/ Deletes(r) \/ ((Creates(r) \/ Writes(r)) /\ api'[r].wrote)
    /\ api[r].wrote =>
          /\ api'[r].pc = "done" /\ secrets' = secrets
          /\ \/ partial'
             \/ /\ r \notin stale /\ r \in clean
                /\ tls' = Entries(api[r]) \/ (tls' = tls /\ Entries(api[r]) = api[r].copy.tls)
    /\ api'[r].pc \in {"create", "write"} => api[r].pc = "lookup"
    /\ api'[r].pc = "create" => \A s \in secrets : s.name # api[r].in.name
    /\ api'[r].pc = "update" /\ api[r].in.op = "upload" => api[r].pc \in {"create", "write"}
    /\ api'[r].pc = "lookup" /\ api[r].in.op = "upload" =>
          \A c \in GetCertificates : c.name # api[r].in.name => c.hosts \cap api[r].in.hosts = {}

\* A call that was refused.
LEMMA RefusedBears ==
    ASSUME Api, NEW r \in Active, Refused(r), UNCHANGED <<tls, secrets>>,
           Outdated(r)
    PROVE  Bears(r)
<1>1. api'[r].pc = "done" /\ partial' = (partial \/ api[r].wrote)
  BY DEF Refused, Ends
<1>2. Keeps(r)
  BY <1>1 DEF Keeps, Holds
<1>3. partial \in BOOLEAN => (partial => partial') /\ (api[r].wrote => partial')
  BY <1>1
<1>4. (partial => partial') /\ (api[r].wrote => partial')
  BY <1>1, Zenon
<1> QED BY <1>1, <1>2, <1>4 DEF Bears

\* A call that goes on and has not written anything.
LEMMA GoesOnBears ==
    ASSUME Api, NEW r \in Active, GoesOn(r), UNCHANGED <<tls, secrets>>, ~api[r].wrote, Keeps(r),
           Outdated(r),
           api'[r].pc \in {"create", "write"} => api[r].pc = "lookup",
           api'[r].pc = "create" => \A s \in secrets : s.name # api[r].in.name,
           api'[r].pc = "update" /\ api[r].in.op = "upload" => api[r].pc \in {"create", "write"},
           api'[r].pc = "lookup" /\ api[r].in.op = "upload" =>
              \A c \in GetCertificates : c.name # api[r].in.name => c.hosts \cap api[r].in.hosts = {}
    PROVE  Bears(r)
BY DEF Bears, GoesOn, history

LEMMA StepBears ==
    ASSUME Api, World, NEW r \in Active, ApiStep(r), ~\E in \in Inputs[r] : Begin(r, in)
    PROVE  Bears(r)
<1>0. /\ CallTypes /\ SpecTypes /\ Store /\ r \in Requests /\ InFlight(api[r])
      /\ Keeps(r) \/ Creates(r) \/ Writes(r) \/ Deletes(r)
  BY ApiTypes, StepKinds DEF Api, World
<1>1. CASE ReadInstance(r)
  <2>1. UNCHANGED <<tls, secrets>> /\ api[r].pc = "read" /\ stale' = stale \ {r}
    BY <1>1 DEF ReadInstance, spec
  <2>2. CASE Refused(r)
    BY <2>1, <2>2, RefusedBears DEF Outdated
  <2>3. CASE ~Refused(r)
    <3>1. /\ GoesOn(r) /\ ~api[r].wrote
          /\ api'[r].pc = CASE api[r].in.op = "upload" -> "hosts"
                             [] api[r].in.op = "remove" -> "lookup"
                             [] OTHER -> "update"
      BY <1>0, <1>1, <2>3, ReadEffect
    <3>2. Keeps(r)
      BY <1>0, <2>1 DEF Creates, Writes, Deletes
    <3> QED BY <2>1, <3>1, <3>2, GoesOnBears DEF Outdated
  <2> QED BY <2>2, <2>3
<1>2. CASE CheckHosts(r)
  <2>1. UNCHANGED <<tls, secrets>> /\ api[r].pc = "hosts" /\ stale' = stale
    BY <1>2 DEF CheckHosts, spec
  <2>2. CASE Refused(r)
    BY <2>1, <2>2, RefusedBears DEF Outdated
  <2>3. CASE ~Refused(r)
    <3>1. /\ GoesOn(r) /\ ~api[r].wrote /\ api'[r].pc = "lookup"
          /\ \A c \in GetCertificates :
                c.name # api[r].in.name => c.hosts \cap api[r].in.hosts = {}
      BY <1>0, <1>2, <2>3, CheckEffect
    <3>2. Keeps(r)
      BY <1>0, <2>1 DEF Creates, Writes, Deletes
    <3> QED BY <2>1, <3>1, <3>2, GoesOnBears DEF Outdated
  <2> QED BY <2>2, <2>3
<1>3. CASE GetTLSSecretByCertificateName(r)
  <2>1. UNCHANGED <<tls, secrets>> /\ api[r].pc = "lookup" /\ stale' = stale
    BY <1>3 DEF GetTLSSecretByCertificateName, spec
  <2>2. CASE Refused(r)
    BY <2>1, <2>2, RefusedBears DEF Outdated
  <2>3. CASE ~Refused(r)
    <3>1. /\ GoesOn(r) /\ ~api[r].wrote
          /\ \/ /\ api'[r].pc = "create" /\ SecretsOf(api[r].in.name) = {}
             \/ /\ api'[r].pc = IF api[r].in.op = "upload" THEN "write" ELSE "update"
      BY <1>0, <1>3, <2>3, LookupEffect DEF Store
    <3>2. Keeps(r)
      BY <1>0, <2>1 DEF Creates, Writes, Deletes
    <3>3. api'[r].pc = "create" => \A s \in secrets : s.name # api[r].in.name
      BY <3>1 DEF SecretsOf
    <3> QED BY <2>1, <3>1, <3>2, <3>3, GoesOnBears DEF Outdated
  <2> QED BY <2>2, <2>3
<1>4. CASE CreateSecret(r)
  <2>1. tls' = tls /\ stale' = stale
    BY <1>4 DEF CreateSecret, spec
  <2>2. /\ GoesOn(r) /\ ~api[r].wrote /\ api'[r].wrote /\ api[r].pc = "create"
        /\ api'[r].pc = "update"
    BY <1>0, <1>4, CreateEffect
  <2>3. Creates(r)
    BY <1>0, <1>4, CreateEffect DEF Creates, Made
  <2> QED BY <2>1, <2>2, <2>3 DEF Bears, Outdated, GoesOn, history
<1>5. CASE UpdateSecret(r)
  <2>1. tls' = tls /\ stale' = stale
    BY <1>5 DEF UpdateSecret, spec
  <2>2. api[r].pc = "write" /\ api[r].in.op = "upload" /\ ~api[r].wrote
    BY <1>0, <1>5, WriteEffect
  <2>3. \/ Refused(r) /\ secrets' = secrets
        \/ /\ GoesOn(r) /\ api'[r].pc = "update" /\ secrets' = secrets
           /\ api'[r].secret = api[r].secret
           /\ api[r].secret.cert = CertData(api[r].in)
        \/ GoesOn(r) /\ api'[r].pc = "update" /\ api'[r].wrote /\ Writes(r)
    BY <1>0, <1>5, WriteEffect DEF Writes
  <2>4. CASE Refused(r) /\ secrets' = secrets
    BY <2>1, <2>4, RefusedBears DEF Outdated
  <2>5. CASE /\ GoesOn(r) /\ api'[r].pc = "update" /\ secrets' = secrets
             /\ api'[r].secret = api[r].secret
             /\ api[r].secret.cert = CertData(api[r].in)
    <3>1. Keeps(r)
      BY <2>2, <2>5 DEF Keeps, Holds
    <3> QED BY <2>1, <2>2, <2>5, <3>1, GoesOnBears DEF Outdated
  <2>6. CASE GoesOn(r) /\ api'[r].pc = "update" /\ api'[r].wrote /\ Writes(r)
    BY <2>1, <2>2, <2>6 DEF Bears, Outdated, GoesOn, history
  <2> QED BY <2>3, <2>4, <2>5, <2>6
<1>6. CASE UpdateInstance(r)
  <2>1. secrets' = secrets /\ api[r].pc = "update"
    BY <1>6 DEF UpdateInstance
  <2>2. Keeps(r)
    BY <1>0, <2>1 DEF Creates, Writes, Deletes
  <2>3. \/ /\ Entries(api[r]) = api[r].copy.tls
           /\ Succeeded(r) /\ tls' = tls /\ stale' = stale
        \/ Refused(r) /\ tls' = tls /\ stale' = stale
        \/ /\ stale' = Active \ {r} /\ tls' = Entries(api[r])
           /\ \/ /\ GoesOn(r) /\ api'[r].pc = "delete" /\ ~api[r].wrote
              \/ Succeeded(r)
    BY <1>0, <1>6, UpdateEffect DEF spec
  <2>4. CASE Refused(r) /\ tls' = tls /\ stale' = stale
    BY <2>1, <2>4, RefusedBears DEF Outdated
  <2>5. ASSUME Succeeded(r), Outdated(r),
               tls' # tls => stale' = Active \ {r},
               tls' = Entries(api[r]) \/ (tls' = tls /\ Entries(api[r]) = api[r].copy.tls)
        PROVE  Bears(r)
    <3>1. /\ api'[r].pc = "done"
          /\ partial' = (partial \/ (api[r].wrote /\ (r \in stale \/ r \notin clean)))
      BY <2>5 DEF Succeeded, Ends
    <3>2. (partial => partial') /\ (api[r].wrote => partial' \/ (r \notin stale /\ r \in clean))
      BY <3>1, Zenon
    <3> QED BY <2>1, <2>2, <2>5, <3>1, <3>2 DEF Bears
  <2>6. CASE /\ stale' = Active \ {r} /\ GoesOn(r) /\ api'[r].pc = "delete" /\ ~api[r].wrote
    BY <1>0, <2>1, <2>2, <2>6 DEF Bears, Outdated, GoesOn, history
  <2>7. CASE /\ Succeeded(r)
             /\ \/ Entries(api[r]) = api[r].copy.tls /\ tls' = tls /\ stale' = stale
                \/ stale' = Active \ {r} /\ tls' = Entries(api[r])
    <3>1. api'[r].pc = "done"
      BY <2>7 DEF Succeeded, Ends
    <3>2. Outdated(r)
      BY <2>7, <3>1 DEF Outdated
    <3> QED BY <2>5, <2>7, <3>2
  <2> QED BY <2>3, <2>4, <2>6, <2>7
<1>7. CASE DeleteSecret(r)
  <2>1. tls' = tls /\ stale' = stale
    BY <1>7 DEF DeleteSecret, spec
  <2>2. /\ api[r].pc = "delete" /\ api[r].in.op = "remove" /\ ~api[r].wrote
        /\ secrets' = {s \in secrets : s.id # api[r].secret.id}
        /\ Refused(r) \/ Succeeded(r)
    BY <1>0, <1>7, DeleteEffect
  <2>3. api'[r].pc = "done" /\ (partial => partial')
    BY <2>2, Zenon DEF Refused, Succeeded, Ends
  <2> QED BY <2>1, <2>2, <2>3 DEF Deletes, Bears, Outdated
<1>8. CASE CallFails(r)
  <2>1. UNCHANGED <<tls, stale, secrets>> /\ Refused(r)
    BY <1>0, <1>8, RefuseEnds DEF CallFails, spec
  <2> QED BY <2>1, RefusedBears DEF Outdated
<1> QED
  BY <1>1, <1>2, <1>3, <1>4, <1>5, <1>6, <1>7, <1>8 DEF ApiStep

\* What is lost stays so.
LEMMA LostStays ==
    ASSUME Api, NEW r \in Active, Step(r), Bears(r), Lost
    PROVE  Lost'
<1>1. CASE partial
  BY <1>1 DEF Bears, Lost
<1>2. ASSUME NEW q \in Active, api[q].wrote, q \in stale \/ q \notin clean
      PROVE  Lost'
  <2>1. CASE q = r
    <3>1. partial'
      BY <1>2, <2>1 DEF Bears
    <3> QED BY <3>1 DEF Lost
  <2>2. CASE q # r
    <3>1. api'[q] = api[q]
      BY <2>2 DEF Step, Moved, Active
    <3>2. q \in Active'
      BY <3>1 DEF Active
    <3>3. q \in stale => q \in stale'
      BY <2>2 DEF Bears, Outdated
    <3>4. q \notin clean => q \notin clean'
      BY DEF Step
    <3> QED BY <1>2, <3>1, <3>2, <3>3, <3>4 DEF Lost
  <2> QED BY <2>1, <2>2
<1> QED BY <1>1, <1>2 DEF Lost

\* Uploads of the same name overlap.
LEMMA SameName ==
    ASSUME Api, NEW q \in Active, NEW k \in Active, q # k,
           api[q].in.op = "upload", api[k].in.op = "upload", api[q].in.name = api[k].in.name
    PROVE  q \notin clean /\ k \notin clean
<1>1. api[q].in \in Inp /\ api[k].in \in Inp
  BY ApiTypes
<1>2. Subject(api[q].in) = api[q].in.name /\ Subject(api[k].in) = api[k].in.name
  BY <1>1, InputFacts DEF Inp, Subject, RequiredName
<1> QED BY <1>2 DEF Touches, Api, History, Alone

\* An upload that writes a Secret is the only one of its name.
LEMMA WritesAlone ==
    ASSUME Api, NEW r \in Active, Step(r), Creates(r) \/ Writes(r), api'[r].wrote, ~Lost'
    PROVE  /\ r \in clean /\ r \in Active'
           /\ \A q \in Active : q # r /\ api[q].in.op = "upload" => api[q].in.name # api[r].in.name
<1>1. api'[r].pc = "update" /\ api[r].in.op = "upload"
  BY DEF Creates, Writes
<1>2. r \in Active'
  BY <1>1 DEF Active
<1>3. r \in clean
  BY <1>1, <1>2 DEF Lost, Step
<1> QED BY <1>1, <1>2, <1>3, SameName

\* The Secrets after a step.
LEMMA SecretsStep ==
    ASSUME Api, Identity, NEW r \in Active, Step(r), Bears(r), NEW s \in secrets'
    PROVE  \/ s \in secrets
           \/ /\ Creates(r) /\ api'[r].wrote /\ s = Made(r)
              /\ s.name = api[r].in.name /\ s.cert = CertData(api[r].in)
              /\ \A e \in ToSet(tls') : e.id # s.id
              /\ \A k \in Requests : Holds(api[k]) => api[k].secret.id # s.id
           \/ /\ Writes(r) /\ api'[r].wrote /\ s = Written(r) /\ api[r].secret \in secrets
              /\ s.id = api[r].secret.id /\ s.name = api[r].secret.name
              /\ s.name = api[r].in.name /\ s.cert = CertData(api[r].in) /\ tls' = tls
<1>1. CASE Keeps(r) \/ Deletes(r)
  BY <1>1 DEF Keeps, Deletes
<1>2. CASE Creates(r) /\ api'[r].wrote
  <2>1. r \in Requests /\ r \notin Born /\ r \notin Names
    BY <1>2, NumbersNotNames DEF Creates, Active, Born
  <2>2. tls' = tls
    BY <1>2 DEF Creates, Step
  <2>3. \A e \in ToSet(tls') : e.id # r
    BY <2>1, <2>2 DEF Identity
  <2>4. \A k \in Requests : Holds(api[k]) => api[k].secret.id # r
    <3>1. \A k \in Requests : Holds(api[k]) => api[k].secret \in Objects /\ api[k].secret \in Secret
      BY DEF Objects, Api, CallTypes, InFlight, Holds
    <3> QED BY <2>1, <3>1, SecretFacts DEF Identity, Sound
  <2> QED BY <1>2, <2>3, <2>4 DEF Creates
<1>3. CASE Writes(r) /\ api'[r].wrote
  <2>1. api[r].secret.name = api[r].in.name
    BY <1>3 DEF Writes, Holds, Identity, Active
  <2>2. tls' = tls
    BY <1>3 DEF Writes, Step
  <2> QED BY <1>3, <2>1, <2>2 DEF Writes
<1> QED BY <1>1, <1>2, <1>3 DEF Bears

\* Spec.TLS after a step: the one of a request that writes it is not outdated.
LEMMA TlsStep ==
    ASSUME Api, NEW r \in Active, Step(r)
    PROVE  \/ tls' = tls
           \/ /\ api[r].pc = "update" /\ r \notin stale /\ api[r].secret \in Secret
              /\ \/ /\ api[r].in.op = "upload" /\ tls' = WithCertificate(tls, api[r].secret)
                    /\ ToSet(tls') \subseteq ToSet(tls) \cup {EntryOf(api[r].secret)}
                 \/ /\ api[r].in.op = "remove" /\ tls' = WithoutCertificate(tls, api[r].secret)
                    /\ ToSet(tls') \subseteq ToSet(tls)
<1> SUFFICES ASSUME tls' # tls
             PROVE  /\ api[r].pc = "update" /\ r \notin stale /\ api[r].secret \in Secret
                    /\ \/ /\ api[r].in.op = "upload" /\ tls' = WithCertificate(tls, api[r].secret)
                          /\ ToSet(tls') \subseteq ToSet(tls) \cup {EntryOf(api[r].secret)}
                       \/ /\ api[r].in.op = "remove"
                          /\ tls' = WithoutCertificate(tls, api[r].secret)
                          /\ ToSet(tls') \subseteq ToSet(tls)
  OBVIOUS
<1>1. api[r].pc = "update" /\ r \notin stale /\ tls' = Entries(api[r])
  BY DEF Step
<1>2. api[r].copy.tls = tls /\ tls \in Seq(Entry)
  BY <1>1, FreshEntries DEF Api, SpecTypes
<1>3. api[r].in.op \in {"upload", "remove"}
  BY <1>1, <1>2 DEF Entries
<1>4. api[r].secret \in Secret
  BY <1>1, <1>3, ApiTypes DEF InFlight
<1>5. CASE api[r].in.op = "upload"
  <2>1. tls' = WithCertificate(tls, api[r].secret)
    BY <1>1, <1>2, <1>5 DEF Entries
  <2> QED BY <1>1, <1>2, <1>4, <1>5, <2>1, WithEdit
<1>6. CASE api[r].in.op = "remove"
  <2>1. tls' = WithoutCertificate(tls, api[r].secret)
    BY <1>1, <1>2, <1>6 DEF Entries
  <2> QED BY <1>1, <1>2, <1>4, <1>6, <2>1, WithoutEdit
<1> QED BY <1>3, <1>5, <1>6

\* An upload that has written its Secret ends with its entry in Spec.TLS.
LEMMA BindsIt ==
    ASSUME Api, NEW r \in Active, Step(r), Bears(r), api[r].wrote, ~partial'
    PROVE  EntryOf(api[r].secret) \in ToSet(tls')
<1>1. /\ api[r].pc = "update" /\ api[r].in.op = "upload" /\ api[r].secret \in Secret
  BY ApiTypes DEF InFlight
<1>2. /\ r \notin stale
      /\ tls' = Entries(api[r]) \/ (tls' = tls /\ Entries(api[r]) = api[r].copy.tls)
  BY DEF Bears
<1>3. api[r].copy.tls = tls /\ tls \in Seq(Entry)
  BY <1>1, <1>2, FreshEntries DEF Api, SpecTypes
<1>4. Entries(api[r]) = WithCertificate(tls, api[r].secret)
  BY <1>1, <1>3 DEF Entries
<1> QED BY <1>1, <1>2, <1>3, <1>4, WithEdit

\* Steps of a request keep each part of the invariant.
LEMMA DistinctStep ==
    ASSUME Api, NEW r \in Active, Step(r), DistinctIds(tls)
    PROVE  DistinctIds(tls')
BY TlsStep, WithDistinct, WithoutDistinct DEF Api, SpecTypes

LEMMA AsSentStep ==
    ASSUME Api, AsSent, NEW r \in Active, Step(r), Bears(r)
    PROVE  AsSent'
<1> SUFFICES ASSUME NEW k \in Active', api'[k].in.op = "upload", api'[k].pc = "update"
             PROVE  api'[k].secret.cert = CertData(api'[k].in)
  BY DEF AsSent, CertData
<1>1. CASE k # r
  <2>1. api'[k] = api[k] /\ k \in Active
    BY <1>1 DEF Step, Moved, Active
  <2> QED BY <2>1 DEF AsSent
<1>2. CASE k = r
  <2>1. api'[r].in = api[r].in /\ api[r].pc \in {"create", "write"}
    BY <1>2 DEF Step, Bears
  <2>2. CASE Keeps(r)
    BY <1>2, <2>1, <2>2 DEF Keeps, Holds
  <2>3. CASE Creates(r) \/ Writes(r)
    BY <1>2, <2>1, <2>3 DEF Creates, Writes
  <2>4. CASE Deletes(r)
    BY <1>2, <2>4 DEF Deletes
  <2> QED BY <1>2, <2>2, <2>3, <2>4 DEF Bears
<1> QED BY <1>1, <1>2

LEMMA SoleStep ==
    ASSUME Api, Identity, Sole, NoneYet, NEW r \in Active, Step(r), Bears(r)
    PROVE  Sole'
<1> SUFFICES ASSUME ~Lost', NEW s \in secrets', NEW t \in secrets',
                    s.name \notin requested', s.name = t.name
             PROVE  s = t
  BY DEF Sole, Plain
<1>0. ~Lost /\ requested' = requested
  BY LostStays DEF Step
<1>1. CASE Keeps(r) \/ Deletes(r)
  BY <1>0, <1>1 DEF Keeps, Deletes, Sole, Plain
<1>2. CASE Creates(r) /\ api'[r].wrote
  <2>1. r \in clean /\ api[r].pc = "create" /\ api[r].in.op = "upload"
    BY <1>2, WritesAlone DEF Creates
  <2>2. \A x \in secrets' : x \in secrets \/ (x = Made(r) /\ x.name = api[r].in.name)
    BY <1>2 DEF Creates
  <2>3. api[r].in.name \notin requested => \A x \in secrets : x.name # api[r].in.name
    BY <2>1 DEF NoneYet, Uploads
  <2> QED BY <1>0, <2>2, <2>3 DEF Sole, Plain
<1>3. CASE Writes(r)
  <2>1. \A x \in secrets' : \/ x \in secrets /\ x # api[r].secret
                            \/ x = Written(r) /\ x.name = api[r].secret.name
    BY <1>3 DEF Writes
  <2>2. api[r].secret \in secrets
    BY <1>3 DEF Writes
  <2> QED BY <1>0, <2>1, <2>2 DEF Sole, Plain
<1> QED BY <1>1, <1>2, <1>3 DEF Bears

LEMMA NoneYetStep ==
    ASSUME Api, Api', Identity, NoneYet, NEW r \in Active, Step(r), Bears(r)
    PROVE  NoneYet'
<1> SUFFICES ASSUME NEW k \in clean', Uploads(k)', api'[k].pc = "create",
                    NEW s \in secrets'
             PROVE  s.name # api'[k].in.name
  BY DEF NoneYet
<1>0. k \in clean /\ k \in Active' /\ requested' = requested
  BY DEF Api, History, Alone, Step
<1>1. CASE k # r
  <2>1. api'[k] = api[k] /\ k \in Active /\ Uploads(k)
    BY <1>0, <1>1 DEF Step, Moved, Active, Uploads
  <2>2. ~Touches(api[r].in, api[k].in) /\ api[r].in \in Inp /\ api[k].in \in Inp
    BY <1>0, <1>1, <2>1, ApiTypes DEF Api, History, Alone
  <2>3. api[r].in.op = "upload" => api[r].in.name # api[k].in.name
    BY <2>1, <2>2, OtherSubject DEF Uploads
  <2>4. \/ s \in secrets
        \/ (Creates(r) \/ Writes(r)) /\ s.name = api[r].in.name
    BY SecretsStep
  <2>5. (Creates(r) \/ Writes(r)) => api[r].in.op = "upload"
    BY DEF Creates, Writes
  <2> QED BY <1>0, <2>1, <2>3, <2>4, <2>5 DEF NoneYet
<1>2. CASE k = r
  <2>1. api'[r].in = api[r].in /\ \A x \in secrets : x.name # api[r].in.name
    BY <1>2 DEF Step, Bears
  <2>2. secrets' = secrets
    BY <1>2 DEF Bears, Keeps, Creates, Writes, Deletes
  <2> QED BY <1>2, <2>1, <2>2
<1> QED BY <1>1, <1>2

LEMMA AsFoundStep ==
    ASSUME Api, Identity, AsFound, Single(secrets), Single(secrets'),
           NEW r \in Active, Step(r), Bears(r)
    PROVE  AsFound'
<1> SUFFICES ASSUME ~Lost', NEW k \in Active', Uploads(k)', api'[k].pc \in {"write", "update"},
                    NEW s \in secrets', s.id = api'[k].secret.id
             PROVE  s = api'[k].secret
  BY DEF AsFound
<1>0. ~Lost /\ requested' = requested /\ k \in Requests
  BY LostStays DEF Step, Active
<1>1. CASE k # r
  <2>1. api'[k] = api[k] /\ k \in Active /\ Uploads(k)
    BY <1>1 DEF Step, Moved, Active, Uploads
  <2>2. Holds(api[k]) /\ api[k].secret \in Objects /\ api[k].secret.name = api[k].in.name
    BY <1>0, <2>1 DEF Holds, Uploads, Identity, Objects
  <2>3. CASE s \in secrets
    BY <1>0, <2>1, <2>3 DEF AsFound
  <2>4. CASE \A j \in Requests : Holds(api[j]) => api[j].secret.id # s.id
    BY <1>0, <2>1, <2>2, <2>4
  <2>5. CASE /\ Writes(r) /\ api'[r].wrote /\ api[r].secret \in secrets
             /\ s.id = api[r].secret.id /\ s.name = api[r].secret.name
             /\ s.name = api[r].in.name
    <3>1. api[r].secret \in Objects
      BY <2>5 DEF Objects
    <3>2. api[k].in.name = api[r].in.name
      <4>1. \A x, y \in Objects : x.id = y.id => x.name = y.name
        BY DEF Identity, Sound
      <4>2. api[k].secret.id = api[r].secret.id
        BY <2>1, <2>5
      <4>3. api[k].secret.name = api[r].secret.name
        BY <2>2, <3>1, <4>1, <4>2
      <4> QED BY <2>2, <2>5, <4>3
    <3>3. api[k].in.op = "upload"
      BY <2>1 DEF Uploads
    <3> QED BY <1>1, <2>1, <2>5, <3>2, <3>3, WritesAlone
  <2> QED BY <2>3, <2>4, <2>5, SecretsStep
<1>2. CASE k = r
  <2>1. api'[r].in = api[r].in /\ api'[r].in.op = "upload" /\ Uploads(r) /\ Holds(api'[r])
    BY <1>0, <1>2 DEF Step, Uploads, Holds
  <2>2. CASE Keeps(r)
    <3>1. CASE api'[r].secret \in secrets
      BY <1>2, <2>2, <3>1 DEF Keeps, Single
    <3>2. CASE api'[r].secret \notin secrets
      <4>1. /\ api'[r].secret = api[r].secret /\ api[r].pc = "write"
        BY <1>2, <2>1, <2>2, <3>2 DEF Keeps
      <4> QED BY <1>0, <1>2, <2>1, <2>2, <4>1 DEF Keeps, AsFound
    <3> QED BY <3>1, <3>2
  <2>3. CASE Creates(r) \/ Writes(r)
    <3>1. api'[r].secret \in secrets'
      BY <2>3 DEF Creates, Writes
    <3> QED BY <1>2, <3>1 DEF Single
  <2>4. CASE Deletes(r)
    BY <1>2, <2>4 DEF Deletes
  <2> QED BY <2>2, <2>3, <2>4 DEF Bears
<1> QED BY <1>1, <1>2

LEMMA AgreeStep ==
    ASSUME Api, Api', Identity, AsFound, Agree, DistinctIds(tls'),
           NEW r \in Active, Step(r), Bears(r)
    PROVE  Agree'
<1> SUFFICES ASSUME ~Lost', NEW e \in ToSet(tls'), NEW s \in secrets', e.id = s.id,
                    s.name \notin requested'
             PROVE  e.hosts = s.cert.hosts \/ Rewritten(s)'
  BY DEF Agree, Plain
<1>0. ~Lost /\ requested' = requested /\ ~partial' /\ r \in Requests
  BY LostStays DEF Step, Lost, Active
<1>1. CASE s \in secrets
  <2>1. CASE e \in ToSet(tls)
    <3>1. ASSUME NEW q \in Active, api[q].wrote, api[q].secret = s
          PROVE  e.hosts = s.cert.hosts \/ Rewritten(s)'
      <4>1. CASE q = r
        <5>1. EntryOf(s) \in ToSet(tls') /\ EntryOf(s).id = s.id /\ EntryOf(s).hosts = s.cert.hosts
          BY <1>0, <3>1, <4>1, BindsIt DEF EntryOf
        <5>2. EntryOf(s) = e
          BY <5>1 DEF ToSet, DistinctIds
        <5> QED BY <5>1, <5>2
      <4>2. CASE q # r
        <5>1. api'[q] = api[q] /\ q \in Active'
          BY <4>2 DEF Step, Moved, Active
        <5> QED BY <3>1, <5>1 DEF Rewritten
      <4> QED BY <4>1, <4>2
    <3> QED BY <1>0, <1>1, <2>1, <3>1 DEF Agree, Plain, Rewritten
  <2>2. CASE e \notin ToSet(tls)
    <3>1. /\ api[r].pc = "update" /\ api[r].in.op = "upload" /\ api[r].secret \in Secret
          /\ e = EntryOf(api[r].secret)
      BY <2>2, TlsStep
    <3>2. e.id = api[r].secret.id /\ e.hosts = api[r].secret.cert.hosts
      BY <3>1 DEF EntryOf
    <3>3. Holds(api[r]) /\ api[r].secret \in Objects /\ s \in Objects
      BY <1>0, <1>1, <3>1 DEF Holds, Objects
    <3>4. api[r].in.name = s.name
      BY <1>0, <3>2, <3>3 DEF Identity, Sound
    <3>5. s = api[r].secret
      BY <1>0, <1>1, <3>1, <3>2, <3>4 DEF AsFound, Uploads
    <3> QED BY <3>2, <3>5
  <2> QED BY <2>1, <2>2
<1>2. CASE s \notin secrets
  <2>1. Writes(r) /\ api'[r].wrote /\ s = Written(r)
    BY <1>2, SecretsStep
  <2>2. r \in Active' /\ api'[r].secret = s
    BY <1>0, <2>1 DEF Writes, Active
  <2> QED BY <2>1, <2>2 DEF Rewritten
<1> QED BY <1>1, <1>2

\* What GetCertificates tells of a name that cert-manager was never asked for.
LEMMA ShownIfBound ==
    ASSUME Sole, ~Lost, NEW s \in secrets, Plain(s), NEW e \in ToSet(tls), e.id = s.id
    PROVE  \E c \in GetCertificates : c.name = s.name /\ c.hosts = s.cert.hosts
<1> DEFINE Show(t) == [name |-> t.name, hosts |-> t.cert.hosts]
           Shown(ids) == {Show(t) : t \in {u \in secrets : u.id \in ids}}
           given == Shown({n.id : n \in nginx})
           all == Shown({t.id : t \in ToSet(tls)})
           bound == {c \in all : \A g \in given : g.name # c.name}
<1>1. given \cup bound \subseteq GetCertificates
  BY DEF GetCertificates
<1>2. Show(s) \in all
  OBVIOUS
<1>3. CASE \A g \in given : g.name # s.name
  <2>1. Show(s) \in bound
    BY <1>2, <1>3
  <2> QED BY <1>1, <2>1
<1>4. CASE \E g \in given : g.name = s.name
  <2>1. PICK g \in given : g.name = s.name
    BY <1>4
  <2>2. PICK t \in secrets : g = Show(t)
    OBVIOUS
  <2>3. t = s
    BY <2>1, <2>2 DEF Sole
  <2> QED BY <1>1, <2>1, <2>2, <2>3
<1> QED BY <1>3, <1>4

LEMMA CheckedStep ==
    ASSUME Api, Identity, Sole, AsSent, Agree, Checked, NEW r \in Active, Step(r), Bears(r)
    PROVE  Checked'
<1> SUFFICES ASSUME ~Lost', NEW k \in Active', k \notin stale', Uploads(k)',
                    api'[k].pc \in {"lookup", "create", "write", "update"},
                    NEW e \in ToSet(tls'), NEW s \in secrets', e.id = s.id,
                    s.name \notin requested', s.name # api'[k].in.name,
                    e.hosts = s.cert.hosts
             PROVE  e.hosts \cap api'[k].in.hosts = {}
  BY DEF Checked, Plain
<1>0. ~Lost /\ requested' = requested /\ k \in Requests /\ r \in Requests
  BY LostStays DEF Step, Active
<1>1. tls' = tls
  <2>1. SUFFICES ASSUME tls' # tls PROVE FALSE
    OBVIOUS
  <2>2. stale' = Active \ {r} /\ api'[r].pc \in {"done", "delete"}
    BY <2>1 DEF Bears
  <2>3. k # r
    BY <2>2
  <2>4. k \in Active
    BY <2>3 DEF Step, Moved, Active
  <2> QED BY <2>2, <2>3, <2>4
<1>2. CASE k # r
  <2>1. api'[k] = api[k] /\ k \in Active /\ Uploads(k)
    BY <1>0, <1>2 DEF Step, Moved, Active, Uploads
  <2>2. k \notin stale
    BY <1>2, <2>1 DEF Bears, Outdated
  <2>3. CASE s \in secrets
    BY <1>0, <1>1, <2>1, <2>2, <2>3 DEF Checked, Plain
  <2>4. CASE /\ Writes(r) /\ api'[r].wrote /\ api[r].secret \in secrets
             /\ s.id = api[r].secret.id /\ s.name = api[r].secret.name
             /\ s.name = api[r].in.name
    <3> DEFINE o == api[r].secret
    <3>1. e.hosts = o.cert.hosts
      <4>1. SUFFICES ASSUME e.hosts # o.cert.hosts PROVE FALSE
        OBVIOUS
      <4>0. o \in secrets /\ Plain(o) /\ e \in ToSet(tls) /\ e.id = o.id
        BY <1>0, <1>1, <2>4 DEF Plain
      <4>2. PICK q \in Active : api[q].wrote /\ api[q].secret = o
        <5>1. Rewritten(o)
          BY <1>0, <4>0, <4>1 DEF Agree
        <5> QED BY <5>1 DEF Rewritten
      <4>3. q # r
        BY <2>4, <4>2, ApiTypes DEF InFlight, Writes
      <4>4. api[q].pc = "update" /\ api[q].in.op = "upload" /\ q \in Requests
        BY <4>2, ApiTypes DEF InFlight
      <4>5. api[q].in.name = api[r].in.name
        BY <2>4, <4>2, <4>4 DEF Identity, Holds
      <4> QED BY <2>4, <4>3, <4>4, <4>5, WritesAlone
    <3> QED BY <1>0, <1>1, <2>1, <2>2, <2>4, <3>1 DEF Checked, Plain
  <2> QED BY <2>3, <2>4, SecretsStep
<1>3. CASE k = r
  <2>1. api'[r].in = api[r].in /\ Uploads(r)
    BY <1>0, <1>3 DEF Step, Uploads
  <2>2. s \in secrets
    BY <1>3, <2>1, SecretsStep
  <2>3. CASE api'[r].pc = "lookup"
    <3>1. PICK c \in GetCertificates : c.name = s.name /\ c.hosts = s.cert.hosts
      BY <1>0, <1>1, <2>2, ShownIfBound DEF Plain
    <3> QED BY <1>3, <2>1, <2>3, <3>1 DEF Bears, Uploads
  <2>4. CASE api'[r].pc # "lookup"
    <3>1. api[r].pc \in {"lookup", "create", "write"}
      BY <1>3, <2>1, <2>4 DEF Bears, Uploads
    <3>2. r \notin stale
      BY <1>3, <3>1 DEF Bears, Outdated
    <3> QED BY <1>0, <1>1, <1>3, <2>1, <2>2, <3>1, <3>2 DEF Checked, Plain
  <2> QED BY <2>3, <2>4
<1> QED BY <1>2, <1>3

LEMMA ApartStep ==
    ASSUME Api, Identity, AsSent, Agree, Checked, Apart, NEW r \in Active, Step(r), Bears(r)
    PROVE  Apart'
<1> SUFFICES ASSUME ~Lost', NEW e \in ToSet(tls'), NEW f \in ToSet(tls'),
                    NEW s \in secrets', NEW t \in secrets', e.id = s.id, f.id = t.id,
                    s.name \notin requested', t.name \notin requested', s.name # t.name
             PROVE  e.hosts \cap f.hosts = {}
  BY DEF Apart, Plain
<1>0. ~Lost /\ requested' = requested /\ r \in Requests
  BY LostStays DEF Step, Active
<1>1. ASSUME NEW x \in secrets', \E g \in ToSet(tls') : g.id = x.id
      PROVE  \E y \in secrets : y.id = x.id /\ y.name = x.name
  BY <1>1, SecretsStep
<1>2. PICK a \in secrets : a.id = e.id /\ a.name = s.name
  BY <1>1
<1>3. PICK b \in secrets : b.id = f.id /\ b.name = t.name
  BY <1>1
<1>4. ASSUME NEW g \in ToSet(tls'), NEW h \in ToSet(tls), NEW x \in secrets, NEW y \in secrets,
             x.id = g.id, y.id = h.id, x.name # y.name, Plain(x), Plain(y), g \notin ToSet(tls)
      PROVE  g.hosts \cap h.hosts = {}
  <2> DEFINE u == api[r].secret
  <2>1. /\ api[r].pc = "update" /\ r \notin stale /\ api[r].in.op = "upload" /\ u \in Secret
        /\ g = EntryOf(u) /\ tls' # tls
    BY <1>4, TlsStep
  <2>2. g.id = u.id /\ g.hosts = u.cert.hosts
    BY <2>1, SecretFacts
  <2>3. Holds(api[r]) /\ u \in Objects /\ x \in Objects /\ u.name = api[r].in.name
    BY <1>0, <2>1 DEF Holds, Objects, Identity
  <2>4. x.name = api[r].in.name
    BY <1>4, <2>2, <2>3 DEF Identity, Sound
  <2>5. Uploads(r) /\ g.hosts = api[r].in.hosts
    <3>1. Uploads(r)
      BY <1>4, <2>1, <2>4 DEF Uploads, Plain
    <3>2. u.cert = CertData(api[r].in)
      BY <2>1 DEF AsSent
    <3>3. u.cert.hosts = api[r].in.hosts
      BY <3>2 DEF CertData
    <3> QED BY <2>2, <3>1, <3>3
  <2>6. h.hosts = y.cert.hosts
    <3>1. SUFFICES ASSUME h.hosts # y.cert.hosts PROVE FALSE
      OBVIOUS
    <3>2. PICK q \in Active : api[q].wrote /\ api[q].secret = y
      BY <1>0, <1>4, <3>1 DEF Agree, Rewritten
    <3>3. q # r
      BY <1>4, <2>3, <2>4, <3>2
    <3>4. api'[q] = api[q] /\ q \in Active' /\ q \in stale'
      BY <2>1, <3>3 DEF Step, Moved, Active, Bears
    <3> QED BY <3>2, <3>4 DEF Lost
  <2>7. h.hosts \cap api[r].in.hosts = {}
    BY <1>0, <1>4, <2>1, <2>4, <2>5, <2>6 DEF Checked
  <2> QED BY <2>5, <2>7
<1>5. Plain(a) /\ Plain(b) /\ a.name # b.name
  BY <1>0, <1>2, <1>3 DEF Plain
<1>6. CASE e \in ToSet(tls) /\ f \in ToSet(tls)
  BY <1>0, <1>2, <1>3, <1>5, <1>6 DEF Apart
<1>7. CASE e \notin ToSet(tls) /\ f \in ToSet(tls)
  BY <1>2, <1>3, <1>4, <1>5, <1>7
<1>8. CASE e \in ToSet(tls) /\ f \notin ToSet(tls)
  BY <1>2, <1>3, <1>4, <1>5, <1>8
<1>9. CASE e \notin ToSet(tls) /\ f \notin ToSet(tls)
  <2>1. e = EntryOf(api[r].secret) /\ f = EntryOf(api[r].secret)
    BY <1>9, TlsStep
  <2>2. a \in Objects /\ b \in Objects /\ a.id = b.id
    BY <1>2, <1>3, <2>1 DEF Objects
  <2> QED BY <1>5, <2>2 DEF Identity, Sound
<1> QED BY <1>6, <1>7, <1>8, <1>9

\* Steps that leave the requests and what is Plain alone, and the start of a
\* request, keep it too.
LEMMA HostsRests ==
    ASSUME HostsInv, Identity', UNCHANGED <<tls, partial>>, requested \subseteq requested',
           Active' \subseteq Requests,
           \A q \in Active : q \in Active' /\ api'[q] = api[q],
           \A q \in Active' \ Active : api'[q].pc = "read",
           \A q \in clean' : (q \in clean /\ q \in Active) \/ api'[q].pc = "read",
           \A q \in Active \ clean : q \notin clean',
           \A q \in Active \cap stale : q \in stale',
           \A n : n \notin requested' => Untouched(n)
    PROVE  HostsInv'
<1>1. ~Lost' => ~Lost
  BY DEF Lost
<1>2. ASSUME NEW s \in secrets', Plain(s)'
      PROVE  s \in secrets /\ Plain(s)
  BY <1>2 DEF Plain, Untouched
<1>3. ASSUME NEW q \in Active', api'[q].pc # "read"
      PROVE  q \in Active /\ api'[q] = api[q]
  BY <1>3
<1>4. ASSUME NEW q \in Active, Uploads(q)'
      PROVE  Uploads(q)
  BY <1>4 DEF Uploads
<1>5. Sole'
  <2> SUFFICES ASSUME ~Lost', NEW s \in secrets', NEW t \in secrets', Plain(s)', s.name = t.name
               PROVE  s = t
    BY DEF Sole
  <2>1. Plain(t)'
    BY DEF Plain
  <2> QED BY <1>1, <1>2, <2>1 DEF HostsInv, Sole
<1>6. NoneYet'
  <2> SUFFICES ASSUME NEW r \in clean', Uploads(r)', api'[r].pc = "create",
                      NEW s \in secrets', s.name = api'[r].in.name
               PROVE  FALSE
    BY DEF NoneYet
  <2>1. r \in clean /\ r \in Active /\ api'[r] = api[r] /\ Uploads(r)
    BY <1>4
  <2>2. s \in secrets
    BY <1>2 DEF Plain, Uploads
  <2> QED BY <2>1, <2>2 DEF HostsInv, NoneYet
<1>7. AsFound'
  <2> SUFFICES ASSUME ~Lost', NEW r \in Active', Uploads(r)', api'[r].pc \in {"write", "update"},
                      NEW s \in secrets', s.id = api'[r].secret.id
               PROVE  s = api'[r].secret
    BY DEF AsFound
  <2>1. r \in Active /\ api'[r] = api[r] /\ Uploads(r)
    BY <1>3, <1>4
  <2>2. Holds(api'[r]) /\ r \in Requests
    BY DEF Holds, Uploads
  <2>3. s \in Objects' /\ api'[r].secret \in Objects'
    BY <2>2 DEF Objects
  <2>4. \A x, y \in Objects' : x.id = y.id => x.name = y.name
    BY DEF Identity, Sound
  <2>5. s.name = api'[r].secret.name
    BY <2>3, <2>4
  <2>6. api'[r].secret.name = api'[r].in.name
    BY <2>2 DEF Identity
  <2>7. s \in secrets
    BY <1>2, <2>5, <2>6 DEF Plain, Uploads
  <2> QED BY <1>1, <2>1, <2>7 DEF HostsInv, AsFound
<1>8. AsSent'
  <2> SUFFICES ASSUME NEW r \in Active', api'[r].in.op = "upload", api'[r].pc = "update"
               PROVE  api'[r].secret.cert = CertData(api'[r].in)
    BY DEF AsSent, CertData
  <2>1. r \in Active /\ api'[r] = api[r]
    BY <1>3
  <2> QED BY <2>1 DEF HostsInv, AsSent
<1>9. DistinctIds(tls)'
  BY DEF HostsInv, DistinctIds
<1>10. Agree'
  <2> SUFFICES ASSUME ~Lost', NEW e \in ToSet(tls), NEW s \in secrets', e.id = s.id, Plain(s)',
                      e.hosts # s.cert.hosts
               PROVE  Rewritten(s)'
    BY DEF Agree
  <2>1. s \in secrets /\ Plain(s)
    BY <1>2
  <2>2. Rewritten(s)
    BY <1>1, <2>1 DEF HostsInv, Agree
  <2> QED BY <2>2 DEF Rewritten
<1>11. Checked'
  <2> SUFFICES ASSUME ~Lost', NEW r \in Active', r \notin stale', Uploads(r)',
                      api'[r].pc \in {"lookup", "create", "write", "update"},
                      NEW e \in ToSet(tls), NEW s \in secrets', e.id = s.id, Plain(s)',
                      s.name # api'[r].in.name, e.hosts = s.cert.hosts
               PROVE  e.hosts \cap api'[r].in.hosts = {}
    BY DEF Checked
  <2>1. r \in Active /\ api'[r] = api[r] /\ Uploads(r) /\ r \notin stale
    BY <1>3, <1>4
  <2>2. s \in secrets /\ Plain(s)
    BY <1>2
  <2> QED BY <1>1, <2>1, <2>2 DEF HostsInv, Checked
<1>12. Apart'
  BY <1>1, <1>2 DEF HostsInv, Apart
<1> QED BY <1>5, <1>6, <1>7, <1>8, <1>9, <1>10, <1>11, <1>12 DEF HostsInv, DistinctIds

LEMMA InitiallyHosts == Init => HostsInv
<1> SUFFICES ASSUME Init PROVE HostsInv
  OBVIOUS
<1>1. tls = <<>> /\ secrets = {} /\ clean = {} /\ Active = {}
  BY DEF Init, Active, IdleCall
<1>2. ToSet(tls) = {} /\ DOMAIN tls = {}
  BY <1>1 DEF ToSet
<1> QED
  BY <1>1, <1>2 DEF HostsInv, Sole, NoneYet, AsFound, AsSent, DistinctIds, Agree, Checked, Apart

LEMMA AlwaysHosts ==
    /\ CertificatesInv /\ CertificatesInv' /\ QuietInv /\ QuietInv'
    /\ HostsInv /\ [Next]_vars
    => HostsInv'
<1> SUFFICES ASSUME CertificatesInv, CertificatesInv', QuietInv, QuietInv', HostsInv, [Next]_vars
             PROVE  HostsInv'
  OBVIOUS
<1>0. /\ Api /\ Api' /\ CallTypes /\ World /\ Identity /\ Identity'
      /\ Single(secrets) /\ Single(secrets')
  BY DEF CertificatesInv, QuietInv, Single, Api
<1>1. ASSUME NEW r \in Requests, ApiStep(r), ~\E in \in Inputs[r] : Begin(r, in)
      PROVE  HostsInv'
  <2>1. r \in Active /\ Step(r)
    BY <1>0, <1>1, StepKinds DEF Step
  <2>2. Bears(r)
    BY <1>0, <1>1, <2>1, StepBears
  <2>3. /\ Sole /\ NoneYet /\ AsFound /\ AsSent
        /\ DistinctIds(tls) /\ Agree /\ Checked /\ Apart
    BY DEF HostsInv
  <2>4. DistinctIds(tls')
    BY <1>0, <2>1, <2>3, DistinctStep
  <2>5. Sole' /\ NoneYet' /\ AsFound' /\ AsSent'
    BY <1>0, <2>1, <2>2, <2>3, SoleStep, NoneYetStep, AsFoundStep, AsSentStep
  <2>6. Agree' /\ Checked' /\ Apart'
    BY <1>0, <2>1, <2>2, <2>3, <2>4, AgreeStep, CheckedStep, ApartStep
  <2> QED BY <2>4, <2>5, <2>6 DEF HostsInv, DistinctIds
<1>2. ASSUME NEW r \in Requests, NEW in \in Inputs[r], Begin(r, in)
      PROVE  HostsInv'
  <2>1. /\ Active' = Active \cup {r} /\ r \notin Active /\ api'[r].pc = "read"
        /\ \A q \in Active : api'[q] = api[q]
    BY <1>0, <1>2, NewlyActive, BeginEffect
  <2>2. /\ UNCHANGED <<tls, partial, secrets, stale>> /\ requested \subseteq requested'
    BY <1>2 DEF Begin, spec
  <2>3. \A q \in clean' : q = r \/ q \in clean
    BY <1>0, <1>2, BeginEffect
  <2>4. \A q \in clean : q \in Active
    BY <1>0 DEF Api, History, Alone
  <2>5. \A n : Untouched(n)
    BY <2>2 DEF Untouched
  <2>6. Active' \subseteq Requests
    BY DEF Active
  <2> QED BY <1>0, <2>1, <2>2, <2>3, <2>4, <2>5, <2>6, HostsRests
<1>3. ASSUME UNCHANGED <<tls, partial, api, clean, requested>>,
             \A q \in Active \cap stale : q \in stale',
             \A n : n \notin requested => Untouched(n)
      PROVE  HostsInv'
  <2>1. Active' = Active /\ Active \subseteq Requests
    BY <1>3 DEF Active
  <2>2. \A q \in clean : q \in Active
    BY <1>0 DEF Api, History, Alone
  <2> QED BY <1>0, <1>3, <2>1, <2>2, HostsRests
<1>4. CASE Reconcile \/ ReconcileFails \/ CertManager
  <2>1. Operates
    BY <1>0, <1>4, OtherSteps DEF Api, CertificatesInv
  <2>2. UNCHANGED <<tls, partial, api, clean, requested, stale>>
    BY <2>1 DEF Operates, spec, history
  <2>3. \A n : n \notin requested => Untouched(n)
    BY <1>0, <2>1, UntouchedRests
  <2> QED BY <1>3, <2>2, <2>3
<1>5. CASE OtherEdit
  <2>1. UNCHANGED <<tls, partial, secrets, api, clean, requested>> /\ stale' = Active
    BY <1>5 DEF OtherEdit, spec, history
  <2>2. \A n : Untouched(n)
    BY <2>1 DEF Untouched
  <2> QED BY <1>3, <2>1, <2>2
<1>6. CASE UNCHANGED vars
  <2>1. UNCHANGED <<tls, partial, secrets, api, clean, requested, stale>>
    BY <1>6 DEF vars, spec, history
  <2>2. \A n : Untouched(n)
    BY <2>1 DEF Untouched
  <2> QED BY <1>3, <2>1, <2>2
<1> QED BY <1>1, <1>2, <1>4, <1>5, <1>6 DEF Next

\* Uploads check the hosts against what they see, and then write a Secret and an
\* entry of Spec.TLS in two steps.  What makes the check good enough is that the
\* second step is refused if the instance has changed since the check, and that
\* one that finds nothing to change is sound unless its upload was overtaken
\* (partial): an upload whose copy is the instance's still knows every host that
\* is bound (Checked), provided each entry has its Secret's hosts (Agree).
THEOREM HostsDisjointAlways == Spec => []HostsDisjoint
<1>1. HostsInv => HostsDisjoint
  <2> SUFFICES ASSUME HostsInv, ~partial, \A r \in Active : ~api[r].wrote,
                      NEW s \in secrets, NEW t \in secrets,
                      s.id \in {e.id : e \in ToSet(tls)}, t.id \in {e.id : e \in ToSet(tls)},
                      s.name \notin requested, t.name \notin requested, s.name # t.name
               PROVE  s.cert.hosts \cap t.cert.hosts = {}
    BY DEF HostsDisjoint
  <2>1. ~Lost /\ Plain(s) /\ Plain(t) /\ ~Rewritten(s) /\ ~Rewritten(t)
    BY DEF Lost, Plain, Rewritten
  <2>2. PICK e \in ToSet(tls) : e.id = s.id
    OBVIOUS
  <2>3. PICK f \in ToSet(tls) : f.id = t.id
    OBVIOUS
  <2>4. e.hosts = s.cert.hosts /\ f.hosts = t.cert.hosts
    BY <2>1, <2>2, <2>3 DEF HostsInv, Agree
  <2> QED BY <2>1, <2>2, <2>3, <2>4 DEF HostsInv, Apart
<1>2. Spec => []HostsInv
  BY InitiallyHosts, AlwaysHosts, CertificatesInvariant, QuietInvariant, PTL DEF Spec
<1> QED BY <1>1, <1>2, PTL
=============================================================================
