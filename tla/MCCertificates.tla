--------------------------- MODULE MCCertificates ---------------------------
EXTENDS Certificates

CONSTANTS n1, n2, d, h1, h2

In(o, n, i, hosts, k) == [op |-> o, name |-> n, issuer |-> i, hosts |-> hosts, serial |-> k]

\* Uploads that renew, move to another host and compete for a host; requests
\* with a name and with neither name nor issuer; and the ways to undo them, once
\* there is something to undo.
Makes == {In("upload", n1, None, {h1}, 1), In("upload", n2, None, {h1}, 1),
          In("request", n1, d, {h1}, 0), In("request", None, None, {h2}, 0)}
Changes == {In("upload", n1, None, {h2}, 1), In("remove", n1, None, {}, 0),
            In("byIssuer", None, d, {}, 0), In("byName", n1, None, {}, 0)}
MCInputs == [r \in Requests |-> IF r = 1 THEN Makes ELSE Makes \cup Changes]

MCLegacy == {[name |-> None, issuer |-> d, hosts |-> {h1}]}
=============================================================================
