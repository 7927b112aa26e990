------------------------------ MODULE MCEdits ------------------------------
(* A small instance of Edits, and what it renders. *)
EXTENDS Rendering, TLC

CONSTANTS server, http, k, r, image, small, large, basic, frozen, loner, host, wild, other,
          a, b, d1, d2, page, s1, s2

SomeKeys == {k, r}
NoneWith(f) == IF f = loner THEN {basic} ELSE {}
SomeIncompatible == [f \in Flavors |-> NoneWith(f)]
SomeWildcards == [n \in {host, other, wild, None} |-> IF n = host THEN wild ELSE None]
SomeKeysOfPaths == [path \in {a, b} |-> path]
SomeCertificates == {[n \in {wild} |-> s1], [n \in {host, wild} |-> IF n = host THEN s1 ELSE s2],
                     [n \in {} |-> s1]}

Route(op, name, path, value) ==
    [op |-> op, key |-> <<name, path>>, value |-> value, server |-> None, type |-> None]
Block(op, name, type, value) ==
    [op |-> op, key |-> <<name, type>>, value |-> value, server |-> name, type |-> type]
Extending(content, extend) == [content |-> content, extend |-> extend]
Instance(op, plan, flavors, about, image0, items) ==
    [op |-> op, plan |-> plan, flavors |-> flavors, about |-> about,
     template |-> [t \in TemplateKeys |-> image0], items |-> items]
Saying(description, team, ip, lbName) ==
    [description |-> description, team |-> team, tags |-> d1, ip |-> ip, lbName |-> lbName]
NoItems == [i \in {} |-> d1]

Symmetry == Permutations(Clients)

SomeInputs ==
    {Route("UpdateRoute", None, a, d1), Route("UpdateRoute", host, a, d2),
     Route("UpdateRoute", None, b, page), Route("DeleteRoute", None, a, None),
     Route("UpdateRoute", None, a, Invalid),
     Block("UpdateBlock", None, http, d1), Block("UpdateBlock", None, server, d2),
     Block("DeleteBlock", None, http, None),
     Block("UpdateBlock", host, server, Extending(d1, TRUE)),
     Block("UpdateBlock", other, server, Extending(d2, FALSE)),
     Block("DeleteBlock", host, server, None),
     [op |-> "SetMetadata", items |-> [i \in {k} |-> d1]],
     [op |-> "UnsetMetadata", keys |-> {k}],
     [op |-> "Start"], [op |-> "Stop"],
     Instance("CreateInstance", None, <<frozen, basic>>, Saying(d1, d1, Absent, d1), Absent,
              NoItems),
     Instance("CreateInstance", large, <<>>, Saying(d1, d1, d1, Absent), d1, NoItems),
     Instance("UpdateInstance", None, <<frozen, loner>>, Saying(d2, d1, Absent, Absent), Absent,
              [i \in {k} |-> d2]),
     Instance("UpdateInstance", large, <<basic>>, Saying(d1, d2, d2, d2), d2, NoItems),
     [op |-> "DeleteInstance"]}
=============================================================================
