------------------------------ MODULE Rendering ------------------------------
(***************************************************************************)
(* The servers of the Nginx configuration that the operator renders from   *)
(* an instance, in every state that edits can bring it to.                 *)
(*                                                                         *)
(* The key of a route is a pair of a server (None: all of them) and a path *)
(* and the key of a server block a pair of a server and a type; values of  *)
(* server blocks tell whether they extend the block of all servers.  Lists *)
(* are described by what is at each place, and not by the loops that fill  *)
(* them, so that they can be reasoned about for lists of any length.       *)
(***************************************************************************)
EXTENDS Edits, SequencesExt

CONSTANTS
    Certificates,     \* certificates that Nginx may be given: Secrets of hosts
    WildcardOf,       \* the wildcard that covers each host, or None
    LocationKey,      \* the name of the upstream of each path
    Destinations      \* the values of routes that are not contents

\* No server is called None, and certificates are of some servers.
ASSUME NamesAssumption ==
    /\ WildcardOf[None] = None
    /\ \A tls \in Certificates :
          IsFiniteSet(DOMAIN tls) /\ None \notin DOMAIN tls /\ \A h \in DOMAIN tls : tls[h] # None

\* The keys of routes and of blocks of servers.
ASSUME KeysAssumption ==
    \A in \in Inputs :
        /\ in.op = "UpdateRoute" => in.key = <<in.key[1], in.key[2]>>
        /\ in.op = "UpdateBlock" /\ in.server # None => in.key = <<in.server, in.type>>

\* The entries of a list that are in S, in their order.
Selected(list, S) ==
    LET P == {i \in DOMAIN list : list[i] \in S}
        Place(i) == Cardinality({j \in P : j <= i})
    IN [k \in 1 .. Cardinality(P) |-> list[CHOOSE i \in P : Place(i) = k]]

LocationsOf(name) ==
    Selected(fields[Locations], {e \in ToSet(fields[Locations]) : e.key[1] = name})
isWildCard(host) == host \in {WildcardOf[h] : h \in DOMAIN WildcardOf} \ {None}

\* The servers that routes, server blocks or certificates name.
NamesIn(list) == {e.key[1] : e \in ToSet(list)} \ {None}
NamedServers(tls) ==
    NamesIn(fields[Locations]) \cup NamesIn(fields[ServerBlocks]) \cup DOMAIN tls

\* Routes of all servers come first, in a place that is counted by paths; the
\* ones of a server take the place of the same path, or come after them.
DefaultLocationsIndex(path) ==
    LET defaults == LocationsOf(None)
        last == Max({i \in DOMAIN defaults : defaults[i].key[2] = path})
    IN 1 + Cardinality({defaults[i].key[2] : i \in 1 .. last - 1})
HasDefault(path) == \E e \in ToSet(LocationsOf(None)) : e.key[2] = path
\* As ServerLocations, which only appends (a mutant).
AppendedLocations(name) == LocationsOf(None) \o LocationsOf(name)

ServerLocations(name) ==
    LET defaults == LocationsOf(None)
        own == LocationsOf(name)
        For(i) == {k \in DOMAIN own : /\ HasDefault(own[k].key[2])
                                      /\ DefaultLocationsIndex(own[k].key[2]) = i}
    IN [i \in DOMAIN defaults |-> IF For(i) = {} THEN defaults[i] ELSE own[Max(For(i))]]
       \o Selected(own, {e \in ToSet(own) : ~HasDefault(e.key[2])})

\* The block "server" of a server: the last one it has of its own, after the one
\* of all servers if it extends it.
DefaultBlock == IF fields[<<"block", ServerBlock>>] = Absent THEN <<>>
                ELSE <<fields[<<"block", ServerBlock>>]>>
ServerBlockContent(name) ==
    LET list == fields[ServerBlocks]
        own == {i \in DOMAIN list : list[i].key[1] = name}
        value == list[Max(own)].value
    IN IF own = {} THEN DefaultBlock
       ELSE (IF value.extend THEN DefaultBlock ELSE <<>>) \o <<value.content>>

\* The Secret for a host: its own, or the one of its wildcard.
TLSSecretName(name, tls) ==
    IF name \in DOMAIN tls THEN tls[name]
    ELSE IF WildcardOf[name] \in DOMAIN tls THEN tls[WildcardOf[name]] ELSE None

Server(name, tls) ==
    [name |-> name, default |-> FALSE, secret |-> TLSSecretName(name, tls),
     locations |-> ServerLocations(name), block |-> ServerBlockContent(name),
     http |-> FALSE, https |-> FALSE]
DefaultServer ==
    [name |-> None, default |-> TRUE, secret |-> None, locations |-> LocationsOf(None),
     block |-> DefaultBlock, http |-> FALSE, https |-> FALSE]

\* The default server, then exact names, then wildcards with a certificate; the
\* alphabetical order within each is any order here.
produceServers(tls) ==
    LET wildcards == {n \in NamedServers(tls) : isWildCard(n) /\ TLSSecretName(n, tls) # None}
        Sorted(names) == [i \in DOMAIN SetToSeq(names) |-> Server(SetToSeq(names)[i], tls)]
    IN <<DefaultServer>> \o Sorted(NamedServers(tls) \ wildcards) \o Sorted(wildcards)

\* As initListenOptions, which sets the options of every server (a mutant).
initEveryListenOptions(servers) ==
    [i \in DOMAIN servers |->
        [servers[i] EXCEPT !.http = servers[i].default, !.https = servers[i].secret # None]]

\* Nginx takes the options of a port from one of the servers that listen on it.
initListenOptions(servers) ==
    LET first(S) == {i \in S : \A j \in S : i <= j} IN
    [i \in DOMAIN servers |->
        [servers[i] EXCEPT
           !.http = i \in first({j \in DOMAIN servers : servers[j].default}),
           !.https = i \in first({j \in DOMAIN servers : servers[j].secret # None})]]

Render(tls) == initListenOptions(produceServers(tls))

\* An upstream for each route with a destination; they are named by path alone.
Upstreams ==
    LET routes == fields[Locations]
        proxied == Selected(routes, {e \in ToSet(routes) : e.value \in Destinations}) IN
    [i \in DOMAIN proxied |-> [key |-> LocationKey[proxied[i].key[2]], to |-> proxied[i].value]]

----------------------------------------------------------------------------
(* Properties. *)

Locating(server, path) == {i \in DOMAIN server.locations : server.locations[i].key[2] = path}

\* In whatever order routes were set, changed and deleted, each is served by its
\* server, and a route of all servers by each one that has no route of its own
\* for that path; no server has a path twice, which Nginx refuses; and a
\* request for it goes to its destination, as long as no other route has an
\* upstream of the same name.
RoutesServed ==
    \A tls \in Certificates : \A e \in ToSet(fields[Locations]) :
        /\ \A server \in ToSet(Render(tls)) :
              LET own == e.key[1] = server.name
                  served == \/ own
                            \/ e.key[1] = None /\ \A g \in ToSet(fields[Locations]) :
                                  g.key # <<server.name, e.key[2]>>
              IN served => \E i \in DOMAIN server.locations :
                              /\ Locating(server, e.key[2]) = {i}
                              /\ server.locations[i] = e
        /\ \E server \in ToSet(Render(tls)) : server.name = e.key[1]
        /\ e.value \in Destinations =>
              LET named == {i \in DOMAIN Upstreams : Upstreams[i].key = LocationKey[e.key[2]]}
              IN Cardinality(named) = 1 => \A i \in named : Upstreams[i].to = e.value

\* Whatever servers the edits have left, there is one for each name, one default
\* server, which has the options of the HTTP port, and one with the options of
\* the HTTPS port if any server has a certificate; a server block that was set
\* for a server is the one of that server.
ServersListen ==
    \A tls \in Certificates :
        LET servers == Render(tls)
            Only(Test(_)) == Cardinality({i \in DOMAIN servers : Test(servers[i])}) = 1 IN
        /\ Only(LAMBDA s : s.default) /\ Only(LAMBDA s : s.default /\ s.http)
        /\ \A i, j \in DOMAIN servers : servers[i].name = servers[j].name => i = j
        /\ (\E s \in ToSet(servers) : s.secret # None)
              => Only(LAMBDA s : s.https /\ s.secret # None) /\ Only(LAMBDA s : s.https)
        /\ \A s \in ToSet(servers) : WildcardOf[s.name] \in DOMAIN tls => s.secret # None
        /\ \A e \in ToSet(fields[ServerBlocks]) : \E s \in ToSet(servers) :
              /\ s.name = e.key[1] /\ s.block # <<>> /\ Last(s.block) = e.value.content
              /\ ~e.value.extend => Len(s.block) = 1
=============================================================================
