------------------------- MODULE MCUpstreamOptions -------------------------
(* Small instances of UpstreamOptions. *)
EXTENDS UpstreamOptions, TLC

CONSTANTS a, b, c, h1, h2, h3

Plain == [weight |-> 0, weightTotal |-> 0, header |-> FALSE,
          headerValue |-> FALSE, headerPattern |-> FALSE, cookie |-> FALSE]

\* A share of the traffic, and the requests with a header.
Shaping == [Plain EXCEPT !.weight = 200, !.header = TRUE, !.headerValue = TRUE]

Binds == {[name |-> a, host |-> h1], [name |-> b, host |-> h2],
          [name |-> c, host |-> h3]}

\* The last one is refused.
Policies == {Plain, Shaping, [Plain EXCEPT !.header = TRUE]}

\* The second one is refused.
Balances == {[algorithm |-> "unset", hashKey |-> FALSE],
             [algorithm |-> "chash", hashKey |-> FALSE]}

\* Requests are interchangeable, and so are the apps of Binds, each
\* together with its address.
HostOf(x) == (CHOOSE y \in Binds : y.name = x).host
AppOf(h) == (CHOOSE y \in Binds : y.host = h).name
Symmetry ==
    Permutations(Requests) \cup
    {[x \in Apps \cup Hosts |->
         IF x \in Apps THEN p[x] ELSE HostOf(p[AppOf(x)])]
        : p \in Permutations(Apps)}
=============================================================================
