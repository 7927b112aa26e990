-------------------------- MODULE UpstreamOptions --------------------------
(***************************************************************************)
(* The API operations that edit Spec.Binds and Spec.UpstreamOptions of one *)
(* RpaasInstance: BindApp, UnbindApp, EnsureUpstreamOptions and            *)
(* DeleteUpstreamOptions.                                                  *)
(*                                                                         *)
(* Every operation reads the instance (GetInstance), validates and edits   *)
(* its private copy, and sends the difference between the two copies as a  *)
(* JSON merge patch (patchInstance).  The patch names only the fields that *)
(* changed, carries a changed list whole, and does not carry the           *)
(* resourceVersion that was read: the API server applies it to whatever    *)
(* the instance has become in the meantime.  Hence two atomic steps per    *)
(* request, the read (with the local work) and the patch, and any number   *)
(* of other requests in between.                                           *)
(*                                                                         *)
(* The two lists are sets of entries: nothing here depends on their order. *)
(***************************************************************************)
EXTENDS Integers

CONSTANTS
    Requests,     \* the API requests that can be in flight at the same time
    Apps,         \* names of tsuru apps
    Hosts,        \* addresses of tsuru apps
    BindArgs,     \* the binds (app and address) that clients ask for
    PolicyArgs,   \* traffic shaping policies that clients send
    BalanceArgs   \* load balance settings that clients send

\* A string field of a policy (header, value, pattern, cookie, hash key) is
\* TRUE iff it is not blank, all that the validations look at.
Policy == [weight : Int, weightTotal : Int, header : BOOLEAN,
           headerValue : BOOLEAN, headerPattern : BOOLEAN, cookie : BOOLEAN]

Balance == [algorithm : {"unset", "round_robin", "chash", "ewma", "unknown"},
            hashKey : BOOLEAN]

Bind == [name : Apps, host : Hosts]

ASSUME ArgsAssumption == /\ BindArgs \subseteq Bind
                         /\ PolicyArgs \subseteq Policy
                         /\ BalanceArgs \subseteq Balance

VARIABLES
    binds,            \* Spec.Binds
    upstreamOptions,  \* Spec.UpstreamOptions
    pending           \* the patch each request is about to send

optionsVars == <<binds, upstreamOptions, pending>>

UpstreamOption == [primary : Apps, canaries : SUBSET Apps,
                   policy : Policy, balance : Balance]

\* A pending patch of one list: the value that was read and the edited one.
Patch(field, values) == [field : {field}, old : values, new : values]

NoPatch == [field |-> "none"]

Pending == Patch("binds", SUBSET Bind)
           \cup Patch("upstreamOptions", SUBSET UpstreamOption)
           \cup {NoPatch}

----------------------------------------------------------------------------
(* Binds. *)

\* An app is refused only when its address is bound already: an app whose
\* address changed can be bound twice.
BindAppResult(bs, b) == bs \cup {b}

CanBindApp(bs, b) == \A x \in bs : x.host # b.host

\* The first bind of that name is removed.
UnbindAppResults(bs, app) == {bs \ {x} : x \in {y \in bs : y.name = app}}

----------------------------------------------------------------------------
(* Validation of upstream options. *)

Others(opts, app) == {uo \in opts : uo.primary # app}

IsReferencedAsCanary(opts, app) ==
    \E uo \in Others(opts, app) : app \in uo.canaries

HasWeight(opts, app) ==
    \E uo \in opts : uo.primary = app /\ uo.policy.weight > 0

HasTrafficShapingPolicy(policy) ==
    policy.weight > 0 \/ policy.header \/ policy.cookie

\* Only one canary bind is allowed per upstream.
ValidateUpstreamOptionsArgs(args) ==
    \A c, d \in args.canaries : c = d

ValidateCanaryBinds(opts, args) ==
    LET others == Others(opts, args.primary) IN
    /\ \A c \in args.canaries :
          /\ \E uo \in others : uo.primary = c
          /\ \A uo \in others : c \notin uo.canaries
          /\ \A uo \in others : uo.primary = c => uo.canaries = {}
    /\ \A c, d \in args.canaries :
          HasWeight(others, c) /\ HasWeight(others, d) => c = d

\* As ValidateTrafficShapingOptions, accepting a policy on a primary that has
\* a canary (a mutant).
ValidateHeadersOnly(args) ==
    /\ args.policy.header =>
          args.policy.headerValue \/ args.policy.headerPattern
    /\ ~(args.policy.headerValue /\ args.policy.headerPattern)

ValidateTrafficShapingOptions(args) ==
    /\ args.canaries # {} => ~HasTrafficShapingPolicy(args.policy)
    /\ args.policy.header =>
          args.policy.headerValue \/ args.policy.headerPattern
    /\ ~(args.policy.headerValue /\ args.policy.headerPattern)

\* The other members of the canary group of app carry no weight.
ValidateCanaryWeightRule(opts, app) ==
    \A uo \in opts :
        app \in uo.canaries =>
            \A c \in uo.canaries \ {app} : ~HasWeight(opts, c)

ValidateLoadBalanceOptions(args) ==
    /\ args.balance.algorithm # "unknown"
    /\ args.balance.algorithm = "chash" <=> args.balance.hashKey

CanEnsure(bs, opts, args) ==
    /\ ValidateUpstreamOptionsArgs(args)
    /\ \E b \in bs : b.name = args.primary
    /\ IsReferencedAsCanary(opts, args.primary) => args.canaries = {}
    /\ ValidateCanaryBinds(opts, args)
    /\ ValidateTrafficShapingOptions(args)
    /\ args.policy.weight > 0 /\ IsReferencedAsCanary(opts, args.primary)
          => ValidateCanaryWeightRule(opts, args.primary)
    /\ ValidateLoadBalanceOptions(args)

----------------------------------------------------------------------------
(* Edits of upstream options. *)

WithWeightTotal(policy) ==
    IF policy.weight > 0 /\ policy.weightTotal = 0
    THEN [policy EXCEPT !.weightTotal =
              IF policy.weight <= 100 THEN 100 ELSE policy.weight * 10]
    ELSE policy

\* As WithDefaults, without a total for weights above 100 (a mutant).
WithDefaultsUpTo100(args) ==
    [args EXCEPT
        !.policy.weightTotal = IF args.policy.weight \in 1..100 /\ @ = 0
                               THEN 100 ELSE @,
        !.balance.algorithm = IF @ = "unset" THEN "round_robin" ELSE @]

WithDefaults(args) ==
    [args EXCEPT
        !.policy = WithWeightTotal(args.policy),
        !.balance.algorithm = IF @ = "unset" THEN "round_robin" ELSE @]

\* An entry of the same primary bind is replaced, a new one is appended.
EnsureResults(opts, args) ==
    LET same == {uo \in opts : uo.primary = args.primary} IN
    IF same = {} THEN {opts \cup {WithDefaults(args)}}
    ELSE {(opts \ {uo}) \cup {WithDefaults(args)} : uo \in same}

\* As DeleteResult, leaving the references to the deleted bind (a mutant).
DeleteEntryOnly(opts, app) == Others(opts, app)

\* The entry goes, and every reference to it as a canary.
DeleteResult(opts, app) ==
    {[uo EXCEPT !.canaries = @ \ {app}] : uo \in Others(opts, app)}

----------------------------------------------------------------------------
(* Requests. *)

OptionsInit ==
    /\ binds = {}
    /\ upstreamOptions = {}
    /\ pending = [r \in Requests |-> NoPatch]

\* Request r has edited its copy of a list: it read old and will send new.
BeginEdit(r, list, old, new) ==
    /\ pending[r] = NoPatch
    /\ pending' = [pending EXCEPT
                      ![r] = [field |-> list, old |-> old, new |-> new]]
    /\ UNCHANGED <<binds, upstreamOptions>>

BindApp(r) ==
    \E b \in BindArgs :
        /\ CanBindApp(binds, b)
        /\ BeginEdit(r, "binds", binds, BindAppResult(binds, b))

UnbindApp(r) ==
    \E app \in Apps : \E new \in UnbindAppResults(binds, app) :
        BeginEdit(r, "binds", binds, new)

EnsureUpstreamOptions(r) ==
    /\ pending[r] = NoPatch
    /\ \E args \in [primary : Apps, canaries : SUBSET Apps,
                    policy : PolicyArgs, balance : BalanceArgs] :
          /\ CanEnsure(binds, upstreamOptions, args)
          /\ \E new \in EnsureResults(upstreamOptions, args) :
                BeginEdit(r, "upstreamOptions", upstreamOptions, new)

DeleteUpstreamOptions(r) ==
    \E app \in Apps :
        /\ \E uo \in upstreamOptions : uo.primary = app
        /\ BeginEdit(r, "upstreamOptions", upstreamOptions,
                     DeleteResult(upstreamOptions, app))

\* The API server's application of a merge patch to the current list: a list
\* that the request did not change is not in the patch.
MergePatch(patch, current) ==
    IF patch.new = patch.old THEN current ELSE patch.new

\* The API server applies the patch of r to the instance as it is now.
patchInstance(r) ==
    /\ pending[r] # NoPatch
    /\ pending' = [pending EXCEPT ![r] = NoPatch]
    /\ \/ /\ pending[r].field = "binds"
          /\ binds' = MergePatch(pending[r], binds)
          /\ UNCHANGED upstreamOptions
       \/ /\ pending[r].field = "upstreamOptions"
          /\ upstreamOptions' = MergePatch(pending[r], upstreamOptions)
          /\ UNCHANGED binds

\* The client goes away, or the API server refuses the patch or is out of
\* reach: nothing is written.
PatchFails(r) ==
    /\ pending[r] # NoPatch
    /\ pending' = [pending EXCEPT ![r] = NoPatch]
    /\ UNCHANGED <<binds, upstreamOptions>>

OptionsNext == \E r \in Requests :
    \/ BindApp(r) \/ UnbindApp(r)
    \/ EnsureUpstreamOptions(r) \/ DeleteUpstreamOptions(r)
    \/ patchInstance(r) \/ PatchFails(r)

OptionsSpec == OptionsInit /\ [][OptionsNext]_optionsVars

----------------------------------------------------------------------------
(* Properties. *)

\* The two lists and every patch in flight have the shape of the API types.
OptionsTypeOK ==
    /\ binds \in SUBSET Bind
    /\ upstreamOptions \in SUBSET UpstreamOption
    /\ pending \in [Requests -> Pending]

\* A list of options is a forest of depth one: one entry per primary bind, at
\* most one canary each, which is another entry, has no canary of its own and
\* no second parent.
IsCanaryForest(opts) ==
    /\ \A x, y \in opts : x.primary = y.primary => x = y
    /\ \A x \in opts : \A c \in x.canaries :
          /\ c # x.primary
          /\ x.canaries = {c}
          /\ \E y \in opts : y.primary = c /\ y.canaries = {}
          /\ \A y \in opts : c \in y.canaries => y = x

\* In a canary group only the canary shapes the traffic.
IsShapedByCanary(opts) ==
    \A x \in opts : x.canaries # {} => ~HasTrafficShapingPolicy(x.policy)

\* However requests overlap, and although each validates what it read and
\* writes over what it did not read, the stored options never contain a
\* dangling, chained, shared or repeated canary (upstream.go, the rules that
\* EnsureUpstreamOptions checks and DeleteUpstreamOptions restores).
CanaryForest == IsCanaryForest(upstreamOptions)

\* However requests overlap, an upstream with a canary has no policy of its
\* own and at most one bind of a canary group has a weight (the comment on
\* TrafficShapingPolicy.Weight in rpaasinstance_types.go).
OneWeightPerGroup ==
    \A x \in upstreamOptions :
        x.canaries # {} =>
            /\ ~HasTrafficShapingPolicy(x.policy)
            /\ \A c, d \in x.canaries \cup {x.primary} :
                  HasWeight(upstreamOptions, c) /\ HasWeight(upstreamOptions, d)
                      => c = d

\* Every stored option can be served: its algorithm is one of the supported
\* ones and has a hash key exactly if it hashes, a header comes with exactly
\* one way to match it, and a weight has a total to be a share of
\* (validateTrafficShapingOptions, validateLoadBalanceOptions and the defaults
\* that are applied after them).
OptionsServable ==
    \A x \in upstreamOptions :
        /\ x.balance.algorithm \in {"round_robin", "chash", "ewma"}
        /\ x.balance.algorithm = "chash" <=> x.balance.hashKey
        /\ x.policy.header => x.policy.headerValue # x.policy.headerPattern
        /\ x.policy.weight > 0 => x.policy.weightTotal # 0

\* A list is replaced by the result of one operation on a list that was stored
\* before: the change that a request made is the whole difference it makes.
AppliesOnlyItsEdit(patch, current, next) ==
    next = (current \ (patch.old \ patch.new)) \cup (patch.new \ patch.old)

\* The operations of mutation.go are "atomic operations": a patch changes the
\* stored list by the request's own edit and undoes nobody else's.
MutationsAreAtomic ==
    [][\A r \in Requests :
          patchInstance(r) =>
              IF pending[r].field = "binds"
              THEN AppliesOnlyItsEdit(pending[r], binds, binds')
              ELSE AppliesOnlyItsEdit(pending[r], upstreamOptions,
                                      upstreamOptions')]_optionsVars

=============================================================================
