CONSTANTS
    a = a  b = b  c = c  h1 = h1  h2 = h2  h3 = h3
    Requests = {r1, r2}
    Apps = {a, b, c}
    Hosts = {h1, h2, h3}
    BindArgs <- Binds
    PolicyArgs <- Policies
    BalanceArgs <- Balances
SPECIFICATION OptionsSpec
INVARIANTS CanaryForest OneWeightPerGroup OptionsServable
SYMMETRY Symmetry
