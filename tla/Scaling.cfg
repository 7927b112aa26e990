CONSTANTS
    Requests = {r1, r2, r3}
    ReplicasArgs <- Replicas
    AutoscaleArgs <- SomeSettings
    KEDAEnabled = TRUE
SPECIFICATION FairSpec
INVARIANTS QuiescentScaling
PROPERTIES EventuallyAutoscaled
