----------------------------- MODULE MCPodAccess -----------------------------
EXTENDS PodAccess

CONSTANTS p1, p2, s1, s2

\* One variant of each way to address an object.
StoredVariants == {<<"gzip", "path">>, <<"identity", "https">>}
=============================================================================
