----------------------------- MODULE MCCluster ------------------------------
EXTENDS Cluster, TLC

CONSTANTS a, b, c, q1, q2, q3

MCRemote == {a, b, c}
MCPriority == a :> 1 @@ b :> 1 @@ c :> 2
MCRequest == {q1, q2, q3}

\* Every filter lets everything through, but for a and the third request.
MCAllowed == q1 :> MCRemote @@ q2 :> MCRemote @@ q3 :> {b, c}
=============================================================================
