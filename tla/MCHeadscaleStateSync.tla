------------------------- MODULE MCHeadscaleStateSync -------------------------
(* Two machines: of users of one environment, or one of a user that is not *)
(* known here.                                                             *)
EXTENDS HeadscaleStateSync, TLC

CONSTANTS n1, n2, e1, e2, k1, m1, m2

MCNodes == {n1, n2}
MCEnvs == {e1, e2}
MCConns == {k1}
OneEnv == n1 :> e1 @@ n2 :> e1
OneUnknown == n1 :> e1 @@ n2 :> None
TwoMachines == n1 :> m1 @@ n2 :> m2
ForFirst == k1 :> e1
=============================================================================
