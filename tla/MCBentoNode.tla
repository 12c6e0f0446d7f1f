---------------------------- MODULE MCBentoNode ----------------------------
(* The proving node on small instances: an API process with two prove       *)
(* calls, and a second process with one.                                    *)
EXTENDS BentoNode, TLC

CONSTANTS t1, t2, t3, api, other

MCProcOf == t1 :> api @@ t2 :> api @@ t3 :> other
=============================================================================
