----------------------------- MODULE Deployment -----------------------------
(***************************************************************************)
(* The kinds of deployment that the governance components are looked at in:*)
(* one in which the transactions of different requests overlap, and one in *)
(* which they come one at a time.                                          *)
(***************************************************************************)
CONSTANT Overlap    \* which deployments: TRUE if transactions may overlap

ASSUME DeploymentOK == Overlap \subseteq BOOLEAN

VARIABLE overlap    \* external: the kind of deployment, fixed
=============================================================================
