--------------------------- MODULE MCPlanLanding ---------------------------
(***************************************************************************)
(* Constants for model checking PlanLanding: all changes in one execution. *)
(***************************************************************************)
EXTENDS PlanLanding

OneExec == [c \in 1..N |-> CHOOSE x \in Exec : TRUE]
=============================================================================
