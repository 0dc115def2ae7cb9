--------------------------- MODULE MCMailDelivery ---------------------------
(***************************************************************************)
(* Constants for model checking MailDelivery.  Every session is in the one *)
(* group, so that mail may go to a session or to any of them.              *)
(***************************************************************************)
EXTENDS MailDelivery, TLC

MCMemberOf ==
    [s \in Session |-> IF Group = {} THEN None ELSE CHOOSE g \in Group : TRUE]
MCStamp == {1, 2}
Symmetries == Permutations(Message)
=============================================================================
