--------------------------- MODULE MCMailProgress ---------------------------
(***************************************************************************)
(* Constants for model checking MailProgress.                              *)
(***************************************************************************)
EXTENDS MailProgress

MCMemberOf ==
    [s \in Session |-> IF Group = {} THEN None ELSE CHOOSE g \in Group : TRUE]
MCStamp == {1, 2}
=============================================================================
