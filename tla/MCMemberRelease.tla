-------------------------- MODULE MCMemberRelease --------------------------
(* Constants for model checking MemberRelease: every member and note is of *)
(* the first task.                                                         *)
EXTENDS MemberRelease, TLC

MCTaskOf == [m \in Member |-> CHOOSE t \in Task : TRUE]
MCAbout == [n \in Note |-> CHOOSE t \in Task : TRUE]
=============================================================================
