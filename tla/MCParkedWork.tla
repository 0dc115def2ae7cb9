---------------------------- MODULE MCParkedWork ----------------------------
(***************************************************************************)
(* Constants for model checking ParkedWork.  Rows whose id is free look    *)
(* alike.                                                                  *)
(***************************************************************************)
EXTENDS ParkedWork, TLC

Symmetries == Permutations(Resume) \cup Permutations(Session)

SameRows ==
    <<[m \in Mail |->
          IF m \in Resume /\ Free(m) THEN AbsentRow
          ELSE IF mail[m].state \in {"cancelled", "discarded", "forwarded"}
            THEN [AbsentRow EXCEPT !.state = mail[m].state, !.next = mail[m].next]
          ELSE IF mail[m].state \in {"queued", "dead"}
            THEN [mail[m] EXCEPT !.by = None]
          ELSE mail[m]],
      alive, full, turn, last, asked, ruled, crashes, managed>>
=============================================================================
