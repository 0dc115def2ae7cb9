---------------------------- MODULE LandingSafety ----------------------------
(***************************************************************************)
(* Safety of PlanLanding.                                                  *)
(*                                                                         *)
(* The invariant says what a stage or a call may rely on when it goes on   *)
(* after an await: who has a stage, what Stop leaves of a change that has  *)
(* one, and which effects the executor has listed.                         *)
(***************************************************************************)
EXTENDS LandingTypes, FiniteSetTheorems

StagePlaces == {"stages", "head", "base", "write", "fetch", "poll", "accept"}
Calls == {"call", "merge", "view"}

(* Stages are left only while the first half of a pass performs them, and  *)
(* the one that is under way is of the kind its place says.                *)
Staged ==
    /\ \A c \in Change : run.plan[c] # "none" => run.at \in StagePlaces
    /\ LET stage == run.plan[run.now[1]] IN
       /\ run.at \in {"head", "base", "write"} => stage = "landing"
       /\ run.at = "poll" => stage = "outcome"
       /\ run.at \in {"fetch", "accept"} => stage \in {"outcome", "settle"}
    /\ run.at \in {"head", "base", "write", "fetch", "poll"}
         => change[run.now[1]].unknown = NoEffect

(* A change of a finished execution has landed, is landing, or its task    *)
(* was closed; one with a stage left landed, was cancelled, or settles.    *)
Finishing ==
    \A c \in Change :
        /\ change[c].state = "cancelled" => ~Runs(c)
        /\ ~Runs(c) => change[c].state \in {"landing", "landed"}
                       \/ task[c] # "open"
        /\ ~Runs(c) /\ run.plan[c] # "none" =>
              \/ change[c].state \in {"landed", "cancelled"}
              \/ change[c].state = "landing" /\ run.plan[c] = "settle"
        /\ run.plan[c] = "settle" =>
              ~Runs(c) /\ Last(c) # 0 /\ effects[c][Last(c)].kind = "merge"
        /\ change[c].state = "landed" =>
              run.plan[c] = "none" \/ (run.at = "accept" /\ run.now[1] = c)

(* An effect runs only while it is the executor's call; a change names an  *)
(* effect only when it is stopped and none may act.                        *)
Acting ==
    \A c \in Change :
        /\ \A i \in 1..Last(c) : effects[c][i].state = "running" =>
              run.at \in Calls /\ run.now = <<c, i>>
        /\ \A i, j \in LiveLanding(c) : i = j
        /\ change[c].unknown # NoEffect =>
              change[c].state \in {"stopped", "cancelled"} /\ LiveLanding(c) = {}

(* What the second half of a pass has listed. *)
Listed ==
    /\ run.at \in Calls =>
          /\ run.now[2] \in 1..Last(run.now[1])
          /\ change[run.now[1]].state # "landed"
    /\ \A p \in run.todo :
          LET c == p[1]
              e == effects[c][p[2]]
          IN  /\ run.at \in {"inspect", "due"} \cup Calls => p[2] \in 1..Last(c)
              /\ run.at = "inspect" => e.state = "unknown"
              /\ run.at \in {"due"} \cup Calls =>
                    \/ e.state = "cancelled"
                    \/ /\ e.state = "pending" /\ Runs(c)
                       /\ change[c].state = "landing"
                       /\ ~(run.at \in Calls /\ run.now[1] = c)

IInv ==
    /\ Typed /\ Staged /\ Finishing /\ Acting /\ Listed
    /\ SlotIsExclusive /\ MergeKeepsLanding

-----------------------------------------------------------------------------
(***************************************************************************)
(* Rows and the slot                                                       *)
(***************************************************************************)
\* A free slot is empty: who holds it in a running execution is landing.
LEMMA FreeIsEmpty ==
    ASSUME StoreTypeOK, SlotIsExclusive, SlotFree
    PROVE  slot = Nobody
BY DEF StoreTypeOK, SlotIsExclusive, SlotFree, Nobody

\* A transition keeps row and slot together when only a change of a running
\* execution enters landing, and only by a free slot.
LEMMA SlotStep ==
    ASSUME StoreTypeOK, SlotIsExclusive, exec' = exec,
           NEW c \in Change, NEW row \in Row, Transition(c, row),
           row.state = "landing" /\ change[c].state # "landing"
             => SlotFree /\ Runs(c)
    PROVE  SlotIsExclusive'
<1>1. c # Nobody /\ c \in Nat
  BY DEF Change, Nobody
<1>2. \A d \in Change : Runs(d)' = Runs(d)
  BY DEF Runs
<1>3. change[c].state # "landing" /\ row.state = "landing" => slot = Nobody
  BY FreeIsEmpty
<1>4. \A d \in Change : change'[d] = IF d = c THEN row ELSE change[d]
  BY DEF Transition, StoreTypeOK
<1>5. slot \in Change \cup {Nobody}
  BY DEF StoreTypeOK
<1>6. \A d \in Change : Runs(d) => (change'[d].state = "landing" <=> slot' = d)
  BY <1>1, <1>3, <1>4, <1>5 DEF Transition, SlotIsExclusive, Nobody, Change
<1>7. slot' # Nobody => slot' \in Change /\ Runs(slot')
  BY <1>1, <1>3, <1>5 DEF Transition, SlotIsExclusive
<1> QED
  BY <1>2, <1>6, <1>7 DEF SlotIsExclusive

\* While stages are performed nothing is called, so nothing runs.
LEMMA NothingRuns ==
    ASSUME Acting, run.at \notin Calls
    PROVE  \A c \in Change : \A i \in 1..Last(c) :
              effects[c][i].state # "running"
BY DEF Acting

-----------------------------------------------------------------------------
(***************************************************************************)
(* Stages                                                                  *)
(***************************************************************************)
(* The stage of the change is performed or under way. *)
OnStage(c) ==
    /\ run.at \in StagePlaces /\ run.plan[c] # "none"
    /\ run.at = "stages" \/ run.now[1] = c

\* A stage that ends: its change is left with a row and effects that the
\* invariant allows, and nothing of the other changes is touched.
LEMMA StageEndsWith ==
    ASSUME IInv, Typed', NEW c \in Change, OnStage(c),
           NEW row \in Row, NextStage(c),
           Transition(c, row), exec' = exec,
           \A d \in Change \ {c} : effects'[d] = effects[d],
           \A i \in 1..Last(c)' : effects'[c][i].state # "running",
           \A i, j \in LiveLanding(c)' : i = j,
           \A d \in Change : task[d] # "open" => task'[d] # "open",
           row.state = "landing" /\ change[c].state # "landing"
             => SlotFree /\ Runs(c),
           row.state = "cancelled" => ~Runs(c),
           ~Runs(c) => row.state \in {"landing", "landed"} \/ task'[c] # "open",
           row.unknown # NoEffect =>
              row.state \in {"stopped", "cancelled"} /\ LiveLanding(c)' = {}
    PROVE  IInv'
<1>1. StoreTypeOK /\ run \in Executor
  BY DEF IInv, Typed, TypeOK
<1>2. \A d \in Change : change'[d] = IF d = c THEN row ELSE change[d]
  BY <1>1 DEF Transition, StoreTypeOK
<1>3. /\ run'.at = "stages" /\ run'.todo = {}
      /\ \A d \in Change : run'.plan[d] # "none" =>
            d # c /\ run'.plan[d] = run.plan[d]
  BY <1>1, NextStageType DEF NextStage, Idle
<1>4. /\ \A d \in Change : Runs(d)' = Runs(d)
      /\ \A d \in Change \ {c} : /\ Last(d)' = Last(d)
                                /\ LiveLanding(d)' = LiveLanding(d)
  BY DEF Runs, Last, LiveLanding
<1>5. \A d \in Change : \A i \in 1..Last(d)' : effects'[d][i].state # "running"
  BY <1>4, NothingRuns DEF IInv, OnStage, StagePlaces, Calls
<1>6. Staged'
  BY <1>3 DEF Staged, StagePlaces
<1>7. Finishing'
  <2> SUFFICES ASSUME NEW d \in Change
               PROVE  /\ change'[d].state = "cancelled" => ~Runs(d)
                      /\ ~Runs(d) => change'[d].state \in {"landing", "landed"}
                                     \/ task'[d] # "open"
                      /\ ~Runs(d) /\ run'.plan[d] # "none" =>
                            \/ change'[d].state \in {"landed", "cancelled"}
                            \/ change'[d].state = "landing"
                               /\ run'.plan[d] = "settle"
                      /\ run'.plan[d] = "settle" =>
                            /\ ~Runs(d) /\ Last(d)' # 0
                            /\ effects'[d][Last(d)'].kind = "merge"
                      /\ change'[d].state = "landed" =>
                            \/ run'.plan[d] = "none"
                            \/ (run'.at = "accept" /\ run'.now[1] = d)
    BY <1>4 DEF Finishing
  <2>1. CASE d = c
    BY <1>2, <1>3, <2>1
  <2>2. CASE d # c
    <3>1. change[d].state = "landed" /\ run'.plan[d] # "none" => FALSE
      BY <1>3, <2>2 DEF IInv, Finishing, OnStage
    <3>2. Last(d)' = Last(d) /\ effects'[d] = effects[d]
      BY <1>4, <2>2
    <3>3. task[d] # "open" => task'[d] # "open"
      OBVIOUS
    <3> QED
      BY <1>2, <1>3, <2>2, <3>1, <3>2, <3>3 DEF IInv, Finishing
  <2> QED
    BY <2>1, <2>2
<1>8. Acting'
  <2>1. \A d \in Change : change'[d].unknown # NoEffect =>
           change'[d].state \in {"stopped", "cancelled"} /\ LiveLanding(d)' = {}
    BY <1>2, <1>4 DEF IInv, Acting
  <2>2. \A d \in Change : \A i, j \in LiveLanding(d)' : i = j
    BY <1>4 DEF IInv, Acting
  <2> QED
    BY <1>5, <2>1, <2>2 DEF Acting
<1>9. Listed'
  BY <1>3 DEF Listed, Calls
<1>10. SlotIsExclusive'
  BY <1>1, SlotStep DEF IInv
<1>11. MergeKeepsLanding'
  BY <1>5 DEF MergeKeepsLanding
<1> QED
  BY <1>6, <1>7, <1>8, <1>9, <1>10, <1>11 DEF IInv

\* A stage that ends and leaves the effects as they are.
LEMMA StageEnds ==
    ASSUME IInv, Typed', NEW c \in Change, OnStage(c),
           NEW row \in Row, NextStage(c),
           Transition(c, row), exec' = exec, effects' = effects,
           \A d \in Change : task[d] # "open" => task'[d] # "open",
           row.state = "landing" /\ change[c].state # "landing"
             => SlotFree /\ Runs(c),
           row.state = "cancelled" => ~Runs(c),
           ~Runs(c) => row.state \in {"landing", "landed"} \/ task'[c] # "open",
           row.unknown # NoEffect =>
              row.state \in {"stopped", "cancelled"} /\ LiveLanding(c) = {}
    PROVE  IInv'
<1>1. Last(c)' = Last(c) /\ LiveLanding(c)' = LiveLanding(c)
  BY DEF Last, LiveLanding
<1>2. \A i \in 1..Last(c) : effects[c][i].state # "running"
  BY NothingRuns DEF IInv, OnStage, StagePlaces, Calls
<1>3. \A i, j \in LiveLanding(c) : i = j
  BY DEF IInv, Acting
<1> QED
  BY <1>1, <1>2, <1>3, StageEndsWith

\* A stage that goes on: the change keeps its stage, and its row unless the
\* execution runs.
LEMMA StageGoesOn ==
    ASSUME IInv, Typed', NEW c \in Change, OnStage(c),
           NEW row \in Row, Transition(c, row),
           exec' = exec, effects' = effects, task' = task,
           run'.plan = run.plan, run'.now[1] = c,
           \/ run'.at \in {"head", "base", "write"} /\ run.plan[c] = "landing"
           \/ run'.at = "poll" /\ run.plan[c] = "outcome"
           \/ run'.at = "fetch" /\ run.plan[c] \in {"outcome", "settle"},
           row = change[c] \/ Runs(c),
           row.state = "landing" /\ change[c].state # "landing" => SlotFree,
           row.state \notin {"cancelled", "landed"} \/ row = change[c],
           change[c].state # "landed", row.unknown = NoEffect
    PROVE  IInv'
<1>1. StoreTypeOK /\ run \in Executor
  BY DEF IInv, Typed, TypeOK
<1>2. \A d \in Change : change'[d] = IF d = c THEN row ELSE change[d]
  BY <1>1 DEF Transition, StoreTypeOK
<1>3. \A d \in Change : /\ Runs(d)' = Runs(d) /\ Last(d)' = Last(d)
                        /\ LiveLanding(d)' = LiveLanding(d)
  BY DEF Runs, Last, LiveLanding
<1>4. \A d \in Change : \A i \in 1..Last(d) : effects[d][i].state # "running"
  BY NothingRuns DEF IInv, OnStage, StagePlaces, Calls
<1>5. Staged'
  BY <1>2 DEF Staged, StagePlaces
<1>6. Finishing'
  <2> SUFFICES ASSUME NEW d \in Change
               PROVE  /\ change'[d].state = "cancelled" => ~Runs(d)
                      /\ ~Runs(d) => change'[d].state \in {"landing", "landed"}
                                     \/ task[d] # "open"
                      /\ ~Runs(d) /\ run.plan[d] # "none" =>
                            \/ change'[d].state \in {"landed", "cancelled"}
                            \/ change'[d].state = "landing"
                               /\ run.plan[d] = "settle"
                      /\ run.plan[d] = "settle" =>
                            /\ ~Runs(d) /\ Last(d) # 0
                            /\ effects[d][Last(d)].kind = "merge"
                      /\ change'[d].state = "landed" =>
                            \/ run.plan[d] = "none"
                            \/ (run'.at = "accept" /\ run'.now[1] = d)
    BY <1>3 DEF Finishing
  <2>1. CASE d = c
    BY <1>2, <2>1 DEF IInv, Finishing
  <2>2. CASE d # c
    BY <1>2, <2>2 DEF IInv, Finishing, OnStage
  <2> QED
    BY <2>1, <2>2
<1>7. Acting'
  <2>1. \A d \in Change : change'[d].unknown # NoEffect =>
           change'[d].state \in {"stopped", "cancelled"} /\ LiveLanding(d) = {}
    BY <1>2 DEF IInv, Acting
  <2> QED
    BY <1>3, <1>4, <2>1 DEF IInv, Acting
<1>8. Listed'
  BY DEF Listed, Calls
<1>9. SlotIsExclusive'
  BY <1>1, SlotStep DEF IInv
<1>10. MergeKeepsLanding'
  BY <1>3, <1>4 DEF MergeKeepsLanding
<1> QED
  BY <1>5, <1>6, <1>7, <1>8, <1>9, <1>10 DEF IInv

\* A stage that is served or under way is one the pass has planned.
LEMMA StageIsPlanned ==
    ASSUME IInv, NEW c \in Change
    PROVE  /\ \A stage \in StageName : Serving(c, stage) =>
                OnStage(c) /\ run.at = "stages" /\ run.plan[c] = stage
           /\ \A place \in StagePlaces \ {"stages"} : On(c, place) =>
                OnStage(c) /\ run.at = place
           /\ \A place \in {"head", "base", "write"} : On(c, place) =>
                run.plan[c] = "landing" /\ change[c].unknown = NoEffect
           /\ On(c, "poll") =>
                run.plan[c] = "outcome" /\ change[c].unknown = NoEffect
           /\ On(c, "fetch") => change[c].unknown = NoEffect
BY DEF IInv, Staged, Serving, On, OnStage, StagePlaces, StageName

\* A change with a stage is not landed before its task is accepted, and of a
\* finished execution it was cancelled unless its merge is settled.
LEMMA StageOf ==
    ASSUME IInv, NEW c \in Change, OnStage(c), run.at # "accept"
    PROVE  /\ change[c].state # "landed"
           /\ ~Runs(c) =>
                 \/ change[c].state = "cancelled" /\ task[c] # "open"
                 \/ /\ change[c].state = "landing" /\ run.plan[c] = "settle"
                    /\ effects[c][Last(c)].kind = "merge"
           /\ change[c].state = "cancelled" => ~Runs(c)
           /\ change[c].unknown # NoEffect =>
                 change[c].state \in {"stopped", "cancelled"}
                 /\ LiveLanding(c) = {}
BY DEF IInv, Finishing, Acting, OnStage

\* A row that is left as it is.
LEMMA StandsStill ==
    ASSUME Typed, NEW c \in Change, UNCHANGED <<change, slot>>
    PROVE  change[c] \in Row /\ Transition(c, change[c])
BY ChangeType DEF Transition, Typed, TypeOK, StoreTypeOK

\* The row of a stopped change.
LEMMA StoppedRow ==
    ASSUME Typed, NEW c \in Change, NEW named \in Nat
    PROVE  /\ Stopped(c, named) \in Row
           /\ Stopped(c, named).state = "stopped"
           /\ Stopped(c, named).unknown = named
           /\ NoEffect \in Nat
<1>1. change[c] \in Row
  BY ChangeType DEF Typed
<1>2. Stopped(c, named).state = "stopped" /\ Stopped(c, named).unknown = named
  BY <1>1 DEF Stopped, Row
<1> QED
  BY <1>2, StoppedType DEF NoEffect, Typed, TypeOK

LEMMA InsertRoundSafe ==
    ASSUME IInv, Typed', NEW c \in Change, InsertRound(c)
    PROVE  IInv'
<1>1. OnStage(c) /\ run.at = "stages" /\ run.plan[c] = "result"
  BY StageIsPlanned DEF InsertRound, StageName
<1>2. NextStage(c) /\ exec' = exec /\ effects' = effects /\ task' = task
  BY DEF InsertRound
<1>3. CASE UNCHANGED <<change, slot>>
  BY <1>1, <1>2, <1>3, StandsStill, StageOf, StageEnds DEF IInv
<1>4. CASE /\ change[c].state \in {"implementing", "gating", "landing"}
           /\ Transition(c, [change[c] EXCEPT !.state = "gating",
                                              !.step = "none"])
  <2> DEFINE row == [change[c] EXCEPT !.state = "gating", !.step = "none"]
  <2>0. change[c] \in Row
    BY ChangeType DEF IInv, Typed
  <2>1. row \in Row
    BY <2>0, RowUpdateType DEF ChangeState
  <2>2. row.state = "gating" /\ row.unknown = change[c].unknown
    BY <2>0 DEF Row
  <2>3. Runs(c) /\ change[c].unknown = NoEffect
    BY <1>1, <1>4, StageOf
  <2> HIDE DEF row
  <2> QED
    BY <1>1, <1>2, <1>4, <2>1, <2>2, <2>3, StageEnds DEF row
<1> QED
  BY <1>3, <1>4 DEF InsertRound

LEMMA PushSafe ==
    ASSUME IInv, Typed', NEW c \in Change, Push(c)
    PROVE  IInv'
<1>1. OnStage(c) /\ run.at = "stages" /\ run.plan[c] = "push"
  BY StageIsPlanned DEF Push, StageName
<1>2. NextStage(c) /\ exec' = exec /\ effects' = effects /\ task' = task
  BY DEF Push, store
<1>3. CASE UNCHANGED <<change, slot>>
  BY <1>1, <1>2, <1>3, StandsStill, StageOf, StageEnds DEF IInv
<1>4. CASE Runs(c) /\ Transition(c, Stopped(c, NoEffect))
  <2> QED
    BY <1>1, <1>2, <1>4, StoppedRow, StageEnds DEF IInv
<1> QED
  BY <1>3, <1>4 DEF Push, store

LEMMA DecideSafe ==
    ASSUME IInv, Typed', NEW c \in Change, Decide(c)
    PROVE  IInv'
<1>1. OnStage(c) /\ run.at = "stages" /\ run.plan[c] = "decide"
  BY StageIsPlanned DEF Decide, StageName
<1>2. NextStage(c) /\ exec' = exec /\ effects' = effects /\ task' = task
  BY DEF Decide
<1>3. CASE UNCHANGED <<change, slot>>
  BY <1>1, <1>2, <1>3, StandsStill, StageOf, StageEnds DEF IInv
<1>4. CASE Transition(c, Stopped(c, NoEffect))
  BY <1>1, <1>2, <1>4, StoppedRow, StageOf, StageEnds DEF IInv
<1>5. CASE Transition(c, [change[c] EXCEPT !.passed = TRUE, !.step = "none"])
  <2> DEFINE row == [change[c] EXCEPT !.passed = TRUE, !.step = "none"]
  <2>1. change[c] \in Row
    BY ChangeType DEF IInv, Typed
  <2>2. row \in Row /\ row.state = change[c].state
        /\ row.unknown = change[c].unknown
    BY <2>1 DEF Row
  <2> HIDE DEF row
  <2> QED
    BY <1>1, <1>2, <1>5, <2>2, StageOf, StageEnds DEF row
<1> QED
  BY <1>3, <1>4, <1>5 DEF Decide

LEMMA FixSafe ==
    ASSUME IInv, Typed', NEW c \in Change, Undecided(c) \/ Fix(c)
    PROVE  IInv'
<1>1. OnStage(c) /\ run.at = "stages" /\ run.plan[c] \in {"decide", "fix"}
  BY StageIsPlanned DEF Undecided, Fix, StageName
<1>2. NextStage(c) /\ exec' = exec /\ effects' = effects /\ task' = task
  BY DEF Undecided, Fix, store
<1>3. CASE UNCHANGED <<change, slot>>
  BY <1>1, <1>2, <1>3, StandsStill, StageOf, StageEnds DEF IInv
<1>4. CASE change[c].state \in {"gating", "landing"} /\ Fix(c)
  <2> DEFINE row == [change[c] EXCEPT !.state = "implementing", !.step = "none"]
  <2>1. change[c] \in Row
    BY ChangeType DEF IInv, Typed
  <2>2. row \in Row
    BY <2>1, RowUpdateType DEF ChangeState
  <2>3. row.state = "implementing" /\ row.unknown = change[c].unknown
    BY <2>1 DEF Row
  <2>4. Runs(c) /\ change[c].unknown = NoEffect
    BY <1>1, <1>4, StageOf
  <2>5. Transition(c, row) \/ Transition(c, Stopped(c, NoEffect))
    BY <1>4 DEF Fix
  <2> HIDE DEF row
  <2>6. CASE Transition(c, row)
    BY <1>1, <1>2, <2>2, <2>3, <2>4, <2>6, StageEnds
  <2>7. CASE Transition(c, Stopped(c, NoEffect))
    BY <1>1, <1>2, <2>4, <2>7, StoppedRow, StageEnds DEF IInv
  <2> QED
    BY <2>5, <2>6, <2>7
<1> QED
  BY <1>3, <1>4 DEF Undecided, Fix, store

LEMMA EnterLandingSafe ==
    ASSUME IInv, Typed', NEW c \in Change, EnterLanding(c)
    PROVE  IInv'
<1>1. OnStage(c) /\ run.at = "stages" /\ run.plan[c] = "landing"
  BY StageIsPlanned DEF EnterLanding, StageName
<1>2. exec' = exec /\ effects' = effects /\ task' = task
  BY DEF EnterLanding
<1>3. change[c] \in Row /\ run \in Executor
  BY ChangeType DEF IInv, Typed, TypeOK
<1>4. change[c].state \in {"gating", "landing"}
         => Runs(c) /\ change[c].unknown = NoEffect
  BY <1>1, StageOf
<1>5. CASE NextStage(c) /\ UNCHANGED <<change, slot>>
  BY <1>1, <1>2, <1>5, StandsStill, StageOf, StageEnds DEF IInv
<1>6. ASSUME Begin(c, "head")
      PROVE  run'.at = "head" /\ run'.plan = run.plan /\ run'.now[1] = c
  BY <1>3, <1>6 DEF Begin, Executor
<1>7. CASE /\ change[c].state = "landing" /\ Begin(c, "head")
           /\ UNCHANGED <<change, slot>>
  BY <1>1, <1>2, <1>4, <1>6, <1>7, StandsStill, StageGoesOn DEF IInv
<1>8. CASE /\ change[c].state = "gating" /\ SlotFree
           /\ Transition(c, [change[c] EXCEPT !.state = "landing",
                                              !.step = "up-to-date"])
           /\ Begin(c, "head")
  <2> DEFINE row == [change[c] EXCEPT !.state = "landing",
                                      !.step = "up-to-date"]
  <2>1. row \in Row
    BY <1>3, RowUpdateType DEF ChangeState
  <2>2. row.state = "landing" /\ row.unknown = change[c].unknown
    BY <1>3 DEF Row
  <2> HIDE DEF row
  <2> QED
    BY <1>1, <1>2, <1>4, <1>6, <1>8, <2>1, <2>2, StageGoesOn DEF row
<1>9. CASE /\ change[c].state = "gating" /\ NextStage(c)
           /\ Transition(c, [change[c] EXCEPT !.step = "awaiting-slot"])
  <2> DEFINE row == [change[c] EXCEPT !.step = "awaiting-slot"]
  <2>1. row \in Row
    BY <1>3, RowUpdateType DEF ChangeState
  <2>2. row.state = "gating" /\ row.unknown = change[c].unknown
    BY <1>3, <1>9 DEF Row
  <2> HIDE DEF row
  <2> QED
    BY <1>1, <1>2, <1>4, <1>9, <2>1, <2>2, StageEnds DEF row
<1> QED
  BY <1>5, <1>7, <1>8, <1>9 DEF EnterLanding

LEMMA ReadSafe ==
    ASSUME IInv, Typed', (\E c \in Change : ReadHead(c)) \/ ReadBase
    PROVE  IInv'
<1>1. run \in Executor /\ run.now[1] \in Change
  BY DEF IInv, Typed, TypeOK, Executor, Pair
<1> DEFINE c == run.now[1]
<1>2. /\ OnStage(c) /\ run.at \in {"head", "base"}
      /\ run.plan[c] = "landing" /\ change[c].unknown = NoEffect
  BY <1>1, StageIsPlanned DEF ReadHead, ReadBase, On, StagePlaces
<1>3. /\ run'.at \in {"base", "write"} /\ run'.plan = run.plan
      /\ run'.now = run.now
  BY <1>1 DEF ReadHead, ReadBase, Executor
<1>4. UNCHANGED <<change, slot>> /\ exec' = exec /\ effects' = effects
      /\ task' = task
  BY DEF ReadHead, ReadBase, store
<1>5. change[c] \in Row /\ Transition(c, change[c])
  BY <1>1, <1>4, StandsStill DEF IInv
<1>6. change[c].state # "landed"
  BY <1>1, <1>2, StageOf
<1> HIDE DEF c
<1> QED
  BY <1>1, <1>2, <1>3, <1>4, <1>5, <1>6, StageGoesOn DEF c

LEMMA ReadFailsSafe ==
    ASSUME IInv, Typed', NEW c \in Change, ReadFails(c)
    PROVE  IInv'
<1>1. OnStage(c) /\ run.at # "accept"
  BY StageIsPlanned DEF ReadFails, StagePlaces
<1>2. NextStage(c) /\ exec' = exec /\ effects' = effects /\ task' = task
      /\ UNCHANGED <<change, slot>>
  BY DEF ReadFails, store
<1> QED
  BY <1>1, <1>2, StandsStill, StageOf, StageEnds DEF IInv

LEMMA PredictConflictSafe ==
    ASSUME IInv, Typed', NEW c \in Change, PredictConflict(c)
    PROVE  IInv'
<1> DEFINE row == [change[c] EXCEPT !.state = "gating", !.step = "none",
                      !.passed = FALSE, !.unknown = NoEffect]
<1>1. OnStage(c) /\ run.at = "write" /\ run.plan[c] = "landing"
  BY StageIsPlanned DEF PredictConflict, StagePlaces
<1>2. NextStage(c) /\ exec' = exec /\ effects' = effects /\ task' = task
      /\ Transition(c, row)
  BY DEF PredictConflict
<1>3. change[c] \in Row
  BY ChangeType DEF IInv, Typed
<1>4. row \in Row
  BY <1>3, RowUpdateType DEF ChangeState, NoEffect
<1>5. row.state = "gating" /\ row.unknown = NoEffect
  BY <1>3 DEF Row
<1> HIDE DEF row
<1> QED
  BY <1>1, <1>2, <1>4, <1>5, StageOf, StageEnds

\* A stage that ends by concluding a landing: of a finished execution the
\* change is cancelled with its task unless it landed.
LEMMA ConclusionEnds ==
    ASSUME IInv, Typed', NEW c \in Change, OnStage(c), run.at # "accept",
           NEW row \in Row, NextStage(c), Concludes(c, row),
           exec' = exec, effects' = effects,
           row.state = "landing" /\ change[c].state # "landing"
             => SlotFree /\ Runs(c),
           row.state = "cancelled" => ~Runs(c),
           row.state = "landing" => row.unknown = NoEffect,
           row.unknown # NoEffect =>
              row.state \in {"stopped", "cancelled"} /\ LiveLanding(c) = {},
           ~Runs(c) => row.state = "landing" \/ task[c] # "open"
    PROVE  IInv'
<1> DEFINE final == Finished(c, row)
<1>1. final \in Row
  BY RowUpdateType DEF Finished, ChangeState
<1>2. CASE final = row
  <2>1. Transition(c, row) /\ task' = task
    BY <1>2 DEF Concludes
  <2>2. ~Runs(c) => row.state # "landing"
    BY <1>2 DEF Finished, Row
  <2> QED
    BY <2>1, <2>2, StageEnds
<1>3. CASE final # row
  <2>1. ~Runs(c) /\ row.state = "landing"
    BY <1>3 DEF Finished
  <2>2. final.state = "cancelled" /\ final.unknown = row.unknown
    BY <2>1 DEF Finished, Row
  <2>3. task' = IF task[c] = "open" THEN [task EXCEPT ![c] = "cancelled"]
                ELSE task
    BY <1>3 DEF Concludes
  <2>4. task'[c] # "open" /\ \A d \in Change :
           task[d] # "open" => task'[d] # "open"
    BY <2>3 DEF IInv, Typed, TypeOK, StoreTypeOK
  <2>5. Transition(c, final)
    BY DEF Concludes
  <2> HIDE DEF final
  <2> QED
    BY <1>1, <2>1, <2>2, <2>4, <2>5, StageEnds
<1> QED
  BY <1>2, <1>3

LEMMA PollUpdateSafe ==
    ASSUME IInv, Typed', NEW c \in Change, PollUpdate(c)
    PROVE  IInv'
<1> DEFINE carriedRow == [change[c] EXCEPT !.step = "up-to-date",
                                           !.passed = FALSE]
           failedRow == [change[c] EXCEPT !.state = "gating", !.step = "none",
              !.passed = IF c \in run.held THEN @ ELSE FALSE]
<1>1. /\ OnStage(c) /\ run.at = "poll" /\ run.plan[c] = "outcome"
      /\ change[c].unknown = NoEffect
  BY StageIsPlanned DEF PollUpdate, StagePlaces
<1>2. NextStage(c) /\ exec' = exec /\ effects' = effects
  BY DEF PollUpdate
<1>3. \/ Concludes(c, carriedRow)
      \/ UNCHANGED <<change, slot, task>>
      \/ Concludes(c, Stopped(c, NoEffect))
      \/ Concludes(c, failedRow)
  BY DEF PollUpdate, FailedUpdate
<1>4. change[c] \in Row
  BY ChangeType DEF IInv, Typed
<1>5. carriedRow \in Row /\ carriedRow.state = change[c].state
      /\ carriedRow.unknown = change[c].unknown
  BY <1>4 DEF Row
<1>6. failedRow \in Row /\ failedRow.state = "gating"
      /\ failedRow.unknown = change[c].unknown
  BY <1>4 DEF Row, ChangeState
<1>7. ~Runs(c) => change[c].state = "cancelled" /\ task[c] # "open"
  BY <1>1, StageOf
<1>8. change[c].state = "cancelled" => ~Runs(c)
  BY <1>1, StageOf
<1> HIDE DEF carriedRow, failedRow
<1>9. CASE Concludes(c, carriedRow)
  BY <1>1, <1>2, <1>5, <1>7, <1>8, <1>9, ConclusionEnds
<1>10. CASE UNCHANGED <<change, slot, task>>
  BY <1>1, <1>2, <1>4, <1>7, <1>8, <1>10, StandsStill, StageEnds DEF IInv
<1>11. CASE Concludes(c, Stopped(c, NoEffect))
  BY <1>1, <1>2, <1>7, <1>11, StoppedRow, ConclusionEnds DEF IInv
<1>12. CASE Concludes(c, failedRow)
  BY <1>1, <1>2, <1>6, <1>7, <1>12, ConclusionEnds
<1> QED
  BY <1>3, <1>9, <1>10, <1>11, <1>12

LEMMA ApplyOutcomeSafe ==
    ASSUME IInv, Typed', NEW c \in Change, ApplyOutcome(c)
    PROVE  IInv'
<1> DEFINE row == Resumed(c)
           e == effects[c][Last(c)]
           asked == [row EXCEPT !.step = "up-to-date"]
           stopped == [row EXCEPT !.state = "stopped", !.step = "none",
                                  !.unknown = NoEffect]
<1>1. OnStage(c) /\ run.at = "stages" /\ run.plan[c] \in {"outcome", "settle"}
  BY StageIsPlanned DEF ApplyOutcome, StageName
<1>2. exec' = exec /\ effects' = effects
  BY DEF ApplyOutcome
<1>3. change[c] \in Row /\ run \in Executor
  BY ChangeType DEF IInv, Typed, TypeOK
<1>4. row \in Row /\ row.unknown = change[c].unknown
      /\ \/ row = change[c]
         \/ change[c].state = "gating" /\ row.state = "landing"
  <2> DEFINE kept == [change[c] EXCEPT !.state = "landing",
                                       !.step = StepOf(e.kind)]
  <2>1. kept \in Row
    BY <1>3, RowUpdateType DEF StepOf, ChangeState
  <2>2. kept.state = "landing" /\ kept.unknown = change[c].unknown
    BY <1>3 DEF Row
  <2>3. row = change[c] \/ (change[c].state = "gating" /\ row = kept)
    BY DEF Resumed
  <2> HIDE DEF kept, row
  <2> QED
    BY <1>3, <2>1, <2>2, <2>3
<1>5. \/ NextStage(c) /\ UNCHANGED <<change, slot, task>>
      \/ /\ row.state = "landing" /\ (row = change[c] \/ SlotFree)
         /\ NextStage(c) /\ Concludes(c, asked)
      \/ /\ row.state = "landing" /\ (row = change[c] \/ SlotFree)
         /\ Transition(c, row) /\ UNCHANGED task
         /\ run' = [run EXCEPT !.row = row, !.now = <<c, NoEffect>>,
                      !.at = IF e.kind = "merge" THEN "fetch" ELSE "poll"]
      \/ /\ Runs(c) /\ NextStage(c) /\ UNCHANGED task /\ Transition(c, stopped)
      \/ /\ row = change[c] \/ SlotFree
         /\ NextStage(c) /\ Concludes(c, row)
  BY DEF ApplyOutcome
<1>6. asked \in Row /\ asked.state = row.state /\ asked.unknown = row.unknown
  BY <1>4 DEF Row
<1>7. stopped \in Row /\ stopped.state = "stopped"
      /\ stopped.unknown = NoEffect
  BY <1>4 DEF Row, ChangeState, NoEffect
<1> HIDE DEF row, asked, stopped
<1>8. /\ row # change[c] => Runs(c)
      /\ row.state = "landing" => row.unknown = NoEffect
      /\ row.state = "cancelled" => ~Runs(c)
      /\ ~Runs(c) => row.state = "landing" \/ task[c] # "open"
      /\ row.unknown # NoEffect =>
            row.state \in {"stopped", "cancelled"} /\ LiveLanding(c) = {}
      /\ change[c].state # "landed"
  BY <1>1, <1>4, StageOf
<1>9. CASE NextStage(c) /\ UNCHANGED <<change, slot, task>>
  BY <1>1, <1>2, <1>9, StandsStill, StageOf, StageEnds DEF IInv
<1>10. CASE /\ row.state = "landing" /\ (row = change[c] \/ SlotFree)
            /\ NextStage(c) /\ Concludes(c, asked)
  BY <1>1, <1>2, <1>4, <1>6, <1>8, <1>10, ConclusionEnds
<1>11. CASE /\ row.state = "landing" /\ (row = change[c] \/ SlotFree)
            /\ Transition(c, row) /\ UNCHANGED task
            /\ run' = [run EXCEPT !.row = row, !.now = <<c, NoEffect>>,
                         !.at = IF e.kind = "merge" THEN "fetch" ELSE "poll"]
  <2>1. run'.plan = run.plan /\ run'.now[1] = c
        /\ run'.at = IF e.kind = "merge" THEN "fetch" ELSE "poll"
    BY <1>3, <1>11 DEF Executor
  <2>2. run.plan[c] = "settle" => e.kind = "merge"
    BY DEF IInv, Finishing
  <2> HIDE DEF e
  <2> QED
    BY <1>1, <1>2, <1>4, <1>8, <1>11, <2>1, <2>2, StageGoesOn
<1>12. CASE Runs(c) /\ NextStage(c) /\ UNCHANGED task /\ Transition(c, stopped)
  BY <1>1, <1>2, <1>7, <1>12, StageEnds
<1>13. CASE /\ row = change[c] \/ SlotFree
            /\ NextStage(c) /\ Concludes(c, row)
  BY <1>1, <1>2, <1>4, <1>8, <1>13, ConclusionEnds
<1> QED
  BY <1>5, <1>9, <1>10, <1>11, <1>12, <1>13

\* A recorded effect is pending, and the only one that may act.
LEMMA WithEffectAdds ==
    ASSUME StoreTypeOK, NEW c \in Change, NEW kind, NEW round, NEW pin, NEW base,
           LiveLanding(c) = {}, effects' = WithEffect(c, kind, round, pin, base)
    PROVE  /\ \A d \in Change \ {c} : effects'[d] = effects[d]
           /\ Last(c)' = Last(c) + 1
           /\ \A i \in 1..Last(c) : effects'[c][i] = effects[c][i]
           /\ effects'[c][Last(c) + 1].state = "pending"
           /\ LiveLanding(c)' \subseteq {Last(c) + 1}
<1>1. effects[c] \in Seq(Effect) /\ Last(c) = Len(effects[c]) /\ Last(c) \in Nat
  BY EffectType DEF Last
<1>2. PICK e : /\ e.state = "pending"
               /\ effects' = [effects EXCEPT ![c] = Append(effects[c], e)]
  BY DEF WithEffect
<1>3. effects'[c] = Append(effects[c], e)
      /\ \A d \in Change \ {c} : effects'[d] = effects[d]
  BY <1>2 DEF StoreTypeOK
<1>4. /\ Len(Append(effects[c], e)) = Last(c) + 1
      /\ \A i \in 1..Last(c) : Append(effects[c], e)[i] = effects[c][i]
      /\ Append(effects[c], e)[Last(c) + 1] = e
  BY <1>1
<1>5. \A i \in 1..Last(c) : ~Live(effects[c][i])
  BY DEF LiveLanding, Last
<1>6. LiveLanding(c)' \subseteq {Last(c) + 1}
  BY <1>1, <1>3, <1>4, <1>5 DEF LiveLanding
<1> QED
  BY <1>2, <1>3, <1>4, <1>6 DEF Last

\* A request made between two calls: nothing runs and one effect may act.
LEMMA RequestAdds ==
    ASSUME IInv, NEW c \in Change, run.at \notin Calls,
           effects' = Requested(c), effects' # effects
    PROVE  /\ \A d \in Change \ {c} : effects'[d] = effects[d]
           /\ Last(c)' = Last(c) + 1 /\ Last(c) \in Nat
           /\ \A i \in 1..Last(c) : effects'[c][i] = effects[c][i]
           /\ effects'[c][Last(c) + 1].state = "pending"
           /\ LiveLanding(c)' \subseteq {Last(c) + 1}
           /\ \A i \in 1..Last(c)' : effects'[c][i].state # "running"
           /\ \A i, j \in LiveLanding(c)' : i = j
<1>1. PICK kind, round, pin, base :
         effects' = WithEffect(c, kind, round, pin, base)
  BY DEF Requested
<1>2. LiveLanding(c) = {}
  BY <1>1 DEF WithEffect
<1>3. /\ \A d \in Change \ {c} : effects'[d] = effects[d]
      /\ Last(c)' = Last(c) + 1 /\ Last(c) \in Nat
      /\ \A i \in 1..Last(c) : effects'[c][i] = effects[c][i]
      /\ effects'[c][Last(c) + 1].state = "pending"
      /\ LiveLanding(c)' \subseteq {Last(c) + 1}
  BY <1>1, <1>2, WithEffectAdds, EffectType DEF IInv, Typed, TypeOK
<1>4. \A i \in 1..Last(c) : effects[c][i].state # "running"
  BY NothingRuns DEF IInv
<1>5. \A i \in 1..Last(c)' : effects'[c][i].state # "running"
  <2> SUFFICES ASSUME NEW i \in 1..(Last(c) + 1)
               PROVE  effects'[c][i].state # "running"
    BY <1>3
  <2>1. i \in 1..Last(c) \/ i = Last(c) + 1
    BY <1>3
  <2> QED
    BY <1>3, <1>4, <2>1
<1> QED
  BY <1>3, <1>5

LEMMA RequestEffectSafe ==
    ASSUME IInv, Typed', NEW c \in Change, RequestEffect(c)
    PROVE  IInv'
<1>1. /\ OnStage(c) /\ run.at = "write" /\ run.plan[c] = "landing"
      /\ change[c].unknown = NoEffect
  BY StageIsPlanned DEF RequestEffect, StagePlaces
<1>2. NextStage(c) /\ exec' = exec /\ task' = task
  BY DEF RequestEffect
<1>3. change[c] \in Row
  BY ChangeType DEF IInv, Typed
<1>4. PICK row \in Row : /\ Transition(c, row)
                         /\ row.state = change[c].state
                         /\ row.unknown = change[c].unknown
  <2>1. CASE UNCHANGED <<change, slot>>
    BY <1>3, <2>1, StandsStill DEF IInv
  <2>2. ASSUME NEW kind,
               Transition(c, [change[c] EXCEPT !.step = StepOf(kind)])
        PROVE  \E row \in Row : /\ Transition(c, row)
                                /\ row.state = change[c].state
                                /\ row.unknown = change[c].unknown
    <3> DEFINE row == [change[c] EXCEPT !.step = StepOf(kind)]
    <3>1. row \in Row
      BY <1>3, RowUpdateType DEF StepOf, ChangeState
    <3>2. row.state = change[c].state /\ row.unknown = change[c].unknown
      BY <1>3 DEF Row
    <3> HIDE DEF row
    <3> QED
      BY <2>2, <3>1, <3>2 DEF row
  <2> QED
    BY <2>1, <2>2 DEF RequestEffect
<1>5. CASE effects' = effects
  BY <1>1, <1>2, <1>4, <1>5, StageOf, StageEnds
<1>6. CASE effects' # effects
  <2>1. effects' = Requested(c) /\ run.at \notin Calls
    BY <1>1, <1>6 DEF RequestEffect, Calls
  <2>2. /\ \A d \in Change \ {c} : effects'[d] = effects[d]
        /\ Last(c)' = Last(c) + 1 /\ Last(c) \in Nat
        /\ \A i \in 1..Last(c) : effects'[c][i] = effects[c][i]
        /\ LiveLanding(c)' \subseteq {Last(c) + 1}
        /\ \A i \in 1..Last(c)' : effects'[c][i].state # "running"
        /\ \A i, j \in LiveLanding(c)' : i = j
    BY <1>6, <2>1, RequestAdds
  <2> QED
    BY <1>1, <1>2, <1>4, <2>2, StageOf, StageEndsWith
<1> QED
  BY <1>5, <1>6

\* The pass goes on to its second half, or ends; the slot may be cleared when
\* it is free.
LEMMA PassGoesOn ==
    ASSUME IInv, Typed', run.at \notin Calls,
           run'.at \in {"idle", "inspect", "due"},
           \A c \in Change : run'.plan[c] = "none",
           UNCHANGED <<exec, change, effects, task>>, Listed',
           slot' = slot \/ (SlotFree /\ slot' = Nobody)
    PROVE  IInv'
<1>1. /\ \A c \in Change : /\ Runs(c)' = Runs(c) /\ Last(c)' = Last(c)
                           /\ LiveLanding(c)' = LiveLanding(c)
      /\ \A c \in Change : \A i \in 1..Last(c) :
            effects[c][i].state # "running"
  BY NothingRuns DEF IInv, Runs, Last, LiveLanding
<1>2. run'.now[1] \in Change
  BY DEF Typed, TypeOK, Executor, Pair
<1>3. Staged'
  BY <1>2 DEF Staged
<1>4. Finishing'
  BY <1>1 DEF IInv, Finishing
<1>5. Acting'
  BY <1>1 DEF IInv, Acting
<1>6. slot' = slot
  BY FreeIsEmpty DEF IInv, Typed, TypeOK
<1>7. SlotIsExclusive'
  BY <1>1, <1>6 DEF IInv, SlotIsExclusive, Runs
<1>8. MergeKeepsLanding'
  BY <1>1 DEF MergeKeepsLanding
<1> QED
  BY <1>3, <1>4, <1>5, <1>7, <1>8 DEF IInv

\* What a landing cancels: every effect of its change that may still act.
LEMMA LandingCancels ==
    ASSUME StoreTypeOK, NEW c \in Change, effects' = WithLandingCancelled(c)
    PROVE  /\ \A d \in Change \ {c} : effects'[d] = effects[d]
           /\ \A d \in Change : Last(d)' = Last(d)
           /\ \A i \in 1..Last(c) :
                 /\ effects'[c][i].kind = effects[c][i].kind
                 /\ effects'[c][i].state \in {effects[c][i].state, "cancelled"}
                 /\ ~Live(effects[c][i]) => effects'[c][i] = effects[c][i]
           /\ LiveLanding(c)' = {}
<1> DEFINE es == [i \in DOMAIN effects[c] |->
            IF Live(effects[c][i])
              THEN [effects[c][i] EXCEPT !.state = "cancelled"]
              ELSE effects[c][i]]
<1>1. DOMAIN effects[c] = 1..Last(c) /\ Last(c) \in Nat
      /\ \A i \in 1..Last(c) : effects[c][i] \in Effect
  BY EffectType
<1>2. \A i \in 1..Last(c) :
         /\ es[i].kind = effects[c][i].kind
         /\ es[i].state \in {effects[c][i].state, "cancelled"}
         /\ ~Live(es[i])
         /\ ~Live(effects[c][i]) => es[i] = effects[c][i]
  BY <1>1 DEF Effect, Live
<1>3. effects' = [effects EXCEPT ![c] = es]
  BY DEF WithLandingCancelled
<1>4. Len(es) = Last(c)
  BY <1>1
<1> HIDE DEF es
<1>5. effects'[c] = es /\ \A d \in Change \ {c} : effects'[d] = effects[d]
  BY <1>3 DEF StoreTypeOK
<1>6. \A d \in Change : Last(d)' = Last(d)
  BY <1>4, <1>5 DEF Last
<1>7. LiveLanding(c)' = {}
  BY <1>2, <1>4, <1>5 DEF LiveLanding
<1> QED
  BY <1>2, <1>5, <1>6, <1>7

LEMMA RecordLandingSafe ==
    ASSUME IInv, Typed', NEW c \in Change, RecordLanding(c)
    PROVE  IInv'
<1>1. StoreTypeOK /\ run \in Executor /\ change[c] \in Row
  BY ChangeType DEF IInv, Typed, TypeOK
<1>2. /\ OnStage(c) /\ run.at = "fetch" /\ run.now[1] = c
      /\ change[c].unknown = NoEffect
  BY StageIsPlanned DEF RecordLanding, On, StagePlaces
<1>3. CASE run' = Idle /\ UNCHANGED <<facts, change, slot, effects>>
  <2>1. run'.at = "idle" /\ run'.todo = {}
        /\ \A d \in Change : run'.plan[d] = "none"
    BY <1>3 DEF Idle
  <2>2. Listed'
    BY <2>1 DEF Listed, Calls
  <2> QED
    BY <1>2, <1>3, <2>1, <2>2, PassGoesOn DEF RecordLanding, Calls
<1>4. CASE /\ At("accept") /\ effects' = WithLandingCancelled(c)
           /\ \/ Transition(c, [change[c] EXCEPT !.state = "landed",
                                                 !.step = "none"])
              \/ UNCHANGED <<change, slot>>
  <2>1. /\ run'.at = "accept" /\ run'.plan = run.plan /\ run'.now = run.now
        /\ run'.todo = run.todo
    BY <1>1, <1>4 DEF At, Executor
  <2>2. PICK row \in Row :
           /\ Transition(c, row) /\ row.unknown = NoEffect
           /\ row = change[c] \/ row.state = "landed"
    <3> DEFINE landed == [change[c] EXCEPT !.state = "landed", !.step = "none"]
    <3>1. landed \in Row
      BY <1>1, RowUpdateType DEF ChangeState
    <3>2. landed.state = "landed" /\ landed.unknown = NoEffect
      BY <1>1, <1>2 DEF Row
    <3>3. Transition(c, landed) \/ UNCHANGED <<change, slot>>
      BY <1>4
    <3> HIDE DEF landed
    <3> QED
      BY <1>2, <3>1, <3>2, <3>3, StandsStill DEF IInv
  <2>3. \A d \in Change : change'[d] = IF d = c THEN row ELSE change[d]
    BY <1>1, <2>2 DEF Transition, StoreTypeOK
  <2>4. exec' = exec /\ task' = task /\ \A d \in Change : Runs(d)' = Runs(d)
    BY DEF RecordLanding, Runs
  <2>5. /\ \A d \in Change \ {c} : /\ effects'[d] = effects[d]
                                   /\ LiveLanding(d)' = LiveLanding(d)
        /\ \A d \in Change : Last(d)' = Last(d) /\ Last(d) \in Nat
        /\ \A i \in 1..Last(c) :
              /\ effects'[c][i].kind = effects[c][i].kind
              /\ effects'[c][i].state \in {effects[c][i].state, "cancelled"}
        /\ LiveLanding(c)' = {}
    BY <1>1, <1>4, LandingCancels, EffectType DEF LiveLanding
  <2>6. \A d \in Change : \A i \in 1..Last(d) : effects'[d][i].state # "running"
    BY <1>2, <2>5, NothingRuns DEF IInv, Calls
  <2>7. Staged'
    BY <1>2, <2>1 DEF IInv, Staged, StagePlaces
  <2>8. Finishing'
    <3> SUFFICES ASSUME NEW d \in Change
                 PROVE  /\ change'[d].state = "cancelled" => ~Runs(d)
                        /\ ~Runs(d) => change'[d].state \in {"landing", "landed"}
                                       \/ task[d] # "open"
                        /\ ~Runs(d) /\ run.plan[d] # "none" =>
                              \/ change'[d].state \in {"landed", "cancelled"}
                              \/ change'[d].state = "landing"
                                 /\ run.plan[d] = "settle"
                        /\ run.plan[d] = "settle" =>
                              /\ ~Runs(d) /\ Last(d) # 0
                              /\ effects'[d][Last(d)].kind = "merge"
                        /\ change'[d].state = "landed" =>
                              \/ run.plan[d] = "none"
                              \/ run.now[1] = d
      BY <2>1, <2>4, <2>5 DEF Finishing
    <3>1. CASE d = c
      <4>1. run.plan[c] = "settle" =>
               /\ ~Runs(c) /\ Last(c) # 0
               /\ effects'[c][Last(c)].kind = "merge"
        BY <2>5 DEF IInv, Finishing
      <4> QED
        BY <1>2, <2>2, <2>3, <3>1, <4>1 DEF IInv, Finishing
    <3>2. CASE d # c
      BY <1>2, <2>3, <2>5, <3>2 DEF IInv, Finishing
    <3> QED
      BY <3>1, <3>2
  <2>9. Acting'
    <3>1. \A d \in Change : change'[d].unknown # NoEffect =>
             change'[d].state \in {"stopped", "cancelled"}
             /\ LiveLanding(d)' = {}
      BY <2>2, <2>3, <2>5 DEF IInv, Acting
    <3>2. \A d \in Change : \A i, j \in LiveLanding(d)' : i = j
      BY <2>5 DEF IInv, Acting
    <3> QED
      BY <2>5, <2>6, <3>1, <3>2 DEF Acting
  <2>10. Listed'
    BY <2>1 DEF Listed, Calls
  <2>11. SlotIsExclusive'
    BY <1>1, <2>2, <2>4, SlotStep DEF IInv
  <2>12. MergeKeepsLanding'
    BY <2>5, <2>6 DEF MergeKeepsLanding
  <2> QED
    BY <2>7, <2>8, <2>9, <2>10, <2>11, <2>12 DEF IInv
<1> QED
  BY <1>3, <1>4 DEF RecordLanding

LEMMA AcceptLandedSafe ==
    ASSUME IInv, Typed', NEW c \in Change, AcceptLanded(c)
    PROVE  IInv'
<1>1. StoreTypeOK /\ run \in Executor
  BY DEF IInv, Typed, TypeOK
<1>2. OnStage(c) /\ run.at = "accept" /\ run.now[1] = c
  BY StageIsPlanned DEF AcceptLanded, On, StagePlaces
<1>3. /\ run'.at = "stages" /\ run'.todo = {}
      /\ \A d \in Change : run'.plan[d] # "none" =>
            d # c /\ run'.plan[d] = run.plan[d]
  BY <1>1, NextStageType DEF AcceptLanded, NextStage, Idle
<1>4. /\ UNCHANGED <<change, effects, slot>>
      /\ \A d \in Change : task[d] # "open" => task'[d] # "open"
  BY <1>1 DEF AcceptLanded, StoreTypeOK
<1>5. \A d \in Change : Last(d)' = Last(d) /\ LiveLanding(d)' = LiveLanding(d)
  BY <1>4 DEF Last, LiveLanding
<1>6. \A d \in Change : /\ Runs(d)' => Runs(d)
                        /\ Runs(d) /\ ~Runs(d)' => change[d].state = "landed"
  BY <1>1, StoreAssumption DEF AcceptLanded, Runs, StoreTypeOK, Change
<1>7. \A d \in Change : \A i \in 1..Last(d) : effects[d][i].state # "running"
  BY <1>2, NothingRuns DEF IInv, Calls
<1>8. Staged'
  BY <1>3 DEF Staged, StagePlaces
<1>9. Finishing'
  <2> SUFFICES ASSUME NEW d \in Change
               PROVE  /\ change[d].state = "cancelled" => ~Runs(d)'
                      /\ ~Runs(d)' => change[d].state \in {"landing", "landed"}
                                     \/ task'[d] # "open"
                      /\ ~Runs(d)' /\ run'.plan[d] # "none" =>
                            \/ change[d].state \in {"landed", "cancelled"}
                            \/ change[d].state = "landing"
                               /\ run'.plan[d] = "settle"
                      /\ run'.plan[d] = "settle" =>
                            /\ ~Runs(d)' /\ Last(d) # 0
                            /\ effects[d][Last(d)].kind = "merge"
                      /\ change[d].state = "landed" => run'.plan[d] = "none"
    BY <1>4, <1>5 DEF Finishing
  <2> QED
    BY <1>2, <1>3, <1>4, <1>6 DEF IInv, Finishing
<1>10. Acting'
  BY <1>4, <1>5, <1>7 DEF IInv, Acting
<1>11. Listed'
  BY <1>3 DEF Listed, Calls
<1>12. SlotIsExclusive'
  <2>1. \A d \in Change : Runs(d)' => (change[d].state = "landing" <=> slot = d)
    BY <1>6 DEF IInv, SlotIsExclusive
  <2>2. slot # Nobody =>
           slot \in Change /\ Runs(slot) /\ change[slot].state = "landing"
    BY <1>1 DEF IInv, SlotIsExclusive, StoreTypeOK
  <2>3. slot # Nobody => exec'[ExecOf[slot]] = "running"
    BY <1>6, <2>2 DEF Runs
  <2> QED
    BY <1>4, <2>1, <2>3 DEF SlotIsExclusive, Runs
<1>13. MergeKeepsLanding'
  BY <1>4, <1>5, <1>7 DEF MergeKeepsLanding
<1> QED
  BY <1>8, <1>9, <1>10, <1>11, <1>12, <1>13 DEF IInv

-----------------------------------------------------------------------------
(***************************************************************************)
(* The beginning of a pass                                                 *)
(***************************************************************************)
\* What a pass owes: nothing to a landed change, a settlement of the last
\* merge to a landing one of a finished execution, and the planner's own
\* transitions only to changes of running executions.
LEMMA PassOwes ==
    ASSUME NEW c \in Change
    PROVE  /\ change[c].state = "landed" => Owed(c) = "none"
           /\ ~Runs(c) => Owed(c) \in {"none", "settle"}
           /\ Owed(c) = "settle" =>
                 /\ ~Runs(c) /\ change[c].state = "landing"
                 /\ Last(c) # 0 /\ effects[c][Last(c)].kind = "merge"
           /\ Owed(c) \in {"close", "yield"} =>
                 /\ Runs(c)
                 /\ change[c].state \notin {"landed", "stopped", "cancelled"}
           /\ Owed(c) = "yield" => change[c].state = "landing"
<1>1. change[c].state = "landed" => ~OwesOutcome(c) /\ LeftAlone(c)
  BY DEF OwesOutcome, LeftAlone, Settling, ResumedWait
<1>2. ~Runs(c) => LeftAlone(c)
  BY DEF LeftAlone
<1>3. OwesOutcome(c) /\ ~Runs(c) =>
         /\ change[c].state = "landing"
         /\ Last(c) # 0 /\ effects[c][Last(c)].kind = "merge"
  BY DEF OwesOutcome, NoEffect
<1>4. ~LeftAlone(c) =>
         Runs(c) /\ change[c].state \notin {"landed", "stopped", "cancelled"}
  BY DEF LeftAlone
<1>5. Owed(c) = "settle" => OwesOutcome(c) /\ ~Runs(c)
  BY DEF Owed
<1>6. Owed(c) \in {"close", "yield"} => ~LeftAlone(c)
  BY DEF Owed
<1>7. Owed(c) = "yield" => change[c].state = "landing"
  BY DEF Owed
<1>8. ~Runs(c) => Owed(c) \in {"none", "settle"}
  BY <1>2 DEF Owed
<1>9. change[c].state = "landed" => Owed(c) = "none"
  BY <1>1 DEF Owed
<1> QED
  BY <1>3, <1>4, <1>5, <1>6, <1>7, <1>8, <1>9

LEMMA PlanSafe ==
    ASSUME IInv, Typed', Plan
    PROVE  IInv'
<1>1. StoreTypeOK
  BY DEF IInv, Typed, TypeOK
<1>2. /\ run'.at = "stages" /\ run'.todo = {}
      /\ run'.plan = Planned
  BY DEF Plan, Idle
<1>3. /\ run.at = "idle" /\ UNCHANGED <<exec, effects, task>>
      /\ \A c \in Change : /\ Runs(c)' = Runs(c) /\ Last(c)' = Last(c)
                           /\ LiveLanding(c)' = LiveLanding(c)
  BY DEF Plan, Runs, Last, LiveLanding
<1>4. \A c \in Change : \A i \in 1..Last(c) : effects[c][i].state # "running"
  BY <1>3, NothingRuns DEF IInv, Calls
<1>5. ASSUME NEW c \in Change
      PROVE  \/ change'[c] = change[c]
             \/ /\ Runs(c) /\ Planned[c] = "none"
                /\ change'[c].state \in {"stopped", "gating"}
                /\ change'[c].unknown = NoEffect
  <2>1. change[c] \in Row
    BY ChangeType DEF IInv, Typed
  <2>2. CASE Owed(c) = "close"
    <3>1. change'[c] = Stopped(c, NoEffect)
      BY <2>2 DEF Plan
    <3> QED
      BY <2>2, <3>1, StoppedRow, PassOwes DEF IInv, Planned, StageName
  <2>3. CASE Owed(c) = "yield"
    <3>1. change'[c] = [change[c] EXCEPT !.state = "gating", !.step = "none"]
      BY <2>3 DEF Plan
    <3>2. change[c].state = "landing" /\ Runs(c)
      BY <2>3, PassOwes
    <3>3. change[c].unknown = NoEffect
      BY <3>2 DEF IInv, Acting
    <3>4. Planned[c] = "none"
      BY <2>3 DEF Planned, StageName
    <3> QED
      BY <2>1, <3>1, <3>2, <3>3, <3>4 DEF Row
  <2>4. CASE Owed(c) \notin {"close", "yield"}
    BY <2>4 DEF Plan
  <2> QED
    BY <2>2, <2>3, <2>4
<1>6. Staged'
  BY <1>2 DEF Staged, StagePlaces
<1>7. Finishing'
  <2> SUFFICES ASSUME NEW c \in Change
               PROVE  /\ change'[c].state = "cancelled" => ~Runs(c)
                      /\ ~Runs(c) => change'[c].state \in {"landing", "landed"}
                                     \/ task[c] # "open"
                      /\ ~Runs(c) /\ Planned[c] # "none" =>
                            \/ change'[c].state \in {"landed", "cancelled"}
                            \/ change'[c].state = "landing"
                               /\ Planned[c] = "settle"
                      /\ Planned[c] = "settle" =>
                            /\ ~Runs(c) /\ Last(c) # 0
                            /\ effects[c][Last(c)].kind = "merge"
                      /\ change'[c].state = "landed" => Planned[c] = "none"
    BY <1>2, <1>3 DEF Finishing
  <2>1. Planned[c] = IF Owed(c) \in StageName THEN Owed(c) ELSE "none"
    BY DEF Planned
  <2> QED
    BY <1>5, <2>1, PassOwes DEF IInv, Finishing
<1>8. Acting'
  BY <1>3, <1>4, <1>5 DEF IInv, Acting
<1>9. Listed'
  BY <1>2 DEF Listed, Calls
<1>10. SlotIsExclusive'
  <2>1. slot' = IF slot # Nobody /\ change'[slot].state # "landing"
                   /\ change[slot].state = "landing"
                  THEN Nobody ELSE slot
    BY DEF Plan
  <2>2. \A c \in Change : change'[c].state = "landing"
                             => change[c].state = "landing"
    BY <1>5
  <2>3. \A c \in Change : c # Nobody
    BY DEF Change, Nobody
  <2>4. slot \in Change \cup {Nobody}
    BY <1>1 DEF StoreTypeOK
  <2>5. \A c \in Change : Runs(c) => (change'[c].state = "landing" <=> slot' = c)
    BY <2>1, <2>2, <2>3, <2>4 DEF IInv, SlotIsExclusive
  <2>6. slot' # Nobody => Runs(slot')
    BY <2>1 DEF IInv, SlotIsExclusive
  <2>7. slot' # Nobody => exec'[ExecOf[slot']] = "running"
    BY <1>3, <2>6 DEF Runs
  <2> QED
    BY <1>3, <2>5, <2>7 DEF SlotIsExclusive, Runs
<1>11. MergeKeepsLanding'
  BY <1>3, <1>4 DEF MergeKeepsLanding
<1> QED
  BY <1>6, <1>7, <1>8, <1>9, <1>10, <1>11 DEF IInv

-----------------------------------------------------------------------------
(***************************************************************************)
(* The second half of a pass                                               *)
(***************************************************************************)
\* The effects a pass lists are there, unknown to be inspected, or pending
\* changes that are landing to be run.
LEMMA DueIsListed ==
    ASSUME NEW p \in Pair
    PROVE  /\ p \in DueUnknownEffects =>
                /\ p[2] \in 1..Last(p[1])
                /\ effects[p[1]][p[2]].state = "unknown"
           /\ p \in DueEffects =>
                /\ p[2] \in 1..Last(p[1])
                /\ effects[p[1]][p[2]].state = "pending"
                /\ Runs(p[1]) /\ change[p[1]].state = "landing"
BY DEF DueUnknownEffects, DueEffects, EffectIds

LEMMA InspectSafe ==
    ASSUME IInv, Typed', Inspect \/ RanDue \/ Inspected
    PROVE  IInv'
<1>1. run \in Executor /\ StoreTypeOK
      /\ DueEffects \subseteq Pair /\ DueUnknownEffects \subseteq Pair
  BY DueType DEF IInv, Typed, TypeOK
<1>2. /\ run.at \in {"stages", "inspect", "due"}
      /\ UNCHANGED <<exec, change, effects, task>>
      /\ slot' = slot \/ (SlotFree /\ slot' = Nobody)
  <2>1. CASE Inspect \/ RanDue
    BY <2>1 DEF Inspect, RanDue, store
  <2>2. CASE Inspected
    BY <2>2 DEF Inspected
  <2> QED
    BY <2>1, <2>2
<1>3. \A c \in Change : run.plan[c] = "none"
  <2>1. CASE Inspect
    BY <2>1 DEF Inspect, Idle
  <2>2. CASE run.at \in {"inspect", "due"}
    BY <2>2 DEF IInv, Staged, StagePlaces
  <2> QED
    BY <2>1, <2>2 DEF RanDue, Inspected
<1>4. /\ \/ run'.at = "idle" /\ run'.todo = {}
         \/ run'.at = "inspect" /\ run'.todo = DueUnknownEffects
         \/ run'.at = "due" /\ run'.todo = DueEffects
      /\ \A c \in Change : run'.plan[c] = "none"
  <2>1. CASE run' = Idle
    BY <2>1 DEF Idle
  <2>2. ASSUME NEW place \in Places, NEW due,
               run' = [run EXCEPT !.at = place, !.todo = due]
        PROVE  run'.at = place /\ run'.todo = due /\ run'.plan = run.plan
    BY <1>1, <2>2 DEF Executor
  <2>3. CASE run' = [run EXCEPT !.at = "inspect", !.todo = DueUnknownEffects]
    BY <1>3, <2>2, <2>3 DEF Places
  <2>4. CASE run' = [run EXCEPT !.at = "due", !.todo = DueEffects]
    BY <1>3, <2>2, <2>4 DEF Places
  <2> QED
    BY <2>1, <2>3, <2>4 DEF Inspect, RanDue, Inspected
<1>5. \A c \in Change : Runs(c)' = Runs(c) /\ Last(c)' = Last(c)
  BY <1>2 DEF Runs, Last
<1>6. Listed'
  <2>1. \A p \in run'.todo : p \in Pair /\ p[1] \in Change
    BY <1>1, <1>4 DEF Pair
  <2>2. \A p \in run'.todo :
           /\ run'.at = "inspect" => /\ p[2] \in 1..Last(p[1])
                                     /\ effects[p[1]][p[2]].state = "unknown"
           /\ run'.at = "due" => /\ p[2] \in 1..Last(p[1])
                                 /\ effects[p[1]][p[2]].state = "pending"
                                 /\ Runs(p[1]) /\ change[p[1]].state = "landing"
    BY <1>4, <2>1, DueIsListed
  <2>3. run'.at \notin Calls
    BY <1>4 DEF Calls
  <2>4. \A p \in run'.todo : /\ Last(p[1])' = Last(p[1])
                            /\ Runs(p[1])' = Runs(p[1])
    BY <1>5, <2>1
  <2> QED
    BY <1>2, <2>2, <2>3, <2>4 DEF Listed
<1> QED
  BY <1>2, <1>4, <1>6, PassGoesOn DEF Calls

\* Writing an effect: a settled one stays, the others are not touched.
LEMMA WrittenFrame ==
    ASSUME StoreTypeOK, NEW c \in Change, NEW i \in 1..Last(c), NEW e,
           e.kind = effects[c][i].kind, effects' = Written(c, i, e)
    PROVE  /\ \A d \in Change : Last(d)' = Last(d)
           /\ \A d \in Change : \A j \in 1..Last(d) :
                 /\ <<d, j>> # <<c, i>> => effects'[d][j] = effects[d][j]
                 /\ effects'[d][j].kind = effects[d][j].kind
           /\ effects'[c][i] = IF Live(effects[c][i]) THEN e ELSE effects[c][i]
           /\ \A d \in Change : LiveLanding(d)' \subseteq LiveLanding(d)
           /\ ~Live(e) => LiveLanding(c)' \subseteq LiveLanding(c) \ {i}
<1>1. effects[c] \in Seq(Effect) /\ Last(c) = Len(effects[c])
      /\ i \in 1..Len(effects[c]) /\ Last(c) \in Nat
  BY EffectType DEF Last
<1>2. CASE ~Live(effects[c][i])
  <2>1. effects' = effects
    BY <1>2 DEF Written
  <2> QED
    BY <1>2, <2>1 DEF Last, LiveLanding
<1>3. CASE Live(effects[c][i])
  <2>1. effects' = [effects EXCEPT ![c] = [effects[c] EXCEPT ![i] = e]]
    BY <1>1, <1>3 DEF Written, StoreTypeOK
  <2>2. /\ Len([effects[c] EXCEPT ![i] = e]) = Last(c)
        /\ \A j \in 1..Last(c) : [effects[c] EXCEPT ![i] = e][j]
              = IF j = i THEN e ELSE effects[c][j]
    BY <1>1
  <2>3. effects'[c] = [effects[c] EXCEPT ![i] = e]
        /\ \A d \in Change \ {c} : effects'[d] = effects[d]
    BY <2>1 DEF StoreTypeOK
  <2>4. \A d \in Change : Last(d)' = Last(d)
    BY <2>2, <2>3 DEF Last
  <2>5. \A j \in 1..Last(c) :
           effects'[c][j] = IF j = i THEN e ELSE effects[c][j]
    BY <2>2, <2>3
  <2>6. \A d \in Change \ {c} : LiveLanding(d)' = LiveLanding(d)
    BY <2>3 DEF LiveLanding
  <2>7. LiveLanding(c)' = {j \in 1..Last(c) : Live(effects'[c][j])}
    BY <2>4 DEF LiveLanding, Last, Live
  <2>8. LiveLanding(c) = {j \in 1..Last(c) : Live(effects[c][j])}
    BY DEF LiveLanding, Last
  <2>9. LiveLanding(c)' \subseteq LiveLanding(c)
        /\ (~Live(e) => LiveLanding(c)' \subseteq LiveLanding(c) \ {i})
    BY <1>1, <1>3, <2>5, <2>7, <2>8
  <2> QED
    BY <1>1, <1>3, <2>3, <2>4, <2>5, <2>6, <2>9
<1> QED
  BY <1>2, <1>3

\* An inspection or a call ends: its effect is written, and its change keeps
\* its row or stops, naming the effect only if an inspection failed it.
LEMMA EffectEnds ==
    ASSUME IInv, Typed', NEW c \in Change, NEW i \in 1..Last(c),
           exec' = exec, task' = task,
           NEW e, effects' = Written(c, i, e), e.kind = effects[c][i].kind,
           e.state \in {"done", "failed", "pending", "unknown"},
           run'.plan = run.plan,
           \/ /\ run.at = "inspect" /\ <<c, i>> \in run.todo
              /\ run'.at = "inspect" /\ run'.todo = run.todo \ {<<c, i>>}
           \/ /\ run.at \in Calls /\ run.now = <<c, i>>
              /\ run'.at = "due" /\ run'.todo = run.todo,
           NEW row \in Row, Transition(c, row),
           row = change[c] \/ (row.state = "stopped" /\ Runs(c)),
           \/ row = change[c] \/ row.unknown = NoEffect
           \/ run.at = "inspect" /\ e.state = "failed"
    PROVE  IInv'
<1>1. StoreTypeOK /\ run \in Executor /\ run' \in Executor
  BY DEF IInv, Typed, TypeOK
<1>2. /\ \A d \in Change : Last(d)' = Last(d) /\ Runs(d)' = Runs(d)
      /\ \A d \in Change : \A j \in 1..Last(d) :
            /\ <<d, j>> # <<c, i>> => effects'[d][j] = effects[d][j]
            /\ effects'[d][j].kind = effects[d][j].kind
      /\ effects'[c][i] = IF Live(effects[c][i]) THEN e ELSE effects[c][i]
      /\ \A d \in Change : LiveLanding(d)' \subseteq LiveLanding(d)
      /\ ~Live(e) => LiveLanding(c)' \subseteq LiveLanding(c) \ {i}
  BY <1>1, WrittenFrame DEF Runs
<1>3. \A d \in Change : change'[d] = IF d = c THEN row ELSE change[d]
  BY <1>1 DEF Transition, StoreTypeOK
<1>4. \A d \in Change : run'.plan[d] = "none"
  BY DEF IInv, Staged, StagePlaces, Calls
<1>5. \A d \in Change : \A j \in 1..Last(d) : effects'[d][j].state # "running"
  <2> SUFFICES ASSUME NEW d \in Change, NEW j \in 1..Last(d)
               PROVE  effects'[d][j].state # "running"
    OBVIOUS
  <2>1. CASE <<d, j>> = <<c, i>>
    BY <1>2, <2>1 DEF Live
  <2>2. CASE <<d, j>> # <<c, i>>
    BY <1>2, <2>2 DEF IInv, Acting, Calls
  <2> QED
    BY <2>1, <2>2
<1>6. run'.now[1] \in Change /\ run'.at \in {"inspect", "due"}
  BY <1>1 DEF Executor, Pair
<1>7. Staged'
  BY <1>4, <1>6 DEF Staged
<1>8. Finishing'
  BY <1>2, <1>3, <1>4 DEF IInv, Finishing
<1>9. Acting'
  <2>1. \A d \in Change : \A j, k \in LiveLanding(d)' : j = k
    BY <1>2 DEF IInv, Acting
  <2>2. \A d \in Change : change'[d].unknown # NoEffect =>
           change'[d].state \in {"stopped", "cancelled"} /\ LiveLanding(d)' = {}
    <3>1. CASE row = change[c]
      BY <1>2, <1>3, <3>1 DEF IInv, Acting
    <3>2. CASE row # change[c] /\ row.unknown # NoEffect
      <4>1. run.at = "inspect" /\ e.state = "failed"
        BY <3>2
      <4>2. effects[c][i].state = "unknown"
        BY <4>1 DEF IInv, Listed, Calls
      <4>3. i \in LiveLanding(c)
        BY <4>2 DEF LiveLanding, Live, Last
      <4>4. ~Live(e)
        BY <4>1 DEF Live
      <4>5. LiveLanding(c)' = {}
        BY <1>2, <4>3, <4>4 DEF IInv, Acting
      <4> QED
        BY <1>2, <1>3, <3>2, <4>5 DEF IInv, Acting
    <3>3. CASE row # change[c] /\ row.unknown = NoEffect
      BY <1>2, <1>3, <3>3 DEF IInv, Acting
    <3> QED
      BY <3>1, <3>2, <3>3
  <2> QED
    BY <1>2, <1>5, <2>1, <2>2 DEF Acting
<1>10. Listed'
  <2> SUFFICES ASSUME NEW p \in run'.todo
               PROVE  /\ p[2] \in 1..Last(p[1])'
                      /\ run'.at = "inspect" =>
                            effects'[p[1]][p[2]].state = "unknown"
                      /\ run'.at = "due" =>
                            \/ effects'[p[1]][p[2]].state = "cancelled"
                            \/ /\ effects'[p[1]][p[2]].state = "pending"
                               /\ Runs(p[1])'
                               /\ change'[p[1]].state = "landing"
    BY <1>6 DEF Listed, Calls
  <2>1. p \in run.todo /\ p = <<p[1], p[2]>> /\ p[1] \in Change
    BY <1>1 DEF Executor, Pair
  <2>2. CASE run.at = "inspect"
    <3>1. p[2] \in 1..Last(p[1]) /\ effects[p[1]][p[2]].state = "unknown"
      BY <2>1, <2>2 DEF IInv, Listed, Calls
    <3> QED
      BY <1>2, <2>1, <2>2, <3>1 DEF Calls
  <2>3. CASE run.at \in Calls /\ run.now = <<c, i>>
    <3>1. /\ p[2] \in 1..Last(p[1])
          /\ \/ effects[p[1]][p[2]].state = "cancelled"
             \/ /\ effects[p[1]][p[2]].state = "pending"
                /\ Runs(p[1]) /\ change[p[1]].state = "landing"
                /\ p[1] # c
      BY <2>1, <2>3 DEF IInv, Listed, Calls
    <3>2. CASE p = <<c, i>>
      BY <1>2, <2>1, <2>3, <3>1, <3>2 DEF Live, Calls
    <3>3. CASE p # <<c, i>>
      BY <1>2, <1>3, <2>1, <2>3, <3>1, <3>3 DEF Calls
    <3> QED
      BY <3>2, <3>3
  <2> QED
    BY <2>2, <2>3
<1>11. SlotIsExclusive'
  BY <1>1, SlotStep DEF IInv
<1>12. MergeKeepsLanding'
  BY <1>2, <1>5 DEF MergeKeepsLanding
<1> QED
  BY <1>7, <1>8, <1>9, <1>10, <1>11, <1>12 DEF IInv

\* Every settlement and every retry writes an effect of the same kind.
LEMMA SettlesByWriting ==
    ASSUME StoreTypeOK, NEW c \in Change, NEW i \in 1..Last(c)
    PROVE  /\ \A state \in {"done", "failed"} : \A outcome :
                \E e : /\ Settled(c, i, state, outcome) = Written(c, i, e)
                       /\ e.kind = effects[c][i].kind /\ e.state = state
           /\ \A state \in {"pending", "unknown"} :
                \E e : /\ Retried(c, i, state) = Written(c, i, e)
                       /\ e.kind = effects[c][i].kind /\ e.state = state
           /\ \A state \in {"pending", "running"} :
                LET e == [effects[c][i] EXCEPT !.state = state] IN
                e.kind = effects[c][i].kind /\ e.state = state
<1>1. effects[c][i] \in Effect
  BY EffectType
<1>2. ASSUME NEW state \in {"done", "failed"}, NEW outcome
      PROVE  \E e : /\ Settled(c, i, state, outcome) = Written(c, i, e)
                    /\ e.kind = effects[c][i].kind /\ e.state = state
  <2> DEFINE e == [effects[c][i] EXCEPT !.state = state, !.outcome = outcome]
  <2>1. e.kind = effects[c][i].kind /\ e.state = state
    BY <1>1 DEF Effect
  <2>2. Settled(c, i, state, outcome) = Written(c, i, e)
    BY DEF Settled
  <2> HIDE DEF e
  <2> QED
    BY <2>1, <2>2
<1>3. ASSUME NEW state \in {"pending", "unknown"}
      PROVE  \E e : /\ Retried(c, i, state) = Written(c, i, e)
                    /\ e.kind = effects[c][i].kind /\ e.state = state
  <2> DEFINE e == [effects[c][i] EXCEPT !.state = state, !.due = FALSE,
                                        !.tries = @ + 1]
  <2>1. e.kind = effects[c][i].kind /\ e.state = state
    BY <1>1 DEF Effect
  <2>2. Retried(c, i, state) = Written(c, i, e)
    BY DEF Retried
  <2> HIDE DEF e
  <2> QED
    BY <2>1, <2>2
<1>4. \A state \in {"pending", "running"} :
         LET e == [effects[c][i] EXCEPT !.state = state] IN
         e.kind = effects[c][i].kind /\ e.state = state
  BY <1>1 DEF Effect
<1> QED
  BY <1>2, <1>3, <1>4

LEMMA InspectAnswersSafe ==
    ASSUME IInv, Typed', NEW c \in Change, NEW i \in 1..Last(c),
           InspectAnswers(c, i)
    PROVE  IInv'
<1>1. StoreTypeOK /\ run \in Executor
  BY DEF IInv, Typed, TypeOK
<1>2. PICK e : /\ effects' = Written(c, i, e)
               /\ e.kind = effects[c][i].kind
               /\ e.state \in {"done", "failed", "pending", "unknown"}
  <2> DEFINE again == [effects[c][i] EXCEPT !.state = "pending"]
  <2>1. \/ \E state \in {"done", "failed"}, outcome \in
              {"merged", "pr-closed", "requested"} :
              effects' = Settled(c, i, state, outcome)
        \/ effects' = Written(c, i, again)
    BY DEF InspectAnswers
  <2>2. again.kind = effects[c][i].kind /\ again.state = "pending"
    BY <1>1, SettlesByWriting
  <2> HIDE DEF again
  <2> QED
    BY <1>1, <2>1, <2>2, SettlesByWriting
<1>3. /\ run.at = "inspect" /\ <<c, i>> \in run.todo
      /\ run'.at = "inspect" /\ run'.todo = run.todo \ {<<c, i>>}
      /\ run'.plan = run.plan
      /\ exec' = exec /\ task' = task
  BY <1>1 DEF InspectAnswers, Executor
<1>4. change[c] \in Row /\ Transition(c, change[c])
  BY StandsStill DEF IInv, InspectAnswers
<1> QED
  BY <1>2, <1>3, <1>4, EffectEnds

\* What a failure leaves of its change's row.
LEMMA StopsChangeRow ==
    ASSUME IInv, NEW c \in Change, NEW named \in Nat, StopsChange(c, named)
    PROVE  \E row \in Row :
              /\ Transition(c, row)
              /\ \/ row = change[c]
                 \/ /\ row.state = "stopped" /\ Runs(c)
                    /\ row.unknown = named
BY StoppedRow, StandsStill DEF StopsChange, IInv

LEMMA FailingSafe ==
    ASSUME IInv, Typed', NEW c \in Change, NEW i \in 1..Last(c), Failing(c, i)
    PROVE  IInv'
<1>1. StoreTypeOK /\ run \in Executor /\ i \in Nat /\ NoEffect \in Nat
  BY EffectType DEF IInv, Typed, TypeOK, NoEffect
<1>2. CASE InspectFails(c, i)
  <2>1. /\ run.at = "inspect" /\ <<c, i>> \in run.todo
        /\ run'.at = "inspect" /\ run'.todo = run.todo \ {<<c, i>>}
        /\ run'.plan = run.plan
        /\ exec' = exec /\ task' = task
    BY <1>1, <1>2 DEF InspectFails, Executor
  <2>2. CASE effects' = Retried(c, i, "unknown") /\ UNCHANGED <<change, slot>>
    <3>1. PICK e : /\ effects' = Written(c, i, e)
                   /\ e.kind = effects[c][i].kind /\ e.state = "unknown"
      BY <1>1, <2>2, SettlesByWriting
    <3>2. change[c] \in Row /\ Transition(c, change[c])
      BY <2>2, StandsStill DEF IInv
    <3> QED
      BY <2>1, <3>1, <3>2, EffectEnds
  <2>3. CASE /\ effects' = Settled(c, i, "failed", "none")
             /\ UNCHANGED <<change, slot>> \/ StopsChange(c, i)
    <3>1. PICK e : /\ effects' = Written(c, i, e)
                   /\ e.kind = effects[c][i].kind /\ e.state = "failed"
      BY <1>1, <2>3, SettlesByWriting
    <3>2. PICK row \in Row :
             /\ Transition(c, row)
             /\ row = change[c] \/ (row.state = "stopped" /\ Runs(c))
      BY <1>1, <2>3, StopsChangeRow, StandsStill DEF IInv
    <3> QED
      BY <2>1, <3>1, <3>2, EffectEnds
  <2> QED
    BY <1>2, <2>2, <2>3 DEF InspectFails
<1>3. CASE CallFails(c, i)
  <2>1. /\ run.at \in Calls /\ run.now = <<c, i>>
        /\ run'.at = "due" /\ run'.todo = run.todo
        /\ run'.plan = run.plan
        /\ exec' = exec /\ task' = task
    BY <1>1, <1>3 DEF CallFails, At, Executor, Calls
  <2>2. PICK e : /\ effects' = Written(c, i, e)
                 /\ e.kind = effects[c][i].kind
                 /\ e.state \in {"pending", "failed"}
    BY <1>1, <1>3, SettlesByWriting DEF CallFails
  <2>3. PICK row \in Row :
           /\ Transition(c, row)
           /\ \/ row = change[c]
              \/ row.state = "stopped" /\ Runs(c) /\ row.unknown = NoEffect
    BY <1>1, <1>3, StopsChangeRow, StandsStill DEF CallFails, IInv
  <2> QED
    BY <2>1, <2>2, <2>3, EffectEnds
<1> QED
  BY <1>2, <1>3 DEF Failing

LEMMA MergeRefusedSafe ==
    ASSUME IInv, Typed', NEW c \in Change, NEW i \in 1..Last(c),
           MergeRefused(c, i)
    PROVE  IInv'
<1>1. StoreTypeOK /\ run \in Executor /\ NoEffect \in Nat
  BY DEF IInv, Typed, TypeOK, NoEffect
<1>2. /\ run.at \in Calls /\ run.now = <<c, i>>
      /\ run'.at = "due" /\ run'.todo = run.todo
      /\ run'.plan = run.plan
      /\ exec' = exec /\ task' = task
  BY <1>1 DEF MergeRefused, Calling, At, Executor, Calls
<1>3. PICK e : /\ effects' = Written(c, i, e)
               /\ e.kind = effects[c][i].kind /\ e.state = "failed"
  BY <1>1, SettlesByWriting DEF MergeRefused
<1>4. PICK row \in Row :
         /\ Transition(c, row)
         /\ \/ row = change[c]
            \/ row.state = "stopped" /\ Runs(c) /\ row.unknown = NoEffect
  BY <1>1, StopsChangeRow DEF MergeRefused
<1> QED
  BY <1>2, <1>3, <1>4, EffectEnds

LEMMA AnsweredSafe ==
    ASSUME IInv, Typed', NEW c \in Change, NEW i \in 1..Last(c), NEW outcome,
           Answered(c, i, outcome), run.at \in Calls, run.now = <<c, i>>
    PROVE  IInv'
<1>1. StoreTypeOK /\ run \in Executor
  BY DEF IInv, Typed, TypeOK
<1>2. /\ run'.at = "due" /\ run'.todo = run.todo
      /\ run'.plan = run.plan
      /\ exec' = exec /\ task' = task
  BY <1>1 DEF Answered, At, Executor
<1>3. PICK e : /\ effects' = Written(c, i, e)
               /\ e.kind = effects[c][i].kind /\ e.state = "done"
  BY <1>1, SettlesByWriting DEF Answered
<1>4. change[c] \in Row /\ Transition(c, change[c])
  BY StandsStill DEF IInv, Answered
<1> QED
  BY <1>2, <1>3, <1>4, EffectEnds

\* A call goes on after an await.
LEMMA CallGoesOn ==
    ASSUME IInv, Typed', run.at \in Calls, NEW place \in Calls, At(place),
           UNCHANGED <<exec, change, effects, slot, task>>
    PROVE  IInv'
<1>1. run \in Executor
  BY DEF IInv, Typed, TypeOK
<1>2. run'.at = place /\ run'.plan = run.plan /\ run'.now = run.now
      /\ run'.todo = run.todo
  BY <1>1 DEF At, Executor
<1>3. \A c \in Change : /\ Runs(c)' = Runs(c) /\ Last(c)' = Last(c)
                        /\ LiveLanding(c)' = LiveLanding(c)
  BY DEF Runs, Last, LiveLanding
<1>4. \A c \in Change : run.plan[c] = "none"
  BY DEF IInv, Staged, StagePlaces, Calls
<1>5. Staged'
  BY <1>2, <1>4 DEF Staged, Calls
<1>6. Finishing'
  BY <1>2, <1>3, <1>4 DEF IInv, Finishing
<1>7. Acting'
  BY <1>2, <1>3 DEF IInv, Acting
<1>8. Listed'
  <2>1. run.now[1] \in Change /\ \A p \in run.todo : p[1] \in Change
    BY <1>1 DEF Executor, Pair
  <2>2. run'.at \in Calls =>
           /\ run'.now[2] \in 1..Len(effects'[run'.now[1]])
           /\ change'[run'.now[1]].state # "landed"
    BY <1>2 DEF IInv, Listed, Last
  <2>3. \A p \in run'.todo :
           /\ p[2] \in 1..Len(effects'[p[1]])
           /\ \/ effects'[p[1]][p[2]].state = "cancelled"
              \/ /\ effects'[p[1]][p[2]].state = "pending"
                 /\ exec'[ExecOf[p[1]]] = "running"
                 /\ change'[p[1]].state = "landing"
                 /\ run'.now[1] # p[1]
    BY <1>2 DEF IInv, Listed, Last, Runs
  <2> QED
    BY <1>2, <2>2, <2>3 DEF Listed, Last, Runs, Calls
<1>9. SlotIsExclusive'
  BY DEF IInv, SlotIsExclusive, Runs
<1>10. MergeKeepsLanding'
  BY <1>3 DEF IInv, MergeKeepsLanding
<1> QED
  BY <1>5, <1>6, <1>7, <1>8, <1>9, <1>10 DEF IInv

LEMMA CallSafe ==
    ASSUME IInv, Typed', NEW c \in Change, NEW i \in 1..Last(c),
           \/ ReadMergeBase(c, i) \/ MergePull(c, i) \/ ViewMerged(c, i)
           \/ MergeRefused(c, i) \/ AskUpdate(c, i)
    PROVE  IInv'
<1>1. run.at \in Calls /\ run.now = <<c, i>>
  BY DEF ReadMergeBase, MergePull, ViewMerged, MergeRefused, AskUpdate,
         Calling, Calls
<1>2. \/ MergeRefused(c, i)
      \/ \E outcome : Answered(c, i, outcome)
      \/ /\ \E place \in Calls : At(place)
         /\ UNCHANGED <<exec, change, effects, slot, task>>
  BY DEF ReadMergeBase, MergePull, ViewMerged, AskUpdate, store, Calls
<1> QED
  BY <1>1, <1>2, MergeRefusedSafe, AnsweredSafe, CallGoesOn

\* An effect starts: it was pending, its change is landing in a running
\* execution, and what else is listed for that change was cancelled.
LEMMA MarkRunningSafe ==
    ASSUME IInv, Typed', NEW c \in Change, NEW i \in 1..Last(c),
           MarkRunning(c, i)
    PROVE  IInv'
<1> DEFINE e == [effects[c][i] EXCEPT !.state = "running"]
<1>1. StoreTypeOK /\ run \in Executor /\ effects[c][i] \in Effect
  BY EffectType DEF IInv, Typed, TypeOK
<1>2. e.kind = effects[c][i].kind /\ e.state = "running"
  BY <1>1, SettlesByWriting
<1>3. /\ run.at = "due" /\ <<c, i>> \in run.todo
      /\ effects' = Written(c, i, e)
      /\ run'.at = IF Live(effects[c][i]) THEN "call" ELSE "due"
      /\ run'.todo = run.todo \ {<<c, i>>} /\ run'.now = <<c, i>>
      /\ run'.plan = run.plan
      /\ UNCHANGED <<exec, change, slot, task>>
  BY <1>1 DEF MarkRunning, Executor
<1> HIDE DEF e
<1>4. /\ \A d \in Change : Last(d)' = Last(d) /\ Runs(d)' = Runs(d)
      /\ \A d \in Change : \A j \in 1..Last(d) :
            /\ <<d, j>> # <<c, i>> => effects'[d][j] = effects[d][j]
            /\ effects'[d][j].kind = effects[d][j].kind
      /\ effects'[c][i] = IF Live(effects[c][i]) THEN e ELSE effects[c][i]
      /\ \A d \in Change : LiveLanding(d)' \subseteq LiveLanding(d)
  BY <1>1, <1>2, <1>3, WrittenFrame DEF Runs
<1>5. \/ effects[c][i].state = "cancelled" /\ ~Live(effects[c][i])
      \/ /\ effects[c][i].state = "pending" /\ Live(effects[c][i])
         /\ Runs(c) /\ change[c].state = "landing"
  <2>1. LET p == <<c, i>> IN
        \/ effects[p[1]][p[2]].state = "cancelled"
        \/ /\ effects[p[1]][p[2]].state = "pending" /\ Runs(p[1])
           /\ change[p[1]].state = "landing"
    BY <1>3 DEF IInv, Listed
  <2> QED
    BY <2>1 DEF Live
<1>6. \A d \in Change : run'.plan[d] = "none"
  BY <1>3 DEF IInv, Staged, StagePlaces
<1>7. \A d \in Change : \A j \in 1..Last(d) :
         effects'[d][j].state = "running" =>
            d = c /\ j = i /\ Live(effects[c][i])
  <2> SUFFICES ASSUME NEW d \in Change, NEW j \in 1..Last(d),
                      effects'[d][j].state = "running"
               PROVE  d = c /\ j = i /\ Live(effects[c][i])
    OBVIOUS
  <2>1. effects[d][j].state # "running"
    BY <1>3 DEF IInv, Acting, Calls
  <2>2. <<d, j>> = <<c, i>>
    BY <1>4, <2>1
  <2> QED
    BY <1>4, <2>1, <2>2
<1>8. Staged'
  BY <1>3, <1>6 DEF Staged
<1>9. Finishing'
  BY <1>3, <1>4, <1>6 DEF IInv, Finishing
<1>10. Acting'
  <2>1. \A d \in Change : \A j \in 1..Last(d)' :
           effects'[d][j].state = "running" =>
              run'.at \in Calls /\ run'.now = <<d, j>>
    BY <1>3, <1>4, <1>7 DEF Calls
  <2>2. \A d \in Change : /\ \A j, k \in LiveLanding(d)' : j = k
                          /\ change'[d].unknown # NoEffect =>
                                /\ change'[d].state \in {"stopped", "cancelled"}
                                /\ LiveLanding(d)' = {}
    BY <1>3, <1>4 DEF IInv, Acting
  <2> QED
    BY <2>1, <2>2 DEF Acting
<1>11. Listed'
  <2>1. run'.at \in Calls =>
           /\ run'.now[2] \in 1..Len(effects'[run'.now[1]])
           /\ change'[run'.now[1]].state # "landed"
    BY <1>3, <1>4, <1>5 DEF Calls, Last
  <2>2. ASSUME NEW p \in run'.todo
        PROVE  /\ p[2] \in 1..Len(effects'[p[1]])
               /\ \/ effects'[p[1]][p[2]].state = "cancelled"
                  \/ /\ effects'[p[1]][p[2]].state = "pending"
                     /\ exec'[ExecOf[p[1]]] = "running"
                     /\ change'[p[1]].state = "landing"
                     /\ ~(run'.at \in Calls /\ run'.now[1] = p[1])
    <3>1. p \in run.todo /\ p = <<p[1], p[2]>> /\ p[1] \in Change
          /\ p # <<c, i>>
      BY <1>1, <1>3 DEF Executor, Pair
    <3>2. /\ p[2] \in 1..Last(p[1])
          /\ \/ effects[p[1]][p[2]].state = "cancelled"
             \/ /\ effects[p[1]][p[2]].state = "pending"
                /\ Runs(p[1]) /\ change[p[1]].state = "landing"
      BY <1>3, <3>1 DEF IInv, Listed
    <3>3. effects'[p[1]][p[2]] = effects[p[1]][p[2]]
          /\ Last(p[1])' = Last(p[1])
      BY <1>4, <3>1, <3>2
    <3>4. CASE effects[p[1]][p[2]].state = "cancelled"
      BY <3>2, <3>3, <3>4 DEF Last
    <3>5. CASE effects[p[1]][p[2]].state = "pending" /\ p[1] # c
      BY <1>3, <3>2, <3>3, <3>5 DEF Last, Runs
    <3>6. CASE effects[p[1]][p[2]].state = "pending" /\ p[1] = c
      <4>1. p[2] \in LiveLanding(c)
        BY <3>2, <3>6 DEF LiveLanding, Live, Last
      <4>2. p[2] # i
        BY <3>1, <3>6
      <4>3. i \notin LiveLanding(c)
        BY <4>1, <4>2 DEF IInv, Acting
      <4>4. ~Live(effects[c][i])
        BY <4>3 DEF LiveLanding, Last
      <4>5. run'.at \notin Calls
        BY <1>3, <4>4 DEF Calls
      <4> QED
        BY <1>3, <3>2, <3>3, <3>6, <4>5 DEF Last, Runs
    <3> QED
      BY <3>2, <3>4, <3>5, <3>6
  <2>3. run'.at \in Calls \cup {"due"}
    BY <1>3 DEF Calls
  <2>4. run'.at # "inspect"
    BY <1>3
  <2> QED
    BY <2>1, <2>2, <2>3, <2>4 DEF Listed, Last, Runs
<1>12. SlotIsExclusive'
  BY <1>3 DEF IInv, SlotIsExclusive, Runs
<1>13. MergeKeepsLanding'
  BY <1>3, <1>4, <1>5, <1>7 DEF MergeKeepsLanding
<1> QED
  BY <1>8, <1>9, <1>10, <1>11, <1>12, <1>13 DEF IInv

-----------------------------------------------------------------------------
(***************************************************************************)
(* What comes in between                                                   *)
(***************************************************************************)
\* Steps that leave the rows and the pass alone but for closed tasks and
\* what an effect's state does not show.
LEMMA BesideSafe ==
    ASSUME IInv, Typed', UNCHANGED <<exec, change, slot, run>>,
           \A c \in Change : task[c] # "open" => task'[c] # "open",
           \A c \in Change :
              /\ Last(c)' = Last(c)
              /\ \A i \in 1..Last(c) :
                    /\ effects'[c][i].state = effects[c][i].state
                    /\ effects'[c][i].kind = effects[c][i].kind
    PROVE  IInv'
<1>1. StoreTypeOK /\ run \in Executor
  BY DEF IInv, Typed, TypeOK
<1>2. \A c \in Change : Last(c) \in Nat /\ Runs(c)' = Runs(c)
  BY <1>1 DEF Last, Runs, StoreTypeOK
<1>3. \A c \in Change : LiveLanding(c)' = LiveLanding(c)
  <2> SUFFICES ASSUME NEW c \in Change
               PROVE  LiveLanding(c)' = LiveLanding(c)
    OBVIOUS
  <2>1. Len(effects'[c]) = Len(effects[c])
    BY DEF Last
  <2>2. \A i \in 1..Len(effects[c]) : Live(effects'[c][i]) = Live(effects[c][i])
    BY DEF Last, Live
  <2> QED
    BY <2>1, <2>2 DEF LiveLanding, Live
<1>4. Staged'
  BY DEF IInv, Staged
<1>5. Finishing'
  <2>1. \A c \in Change : Last(c) # 0 => Last(c) \in 1..Last(c)
    BY <1>2
  <2>2. \A c \in Change : Last(c) # 0 =>
           effects'[c][Last(c)'].kind = effects[c][Last(c)].kind
    BY <2>1
  <2> QED
    BY <1>2, <2>2 DEF IInv, Finishing
<1>6. Acting'
  BY <1>3 DEF IInv, Acting
<1>7. Listed'
  <2>1. run.now[1] \in Change /\ \A p \in run.todo : p[1] \in Change
    BY <1>1 DEF Executor, Pair
  <2>2. run'.at \in Calls =>
           /\ run'.now[2] \in 1..Len(effects'[run'.now[1]])
           /\ change'[run'.now[1]].state # "landed"
    BY <2>1 DEF IInv, Listed, Last
  <2>3. ASSUME NEW p \in run'.todo
        PROVE  /\ run'.at \in {"inspect", "due"} \cup Calls
                     => p[2] \in 1..Len(effects'[p[1]])
               /\ run'.at = "inspect" => effects'[p[1]][p[2]].state = "unknown"
               /\ run'.at \in {"due"} \cup Calls =>
                  \/ effects'[p[1]][p[2]].state = "cancelled"
                  \/ /\ effects'[p[1]][p[2]].state = "pending"
                     /\ exec'[ExecOf[p[1]]] = "running"
                     /\ change'[p[1]].state = "landing"
                     /\ ~(run'.at \in Calls /\ run'.now[1] = p[1])
    <3>1. p \in run.todo /\ p[1] \in Change
      BY <2>1
    <3>2. run.at \in {"inspect", "due"} \cup Calls => p[2] \in 1..Last(p[1])
      BY <3>1 DEF IInv, Listed
    <3>3. /\ run.at = "inspect" => effects[p[1]][p[2]].state = "unknown"
          /\ run.at \in {"due"} \cup Calls =>
                \/ effects[p[1]][p[2]].state = "cancelled"
                \/ /\ effects[p[1]][p[2]].state = "pending"
                   /\ Runs(p[1]) /\ change[p[1]].state = "landing"
                   /\ ~(run.at \in Calls /\ run.now[1] = p[1])
      BY <3>1 DEF IInv, Listed
    <3> QED
      BY <3>1, <3>2, <3>3 DEF Last, Runs
  <2> QED
    BY <2>2, <2>3 DEF Listed, Last, Runs
<1>8. SlotIsExclusive'
  BY <1>2 DEF IInv, SlotIsExclusive, Runs
<1>9. MergeKeepsLanding'
  BY DEF IInv, MergeKeepsLanding
<1> QED
  BY <1>4, <1>5, <1>6, <1>7, <1>8, <1>9 DEF IInv

LEMMA OutsideSafe ==
    ASSUME IInv, Typed', NEW c \in Change,
           \/ Submit(c) \/ GitHubUpdates(c) \/ PushByOther(c) \/ MergeByOther
           \/ ShutPull(c) \/ Hold(c) \/ Release(c) \/ CloseTask(c)
           \/ UNCHANGED vars
    PROVE  IInv'
<1>1. StoreTypeOK
  BY DEF IInv, Typed, TypeOK
<1>2. UNCHANGED <<exec, change, slot, run, effects>>
      /\ (task' = task \/ CloseTask(c))
  BY DEF Submit, GitHubUpdates, PushByOther, MergeByOther, ShutPull, Hold,
         Release, CloseTask, vars, store
<1>3. \A d \in Change : task[d] # "open" => task'[d] # "open"
  BY <1>1, <1>2 DEF CloseTask, StoreTypeOK
<1> QED
  BY <1>2, <1>3, BesideSafe DEF Last

LEMMA BackoffEndsSafe ==
    ASSUME IInv, Typed', NEW c \in Change, NEW i \in 1..Last(c),
           BackoffEnds(c, i)
    PROVE  IInv'
<1> DEFINE e == [effects[c][i] EXCEPT !.due = TRUE]
<1>1. StoreTypeOK /\ effects[c][i] \in Effect
  BY EffectType DEF IInv, Typed, TypeOK
<1>2. e.kind = effects[c][i].kind /\ e.state = effects[c][i].state
  BY <1>1 DEF Effect
<1>3. effects' = Written(c, i, e)
  BY <1>1 DEF BackoffEnds, Written, StoreTypeOK
<1>4. UNCHANGED <<exec, change, slot, run, task>>
  BY DEF BackoffEnds
<1> HIDE DEF e
<1>5. /\ \A d \in Change : Last(d)' = Last(d)
      /\ \A d \in Change : \A j \in 1..Last(d) :
            /\ <<d, j>> # <<c, i>> => effects'[d][j] = effects[d][j]
            /\ effects'[d][j].kind = effects[d][j].kind
      /\ effects'[c][i] = IF Live(effects[c][i]) THEN e ELSE effects[c][i]
  BY <1>1, <1>2, <1>3, WrittenFrame
<1>6. \A d \in Change : \A j \in 1..Last(d) :
         effects'[d][j].state = effects[d][j].state
  <2> SUFFICES ASSUME NEW d \in Change, NEW j \in 1..Last(d)
               PROVE  effects'[d][j].state = effects[d][j].state
    OBVIOUS
  <2>1. CASE <<d, j>> = <<c, i>>
    BY <1>2, <1>5, <2>1
  <2>2. CASE <<d, j>> # <<c, i>>
    BY <1>5, <2>2
  <2> QED
    BY <2>1, <2>2
<1> QED
  BY <1>4, <1>5, <1>6, BesideSafe

\* The end of the process leaves no effect running, and each as live as it was.
LEMMA RunningIsUnknown ==
    ASSUME StoreTypeOK, effects' = RunningToUnknown, NEW c \in Change
    PROVE  /\ Last(c)' = Last(c)
           /\ LiveLanding(c)' = LiveLanding(c)
           /\ \A i \in 1..Last(c) :
                 /\ effects'[c][i].state # "running"
                 /\ effects'[c][i].kind = effects[c][i].kind
                 /\ ~Live(effects[c][i]) => effects'[c][i] = effects[c][i]
<1>1. /\ effects[c] \in Seq(Effect) /\ Last(c) \in Nat
      /\ Last(c) = Len(effects[c]) /\ DOMAIN effects[c] = 1..Last(c)
      /\ \A i \in 1..Last(c) : effects[c][i] \in Effect
  BY EffectType DEF StoreTypeOK, Last
<1>2. effects'[c] = [i \in 1..Last(c) |->
          IF effects[c][i].state = "running"
            THEN [effects[c][i] EXCEPT !.state = "unknown"]
            ELSE effects[c][i]]
  BY <1>1 DEF RunningToUnknown
<1>3. Last(c)' = Last(c)
  BY <1>1, <1>2 DEF Last
<1>4. \A i \in 1..Last(c) :
         /\ effects'[c][i].state # "running"
         /\ effects'[c][i].kind = effects[c][i].kind
         /\ Live(effects'[c][i]) = Live(effects[c][i])
         /\ ~Live(effects[c][i]) => effects'[c][i] = effects[c][i]
  BY <1>1, <1>2 DEF Effect, Live
<1>5. LiveLanding(c)' = LiveLanding(c)
  BY <1>1, <1>3, <1>4 DEF LiveLanding, Last, Live
<1> QED
  BY <1>3, <1>4, <1>5

\* Stop cancels what is pending in its execution and nothing else.
LEMMA PendingIsCancelled ==
    ASSUME StoreTypeOK, NEW x \in Exec, effects' = WithPendingCancelled(x),
           NEW c \in Change
    PROVE  /\ Last(c)' = Last(c)
           /\ LiveLanding(c)' \subseteq LiveLanding(c)
           /\ ExecOf[c] # x => effects'[c] = effects[c]
           /\ \A i \in 1..Last(c) :
                 /\ effects'[c][i].kind = effects[c][i].kind
                 /\ \/ effects'[c][i] = effects[c][i]
                    \/ /\ effects[c][i].state = "pending"
                       /\ effects'[c][i].state = "cancelled"
<1>1. /\ effects[c] \in Seq(Effect) /\ Last(c) \in Nat
      /\ Last(c) = Len(effects[c]) /\ DOMAIN effects[c] = 1..Last(c)
      /\ \A i \in 1..Last(c) : effects[c][i] \in Effect
  BY EffectType DEF StoreTypeOK, Last
<1>2. effects'[c] = [i \in 1..Last(c) |->
          IF ExecOf[c] = x /\ effects[c][i].state = "pending"
            THEN [effects[c][i] EXCEPT !.state = "cancelled"]
            ELSE effects[c][i]]
  BY <1>1 DEF WithPendingCancelled
<1>3. Last(c)' = Last(c)
  BY <1>1, <1>2 DEF Last
<1>4. \A i \in 1..Last(c) :
         /\ effects'[c][i].kind = effects[c][i].kind
         /\ \/ effects'[c][i] = effects[c][i]
            \/ /\ effects[c][i].state = "pending"
               /\ effects'[c][i].state = "cancelled"
  BY <1>1, <1>2 DEF Effect
<1>5. LiveLanding(c)' \subseteq LiveLanding(c)
  BY <1>1, <1>3, <1>4 DEF LiveLanding, Last, Live
<1>6. ExecOf[c] # x => effects'[c] = effects[c]
  BY <1>1, <1>2
<1> QED
  BY <1>3, <1>4, <1>5, <1>6

\* A restart that leaves no effect running keeps the invariant.
LEMMA RestartSafe ==
    ASSUME IInv, Typed', Restarted, UNCHANGED <<exec, change, slot, task>>,
           \A c \in Change :
              /\ \A i \in 1..Last(c)' : effects'[c][i].state # "running"
              /\ \A i, j \in LiveLanding(c)' : i = j
              /\ change[c].unknown # NoEffect => LiveLanding(c)' = {}
    PROVE  IInv'
<1>1. /\ run'.at = "inspect" /\ run'.todo = DueUnknownEffects'
      /\ \A c \in Change : run'.plan[c] = "none"
  BY DEF Restarted, Idle
<1>2. \A c \in Change : Runs(c)' = Runs(c)
  BY DEF Runs
<1>3. Staged'
  BY <1>1 DEF Staged
<1>4. Finishing'
  BY <1>1, <1>2 DEF IInv, Finishing
<1>5. Acting'
  BY DEF IInv, Acting
<1>6. Listed'
  <2>1. \A p \in DueUnknownEffects' :
           /\ p[2] \in 1..Len(effects'[p[1]])
           /\ effects'[p[1]][p[2]].state = "unknown"
    BY DEF DueUnknownEffects, EffectIds, Last
  <2> QED
    BY <1>1, <2>1 DEF Listed, Calls, Last
<1>7. SlotIsExclusive'
  BY <1>2 DEF IInv, SlotIsExclusive, Runs
<1>8. MergeKeepsLanding'
  BY DEF MergeKeepsLanding
<1> QED
  BY <1>3, <1>4, <1>5, <1>6, <1>7, <1>8 DEF IInv

LEMMA CrashSafe ==
    ASSUME IInv, Typed', Crash
    PROVE  IInv'
<1>1. /\ StoreTypeOK /\ Restarted /\ UNCHANGED <<exec, change, slot, task>>
      /\ effects' = RunningToUnknown
  BY DEF IInv, Typed, TypeOK, Crash
<1>2. \A c \in Change : /\ Last(c)' = Last(c)
                        /\ LiveLanding(c)' = LiveLanding(c)
                        /\ \A i \in 1..Last(c) :
                              effects'[c][i].state # "running"
  BY <1>1, RunningIsUnknown
<1>3. \A c \in Change : /\ \A i, j \in LiveLanding(c) : i = j
                        /\ change[c].unknown # NoEffect => LiveLanding(c) = {}
  BY DEF IInv, Acting
<1> QED
  BY <1>1, <1>2, <1>3, RestartSafe

\* What a request, a verdict or a carried round leaves without its row.
LEMMA CrashInStageSafe ==
    ASSUME IInv, Typed', NEW c \in Change, CrashInStage(c)
    PROVE  IInv'
<1>1. Restarted /\ UNCHANGED <<exec, change, slot, task>>
  BY DEF CrashInStage
<1>2. run.at \notin Calls
  BY DEF CrashInStage, MayRequest, Serving, On, Calls
<1>3. \A d \in Change :
         /\ \A i \in 1..Last(d) : effects[d][i].state # "running"
         /\ \A i, j \in LiveLanding(d) : i = j
         /\ change[d].unknown # NoEffect => LiveLanding(d) = {}
  BY <1>2, NothingRuns DEF IInv, Acting
<1>4. CASE effects' = effects
  <2>1. \A d \in Change : Last(d)' = Last(d) /\ LiveLanding(d)' = LiveLanding(d)
    BY <1>4 DEF Last, LiveLanding
  <2> QED
    BY <1>1, <1>3, <1>4, <2>1, RestartSafe
<1>5. CASE effects' # effects
  <2>1. effects' = Requested(c) /\ run.at = "write" /\ run.now[1] = c
    BY <1>5 DEF CrashInStage, MayRequest, On
  <2>2. change[c].unknown = NoEffect
    BY <2>1 DEF IInv, Staged
  <2>3. /\ \A d \in Change \ {c} : effects'[d] = effects[d]
        /\ \A i \in 1..Last(c)' : effects'[c][i].state # "running"
        /\ \A i, j \in LiveLanding(c)' : i = j
    BY <1>2, <1>5, <2>1, RequestAdds
  <2>4. \A d \in Change \ {c} :
           Last(d)' = Last(d) /\ LiveLanding(d)' = LiveLanding(d)
    BY <2>3 DEF Last, LiveLanding
  <2>5. ASSUME NEW d \in Change
        PROVE  /\ \A i \in 1..Last(d)' : effects'[d][i].state # "running"
               /\ \A i, j \in LiveLanding(d)' : i = j
               /\ change[d].unknown # NoEffect => LiveLanding(d)' = {}
    <3>1. CASE d = c
      BY <2>2, <2>3, <3>1
    <3>2. CASE d # c
      BY <1>3, <2>3, <2>4, <3>2
    <3> QED
      BY <3>1, <3>2
  <2> QED
    BY <1>1, <2>5, RestartSafe
<1> QED
  BY <1>4, <1>5

\* What a failed effect leaves without the stop of its change.
LEMMA CrashInFailureSafe ==
    ASSUME IInv, Typed', NEW c \in Change, NEW i \in 1..Last(c),
           CrashInFailure(c, i)
    PROVE  IInv'
<1>1. StoreTypeOK /\ Restarted /\ UNCHANGED <<exec, change, slot, task>>
  BY DEF IInv, Typed, TypeOK, CrashInFailure
<1>2. PICK e : /\ effects' = Written(c, i, e)
               /\ e.kind = effects[c][i].kind /\ e.state = "failed"
  BY <1>1, SettlesByWriting DEF CrashInFailure
<1>3. /\ \A d \in Change : Last(d)' = Last(d)
      /\ \A d \in Change : \A j \in 1..Last(d) :
            <<d, j>> # <<c, i>> => effects'[d][j] = effects[d][j]
      /\ effects'[c][i] = IF Live(effects[c][i]) THEN e ELSE effects[c][i]
      /\ \A d \in Change : LiveLanding(d)' \subseteq LiveLanding(d)
  BY <1>1, <1>2, WrittenFrame
<1>4. \A d \in Change : \A j \in 1..Last(d) :
         effects[d][j].state = "running" => <<d, j>> = <<c, i>>
  BY DEF IInv, Acting, CrashInFailure, Calls
<1>5. effects'[c][i].state # "running"
  BY <1>2, <1>3 DEF Live
<1>6. ASSUME NEW d \in Change, NEW j \in 1..Last(d)
      PROVE  effects'[d][j].state # "running"
  BY <1>3, <1>4, <1>5
<1>7. \A d \in Change :
         /\ \A j, k \in LiveLanding(d)' : j = k
         /\ change[d].unknown # NoEffect => LiveLanding(d)' = {}
  BY <1>3 DEF IInv, Acting
<1> QED
  BY <1>1, <1>3, <1>6, <1>7, RestartSafe

\* Stop: a change whose merge runs keeps its row and has no stage; all that
\* is left of the others of the execution is cancelled or has landed.
LEMMA StopSafe ==
    ASSUME IInv, Typed', NEW x \in Exec, Stop(x)
    PROVE  IInv'
<1>1. StoreTypeOK /\ run \in Executor
  BY DEF IInv, Typed, TypeOK
<1>2. /\ effects' = WithPendingCancelled(x) /\ run' = run
      /\ \A c \in Change : ExecOf[c] # x => Runs(c)' = Runs(c)
      /\ \A c \in Change : ExecOf[c] = x => Runs(c) /\ ~Runs(c)'
  <2>1. \A c \in Change : ExecOf[c] \in Exec
    BY StoreAssumption DEF Change
  <2> QED
    BY <1>1, <2>1 DEF Stop, Runs, StoreTypeOK
<1>3. \A c \in Change : /\ Last(c) \in Nat /\ Last(c)' = Last(c)
                        /\ LiveLanding(c)' \subseteq LiveLanding(c)
  BY <1>1, <1>2, PendingIsCancelled DEF Last, StoreTypeOK
<1>4. \A c \in Change : \A i \in 1..Last(c) :
         /\ effects'[c][i].kind = effects[c][i].kind
         /\ \/ effects'[c][i] = effects[c][i]
            \/ /\ effects[c][i].state = "pending"
               /\ effects'[c][i].state = "cancelled"
  BY <1>1, <1>2, PendingIsCancelled
<1>5. \A c \in Change :
         \/ /\ c \in Stoppable(x) /\ change'[c].state = "cancelled"
            /\ change'[c].unknown = change[c].unknown
            /\ ExecOf[c] = x /\ task'[c] # "open"
            /\ change[c].state # "landed"
         \/ /\ c \notin Stoppable(x) /\ change'[c] = change[c]
            /\ task'[c] = task[c]
  <2> SUFFICES ASSUME NEW c \in Change
               PROVE  \/ /\ c \in Stoppable(x)
                         /\ change'[c].state = "cancelled"
                         /\ change'[c].unknown = change[c].unknown
                         /\ ExecOf[c] = x /\ task'[c] # "open"
                         /\ change[c].state # "landed"
                      \/ /\ c \notin Stoppable(x) /\ change'[c] = change[c]
                         /\ task'[c] = task[c]
    OBVIOUS
  <2>1. change[c] \in Row
    BY ChangeType DEF IInv, Typed
  <2>2. CASE c \in Stoppable(x)
    <3>1. change'[c] = [change[c] EXCEPT !.state = "cancelled", !.step = "none"]
          /\ task'[c] = IF task[c] = "open" THEN "cancelled" ELSE task[c]
      BY <2>2 DEF Stop
    <3>2. ExecOf[c] = x /\ change[c].state # "landed"
      BY <2>2 DEF Stoppable
    <3> QED
      BY <2>1, <2>2, <3>1, <3>2 DEF Row
  <2>3. CASE c \notin Stoppable(x)
    BY <2>3 DEF Stop
  <2> QED
    BY <2>2, <2>3
<1>6. \A c \in Change \ Stoppable(x) : ExecOf[c] = x =>
         \/ change[c].state = "landed"
         \/ /\ change[c].state = "landing" /\ run.at \in Calls
            /\ run.plan[c] = "none"
  <2> SUFFICES ASSUME NEW c \in Change, c \notin Stoppable(x), ExecOf[c] = x,
                      change[c].state # "landed"
               PROVE  /\ change[c].state = "landing" /\ run.at \in Calls
                      /\ run.plan[c] = "none"
    OBVIOUS
  <2>1. change[c].state # "cancelled"
    BY <1>2 DEF IInv, Finishing
  <2>2. change[c].state = "landing"
        /\ \E i \in 1..Last(c) : effects[c][i].state = "running"
    BY <2>1 DEF Stoppable
  <2>3. run.at \in Calls
    BY <2>2 DEF IInv, Acting
  <2> QED
    BY <2>2, <2>3 DEF IInv, Staged, StagePlaces, Calls
<1>7. Staged'
  <2>1. run.now[1] \in Change
    BY <1>1 DEF Executor, Pair
  <2>2. change'[run.now[1]].unknown = change[run.now[1]].unknown
    BY <1>5, <2>1
  <2> QED
    BY <1>2, <2>2 DEF IInv, Staged
<1>8. Finishing'
  <2> SUFFICES ASSUME NEW c \in Change
               PROVE  /\ change'[c].state = "cancelled" => ~Runs(c)'
                      /\ ~Runs(c)' => change'[c].state \in {"landing", "landed"}
                                      \/ task'[c] # "open"
                      /\ ~Runs(c)' /\ run.plan[c] # "none" =>
                            \/ change'[c].state \in {"landed", "cancelled"}
                            \/ /\ change'[c].state = "landing"
                               /\ run.plan[c] = "settle"
                      /\ run.plan[c] = "settle" =>
                            /\ ~Runs(c)' /\ Last(c)' # 0
                            /\ effects'[c][Last(c)'].kind = "merge"
                      /\ change'[c].state = "landed" =>
                            \/ run.plan[c] = "none"
                            \/ run.at = "accept" /\ run.now[1] = c
    BY <1>2 DEF Finishing
  <2>1. run.plan[c] = "settle" =>
           ~Runs(c) /\ Last(c)' # 0 /\ effects'[c][Last(c)'].kind = "merge"
    <3>1. run.plan[c] = "settle" =>
             ~Runs(c) /\ Last(c) # 0 /\ effects[c][Last(c)].kind = "merge"
      BY DEF IInv, Finishing
    <3>2. Last(c) # 0 => Last(c) \in 1..Last(c)
      BY <1>3
    <3> QED
      BY <1>3, <1>4, <3>1, <3>2
  <2>2. CASE ExecOf[c] # x
    <3>1. change'[c] = change[c] /\ task'[c] = task[c] /\ Runs(c)' = Runs(c)
      BY <1>2, <1>5, <2>2
    <3> QED
      BY <2>1, <3>1 DEF IInv, Finishing
  <2>3. CASE ExecOf[c] = x
    <3>1. Runs(c) /\ ~Runs(c)' /\ run.plan[c] # "settle"
      BY <1>2, <2>1, <2>3
    <3>2. CASE c \in Stoppable(x)
      BY <1>5, <3>1, <3>2
    <3>3. CASE c \notin Stoppable(x)
      BY <1>5, <1>6, <2>3, <3>1, <3>3 DEF IInv, Finishing
    <3> QED
      BY <3>2, <3>3
  <2> QED
    BY <2>2, <2>3
<1>9. Acting'
  <2>1. \A c \in Change : \A i \in 1..Last(c)' :
           effects'[c][i].state = "running" =>
              run'.at \in Calls /\ run'.now = <<c, i>>
    BY <1>2, <1>3, <1>4 DEF IInv, Acting
  <2>2. \A c \in Change : \A i, j \in LiveLanding(c)' : i = j
    BY <1>3 DEF IInv, Acting
  <2>3. \A c \in Change : change'[c].unknown # NoEffect =>
           change'[c].state \in {"stopped", "cancelled"} /\ LiveLanding(c)' = {}
    BY <1>3, <1>5 DEF IInv, Acting
  <2> QED
    BY <2>1, <2>2, <2>3 DEF Acting
<1>10. Listed'
  <2>1. run.now[1] \in Change /\ \A p \in run.todo : p[1] \in Change
    BY <1>1 DEF Executor, Pair
  <2>2. run'.at \in Calls =>
           /\ run'.now[2] \in 1..Len(effects'[run'.now[1]])
           /\ change'[run'.now[1]].state # "landed"
    BY <1>2, <1>3, <1>5, <2>1 DEF IInv, Listed, Last
  <2>3. ASSUME NEW p \in run'.todo
        PROVE  /\ run'.at \in {"inspect", "due"} \cup Calls
                     => p[2] \in 1..Len(effects'[p[1]])
               /\ run'.at = "inspect" => effects'[p[1]][p[2]].state = "unknown"
               /\ run'.at \in {"due"} \cup Calls =>
                  \/ effects'[p[1]][p[2]].state = "cancelled"
                  \/ /\ effects'[p[1]][p[2]].state = "pending"
                     /\ exec'[ExecOf[p[1]]] = "running"
                     /\ change'[p[1]].state = "landing"
                     /\ ~(run'.at \in Calls /\ run'.now[1] = p[1])
    <3>1. p \in run.todo /\ p[1] \in Change
      BY <1>2, <2>1
    <3>2. run.at \in {"inspect", "due"} \cup Calls => p[2] \in 1..Last(p[1])
      BY <3>1 DEF IInv, Listed
    <3>3. /\ run.at = "inspect" => effects[p[1]][p[2]].state = "unknown"
          /\ run.at \in {"due"} \cup Calls =>
                \/ effects[p[1]][p[2]].state = "cancelled"
                \/ /\ effects[p[1]][p[2]].state = "pending"
                   /\ Runs(p[1]) /\ change[p[1]].state = "landing"
                   /\ ~(run.at \in Calls /\ run.now[1] = p[1])
      BY <3>1 DEF IInv, Listed
    <3>4. p[2] \in 1..Last(p[1]) =>
             \/ effects'[p[1]][p[2]] = effects[p[1]][p[2]]
             \/ /\ effects[p[1]][p[2]].state = "pending"
                /\ effects'[p[1]][p[2]].state = "cancelled"
      BY <1>4, <3>1
    <3>5. /\ run.at = "inspect" => effects'[p[1]][p[2]].state = "unknown"
          /\ run.at \in {"inspect", "due"} \cup Calls =>
                p[2] \in 1..Len(effects'[p[1]])
      BY <1>3, <3>1, <3>2, <3>3, <3>4 DEF Last
    <3>6. run.at \in {"due"} \cup Calls =>
             \/ effects'[p[1]][p[2]].state = "cancelled"
             \/ /\ effects'[p[1]][p[2]].state = "pending"
                /\ Runs(p[1])' /\ change'[p[1]].state = "landing"
                /\ ~(run.at \in Calls /\ run.now[1] = p[1])
      <4>1. CASE ExecOf[p[1]] = x
        <5>1. \A i \in 1..Last(p[1]) : effects[p[1]][i].state = "pending" =>
                 effects'[p[1]][i].state = "cancelled"
          <6>1. effects'[p[1]] = [i \in DOMAIN effects[p[1]] |->
                    IF effects[p[1]][i].state = "pending"
                      THEN [effects[p[1]][i] EXCEPT !.state = "cancelled"]
                      ELSE effects[p[1]][i]]
            BY <1>2, <3>1, <4>1 DEF WithPendingCancelled
          <6>2. DOMAIN effects[p[1]] = 1..Last(p[1])
                /\ \A i \in 1..Last(p[1]) : effects[p[1]][i] \in Effect
            BY <1>1, <3>1, EffectType DEF StoreTypeOK, Last
          <6> QED
            BY <6>1, <6>2 DEF Effect
        <5> QED
          BY <3>2, <3>3, <3>4, <5>1
      <4>2. CASE ExecOf[p[1]] # x
        <5>1. change'[p[1]] = change[p[1]] /\ Runs(p[1])' = Runs(p[1])
          BY <1>2, <1>5, <3>1, <4>2
        <5> QED
          BY <3>2, <3>3, <3>4, <5>1
      <4> QED
        BY <4>1, <4>2
    <3> QED
      BY <1>2, <3>5, <3>6 DEF Runs
  <2> QED
    BY <2>2, <2>3 DEF Listed, Last, Runs
<1>11. SlotIsExclusive'
  <2>1. slot' = IF slot # Nobody /\ ExecOf[slot] = x THEN Nobody ELSE slot
    BY DEF Stop
  <2>2. \A c \in Change : Runs(c)' =>
           ExecOf[c] # x /\ Runs(c) /\ change'[c] = change[c]
    BY <1>2, <1>5
  <2>3. \A c \in Change : c # Nobody
    BY DEF Change, Nobody
  <2>4. \A c \in Change : Runs(c)' =>
           (change'[c].state = "landing" <=> slot' = c)
    BY <2>1, <2>2, <2>3 DEF IInv, SlotIsExclusive
  <2>5. slot' # Nobody => slot' \in Change /\ ExecOf[slot'] # x /\ Runs(slot')
    BY <1>1, <2>1 DEF IInv, SlotIsExclusive, StoreTypeOK
  <2>6. slot' # Nobody => exec'[ExecOf[slot']] = "running"
    BY <1>2, <2>5 DEF Runs
  <2> QED
    BY <2>4, <2>6 DEF SlotIsExclusive, Runs
<1>12. MergeKeepsLanding'
  <2> SUFFICES ASSUME NEW c \in Change, NEW i \in 1..Last(c)',
                      effects'[c][i].kind = "merge",
                      effects'[c][i].state = "running"
               PROVE  change'[c].state = "landing"
    BY DEF MergeKeepsLanding
  <2>1. i \in 1..Last(c) /\ effects[c][i].kind = "merge"
        /\ effects[c][i].state = "running"
    BY <1>3, <1>4
  <2>2. change[c].state = "landing"
    BY <2>1 DEF IInv, MergeKeepsLanding
  <2>3. c \notin Stoppable(x)
    BY <2>1, <2>2 DEF Stoppable
  <2> QED
    BY <1>5, <2>2, <2>3
<1> QED
  BY <1>7, <1>8, <1>9, <1>10, <1>11, <1>12 DEF IInv

\* Retry takes up the failed effect its change names, and no other.
LEMMA RetryTakesUp ==
    ASSUME IInv, NEW c \in Change, Retry(c)
    PROVE  /\ \A d \in Change : Last(d)' = Last(d)
           /\ \A d \in Change \ {c} : effects'[d] = effects[d]
           /\ \A j \in 1..Last(c) :
                 /\ effects'[c][j].kind = effects[c][j].kind
                 /\ \/ effects'[c][j] = effects[c][j]
                    \/ /\ change[c].unknown # NoEffect
                       /\ j = change[c].unknown
                       /\ effects[c][j].state = "failed"
                       /\ effects'[c][j].state = "unknown"
<1> DEFINE i == change[c].unknown
           e == [effects[c][i] EXCEPT !.state = "unknown", !.tries = 0,
                                      !.due = TRUE]
<1>1. /\ effects \in [Change -> Seq(Effect)]
      /\ effects[c] \in Seq(Effect) /\ Last(c) = Len(effects[c])
      /\ \A j \in 1..Last(c) : effects[c][j] \in Effect
  BY EffectType DEF IInv, Typed, TypeOK, StoreTypeOK, Last
<1>2. \/ effects' = effects
      \/ /\ i # NoEffect /\ effects[c][i].state = "failed"
         /\ effects' = [effects EXCEPT ![c][i].state = "unknown",
                               ![c][i].tries = 0, ![c][i].due = TRUE]
  BY DEF Retry
<1>3. CASE effects' = effects
  BY <1>1, <1>3 DEF Last
<1>4. CASE /\ i # NoEffect /\ effects[c][i].state = "failed"
           /\ effects' = [effects EXCEPT ![c][i].state = "unknown",
                                 ![c][i].tries = 0, ![c][i].due = TRUE]
  <2>1. CASE i \in 1..Last(c)
    <3>1. effects' = [effects EXCEPT ![c] = [effects[c] EXCEPT ![i] = e]]
      BY <1>1, <1>4, <2>1
    <3>2. e.kind = effects[c][i].kind /\ e.state = "unknown"
      BY <1>1, <2>1 DEF Effect
    <3> HIDE DEF e
    <3>3. effects'[c] = [effects[c] EXCEPT ![i] = e]
          /\ \A d \in Change \ {c} : effects'[d] = effects[d]
      BY <1>1, <3>1
    <3>4. Last(c)' = Last(c)
      BY <1>1, <2>1, <3>3 DEF Last
    <3>5. \A j \in 1..Last(c) :
             effects'[c][j] = IF j = i THEN e ELSE effects[c][j]
      BY <1>1, <2>1, <3>3
    <3>6. \A d \in Change : Last(d)' = Last(d)
      BY <3>3, <3>4 DEF Last
    <3> QED
      BY <1>4, <3>2, <3>3, <3>5, <3>6
  <2>2. CASE i \notin 1..Last(c)
    <3>1. effects' = effects
      BY <1>1, <1>4, <2>2
    <3> QED
      BY <1>3, <3>1
  <2> QED
    BY <2>1, <2>2
<1> QED
  BY <1>2, <1>3, <1>4

\* A retried change had no effect that may act and no stage; it lands again
\* only by a free slot.
LEMMA RetrySafe ==
    ASSUME IInv, Typed', NEW c \in Change, Retry(c)
    PROVE  IInv'
<1>1. StoreTypeOK /\ run \in Executor
  BY DEF IInv, Typed, TypeOK
<1>2. /\ change[c].state = "stopped" /\ Runs(c)
      /\ UNCHANGED <<exec, task, run>>
  BY DEF Retry, IInv, Finishing
<1>3. PICK row \in Row :
         /\ Transition(c, row) /\ row.unknown = NoEffect
         /\ row.state \in {"landing", "gating"}
         /\ row.state = "landing" => SlotFree
  <2> DEFINE kind == effects[c][change[c].unknown].kind
             plain == [change[c] EXCEPT !.unknown = NoEffect]
             again == [plain EXCEPT !.state = "gating"]
             waits == [plain EXCEPT !.state = "gating",
                                    !.step = "awaiting-slot"]
             resumes == [plain EXCEPT !.state = "landing",
                                      !.step = StepOf(kind)]
  <2>1. change[c] \in Row
    BY ChangeType DEF IInv, Typed
  <2>2. StepOf(kind) \in {"merging", "updating"}
    BY DEF StepOf
  <2>3. /\ again \in Row /\ again.state = "gating" /\ again.unknown = NoEffect
        /\ waits \in Row /\ waits.state = "gating" /\ waits.unknown = NoEffect
        /\ resumes \in Row /\ resumes.state = "landing"
        /\ resumes.unknown = NoEffect
    BY <2>1, <2>2 DEF Row, ChangeState, NoEffect
  <2>4. \/ Transition(c, again) \/ Transition(c, waits)
        \/ SlotFree /\ Transition(c, resumes)
    BY DEF Retry
  <2> HIDE DEF again, waits, resumes
  <2> QED
    BY <2>3, <2>4
<1>4. \A d \in Change : change'[d] = IF d = c THEN row ELSE change[d]
  BY <1>1, <1>3 DEF Transition, StoreTypeOK
<1>5. /\ \A d \in Change : Last(d)' = Last(d) /\ Runs(d)' = Runs(d)
                           /\ Last(d) \in Nat
      /\ \A d \in Change \ {c} : effects'[d] = effects[d]
      /\ \A j \in 1..Last(c) :
            /\ effects'[c][j].kind = effects[c][j].kind
            /\ \/ effects'[c][j] = effects[c][j]
               \/ /\ change[c].unknown # NoEffect /\ j = change[c].unknown
                  /\ effects[c][j].state = "failed"
                  /\ effects'[c][j].state = "unknown"
  BY <1>1, <1>2, RetryTakesUp DEF Runs, Last, StoreTypeOK
<1>6. \A d \in Change : \A j \in 1..Last(d) :
         effects'[d][j].kind = effects[d][j].kind
         /\ (effects'[d][j].state = "running" => effects[d][j].state = "running")
  BY <1>5
<1>7. \A d \in Change : \A i, j \in LiveLanding(d)' : i = j
  <2>1. \A d \in Change \ {c} : LiveLanding(d)' = LiveLanding(d)
    BY <1>5 DEF LiveLanding
  <2>2. CASE change[c].unknown = NoEffect
    <3>1. \A j \in 1..Last(c) : effects'[c][j] = effects[c][j]
      BY <1>5, <2>2
    <3>2. LiveLanding(c)' = LiveLanding(c)
      BY <1>5, <3>1 DEF LiveLanding, Last, Live
    <3> QED
      BY <2>1, <3>2 DEF IInv, Acting
  <2>3. CASE change[c].unknown # NoEffect
    <3>1. LiveLanding(c) = {}
      BY <2>3 DEF IInv, Acting
    <3>2. \A j \in 1..Last(c) : ~Live(effects[c][j])
      BY <3>1 DEF LiveLanding, Last
    <3>3. \A j \in 1..Last(c) :
             Live(effects'[c][j]) => j = change[c].unknown
      BY <1>5, <3>2 DEF Live
    <3>4. \A j \in LiveLanding(c)' : j = change[c].unknown
      BY <1>5, <3>3 DEF LiveLanding, Last, Live
    <3> QED
      BY <2>1, <3>4 DEF IInv, Acting
  <2> QED
    BY <2>2, <2>3
<1>8. Staged'
  <2>1. run.now[1] \in Change
    BY <1>1 DEF Executor, Pair
  <2>2. change[run.now[1]].unknown = NoEffect =>
           change'[run.now[1]].unknown = NoEffect
    BY <1>3, <1>4, <2>1
  <2> QED
    BY <1>2, <2>2 DEF IInv, Staged
<1>9. Finishing'
  <2>1. \A d \in Change : Last(d) # 0 => Last(d) \in 1..Last(d)
    BY <1>5
  <2>2. \A d \in Change : run.plan[d] = "settle" =>
           ~Runs(d) /\ Last(d)' # 0 /\ effects'[d][Last(d)'].kind = "merge"
    BY <1>5, <1>6, <2>1 DEF IInv, Finishing
  <2> QED
    BY <1>2, <1>3, <1>4, <1>5, <2>2 DEF IInv, Finishing
<1>10. Acting'
  <2>1. \A d \in Change : \A j \in 1..Last(d)' :
           effects'[d][j].state = "running" =>
              run'.at \in Calls /\ run'.now = <<d, j>>
    BY <1>2, <1>5, <1>6 DEF IInv, Acting
  <2>2. \A d \in Change : change'[d].unknown # NoEffect =>
           change'[d].state \in {"stopped", "cancelled"} /\ LiveLanding(d)' = {}
    <3>1. \A d \in Change \ {c} : LiveLanding(d)' = LiveLanding(d)
      BY <1>5 DEF LiveLanding
    <3> QED
      BY <1>3, <1>4, <3>1 DEF IInv, Acting
  <2> QED
    BY <1>7, <2>1, <2>2 DEF Acting
<1>11. Listed'
  <2>1. run.now[1] \in Change /\ \A p \in run.todo : p[1] \in Change
    BY <1>1 DEF Executor, Pair
  <2>2. run'.at \in Calls =>
           /\ run'.now[2] \in 1..Len(effects'[run'.now[1]])
           /\ change'[run'.now[1]].state # "landed"
    BY <1>2, <1>3, <1>4, <1>5, <2>1 DEF IInv, Listed, Last
  <2>3. ASSUME NEW p \in run'.todo
        PROVE  /\ run'.at \in {"inspect", "due"} \cup Calls
                     => p[2] \in 1..Len(effects'[p[1]])
               /\ run'.at = "inspect" => effects'[p[1]][p[2]].state = "unknown"
               /\ run'.at \in {"due"} \cup Calls =>
                  \/ effects'[p[1]][p[2]].state = "cancelled"
                  \/ /\ effects'[p[1]][p[2]].state = "pending"
                     /\ exec'[ExecOf[p[1]]] = "running"
                     /\ change'[p[1]].state = "landing"
                     /\ ~(run'.at \in Calls /\ run'.now[1] = p[1])
    <3>1. p \in run.todo /\ p[1] \in Change
      BY <1>2, <2>1
    <3>2. run.at \in {"inspect", "due"} \cup Calls => p[2] \in 1..Last(p[1])
      BY <3>1 DEF IInv, Listed
    <3>3. /\ run.at = "inspect" => effects[p[1]][p[2]].state = "unknown"
          /\ run.at \in {"due"} \cup Calls =>
                \/ effects[p[1]][p[2]].state = "cancelled"
                \/ /\ effects[p[1]][p[2]].state = "pending"
                   /\ Runs(p[1]) /\ change[p[1]].state = "landing"
                   /\ ~(run.at \in Calls /\ run.now[1] = p[1])
      BY <3>1 DEF IInv, Listed
    <3>4. run.at \in {"inspect", "due"} \cup Calls =>
             effects'[p[1]][p[2]] = effects[p[1]][p[2]]
      BY <1>5, <3>1, <3>2, <3>3
    <3>5. p[1] = c \/ change'[p[1]] = change[p[1]]
      BY <1>4, <3>1
    <3> QED
      BY <1>2, <1>5, <3>1, <3>2, <3>3, <3>4, <3>5 DEF Last, Runs
  <2> QED
    BY <2>2, <2>3 DEF Listed, Last, Runs
<1>12. SlotIsExclusive'
  BY <1>1, <1>2, <1>3, SlotStep DEF IInv
<1>13. MergeKeepsLanding'
  <2>1. \A j \in 1..Last(c) :
           ~(effects[c][j].kind = "merge" /\ effects[c][j].state = "running")
    BY <1>2 DEF IInv, MergeKeepsLanding
  <2> QED
    BY <1>4, <1>5, <1>6, <2>1 DEF IInv, MergeKeepsLanding
<1> QED
  BY <1>8, <1>9, <1>10, <1>11, <1>12, <1>13 DEF IInv

-----------------------------------------------------------------------------
(***************************************************************************)
(* The theorems                                                            *)
(***************************************************************************)
\* The invariant holds at the start.
LEMMA SafeInit == Init => IInv
<1> SUFFICES ASSUME Init
             PROVE  IInv
  OBVIOUS
<1>1. Typed
  BY TypeInit
<1>2. /\ run = Idle /\ slot = Nobody
      /\ \A c \in Change : /\ Last(c) = 0 /\ Runs(c)
                           /\ change[c].state = "implementing"
                           /\ change[c].unknown = NoEffect
  <2>1. \A c \in Change : ExecOf[c] \in Exec
    BY StoreAssumption DEF Change
  <2> QED
    BY <2>1 DEF Init, StoreInit, Last, Runs
<1>3. /\ run.at = "idle" /\ run.todo = {}
      /\ \A c \in Change : run.plan[c] = "none"
  BY <1>2 DEF Idle
<1>4. Staged
  BY <1>3 DEF Staged
<1>5. Finishing
  BY <1>2, <1>3 DEF Finishing
<1>6. \A c \in Change : LiveLanding(c) = {} /\ 1..Last(c) = {}
  BY <1>2 DEF LiveLanding, Last
<1>7. Acting
  BY <1>2, <1>6 DEF Acting
<1>8. Listed
  BY <1>3 DEF Listed, Calls
<1>9. SlotIsExclusive
  BY <1>2 DEF SlotIsExclusive, Change, Nobody
<1>10. MergeKeepsLanding
  BY <1>6 DEF MergeKeepsLanding
<1> QED
  BY <1>1, <1>4, <1>5, <1>7, <1>8, <1>9, <1>10 DEF IInv

\* Every step keeps the invariant.
LEMMA SafeStep == IInv /\ [Next]_vars => IInv'
<1> SUFFICES ASSUME IInv, [Next]_vars
             PROVE  IInv'
  OBVIOUS
<1>1. Typed'
  BY TypeStep DEF IInv
<1>2. 1 \in Change
  BY StoreAssumption DEF Change
<1>3. CASE UNCHANGED vars
  BY <1>1, <1>2, <1>3, OutsideSafe
<1>4. CASE Plan \/ ReadBase \/ Inspect \/ Inspected \/ RanDue
  BY <1>1, <1>4, PlanSafe, ReadSafe, InspectSafe
<1>5. ASSUME NEW c \in Change, Stage(c) PROVE IInv'
  BY <1>1, <1>5, InsertRoundSafe, PushSafe, DecideSafe, FixSafe,
     EnterLandingSafe, ReadSafe, PredictConflictSafe, RequestEffectSafe,
     ApplyOutcomeSafe, RecordLandingSafe, AcceptLandedSafe, PollUpdateSafe
     DEF Stage
<1>6. ASSUME NEW c \in Change, NEW i \in 1..Last(c), Effects(c, i)
      PROVE  IInv'
  BY <1>1, <1>6, InspectAnswersSafe, MarkRunningSafe, CallSafe DEF Effects
<1>7. CASE Outside
  <2>1. CASE MergeByOther \/ Crash
    BY <1>1, <1>2, <2>1, OutsideSafe, CrashSafe
  <2>2. ASSUME NEW x \in Exec, Stop(x) PROVE IInv'
    BY <1>1, <2>2, StopSafe
  <2>3. ASSUME NEW c \in Change,
               \/ ReadFails(c) \/ Submit(c) \/ GitHubUpdates(c)
               \/ PushByOther(c) \/ ShutPull(c) \/ Retry(c) \/ CloseTask(c)
               \/ Hold(c) \/ Release(c) \/ CrashInStage(c)
        PROVE  IInv'
    BY <1>1, <2>3, ReadFailsSafe, OutsideSafe, RetrySafe, CrashInStageSafe
  <2>4. ASSUME NEW c \in Change, NEW i \in 1..Last(c),
               Failing(c, i) \/ BackoffEnds(c, i) \/ CrashInFailure(c, i)
        PROVE  IInv'
    BY <1>1, <2>4, FailingSafe, BackoffEndsSafe, CrashInFailureSafe
  <2> QED
    BY <1>7, <2>1, <2>2, <2>3, <2>4 DEF Outside
<1> QED
  BY <1>3, <1>4, <1>5, <1>6, <1>7 DEF Next, Pass

\* The invariant holds in every reachable state.
THEOREM LandingSafe == Spec => []IInv
BY SafeInit, SafeStep, PTL DEF Spec

\* SlotIsExclusive: of the changes of all running executions at most one is
\* landing and the slot names it, for every number of changes and
\* executions and whatever comes in between.
THEOREM LandingSlotIsExclusive == Spec => []SlotIsExclusive
<1>1. IInv => SlotIsExclusive
  BY DEF IInv
<1> QED
  BY <1>1, LandingSafe, PTL

\* MergeKeepsLanding: neither Stop nor a closed task, a hold, a result or a
\* retry takes a change from under its running merge.
THEOREM LandingMergeKeepsLanding == Spec => []MergeKeepsLanding
<1>1. IInv => MergeKeepsLanding
  BY DEF IInv
<1> QED
  BY <1>1, LandingSafe, PTL

\* OneLiveEffect: a change never has two landing effects that may act.
THEOREM LandingOneLiveEffect == Spec => []OneLiveEffect
<1>1. IInv => OneLiveEffect
  <2> SUFFICES ASSUME IInv, NEW c \in Change
               PROVE  Cardinality(LiveLanding(c)) <= 1
    BY DEF OneLiveEffect
  <2>1. \A i, j \in LiveLanding(c) : i = j
    BY DEF IInv, Acting
  <2>2. CASE LiveLanding(c) = {}
    BY <2>2, FS_EmptySet
  <2>3. ASSUME NEW i \in LiveLanding(c)
        PROVE  Cardinality(LiveLanding(c)) <= 1
    <3>1. LiveLanding(c) = {i}
      BY <2>1
    <3>2. Cardinality({i}) = 1
      BY FS_Singleton
    <3> QED
      BY <3>1, <3>2
  <2> QED
    BY <2>2, <2>3
<1> QED
  BY <1>1, LandingSafe, PTL

-----------------------------------------------------------------------------
(***************************************************************************)
(* What a step may never do                                                *)
(***************************************************************************)
(* What a step may do to the effects that are there. *)
EffectsMove ==
    \A c \in Change : \A i \in 1..Last(c) :
        /\ effects[c][i].state # "running" /\ effects'[c][i].state = "running"
              => Runs(c) /\ slot = c /\ change[c].state = "landing"
        /\ ~Live(effects[c][i]) =>
              \/ effects'[c][i] = effects[c][i]
              \/ effects[c][i].state = "failed"
                 /\ effects'[c][i].state = "unknown"

\* Writing an effect settles nothing twice and starts nothing.
LEMMA WriteMoves ==
    ASSUME IInv, NEW c \in Change, NEW i \in 1..Last(c), NEW e,
           e.kind = effects[c][i].kind, effects' = Written(c, i, e),
           e.state # "running" \/ e.state = effects[c][i].state
    PROVE  EffectsMove
<1>1. /\ \A d \in Change : \A j \in 1..Last(d) :
            <<d, j>> # <<c, i>> => effects'[d][j] = effects[d][j]
      /\ effects'[c][i] = IF Live(effects[c][i]) THEN e ELSE effects[c][i]
  BY WrittenFrame DEF IInv, Typed, TypeOK
<1> SUFFICES ASSUME NEW d \in Change, NEW j \in 1..Last(d)
             PROVE  /\ effects'[d][j].state = "running" =>
                          effects[d][j].state = "running"
                    /\ ~Live(effects[d][j]) => effects'[d][j] = effects[d][j]
  BY DEF EffectsMove
<1>2. CASE <<d, j>> = <<c, i>>
  BY <1>1, <1>2
<1>3. CASE <<d, j>> # <<c, i>>
  BY <1>1, <1>3
<1> QED
  BY <1>2, <1>3

\* The first half of a pass records an effect or cancels what is left.
LEMMA StageMoves ==
    ASSUME IInv, NEW c \in Change,
           Stage(c) \/ ReadFails(c) \/ CrashInStage(c)
    PROVE  EffectsMove
<1>1. StoreTypeOK
  BY DEF IInv, Typed, TypeOK
<1>2. CASE effects' = effects
  BY <1>2 DEF EffectsMove
<1>3. CASE effects' = WithLandingCancelled(c)
  <2>1. /\ \A d \in Change \ {c} : effects'[d] = effects[d]
        /\ \A i \in 1..Last(c) :
              /\ effects'[c][i].state \in {effects[c][i].state, "cancelled"}
              /\ ~Live(effects[c][i]) => effects'[c][i] = effects[c][i]
    BY <1>1, <1>3, LandingCancels
  <2> QED
    BY <2>1 DEF EffectsMove
<1>4. ASSUME NEW kind, NEW pin, NEW base,
             effects' = WithEffect(c, kind, Newest(c), pin, base)
      PROVE  EffectsMove
  <2>1. CASE LiveLanding(c) # {}
    BY <1>2, <1>4, <2>1 DEF WithEffect
  <2>2. CASE LiveLanding(c) = {}
    <3>1. /\ \A d \in Change \ {c} : effects'[d] = effects[d]
          /\ \A i \in 1..Last(c) : effects'[c][i] = effects[c][i]
      BY <1>1, <1>4, <2>2, WithEffectAdds
    <3> QED
      BY <3>1 DEF EffectsMove
  <2> QED
    BY <2>1, <2>2
<1>5. CASE RequestEffect(c) \/ CrashInStage(c)
  BY <1>2, <1>4, <1>5 DEF RequestEffect, CrashInStage, Requested
<1>6. CASE RecordLanding(c)
  BY <1>2, <1>3, <1>6 DEF RecordLanding
<1>7. CASE InsertRound(c) \/ Push(c) \/ Decide(c) \/ Undecided(c) \/ Fix(c)
           \/ EnterLanding(c) \/ ReadHead(c) \/ PredictConflict(c)
           \/ ApplyOutcome(c) \/ AcceptLanded(c) \/ PollUpdate(c)
           \/ ReadFails(c)
  <2>1. effects' = effects
    BY <1>7 DEF InsertRound, Push, Decide, Undecided, Fix, EnterLanding,
       ReadHead, PredictConflict, ApplyOutcome, AcceptLanded, PollUpdate,
       ReadFails, store
  <2> QED
    BY <1>2, <2>1
<1> QED
  BY <1>5, <1>6, <1>7 DEF Stage

\* The second half of a pass starts what is listed, and settles what is live.
LEMMA CallMoves ==
    ASSUME IInv, NEW c \in Change, NEW i \in 1..Last(c),
           \/ Effects(c, i) \/ Failing(c, i) \/ BackoffEnds(c, i)
           \/ CrashInFailure(c, i)
    PROVE  EffectsMove
<1>1. StoreTypeOK /\ effects[c][i] \in Effect
  BY EffectType DEF IInv, Typed, TypeOK
<1>2. CASE effects' = effects
  BY <1>2 DEF EffectsMove
<1>3. CASE MarkRunning(c, i)
  <2> DEFINE e == [effects[c][i] EXCEPT !.state = "running"]
  <2>1. e.kind = effects[c][i].kind /\ effects' = Written(c, i, e)
        /\ run.at = "due" /\ <<c, i>> \in run.todo
    BY <1>1, <1>3, SettlesByWriting DEF MarkRunning
  <2> HIDE DEF e
  <2>2. /\ \A d \in Change : \A j \in 1..Last(d) :
              <<d, j>> # <<c, i>> => effects'[d][j] = effects[d][j]
        /\ effects'[c][i] = IF Live(effects[c][i]) THEN e ELSE effects[c][i]
    BY <1>1, <2>1, WrittenFrame
  <2>3. Live(effects[c][i]) =>
           Runs(c) /\ change[c].state = "landing" /\ slot = c
    <3>1. LET p == <<c, i>> IN
          \/ effects[p[1]][p[2]].state = "cancelled"
          \/ Runs(p[1]) /\ change[p[1]].state = "landing"
      BY <2>1 DEF IInv, Listed
    <3> QED
      BY <3>1 DEF Live, IInv, SlotIsExclusive
  <2> SUFFICES ASSUME NEW d \in Change, NEW j \in 1..Last(d)
               PROVE  /\ \/ effects[d][j].state = "running"
                         \/ effects'[d][j].state # "running"
                         \/ Runs(d) /\ slot = d /\ change[d].state = "landing"
                      /\ ~Live(effects[d][j]) => effects'[d][j] = effects[d][j]
    BY DEF EffectsMove
  <2>4. CASE <<d, j>> = <<c, i>>
    BY <2>2, <2>3, <2>4
  <2>5. CASE <<d, j>> # <<c, i>>
    BY <2>2, <2>5
  <2> QED
    BY <2>4, <2>5
<1>4. ASSUME NEW state \in {"done", "failed"}, NEW outcome,
             effects' = Settled(c, i, state, outcome)
      PROVE  EffectsMove
  <2>1. PICK e : /\ effects' = Written(c, i, e)
                 /\ e.kind = effects[c][i].kind /\ e.state = state
    BY <1>1, <1>4, SettlesByWriting
  <2> QED
    BY <2>1, WriteMoves
<1>5. ASSUME NEW state \in {"pending", "unknown"},
             effects' = Retried(c, i, state)
      PROVE  EffectsMove
  <2>1. PICK e : /\ effects' = Written(c, i, e)
                 /\ e.kind = effects[c][i].kind /\ e.state = state
    BY <1>1, <1>5, SettlesByWriting
  <2> QED
    BY <2>1, WriteMoves
<1>6. CASE effects' = Written(c, i, [effects[c][i] EXCEPT !.state = "pending"])
  <2> DEFINE e == [effects[c][i] EXCEPT !.state = "pending"]
  <2>1. e.kind = effects[c][i].kind /\ e.state = "pending"
    BY <1>1, SettlesByWriting
  <2>2. effects' = Written(c, i, e)
    BY <1>6
  <2> HIDE DEF e
  <2> QED
    BY <2>1, <2>2, WriteMoves
<1>7. CASE BackoffEnds(c, i)
  <2> DEFINE e == [effects[c][i] EXCEPT !.due = TRUE]
  <2>1. e.kind = effects[c][i].kind /\ e.state = effects[c][i].state
    BY <1>1 DEF Effect
  <2>2. effects' = Written(c, i, e)
    BY <1>1, <1>7 DEF BackoffEnds, Written, StoreTypeOK
  <2> HIDE DEF e
  <2> QED
    BY <2>1, <2>2, WriteMoves
<1>8. CASE InspectAnswers(c, i)
  BY <1>4, <1>6, <1>8 DEF InspectAnswers
<1>9. CASE Failing(c, i) \/ CrashInFailure(c, i)
  BY <1>4, <1>5, <1>9 DEF Failing, InspectFails, CallFails, CrashInFailure
<1>10. CASE ReadMergeBase(c, i) \/ MergePull(c, i) \/ ViewMerged(c, i)
            \/ MergeRefused(c, i) \/ AskUpdate(c, i)
  <2>1. \/ effects' = effects
        \/ \E state \in {"done", "failed"} : \E outcome :
              effects' = Settled(c, i, state, outcome)
    BY <1>10 DEF ReadMergeBase, MergePull, ViewMerged, MergeRefused, AskUpdate,
       Answered, store
  <2> QED
    BY <1>2, <1>4, <2>1
<1> QED
  BY <1>3, <1>7, <1>8, <1>9, <1>10 DEF Effects

\* Every step moves the effects as it may.
LEMMA StepMoves == IInv /\ [Next]_vars => EffectsMove
<1> SUFFICES ASSUME IInv, [Next]_vars
             PROVE  EffectsMove
  OBVIOUS
<1>1. StoreTypeOK
  BY DEF IInv, Typed, TypeOK
<1>2. CASE effects' = effects
  BY <1>2 DEF EffectsMove
<1>3. CASE Pass
  <2>1. CASE Plan \/ ReadBase \/ Inspect \/ Inspected \/ RanDue
    BY <1>2, <2>1 DEF Plan, ReadBase, Inspect, Inspected, RanDue, store
  <2> QED
    BY <1>3, <2>1, StageMoves, CallMoves DEF Pass
<1>4. CASE Outside
  <2>1. CASE MergeByOther
    BY <1>2, <2>1 DEF MergeByOther, store
  <2>2. CASE Crash
    <3>1. \A c \in Change : \A i \in 1..Last(c) :
             /\ effects'[c][i].state # "running"
             /\ ~Live(effects[c][i]) => effects'[c][i] = effects[c][i]
      BY <1>1, <2>2, RunningIsUnknown DEF Crash
    <3> QED
      BY <3>1 DEF EffectsMove
  <2>3. ASSUME NEW x \in Exec, Stop(x) PROVE EffectsMove
    <3>1. \A c \in Change : \A i \in 1..Last(c) :
             \/ effects'[c][i] = effects[c][i]
             \/ /\ effects[c][i].state = "pending"
                /\ effects'[c][i].state = "cancelled"
      BY <1>1, <2>3, PendingIsCancelled DEF Stop
    <3> QED
      BY <3>1 DEF EffectsMove, Live
  <2>4. ASSUME NEW c \in Change, Retry(c) PROVE EffectsMove
    <3>1. /\ \A d \in Change \ {c} : effects'[d] = effects[d]
          /\ \A j \in 1..Last(c) :
                \/ effects'[c][j] = effects[c][j]
                \/ /\ effects[c][j].state = "failed"
                   /\ effects'[c][j].state = "unknown"
      BY <2>4, RetryTakesUp
    <3> QED
      BY <3>1 DEF EffectsMove
  <2>5. ASSUME NEW c \in Change,
               \/ Submit(c) \/ GitHubUpdates(c) \/ PushByOther(c)
               \/ ShutPull(c) \/ CloseTask(c) \/ Hold(c) \/ Release(c)
        PROVE  EffectsMove
    BY <1>2, <2>5 DEF Submit, GitHubUpdates, PushByOther, ShutPull, CloseTask,
       Hold, Release, store
  <2> QED
    BY <1>4, <2>1, <2>2, <2>3, <2>4, <2>5, StageMoves, CallMoves DEF Outside
<1>5. CASE UNCHANGED vars
  BY <1>2, <1>5 DEF vars
<1> QED
  BY <1>3, <1>4, <1>5 DEF Next

\* NothingStartsAfterStop: a landing effect starts only for the change that
\* holds the slot in an execution that runs.
THEOREM LandingNothingStartsAfterStop == Spec => NothingStartsAfterStop
<1>1. IInv /\ [Next]_vars =>
         [\A c \in Change : \A i \in 1..Last(c) :
            effects[c][i].state # "running" /\ effects'[c][i].state = "running"
              => Runs(c) /\ slot = c /\ change[c].state = "landing"]_vars
  BY StepMoves DEF EffectsMove
<1> QED
  BY <1>1, LandingSafe, PTL DEF Spec, NothingStartsAfterStop

\* SettledStays: a settled effect keeps its outcome, but for a failed one
\* that Retry takes up to be inspected.
THEOREM LandingSettledStays == Spec => SettledStays
<1>1. IInv /\ [Next]_vars =>
         [\A c \in Change : \A i \in 1..Last(c) :
            ~Live(effects[c][i]) =>
               \/ effects'[c][i] = effects[c][i]
               \/ effects[c][i].state = "failed"
                  /\ effects'[c][i].state = "unknown"]_vars
  BY StepMoves DEF EffectsMove
<1> QED
  BY <1>1, LandingSafe, PTL DEF Spec, SettledStays

LandedStays ==
    \A c \in Change : change[c].state = "landed" => change'[c].state = "landed"

\* A step that writes the row of one change that has not landed.
LEMMA OwnRowStays ==
    ASSUME NEW c \in Change, change[c].state # "landed",
           \A d \in Change \ {c} : change'[d] = change[d]
    PROVE  LandedStays
BY DEF LandedStays

LEMMA LandedStep == IInv /\ [Next]_vars => LandedStays
<1> SUFFICES ASSUME IInv, [Next]_vars
             PROVE  LandedStays
  OBVIOUS
<1>1. StoreTypeOK
  BY DEF IInv, Typed, TypeOK
<1>2. CASE change' = change
  BY <1>2 DEF LandedStays
<1>3. ASSUME NEW c \in Change, Stage(c) PROVE LandedStays
  <2>1. CASE AcceptLanded(c)
    BY <1>2, <2>1 DEF AcceptLanded
  <2>2. CASE ~AcceptLanded(c)
    <3>1. OnStage(c) /\ run.at # "accept"
      BY <1>3, <2>2, StageIsPlanned DEF Stage, InsertRound, Push, Decide,
         Undecided, Fix, EnterLanding, ReadHead, PredictConflict, RequestEffect,
         ApplyOutcome, RecordLanding, PollUpdate, StageName, StagePlaces
    <3>2. change[c].state # "landed"
      BY <3>1, StageOf
    <3>3. \A d \in Change \ {c} : change'[d] = change[d]
      <4>1. CASE InsertRound(c) \/ Push(c) \/ Decide(c) \/ Undecided(c)
                 \/ Fix(c) \/ EnterLanding(c) \/ ReadHead(c)
        BY <1>1, <4>1 DEF InsertRound, Push, Decide, Undecided, Fix,
           EnterLanding, ReadHead, Transition, store, StoreTypeOK
      <4>2. CASE PredictConflict(c) \/ RequestEffect(c) \/ ApplyOutcome(c)
                 \/ RecordLanding(c) \/ PollUpdate(c)
        BY <1>1, <4>2 DEF PredictConflict, RequestEffect, ApplyOutcome,
           RecordLanding, PollUpdate, FailedUpdate, Concludes, Transition,
           StoreTypeOK
      <4> QED
        BY <1>3, <2>2, <4>1, <4>2 DEF Stage
    <3> QED
      BY <3>2, <3>3, OwnRowStays
  <2> QED
    BY <2>1, <2>2
<1>4. ASSUME NEW c \in Change, NEW i \in 1..Last(c),
             Effects(c, i) \/ Failing(c, i)
      PROVE  LandedStays
  <2>1. CASE InspectFails(c, i)
    <3>1. CASE change[c].state = "landed"
      BY <1>2, <2>1, <3>1 DEF InspectFails
    <3>2. CASE change[c].state # "landed"
      BY <1>1, <2>1, <3>2, OwnRowStays DEF InspectFails, StopsChange,
         Transition, StoreTypeOK
    <3> QED
      BY <3>1, <3>2
  <2>2. CASE CallFails(c, i) \/ MergeRefused(c, i)
    <3>1. run.at \in Calls /\ run.now = <<c, i>>
      BY <2>2 DEF CallFails, MergeRefused, Calling, Calls
    <3>2. change[c].state # "landed"
      BY <3>1 DEF IInv, Listed
    <3>3. \A d \in Change \ {c} : change'[d] = change[d]
      BY <1>1, <2>2 DEF CallFails, MergeRefused, StopsChange, Transition,
         StoreTypeOK
    <3> QED
      BY <3>2, <3>3, OwnRowStays
  <2>3. CASE InspectAnswers(c, i) \/ MarkRunning(c, i) \/ ReadMergeBase(c, i)
             \/ MergePull(c, i) \/ ViewMerged(c, i) \/ AskUpdate(c, i)
    BY <1>2, <2>3 DEF InspectAnswers, MarkRunning, ReadMergeBase, MergePull,
       ViewMerged, AskUpdate, Answered, store
  <2> QED
    BY <1>4, <2>1, <2>2, <2>3 DEF Effects, Failing
<1>5. CASE Pass
  <2>1. CASE Plan
    <3>1. \A c \in Change : change[c].state = "landed" => Owed(c) = "none"
      BY PassOwes
    <3> QED
      BY <2>1, <3>1 DEF Plan, LandedStays
  <2>2. CASE ReadBase \/ Inspect \/ Inspected \/ RanDue
    BY <1>2, <2>2 DEF ReadBase, Inspect, Inspected, RanDue, store
  <2> QED
    BY <1>3, <1>4, <1>5, <2>1, <2>2 DEF Pass
<1>6. CASE Outside
  <2>1. CASE MergeByOther \/ Crash
    BY <1>2, <2>1 DEF MergeByOther, Crash, store
  <2>2. ASSUME NEW x \in Exec, Stop(x) PROVE LandedStays
    BY <2>2 DEF Stop, Stoppable, LandedStays
  <2>3. ASSUME NEW c \in Change, Retry(c) PROVE LandedStays
    BY <1>1, <2>3, OwnRowStays DEF Retry, Transition, StoreTypeOK
  <2>4. ASSUME NEW c \in Change,
               \/ ReadFails(c) \/ Submit(c) \/ GitHubUpdates(c)
               \/ PushByOther(c) \/ ShutPull(c) \/ CloseTask(c) \/ Hold(c)
               \/ Release(c) \/ CrashInStage(c)
               \/ \E i \in 1..Last(c) : BackoffEnds(c, i) \/ CrashInFailure(c, i)
        PROVE  LandedStays
    BY <1>2, <2>4 DEF ReadFails, Submit, GitHubUpdates, PushByOther, ShutPull,
       CloseTask, Hold, Release, CrashInStage, CrashInFailure, BackoffEnds, store
  <2> QED
    BY <1>4, <1>6, <2>1, <2>2, <2>3, <2>4 DEF Outside
<1>7. CASE UNCHANGED vars
  BY <1>2, <1>7 DEF vars
<1> QED
  BY <1>5, <1>6, <1>7 DEF Next

\* LandedIsFinal: a landed change stays landed, whatever Stop, a stage that
\* comes late or an inspection does to it.
THEOREM LandingLandedIsFinal == Spec => LandedIsFinal
<1>1. IInv /\ [Next]_vars =>
         [\A c \in Change : change[c].state = "landed"
                               => change'[c].state = "landed"]_vars
  BY LandedStep DEF LandedStays
<1> QED
  BY <1>1, LandingSafe, PTL DEF Spec, LandedIsFinal
=============================================================================
