---------------------------- MODULE LandingTypes ----------------------------
(***************************************************************************)
(* Type correctness of PlanLanding.                                        *)
(*                                                                         *)
(* A push and a verdict are about their change's newest round, so the      *)
(* types depend on there being one: Typed adds that to TypeOK.             *)
(***************************************************************************)
EXTENDS PlanLanding, TLAPS

Typed ==
    /\ TypeOK
    /\ \A c \in Change : run.plan[c] \in {"push", "decide"} => Newest(c) # 0

-----------------------------------------------------------------------------
(***************************************************************************)
(* What the store's operators return                                       *)
(***************************************************************************)
\* A transition keeps rows and slot typed.
LEMMA TransitionType ==
    ASSUME StoreTypeOK, NEW c \in Change, NEW row \in Row, Transition(c, row)
    PROVE  /\ change' \in [Change -> Row]
           /\ slot' \in Change \cup {Nobody}
BY DEF StoreTypeOK, Transition

\* A stopped row is a row.
LEMMA StoppedType ==
    ASSUME StoreTypeOK, NEW c \in Change, NEW named \in Nat
    PROVE  Stopped(c, named) \in Row
BY DEF StoreTypeOK, Stopped, Row, ChangeState

\* Inserting a round keeps sequences of rounds.
LEMMA WithRoundType ==
    ASSUME StoreTypeOK, NEW c \in Change, NEW round \in Round
    PROVE  WithRound(c, round) \in Seq(Round)
<1> DEFINE old == [i \in 1..Newest(c) |->
               IF i = Newest(c) /\ rounds[c][i].outcome = "open"
                 THEN [rounds[c][i] EXCEPT !.outcome = "superseded"]
                 ELSE rounds[c][i]]
<1>1. rounds[c] \in Seq(Round)
  BY DEF StoreTypeOK
<1>2. Newest(c) \in Nat /\ \A i \in 1..Newest(c) : rounds[c][i] \in Round
  BY <1>1 DEF Newest
<1>3. \A i \in 1..Newest(c) : old[i] \in Round
  BY <1>2 DEF Round
<1>4. old \in Seq(Round)
  BY <1>2, <1>3
<1> QED
  BY <1>4 DEF WithRound

\* The effects of a change are a sequence of effects.
LEMMA EffectType ==
    ASSUME StoreTypeOK, NEW c \in Change
    PROVE  /\ effects[c] \in Seq(Effect) /\ Last(c) \in Nat
           /\ DOMAIN effects[c] = 1..Last(c)
           /\ \A i \in 1..Last(c) : effects[c][i] \in Effect
BY DEF StoreTypeOK, Last

\* An effect with another state, outcome or backoff is an effect.
LEMMA EffectUpdateType ==
    ASSUME NEW e \in Effect,
           NEW state \in {"pending", "running", "unknown", "done", "failed",
                          "cancelled"},
           NEW outcome \in {"none", "merged", "not-merged", "requested",
                            "conflict", "pr-closed"}
    PROVE  /\ [e EXCEPT !.state = state] \in Effect
           /\ [e EXCEPT !.state = state, !.outcome = outcome] \in Effect
           /\ [e EXCEPT !.state = state, !.due = FALSE, !.tries = @ + 1]
                \in Effect
           /\ [e EXCEPT !.state = state, !.tries = 0, !.due = TRUE] \in Effect
           /\ [e EXCEPT !.due = TRUE] \in Effect
<1>1. [e EXCEPT !.state = state] \in Effect
  BY DEF Effect
<1>2. [e EXCEPT !.state = state, !.outcome = outcome] \in Effect
  BY DEF Effect
<1>3. e.tries \in Nat
  BY DEF Effect
<1>4. [e EXCEPT !.state = state, !.due = FALSE, !.tries = @ + 1] \in Effect
  <2> DEFINE n == e.tries + 1
  <2>1. n \in Nat
    BY <1>3
  <2> HIDE DEF n
  <2>2. [e EXCEPT !.state = state, !.due = FALSE, !.tries = n] \in Effect
    BY <2>1 DEF Effect
  <2> QED
    BY <2>2 DEF n
<1>5. [e EXCEPT !.state = state, !.tries = 0, !.due = TRUE] \in Effect
  BY DEF Effect
<1>6. [e EXCEPT !.due = TRUE] \in Effect
  BY DEF Effect
<1> QED
  BY <1>1, <1>2, <1>4, <1>5, <1>6

\* Mapping the effects of a change gives a sequence of as many effects.
LEMMA MappedType ==
    ASSUME StoreTypeOK, NEW c \in Change, NEW es,
           es = [i \in DOMAIN effects[c] |-> es[i]],
           \A i \in 1..Last(c) : es[i] \in Effect
    PROVE  es \in Seq(Effect) /\ Len(es) = Last(c)
<1>1. Last(c) \in Nat /\ DOMAIN effects[c] = 1..Last(c)
  BY EffectType
<1> QED
  BY <1>1

LEMMA WrittenType ==
    ASSUME StoreTypeOK, NEW c \in Change, NEW i \in 1..Last(c),
           NEW e \in Effect
    PROVE  Written(c, i, e) \in [Change -> Seq(Effect)]
<1>1. effects[c] \in Seq(Effect) /\ i \in 1..Len(effects[c])
  BY EffectType DEF Last
<1>2. [effects[c] EXCEPT ![i] = e] \in Seq(Effect)
  BY <1>1
<1> QED
  BY <1>2 DEF Written, StoreTypeOK

LEMMA SettledType ==
    ASSUME StoreTypeOK, NEW c \in Change, NEW i \in 1..Last(c),
           NEW state \in {"done", "failed", "cancelled"},
           NEW outcome \in {"none", "merged", "not-merged", "requested",
                            "conflict", "pr-closed"}
    PROVE  Settled(c, i, state, outcome) \in [Change -> Seq(Effect)]
<1>1. effects[c][i] \in Effect
  BY EffectType
<1>2. [effects[c][i] EXCEPT !.state = state, !.outcome = outcome] \in Effect
  BY <1>1, EffectUpdateType
<1> QED
  BY <1>2, WrittenType DEF Settled

LEMMA RetriedType ==
    ASSUME StoreTypeOK, NEW c \in Change, NEW i \in 1..Last(c),
           NEW state \in {"pending", "unknown"}
    PROVE  Retried(c, i, state) \in [Change -> Seq(Effect)]
<1>1. effects[c][i] \in Effect
  BY EffectType
<1>2. [effects[c][i] EXCEPT !.state = state, !.due = FALSE, !.tries = @ + 1]
        \in Effect
  BY <1>1, EffectUpdateType
<1> QED
  BY <1>2, WrittenType DEF Retried

LEMMA LandingCancelledType ==
    ASSUME StoreTypeOK, NEW c \in Change
    PROVE  WithLandingCancelled(c) \in [Change -> Seq(Effect)]
<1> DEFINE es == [i \in DOMAIN effects[c] |->
            IF Live(effects[c][i])
              THEN [effects[c][i] EXCEPT !.state = "cancelled"]
              ELSE effects[c][i]]
<1>1. ASSUME NEW i \in 1..Last(c) PROVE es[i] \in Effect
  <2>1. effects[c][i] \in Effect /\ i \in DOMAIN effects[c]
    BY EffectType
  <2> QED
    BY <2>1, EffectUpdateType
<1>2. es = [i \in DOMAIN effects[c] |-> es[i]]
  OBVIOUS
<1> HIDE DEF es
<1>3. es \in Seq(Effect)
  BY <1>1, <1>2, MappedType
<1>4. WithLandingCancelled(c) = [effects EXCEPT ![c] = es]
  BY DEF WithLandingCancelled, es
<1> QED
  BY <1>3, <1>4 DEF StoreTypeOK

LEMMA PendingCancelledType ==
    ASSUME StoreTypeOK, NEW x \in Exec
    PROVE  WithPendingCancelled(x) \in [Change -> Seq(Effect)]
<1> DEFINE es(c) == [i \in DOMAIN effects[c] |->
            IF ExecOf[c] = x /\ effects[c][i].state = "pending"
              THEN [effects[c][i] EXCEPT !.state = "cancelled"]
              ELSE effects[c][i]]
<1>1. ASSUME NEW c \in Change PROVE es(c) \in Seq(Effect)
  <2>1. ASSUME NEW i \in 1..Last(c) PROVE es(c)[i] \in Effect
    <3>1. effects[c][i] \in Effect /\ i \in DOMAIN effects[c]
      BY EffectType
    <3> QED
      BY <3>1, EffectUpdateType
  <2>2. es(c) = [i \in DOMAIN effects[c] |-> es(c)[i]]
    OBVIOUS
  <2> HIDE DEF es
  <2> QED
    BY <2>1, <2>2, MappedType
<1>2. WithPendingCancelled(x) = [c \in Change |-> es(c)]
  BY DEF WithPendingCancelled
<1> HIDE DEF es
<1> QED
  BY <1>1, <1>2

LEMMA RunningToUnknownType ==
    ASSUME StoreTypeOK
    PROVE  RunningToUnknown \in [Change -> Seq(Effect)]
<1> DEFINE es(c) == [i \in DOMAIN effects[c] |->
            IF effects[c][i].state = "running"
              THEN [effects[c][i] EXCEPT !.state = "unknown"]
              ELSE effects[c][i]]
<1>1. ASSUME NEW c \in Change PROVE es(c) \in Seq(Effect)
  <2>1. ASSUME NEW i \in 1..Last(c) PROVE es(c)[i] \in Effect
    <3>1. effects[c][i] \in Effect /\ i \in DOMAIN effects[c]
      BY EffectType
    <3> QED
      BY <3>1, EffectUpdateType
  <2>2. es(c) = [i \in DOMAIN effects[c] |-> es(c)[i]]
    OBVIOUS
  <2> HIDE DEF es
  <2> QED
    BY <2>1, <2>2, MappedType
<1>2. RunningToUnknown = [c \in Change |-> es(c)]
  BY DEF RunningToUnknown
<1> HIDE DEF es
<1> QED
  BY <1>1, <1>2

LEMMA WithEffectType ==
    ASSUME StoreTypeOK, NEW c \in Change, NEW kind \in {"merge", "update-branch"},
           NEW round \in Nat, NEW pin \in Commit, NEW base \in Nat
    PROVE  WithEffect(c, kind, round, pin, base) \in [Change -> Seq(Effect)]
<1>1. [kind |-> kind, round |-> round, pin |-> pin, base |-> base,
       tries |-> 0, due |-> TRUE, state |-> "pending", outcome |-> "none"]
        \in Effect
  BY DEF Effect
<1>2. effects[c] \in Seq(Effect)
  BY EffectType
<1> QED
  BY <1>1, <1>2 DEF WithEffect, StoreTypeOK

-----------------------------------------------------------------------------
(***************************************************************************)
(* What the steps of a pass do to the executor                             *)
(***************************************************************************)
Places == {"idle", "stages", "head", "base", "write", "fetch", "poll",
           "accept", "inspect", "due", "call", "merge", "view"}

\* The executor between two passes, also as the restart leaves it.
LEMMA IdleType ==
    /\ Idle \in Executor
    /\ \A todo \in SUBSET Pair :
         [Idle EXCEPT !.at = "inspect", !.boot = TRUE, !.todo = todo]
            \in Executor
    /\ \A plan \in [Change -> StageName \cup {"none"}], hs \in SUBSET Change :
         [Idle EXCEPT !.at = "stages", !.held = hs, !.plan = plan] \in Executor
<1>1. 1 \in Change /\ <<1, NoEffect>> \in Pair
  BY StoreAssumption DEF Change, Pair, NoEffect
<1>2. NoRow \in Row
  BY DEF NoRow, Row, ChangeState, NoEffect
<1>3. NoCommit \in Commit
  BY DEF NoCommit, Commit
<1>4. [c \in Change |-> "none"] \in [Change -> StageName \cup {"none"}]
  OBVIOUS
<1> QED
  BY <1>1, <1>2, <1>3, <1>4 DEF Idle, Executor

\* Ending a stage takes its change from the plan and adds none.
LEMMA NextStageType ==
    ASSUME run \in Executor, NEW c \in Change, NextStage(c)
    PROVE  /\ run' \in Executor
           /\ \A d \in Change : run'.plan[d] # "none" =>
                 d # c /\ run'.plan[d] = run.plan[d]
<1>1. /\ [run.plan EXCEPT ![c] = "none"] \in [Change -> StageName \cup {"none"}]
      /\ run.held \in SUBSET Change
  BY DEF Executor
<1>2. run' \in Executor
  BY <1>1, IdleType DEF NextStage
<1>3. run'.plan = [run.plan EXCEPT ![c] = "none"]
  BY DEF NextStage, Idle
<1> QED
  BY <1>2, <1>3 DEF Executor

\* Moving on within a stage or a call leaves the plan as it is.
LEMMA AtType ==
    ASSUME run \in Executor, NEW place \in Places
    PROVE  /\ At(place) => run' \in Executor /\ run'.plan = run.plan
           /\ \A c \in Change : Begin(c, place) =>
                 run' \in Executor /\ run'.plan = run.plan
<1>1. ASSUME At(place) PROVE run' \in Executor /\ run'.plan = run.plan
  BY <1>1 DEF At, Executor, Places
<1>2. ASSUME NEW c \in Change, Begin(c, place)
      PROVE  run' \in Executor /\ run'.plan = run.plan
  <2>1. <<c, NoEffect>> \in Pair
    BY DEF Pair, NoEffect
  <2> QED
    BY <1>2, <2>1 DEF Begin, Executor, Places
<1> QED
  BY <1>1, <1>2

-----------------------------------------------------------------------------
(***************************************************************************)
(* Type correctness                                                        *)
(***************************************************************************)
\* The initial state is typed.
LEMMA TypeInit == Init => Typed
<1> SUFFICES ASSUME Init PROVE Typed
  OBVIOUS
<1>1. StoreTypeOK
  BY DEF Init, StoreInit, StoreTypeOK, Row, ChangeState, NoEffect, Nobody,
         Change
<1>2. origin \in Origin
  BY DEF Init, Origin, Commit, NoCommit
<1>3. run \in Executor /\ \A c \in Change : run.plan[c] = "none"
  BY IdleType DEF Init, Idle
<1>4. result \in [Change -> Commit]
  BY DEF Init, Commit, NoCommit
<1>5. held \subseteq Change /\ awake \in BOOLEAN
      /\ spent \in [{"event", "result", "retry"} -> Nat]
  BY DEF Init
<1> QED
  BY <1>1, <1>2, <1>3, <1>4, <1>5 DEF Typed, TypeOK

\* A bounded counter stays a number.
LEMMA SpendType ==
    ASSUME TypeOK, NEW k \in {"event", "result", "retry"}, NEW limit,
           Spend(k, limit)
    PROVE  spent' \in [{"event", "result", "retry"} -> Nat]
BY DEF Spend, TypeOK

LEMMA EventType ==
    ASSUME TypeOK, NEW kind, Event(kind)
    PROVE  spent' \in [{"event", "result", "retry"} -> Nat]
BY SpendType DEF Event

\* A row with another state, step, pass or effect is a row.
LEMMA RowUpdateType ==
    ASSUME NEW r \in Row, NEW state \in ChangeState,
           NEW step \in {"none", "awaiting-slot", "up-to-date", "updating",
                         "merging"},
           NEW passed \in BOOLEAN, NEW unknown \in Nat
    PROVE  /\ [r EXCEPT !.state = state] \in Row
           /\ [r EXCEPT !.step = step] \in Row
           /\ [r EXCEPT !.unknown = unknown] \in Row
           /\ [r EXCEPT !.state = state, !.step = step] \in Row
           /\ [r EXCEPT !.passed = passed, !.step = step] \in Row
           /\ [r EXCEPT !.step = step, !.passed = passed] \in Row
           /\ [r EXCEPT !.state = state, !.step = step, !.unknown = unknown]
                \in Row
           /\ [r EXCEPT !.state = state, !.step = step, !.passed = passed]
                \in Row
           /\ [r EXCEPT !.state = state, !.step = step, !.passed = passed,
                        !.unknown = unknown] \in Row
BY DEF Row

\* Every change's row, rounds and result have their types.
LEMMA ChangeType ==
    ASSUME TypeOK, NEW c \in Change
    PROVE  /\ change[c] \in Row /\ result[c] \in Commit
           /\ rounds[c] \in Seq(Round) /\ Newest(c) \in Nat
           /\ \A i \in 1..Newest(c) : rounds[c][i] \in Round
           /\ origin.head[c] \in Commit /\ origin.base \in Nat
           /\ run.held \subseteq Change /\ run.head \in Commit
           /\ run.base \in Nat /\ run.row \in Row
BY DEF TypeOK, StoreTypeOK, Newest, Origin, Executor

\* A step that moves at most one row and no other part of the store.
LEMMA TransitionStep ==
    ASSUME StoreTypeOK, NEW c \in Change, NEW row \in Row,
           Transition(c, row) \/ UNCHANGED <<change, slot>>,
           UNCHANGED <<exec, rounds, effects, facts, task>>
    PROVE  StoreTypeOK'
BY TransitionType DEF StoreTypeOK

\* The outcome of the newest round, or its push, is written in place.
LEMMA RoundWrittenType ==
    ASSUME StoreTypeOK, NEW c \in Change, Newest(c) # 0,
           NEW round \in Round
    PROVE  LET new == [rounds[c] EXCEPT ![Newest(c)] = round] IN
           /\ new \in Seq(Round) /\ Len(new) = Newest(c)
           /\ [rounds EXCEPT ![c] = new] \in [Change -> Seq(Round)]
<1>1. rounds[c] \in Seq(Round) /\ Newest(c) \in 1..Len(rounds[c])
      /\ Newest(c) = Len(rounds[c])
  BY DEF StoreTypeOK, Newest
<1> QED
  BY <1>1 DEF StoreTypeOK

\* A result becomes a round.
LEMMA InsertRoundType ==
    ASSUME Typed, NEW c \in Change, InsertRound(c)
    PROVE  Typed'
<1> DEFINE round == [commit |-> result[c], pushed |-> FALSE,
                     carried |-> FALSE, outcome |-> "open"]
<1>1. StoreTypeOK /\ run \in Executor
  BY DEF Typed, TypeOK
<1>2. round \in Round
  BY ChangeType DEF Typed, Round
<1> HIDE DEF round
<1>3. WithRound(c, round) \in Seq(Round)
  BY <1>1, <1>2, WithRoundType
<1>4. Len(WithRound(c, round)) = Newest(c) + 1
  BY <1>1, ChangeType DEF Typed, WithRound
<1>5. /\ rounds' = [rounds EXCEPT ![c] = WithRound(c, round)]
      /\ result' = [result EXCEPT ![c] = NoCommit]
      /\ NextStage(c)
      /\ UNCHANGED <<exec, effects, facts, task, held, origin, awake, spent>>
      /\ \/ Transition(c, [change[c] EXCEPT !.state = "gating",
                                            !.step = "none"])
         \/ UNCHANGED <<change, slot>>
  BY DEF InsertRound, round
<1>6. change' \in [Change -> Row] /\ slot' \in Change \cup {Nobody}
  <2>1. [change[c] EXCEPT !.state = "gating", !.step = "none"] \in Row
    BY ChangeType, RowUpdateType DEF Typed, ChangeState
  <2> QED
    BY <1>1, <1>5, <2>1, TransitionType DEF StoreTypeOK
<1>7. StoreTypeOK'
  BY <1>1, <1>3, <1>5, <1>6 DEF StoreTypeOK
<1>8. run' \in Executor /\ \A d \in Change : run'.plan[d] # "none" =>
                 d # c /\ run'.plan[d] = run.plan[d]
  BY <1>1, <1>5, NextStageType
<1>9. \A d \in Change : run'.plan[d] \in {"push", "decide"} => Newest(d)' # 0
  BY <1>5, <1>8 DEF Typed, Newest
<1>10. result' \in [Change -> Commit]
  BY <1>5 DEF Typed, TypeOK, Commit, NoCommit
<1> QED
  BY <1>5, <1>7, <1>8, <1>9, <1>10 DEF Typed, TypeOK

\* A push writes the branch and its round, or stops the change.
LEMMA PushType ==
    ASSUME Typed, NEW c \in Change, Push(c)
    PROVE  Typed'
<1> DEFINE round == [rounds[c][Newest(c)] EXCEPT !.pushed = TRUE]
<1>1. StoreTypeOK /\ run \in Executor /\ Newest(c) # 0 /\ origin \in Origin
  BY DEF Typed, TypeOK, Push, Serving
<1>2. rounds[c][Newest(c)] \in Round /\ Newest(c) \in 1..Newest(c)
  BY <1>1, ChangeType DEF Typed
<1>3. round \in Round /\ rounds[c][Newest(c)].commit \in Commit
  BY <1>2 DEF Round
<1>4. CASE /\ origin' = [origin EXCEPT !.head[c] = rounds[c][Newest(c)].commit,
                                       !.pr[c] = "open"]
           /\ rounds' = [rounds EXCEPT ![c][Newest(c)].pushed = TRUE]
           /\ UNCHANGED <<exec, change, effects, slot, facts, task>>
  <2>1. origin' \in Origin
    BY <1>1, <1>3, <1>4 DEF Origin
  <2>2. rounds' = [rounds EXCEPT ![c] = [rounds[c] EXCEPT ![Newest(c)] = round]]
    BY <1>4, <1>1 DEF StoreTypeOK
  <2> HIDE DEF round
  <2>3. rounds' \in [Change -> Seq(Round)]
        /\ Len([rounds[c] EXCEPT ![Newest(c)] = round]) = Newest(c)
    BY <1>1, <1>3, <2>2, RoundWrittenType
  <2>4. StoreTypeOK'
    BY <1>1, <1>4, <2>3 DEF StoreTypeOK
  <2>5. \A d \in Change : Newest(d)' = Newest(d)
    BY <1>1, <2>2, <2>3 DEF Newest, StoreTypeOK
  <2> QED
    BY <1>1, <2>1, <2>4, <2>5, NextStageType DEF Push, Typed, TypeOK
<1>5. CASE Transition(c, Stopped(c, NoEffect)) /\ UNCHANGED
           <<exec, rounds, effects, facts, task, origin>>
  <2>1. StoreTypeOK'
    BY <1>1, <1>5, StoppedType, TransitionStep DEF NoEffect
  <2> QED
    BY <1>1, <1>5, <2>1, NextStageType DEF Push, Typed, TypeOK, Newest
<1>6. CASE UNCHANGED <<store, origin>>
  BY <1>1, <1>6, NextStageType
  DEF Push, Typed, TypeOK, Newest, store, StoreTypeOK
<1> QED
  BY <1>4, <1>5, <1>6 DEF Push

\* A verdict is written into the newest round.
LEMMA DecidedType ==
    ASSUME Typed, NEW c \in Change, Newest(c) # 0,
           NEW outcome \in {"pass", "fail"},
           rounds' = [rounds EXCEPT ![c][Newest(c)].outcome = outcome]
    PROVE  /\ rounds' \in [Change -> Seq(Round)]
           /\ \A d \in Change : Newest(d)' = Newest(d)
<1> DEFINE round == [rounds[c][Newest(c)] EXCEPT !.outcome = outcome]
<1>1. StoreTypeOK
  BY DEF Typed, TypeOK
<1>2. rounds[c][Newest(c)] \in Round
  BY <1>1, ChangeType DEF Typed
<1>3. round \in Round
  BY <1>2 DEF Round
<1>4. rounds' = [rounds EXCEPT ![c] = [rounds[c] EXCEPT ![Newest(c)] = round]]
  BY <1>1 DEF StoreTypeOK
<1> HIDE DEF round
<1>5. rounds' \in [Change -> Seq(Round)]
      /\ Len([rounds[c] EXCEPT ![Newest(c)] = round]) = Newest(c)
  BY <1>1, <1>3, <1>4, RoundWrittenType
<1> QED
  BY <1>1, <1>4, <1>5 DEF StoreTypeOK, Newest

\* A verdict is written to the newest round, or stops the change.
LEMMA DecideType ==
    ASSUME Typed, NEW c \in Change, Decide(c)
    PROVE  Typed'
<1>1. StoreTypeOK /\ run \in Executor /\ Newest(c) # 0
  BY DEF Typed, TypeOK, Decide, Serving
<1>2. spent' \in [{"event", "result", "retry"} -> Nat]
  BY EventType DEF Decide, Typed, TypeOK
<1>3. /\ [change[c] EXCEPT !.passed = TRUE, !.step = "none"] \in Row
      /\ Stopped(c, NoEffect) \in Row
  BY <1>1, ChangeType, RowUpdateType, StoppedType
  DEF Typed, ChangeState, NoEffect
<1>4. change' \in [Change -> Row] /\ slot' \in Change \cup {Nobody}
  BY <1>1, <1>3, TransitionType DEF Decide, StoreTypeOK
<1>5. ASSUME NEW outcome \in {"pass", "fail"},
             rounds' = [rounds EXCEPT ![c][Newest(c)].outcome = outcome]
      PROVE  /\ rounds' \in [Change -> Seq(Round)]
             /\ \A d \in Change : Newest(d)' = Newest(d)
  BY <1>1, <1>5, DecidedType
<1>6. /\ rounds' \in [Change -> Seq(Round)]
      /\ \A d \in Change : Newest(d)' = Newest(d)
  BY <1>1, <1>5 DEF Decide, Newest, StoreTypeOK
<1>7. StoreTypeOK'
  BY <1>1, <1>4, <1>6 DEF Decide, StoreTypeOK
<1> QED
  BY <1>1, <1>2, <1>6, <1>7, NextStageType DEF Decide, Typed, TypeOK

\* A stage that ends, having moved at most one row.
LEMMA RowStageType ==
    ASSUME Typed, NEW c \in Change, NEW row \in Row,
           Transition(c, row) \/ UNCHANGED <<change, slot>>,
           NextStage(c),
           UNCHANGED <<exec, rounds, effects, facts, task, result, held,
                       origin, awake>>,
           spent' \in [{"event", "result", "retry"} -> Nat]
    PROVE  Typed'
<1>1. StoreTypeOK /\ run \in Executor
  BY DEF Typed, TypeOK
<1>2. StoreTypeOK'
  BY <1>1, TransitionStep
<1> QED
  BY <1>1, <1>2, NextStageType DEF Typed, TypeOK, Newest

\* A stage or a call that goes on, having moved at most one row.
LEMMA RowMovesOnType ==
    ASSUME Typed, NEW c \in Change, NEW row \in Row,
           Transition(c, row) \/ UNCHANGED <<change, slot>>,
           run' \in Executor, run'.plan = run.plan,
           UNCHANGED <<exec, rounds, effects, facts, task, result, held,
                       origin, awake, spent>>
    PROVE  Typed'
<1>1. StoreTypeOK'
  BY TransitionStep DEF Typed, TypeOK
<1> QED
  BY <1>1 DEF Typed, TypeOK, Newest

LEMMA FixType ==
    ASSUME Typed, NEW c \in Change, Undecided(c) \/ Fix(c)
    PROVE  Typed'
<1>1. /\ [change[c] EXCEPT !.state = "implementing", !.step = "none"] \in Row
      /\ Stopped(c, NoEffect) \in Row /\ change[c] \in Row
  BY ChangeType, RowUpdateType, StoppedType
  DEF Typed, TypeOK, ChangeState, NoEffect
<1>2. NextStage(c) /\ UNCHANGED <<exec, rounds, effects, facts, task, result,
                                  held, origin, awake, spent>>
  BY DEF Undecided, Fix, store
<1>3. \E row \in Row : Transition(c, row) \/ UNCHANGED <<change, slot>>
  BY <1>1 DEF Undecided, Fix, store
<1>4. spent' \in [{"event", "result", "retry"} -> Nat]
  BY <1>2 DEF Typed, TypeOK
<1> QED
  BY <1>2, <1>3, <1>4, RowStageType

LEMMA EnterLandingType ==
    ASSUME Typed, NEW c \in Change, EnterLanding(c)
    PROVE  Typed'
<1>1. /\ [change[c] EXCEPT !.state = "landing", !.step = "up-to-date"] \in Row
      /\ [change[c] EXCEPT !.step = "awaiting-slot"] \in Row
  BY ChangeType, RowUpdateType DEF Typed, ChangeState
<1>2. \E row \in Row : Transition(c, row) \/ UNCHANGED <<change, slot>>
  BY <1>1 DEF EnterLanding
<1>3. UNCHANGED <<exec, rounds, effects, facts, task, result, held, origin,
                  awake, spent>>
      /\ spent' \in [{"event", "result", "retry"} -> Nat]
  BY DEF EnterLanding, Typed, TypeOK
<1>4. CASE NextStage(c)
  BY <1>2, <1>3, <1>4, RowStageType
<1>5. CASE Begin(c, "head")
  <2>1. run' \in Executor /\ run'.plan = run.plan
    BY <1>5, AtType DEF Places, Typed, TypeOK
  <2> QED
    BY <1>2, <1>3, <2>1, RowMovesOnType
<1> QED
  BY <1>4, <1>5 DEF EnterLanding

LEMMA ReadType ==
    ASSUME Typed, (\E c \in Change : ReadHead(c)) \/ ReadBase
    PROVE  Typed'
<1>1. run' \in Executor /\ run'.plan = run.plan
  BY ChangeType DEF ReadHead, ReadBase, Typed, TypeOK, Executor, Origin
<1> QED
  BY <1>1 DEF ReadHead, ReadBase, Typed, TypeOK, Newest, store, StoreTypeOK

LEMMA ReadFailsType ==
    ASSUME Typed, NEW c \in Change, ReadFails(c)
    PROVE  Typed'
<1>1. change[c] \in Row
  BY ChangeType DEF Typed
<1>2. spent' \in [{"event", "result", "retry"} -> Nat]
  BY EventType DEF ReadFails, Typed
<1> QED
  BY <1>1, <1>2, RowStageType DEF ReadFails, store

LEMMA PredictConflictType ==
    ASSUME Typed, NEW c \in Change, PredictConflict(c)
    PROVE  Typed'
<1> DEFINE row == [change[c] EXCEPT !.state = "gating", !.step = "none",
                      !.passed = FALSE, !.unknown = NoEffect]
<1>1. row \in Row
  BY ChangeType, RowUpdateType DEF Typed, ChangeState, NoEffect
<1>2. spent' \in [{"event", "result", "retry"} -> Nat]
  BY EventType DEF PredictConflict, Typed
<1>3. Transition(c, row) /\ NextStage(c)
      /\ UNCHANGED <<exec, rounds, effects, facts, task, result, held,
                     origin, awake>>
  BY DEF PredictConflict
<1> HIDE DEF row
<1> QED
  BY <1>1, <1>2, <1>3, RowStageType

\* A request appends an effect of the round and the head just read.
LEMMA RequestedType ==
    ASSUME Typed, NEW c \in Change
    PROVE  Requested(c) \in [Change -> Seq(Effect)]
<1>1. StoreTypeOK /\ run \in Executor
  BY DEF Typed, TypeOK
<1>2. Wanted \in {"merge", "update-branch"} /\ WantedBase \in Nat
  BY <1>1 DEF Wanted, WantedBase, Executor
<1>3. Newest(c) \in Nat /\ run.head \in Commit
  BY ChangeType DEF Typed
<1> QED
  BY <1>1, <1>2, <1>3, WithEffectType DEF Requested

LEMMA RequestEffectType ==
    ASSUME Typed, NEW c \in Change, RequestEffect(c)
    PROVE  Typed'
<1>1. StoreTypeOK /\ run \in Executor
  BY DEF Typed, TypeOK
<1>2. \A kind : [change[c] EXCEPT !.step = StepOf(kind)] \in Row
  BY ChangeType, RowUpdateType DEF Typed, StepOf, ChangeState
<1>3. change' \in [Change -> Row] /\ slot' \in Change \cup {Nobody}
  BY <1>1, <1>2, TransitionType DEF RequestEffect, StoreTypeOK
<1>4. effects' \in [Change -> Seq(Effect)]
  BY <1>1, RequestedType DEF RequestEffect, StoreTypeOK
<1>5. StoreTypeOK'
  BY <1>1, <1>3, <1>4 DEF RequestEffect, StoreTypeOK
<1> QED
  BY <1>1, <1>5, NextStageType DEF RequestEffect, Typed, TypeOK, Newest

\* Concluding a landing moves the change's row and perhaps closes its task.
LEMMA ConcludesType ==
    ASSUME StoreTypeOK, NEW c \in Change, NEW row \in Row, Concludes(c, row)
    PROVE  /\ change' \in [Change -> Row] /\ slot' \in Change \cup {Nobody}
           /\ task' \in [Change -> {"open", "done", "cancelled"}]
<1>1. Finished(c, row) \in Row
  BY RowUpdateType DEF Finished, ChangeState
<1>2. Transition(c, Finished(c, row))
  BY DEF Concludes
<1> QED
  BY <1>1, <1>2, TransitionType DEF Concludes, StoreTypeOK

LEMMA ApplyOutcomeType ==
    ASSUME Typed, NEW c \in Change, ApplyOutcome(c)
    PROVE  Typed'
<1> DEFINE row == Resumed(c)
           moved == change' \in [Change -> Row]
                    /\ slot' \in Change \cup {Nobody}
                    /\ task' \in [Change -> {"open", "done", "cancelled"}]
<1>1. StoreTypeOK /\ run \in Executor /\ change[c] \in Row
  BY ChangeType DEF Typed, TypeOK
<1>2. row \in Row
  BY <1>1, RowUpdateType DEF Resumed, StepOf, ChangeState
<1>3. /\ [row EXCEPT !.step = "up-to-date"] \in Row
      /\ [row EXCEPT !.state = "stopped", !.step = "none",
                     !.unknown = NoEffect] \in Row
  BY <1>2, RowUpdateType DEF ChangeState, NoEffect
<1>4. \/ NextStage(c) /\ UNCHANGED <<change, slot, task>>
      \/ NextStage(c) /\ Concludes(c, [row EXCEPT !.step = "up-to-date"])
      \/ /\ Transition(c, row) /\ UNCHANGED task
         /\ run' = [run EXCEPT !.row = row, !.now = <<c, NoEffect>>,
                      !.at = IF effects[c][Last(c)].kind = "merge"
                               THEN "fetch" ELSE "poll"]
      \/ /\ NextStage(c) /\ UNCHANGED task
         /\ Transition(c, [row EXCEPT !.state = "stopped", !.step = "none",
                                      !.unknown = NoEffect])
      \/ NextStage(c) /\ Concludes(c, row)
  BY DEF ApplyOutcome
<1>5. UNCHANGED <<exec, rounds, effects, facts, result, held, origin, awake,
                  spent>>
  BY DEF ApplyOutcome
<1> HIDE DEF row
<1>6. moved
  <2>1. CASE UNCHANGED <<change, slot, task>>
    BY <1>1, <2>1 DEF StoreTypeOK
  <2>2. CASE Concludes(c, [row EXCEPT !.step = "up-to-date"])
    BY <1>1, <1>3, <2>2, ConcludesType
  <2>3. CASE Transition(c, row) /\ UNCHANGED task
    BY <1>1, <1>2, <2>3, TransitionType DEF StoreTypeOK
  <2>4. CASE UNCHANGED task /\ Transition(c, [row EXCEPT
               !.state = "stopped", !.step = "none", !.unknown = NoEffect])
    BY <1>1, <1>3, <2>4, TransitionType DEF StoreTypeOK
  <2>5. CASE Concludes(c, row)
    BY <1>1, <1>2, <2>5, ConcludesType
  <2> QED
    BY <1>4, <2>1, <2>2, <2>3, <2>4, <2>5
<1>7. run' \in Executor /\ \A d \in Change :
         run'.plan[d] # "none" => run'.plan[d] = run.plan[d]
  <2>1. CASE NextStage(c)
    BY <1>1, <2>1, NextStageType
  <2>2. CASE run' = [run EXCEPT !.row = row, !.now = <<c, NoEffect>>,
                       !.at = IF effects[c][Last(c)].kind = "merge"
                                THEN "fetch" ELSE "poll"]
    <3>1. <<c, NoEffect>> \in Pair
      BY DEF Pair, NoEffect
    <3> QED
      BY <1>1, <1>2, <2>2, <3>1 DEF Executor
  <2> QED
    BY <1>4, <2>1, <2>2
<1>8. StoreTypeOK'
  BY <1>1, <1>5, <1>6 DEF StoreTypeOK
<1> QED
  BY <1>5, <1>7, <1>8 DEF Typed, TypeOK, Newest

LEMMA RecordLandingType ==
    ASSUME Typed, NEW c \in Change, RecordLanding(c)
    PROVE  Typed'
<1>1. StoreTypeOK /\ run \in Executor
  BY DEF Typed, TypeOK
<1>2. [change[c] EXCEPT !.state = "landed", !.step = "none"] \in Row
  BY ChangeType, RowUpdateType DEF Typed, ChangeState
<1>3. change' \in [Change -> Row] /\ slot' \in Change \cup {Nobody}
  BY <1>1, <1>2, TransitionType DEF RecordLanding, StoreTypeOK
<1>4. effects' \in [Change -> Seq(Effect)]
  BY <1>1, LandingCancelledType DEF RecordLanding, StoreTypeOK
<1>5. StoreTypeOK'
  BY <1>1, <1>3, <1>4 DEF RecordLanding, StoreTypeOK
<1>6. run' \in Executor /\ \A d \in Change :
         run'.plan[d] # "none" => run'.plan[d] = run.plan[d]
  <2>1. CASE run' = Idle
    BY <2>1, IdleType DEF Idle
  <2>2. CASE At("accept")
    BY <1>1, <2>2, AtType DEF Places
  <2> QED
    BY <2>1, <2>2 DEF RecordLanding
<1> QED
  BY <1>5, <1>6 DEF RecordLanding, Typed, TypeOK, Newest

LEMMA AcceptLandedType ==
    ASSUME Typed, NEW c \in Change, AcceptLanded(c)
    PROVE  Typed'
<1>1. StoreTypeOK /\ run \in Executor
  BY DEF Typed, TypeOK
<1>2. exec' \in [Exec -> {"running", "completed", "stopped"}]
  BY <1>1 DEF AcceptLanded, StoreTypeOK
<1>3. task' \in [Change -> {"open", "done", "cancelled"}]
  BY <1>1 DEF AcceptLanded, StoreTypeOK
<1>4. StoreTypeOK'
  BY <1>1, <1>2, <1>3 DEF AcceptLanded, StoreTypeOK
<1> QED
  BY <1>1, <1>4, NextStageType DEF AcceptLanded, Typed, TypeOK, Newest

LEMMA PollUpdateType ==
    ASSUME Typed, NEW c \in Change, PollUpdate(c)
    PROVE  Typed'
<1> DEFINE round == [commit |-> origin.head[c], pushed |-> TRUE,
                     carried |-> TRUE, outcome |-> "open"]
           carriedRow == [change[c] EXCEPT !.step = "up-to-date",
                                           !.passed = FALSE]
           failedRow == [change[c] EXCEPT !.state = "gating", !.step = "none",
              !.passed = IF c \in run.held THEN @ ELSE FALSE]
<1>1. StoreTypeOK /\ run \in Executor /\ change[c] \in Row
  BY ChangeType DEF Typed, TypeOK
<1>2. round \in Round
  BY ChangeType DEF Typed, Round
<1>3. carriedRow \in Row /\ Stopped(c, NoEffect) \in Row
  BY <1>1, RowUpdateType, StoppedType DEF ChangeState, NoEffect
<1>4. failedRow \in Row
  <2> DEFINE passed == IF c \in run.held THEN change[c].passed ELSE FALSE
  <2>1. passed \in BOOLEAN
    BY <1>1 DEF Row
  <2>2. failedRow = [change[c] EXCEPT !.state = "gating", !.step = "none",
                                      !.passed = passed]
    OBVIOUS
  <2> HIDE DEF passed, failedRow
  <2> QED
    BY <1>1, <2>1, <2>2, RowUpdateType DEF ChangeState
<1>5. \/ /\ rounds' = [rounds EXCEPT ![c] = WithRound(c, round)]
         /\ Concludes(c, carriedRow)
      \/ UNCHANGED rounds /\ UNCHANGED <<change, slot, task>>
      \/ UNCHANGED rounds /\ Concludes(c, Stopped(c, NoEffect))
      \/ UNCHANGED rounds /\ Concludes(c, failedRow)
  BY DEF PollUpdate, FailedUpdate, WithCarried
<1>6. /\ NextStage(c)
      /\ UNCHANGED <<exec, effects, facts, result, held, origin, awake, spent>>
  BY DEF PollUpdate
<1> HIDE DEF round, carriedRow, failedRow
<1>7. /\ rounds' \in [Change -> Seq(Round)]
      /\ \A d \in Change : Newest(d) # 0 => Newest(d)' # 0
  <2>1. CASE UNCHANGED rounds
    BY <1>1, <2>1 DEF StoreTypeOK, Newest
  <2>2. CASE rounds' = [rounds EXCEPT ![c] = WithRound(c, round)]
    <3>1. WithRound(c, round) \in Seq(Round)
      BY <1>1, <1>2, WithRoundType
    <3>2. Len(WithRound(c, round)) = Newest(c) + 1 /\ Newest(c) \in Nat
      BY ChangeType DEF Typed, WithRound
    <3> QED
      BY <1>1, <2>2, <3>1, <3>2 DEF StoreTypeOK, Newest
  <2> QED
    BY <1>5, <2>1, <2>2
<1>8. /\ change' \in [Change -> Row] /\ slot' \in Change \cup {Nobody}
      /\ task' \in [Change -> {"open", "done", "cancelled"}]
  <2>1. CASE UNCHANGED <<change, slot, task>>
    BY <1>1, <2>1 DEF StoreTypeOK
  <2>2. ASSUME NEW row \in Row, Concludes(c, row)
        PROVE  /\ change' \in [Change -> Row]
               /\ slot' \in Change \cup {Nobody}
               /\ task' \in [Change -> {"open", "done", "cancelled"}]
    BY <1>1, <2>2, ConcludesType
  <2> QED
    BY <1>3, <1>4, <1>5, <2>1, <2>2
<1>9. StoreTypeOK'
  BY <1>1, <1>6, <1>7, <1>8 DEF StoreTypeOK
<1> QED
  BY <1>1, <1>6, <1>7, <1>9, NextStageType DEF Typed, TypeOK

\* The planner's own transitions stop changes and give the slot back.
LEMMA PlanType ==
    ASSUME Typed, Plan
    PROVE  Typed'
<1>1. StoreTypeOK
  BY DEF Typed, TypeOK
<1>2. change' \in [Change -> Row]
  <2>1. \A c \in Change :
           /\ Stopped(c, NoEffect) \in Row /\ change[c] \in Row
           /\ [change[c] EXCEPT !.state = "gating", !.step = "none"] \in Row
    BY <1>1, ChangeType, RowUpdateType, StoppedType
    DEF Typed, ChangeState, NoEffect
  <2> QED
    BY <2>1 DEF Plan
<1>3. slot' \in Change \cup {Nobody}
  BY <1>1 DEF Plan, StoreTypeOK
<1>4. StoreTypeOK'
  BY <1>1, <1>2, <1>3 DEF Plan, StoreTypeOK
<1>5. Planned \in [Change -> StageName \cup {"none"}]
  BY DEF Planned
<1>6. run' \in Executor /\ run'.plan = Planned
  BY <1>5, IdleType DEF Plan, Idle, Typed, TypeOK
<1>7. \A c \in Change : run'.plan[c] \in {"push", "decide"} => Newest(c)' # 0
  <2>1. ASSUME NEW c \in Change, Owed(c) \in {"push", "decide"}
        PROVE  Newest(c) # 0
    BY <2>1 DEF Owed
  <2>2. \A c \in Change : run'.plan[c] \in {"push", "decide"}
           => Owed(c) \in {"push", "decide"}
    BY <1>6 DEF Planned
  <2>3. \A c \in Change : Newest(c)' = Newest(c)
    BY DEF Plan, Newest
  <2> QED
    BY <2>1, <2>2, <2>3
<1> QED
  BY <1>4, <1>6, <1>7 DEF Plan, Typed, TypeOK

\* A step that writes effects, at most one row and the executor's place.
LEMMA EffectStepType ==
    ASSUME Typed, NEW c \in Change, NEW row \in Row,
           Transition(c, row) \/ UNCHANGED <<change, slot>>,
           effects' \in [Change -> Seq(Effect)],
           run' \in Executor, run'.plan = run.plan,
           awake' \in BOOLEAN, origin' \in Origin,
           UNCHANGED <<exec, rounds, facts, task, result, held>>,
           spent' \in [{"event", "result", "retry"} -> Nat]
    PROVE  Typed'
<1>1. change' \in [Change -> Row] /\ slot' \in Change \cup {Nobody}
  BY TransitionType DEF Typed, TypeOK, StoreTypeOK
<1>2. StoreTypeOK'
  BY <1>1 DEF Typed, TypeOK, StoreTypeOK
<1> QED
  BY <1>2 DEF Typed, TypeOK, Newest

\* The effects of a change, once listed, are pairs.
LEMMA DueType ==
    ASSUME StoreTypeOK
    PROVE  DueEffects \subseteq Pair /\ DueUnknownEffects \subseteq Pair
BY EffectType DEF DueEffects, DueUnknownEffects, EffectIds, Pair

LEMMA InspectType ==
    ASSUME Typed, Inspect \/ RanDue
    PROVE  Typed'
<1>1. DueUnknownEffects \in SUBSET Pair
  BY DueType DEF Typed, TypeOK
<1>2. run' \in Executor /\ \A c \in Change :
         run'.plan[c] # "none" => run'.plan[c] = run.plan[c]
  <2>1. CASE Inspect
    BY <1>1, <2>1 DEF Inspect, Typed, TypeOK, Executor
  <2>2. CASE RanDue
    BY <2>2, IdleType DEF RanDue, Idle
  <2> QED
    BY <2>1, <2>2
<1> QED
  BY <1>2 DEF Inspect, RanDue, Typed, TypeOK, Newest, store, StoreTypeOK

LEMMA InspectedType ==
    ASSUME Typed, Inspected
    PROVE  Typed'
<1>1. DueEffects \in SUBSET Pair
  BY DueType DEF Typed, TypeOK
<1>2. run' \in Executor /\ \A c \in Change :
         run'.plan[c] # "none" => run'.plan[c] = run.plan[c]
  <2>1. CASE run' = Idle
    BY <2>1, IdleType DEF Idle
  <2>2. CASE run' = [run EXCEPT !.at = "due", !.todo = DueEffects]
    BY <1>1, <2>2 DEF Typed, TypeOK, Executor
  <2> QED
    BY <2>1, <2>2 DEF Inspected
<1>3. slot' \in Change \cup {Nobody} /\ awake' \in BOOLEAN
  BY DEF Inspected, Typed, TypeOK, StoreTypeOK
<1> QED
  BY <1>2, <1>3 DEF Inspected, Typed, TypeOK, Newest, StoreTypeOK

\* Taking an effect off the list leaves the executor typed.
LEMMA TodoType ==
    ASSUME run \in Executor, NEW c \in Change, NEW i \in Nat,
           NEW place \in Places,
           \/ run' = [run EXCEPT !.todo = @ \ {<<c, i>>}]
           \/ run' = [run EXCEPT !.todo = @ \ {<<c, i>>}, !.now = <<c, i>>,
                                 !.at = place]
    PROVE  run' \in Executor /\ run'.plan = run.plan
<1>1. <<c, i>> \in Pair /\ run.todo \ {<<c, i>>} \subseteq Pair
  BY DEF Pair, Executor
<1>2. CASE run' = [run EXCEPT !.todo = @ \ {<<c, i>>}]
  BY <1>1, <1>2 DEF Executor
<1>3. CASE run' = [run EXCEPT !.todo = @ \ {<<c, i>>}, !.now = <<c, i>>,
                              !.at = place]
  BY <1>1, <1>3 DEF Executor, Places
<1> QED
  BY <1>2, <1>3

LEMMA InspectAnswersType ==
    ASSUME Typed, NEW c \in Change, NEW i \in 1..Last(c), InspectAnswers(c, i)
    PROVE  Typed'
<1>1. StoreTypeOK /\ run \in Executor /\ i \in Nat /\ change[c] \in Row
      /\ effects[c][i] \in Effect
  BY EffectType, ChangeType DEF Typed, TypeOK
<1>2. [effects[c][i] EXCEPT !.state = "pending"] \in Effect
  BY <1>1, EffectUpdateType
<1>3. /\ Settled(c, i, "done", "merged") \in [Change -> Seq(Effect)]
      /\ Settled(c, i, "failed", "pr-closed") \in [Change -> Seq(Effect)]
      /\ Settled(c, i, "done", "requested") \in [Change -> Seq(Effect)]
      /\ Written(c, i, [effects[c][i] EXCEPT !.state = "pending"])
           \in [Change -> Seq(Effect)]
  BY <1>1, <1>2, SettledType, WrittenType
<1>4. effects' \in [Change -> Seq(Effect)]
  BY <1>3 DEF InspectAnswers
<1>5. run' \in Executor /\ run'.plan = run.plan
  BY <1>1, TodoType DEF InspectAnswers, Places
<1> QED
  BY <1>1, <1>4, <1>5, EffectStepType DEF InspectAnswers, Typed, TypeOK

\* What a failure leaves of the change's row is a transition or nothing.
LEMMA StopsChangeType ==
    ASSUME Typed, NEW c \in Change, NEW named \in Nat, StopsChange(c, named)
    PROVE  \E row \in Row : Transition(c, row) \/ UNCHANGED <<change, slot>>
BY StoppedType DEF StopsChange, Typed, TypeOK

LEMMA FailingType ==
    ASSUME Typed, NEW c \in Change, NEW i \in 1..Last(c), Failing(c, i)
    PROVE  Typed'
<1>1. StoreTypeOK /\ run \in Executor /\ i \in Nat /\ change[c] \in Row
  BY EffectType, ChangeType DEF Typed, TypeOK
<1>2. /\ Settled(c, i, "failed", "none") \in [Change -> Seq(Effect)]
      /\ Retried(c, i, "unknown") \in [Change -> Seq(Effect)]
      /\ Retried(c, i, "pending") \in [Change -> Seq(Effect)]
  BY <1>1, SettledType, RetriedType
<1>3. effects' \in [Change -> Seq(Effect)]
  BY <1>2 DEF Failing, InspectFails, CallFails
<1>4. run' \in Executor /\ run'.plan = run.plan
  <2>1. CASE InspectFails(c, i)
    BY <1>1, <2>1, TodoType DEF InspectFails, Places
  <2>2. CASE CallFails(c, i)
    BY <1>1, <2>2, AtType DEF CallFails, Places
  <2> QED
    BY <2>1, <2>2 DEF Failing
<1>5. \E row \in Row : Transition(c, row) \/ UNCHANGED <<change, slot>>
  BY <1>1, StopsChangeType DEF Failing, InspectFails, CallFails, NoEffect
<1>6. spent' \in [{"event", "result", "retry"} -> Nat]
  BY EventType DEF Failing, InspectFails, CallFails, Typed
<1>7. /\ UNCHANGED <<exec, rounds, facts, task, result, held, origin, awake>>
      /\ awake' \in BOOLEAN /\ origin' \in Origin
  BY DEF Failing, InspectFails, CallFails, Typed, TypeOK
<1> QED
  BY <1>3, <1>4, <1>5, <1>6, <1>7, EffectStepType

LEMMA MarkRunningType ==
    ASSUME Typed, NEW c \in Change, NEW i \in 1..Last(c), MarkRunning(c, i)
    PROVE  Typed'
<1>1. StoreTypeOK /\ run \in Executor /\ i \in Nat /\ change[c] \in Row
      /\ effects[c][i] \in Effect
  BY EffectType, ChangeType DEF Typed, TypeOK
<1>2. [effects[c][i] EXCEPT !.state = "running"] \in Effect
  BY <1>1, EffectUpdateType
<1>3. effects' \in [Change -> Seq(Effect)]
  BY <1>1, <1>2, WrittenType DEF MarkRunning
<1>4. run' \in Executor /\ run'.plan = run.plan
  <2>1. \E place \in Places :
           run' = [run EXCEPT !.todo = @ \ {<<c, i>>}, !.now = <<c, i>>,
                              !.at = place]
    BY <1>1 DEF MarkRunning, Places, Executor
  <2> QED
    BY <1>1, <2>1, TodoType
<1>5. awake' \in BOOLEAN
  BY DEF MarkRunning, Typed, TypeOK
<1> QED
  BY <1>1, <1>3, <1>4, <1>5, EffectStepType DEF MarkRunning, Typed, TypeOK

LEMMA AnsweredType ==
    ASSUME Typed, NEW c \in Change, NEW i \in 1..Last(c),
           NEW outcome \in {"none", "merged", "not-merged", "requested",
                            "conflict", "pr-closed"},
           Answered(c, i, outcome), origin' \in Origin,
           spent' \in [{"event", "result", "retry"} -> Nat]
    PROVE  Typed'
<1>1. StoreTypeOK /\ run \in Executor /\ change[c] \in Row
  BY ChangeType DEF Typed, TypeOK
<1>2. effects' \in [Change -> Seq(Effect)]
  BY <1>1, SettledType DEF Answered
<1>3. run' \in Executor /\ run'.plan = run.plan
  BY <1>1, AtType DEF Answered, Places
<1>4. /\ UNCHANGED <<exec, change, rounds, slot, facts, task, result, held>>
      /\ awake' \in BOOLEAN
  BY DEF Answered, Typed, TypeOK
<1> QED
  BY <1>1, <1>2, <1>3, <1>4, EffectStepType

LEMMA CallType ==
    ASSUME Typed, NEW c \in Change, NEW i \in 1..Last(c),
           \/ ReadMergeBase(c, i) \/ MergePull(c, i) \/ ViewMerged(c, i)
           \/ MergeRefused(c, i) \/ AskUpdate(c, i)
    PROVE  Typed'
<1>1. StoreTypeOK /\ run \in Executor /\ change[c] \in Row
      /\ origin \in Origin /\ spent \in [{"event", "result", "retry"} -> Nat]
  BY ChangeType DEF Typed, TypeOK
<1>2. CASE ReadMergeBase(c, i)
  <2>1. CASE Answered(c, i, "not-merged")
    <3>1. spent' \in [{"event", "result", "retry"} -> Nat] /\ origin' = origin
      BY <1>1, <1>2, EventType DEF ReadMergeBase, Typed
    <3> QED
      BY <1>1, <2>1, <3>1, AnsweredType
  <2>2. CASE At("merge") /\ UNCHANGED <<store, result, held, origin, awake,
                                        spent>>
    <3>1. run' \in Executor /\ run'.plan = run.plan
      BY <1>1, <2>2, AtType DEF Places
    <3> QED
      BY <1>1, <2>2, <3>1, RowMovesOnType DEF store
  <2> QED
    BY <1>2, <2>1, <2>2 DEF ReadMergeBase
<1>3. CASE MergePull(c, i)
  <2>1. run' \in Executor /\ run'.plan = run.plan
    BY <1>1, <1>3, AtType DEF MergePull, Places
  <2>2. origin' \in Origin
    <3>1. origin.base + 1 \in Nat
      BY <1>1 DEF Origin
    <3> QED
      BY <1>1, <1>3, <3>1 DEF MergePull, Origin
  <2> QED
    BY <1>1, <1>3, <2>1, <2>2
    DEF MergePull, Typed, TypeOK, Newest, store, StoreTypeOK
<1>4. CASE ViewMerged(c, i)
  <2>1. spent' \in [{"event", "result", "retry"} -> Nat] /\ origin' = origin
    BY <1>1, <1>4, EventType DEF ViewMerged, Typed
  <2> QED
    BY <1>1, <1>4, <2>1, AnsweredType DEF ViewMerged
<1>5. CASE MergeRefused(c, i)
  <2>1. effects' \in [Change -> Seq(Effect)]
    BY <1>1, <1>5, SettledType DEF MergeRefused
  <2>2. run' \in Executor /\ run'.plan = run.plan
    BY <1>1, <1>5, AtType DEF MergeRefused, Places
  <2>3. \E row \in Row : Transition(c, row) \/ UNCHANGED <<change, slot>>
    BY <1>5, StopsChangeType DEF MergeRefused, NoEffect
  <2>4. UNCHANGED <<exec, rounds, facts, task, result, held, origin, awake,
                    spent>>
    BY <1>5 DEF MergeRefused
  <2> QED
    BY <1>1, <2>1, <2>2, <2>3, <2>4, EffectStepType DEF Typed, TypeOK
<1>6. CASE AskUpdate(c, i)
  <2>1. spent' \in [{"event", "result", "retry"} -> Nat]
    BY <1>1, <1>6, EventType DEF AskUpdate, Typed
  <2>2. origin' \in Origin
    BY <1>1, <1>6 DEF AskUpdate, Origin
  <2> QED
    BY <1>6, <2>1, <2>2, AnsweredType DEF AskUpdate
<1> QED
  BY <1>2, <1>3, <1>4, <1>5, <1>6

LEMMA BackoffEndsType ==
    ASSUME Typed, NEW c \in Change, NEW i \in 1..Last(c), BackoffEnds(c, i)
    PROVE  Typed'
<1> DEFINE e == [effects[c][i] EXCEPT !.due = TRUE]
<1>1. effects[c][i] \in Effect /\ effects[c] \in Seq(Effect)
      /\ i \in 1..Len(effects[c])
  BY EffectType DEF Typed, TypeOK, Last
<1>2. e \in Effect
  <2>1. \E s \in {"pending", "running", "unknown", "done", "failed",
                  "cancelled"},
           o \in {"none", "merged", "not-merged", "requested", "conflict",
                  "pr-closed"} : TRUE
    OBVIOUS
  <2> QED
    BY <1>1, <2>1, EffectUpdateType
<1>3. effects' = [effects EXCEPT ![c] = [effects[c] EXCEPT ![i] = e]]
  BY DEF BackoffEnds, Typed, TypeOK, StoreTypeOK
<1> HIDE DEF e
<1>4. [effects[c] EXCEPT ![i] = e] \in Seq(Effect)
  BY <1>1, <1>2
<1>5. effects' \in [Change -> Seq(Effect)]
  BY <1>3, <1>4 DEF Typed, TypeOK, StoreTypeOK
<1> QED
  BY <1>5 DEF BackoffEnds, Typed, TypeOK, StoreTypeOK, Newest

\* The works a change's commits have are numbers, and so is the next one.
LEMMA NextWorkType ==
    ASSUME TypeOK, NEW c \in Change
    PROVE  NextWork(c) \subseteq Nat
<1>1. Works(c) \subseteq Nat
  <2>1. origin.head[c].work \in Nat /\ result[c].work \in Nat
    BY ChangeType DEF Commit
  <2>2. \A i \in 1..Newest(c) : rounds[c][i].commit.work \in Nat
    BY ChangeType DEF Round, Commit
  <2> QED
    BY <2>1, <2>2 DEF Works
<1> QED
  BY <1>1 DEF NextWork

LEMMA SubmitType ==
    ASSUME Typed, NEW c \in Change, Submit(c)
    PROVE  Typed'
<1>1. spent' \in [{"event", "result", "retry"} -> Nat]
  BY SpendType DEF Submit, Typed
<1>2. result' \in [Change -> Commit]
  <2>1. PICK w \in NextWork(c), b \in {origin.head[c].base, origin.base} :
           result' = [result EXCEPT ![c] = [work |-> w, base |-> b]]
    BY DEF Submit
  <2>2. w \in Nat /\ b \in Nat
    BY <2>1, NextWorkType, ChangeType DEF Typed, Commit
  <2>3. [work |-> w, base |-> b] \in Commit
    BY <2>2 DEF Commit
  <2> QED
    BY <2>1, <2>3 DEF Typed, TypeOK
<1> QED
  BY <1>1, <1>2 DEF Submit, Typed, TypeOK, StoreTypeOK, store, Newest

\* GitHub, and those who push to it, keep its branches typed.
LEMMA OriginType ==
    ASSUME Typed, NEW c \in Change,
           GitHubUpdates(c) \/ PushByOther(c) \/ MergeByOther \/ ShutPull(c)
    PROVE  Typed'
<1>1. spent' \in [{"event", "result", "retry"} -> Nat]
  BY EventType DEF GitHubUpdates, PushByOther, MergeByOther, ShutPull, Typed,
                   TypeOK
<1>2. origin \in Origin /\ origin.head[c] \in Commit /\ origin.base \in Nat
  BY ChangeType DEF Typed, TypeOK
<1>3. origin' \in Origin
  <2>1. CASE GitHubUpdates(c)
    <3> DEFINE head == IF origin.head[c] = origin.asked[c]
                          /\ origin.pr[c] = "open"
                         THEN [origin.head[c] EXCEPT !.base = origin.base]
                         ELSE origin.head[c]
    <3>1. head \in Commit /\ NoCommit \in Commit
      BY <1>2 DEF Commit, NoCommit
    <3>2. origin' = [origin EXCEPT !.asked[c] = NoCommit, !.head[c] = head]
      BY <1>2, <2>1 DEF GitHubUpdates, Origin
    <3> HIDE DEF head
    <3> QED
      BY <1>2, <3>1, <3>2 DEF Origin
  <2>2. CASE PushByOther(c)
    <3>1. PICK w \in NextWork(c) : origin' = [origin EXCEPT !.head[c].work = w]
      BY <2>2 DEF PushByOther
    <3>2. w \in Nat
      BY <3>1, NextWorkType DEF Typed
    <3>3. [origin.head[c] EXCEPT !.work = w] \in Commit
      BY <1>2, <3>2 DEF Commit
    <3> QED
      BY <1>2, <3>1, <3>3 DEF Origin
  <2>3. CASE MergeByOther
    <3>1. origin.base + 1 \in Nat
      BY <1>2
    <3> QED
      BY <1>2, <2>3, <3>1 DEF MergeByOther, Origin
  <2>4. CASE ShutPull(c)
    BY <1>2, <2>4 DEF ShutPull, Origin
  <2> QED
    BY <2>1, <2>2, <2>3, <2>4
<1>4. UNCHANGED <<store, result, held, run, awake>>
  BY DEF GitHubUpdates, PushByOther, MergeByOther, ShutPull
<1> QED
  BY <1>1, <1>3, <1>4 DEF Typed, TypeOK, StoreTypeOK, store, Newest

LEMMA StopType ==
    ASSUME Typed, NEW x \in Exec, Stop(x)
    PROVE  Typed'
<1>1. StoreTypeOK /\ spent' \in [{"event", "result", "retry"} -> Nat]
  BY EventType DEF Stop, Typed, TypeOK
<1>2. effects' \in [Change -> Seq(Effect)]
  BY <1>1, PendingCancelledType DEF Stop
<1>3. change' \in [Change -> Row]
  <2>1. \A c \in Change :
           /\ change[c] \in Row
           /\ [change[c] EXCEPT !.state = "cancelled", !.step = "none"] \in Row
    BY ChangeType, RowUpdateType DEF Typed, ChangeState
  <2> QED
    BY <2>1 DEF Stop
<1>4. task' \in [Change -> {"open", "done", "cancelled"}]
  BY <1>1 DEF Stop, StoreTypeOK
<1>5. exec' \in [Exec -> {"running", "completed", "stopped"}]
      /\ slot' \in Change \cup {Nobody}
  BY <1>1 DEF Stop, StoreTypeOK
<1> QED
  BY <1>1, <1>2, <1>3, <1>4, <1>5 DEF Stop, Typed, TypeOK, StoreTypeOK, Newest

LEMMA RetryType ==
    ASSUME Typed, NEW c \in Change, Retry(c)
    PROVE  Typed'
<1> DEFINE i == change[c].unknown
           row == [change[c] EXCEPT !.unknown = NoEffect]
           e == [effects[c][i] EXCEPT !.state = "unknown", !.tries = 0,
                                      !.due = TRUE]
<1>1. StoreTypeOK /\ spent' \in [{"event", "result", "retry"} -> Nat]
      /\ run \in Executor
  BY SpendType DEF Retry, Typed, TypeOK
<1>2. row \in Row
  BY ChangeType, RowUpdateType DEF Typed, ChangeState, NoEffect
<1>3. /\ [row EXCEPT !.state = "gating"] \in Row
      /\ [row EXCEPT !.state = "gating", !.step = "awaiting-slot"] \in Row
      /\ \A kind : [row EXCEPT !.state = "landing", !.step = StepOf(kind)]
                      \in Row
  BY <1>2, RowUpdateType DEF ChangeState, StepOf
<1>4. change' \in [Change -> Row] /\ slot' \in Change \cup {Nobody}
  <2>1. \E r \in Row : Transition(c, r)
    BY <1>3 DEF Retry
  <2> QED
    BY <1>1, <2>1, TransitionType
<1>5. effects' \in [Change -> Seq(Effect)]
  <2>1. \/ effects' = effects
        \/ effects' = [effects EXCEPT ![c][i].state = "unknown",
                              ![c][i].tries = 0, ![c][i].due = TRUE]
    BY DEF Retry
  <2>2. CASE i \in 1..Last(c)
    <3>1. effects[c][i] \in Effect /\ effects[c] \in Seq(Effect)
          /\ i \in 1..Len(effects[c])
      BY <1>1, <2>2, EffectType DEF Last
    <3>2. e \in Effect
      BY <3>1, EffectUpdateType
    <3>3. [effects EXCEPT ![c][i].state = "unknown",
                  ![c][i].tries = 0, ![c][i].due = TRUE]
            = [effects EXCEPT ![c] = [effects[c] EXCEPT ![i] = e]]
      BY <1>1, <3>1 DEF StoreTypeOK
    <3>4. [effects[c] EXCEPT ![i] = e] \in Seq(Effect)
      <4> HIDE DEF e, i
      <4> QED
        BY <3>1, <3>2
    <3>5. [effects EXCEPT ![c] = [effects[c] EXCEPT ![i] = e]]
            \in [Change -> Seq(Effect)]
      <4> HIDE DEF e, i
      <4> QED
        BY <1>1, <3>4 DEF StoreTypeOK
    <3> QED
      BY <1>1, <2>1, <3>3, <3>5 DEF StoreTypeOK
  <2>3. CASE i \notin 1..Last(c)
    <3>1. [effects EXCEPT ![c][i].state = "unknown",
                  ![c][i].tries = 0, ![c][i].due = TRUE] = effects
      BY <1>1, <2>3, EffectType DEF StoreTypeOK
    <3> QED
      BY <1>1, <2>1, <3>1 DEF StoreTypeOK
  <2> QED
    BY <2>2, <2>3
<1> HIDE DEF i, row, e
<1>6. UNCHANGED <<exec, rounds, facts, task, result, held, origin, run>>
      /\ awake' = TRUE
  BY DEF Retry
<1> QED
  BY <1>1, <1>4, <1>5, <1>6 DEF Typed, TypeOK, StoreTypeOK, Newest

LEMMA CommandType ==
    ASSUME Typed, NEW c \in Change, CloseTask(c) \/ Hold(c) \/ Release(c)
    PROVE  Typed'
<1>1. spent' \in [{"event", "result", "retry"} -> Nat]
  BY EventType DEF CloseTask, Hold, Release, Typed, TypeOK
<1>2. held' \subseteq Change /\ awake' \in BOOLEAN
      /\ task' \in [Change -> {"open", "done", "cancelled"}]
  BY DEF CloseTask, Hold, Release, Typed, TypeOK, StoreTypeOK, store
<1> QED
  BY <1>1, <1>2 DEF CloseTask, Hold, Release, Typed, TypeOK, StoreTypeOK,
                    store, Newest

\* A restart over typed effects, rounds and facts.
LEMMA RestartType ==
    ASSUME Typed, Restarted,
           effects' \in [Change -> Seq(Effect)],
           rounds' \in [Change -> Seq(Round)], facts' \subseteq Change,
           spent' \in [{"event", "result", "retry"} -> Nat],
           UNCHANGED <<exec, change, slot, task, result, held, origin>>
    PROVE  Typed'
<1>1. StoreTypeOK'
  BY DEF Typed, TypeOK, StoreTypeOK
<1>2. \A c \in Change : Last(c)' \in Nat
  BY DEF Last
<1>3. DueUnknownEffects' \in SUBSET Pair
  BY <1>2 DEF DueUnknownEffects, EffectIds, Pair
<1>4. run' \in Executor /\ run'.plan = Idle.plan
  BY <1>3, IdleType DEF Restarted, Idle
<1> QED
  BY <1>1, <1>4 DEF Restarted, Typed, TypeOK, Idle

LEMMA CrashType ==
    ASSUME Typed, Crash
    PROVE  Typed'
<1>1. StoreTypeOK /\ run \in Executor
      /\ spent' \in [{"event", "result", "retry"} -> Nat]
  BY EventType DEF Crash, Typed, TypeOK
<1>2. effects' \in [Change -> Seq(Effect)]
  BY <1>1, RunningToUnknownType DEF Crash
<1>3. facts' \subseteq Change
  BY <1>1 DEF Crash, StoreTypeOK, Executor, Pair
<1> QED
  BY <1>1, <1>2, <1>3, RestartType DEF Crash, StoreTypeOK

LEMMA CrashInStageType ==
    ASSUME Typed, NEW c \in Change, CrashInStage(c)
    PROVE  Typed'
<1>1. StoreTypeOK /\ run \in Executor
      /\ spent' \in [{"event", "result", "retry"} -> Nat]
  BY EventType DEF CrashInStage, Typed, TypeOK
<1>2. effects' \in [Change -> Seq(Effect)]
  BY <1>1, RequestedType DEF CrashInStage, StoreTypeOK
<1>3. rounds' \in [Change -> Seq(Round)]
  <2>1. CASE UNCHANGED rounds
    BY <1>1, <2>1 DEF StoreTypeOK
  <2>2. CASE /\ Serving(c, "decide")
             /\ rounds' = [rounds EXCEPT ![c][Newest(c)].outcome = "pass"]
    <3>1. Newest(c) # 0
      BY <2>2 DEF Serving, Typed
    <3> QED
      BY <2>2, <3>1, DecidedType
  <2>3. CASE rounds' = WithCarried(c)
    <3> DEFINE round == [commit |-> origin.head[c], pushed |-> TRUE,
                         carried |-> TRUE, outcome |-> "open"]
    <3>1. round \in Round
      BY ChangeType DEF Typed, Round
    <3> HIDE DEF round
    <3>2. WithRound(c, round) \in Seq(Round)
      BY <1>1, <3>1, WithRoundType
    <3>3. WithCarried(c) = [rounds EXCEPT ![c] = WithRound(c, round)]
      BY DEF WithCarried, round
    <3> QED
      BY <1>1, <2>3, <3>2, <3>3 DEF StoreTypeOK
  <2> QED
    BY <2>1, <2>2, <2>3 DEF CrashInStage
<1> QED
  BY <1>1, <1>2, <1>3, RestartType DEF CrashInStage, StoreTypeOK

LEMMA CrashInFailureType ==
    ASSUME Typed, NEW c \in Change, NEW i \in 1..Last(c),
           CrashInFailure(c, i)
    PROVE  Typed'
<1>1. StoreTypeOK
      /\ spent' \in [{"event", "result", "retry"} -> Nat]
  BY EventType DEF CrashInFailure, Typed, TypeOK
<1>2. effects' \in [Change -> Seq(Effect)]
  BY <1>1, SettledType DEF CrashInFailure
<1> QED
  BY <1>1, <1>2, RestartType DEF CrashInFailure, StoreTypeOK

\* Every step keeps the types.
LEMMA TypeStep == Typed /\ [Next]_vars => Typed'
<1> SUFFICES ASSUME Typed, [Next]_vars
             PROVE  Typed'
  OBVIOUS
<1>1. CASE UNCHANGED vars
  BY <1>1 DEF vars, Typed, TypeOK, StoreTypeOK, Newest
<1>2. CASE Plan \/ ReadBase \/ Inspect \/ Inspected \/ RanDue
  BY <1>2, PlanType, ReadType, InspectType, InspectedType
<1>3. ASSUME NEW c \in Change, Stage(c) PROVE Typed'
  BY <1>3, InsertRoundType, PushType, DecideType, FixType, EnterLandingType,
     ReadType, PredictConflictType, RequestEffectType, ApplyOutcomeType,
     RecordLandingType, AcceptLandedType, PollUpdateType DEF Stage
<1>4. ASSUME NEW c \in Change, NEW i \in 1..Last(c), Effects(c, i)
      PROVE  Typed'
  BY <1>4, InspectAnswersType, MarkRunningType, CallType DEF Effects
<1>5. CASE Outside
  <2>1. CASE MergeByOther \/ Crash
    <3>1. 1 \in Change
      BY StoreAssumption DEF Change
    <3> QED
      BY <2>1, <3>1, OriginType, CrashType
  <2>2. ASSUME NEW x \in Exec, Stop(x) PROVE Typed'
    BY <2>2, StopType
  <2>3. ASSUME NEW c \in Change,
               \/ ReadFails(c) \/ Submit(c) \/ GitHubUpdates(c)
               \/ PushByOther(c) \/ ShutPull(c) \/ Retry(c) \/ CloseTask(c)
               \/ Hold(c) \/ Release(c) \/ CrashInStage(c)
        PROVE  Typed'
    BY <2>3, ReadFailsType, SubmitType, OriginType, RetryType, CommandType,
       CrashInStageType
  <2>4. ASSUME NEW c \in Change, NEW i \in 1..Last(c),
               Failing(c, i) \/ BackoffEnds(c, i) \/ CrashInFailure(c, i)
        PROVE  Typed'
    BY <2>4, FailingType, BackoffEndsType, CrashInFailureType
  <2> QED
    BY <1>5, <2>1, <2>2, <2>3, <2>4 DEF Outside
<1> QED
  BY <1>1, <1>2, <1>3, <1>4, <1>5 DEF Next, Pass

\* Typed is an invariant of the specification.
THEOREM LandingTyped == Spec => []Typed
BY TypeInit, TypeStep, PTL DEF Spec

\* TypeOK: every row, effect, commit and place of the executor has its type,
\* for every number of changes and whatever comes in between.
THEOREM LandingTypeCorrect == Spec => []TypeOK
<1>1. Typed => TypeOK
  BY DEF Typed
<1> QED
  BY <1>1, LandingTyped, PTL
=============================================================================
