---------------------------- MODULE LandingStore ----------------------------
(***************************************************************************)
(* The rows a plan execution keeps in the database, and the writes made to *)
(* them (src/server/plans/execution/executionStore.ts,                     *)
(* executionEffectStore.ts).                                               *)
(*                                                                         *)
(* A change is its position in the plan.  A commit is named by the work it *)
(* holds and the version of the base branch it contains; the base branch   *)
(* only grows.  A row's generation is left out: a write guarded by it is   *)
(* guarded by the whole row, and no row returns to an earlier value while  *)
(* someone still holds that value.                                         *)
(***************************************************************************)
EXTENDS Integers, Sequences, FiniteSets

CONSTANTS
    N,        \* number of changes
    Exec,     \* the team's executions
    ExecOf,   \* the execution each change belongs to
    Tries     \* retries after a transient failure (3 in the code)

ASSUME StoreAssumption ==
    /\ N \in Nat \ {0} /\ Tries \in Nat
    /\ ExecOf \in [1..N -> Exec]

VARIABLES
    exec,     \* plan_executions: state and outcome
    change,   \* plan_execution_changes
    rounds,   \* plan_execution_rounds, oldest first
    effects,  \* plan_execution_effects of the landing kinds, oldest first
    slot,     \* plan_landing_slots: the change that holds it, or Nobody
    facts,    \* plan_change_landings: the changes that have a fact
    task      \* the status of each change's task

Change == 1..N
Nobody == 0
NoEffect == 0
Commit == [work : Nat, base : Nat]
NoCommit == [work |-> 0, base |-> 0]

ChangeState ==
    {"implementing", "gating", "landing", "landed", "stopped", "cancelled"}
Row ==
    [state : ChangeState,
     step : {"none", "awaiting-slot", "up-to-date", "updating", "merging"},
     passed : BOOLEAN,   \* passed_at
     unknown : Nat]      \* the effect an effect-unknown stop names
Round ==
    [commit : Commit, pushed : BOOLEAN, carried : BOOLEAN,
     outcome : {"open", "pass", "fail", "superseded"}]
Effect ==
    [kind : {"merge", "update-branch"}, round : Nat, pin : Commit,
     base : Nat, tries : Nat, due : BOOLEAN,
     state : {"pending", "running", "unknown", "done", "failed", "cancelled"},
     outcome : {"none", "merged", "not-merged", "requested", "conflict",
                "pr-closed"}]

StoreTypeOK ==
    /\ exec \in [Exec -> {"running", "completed", "stopped"}]
    /\ change \in [Change -> Row]
    /\ rounds \in [Change -> Seq(Round)]
    /\ effects \in [Change -> Seq(Effect)]
    /\ slot \in Change \cup {Nobody}
    /\ facts \subseteq Change
    /\ task \in [Change -> {"open", "done", "cancelled"}]

StoreInit ==
    /\ exec = [x \in Exec |-> "running"]
    /\ change = [c \in Change |->
          [state |-> "implementing", step |-> "none", passed |-> FALSE,
           unknown |-> NoEffect]]
    /\ rounds = [c \in Change |-> <<>>]
    /\ effects = [c \in Change |-> <<>>]
    /\ slot = Nobody /\ facts = {}
    /\ task = [c \in Change |-> "open"]

-----------------------------------------------------------------------------
(* Changes and the landing slot. *)

Runs(c) == exec[ExecOf[c]] = "running"

(* Faulty: a change that only waits for its branch update may be passed.   *)
SlotFreeUnlessMerging == slot = Nobody \/ change[slot].step # "merging"

SlotFree == slot = Nobody \/ change[slot].state # "landing"

Stopped(c, named) ==
    [change[c] EXCEPT !.state = "stopped", !.step = "none", !.unknown = named]

(* Writes one row; entering landing takes the slot, which the caller has   *)
(* found free, and leaving it gives the slot back.                         *)
Transition(c, row) ==
    /\ change' = [change EXCEPT ![c] = row]
    /\ slot' = IF row.state = "landing" /\ change[c].state # "landing" THEN c
               ELSE IF row.state # "landing" /\ change[c].state = "landing"
                       /\ slot = c THEN Nobody
               ELSE slot

-----------------------------------------------------------------------------
(* Rounds. *)

Newest(c) == Len(rounds[c])

(* A round that is still open is superseded by the one inserted after it. *)
WithRound(c, round) ==
    Append([i \in 1..Newest(c) |->
               IF i = Newest(c) /\ rounds[c][i].outcome = "open"
                 THEN [rounds[c][i] EXCEPT !.outcome = "superseded"]
                 ELSE rounds[c][i]],
           round)

-----------------------------------------------------------------------------
(* Effects. *)

Live(e) == e.state \in {"pending", "running", "unknown"}

LiveLanding(c) == {i \in 1..Len(effects[c]) : Live(effects[c][i])}
Last(c) == Len(effects[c])

(* A landing effect may be recorded for the round: no row of another       *)
(* identity is live, and a live one of the same identity has the same pin. *)
MayInsert(c, kind, round, pin, base) ==
    \A i \in LiveLanding(c) :
        /\ effects[c][i].kind = kind /\ effects[c][i].round = round
        /\ effects[c][i].pin = pin /\ effects[c][i].base = base

(* Faulty: a live row of that identity is not looked for. *)
WithEffectUnadopted(c, kind, round, pin, base) ==
    [effects EXCEPT ![c] = Append(@,
        [kind |-> kind, round |-> round, pin |-> pin, base |-> base,
         tries |-> 0, due |-> TRUE, state |-> "pending", outcome |-> "none"])]

(* The live row of that identity is adopted; otherwise one is written. *)
WithEffect(c, kind, round, pin, base) ==
    IF LiveLanding(c) # {} THEN effects
    ELSE [effects EXCEPT ![c] = Append(@,
             [kind |-> kind, round |-> round, pin |-> pin, base |-> base,
              tries |-> 0, due |-> TRUE, state |-> "pending",
              outcome |-> "none"])]

(* Faulty: a listed effect is run though it was settled meanwhile. *)
WrittenAnyway(c, i, e) == [effects EXCEPT ![c][i] = e]

(* Every write to an effect but Retry's leaves a settled row as it is. *)
Written(c, i, e) ==
    IF Live(effects[c][i]) THEN [effects EXCEPT ![c][i] = e] ELSE effects

Settled(c, i, state, outcome) ==
    Written(c, i, [effects[c][i] EXCEPT !.state = state, !.outcome = outcome])

Retried(c, i, state) ==
    Written(c, i, [effects[c][i] EXCEPT !.state = state, !.due = FALSE,
                                        !.tries = @ + 1])

WithLandingCancelled(c) ==
    [effects EXCEPT ![c] =
        [i \in DOMAIN effects[c] |->
            IF Live(effects[c][i])
              THEN [effects[c][i] EXCEPT !.state = "cancelled"]
              ELSE effects[c][i]]]

(* Faulty: Stop leaves the pending effects. *)
WithPendingKept(x) == [c \in Change |-> effects[c]]

WithPendingCancelled(x) ==
    [c \in Change |->
        [i \in DOMAIN effects[c] |->
            IF ExecOf[c] = x /\ effects[c][i].state = "pending"
              THEN [effects[c][i] EXCEPT !.state = "cancelled"]
              ELSE effects[c][i]]]

(* Faulty: what ran when the server stopped is taken for done, or is left  *)
(* as it was.                                                              *)
RunningToDone ==
    [c \in Change |->
        [i \in DOMAIN effects[c] |->
            IF effects[c][i].state = "running" /\ effects[c][i].kind = "merge"
              THEN [effects[c][i] EXCEPT !.state = "done", !.outcome = "merged"]
              ELSE effects[c][i]]]

RunningKept == effects

RunningToUnknown ==
    [c \in Change |->
        [i \in DOMAIN effects[c] |->
            IF effects[c][i].state = "running"
              THEN [effects[c][i] EXCEPT !.state = "unknown"]
              ELSE effects[c][i]]]

(* The effects a pass may run, and those it inspects first. *)
EffectIds == UNION {{c} \X (1..Last(c)) : c \in Change}

DueEffects ==
    {p \in EffectIds :
        LET e == effects[p[1]][p[2]] IN
        /\ Runs(p[1]) /\ change[p[1]].state = "landing"
        /\ e.state = "pending" /\ e.due}

DueUnknownEffects ==
    {p \in EffectIds :
        LET e == effects[p[1]][p[2]] IN e.state = "unknown" /\ e.due}
=============================================================================
