---------------------------- MODULE PlanLanding ----------------------------
(***************************************************************************)
(* How an execution's changes land on the base branch, one at a time per   *)
(* team: the executor's passes (executor.ts, executionPlanner.ts), the     *)
(* landing stage (executionLanding.ts), the effects it records, runs,      *)
(* retries and inspects (effects.ts, effectInspectors.ts,                  *)
(* executorOutcomes.ts), and the commands that run beside it               *)
(* (ExecutionService.ts): Stop, Retry, a task closed by hand, a hold.      *)
(*                                                                         *)
(* A pass plans its stages from one reading of the rows and then performs  *)
(* them one after another; every await is a place where a command, GitHub, *)
(* another pusher or the end of the process comes in between, so what lies *)
(* between two awaits is one action.  At most one pass of a team runs.     *)
(*                                                                         *)
(* The model starts where the implementers work: provisioning, dispatch    *)
(* and dependencies are left out.  A round's push, pull request, CI and    *)
(* review are the two stages "push" and "decide".  Left out too: the count *)
(* of fix rounds (a failed round may stop the change or not), acceptance   *)
(* conditions, task revisions, worktree removal and CI after the merge.    *)
(***************************************************************************)
EXTENDS LandingStore

CONSTANTS
    Events,       \* the kinds of events that may come in between
    MaxEvents,    \* how many come, of whatever kinds
    MaxResults,   \* how many results implementers submit
    MaxRetries    \* how often Retry is used

ASSUME LandingAssumption ==
    MaxEvents \in Nat /\ MaxResults \in Nat /\ MaxRetries \in Nat

VARIABLES
    result,   \* each change's newest result, until a round answers it
    held,     \* changes under a hold
    origin,   \* GitHub: base, and per change head, pr and asked
    run,      \* the team's executor
    awake,    \* a wake that no pass has answered yet
    spent     \* events, results and retries so far

store == <<exec, change, rounds, effects, slot, facts, task>>
vars == <<exec, change, rounds, effects, slot, facts, task,
          result, held, origin, run, awake, spent>>

StageName ==
    {"outcome", "result", "push", "decide", "landing", "settle", "fix"}
Pair == Change \X Nat
Origin ==
    [base : Nat, head : [Change -> Commit],
     pr : [Change -> {"open", "merged", "closed"}],
     asked : [Change -> Commit]]   \* the branch update GitHub has accepted
Executor ==
    [at : {"idle", "stages", "head", "base", "write", "fetch", "poll",
           "accept", "inspect", "due", "call", "merge", "view"},
     plan : [Change -> StageName \cup {"none"}],   \* stages still to do
     todo : SUBSET Pair, now : Pair, held : SUBSET Change,
     head : Commit, base : Nat, row : Row, boot : BOOLEAN]

TypeOK ==
    /\ StoreTypeOK
    /\ result \in [Change -> Commit] /\ held \subseteq Change
    /\ origin \in Origin /\ run \in Executor
    /\ awake \in BOOLEAN
    /\ spent \in [{"event", "result", "retry"} -> Nat]

NoRow == [state |-> "implementing", step |-> "none", passed |-> FALSE,
          unknown |-> NoEffect]
Idle ==
    [at |-> "idle", plan |-> [c \in Change |-> "none"], todo |-> {},
     now |-> <<1, NoEffect>>, held |-> {}, head |-> NoCommit, base |-> 0,
     row |-> NoRow, boot |-> FALSE]

Init ==
    /\ StoreInit
    /\ result = [c \in Change |-> NoCommit] /\ held = {}
    /\ origin = [base |-> 1,
                 head |-> [c \in Change |-> [work |-> 0, base |-> 1]],
                 pr |-> [c \in Change |-> "open"],
                 asked |-> [c \in Change |-> NoCommit]]
    /\ run = Idle /\ awake = TRUE
    /\ spent = [k \in {"event", "result", "retry"} |-> 0]

Spend(k, limit) == spent[k] < limit /\ spent' = [spent EXCEPT ![k] = @ + 1]

Event(kind) == kind \in Events /\ Spend("event", MaxEvents)

-----------------------------------------------------------------------------
(* The planner: what a pass owes each change. *)

Settling(c) ==
    change[c].state = "landing" /\ change[c].step \in {"merging", "updating"}

OfNewestRound(c) ==
    Last(c) # NoEffect /\ effects[c][Last(c)].round = Newest(c)

ResumedWait(c) ==
    /\ change[c].state = "gating" /\ change[c].step = "awaiting-slot"
    /\ OfNewestRound(c)

StopVerdict(e) == e.state = "failed" /\ e.outcome = "pr-closed"

(* Faulty: the step has the effect's name. *)
StepMisnamed(kind) == IF kind = "merge" THEN "merging" ELSE kind

StepOf(kind) == IF kind = "merge" THEN "merging" ELSE "updating"

(* A settled landing effect decides the change before anything else does. *)
OwesOutcome(c) ==
    /\ Last(c) # NoEffect
    /\ LET e == effects[c][Last(c)] IN
       IF ~Runs(c)
       THEN /\ change[c].state = "landing" /\ e.kind = "merge"
            /\ e.state \in {"done", "failed"}
       ELSE \/ /\ Settling(c)
               /\ \/ /\ e.state = "done"
                     /\ change[c].step = StepOf(e.kind)
                  \/ StopVerdict(e)
            \/ ResumedWait(c) /\ (e.state = "done" \/ StopVerdict(e))
            \/ /\ change[c].state = "landing"
               /\ change[c].step = "up-to-date"
               /\ OfNewestRound(c) /\ e.state = "done"
               /\ (e.kind = "update-branch" \/ e.outcome = "merged")

(* Faulty: a change that waits for the slot is not looked at again. *)
LeftAloneWaiting(c) ==
    \/ ~Runs(c) \/ Settling(c)
    \/ change[c].state \in {"landed", "stopped", "cancelled"}
    \/ change[c].state = "gating" /\ change[c].step = "awaiting-slot"

LeftAlone(c) ==
    \/ ~Runs(c) \/ Settling(c)
    \/ change[c].state \in {"landed", "stopped", "cancelled"}
    \/ ResumedWait(c) /\ effects[c][Last(c)].state \in {"running", "unknown"}

(* Faulty: an earlier pass is enough. *)
PassedOnce(c) == change[c].passed

Passed(c) == change[c].passed /\ rounds[c][Newest(c)].outcome = "pass"

Owed(c) ==
    IF OwesOutcome(c) THEN IF Runs(c) THEN "outcome" ELSE "settle"
    ELSE IF LeftAlone(c) THEN "none"
    ELSE IF task[c] # "open" THEN "close"
    ELSE IF result[c] # NoCommit /\ change[c].state # "landing"
            /\ ~ResumedWait(c) THEN "result"
    ELSE IF Newest(c) = 0 \/ change[c].state = "implementing" THEN "none"
    ELSE LET round == rounds[c][Newest(c)] IN
         IF Passed(c)
         THEN IF c \notin held \/ change[c].state # "landing" THEN "landing"
              ELSE IF LiveLanding(c) = {} THEN "yield" ELSE "none"
         ELSE IF round.outcome = "fail" THEN "fix"
         ELSE IF round.outcome = "open"
           THEN IF round.pushed THEN "decide" ELSE "push"
         ELSE "none"

(* Faulty: the changes of a stopped execution get no stage. *)
PlannedRunning ==
    [c \in Change |->
        IF Runs(c) /\ Owed(c) \in StageName THEN Owed(c) ELSE "none"]

Planned ==
    [c \in Change |-> IF Owed(c) \in StageName THEN Owed(c) ELSE "none"]

(* A pass starts on a wake, or on the timer of a team that runs something.  *)
(* It applies the planned transitions: a change whose task was closed by    *)
(* hand stops, a held change gives up the slot.                             *)
Plan ==
    /\ run.at = "idle"
    /\ \/ awake
       \/ /\ \E x \in Exec : exec[x] = "running"
          /\ \/ \E c \in Change : Owed(c) # "none"
             \/ DueEffects # {} \/ DueUnknownEffects # {}
    /\ change' = [c \in Change |->
          CASE Owed(c) = "close" -> Stopped(c, NoEffect)
            [] Owed(c) = "yield" ->
                 [change[c] EXCEPT !.state = "gating", !.step = "none"]
            [] OTHER -> change[c]]
    /\ slot' = IF slot # Nobody /\ change'[slot].state # "landing"
                  /\ change[slot].state = "landing"
                 THEN Nobody ELSE slot
    /\ run' = [Idle EXCEPT !.at = "stages", !.held = held, !.plan = Planned]
    /\ awake' = \E c \in Change : Owed(c) # "none"
    /\ UNCHANGED <<exec, rounds, effects, facts, task, result, held, origin,
                   spent>>

(* Running executions come before settling ones, fixes last. *)
Turn(stage) == CASE stage = "fix" -> 3 [] stage = "settle" -> 2 [] OTHER -> 1

Serving(c, stage) ==
    /\ run.at = "stages" /\ run.plan[c] = stage
    /\ \A d \in Change : run.plan[d] # "none" =>
          \/ Turn(stage) < Turn(run.plan[d])
          \/ Turn(stage) = Turn(run.plan[d]) /\ c <= d

NextStage(c) ==
    run' = [Idle EXCEPT !.at = "stages", !.held = run.held,
                        !.plan = [run.plan EXCEPT ![c] = "none"]]

At(place) == run' = [run EXCEPT !.at = place]

Begin(c, place) == run' = [run EXCEPT !.at = place, !.now = <<c, NoEffect>>]

On(c, place) == run.at = place /\ run.now[1] = c

-----------------------------------------------------------------------------
(* Rounds. *)

Works(c) ==
    {origin.head[c].work, result[c].work}
    \cup {rounds[c][i].commit.work : i \in 1..Newest(c)}

(* A new commit has the name that follows all those of its change. *)
NextWork(c) ==
    {w \in {v + 1 : v \in Works(c)} : \A v \in Works(c) : v < w}

(* The implementer submits a result on top of the branch as it is on       *)
(* origin, perhaps with the base merged in.                                *)
Submit(c) ==
    /\ Spend("result", MaxResults)
    /\ Runs(c) /\ task[c] = "open"
    /\ change[c].state \in {"implementing", "gating", "landing"}
    /\ change[c].step \notin {"updating", "merging"}
    /\ result[c] = NoCommit
    /\ \E w \in NextWork(c), b \in {origin.head[c].base, origin.base} :
          result' = [result EXCEPT ![c] = [work |-> w, base |-> b]]
    /\ awake' = TRUE
    /\ UNCHANGED <<store, held, origin, run>>

(* The result becomes a round and the change gates on it. *)
InsertRound(c) ==
    /\ Serving(c, "result")
    /\ rounds' = [rounds EXCEPT ![c] = WithRound(c,
          [commit |-> result[c], pushed |-> FALSE, carried |-> FALSE,
           outcome |-> "open"])]
    /\ result' = [result EXCEPT ![c] = NoCommit]
    /\ IF change[c].state \in {"implementing", "gating", "landing"}
         THEN Transition(c, [change[c] EXCEPT !.state = "gating",
                                              !.step = "none"])
         ELSE UNCHANGED <<change, slot>>
    /\ NextStage(c)
    /\ UNCHANGED <<exec, effects, facts, task, held, origin, awake, spent>>

(* The push and the pull request settle: origin refuses a commit that its  *)
(* branch is not part of, and a closed pull request is not reopened; either *)
(* stops the change.  A merged one is followed by a new one.               *)
Push(c) ==
    /\ Serving(c, "push")
    /\ LET commit == rounds[c][Newest(c)].commit IN
       IF ~Runs(c) THEN UNCHANGED <<store, origin>>
       ELSE IF origin.head[c].work < commit.work /\ origin.pr[c] # "closed"
       THEN /\ origin' = [origin EXCEPT !.head[c] = commit, !.pr[c] = "open"]
            /\ rounds' = [rounds EXCEPT ![c][Newest(c)].pushed = TRUE]
            /\ UNCHANGED <<exec, change, effects, slot, facts, task>>
       ELSE /\ Transition(c, Stopped(c, NoEffect))
            /\ UNCHANGED <<exec, rounds, effects, facts, task, origin>>
    /\ NextStage(c)
    /\ UNCHANGED <<result, held, awake, spent>>

(* CI and the review decide the newest round, or stop its change.  The     *)
(* change is the one read last: it may have been stopped meanwhile.        *)
Decide(c) ==
    /\ Serving(c, "decide")
    /\ \/ /\ rounds' = [rounds EXCEPT ![c][Newest(c)].outcome = "pass"]
          /\ Transition(c, [change[c] EXCEPT !.passed = TRUE, !.step = "none"])
          /\ UNCHANGED spent
       \/ /\ Event("refuse")
          /\ rounds' = [rounds EXCEPT ![c][Newest(c)].outcome = "fail"]
          /\ UNCHANGED <<change, slot>>
       \/ /\ Event("refuse")
          /\ Transition(c, Stopped(c, NoEffect))
          /\ UNCHANGED rounds
    /\ NextStage(c)
    /\ UNCHANGED <<exec, effects, facts, task, result, held, origin, awake>>

(* CI or the review has not answered yet. *)
Undecided(c) ==
    /\ Serving(c, "decide")
    /\ NextStage(c)
    /\ UNCHANGED <<store, result, held, origin, awake, spent>>

(* A failed round sends the change back to its implementer, or stops it.   *)
Fix(c) ==
    /\ Serving(c, "fix")
    /\ IF change[c].state \in {"gating", "landing"}
         THEN \/ Transition(c, [change[c] EXCEPT !.state = "implementing",
                                                 !.step = "none"])
              \/ Transition(c, Stopped(c, NoEffect))
         ELSE UNCHANGED <<change, slot>>
    /\ NextStage(c)
    /\ UNCHANGED <<exec, rounds, effects, facts, task, result, held, origin,
                   awake, spent>>

-----------------------------------------------------------------------------
(* The landing stage. *)

(* A gating change takes the slot, or is marked as waiting for it. *)
EnterLanding(c) ==
    /\ Serving(c, "landing")
    /\ IF c \in run.held \/ change[c].state \notin {"gating", "landing"}
       THEN NextStage(c) /\ UNCHANGED <<change, slot>>
       ELSE IF change[c].state = "landing"
       THEN Begin(c, "head") /\ UNCHANGED <<change, slot>>
       ELSE IF SlotFree
       THEN /\ Transition(c, [change[c] EXCEPT !.state = "landing",
                                               !.step = "up-to-date"])
            /\ Begin(c, "head")
       ELSE /\ Transition(c, [change[c] EXCEPT !.step = "awaiting-slot"])
            /\ NextStage(c)
    /\ UNCHANGED <<exec, rounds, effects, facts, task, result, held, origin,
                   awake, spent>>

ReadHead(c) ==
    /\ On(c, "head")
    /\ run' = [run EXCEPT !.at = "base", !.head = origin.head[c]]
    /\ UNCHANGED <<store, result, held, origin, awake, spent>>

ReadBase ==
    /\ run.at = "base"
    /\ run' = [run EXCEPT !.at = "write", !.base = origin.base]
    /\ UNCHANGED <<store, result, held, origin, awake, spent>>

ReadFails(c) ==
    /\ \E place \in {"head", "base", "write", "poll"} : On(c, place)
    /\ Event("flaky")
    /\ NextStage(c)
    /\ UNCHANGED <<store, result, held, origin, awake>>

(* The base does not merge cleanly: the change leaves the slot and its     *)
(* implementer is asked for an update.                                     *)
PredictConflict(c) ==
    /\ On(c, "write") /\ run.head.base < run.base /\ Event("conflict")
    /\ Transition(c, [change[c] EXCEPT !.state = "gating", !.step = "none",
                                       !.passed = FALSE,
                                       !.unknown = NoEffect])
    /\ NextStage(c)
    /\ UNCHANGED <<exec, rounds, effects, facts, task, result, held, origin,
                   awake>>

(* A branch update is asked for, or the merge once the base is contained,  *)
(* pinned to the head just read.                                           *)
Wanted == IF run.head.base < run.base THEN "update-branch" ELSE "merge"
WantedBase == IF Wanted = "merge" THEN run.base ELSE 0

MayRequest(c) ==
    /\ On(c, "write")
    /\ MayInsert(c, Wanted, Newest(c), run.head, WantedBase)
    /\ ~(Wanted = "merge" /\ change[c].step = "merging")

Requested(c) == WithEffect(c, Wanted, Newest(c), run.head, WantedBase)

RequestEffect(c) ==
    /\ On(c, "write")
    /\ IF MayRequest(c)
         THEN /\ effects' = Requested(c)
              /\ Transition(c, [change[c] EXCEPT !.step = StepOf(Wanted)])
         ELSE UNCHANGED <<effects, change, slot>>
    /\ NextStage(c)
    /\ UNCHANGED <<exec, rounds, facts, task, result, held, origin, awake,
                   spent>>

-----------------------------------------------------------------------------
(* What a settled landing effect means for its change. *)

(* The row a change is left with when its execution has finished: a merge  *)
(* that did not complete leaves it cancelled, and its task with it.        *)
Finished(c, row) ==
    IF ~Runs(c) /\ row.state = "landing"
      THEN [row EXCEPT !.state = "cancelled", !.step = "none"] ELSE row

Concludes(c, row) ==
    /\ Transition(c, Finished(c, row))
    /\ task' = IF Finished(c, row) # row /\ task[c] = "open"
                 THEN [task EXCEPT ![c] = "cancelled"] ELSE task

(* A resumed change that waits for the slot takes it first. *)
Resumed(c) ==
    IF change[c].state = "gating" /\ change[c].step = "awaiting-slot"
      THEN [change[c] EXCEPT !.state = "landing",
                             !.step = StepOf(effects[c][Last(c)].kind)]
      ELSE change[c]

ApplyOutcome(c) ==
    /\ Serving(c, "outcome") \/ Serving(c, "settle")
    /\ LET e == effects[c][Last(c)]
           row == Resumed(c)
       IN  IF row # change[c] /\ ~SlotFree
           THEN NextStage(c) /\ UNCHANGED <<change, slot, task>>
           ELSE IF e.state = "done" /\ row.state = "landing"
           THEN IF e.outcome = "not-merged"
                THEN /\ NextStage(c)
                     /\ Concludes(c, [row EXCEPT !.step = "up-to-date"])
                ELSE /\ Transition(c, row) /\ UNCHANGED task
                     /\ run' = [run EXCEPT !.row = row, !.now = <<c, NoEffect>>,
                           !.at = IF e.kind = "merge" THEN "fetch" ELSE "poll"]
           ELSE IF StopVerdict(e) /\ Runs(c) /\ row.state # "stopped"
           THEN /\ NextStage(c) /\ UNCHANGED task
                /\ Transition(c, [row EXCEPT !.state = "stopped",
                                             !.step = "none",
                                             !.unknown = NoEffect])
           ELSE NextStage(c) /\ Concludes(c, row)
    /\ UNCHANGED <<exec, rounds, effects, facts, result, held, origin, awake,
                   spent>>

(* The landing fact, then the row unless it moved since it was read, and   *)
(* what is left of the change's effects is cancelled.  A fact the plan     *)
(* already has makes the write throw, which ends the pass.                 *)
RecordLanding(c) ==
    /\ On(c, "fetch")
    /\ IF c \in facts
       THEN run' = Idle /\ UNCHANGED <<facts, change, slot, effects>>
       ELSE /\ At("accept") /\ facts' = facts \cup {c}
            /\ effects' = WithLandingCancelled(c)
            /\ IF change[c] = run.row
                 THEN Transition(c, [change[c] EXCEPT !.state = "landed",
                                                      !.step = "none"])
                 ELSE UNCHANGED <<change, slot>>
    /\ UNCHANGED <<exec, rounds, task, result, held, origin, awake, spent>>

(* Then the task is accepted for the round of the merged head, and the     *)
(* last landing completes its execution.                                   *)
AcceptLanded(c) ==
    /\ On(c, "accept")
    /\ task' = IF task[c] = "open"
                  /\ \E i \in 1..Newest(c) : rounds[c][i].commit = origin.head[c]
                 THEN [task EXCEPT ![c] = "done"] ELSE task
    /\ exec' = IF Runs(c) /\ \A d \in Change :
                     ExecOf[d] = ExecOf[c] => change[d].state = "landed"
                 THEN [exec EXCEPT ![ExecOf[c]] = "completed"] ELSE exec
    /\ NextStage(c)
    /\ UNCHANGED <<change, rounds, effects, slot, facts, result, held, origin,
                   awake, spent>>

(* The branch update did not come through clean: the change leaves the     *)
(* slot for an update attempt, or, under a hold, keeps its pass.           *)
FailedUpdate(c) ==
    Concludes(c, [change[c] EXCEPT
        !.state = "gating", !.step = "none",
        !.passed = IF c \in run.held THEN @ ELSE FALSE])

(* The branch's head is the pinned one with a newer base merged in: it has *)
(* the review of the round it was updated for and a round of its own.      *)
CleanUpdate(c) ==
    LET e == effects[c][Last(c)]
        head == origin.head[c]
    IN  e.outcome # "conflict" /\ head.work = e.pin.work
        /\ head.base > e.pin.base

WithCarried(c) ==
    [rounds EXCEPT ![c] = WithRound(c,
        [commit |-> origin.head[c], pushed |-> TRUE, carried |-> TRUE,
         outcome |-> "open"])]

(* A branch update's answer is read again from GitHub until its head moves. *)
PollUpdate(c) ==
    /\ On(c, "poll")
    /\ LET i == Last(c)
           e == effects[c][i]
           stays == /\ UNCHANGED rounds
                    /\ IF task[c] = "open" /\ e.outcome # "conflict"
                            /\ origin.head[c] = e.pin
                         THEN UNCHANGED <<change, slot, task>>
                       ELSE IF task[c] # "open"
                         THEN Concludes(c, Stopped(c, NoEffect))
                       ELSE FailedUpdate(c)
       IN  IF CleanUpdate(c)
           THEN /\ rounds' = WithCarried(c)
                /\ Concludes(c, [change[c] EXCEPT !.step = "up-to-date",
                                                  !.passed = FALSE])
           ELSE stays
    /\ NextStage(c)
    /\ UNCHANGED <<exec, effects, facts, result, held, origin, awake, spent>>

-----------------------------------------------------------------------------
(* The second half of a pass: unknown effects are inspected, then the due  *)
(* ones run, one at a time.                                                *)

Inspect ==
    /\ run.at = "stages" /\ run.plan = Idle.plan
    /\ run' = [run EXCEPT !.at = "inspect", !.todo = DueUnknownEffects]
    /\ UNCHANGED <<store, result, held, origin, awake, spent>>

(* A landing effect that failed for good stops its change. *)
StopsChange(c, named) ==
    IF Runs(c) /\ change[c].state # "stopped"
      THEN Transition(c, Stopped(c, named)) ELSE UNCHANGED <<change, slot>>

(* What GitHub shows decides an unknown effect. *)
InspectAnswers(c, i) ==
    /\ run.at = "inspect" /\ <<c, i>> \in run.todo
    /\ LET e == effects[c][i] IN
       effects' =
         IF e.kind = "merge"
         THEN CASE origin.pr[c] = "merged" -> Settled(c, i, "done", "merged")
                [] origin.pr[c] = "closed" -> Settled(c, i, "failed", "pr-closed")
                [] OTHER -> Written(c, i, [e EXCEPT !.state = "pending"])
         ELSE IF origin.head[c] # e.pin THEN Settled(c, i, "done", "requested")
         ELSE Written(c, i, [e EXCEPT !.state = "pending"])
    /\ run' = [run EXCEPT !.todo = @ \ {<<c, i>>}]
    /\ UNCHANGED <<exec, change, rounds, slot, facts, task, result, held,
                   origin, awake, spent>>

(* An inspection that cannot decide is repeated, and at last stops the     *)
(* change, naming the effect.                                              *)
InspectFails(c, i) ==
    /\ run.at = "inspect" /\ <<c, i>> \in run.todo /\ Event("flaky")
    /\ IF effects[c][i].tries < Tries
         THEN effects' = Retried(c, i, "unknown") /\ UNCHANGED <<change, slot>>
         ELSE /\ effects' = Settled(c, i, "failed", "none")
              /\ IF change[c].state \in {"cancelled", "landed"}
                   THEN UNCHANGED <<change, slot>> ELSE StopsChange(c, i)
    /\ run' = [run EXCEPT !.todo = @ \ {<<c, i>>}]
    /\ UNCHANGED <<exec, rounds, facts, task, result, held, origin, awake>>

(* Startup inspects too, then clears an orphan slot and wakes the team if  *)
(* it runs something.                                                      *)
Inspected ==
    /\ run.at = "inspect" /\ run.todo = {}
    /\ IF run.boot
         THEN /\ run' = Idle
              /\ slot' = IF SlotFree THEN Nobody ELSE slot
              /\ awake' = \E x \in Exec : exec[x] = "running"
         ELSE /\ run' = [run EXCEPT !.at = "due", !.todo = DueEffects]
              /\ UNCHANGED <<slot, awake>>
    /\ UNCHANGED <<exec, change, rounds, effects, facts, task, result, held,
                   origin, spent>>

(* Marked running unless it settled while the ones before it ran. *)
MarkRunning(c, i) ==
    /\ run.at = "due" /\ <<c, i>> \in run.todo
    /\ effects' = Written(c, i, [effects[c][i] EXCEPT !.state = "running"])
    /\ run' = [run EXCEPT !.todo = @ \ {<<c, i>>}, !.now = <<c, i>>,
                          !.at = IF Live(effects[c][i]) THEN "call" ELSE @]
    /\ awake' = (awake \/ Live(effects[c][i]))
    /\ UNCHANGED <<exec, change, rounds, slot, facts, task, result, held,
                   origin, spent>>

RanDue ==
    /\ run.at = "due" /\ run.todo = {} /\ run' = Idle
    /\ UNCHANGED <<store, result, held, origin, awake, spent>>

Calling(place, kind, c, i) ==
    /\ run.at = place /\ run.now = <<c, i>> /\ effects[c][i].kind = kind

(* The call answered: its outcome is committed. *)
Answered(c, i, outcome) ==
    /\ effects' = Settled(c, i, "done", outcome)
    /\ At("due")
    /\ UNCHANGED <<exec, change, rounds, slot, facts, task, result, held,
                   awake>>

(* The base is read again: one that the head lacks, or that is not the one *)
(* the merge was recorded for, sends the change back, and so does git when *)
(* it cannot tell.                                                         *)
ReadMergeBase(c, i) ==
    /\ Calling("call", "merge", c, i)
    /\ LET e == effects[c][i]
           moved == e.pin.base < origin.base \/ e.base # origin.base
       IN  \/ moved /\ Answered(c, i, "not-merged") /\ UNCHANGED spent
           \/ ~moved /\ At("merge")
              /\ UNCHANGED <<store, result, held, awake, spent>>
           \/ Event("flaky") /\ Answered(c, i, "not-merged")
    /\ UNCHANGED origin

(* GitHub merges an open pull request whose head is the pinned one. *)
Mergeable(c, i) ==
    origin.pr[c] = "open" /\ origin.head[c] = effects[c][i].pin

MergePull(c, i) ==
    /\ Calling("merge", "merge", c, i) /\ Mergeable(c, i)
    /\ origin' = [origin EXCEPT !.pr[c] = "merged", !.base = @ + 1]
    /\ At("view")
    /\ UNCHANGED <<store, result, held, awake, spent>>

(* What GitHub shows next may be older than the merge: then it counts as   *)
(* not made.                                                               *)
ViewMerged(c, i) ==
    /\ Calling("view", "merge", c, i)
    /\ \/ Answered(c, i, "merged") /\ UNCHANGED spent
       \/ Event("stale-view") /\ Answered(c, i, "not-merged")
    /\ UNCHANGED origin

(* A branch update is accepted, to be carried out later, or refused. *)
AskUpdate(c, i) ==
    /\ Calling("call", "update-branch", c, i)
    /\ \/ /\ Mergeable(c, i) /\ UNCHANGED spent
          /\ origin' = [origin EXCEPT !.asked[c] = origin.head[c]]
          /\ Answered(c, i, "requested")
       \/ /\ IF Mergeable(c, i) THEN Event("conflict") ELSE UNCHANGED spent
          /\ UNCHANGED origin
          /\ Answered(c, i, "conflict")

(* A call that failed for a passing reason goes back to pending, at most   *)
(* Tries times; an answer may be lost after GitHub did what was asked.     *)
CallFails(c, i) ==
    /\ run.now = <<c, i>>
    /\ \/ run.at \in {"call", "merge"} /\ Event("flaky")
       \/ run.at = "view" /\ Event("lose-answer")
    /\ IF effects[c][i].tries < Tries
         THEN effects' = Retried(c, i, "pending") /\ UNCHANGED <<change, slot>>
         ELSE /\ effects' = Settled(c, i, "failed", "none")
              /\ StopsChange(c, NoEffect)
    /\ At("due")
    /\ UNCHANGED <<exec, rounds, facts, task, result, held, origin, awake>>

(* GitHub refuses a merge for good: the head moved, or there is no open    *)
(* pull request.                                                           *)
MergeRefused(c, i) ==
    /\ Calling("merge", "merge", c, i) /\ ~Mergeable(c, i)
    /\ effects' = Settled(c, i, "failed", "none")
    /\ StopsChange(c, NoEffect)
    /\ At("due")
    /\ UNCHANGED <<exec, rounds, facts, task, result, held, origin, awake,
                   spent>>

BackoffEnds(c, i) ==
    /\ i \in 1..Last(c) /\ Live(effects[c][i]) /\ ~effects[c][i].due
    /\ effects' = [effects EXCEPT ![c][i].due = TRUE]
    /\ UNCHANGED <<exec, change, rounds, slot, facts, task, result, held,
                   origin, run, awake, spent>>

-----------------------------------------------------------------------------
(* GitHub, and others who push to it. *)

(* An accepted branch update is carried out while the head is still the    *)
(* one it was accepted for.                                                *)
GitHubUpdates(c) ==
    /\ origin.asked[c] # NoCommit
    /\ origin' = [origin EXCEPT
          !.asked[c] = NoCommit,
          !.head[c] = IF @ = origin.asked[c] /\ origin.pr[c] = "open"
                        THEN [@ EXCEPT !.base = origin.base] ELSE @]
    /\ UNCHANGED <<store, result, held, run, awake, spent>>

(* The branch and its pull request are there once a round was pushed. *)
OnGitHub(c) ==
    origin.pr[c] = "open" /\ \E i \in 1..Newest(c) : rounds[c][i].pushed

PushByOther(c) ==
    /\ OnGitHub(c) /\ Event("push")
    /\ \E w \in NextWork(c) : origin' = [origin EXCEPT !.head[c].work = w]
    /\ UNCHANGED <<store, result, held, run, awake>>

MergeByOther ==
    /\ Event("base")
    /\ origin' = [origin EXCEPT !.base = @ + 1]
    /\ UNCHANGED <<store, result, held, run, awake>>

ShutPull(c) ==
    /\ OnGitHub(c) /\ Event("shut-pr")
    /\ origin' = [origin EXCEPT !.pr[c] = "closed"]
    /\ UNCHANGED <<store, result, held, run, awake>>

-----------------------------------------------------------------------------
(* Commands, and the end of the process. *)

(* Faulty: a running merge does not keep its change, or a landed change is *)
(* cancelled too.                                                          *)
StoppableMerging(x) ==
    {c \in Change :
        ExecOf[c] = x /\ change[c].state \notin {"landed", "cancelled"}}

StoppableLanded(x) ==
    {c \in Change :
        /\ ExecOf[c] = x /\ change[c].state # "cancelled"
        /\ ~(/\ change[c].state = "landing"
             /\ \E i \in 1..Last(c) : effects[c][i].kind = "merge"
                                      /\ effects[c][i].state = "running")}

(* A change whose merge is running is left to settle; every other that has *)
(* not landed is cancelled with its open task.                             *)
Stoppable(x) ==
    {c \in Change :
        /\ ExecOf[c] = x /\ change[c].state \notin {"landed", "cancelled"}
        /\ ~(/\ change[c].state = "landing"
             /\ \E i \in 1..Last(c) : effects[c][i].kind = "merge"
                                      /\ effects[c][i].state = "running")}

Stop(x) ==
    /\ Event("stop") /\ exec[x] = "running"
    /\ exec' = [exec EXCEPT ![x] = "stopped"]
    /\ effects' = WithPendingCancelled(x)
    /\ change' = [c \in Change |->
          IF c \in Stoppable(x)
            THEN [change[c] EXCEPT !.state = "cancelled", !.step = "none"]
            ELSE change[c]]
    /\ task' = [c \in Change |->
          IF c \in Stoppable(x) /\ task[c] = "open" THEN "cancelled"
          ELSE task[c]]
    /\ slot' = IF slot # Nobody /\ ExecOf[slot] = x THEN Nobody ELSE slot
    /\ awake' = TRUE
    /\ UNCHANGED <<rounds, facts, result, held, origin, run>>

(* Retry of a stopped change.  One that stopped because an effect's        *)
(* outcome is unknown resumes at that effect's step if the slot is free,   *)
(* else waits for the slot, and the effect is inspected again.             *)
Retry(c) ==
    /\ change[c].state = "stopped" /\ task[c] = "open"
    /\ Spend("retry", MaxRetries)
    /\ LET i == change[c].unknown
           row == [change[c] EXCEPT !.unknown = NoEffect]
       IN  IF i = NoEffect
           THEN /\ Transition(c, [row EXCEPT !.state = "gating"])
                /\ UNCHANGED effects
           ELSE /\ Transition(c, IF SlotFree
                     THEN [row EXCEPT !.state = "landing",
                                      !.step = StepOf(effects[c][i].kind)]
                     ELSE [row EXCEPT !.state = "gating",
                                      !.step = "awaiting-slot"])
                /\ effects' = IF effects[c][i].state = "failed"
                     THEN [effects EXCEPT ![c][i].state = "unknown",
                              ![c][i].tries = 0, ![c][i].due = TRUE]
                     ELSE effects
    /\ awake' = TRUE
    /\ UNCHANGED <<exec, rounds, facts, task, result, held, origin, run>>

CloseTask(c) ==
    /\ Event("close") /\ task[c] = "open"
    /\ task' = [task EXCEPT ![c] = "cancelled"]
    /\ awake' = (awake \/ Runs(c))
    /\ UNCHANGED <<exec, change, rounds, effects, slot, facts, result, held,
                   origin, run>>

Hold(c) ==
    /\ Event("hold") /\ c \notin held
    /\ held' = held \cup {c}
    /\ UNCHANGED <<store, result, origin, run, awake>>

Release(c) ==
    /\ c \in held /\ held' = held \ {c} /\ awake' = TRUE
    /\ UNCHANGED <<store, result, origin, run, spent>>

(* The process starts again: the pass is gone, and unknown effects are     *)
(* inspected before anything else.                                         *)
Restarted ==
    /\ run' = [Idle EXCEPT !.at = "inspect", !.boot = TRUE,
                           !.todo = DueUnknownEffects']
    /\ awake' = FALSE

(* The process ends: what ran is unknown.  It may end between a landing    *)
(* fact and its row.                                                       *)
Crash ==
    /\ Event("crash")
    /\ \/ UNCHANGED facts
       \/ run.at = "fetch" /\ facts' = facts \cup {run.now[1]}
    /\ effects' = RunningToUnknown
    /\ Restarted
    /\ UNCHANGED <<exec, change, rounds, slot, task, result, held, origin>>

(* Or it ends between a stage's write to an effect or a round and the one  *)
(* to the change's row: the effect is recorded and the step is not, the    *)
(* round has passed and the change has not, the carried round is there and *)
(* the change still waits for it.  Nothing runs then.                      *)
CrashInStage(c) ==
    /\ Event("crash")
    /\ \/ /\ MayRequest(c)
          /\ effects' = Requested(c) /\ UNCHANGED rounds
       \/ /\ Serving(c, "decide")
          /\ rounds' = [rounds EXCEPT ![c][Newest(c)].outcome = "pass"]
          /\ UNCHANGED effects
       \/ /\ On(c, "poll") /\ CleanUpdate(c)
          /\ rounds' = WithCarried(c) /\ UNCHANGED effects
    /\ Restarted
    /\ UNCHANGED <<exec, change, slot, facts, task, result, held, origin>>

(* Or between an effect that failed for good and the stop of its change.   *)
CrashInFailure(c, i) ==
    /\ Event("crash")
    /\ \/ run.now = <<c, i>> /\ run.at = "merge" /\ ~Mergeable(c, i)
       \/ /\ effects[c][i].tries >= Tries
          /\ \/ run.now = <<c, i>> /\ run.at \in {"call", "merge", "view"}
             \/ run.at = "inspect" /\ <<c, i>> \in run.todo
    /\ effects' = Settled(c, i, "failed", "none")
    /\ Restarted
    /\ UNCHANGED <<exec, change, rounds, slot, facts, task, result, held,
                   origin>>

-----------------------------------------------------------------------------
Stage(c) ==
    \/ InsertRound(c) \/ Push(c) \/ Decide(c) \/ Undecided(c) \/ Fix(c)
    \/ EnterLanding(c) \/ ReadHead(c) \/ PredictConflict(c) \/ RequestEffect(c)
    \/ ApplyOutcome(c) \/ RecordLanding(c) \/ AcceptLanded(c) \/ PollUpdate(c)

Effects(c, i) ==
    \/ InspectAnswers(c, i) \/ MarkRunning(c, i)
    \/ ReadMergeBase(c, i) \/ MergePull(c, i) \/ ViewMerged(c, i)
    \/ MergeRefused(c, i) \/ AskUpdate(c, i)

Failing(c, i) == InspectFails(c, i) \/ CallFails(c, i)

Pass ==
    \/ Plan \/ ReadBase \/ Inspect \/ Inspected \/ RanDue
    \/ \E c \in Change : Stage(c)
    \/ \E c \in Change : \E i \in 1..Last(c) : Effects(c, i)

Outside ==
    \/ MergeByOther \/ Crash
    \/ \E x \in Exec : Stop(x)
    \/ \E c \in Change :
          \/ ReadFails(c) \/ Submit(c) \/ GitHubUpdates(c)
          \/ PushByOther(c) \/ ShutPull(c) \/ Retry(c) \/ CloseTask(c)
          \/ Hold(c) \/ Release(c) \/ CrashInStage(c)
          \/ \E i \in 1..Last(c) :
                Failing(c, i) \/ BackoffEnds(c, i) \/ CrashInFailure(c, i)

Next == Pass \/ Outside

Spec == Init /\ [][Next]_vars

-----------------------------------------------------------------------------
(* Safety. *)

(* Of the changes of all running executions at most one is landing, and it *)
(* is the one the slot names: entering, resuming, yielding, stopping and   *)
(* settling keep row and slot together.                                    *)
SlotIsExclusive ==
    /\ \A c \in Change : Runs(c) => (change[c].state = "landing" <=> slot = c)
    /\ slot # Nobody => Runs(slot)

(* A change never has two landing effects that may still act: a merge is   *)
(* not recorded beside an update, nor a second merge beside the first.     *)
OneLiveEffect == \A c \in Change : Cardinality(LiveLanding(c)) <= 1

(* A landing fact is written only for a merged pull request, whether the   *)
(* merge answered or an inspection found it; and a landed change has its   *)
(* fact.                                                                   *)
FactsAreMerges ==
    \A c \in Change :
        /\ c \in facts => origin.pr[c] = "merged"
        /\ change[c].state = "landed" => c \in facts

(* While a merge may be under way its change is still landing: Stop, a     *)
(* closed task, a hold or a new result do not take it from under the call. *)
MergeKeepsLanding ==
    \A c \in Change : \A i \in 1..Last(c) :
        effects[c][i].kind = "merge" /\ effects[c][i].state = "running"
            => change[c].state = "landing"

(* What has been merged is not reviewed again: a merge never happens while *)
(* the newest round of its change is open, failed or superseded.           *)
MergesPassedRound ==
    [][\A c \in Change :
          origin.pr[c] = "open" /\ origin'.pr[c] = "merged"
              => rounds[c][Newest(c)].outcome = "pass"]_vars

(* A landing effect starts only for the change that holds the slot, in an  *)
(* execution that runs, though a pass lists the due effects before it runs *)
(* them and Stop may come while the ones before it run.                    *)
NothingStartsAfterStop ==
    [][\A c \in Change : \A i \in 1..Last(c) :
          effects[c][i].state # "running" /\ effects'[c][i].state = "running"
              => Runs(c) /\ slot = c /\ change[c].state = "landing"]_vars

(* A settled effect keeps its outcome: one that was listed as due and then *)
(* cancelled by Stop is not run, and only Retry takes a failed one up      *)
(* again, to be inspected first.                                           *)
SettledStays ==
    [][\A c \in Change : \A i \in 1..Last(c) :
          ~Live(effects[c][i]) =>
             \/ effects'[c][i] = effects[c][i]
             \/ effects[c][i].state = "failed"
                /\ effects'[c][i].state = "unknown"]_vars

(* A landed change stays landed, whatever Stop, a late stage of the pass   *)
(* or an inspection then does.                                             *)
LandedIsFinal ==
    [][\A c \in Change :
          change[c].state = "landed" => change'[c].state = "landed"]_vars

-----------------------------------------------------------------------------
(* What the documents say and the code does not do. *)

(* plan-landing: the merge is pinned to the head whose round passed or was *)
(* carried, so that a branch that moved is not merged.                     *)
MergesReviewedHead ==
    \A c \in Change : origin.pr[c] = "merged" =>
        \E i \in 1..Newest(c) : /\ rounds[c][i].outcome = "pass"
                                /\ rounds[c][i].commit = origin.head[c]

(* plan-execution, "Stop during a merge": a completed merge is recorded as *)
(* that change's landing fact.                                             *)
StopKeepsMerges ==
    \A c \in Change :
        change[c].state = "cancelled" /\ origin.pr[c] = "merged" => c \in facts

-----------------------------------------------------------------------------
(* Liveness.  The pass goes on while it has a stage or a call left and is  *)
(* started by its wake or its timer; CI and the review answer in the end;  *)
(* GitHub carries out an update it accepted; a backoff ends.               *)

Fairness ==
    /\ WF_vars(Pass)
    /\ \A c \in Change : SF_vars(Decide(c))
    /\ WF_vars(\E c \in Change :
                  GitHubUpdates(c) \/ \E i \in 1..Last(c) : BackoffEnds(c, i))

FairSpec == Spec /\ Fairness

(* What a crash between two writes may leave of the change in the slot: it *)
(* has its fact, which cannot be written twice, so that every pass fails   *)
(* there; its effect failed and did not stop it, or its round passed and   *)
(* it did not, and it waits for what is over.                              *)
Jammed ==
    /\ slot # Nobody
    /\ \/ slot \in facts
       \/ /\ Settling(slot) /\ Last(slot) # NoEffect
          /\ LET e == effects[slot][Last(slot)] IN
             e.state = "failed" /\ ~StopVerdict(e)
       \/ /\ ~change[slot].passed
          /\ Newest(slot) # 0 /\ rounds[slot][Newest(slot)].outcome = "pass"

(* A change that passed and waits for the slot gets it, or loses its pass. *)
PassedMovesOn ==
    \A c \in Change :
        Runs(c) /\ change[c].state = "gating" /\ change[c].passed
            ~> Jammed \/ ~(change[c].state = "gating" /\ change[c].passed)

(* The change of a merged pull request has given the slot back without a   *)
(* fact, to update a branch that is merged.  Its newest merge answered     *)
(* that nothing was merged, because the view was too old, or because the   *)
(* answer was lost and the repeated call found the base moved by its own   *)
(* merge; or it answered "merged" to a change whose step, lost in a crash, *)
(* does not say that it merges.  openspec/specs/plan-landing/spec.md:167   *)
(* says an unknown outcome is inspected and never repeated blindly; the    *)
(* code inspects only after a restart.                                     *)
Overlooked(c) ==
    /\ origin.pr[c] = "merged" /\ change[c].state # "landing"
    /\ \E i \in 1..Last(c) :
          /\ effects[c][i].kind = "merge"
          /\ \A j \in (i + 1)..Last(c) : effects[c][j].kind # "merge"
          /\ \/ effects[c][i].outcome = "not-merged"
             \/ /\ effects[c][i].outcome = "merged"
                /\ i # Last(c) \/ ~change[c].passed

(* A merge of a running execution becomes a landing fact, whatever answers *)
(* were lost with the process on the way, unless its change or execution   *)
(* is stopped, it is Jammed, or, against the document, Overlooked.         *)
MergedIsRecorded ==
    \A c \in Change :
        Runs(c) /\ origin.pr[c] = "merged"
            ~> \/ c \in facts \/ change[c].state = "stopped" \/ ~Runs(c)
               \/ Jammed /\ slot = c
               \/ Overlooked(c)

(* What Stop leaves to settle is settled by the wake that follows it.  A   *)
(* merge whose call failed for a passing reason is Stranded, it waits for  *)
(* a retry that a stopped execution does not make; and a server that is    *)
(* started again does not wake the team of a stopped execution.            *)
Stranded(c) == Last(c) # NoEffect /\ effects[c][Last(c)].state = "pending"

StopSettles ==
    \A c \in Change :
        ~Runs(c) /\ awake
            ~> change[c].state # "landing" \/ Stranded(c) \/ run.boot
=============================================================================
