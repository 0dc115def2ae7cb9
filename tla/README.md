# A verification development of Kawai's team mail and plan landing

Kawai runs many coding agents (Claude Code, Codex) for one person. Agents that
work on the same repository form a *team*; they and the human write each other
mail, and the server hands that mail to agents as turns. This directory models
the server's team mail in TLA+ - its delivery, and what becomes of work whose
agent hit a provider limit. Teams also carry out *plans*: agents implement the
changes of a plan on branches of their own, and the server lands them on the
base branch one at a time. The landing is the third part modelled here, and the
fourth is how members spawned for a task are released when it closes. The models
are checked with TLC and the main safety properties of all four are proved with
TLAPS.

Source paths below are relative to the repository (`src/server/team/...`).

## 1. The system

| Component | State it keeps | Operations | What makes it correct |
|---|---|---|---|
| **Mail rows** `team/mailboxStore.ts`, `mailboxSql.ts`, `mailboxRetry.ts`, `parkedCancel.ts` | table `team_messages`: state, recipient, claim (`claimed_by`, `claimed_at`), `pushed_at`, priority, `possible_duplicate`, reason, parking columns | conditional updates `UPDATE ... WHERE id AND state IN (...)`: enqueue, claim, hold, push, deliver, requeue, dead-letter, park, forward, cancel, retry, discard | a message has one owner at a time; no transition from a state that forbids it |
| **Dispatcher** `team/dispatcher.ts` | the running pass, idle order, holds, timers (memory) | passes over urgent, direct and group mail; push = start the agent, claim, interrupt, mark, deliver | one recipient; nothing delivered that was cancelled or settled meanwhile; nothing forgotten |
| **Staffing** `team/staffing.ts` | table `team_spawns` | reserve a slot and the message, spawn, release | caps hold, a reservation never outlives its spawn |
| **Receipts and settlement** `team/receipt.ts`, `sessionMailbox.ts`, `chat/driverMailGuard.ts` | transcripts on disk, pending settle retries (memory) | tail of a transcript, settle at a turn's end, startup sweep | absence of a receipt never queues mail an agent may still read; a delivery is backed by a receipt |
| **Context exhaustion** `team/contextExhaustion.ts` | flag on the session | drop the turn's mail, dead-letter what waits | the human sees what was dropped |
| **Limit outcomes** `team/routing/limitOutcomes.ts`, `forwardChain.ts`, `limitResume*.ts`, `limitPolicy.ts` | current work and limit events (memory), parked rows and their resume messages | park, resume, release, forward, hand off, cancel | parked work always has a way back |
| **Senders** `team/TeamMailbox.ts`, `mailboxTools.ts` | none | send, reply, schedule; each checks, awaits, then writes | what was checked still holds at the write |
| **Sessions** `chat/ChatSessionManager.ts`, `ChatSessionDriver.ts`, `chat/codex/` | `chat_sessions`; driver, open turn, cards (memory) | turns, cards, interrupt, archive, restore, kill, spawn | the one turn's bookkeeping matches the agent's |
| **Tasks, assignments, results** `team/taskStore.ts`, `AssignmentService.ts`, `TaskResultService.ts`, `team/verification` | task rows, revisions, results, checks | assign, transfer, journal, close, submit, verify | a result belongs to the revision it was written for |
| **Member release** `team/memberRelease.ts` | table `team_member_releases`, one row per session; retries of late marks (memory) | prepare and commit a close or a reopening, mark late spawns and exhausted members, the release pass of the dispatch cycle, release now | every member of a closed task is marked, no mark outlives its reason, a ready member goes, a closed task's mail starts nothing |
| **Plans: execution** `plans/execution/` | tables `plan_executions`, `plan_execution_changes`, `_rounds`, `_effects`; the running pass, wakes (memory) | passes: plan what each change is owed, perform its stages, inspect unknown effects, run the due ones; commands: Stop, Retry; startup | an effect is settled once; nothing starts in a stopped execution; what ran is settled |
| **Plans: landing** `plans/execution/executionLanding.ts`, `plans/landing/` | `plan_landing_slots`, `plan_change_landings` | take the slot, update the branch, merge, record the landing fact, accept the task | one landing at a time; the slot is given back; a fact is a merge |
| **Plans: revisions, holds, decisions** `plans/revisionControl/`, `decisions/`, `supervision/` | revisions, holds, command log | pause, resume, resolve; commands replayed by key | a replayed command acts once |
| **Terminal sessions** `SessionManager.ts`, `refresh/`, `sessionWake/`, log matching | tmux windows, log files | discover, refresh, hibernate, wake | a log is matched to its window |
| **Database safety** `dbSafety/`, `db.ts` | SQLite file, backups | migrate, verify, back up | a failed migration leaves the old file |
| **Client** `src/client/` | stores, pending sends | render, resend | a send survives a reconnect once |

How they interact for a message: a tool call or the human's form reaches
`TeamMailbox`, which writes a row; the store tells its subscribers and the
dispatcher's `notify` starts a pass; the pass picks a recipient (itself, a
router, or a spawn) and `push` starts the agent, claims the row, marks it
pushed and gives the envelope to the session's driver; the agent writes the
envelope to its transcript, whose tail (`watchSessionTitle`) marks the row
delivered; the turn's end settles whatever claim is left, clears or sets the
context flag and hands the outcome to the limit logic; archive and kill settle
too. After a restart `SessionMailbox.start` reads receipts, drops interrupted
spawns, sweeps mail for killed sessions, and only then releases the dispatcher.

How they interact for a change of a plan: an implementer submits a result, which
wakes the team's executor; a pass (`tickExecutions`) reads the rows, lets the
planner (`planSteps`) say what each change is owed, and performs it stage by
stage: the result becomes a round, the round is pushed, checked and reviewed,
a passed change takes the team's slot, reads the branch and the base from
GitHub and records an effect - update the branch, or merge it. The pass then
inspects effects whose outcome a restart made unknown, and runs the due ones; an
outcome is applied by a later pass. Stop, Retry, holds and tasks closed by hand
are requests of their own that come at any await of the pass.

How they interact for a release: closing a task is prepared (the files of its
groups are read, an await) and committed in one transaction that dead-letters its
waiting group mail and writes a row for each live spawned member; every dispatch
cycle begins with the release pass, which sweeps mail that came late, drops rows
that no longer hold and archives the members that are ready; a spawn that ends
after the close marks its own member. What holds a member - a turn, a background
task, claimed or parked work, direct mail - lies in four other components, and the
end of each asks for a cycle.

What is hard in the mail: everything in memory (passes, pushes, settle retries, open
turns) is lost when the server stops, and agents stop with it; `push` awaits
twice; three different parties settle a claim; the only evidence of delivery is
a file another process writes; the database may be busy. What is hard in
landing: a pass writes rows it read before its awaits; GitHub does what was
asked and the answer is lost, or the server with it; others push to the same
branches; the row, the effect, the slot and the fact of one landing are written
by different transactions. What is hard in release: a close awaits between what it
reads and what it writes, the cycle awaits between its sweep and its routing, and a
member may be spawned, restored, reopened or exhausted at each of these awaits. The
list is in `PROJECT.json` under `hazards`, each at
its line.

## 2. The modules

| Module | What it is |
|---|---|
| `MailStore` | a row of `team_messages` and the store's conditional updates as operators on rows |
| `MailDelivery` | senders, dispatcher, staffing, agents, settlement, sessions, crash and startup; the safety properties |
| `MailPromise` | what the mailbox promises of a message: given to one agent once per request, ended or received for good, received only when read; `MailDelivery` implements it (`KeepsPromise`) |
| `MailProgress` | `MailDelivery` with the calm-down under which progress is promised; the liveness properties |
| `ParkedStore` | rows as limits see them: the conditional updates of parking, resumes, releases, forwards and cancels, and `resolveLimit` |
| `ParkedWork` | limit outcomes of agents' turns, hand-offs, exhaustion, the awaited `onLimit` rule, stops of the server between transactions; their properties |
| `LandingStore` | the rows of plan executions and the conditional writes to them: transitions with the slot, rounds, effects |
| `PlanLanding` | the executor's passes, the landing stage, effects and their inspection, GitHub, Stop, Retry, restarts; safety and liveness properties |
| `MemberRelease` | status changes of a task, the release rows, the dispatch cycle with its sweep and spawns, what holds members, restarts; safety and liveness properties |
| `MCMailDelivery`, `MCMailProgress`, `MCParkedWork`, `MCPlanLanding`, `MCMemberRelease` | constants, symmetry and view for TLC |
| `MailTypes` | proof of type correctness |
| `MailSafety` | proof of the safety properties of delivery |
| `MailSlots` | proofs about spawn reservations and late settles |
| `ParkedSafety` | proofs about parked work: types, `HandedOn`, `ParksAreCapped`, `LinksHold`, `NoStrayResume`, `TurnHoldsItsWork` |
| `LandingTypes` | proof of type correctness of landing |
| `LandingSafety` | proofs of six safety properties of landing |
| `LandingFacts` | proofs that landing facts are merges, and merges of passed rounds |
| `ReleaseSafety` | proofs of type correctness and three properties of release |

`PlanLanding` shares no state with the mail modules: an execution meets the mail
only through the tasks it assigns and the results it gets back. `MemberRelease`
meets the tables of the first two at a coarser grain: a member's mail is one set
per kind that can hold it.

### Correspondence with the code

* The server is one JavaScript process: code between two awaits is one action.
  `flight[m]` records how far the push of `m` has got, one stage per await
  (`prepare`, the interrupt, the spawn); a pass's stale knowledge is that
  `PickDirect` and `PickUrgent` need not find the recipient still able.
  `Clear` is the pass's own discipline: direct pushes one by one, one decision at a
  time per group, groups side by side.
* A crash loses the volatile variables (`draft`, `flight`, `turn`, `card`,
  `pipe`, `chain`). `CrashInPush` also stops between two transactions of one
  synchronous stretch: after the claim, after `markPushed`.
* An agent is external. It takes envelopes from `pipe`, writes transcript rows
  (`Record`) or loses its input with its process. Envelopes and rows carry the
  number of the request (send or human retry) they answer; the code does not
  know it, and a receipt is found by message id (`Heard`), as in `receipt.ts`.
* A transcript that cannot be read is the choice of a smaller set of receipts
  (`Settle`) or of `uncertain` (`Receipts`).
* A settle that fails (`WritesFail`) joins the session's retry chain with the
  claims its snapshot named; the chain is retried or given up
  (`RetrySettle`, `GiveUpSettle`).
* `PushThrows` and `SubmitThrows` are the two halves of `push`'s catch block:
  before and after `pushed_at` is written.
* Claim stamps are unique while anything still refers to them (`NewStamp`); the
  code takes a millisecond clock for that.
* Operators marked *Faulty* are the bugs the properties are tested against; no
  action uses them. Each property is shown to fail with one of them in place of
  the code's.

Left out of the model: the routers' choice among members, worktrees and
cooldowns (a pick is any member the code could name); scheduled mail (a message
that is not due is one not yet sent); mail to the human (delivered on insert);
`revision`, `task` and `thread` columns; mail parked for a limit, which is
`ParkedWork`.

### Correspondence: parked work

* `ParkedWork` meets the same table at a coarser grain: a claim opens the turn
  (`Deliver`), its receipt comes some time (`Receipt`), a turn's end leaves a claim
  delivered or uncertain (`Settled`). How a claim gets there is `MailDelivery`'s.
* `turn[s]` is `LimitOutcomes.active` with the kind of turn (`agentTurns`),
  `last[s]` is `lastWork`. Both live in memory.
* An ending of a turn (`EndTurn`) is one action when no rule is asked, as
  `turnEnded` runs without an await then. With a rule it ends in a question in
  `asked`, which holds what `resolve` read before its await; `RuleAnswers` goes on
  with it on whatever the table is by then.
* The rule's answer, the group's policy, progress and the distance of the reset
  are free: `Resolutions` is the set of what `resolveLimit` may return, which
  depends on the park count and on credit only.
* An outcome is a record: the table it leaves (`end`) and the tables between its
  transactions (`torn`), in which `CrashIn...` stops the server.
* Parked work links its resume (`link`), a resume names its work (`resumes`; in
  the code, its body and tag), forwarded work names its copy (`next`; in the code,
  its reason).
* A resume waits for the reset; the model delivers it any time later.
* Sessions stand for profiles too: a copy is kept from the session it comes from
  (`without`), in the code from its profile.
* `NextResume` lends the id of a resume that is over and unreferenced to a new
  one, so that parking can go on for ever in a finite instance; the view
  `SameRows` shows such rows as absent, and `Symmetries` permutes only ids and
  sessions that start alike.

Left out: which of several held rows is the newest, digests, claim commits,
recovery notes, cooldowns, archived recipients, and limit-resumes of human-created
sessions.

### Correspondence: landing

* A pass of a team runs alone (`executor.ts run`). `run.at` says which await it is
  at: `stages` between two stages, `head`, `base`, `write` inside the landing stage,
  `fetch`, `accept` while a landing is recorded, `poll` for a branch update,
  `inspect`, `due`, `call`, `merge`, `view` in the second half. What lies between
  two awaits is one action.
* `run.plan[c]` is the step `planSteps` found for the change, from the rows as they
  were then. A stage reads the rows again, as the code does (`freshChange`), so
  what is stale is the choice of the stage, `run.head`, `run.base` and the row kept
  while a merge is fetched (`run.row`). `Turn` is the order of the loops of
  `tickExecutions`: executions that run, executions that settle, fixes.
* A write the code guards by a row's generation is guarded here by the whole row:
  no row comes back to a value somebody still holds.
* A commit is `[work, base]`: which work of the change it holds and which version
  of the base branch it contains. The base only grows, so "is an ancestor" is
  a comparison.
* An effect carries what its identity is made of (kind, round, head, base), its
  tries and whether its backoff has ended (`due`).
* A round's push and pull request are the stage `push`, its CI and review the stage
  `decide`, whose answer is free. Whether a failed round stops the change or sends
  it back to its implementer (the count of fix rounds) is free too.
* Events - what a human, GitHub, another pusher or the end of the process does -
  come at any moment; `Events` names the kinds an instance has and `MaxEvents` how many
  come in all. `lose-answer` is a merge whose view failed after the merge was made
  (`executionLanding.ts:295`), `stale-view` one whose view does not show it yet (:296);
  `flaky` is a read, an ancestry check or a call that does not answer. A call that
  times out before the merge and merges after it was given up is not modelled (a
  hazard without a property).
* A merge call that answers `merged: false` has the outcome `not-merged`: the base
  moved, git could not tell, or the view was stale.
* `Crash` forgets the pass and marks what ran as unknown, as startup does
  (`executorStartup.ts`), which inspects, clears an orphan slot, and wakes the
  team if it runs something. `CrashInStage` and `CrashInFailure` stop the server
  between two writes that no await parts: a landing effect and its change's step
  (`executionLanding.ts:155` and 166, 183 and 192), a round's pass and the
  change's (`executionRounds.ts:426`), a carried round and its change's step
  (`executionLanding.ts:366`), a failed effect and the stop of its change
  (`effects.ts:103`). `Crash` itself may also come between a landing's fact and its
  row. Any other two writes between which no await lies are one step here.
* `AcceptLanded` is the acceptance and the completion that follow a landing's
  transaction.

Left out: provisioning, worktrees, the dispatch of attempts, dependencies among
changes, acceptance conditions, task revisions, integration branches and their
promotions, CI after a merge, the bound of ten passes per wake (a pass that
still owes something wakes itself again here).

### Correspondence: member release

* A status change that crosses the boundary between open and closed is prepared
  (`Prepare`) and committed later (`CommitClose`, `CommitReopen`, `CommitStale`). `prep`
  holds the prepared ones; equal changes of two callers are one element, so the
  commit may leave it there (`Taken`). `known` is whether the close's await read the
  group's file; without it the group's mail waits for the next cycle.
* `stage` is where the dispatch cycle has got: `loading` while `beginCycle` reads the
  files, `swept` after the release pass (`Evaluate`) while urgent mail is pushed,
  `routing` once group mail is listed. `cached` is the opt-out as the files said
  when they were read. A wake during a cycle is kept in `wake`, as
  `MailDispatcher.requested` is.
* `row[m]` is the reason in the session's single row of `team_member_releases`: a later
  mark replaces an earlier one.
* `late[m]` is the number of the late mark's next retry, 0 without one.
* `turn`, `tasks`, `claims`, `parked` and `direct` are what `readiness` asks about; a
  card and a live worker hold the turn. `Slow` names the members that the last
  three kinds of holder may hold.
* A spawn (`Reserve`) is asked for, creates the member and marks it in the same tick
  (`SpawnCreates`), and returns (`SpawnReturns`) or fails. `RestartInSpawn` stops the
  server between the record and the mark.
* `PauseRestart` and the exhaustion of a turn (`TurnExhausts`) write rows too;
  `Archive` stands for the human's archive and for every release that asks
  readiness first, since the human's may come at any moment.
* `excused`, `restored` and `slipped` are history: they name the members and the mail
  about which a property says less, and no action reads them.

Left out: journals, who closed a task and who asked for a release, groups that are
not worktree-scoped, more than one team or group, edits of the group's file while
the system runs, the permission checks of `release_member`.

## 3. The runs

| Run | Instance | Shows |
|---|---|---|
| `one` | 1 message, 2 sessions (one must be spawned), 1 group, 2 requests, 1 crash | every safety property of delivery, and `MailPromise` implemented |
| `pair` | 2 messages, 1 session, failing settles, no crash | late settles and interleaved pushes: newer turns are spared |
| `progress_single` | 1 message, 2 sessions, 1 spawn, 1 crash | waiting mail is taken, claims are settled |
| `stale_push`, `killed_recipient` | as `one` | findings, section 5 |
| `parked_team` | 1 message, 1 copy, 2 sessions in one group, `MaxParks` 1, no rule, 1 act of a human or manager | links, strays, the park limit, turns keep their work |
| `parked_wake` | 1 session, with and without a rule, 1 stop, 1 act of a human or manager | forwarded work has its copy after a stop between any two transactions; parked work is woken |
| `release_team` | 1 task, 1 member, 1 note, 1 retry of a late mark; changes of status, restarts and spawns without bound | members of a closed task are marked, marks are current, closed mail starts nothing, a ready member is released |
| `landing_pair` | 2 changes of one execution, eight kinds of events, any 3 of them, 2 results, 1 retry | the safety of landing: slot, effects, facts and merges stay in step |
| `landing_live` | 2 changes, seven kinds of events, lost answers and stale views among them, any 2 of them, one retry of a failed call | a passed change gets the slot, a merge becomes a fact, what Stop leaves settles |
| `landing_unreviewed`, `landing_stopped` | 1 change, 1 event | findings, section 5 |

Bounds. One message reaches every stage of a push and every way out of it; two
requests are enough for "delivered twice" to differ from "asked twice", and for
a retry to meet what an earlier delivery left in the row. A second message is
needed only where turns of different mail compete for a session (`pair`). One crash suffices for safety: after `Start` the volatile
state is as at first, so a second crash meets no new recovery state but what
the retry produces. `MaxAsk` bounds sends and retries, `MaxCrash` crashes,
`Stamp` the claims a chain may still remember. The constants are symmetric in
messages (`pair`).

For parked work: two resumes, as a new one is made while the old one's turn may
still run; one copy, so that work moves to the other session (or comes back) and
is parked there; `MaxParks` 1 reaches the limit with one park and is enough for
its boundary. `MaxManaged` bounds cancels, discards, retries, hand-offs and kills,
`MaxCrash` stops, `MaxAsked` questions to the rule that wait at one time.

For release: every variable ranges over a finite set as it is, so nothing but the
number of members, notes and late retries is bounded: closes, reopenings, restores
and restarts come any number of times. One member is enough for the marks, which
no step of another member reads or writes but through its task; with one note a
spawn races a close, a retry of the dead letter races the next cycle, and mail of
the member races its release. One late retry reaches "scheduled", "retried" and
"given up"; the code's 3 repeat the middle.

For landing: a second change is needed for the slot to be contended, for a stage
planned before another stage's await, and for an effect listed behind a running
one; a third would only wait. Two results let a change fail, or come back after a
retry, and land again while the other waits. Three events are the longest chain
known to matter (a failed read or a crash, a stop, a retry); they are drawn from
eight kinds, so each trio of these is explored at every await. With `Tries` 0
(`landing_pair`) the first failure is final and reaches the effect-unknown stop
within the bound; with `Tries` 1 (`landing_live`) it is repeated first; the code's 3
repeats the same two cases. Base and conflict events, lost answers and stale views
are in `landing_live` only. By hand, outside the suite, the inductive invariants of
section 4, which imply the safety invariants, and the action properties were
checked with all twelve kinds of events: one change and three events (893
thousand states), two changes of one execution and two events (630 thousand), and
of two executions (658 thousand), all complete. The theorems do not depend on the
set of events.

`CHECK_DEADLOCK FALSE`: with its sends, retries and crashes, or its events and
results, used up an instance may stop with all mail settled and all changes
landed, stopped or cancelled.

### Properties

* `NoSilentDuplicate`: while the dispatcher may still hand a message over, no
  agent has or will read a copy of it for the same request.
* `OneRecipient`, `CancelledNeverDelivered`, `DeliveredHasReceipt`,
  `DuplicatesAreFlagged`: what a user relies on.
* `ClaimsAreHonest`: what a claim's columns say about copies; the heart of the
  inductive invariant.
* `KeepsPromise`: delivery implements `MailPromise`. Where the invariants say what
  a state may look like, this says what a step may do: mail of a closed task is
  not revived by the spawn that was made for it, received mail is not queued
  again, a copy lost with its agent's input does not make mail waiting unless no
  agent holds it.
* `LateSettleSparesTurns`: a retried settle never gives up on a running turn's
  mail (for mail that is not urgent; the rest is a finding).
* `SpawnKeepsItsSlot`: reservation, reserved row and running spawn agree.
* `WaitingMailIsTaken`, `ClaimsAreSettled`: progress.
* `LinksHold`: parked work links its own live resume; what a rule awaited
  too long, or a stop, loosens is in the property (its run has no stops).
* `NoStrayResume`: no resume waits for work that moved on.
* `ParksAreCapped`: the two callers that count parks keep the limit together.
* `TurnHoldsItsWork`: work is not taken from under its running turn.
* `HandedOn`: work marked as forwarded has its copy, after any stop.
* `ParkedIsWoken`: a resume does not wait for ever.
* `ClosedMembersAreMarked`: no member of a closed task is forgotten, whatever spawn,
  second caller, reopening or restart came between the close's parts.
* `CloseMarksAreCurrent`: no mark outlives what it was made for: a member is not
  archived for a close that was undone, nor after the human restored it.
* `OnlyMidCycleMailEscapes`: mail of a closed task starts no turn and no spawn,
  unless it came after the sweep of the cycle that routes it, or its task closed
  after that sweep without knowing the group (section 5).
* `ReadyIsReleased`: the end of whatever held a marked member asks for the cycle
  that releases it.
* `SlotIsExclusive`: one landing at a time, row and slot in step, through every way
  into and out of landing (enter, resume by Retry or by an outcome, yield, stop,
  settle, restart).
* `OneLiveEffect`: never a merge beside an update, or beside another merge.
* `FactsAreMerges`: a landing fact stands for a merged pull request, whether the
  merge answered or an inspection after a restart found it.
* `MergeKeepsLanding`: no command takes a change from under its running merge.
* `MergesPassedRound`: nothing merges while the newest round is open or failed. (It
  says nothing of the commit that is merged: finding 3.)
* `NothingStartsAfterStop`: the list of due effects is older than what runs.
* `SettledStays`: an effect that was listed as due and settled or cancelled since is
  not run, and nothing but Retry takes a failed one up again.
* `LandedIsFinal`: neither Stop nor a late stage undoes a landing.
* `PassedMovesOn`, `MergedIsRecorded`, `StopSettles`: progress, with the states the
  code does not get out of named in the formulas (`Jammed`, `Stranded`,
  `Overlooked`, section 5). Without `Overlooked`, `MergedIsRecorded` is false of the
  code: what remains is that a merge whose call answers or that a restart finds is
  recorded, and that an unrecorded one is one of the cases named.

### Fairness

With humans, crashes and failing agents free to intervene for ever nothing need
arrive, so `MailProgress` promises progress once they stop (`calm`), whatever
state they left behind. From then on only the server's own steps happen, and
`CalmStep` is weakly fair: the store's subscription, turn ends and answered
cards call `notify`; `notify` repeats the pass while it was requested during the
last one; the retry timer of a settle and the transcript tail run by
themselves; a turn comes to its end, an open card is answered, a stopped server
is started. Nothing in `CalmStep` is more than the code does unasked. One thing
stays out: the Stop button can withdraw a prompt unread and settles nothing, so
such a claim waits for the next settle of its session (`Withdrawn`).

`ParkedWork`'s `FairSpec` asks less of the surroundings. Weak fairness of
`EndTurn`: a turn comes to its end (a hung agent is interrupted by the human).
Strong fairness of delivering a waiting resume to an idle agent: every end of a
turn calls `notify` and the dispatcher's timer is armed for due mail; a resume
goes before the agent's other direct mail, so other turns may come first only
now and then. Humans, managers and agents may otherwise do as they like.

`MemberRelease`'s `FairSpec`: weak fairness of the cycle's steps, which the event loop
goes on with once asked (`BeginCycle` needs a wake, so nothing wakes it unasked), and
of the end of each spawn, which resolves or rejects. Turns, tasks, humans and
mail are not fair: the property is about a member that nothing holds any more. It
is stated for a server that in the end stays up (`<>[][~Stopped]_vars`), since one
restarted for ever may never come to its release pass.

`PlanLanding`'s `FairSpec`: weak fairness of `Pass`, since a pass that began goes on
while the server runs, and one begins on the wake that every command, result and
settled effect leaves, or on the timer `scheduleTimer` arms while an execution runs
and something is owed or due (its guard, in `Plan`); strong fairness of `Decide`, CI
and reviewers answer in the end, though a pass may look often before they do;
weak fairness of GitHub carrying out an update it accepted and of a backoff's end.
Events are not fair: none need come.

## 4. The proofs

`MailTypes` proves `Spec => []TypeOK`, `MailSafety` proves
`[]NoSilentDuplicate`, `[]OneRecipient`, `[]CancelledNeverDelivered`,
`[]DeliveredHasReceipt`, `[]ClaimsAreHonest`, `[]DuplicatesAreFlagged` and
`KeepsPromise`, for every set of sessions, groups, messages and stamps and every
bound, from `StampAssumption`,
`NamesAssumption` and `DeliveryAssumption` only.

*Types.* `TypeOK` alone is not inductive: a push delivers `<<m, asked[m]>>`,
which is a request only if the message was asked for, and to a session only
because of the stage of its flight. `Grounded` says so, and `Typed` is both.

*Safety.* `Inductive` is `Typed` with the safety properties, `Receipted`
(a delivered row has a claimant, who has the receipt) and `PipesDieWithServer`
(no input survives a stop, so startup receipts are final). The argument: the
only steps that create a copy are the pushes, and they own a claim no one has a
copy of; the only steps that make mail deliverable again give back a claim that
was never pushed (honest: no copy), or one whose claimant's transcript was read
clean at a start (all copies are the claimant's, and none is on its way).
Everything else leaves rows *quiet* - `Quiet(m, n)`: the row `n` may follow
without handing anything over - and `QuietStep` proves such steps safe once for
all. `LEMMA`s per statement (`RowKeeps`, `RowEffects`, `QuietRows`), per group
of actions (`SendingSafe` ... `WorldSafe`), then `SafeStep`.

*Refinement.* `StatusOf` reads a row as the promise's status; the request in
force, the inputs and the transcripts are the promise's own. A claim not yet
given to its agent is still waiting there, whether its row says claimed, held or
reserved, so a claim, its release, a reservation and its end are stutters, and
the step from waiting to given is the push's one hand-over. Every step lemma
concludes `Kept`: the safety properties afterwards, and `Promised`, an `Ask`, a
`Give` or `Moves` of the promise. A quiet row is one the promise allows
(`QuietMoves`): `Onward`, a part of `Quiet`, says that ended, received and
uncertain rows only go on in the directions the promise knows, and the safety
properties give it the rest (no copy of what waits again, a receipt of what is
received, an input copy in one place: `InputsMove`). `PromiseStep` adds the
types, `DeliveryKeepsPromise` is the theorem.

*Duplicates.* `DuplicatesAreFlagged` counts the copies of a message when it is too
late to tell it: the flag is set, or the turn dropped, when the message is asked for
again. `Announced` says what holds before: a copy of an older request, or of a request
whose row is dead, is announced already. The second part is the one that matters, for a
retried dead letter gets no flag. It holds because a letter dies unread - it waited, so
`NoSilentDuplicate` speaks of it; or its claim was not pushed, or a start found its
claimant's transcript clean (`ReceiptsTell`) - or its turn is dropped, or the human
retried it, uncertain, for a recipient gone since, and that retry sets the flag. `Fares`
says this of one row, `Lives` of the statements that bury nothing; only a submission
makes a copy, of the current request (`SubmitAnnounced`). TLC checked `Announced` before
the proof on the constants of `one` and with three requests of the message.

`MailSlots` proves `[]SpawnKeepsItsSlot` and `[]LateSettleSparesTurns`, from the same
assumptions and `[]Typed`.

*Slots and late settles.* A reservation could lose its spawn if a later pass took off
with the same message; `Clear` forbids it only while the lane of the flight is still
the group the row is addressed to. `Slotted` adds that, with the fact that a server
that is down has no flights. A late settle spares a turn because a snapshot names a
claim by its stamp and a new claim has a new one: `Spared` says that the claim a turn
works on is in no snapshot waiting to be retried, except when the mail is urgent, whose
claim is older than its turn (`Interrupting`: only urgent mail comes to the awaited
interrupt). Rows are again the unit: `Calm`, `Still` and `Ends` say what a statement
may do to the state, recipient, owner and reason of a row.

`ParkedSafety` proves `[]TypeOK`, `[]HandedOn`, `[]ParksAreCapped`, `[]LinksHold`,
`[]NoStrayResume` and `[]TurnHoldsItsWork` of `ParkedWork`, from
`ParkedAssumption` and `WorkAssumption`, for every set of
sessions and ids, every `MaxParks` above 0 and every bound. (`ParkedAssumption` also
says that the ids of resumes are not those of other mail; ids of the code are UUIDs.)

*Parked work.* The properties are about tables, and an outcome goes through
several of them before the server can be sure of any, so the proof is about
tables too. `Good(M, c)`: a typed table whose forwarded work has its copy, with
capped parks if `c`. Most changes leave each row `Kept` (not lost, not newly
forwarded, parked no more often), which `KeepsGood` shows to be enough;
inserting, parking and forwarding have lemmas of their own. `Sound(o, c)` says
the table an outcome leaves is good *and* so is each one between its
transactions, which is what `RestartStep` needs for a stop anywhere. The
invariant is `Good(mail, ~ruled)` with the types of the rest and one fact about
asking: only a group with a rule leaves questions open. Without that a question
might hold an old count in a group without a rule, and parking on its answer
could pass the limit - as it does where there is a rule (section 5).

*Links.* The other three properties say how a parked row, its resume and a turn
hang together, and hold only jointly (`LInv`). `Tied(M, c, X, Y)` is again about one
table: only parked work has a link, all of it but the works in `X`; a link leads to a
resume of that very work, which goes to one agent, is that agent's once taken, and
is never itself parked, handed on or cancelled (`Serves`; to the agent the work is
parked on if `c`, where no rule is asked); and every resume nobody has taken is
linked, but those in `Y`. `X` and `Y` are empty until the server stops. Tables
between two transactions are tied with everything excepted, which is what a restart
on one of them needs. Two facts are missing to make this inductive. An outcome may
park, release or forward only work that is nobody's resume: `Fresh` says that what a
turn, a session's last work or an open question names is not linked. And the
outcome of one agent must not reach the turn of another: `Owns` says that a turn's
row is in its agent's name and, if parked, has its resume running, which is why
`ParkedCancel` refuses to cancel it. `Orderly` says of an outcome that it keeps its
tables tied, links only a new resume, parks no linked one and `Spares` the work of
others; parking, releasing, forwarding and unparking each have a lemma, and so does
each step. TLC checked `LInv` first: two sessions without a stop (748 thousand
states, complete), and with stops and with a rule up to five million states.

`LandingTypes` and `LandingSafety` prove `[]TypeOK`, `[]SlotIsExclusive`,
`[]OneLiveEffect`, `[]MergeKeepsLanding`, `NothingStartsAfterStop`, `SettledStays` and
`LandedIsFinal` of `PlanLanding`, for every number of changes, every assignment of
changes to executions, every bound and every set of events, from
`StoreAssumption` and `LandingAssumption`.

*Landing.* None of the properties is inductive, because a stage or a call acts on
what was true some awaits ago. `IInv` says what it may still rely on. `Staged`: who
has a stage left, and that the one under way is of the kind its place says.
`Finishing`: what Stop leaves of a change that has a stage - it landed, was
cancelled, or is the merge that settles - so that a late stage finds a row it
cannot hurt; and a landed change has no stage but its acceptance. `Acting`: a
running effect is the executor's call, at most one effect of a change may act,
none of a change that names an effect (so Retry may take it up). `Listed`: every
effect listed to be run is cancelled or still pending with its change landing in
a running execution, and not of the change whose call is under way. The steps fall
into few shapes, each with a lemma: a stage that ends (`StageEnds`) or goes on
(`StageGoesOn`), a pass that goes on (`PassGoesOn`), an effect that is written and
leaves its change's row or stops it (`EffectEnds`), a step beside the pass
(`BesideSafe`); recording a landing, planning, marking running, Stop and Retry have
proofs of their own, and what a stop of the server between two writes leaves is
`RestartSafe`. `Typed` adds to `TypeOK` that a change with a stage `push` or
`decide` has a round. The action properties follow from the invariant and
`EffectsMove`, what a step may do to the effects that are there.

`LandingFacts` proves `[]FactsAreMerges` and `MergesPassedRound`, from the same
assumptions, with `IInv` and one more invariant per change.

*Merges and facts.* Both properties speak of GitHub, which the server asks at one
await and believes at another, so `Sound` says what each change's last landing effect
may rely on until then (only the last can act or be taken up by Retry, `Lasting`).
Before the merge: an effect that may still act (`Acts`) is `Pinned`. It is `Fit` - for
the newest round, which passed, with its change landing, back in the queue or stopped
for it, and its pin no newer than the branch's base - or `Sunk` - the base has moved
past its pin, so the call will find that out and not merge - or `Out`, its execution
ended or its task closed. A landing stage that foresees a conflict takes a change
back although a merge of it waits; it does so only when the base it read is ahead of
the head it read, so that merge is `Sunk`, for which `Reading` carries the comparison
through the awaits of the stage. After the merge:
`MergeStands` says that a merge done as merged has a merged pull request and is
`Standing`, unless the change went on to another round before its outcome was looked at
(`Overtaken`), from where no fact can come any more; without that case the
invariant is false, as TLC shows. `FactStands` keeps what a fact rests on, `Called` and
`Planning` what the stage or call under way has read, `Based` orders commits by the
base. Steps that leave a change's rows alone are settled once (`KeptSound`, under it
`KeptIsSame`), and so are idle stages and effects that move on; each action then has
a lemma about the one change it writes. A stage's lemmas (`StageSound`,
`RequestedSound`, `DecidedSound`, `PolledSound`) hold whether the pass goes on or the
server starts again, so that the stop between two writes is the same lemma with the
row left as it was. `MergesPassedRound` follows from `Called` and
`Reviewed`, because only `MergePull` merges an open pull request (`OnlyMergePull`).
TLC checked the invariant before the proof, on the instances section 3 names.

`ReleaseSafety` proves `[]TypeOK`, `[]ClosedMembersAreMarked`,
`[]CloseMarksAreCurrent` and `OnlyMidCycleMailEscapes` of `MemberRelease`, for every
set of members, tasks and notes, every assignment of members and notes to tasks,
and every number of retries, from `ReleaseAssumption`.

*Release.* `CloseMarksAreCurrent` is not inductive: a retry of a late mark could
write a row its member should not have. `Marks` adds what the code's cancels
secure, that no member whose retry is scheduled was restored since (`MarkOK`), and
the two properties are proved together, since the retry is one
of the two ways in which a member counts as marked. Steps that write no row are
`MarksKept`; the close, the reopening, withdrawals, the release pass and late marks
each have a lemma. For the escaping mail the invariant is `Swept`: once a cycle has
swept, waiting mail of a closed task is in `slipped`, and spawns are awaited only
while the cycle routes; the action property follows step by step (`EscapeStep`).

*Model-checked only:* the liveness properties (fairness is beyond the prover).

## 5. Where code and documents disagree

1. *A retried dead letter remembers its push* (`stale_push`).
   `mailboxRetry.ts:38` does not clear `pushed_at`; after a crash before the
   second push the startup sweep believes it and holds (or confirms) mail that
   was never pushed again. `openspec/specs/agent-mailbox/spec.md:195` and
   `docs/recovery-matrix.md:47` promise it is queued.
2. *Mail for a session killed during the send* (`killed_recipient`).
   `TeamMailbox.prepareSend` checks, awaits, and inserts without looking again.
   The row waits for a restart; `docs/architecture/mailbox.md:8` promises a dead
   letter.
3. *A merge of a head nobody reviewed* (`landing_unreviewed`).
   `executionLanding.ts:186` pins the merge to the head it reads from origin, and
   nothing compares it with the round that passed: what somebody pushed after the
   round's push is merged, against `openspec/specs/plan-landing/spec.md:112`.
4. *Stop between a merge and its fact* (`landing_stopped`). `stoppable` spares a
   change whose merge effect is running. Between the answer and the next pass the
   effect is done and the change still landing: Stop cancels it, and the merged
   pull request never becomes a fact, against
   `openspec/specs/plan-execution/spec.md:327`.

Met while modelling, and kept as hazards whose properties name the exception:

* An urgent claim may be settled by a stale snapshot: id, claimant and time do not
  change when the awaited interrupt ends and the claim is pushed, so a retried
  settle holds a running turn's mail uncertain, which
  `ChatSessionManager.ts:3475` says it must not. (`LateSettleSparesTurns` leaves
  urgent mail out.)
* A park is counted from before the rule: `resolve` uses the count it read before
  awaiting `onLimit`, so work can exceed `MAX_PARKS`, against
  `openspec/specs/profile-limit-handling/spec.md:85`; the same await lets a park hit
  an agent that was killed or no longer holds the work. (`ParksAreCapped` and
  `LinksHold` say less of a ruled group.)
* A resume turn that fails without a limit, or is stopped, leaves work parked with
  a delivered resume, which `openspec/specs/team-mailbox-management/spec.md:72` takes
  for a running turn: cancelling is refused, nothing wakes the agent.
* A server that stops between a landing's fact and its row jams the team: the
  fact cannot be written twice, and every later pass ends there. One that stops
  between an effect that failed for good and the stop of its change
  (`effects.ts:103`), or between a round's pass and the change's
  (`executionRounds.ts:426`), leaves the change waiting for what is over: no stage
  is planned for it, and it keeps the slot if it has it. (`Jammed` names these; no
  document speaks of them.)
* A stop between a landing effect and its change's step is healed where the step
  says `up-to-date`, as the comment in `executionPlanner.ts` on a verdict that settled
  behind the step expects. A change whose carried round passed has no step
  (`executionRounds.ts:429` clears it), so there it is not: if the next landing stage
  does not get to its write, the recorded merge runs and its outcome is not looked
  at; the stage then finds the base ahead and asks for an update of a merged branch.
  (`Overlooked`.)
* One that stops between the last landing's row and the completion leaves an
  execution running whose changes have all landed.
* A merge whose answer was lost is repeated without an inspection. When the view
  after the merge fails for a passing reason (`executionLanding.ts:295`), `runOne`
  puts the effect back to pending (`effects.ts:96`) and calls again. The second call
  reads the base, which its own merge has moved, answers `merged: false` with
  `baseMoved` (:278), and the change goes back to `up-to-date` and asks for a branch
  update; GitHub refuses one of a merged pull request with 422 (:240), and
  `failedUpdate` takes the change to gating for another attempt. It keeps running, its
  pull request merged, without a landing fact. `openspec/specs/plan-landing/spec.md:167`
  says "When an effect's outcome was not recorded, Kawai SHALL inspect before
  acting", and `docs/recovery-matrix.md:46` says the same of "external API acted,
  response lost"; the code inspects only what a restart or Retry left unknown.
  With no retries left the change stops as failed instead, and Retry does not
  inspect it. A view that succeeds but does not show the merge yet (:296) answers
  `merged: false` too and goes the same way. (`MergedIsRecorded` exempts exactly this,
  `Overlooked`, and stopped changes.)
* A stopped execution's merge whose call failed for a passing reason is not called
  again, and a server that is started again does not wake the team of a stopped
  execution. (`StopSettles` exempts both.)
* A stage that comes late can take a cancelled change back to gating. Its
  execution has finished, so nothing follows.
* Group mail that comes to wait after a cycle's sweep is routed in that cycle:
  `dueGroupMail` is read after the awaits of the urgent pushes
  (`dispatcher.ts:238`). A closed task's mail may so start a turn or a spawn, against
  `openspec/specs/team-member-release/spec.md:31` ("SHALL NOT be delivered or cause a
  spawn"). So may mail that a close after the sweep left waiting because its group was not
  among those it resolved, which the comment at `memberRelease.ts:190` leaves to the
  next cycle. (`OnlyMidCycleMailEscapes` allows exactly this mail.)
* A session has one release row. An exhaustion replaces a close's mark, and once the
  context has recovered the row is dropped: a member of a closed task is never
  released. Reopening a task also drops the marks of exhaustion and of a pause
  (`memberRelease.ts:210`).
* A row written between `beginCycle`'s reading of the group files and the release pass
  is judged without them, so a member may be archived although its group says
  `releaseOnTaskClose: false`.
* `ChatSessionManager.ts:1825` says no restart can leave a late spawn unmarked. Retries
  of a failed mark live in memory and are given up in the end, and the session's
  record and its mark are two writes with a stop possible between them.
  (`ClosedMembersAreMarked` excuses both.)
* `readiness` counts unavailable members as ready, and yet direct mail waiting for
  one that cannot start holds it for ever.
* A throw inside the release pass loses the wake it was run for (`notify` clears the
  request first), and a journal write that fails after the archive leaves the
  release unjournaled. Failing writes of the pass are not modelled.
* Changes enter the slot in the order of the plan: `passed_at` is written and never
  compared, where `openspec/specs/plan-landing/spec.md:64` gives the slot "in the
  order their rounds passed". (The model keeps whether a round passed, not when.)

## 6. What is not modelled, and the plan

In this order:

1. `LimitResume`: the limit-resumes of human-created sessions
   (`routing/limitResume.ts`, `limitResumeMail.ts`): at most one pending, at most
   three in a row, none that wakes an archived session.
2. Integration branches in `PlanLanding`: promotions take the same slot
   (`plans/execution/executionLanding.ts`, `plans/landing/landingMechanisms.ts`).
3. `Holds`: pause, resume, resolve and keyed replay of commands.
4. Dispatch of attempts and the count of fix rounds in `plans/execution`.

Not planned: the terminal side, log matching (heuristics over files), database
migrations (one-shot I/O), the client's rendering, the SDK protocol of the
drivers, strategy and metrics (reports). Their rows in `PROJECT.json` give the
reasons.
