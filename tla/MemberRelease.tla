--------------------------- MODULE MemberRelease ---------------------------
(***************************************************************************)
(* Release of spawned members: a task that closes marks its live members,  *)
(* the dispatch cycle archives each once nothing holds it, and the closed  *)
(* task's waiting group mail is dead-lettered                              *)
(* (src/server/team/memberRelease.ts, with the status change of            *)
(* TaskService.ts, the cycle of dispatcher.ts and sessionMailbox.ts, and   *)
(* the session lifecycle of chat/ChatSessionManager.ts).                   *)
(*                                                                         *)
(* A status change is prepared, awaits the group files, and commits in one *)
(* transaction.  The cycle awaits too: its definitions before the release  *)
(* pass, urgent mail between that pass and the list of group mail, spawns  *)
(* while it routes.  A wake that comes while a cycle runs starts another.  *)
(*                                                                         *)
(* All members are spawned and in one worktree-scoped group of one team:   *)
(* every mark and query of the code passes over the others.  done and      *)
(* cancelled are one status, as are the three open ones.  The journal and  *)
(* the names of who closed and who asked are left out.                     *)
(***************************************************************************)
EXTENDS Naturals

CONSTANTS
    Member,      \* session ids of spawned members
    Task,
    Note,        \* group messages about a task
    None,
    Asked,       \* a spawn whose member is not created yet
    TaskOf,      \* the task each member is spawned for, never rewritten
    About,       \* the task of each note
    Slow,        \* members that tasks, parked work and direct mail may hold
    LateRetries  \* bound: retries of a failed late mark (3 in the code)

ASSUME ReleaseAssumption ==
    /\ TaskOf \in [Member -> Task] /\ About \in [Note -> Task]
    /\ Slow \subseteq Member
    /\ None \notin Member /\ Asked \notin Member /\ None # Asked
    /\ LateRetries \in Nat

VARIABLES
    \* durable
    status,     \* team_tasks.status
    life,       \* chat_sessions: created, archived, deleted
    flagged,    \* members flagged context-exhausted
    row,        \* team_member_releases: the reason of a member's row
    note,       \* team_messages: the state of each note
    parked,     \* members parked work waits for
    direct,     \* members direct mail waits for
    keeps,      \* the group's file says releaseOnTaskClose: false
    \* volatile
    turn,       \* members whose turn is open (their claims end with it)
    claims,     \* members that hold claimed mail
    tasks,      \* members with a running background task
    late,       \* per member: the retry of a late mark that is scheduled
    prep,       \* prepared status changes (equal ones of two callers are one)
    spawn,      \* per note: None, Asked, or the member created for it
    stage,      \* of the dispatch cycle
    wake,       \* another cycle was asked for
    cached,     \* the group's opt-out as the release pass will know it
    listed,     \* the notes this cycle routes
    \* history
    excused,    \* members no close will release, and why the code may say so
    restored,   \* members restored since their task closed
    slipped     \* notes that came after the pass that sweeps them

rows == <<status, life, flagged, row, note, parked, direct, keeps>>
work == <<turn, claims, tasks>>
cycle == <<stage, cached, listed, spawn>>
history == <<excused, restored, slipped>>
vars == <<status, life, flagged, row, note, parked, direct, keeps, turn,
          claims, tasks, late, prep, spawn, stage, wake, cached, listed,
          excused, restored, slipped>>

Change == [task : Task, to : {"open", "closed"}, known : BOOLEAN]

TypeOK ==
    /\ status \in [Task -> {"open", "closed"}]
    /\ life \in [Member -> {"none", "live", "archived", "killed"}]
    /\ flagged \subseteq Member
    /\ row \in [Member -> {"none", "closed", "exhausted", "restart"}]
    /\ note \in [Note -> {"away", "queued", "spawning", "taken"}]
    /\ parked \subseteq Member /\ direct \subseteq Member
    /\ keeps \in BOOLEAN
    /\ turn \subseteq Member /\ claims \subseteq Member /\ tasks \subseteq Member
    /\ late \in [Member -> 0..LateRetries]
    /\ prep \subseteq Change
    /\ spawn \in [Note -> Member \cup {None, Asked}]
    /\ stage \in {"rest", "loading", "swept", "routing"}
    /\ wake \in BOOLEAN
    /\ cached \in BOOLEAN
    /\ listed \subseteq Note
    /\ excused \subseteq Member /\ restored \subseteq Member
    /\ slipped \subseteq Note

Init ==
    /\ status = [t \in Task |-> "open"]
    /\ life \in [Member -> {"none", "live"}]
    /\ flagged = {}
    /\ row = [m \in Member |-> "none"]
    /\ note = [n \in Note |-> "away"]
    /\ parked = {} /\ direct = {}
    /\ keeps \in BOOLEAN
    /\ turn = {} /\ claims = {} /\ tasks = {}
    /\ late = [m \in Member |-> 0]
    /\ prep = {}
    /\ spawn = [n \in Note |-> None]
    /\ stage = "rest" /\ wake = TRUE
    /\ cached = FALSE /\ listed = {}
    /\ excused = {} /\ restored = {}
    /\ slipped = {}

-----------------------------------------------------------------------------
(***************************************************************************)
(* Views                                                                   *)
(***************************************************************************)
Live(m) == life[m] = "live"
Closed(t) == status[t] = "closed"
MembersOf(t) == {m \in Member : TaskOf[m] = t /\ Live(m)}
Waits(n) == note[n] \in {"queued", "spawning"}
WaitingFor(t) == {n \in Note : About[n] = t /\ Waits(n)}

\* readiness: the one definition every release uses.  A card and a live
\* worker hold the turn open.
Ready(m) == m \notin turn \cup tasks \cup claims \cup parked \cup direct

\* Faulty: the late mark's retry outlives the row
WithdrawnKeepsRetry(ms) ==
    /\ row' = [m \in Member |-> IF m \in ms THEN "none" ELSE row[m]]
    /\ late' = late

\* cancel: the row goes, and a late mark still to be retried with it.
\* ms is a set of members.
Withdrawn(ms) ==
    /\ row' = [m \in Member |-> IF m \in ms THEN "none" ELSE row[m]]
    /\ late' = [m \in Member |-> IF m \in ms THEN 0 ELSE late[m]]

Notify == wake' = TRUE

-----------------------------------------------------------------------------
(***************************************************************************)
(* Status changes                                                          *)
(***************************************************************************)
\* prepareStatus of a change that crosses the boundary.  The close's hook
\* resolves the files of the groups that have waiting mail or live members.
Prepare(t, to) ==
    /\ to # status[t]
    /\ prep' = prep \cup
          {[task |-> t, to |-> to,
            known |-> to = "closed" /\ WaitingFor(t) \cup MembersOf(t) # {}]}
    /\ UNCHANGED <<rows, work, late, cycle, wake, history>>

\* Its caller commits p, and another may have prepared the same.
Taken(p) == p \in prep /\ prep' \in {prep, prep \ {p}}

\* commit on a status that moved meanwhile writes nothing; it may have moved
\* between two open or two closed statuses.
CommitStale(p) ==
    /\ prep' = prep \ {p}
    /\ UNCHANGED <<rows, work, late, cycle, wake, history>>

\* The close's transaction: mail still waiting at the commit is dead, every
\* member live at the commit is marked.  A group whose file was not resolved
\* keeps its mail for the next cycle, and its opt-out is not known.
CommitClose(p) ==
    LET t == p.task
        swept == IF p.known THEN WaitingFor(t) ELSE {}
        marked == IF p.known /\ keeps THEN {} ELSE MembersOf(t)
    IN
    /\ Taken(p) /\ p.to = "closed" /\ ~Closed(t)
    /\ status' = [status EXCEPT ![t] = "closed"]
    /\ note' = [n \in Note |-> IF n \in swept THEN "away" ELSE note[n]]
    /\ row' = [m \in Member |-> IF m \in marked THEN "closed" ELSE row[m]]
    /\ excused' = {m \in excused : TaskOf[m] # t}
    /\ restored' = {m \in restored : TaskOf[m] # t}
    /\ slipped' = IF stage \in {"swept", "routing"}
                    THEN slipped \cup (WaitingFor(t) \ swept)
                    ELSE slipped
    /\ Notify
    /\ UNCHANGED <<life, flagged, parked, direct, keeps, work, late, cycle>>

\* Reopening cancels the task's pending releases, whatever asked for them.
CommitReopen(p) ==
    /\ Taken(p) /\ p.to = "open" /\ Closed(p.task)
    /\ status' = [status EXCEPT ![p.task] = "open"]
    /\ row' = [m \in Member |-> IF TaskOf[m] = p.task THEN "none" ELSE row[m]]
    /\ Notify
    /\ UNCHANGED <<life, flagged, note, parked, direct, keeps, work, late,
                   cycle, history>>

-----------------------------------------------------------------------------
(***************************************************************************)
(* The dispatch cycle                                                      *)
(***************************************************************************)
\* beginCycle up to its await: the catalogs are cleared and the files read
\* again of the teams that have waiting group mail or pending rows.
BeginCycle ==
    /\ stage = "rest" /\ wake
    /\ stage' = "loading" /\ wake' = FALSE
    /\ \/ cached' = keeps
       \/ /\ \A n \in Note : ~Waits(n)
          /\ \A m \in Member : row[m] = "none"
          /\ cached' = FALSE
    /\ UNCHANGED <<rows, work, late, prep, spawn, listed, history>>

Pending(m) == row[m] # "none"

\* A row evaluate() gives up: its member is gone, has its context back, or
\* its group keeps its members.
Moot(m) ==
    \/ ~Live(m)
    \/ row[m] = "exhausted" /\ m \notin flagged
    \/ row[m] # "exhausted" /\ cached

Released == {m \in Member : Pending(m) /\ ~Moot(m) /\ Ready(m)}

\* evaluate: mail of closed tasks is dead, ready members are archived.
Evaluate ==
    LET given == {m \in Member : Pending(m) /\ Moot(m)} IN
    /\ stage = "loading"
    /\ stage' = "swept" /\ cached' = FALSE
    /\ note' = [n \in Note |->
                  IF Waits(n) /\ Closed(About[n]) THEN "away" ELSE note[n]]
    /\ life' = [m \in Member |-> IF m \in Released THEN "archived" ELSE life[m]]
    /\ Withdrawn(given \cup Released)
    /\ wake' = (wake \/ Released # {} \/ note' # note)
    /\ excused' = excused \cup {m \in given : Live(m) /\ Closed(TaskOf[m])}
    /\ UNCHANGED <<status, flagged, parked, direct, keeps, work, prep, spawn,
                   listed, restored, slipped>>

\* Urgent direct mail has been pushed, with awaits; only now is the group
\* mail of this cycle read.
ListMail ==
    /\ stage = "swept"
    /\ stage' = "routing"
    /\ listed' = {n \in Note : note[n] = "queued"}
    /\ UNCHANGED <<rows, work, late, prep, spawn, wake, cached, history>>

EndCycle ==
    /\ stage = "routing" /\ \A n \in Note : spawn[n] = None
    /\ stage' = "rest" /\ listed' = {} /\ slipped' = {}
    /\ UNCHANGED <<rows, work, late, prep, spawn, wake, cached, excused,
                   restored>>

\* Group mail is routed to an idle member in the task's worktree and pushed.
TakeNote(n, m) ==
    /\ stage = "routing" /\ n \in listed /\ note[n] = "queued"
    /\ Live(m) /\ TaskOf[m] = About[n]
    /\ m \notin turn \cup flagged \cup parked
    /\ note' = [note EXCEPT ![n] = "taken"]
    /\ turn' = turn \cup {m} /\ claims' = claims \cup {m}
    /\ Notify
    /\ UNCHANGED <<status, life, flagged, row, parked, direct, keeps, tasks,
                   late, prep, cycle, excused, restored, slipped>>

\* spawnFor: the message is reserved; the spawn is awaited.
Reserve(n) ==
    /\ stage = "routing" /\ n \in listed /\ note[n] = "queued"
    /\ \E m \in Member : life[m] = "none" /\ TaskOf[m] = About[n]
    /\ MembersOf(About[n]) = {}            \* one writer per worktree
    /\ \A k \in Note : About[k] = About[n] => spawn[k] = None
    /\ note' = [note EXCEPT ![n] = "spawning"]
    /\ spawn' = [spawn EXCEPT ![n] = Asked]
    /\ listed' = listed \ {n}
    /\ Notify
    /\ UNCHANGED <<status, life, flagged, row, parked, direct, keeps, work,
                   late, prep, stage, cached, excused, restored, slipped>>

\* Faulty: one retry too many
LateMarkOffByOne(m, try) ==
    IF Closed(TaskOf[m])
      THEN /\ try <= LateRetries
           /\ late' = [late EXCEPT ![m] = try + 1]
           /\ UNCHANGED <<row, wake, excused>>
      ELSE /\ late' = [late EXCEPT ![m] = 0]
           /\ UNCHANGED <<row, wake, excused>>

\* markLateSpawn, attempt by attempt: marks a member whose task is closed,
\* or schedules the next retry, or gives up.  try is the attempt's number.
LateMark(m, try) ==
    IF Closed(TaskOf[m])
      THEN \/ /\ row' = [row EXCEPT ![m] = "closed"]
              /\ late' = [late EXCEPT ![m] = 0]
              /\ Notify /\ UNCHANGED excused
           \/ /\ try < LateRetries
              /\ late' = [late EXCEPT ![m] = try + 1]
              /\ UNCHANGED <<row, wake, excused>>
           \/ /\ try = LateRetries
              /\ late' = [late EXCEPT ![m] = 0]
              /\ excused' = excused \cup {m}
              /\ UNCHANGED <<row, wake>>
      ELSE /\ late' = [late EXCEPT ![m] = 0]
           /\ UNCHANGED <<row, wake, excused>>

\* Faulty: only the close marks members
SpawnCreatesUnmarked(n, m) ==
    /\ spawn[n] = Asked /\ life[m] = "none" /\ TaskOf[m] = About[n]
    /\ life' = [life EXCEPT ![m] = "live"]
    /\ spawn' = [spawn EXCEPT ![n] = m]
    /\ UNCHANGED <<status, flagged, row, note, parked, direct, keeps, work,
                   late, prep, stage, wake, cached, listed, history>>

\* createSession: the record, and in the same tick the late mark.
SpawnCreates(n, m) ==
    /\ spawn[n] = Asked /\ life[m] = "none" /\ TaskOf[m] = About[n]
    /\ life' = [life EXCEPT ![m] = "live"]
    /\ spawn' = [spawn EXCEPT ![n] = m]
    /\ LateMark(m, 0)
    /\ UNCHANGED <<status, flagged, note, parked, direct, keeps, work, prep,
                   stage, cached, listed, restored, slipped>>

RetryLateMark(m) ==
    /\ late[m] > 0 /\ Live(m)
    /\ LateMark(m, late[m])
    /\ UNCHANGED <<status, life, flagged, note, parked, direct, keeps, work,
                   prep, cycle, restored, slipped>>

\* Faulty: the reservation is not read again after the await
SpawnReturnsUnchecked(n) ==
    LET m == spawn[n] IN
    /\ m \in Member /\ Live(m) /\ m \notin turn \cup flagged
    /\ spawn' = [spawn EXCEPT ![n] = None]
    /\ note' = [note EXCEPT ![n] = "taken"]
    /\ turn' = turn \cup {m} /\ claims' = claims \cup {m}
    /\ Notify
    /\ UNCHANGED <<status, life, flagged, row, parked, direct, keeps, tasks,
                   late, prep, stage, cached, listed, history>>

\* The spawn resolved: its member takes the message if that is still
\* reserved.  A member that cannot take it lets it wait again.
SpawnReturns(n) ==
    LET m == spawn[n] IN
    /\ m \in Member
    /\ spawn' = [spawn EXCEPT ![n] = None]
    /\ \/ /\ note[n] = "spawning" /\ Live(m) /\ m \notin turn \cup flagged
          /\ note' = [note EXCEPT ![n] = "taken"]
          /\ turn' = turn \cup {m} /\ claims' = claims \cup {m}
       \/ /\ note' = [note EXCEPT ![n] = IF @ = "spawning" THEN "queued" ELSE @]
          /\ UNCHANGED <<turn, claims>>
    /\ Notify
    /\ UNCHANGED <<status, life, flagged, row, parked, direct, keeps, tasks,
                   late, prep, stage, cached, listed, excused, restored,
                   slipped>>

SpawnFails(n) ==
    /\ spawn[n] = Asked
    /\ spawn' = [spawn EXCEPT ![n] = None]
    /\ note' = [note EXCEPT ![n] = IF @ = "spawning" THEN "queued" ELSE @]
    /\ Notify
    /\ UNCHANGED <<status, life, flagged, row, parked, direct, keeps, work,
                   late, prep, stage, cached, listed, history>>

-----------------------------------------------------------------------------
(***************************************************************************)
(* Senders of group mail                                                   *)
(***************************************************************************)
\* A note starts to wait: sent, or a dead one retried by the human.
Arrives(n) ==
    /\ note[n] = "away"
    /\ note' = [note EXCEPT ![n] = "queued"]
    /\ slipped' = IF stage \in {"swept", "routing"}
                    THEN slipped \cup {n} ELSE slipped
    /\ Notify
    /\ UNCHANGED <<status, life, flagged, row, parked, direct, keeps, work,
                   late, prep, cycle, excused, restored>>

-----------------------------------------------------------------------------
(***************************************************************************)
(* The members: what holds them, and what lets them go                     *)
(***************************************************************************)
Quiet == UNCHANGED <<status, life, row, note, keeps, late, prep, cycle,
                     history>>

\* A turn of the human's, or one the agent opens itself
TurnBegins(m) ==
    /\ Live(m) /\ m \notin turn
    /\ turn' = turn \cup {m} /\ Notify
    /\ UNCHANGED <<flagged, parked, direct, claims, tasks>> /\ Quiet

\* Direct mail is sent to the session, and in a cycle pushed to it.
DirectArrives(m) ==
    /\ m \in Slow /\ life[m] \in {"live", "archived"} /\ m \notin direct
    /\ direct' = direct \cup {m} /\ Notify
    /\ UNCHANGED <<flagged, parked, turn, claims, tasks>> /\ Quiet

TakeDirect(m) ==
    /\ stage \in {"swept", "routing"}
    /\ Live(m) /\ m \in direct \ (turn \cup flagged)
    /\ direct' = direct \ {m}
    /\ turn' = turn \cup {m} /\ claims' = claims \cup {m} /\ Notify
    /\ UNCHANGED <<flagged, parked, tasks>> /\ Quiet

\* turn_completed: the claims are settled, the flag cleared or kept.  A turn
\* that met a limit parks its work; a resume or a manager ends that.
TurnEnds(m, outcome) ==
    /\ m \in turn
    /\ turn' = turn \ {m} /\ claims' = claims \ {m} /\ Notify
    /\ flagged' = IF outcome = "success" THEN flagged \ {m} ELSE flagged
    /\ parked' = IF outcome = "limit" THEN parked \cup {m} ELSE parked
    /\ UNCHANGED <<direct, tasks>> /\ Quiet

Unpark(m) ==
    /\ m \in parked
    /\ parked' = parked \ {m} /\ Notify
    /\ UNCHANGED <<flagged, direct, turn, claims, tasks>> /\ Quiet

\* The Stop button settles nothing: claims wait for their receipt.
Stop(m) ==
    /\ m \in turn
    /\ turn' = turn \ {m} /\ Notify
    /\ UNCHANGED <<flagged, parked, direct, claims, tasks>> /\ Quiet

Receipt(m) ==
    /\ m \in claims
    /\ claims' = claims \ {m} /\ Notify
    /\ UNCHANGED <<flagged, parked, direct, turn, tasks>> /\ Quiet

TaskStarts(m) ==
    /\ m \in Slow /\ m \in turn \ tasks
    /\ tasks' = tasks \cup {m} /\ wake' = (wake \/ Pending(m))
    /\ UNCHANGED <<flagged, parked, direct, turn, claims>> /\ Quiet

\* Faulty: the end of a background task asks for no cycle
TaskEndsSilently(m) ==
    /\ m \in tasks
    /\ tasks' = tasks \ {m}
    /\ UNCHANGED <<flagged, parked, direct, turn, claims, wake>> /\ Quiet

\* rosterChanged: only a pending member's roster asks for a cycle.
TaskEnds(m) ==
    /\ m \in tasks
    /\ tasks' = tasks \ {m} /\ wake' = (wake \/ Pending(m))
    /\ UNCHANGED <<flagged, parked, direct, turn, claims>> /\ Quiet

\* ContextExhaustion.turnExhausted: the turn's mail, parked work and waiting
\* direct mail go, and the member is marked.
TurnExhausts(m) ==
    /\ m \in turn
    /\ turn' = turn \ {m} /\ claims' = claims \ {m}
    /\ parked' = parked \ {m} /\ direct' = direct \ {m}
    /\ flagged' = flagged \cup {m}
    /\ row' = [row EXCEPT ![m] = "exhausted"]
    /\ Notify
    /\ UNCHANGED <<status, life, note, keeps, tasks, late, prep, cycle,
                   history>>

\* A compaction clears the flag.
Compact(m) ==
    /\ Live(m) /\ m \in flagged
    /\ flagged' = flagged \ {m} /\ Notify
    /\ UNCHANGED <<parked, direct, turn, claims, tasks>> /\ Quiet

-----------------------------------------------------------------------------
(***************************************************************************)
(* The human, other agents, and restarts                                   *)
(***************************************************************************)
\* The agent process of m ends: nothing of it runs or is claimed any more.
Halted(m) ==
    /\ turn' = turn \ {m} /\ claims' = claims \ {m} /\ tasks' = tasks \ {m}

\* releaseNow (release_member, a released worktree, the restart of a paused
\* change whose holder is ready), or the human's archive, which asks nothing.
Archive(m) ==
    /\ Live(m)
    /\ life' = [life EXCEPT ![m] = "archived"]
    /\ Halted(m) /\ Withdrawn({m}) /\ Notify
    /\ UNCHANGED <<status, flagged, note, parked, direct, keeps, prep, cycle,
                   history>>

\* By the human, or by mail sent to an archived member
Restore(m) ==
    /\ life[m] = "archived"
    /\ life' = [life EXCEPT ![m] = "live"]
    /\ Withdrawn({m}) /\ Notify
    /\ excused' = excused \cup {m} /\ restored' = restored \cup {m}
    /\ UNCHANGED <<status, flagged, note, parked, direct, keeps, work, prep,
                   cycle, slipped>>

Kill(m) ==
    /\ life[m] \in {"live", "archived"}
    /\ life' = [life EXCEPT ![m] = "killed"]
    /\ direct' = direct \ {m}
    /\ Halted(m) /\ Withdrawn({m}) /\ Notify
    /\ UNCHANGED <<status, flagged, note, parked, keeps, prep, cycle, history>>

\* markPending: the restart of a paused change leaves its holder busy.
PauseRestart(m) ==
    /\ Live(m) /\ ~Ready(m)
    /\ row' = [row EXCEPT ![m] = "restart"]
    /\ Notify
    /\ UNCHANGED <<status, life, flagged, note, parked, direct, keeps, work,
                   late, prep, cycle, history>>

\* The server stops and starts again.  Turns, tasks, retries and prepared
\* changes are gone; interrupted spawns are queued again.
Stopped ==
    /\ turn' = {} /\ claims' = {} /\ tasks' = {}
    /\ late' = [m \in Member |-> 0]
    /\ prep' = {}
    /\ note' = [n \in Note |->
                  IF note[n] = "spawning" THEN "queued" ELSE note[n]]
    /\ spawn' = [n \in Note |-> None]
    /\ stage' = "rest" /\ listed' = {} /\ cached' = FALSE /\ slipped' = {}
    /\ Notify
    /\ UNCHANGED <<status, flagged, row, parked, direct, keeps, restored>>

Restart ==
    /\ Stopped
    /\ excused' = excused \cup {m \in Member : late[m] > 0}
    /\ UNCHANGED life

\* It stops between createSession's record and its mark.
RestartInSpawn(n, m) ==
    /\ Stopped
    /\ spawn[n] = Asked /\ life[m] = "none" /\ TaskOf[m] = About[n]
    /\ life' = [life EXCEPT ![m] = "live"]
    /\ excused' = excused \cup {m} \cup {k \in Member : late[k] > 0}

-----------------------------------------------------------------------------
Ending == {"success", "fails", "limit"}

Deciding ==
    \/ \E t \in Task, to \in {"open", "closed"} : Prepare(t, to)
    \/ \E p \in prep : CommitStale(p) \/ CommitClose(p) \/ CommitReopen(p)

Routing(n) ==
    \/ \E m \in Member : TakeNote(n, m) \/ SpawnCreates(n, m)
    \/ Reserve(n) \/ SpawnReturns(n) \/ SpawnFails(n)

Working(m) ==
    \/ TurnBegins(m) \/ DirectArrives(m) \/ TakeDirect(m)
    \/ \E outcome \in Ending : (outcome = "limit" => m \in Slow) /\ TurnEnds(m, outcome)
    \/ Unpark(m) \/ Stop(m) \/ Receipt(m)
    \/ TaskStarts(m) \/ TaskEnds(m) \/ TurnExhausts(m) \/ Compact(m)

Owner(m) == Archive(m) \/ Restore(m) \/ Kill(m) \/ PauseRestart(m)

Cycle == BeginCycle \/ Evaluate \/ ListMail \/ EndCycle

Next ==
    \/ Deciding
    \/ Cycle
    \/ \E n \in Note : Routing(n) \/ Arrives(n)
    \/ \E m \in Member : Working(m) \/ Owner(m) \/ RetryLateMark(m)
    \/ Restart
    \/ \E n \in Note, m \in Member : RestartInSpawn(n, m)

Spec == Init /\ [][Next]_vars

\* The event loop goes on with a cycle, and a spawn ends.
FairSpec ==
    /\ Spec
    /\ WF_vars(Cycle)
    /\ \A n \in Note : WF_vars(SpawnReturns(n) \/ SpawnFails(n))

-----------------------------------------------------------------------------
(***************************************************************************)
(* Properties                                                              *)
(***************************************************************************)
\* Every live member of a closed task is marked, or the retry that will mark
\* it is scheduled: the close sees the members live at its commit, a spawn
\* that ends after it marks its own, and no reopening, second caller or
\* restart between them leaves one out.  Excused are: members restored since,
\* groups that keep theirs, late marks the server gave up or forgot, and
\* members whose close mark was replaced by an exhaustion that passed.
ClosedMembersAreMarked ==
    \A m \in Member : Live(m) /\ Closed(TaskOf[m]) /\ ~keeps =>
        Pending(m) \/ late[m] > 0 \/ m \in excused

\* A mark of a close stands only while that close does: not on an open task,
\* and not on a member restored since, whatever retry of a mark was waiting.
CloseMarksAreCurrent ==
    \A m \in Member : row[m] = "closed" =>
        Live(m) /\ Closed(TaskOf[m]) /\ m \notin restored

\* Group mail starts no work for a closed task, neither in a member nor by a
\* spawn, unless it came to wait after the sweep of the very cycle that
\* routes it, or its task closed after that sweep without its group's file.
OnlyMidCycleMailEscapes ==
    [][\A n \in Note :
           /\ note'[n] # note[n] /\ note'[n] \in {"spawning", "taken"}
           /\ Closed(About[n])
           => n \in slipped]_vars

\* A marked member that stays ready is released, or its mark goes, once the
\* server stays up: whatever ended last asked for the cycle that finds it.
Awaited(m) == Pending(m) /\ Live(m) /\ Ready(m)

ReadyIsReleased ==
    <>[][~Stopped]_vars => \A m \in Member : Awaited(m) ~> ~Awaited(m)
=============================================================================
