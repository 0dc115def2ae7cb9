--------------------------- MODULE ReleaseSafety ---------------------------
(***************************************************************************)
(* Proofs about member release: type correctness, that every member of a   *)
(* closed task is marked or excused, that a close's mark outlives neither  *)
(* the close nor a restore, and that only mail which came in after a       *)
(* cycle's sweep can start work for a closed task in that cycle.           *)
(***************************************************************************)
EXTENDS MemberRelease, TLAPS

-----------------------------------------------------------------------------
(***************************************************************************)
(* Type correctness                                                        *)
(***************************************************************************)
LEMMA NoRetry == [m \in Member |-> 0] \in [Member -> 0..LateRetries]
BY ReleaseAssumption

LEMMA TypeInit == Init => TypeOK
<1> SUFFICES ASSUME Init PROVE TypeOK
    OBVIOUS
<1>1. late \in [Member -> 0..LateRetries]
    BY NoRetry DEF Init
<1>2. /\ life \in [Member -> {"none", "live", "archived", "killed"}]
      /\ row \in [Member -> {"none", "closed", "exhausted", "restart"}]
    BY DEF Init
<1>3. /\ status \in [Task -> {"open", "closed"}]
      /\ note \in [Note -> {"away", "queued", "spawning", "taken"}]
      /\ spawn \in [Note -> Member \cup {None, Asked}]
    BY DEF Init
<1>4. /\ keeps \in BOOLEAN /\ wake \in BOOLEAN /\ cached \in BOOLEAN
      /\ stage \in {"rest", "loading", "swept", "routing"}
    BY DEF Init
<1> QED
    BY <1>1, <1>2, <1>3, <1>4 DEF Init, TypeOK

\* Status changes
LEMMA TypeDeciding == TypeOK /\ Deciding => TypeOK'
<1> SUFFICES ASSUME TypeOK, Deciding PROVE TypeOK'
    OBVIOUS
<1> USE DEF TypeOK, rows, work, cycle, history, Notify, Change
<1>1. ASSUME NEW t \in Task, NEW to \in {"open", "closed"}, Prepare(t, to)
      PROVE  TypeOK'
  <2> DEFINE known == to = "closed" /\ WaitingFor(t) \cup MembersOf(t) # {}
  <2>1. known \in BOOLEAN
      OBVIOUS
  <2>2. prep' = prep \cup {[task |-> t, to |-> to, known |-> known]}
      BY <1>1 DEF Prepare
  <2> HIDE DEF known
  <2>3. [task |-> t, to |-> to, known |-> known] \in Change
      BY <2>1
  <2>4. prep' \subseteq Change
      BY <2>2, <2>3
  <2> QED
      BY <1>1, <2>4 DEF Prepare
<1>2. ASSUME NEW p \in prep, CommitStale(p) PROVE TypeOK'
    BY <1>2 DEF CommitStale
<1>3. ASSUME NEW p \in prep, CommitClose(p) PROVE TypeOK'
  <2>1. p.task \in Task
      OBVIOUS
  <2>2. status' \in [Task -> {"open", "closed"}]
      BY <1>3, <2>1 DEF CommitClose
  <2>3. note' \in [Note -> {"away", "queued", "spawning", "taken"}]
      BY <1>3 DEF CommitClose
  <2>4. row' \in [Member -> {"none", "closed", "exhausted", "restart"}]
      BY <1>3 DEF CommitClose
  <2>5. prep' \subseteq Change
      BY <1>3 DEF CommitClose, Taken
  <2>6. excused' \subseteq Member /\ restored' \subseteq Member
      BY <1>3 DEF CommitClose
  <2>7. slipped' \subseteq Note
      BY <1>3 DEF CommitClose, WaitingFor
  <2> QED
      BY <1>3, <2>2, <2>3, <2>4, <2>5, <2>6, <2>7 DEF CommitClose
<1>4. ASSUME NEW p \in prep, CommitReopen(p) PROVE TypeOK'
    BY <1>4 DEF CommitReopen, Taken
<1> QED
    BY <1>1, <1>2, <1>3, <1>4 DEF Deciding

\* The cycle
LEMMA TypeCycle == TypeOK /\ Cycle => TypeOK'
<1> SUFFICES ASSUME TypeOK, Cycle PROVE TypeOK'
    OBVIOUS
<1> USE DEF TypeOK, rows, work, cycle, history
<1>1. CASE BeginCycle
    BY <1>1 DEF BeginCycle
<1>2. CASE Evaluate
  <2>1. late' \in [Member -> 0..LateRetries]
      BY <1>2, ReleaseAssumption DEF Evaluate, Withdrawn
  <2>2. row' \in [Member -> {"none", "closed", "exhausted", "restart"}]
      BY <1>2 DEF Evaluate, Withdrawn
  <2>3. /\ note' \in [Note -> {"away", "queued", "spawning", "taken"}]
        /\ life' \in [Member -> {"none", "live", "archived", "killed"}]
      BY <1>2 DEF Evaluate
  <2>4. excused' \subseteq Member
      BY <1>2 DEF Evaluate
  <2>5. wake' = (wake \/ Released # {} \/ note' # note)
      BY <1>2 DEF Evaluate
  <2>6. wake' \in BOOLEAN
      BY <2>5
  <2> QED
      BY <1>2, <2>1, <2>2, <2>3, <2>4, <2>6 DEF Evaluate
<1>3. CASE ListMail
    BY <1>3 DEF ListMail
<1>4. CASE EndCycle
    BY <1>4 DEF EndCycle
<1> QED
    BY <1>1, <1>2, <1>3, <1>4 DEF Cycle

\* A late mark writes a row, a retry, or neither.
LEMMA LateMarkTypes ==
    ASSUME TypeOK, NEW m \in Member, NEW try \in 0..LateRetries, LateMark(m, try)
    PROVE  /\ row' \in [Member -> {"none", "closed", "exhausted", "restart"}]
           /\ late' \in [Member -> 0..LateRetries]
           /\ wake' \in BOOLEAN /\ excused' \subseteq Member
<1> USE ReleaseAssumption DEF TypeOK, LateMark, Notify
<1>1. row' \in [Member -> {"none", "closed", "exhausted", "restart"}]
    OBVIOUS
<1>2. late' \in [Member -> 0..LateRetries]
    OBVIOUS
<1>3. wake' = TRUE \/ wake' = wake
    OBVIOUS
<1>4. excused' = excused \/ excused' = excused \cup {m}
    OBVIOUS
<1> QED
    BY <1>1, <1>2, <1>3, <1>4

\* Group mail
LEMMA TypeRouting ==
    ASSUME TypeOK, NEW n \in Note, Routing(n) \/ Arrives(n)
    PROVE  TypeOK'
<1> USE DEF TypeOK, rows, work, cycle, history, Notify
<1>1. ASSUME NEW m \in Member, TakeNote(n, m) PROVE TypeOK'
    BY <1>1 DEF TakeNote
<1>2. ASSUME NEW m \in Member, SpawnCreates(n, m) PROVE TypeOK'
  <2>1. 0 \in 0..LateRetries
      BY ReleaseAssumption
  <2>2. LateMark(m, 0)
      BY <1>2 DEF SpawnCreates
  <2> QED
      BY <1>2, <2>1, <2>2, LateMarkTypes DEF SpawnCreates
<1>3. CASE Reserve(n)
    BY <1>3 DEF Reserve
<1>4. CASE SpawnReturns(n)
    BY <1>4 DEF SpawnReturns
<1>5. CASE SpawnFails(n)
    BY <1>5 DEF SpawnFails
<1>6. CASE Arrives(n)
    BY <1>6 DEF Arrives
<1> QED
    BY <1>1, <1>2, <1>3, <1>4, <1>5, <1>6 DEF Routing

\* The members
LEMMA TypeWorking ==
    ASSUME TypeOK, NEW m \in Member, Working(m)
    PROVE  TypeOK'
<1> USE DEF TypeOK, rows, work, cycle, history, Notify, Quiet, Pending
<1>1. CASE TurnBegins(m)
    BY <1>1 DEF TurnBegins
<1>2. CASE DirectArrives(m)
    BY <1>2 DEF DirectArrives
<1>3. CASE TakeDirect(m)
    BY <1>3 DEF TakeDirect
<1>4. ASSUME NEW outcome \in Ending, TurnEnds(m, outcome) PROVE TypeOK'
    BY <1>4 DEF TurnEnds
<1>5. CASE Unpark(m)
    BY <1>5 DEF Unpark
<1>6. CASE Stop(m)
    BY <1>6 DEF Stop
<1>7. CASE Receipt(m)
    BY <1>7 DEF Receipt
<1>8. CASE TaskStarts(m)
    BY <1>8 DEF TaskStarts
<1>9. CASE TaskEnds(m)
    BY <1>9 DEF TaskEnds
<1>10. CASE TurnExhausts(m)
    BY <1>10 DEF TurnExhausts
<1>11. CASE Compact(m)
    BY <1>11 DEF Compact
<1> QED
    BY <1>1, <1>2, <1>3, <1>4, <1>5, <1>6, <1>7, <1>8, <1>9, <1>10, <1>11
       DEF Working

\* The human, other agents, and late marks
LEMMA TypeOwner ==
    ASSUME TypeOK, NEW m \in Member, Owner(m) \/ RetryLateMark(m)
    PROVE  TypeOK'
<1> USE DEF TypeOK, rows, work, cycle, history, Notify
<1>1. CASE Archive(m)
    BY <1>1, ReleaseAssumption DEF Archive, Halted, Withdrawn
<1>2. CASE Restore(m)
    BY <1>2, ReleaseAssumption DEF Restore, Withdrawn
<1>3. CASE Kill(m)
    BY <1>3, ReleaseAssumption DEF Kill, Halted, Withdrawn
<1>4. CASE PauseRestart(m)
    BY <1>4 DEF PauseRestart
<1>5. CASE RetryLateMark(m)
  <2>1. late[m] \in 0..LateRetries /\ LateMark(m, late[m])
      BY <1>5 DEF RetryLateMark
  <2> QED
      BY <1>5, <2>1, LateMarkTypes DEF RetryLateMark
<1> QED
    BY <1>1, <1>2, <1>3, <1>4, <1>5 DEF Owner

\* Restarts
LEMMA TypeStopped ==
    ASSUME TypeOK, Stopped, excused' \subseteq Member,
           life' \in [Member -> {"none", "live", "archived", "killed"}]
    PROVE  TypeOK'
<1>1. late' \in [Member -> 0..LateRetries]
    BY NoRetry DEF Stopped
<1>2. /\ note' \in [Note -> {"away", "queued", "spawning", "taken"}]
      /\ spawn' \in [Note -> Member \cup {None, Asked}]
    BY DEF Stopped, TypeOK
<1> QED
    BY <1>1, <1>2 DEF TypeOK, Stopped, Notify

LEMMA TypeStep == TypeOK /\ [Next]_vars => TypeOK'
<1> SUFFICES ASSUME TypeOK, [Next]_vars PROVE TypeOK'
    OBVIOUS
<1>1. CASE Deciding
    BY <1>1, TypeDeciding
<1>2. CASE Cycle
    BY <1>2, TypeCycle
<1>3. ASSUME NEW n \in Note, Routing(n) \/ Arrives(n) PROVE TypeOK'
    BY <1>3, TypeRouting
<1>4. ASSUME NEW m \in Member, Working(m) PROVE TypeOK'
    BY <1>4, TypeWorking
<1>5. ASSUME NEW m \in Member, Owner(m) \/ RetryLateMark(m) PROVE TypeOK'
    BY <1>5, TypeOwner
<1>6. CASE Restart
    BY <1>6, TypeStopped DEF Restart, TypeOK
<1>7. ASSUME NEW n \in Note, NEW m \in Member, RestartInSpawn(n, m)
      PROVE  TypeOK'
    BY <1>7, TypeStopped DEF RestartInSpawn, TypeOK
<1>8. CASE UNCHANGED vars
    BY <1>8 DEF vars, TypeOK
<1> QED
    BY <1>1, <1>2, <1>3, <1>4, <1>5, <1>6, <1>7, <1>8 DEF Next

\* Every variable keeps its type, whatever happens to the members.
THEOREM TypeCorrect == Spec => []TypeOK
<1> QED
    BY TypeInit, TypeStep, PTL DEF Spec

-----------------------------------------------------------------------------
(***************************************************************************)
(* Marks of closed tasks                                                   *)
(***************************************************************************)
\* What a close's mark stands on: a member not restored since, and a retry
\* that goes with the mark it would write
MarkOK ==
    /\ CloseMarksAreCurrent
    /\ \A m \in Member : late[m] > 0 \/ life[m] = "none" => m \notin restored

Marks == ClosedMembersAreMarked /\ MarkOK

LEMMA MarksInit == Init => Marks
<1> SUFFICES ASSUME Init PROVE Marks
    OBVIOUS
<1>1. \A t \in Task : ~Closed(t)
    BY DEF Init, Closed
<1>2. \A m \in Member : TaskOf[m] \in Task
    BY ReleaseAssumption
<1>3. \A m \in Member : row[m] = "none" /\ m \notin restored
    BY DEF Init
<1> QED
    BY <1>1, <1>2, <1>3
       DEF Marks, MarkOK, ClosedMembersAreMarked, CloseMarksAreCurrent

\* A step that leaves marks, members and tasks alone
LEMMA MarksKept ==
    ASSUME Marks,
           UNCHANGED <<status, life, row, late, keeps, excused, restored>>
    PROVE  Marks'
BY DEF Marks, MarkOK, ClosedMembersAreMarked, CloseMarksAreCurrent, Live,
       Closed, Pending

LEMMA MarksClose ==
    ASSUME TypeOK, Marks, NEW p \in prep, CommitClose(p)
    PROVE  Marks'
<1> DEFINE t == p.task
<1> USE DEF TypeOK
<1>1. /\ p.task \in Task
      /\ \A m \in Member : TaskOf[m] \in Task
    BY ReleaseAssumption DEF Change
<1>2. /\ \A u \in Task : Closed(u)' <=> (Closed(u) \/ u = t)
      /\ UNCHANGED <<life, late, keeps>>
      /\ excused' = {m \in excused : TaskOf[m] # t}
      /\ restored' = {m \in restored : TaskOf[m] # t}
      /\ ~Closed(t)
    BY <1>1 DEF CommitClose, Closed
<1>3. \A m \in Member :
          \/ row'[m] = row[m] /\ (m \notin MembersOf(t) \/ keeps)
          \/ row'[m] = "closed" /\ m \in MembersOf(t)
    BY DEF CommitClose
<1>4. ASSUME NEW m \in Member, Live(m)', Closed(TaskOf[m])', ~keeps'
      PROVE  Pending(m)' \/ late'[m] > 0 \/ m \in excused'
  <2>1. CASE TaskOf[m] = t
      BY <1>2, <1>3, <1>4, <2>1 DEF Live, MembersOf, Pending
  <2>2. CASE TaskOf[m] # t
      BY <1>1, <1>2, <1>3, <1>4, <2>2
         DEF Live, MembersOf, Pending, Marks, ClosedMembersAreMarked
  <2> QED
      BY <2>1, <2>2
<1>5. ASSUME NEW m \in Member, row'[m] = "closed"
      PROVE  Live(m)' /\ Closed(TaskOf[m])' /\ m \notin restored'
    BY <1>1, <1>2, <1>3, <1>5
       DEF Live, MembersOf, Marks, MarkOK, CloseMarksAreCurrent
<1>6. \A m \in Member : late'[m] > 0 \/ life'[m] = "none" => m \notin restored'
    BY <1>2 DEF Marks, MarkOK
<1> QED
    BY <1>4, <1>5, <1>6
       DEF Marks, MarkOK, ClosedMembersAreMarked, CloseMarksAreCurrent

LEMMA MarksReopen ==
    ASSUME TypeOK, Marks, NEW p \in prep, CommitReopen(p)
    PROVE  Marks'
<1> DEFINE t == p.task
<1> USE DEF TypeOK
<1>1. /\ p.task \in Task
      /\ \A m \in Member : TaskOf[m] \in Task
    BY ReleaseAssumption DEF Change
<1>2. /\ \A u \in Task : Closed(u)' <=> (Closed(u) /\ u # t)
      /\ UNCHANGED <<life, late, keeps, excused, restored>>
      /\ \A m \in Member :
            row'[m] = IF TaskOf[m] = t THEN "none" ELSE row[m]
    BY <1>1 DEF CommitReopen, Closed, history
<1> QED
    BY <1>1, <1>2
       DEF Marks, MarkOK, ClosedMembersAreMarked, CloseMarksAreCurrent, Live,
           Pending

\* Members of ms go, or their marks do, and those still live are excused.
LEMMA MarksWithdrawn ==
    ASSUME TypeOK, Marks, NEW ms \in SUBSET Member, Withdrawn(ms),
           UNCHANGED <<status, keeps>>,
           restored' \in {restored, restored \cup ms},
           excused \subseteq excused',
           \A m \in Member : m \notin ms => life'[m] = life[m],
           \A m \in ms : life'[m] = "none" => m \notin restored',
           \A m \in ms :
               life'[m] = "live" /\ Closed(TaskOf[m]) => m \in excused'
    PROVE  Marks'
<1> USE DEF TypeOK
<1>1. \A m \in Member :
          /\ row'[m] = IF m \in ms THEN "none" ELSE row[m]
          /\ late'[m] = IF m \in ms THEN 0 ELSE late[m]
    BY DEF Withdrawn
<1>2. \A m \in Member : Closed(TaskOf[m])' <=> Closed(TaskOf[m])
    BY DEF Closed
<1>3. ASSUME NEW m \in Member, m \in ms
      PROVE  /\ Live(m)' /\ Closed(TaskOf[m])' => m \in excused'
             /\ row'[m] # "closed" /\ ~(late'[m] > 0)
             /\ life'[m] = "none" => m \notin restored'
    BY <1>1, <1>2, <1>3 DEF Live
<1>4. ASSUME NEW m \in Member, m \notin ms
      PROVE  /\ row'[m] = row[m] /\ late'[m] = late[m] /\ life'[m] = life[m]
             /\ m \in restored' <=> m \in restored
    BY <1>1, <1>4
<1>5. ClosedMembersAreMarked'
    BY <1>2, <1>3, <1>4 DEF Marks, ClosedMembersAreMarked, Live, Pending
<1>6. CloseMarksAreCurrent'
    BY <1>2, <1>3, <1>4 DEF Marks, MarkOK, CloseMarksAreCurrent, Live
<1>7. \A m \in Member : late'[m] > 0 \/ life'[m] = "none" => m \notin restored'
    BY <1>3, <1>4 DEF Marks, MarkOK
<1> QED
    BY <1>5, <1>6, <1>7 DEF Marks, MarkOK

LEMMA MarksEvaluate ==
    ASSUME TypeOK, Marks, Evaluate
    PROVE  Marks'
<1> DEFINE given == {m \in Member : Pending(m) /\ Moot(m)}
           ms == given \cup Released
<1>1. /\ Withdrawn(ms) /\ UNCHANGED <<status, keeps, restored>>
      /\ excused' = excused \cup {m \in given : Live(m) /\ Closed(TaskOf[m])}
      /\ life' = [m \in Member |-> IF m \in Released THEN "archived" ELSE life[m]]
    BY DEF Evaluate
<1>2. \A m \in ms : life'[m] = "none" => m \notin restored'
  <2>1. \A m \in Member : life'[m] = "none" => life[m] = "none"
      BY <1>1
  <2>2. \A m \in ms : m \in Member
      BY DEF Released
  <2> QED
      BY <1>1, <2>1, <2>2 DEF Marks, MarkOK
<1>3. \A m \in Released : life'[m] = "archived"
    BY <1>1 DEF Released
<1>4. \A m \in Member \ ms : life'[m] = life[m]
    BY <1>1
<1>5. \A m \in ms : life'[m] = "live" /\ Closed(TaskOf[m]) => m \in excused'
    BY <1>1, <1>3 DEF Live, TypeOK
<1>6. restored' = restored /\ excused \subseteq excused'
    BY <1>1
<1>7. ms \in SUBSET Member
    BY DEF Released
<1>8. \A m \in Member : m \notin ms => life'[m] = life[m]
    BY <1>4
<1> HIDE DEF ms
<1> QED
    BY <1>1, <1>2, <1>5, <1>6, <1>7, <1>8, MarksWithdrawn

\* The member is marked, excused or to be tried again, unless its task is
\* open.
LEMMA MarksLate ==
    ASSUME TypeOK, Marks, NEW m \in Member, NEW try \in 0..LateRetries,
           LateMark(m, try), life'[m] = "live", m \notin restored,
           \A k \in Member \ {m} : life'[k] = life[k],
           UNCHANGED <<status, keeps, restored>>
    PROVE  Marks'
<1> USE DEF TypeOK
<1>1. \A k \in Member : Closed(TaskOf[k])' <=> Closed(TaskOf[k])
    BY DEF Closed
<1>2. ASSUME NEW k \in Member, k # m
      PROVE  /\ row'[k] = row[k] /\ late'[k] = late[k] /\ life'[k] = life[k]
             /\ k \in excused => k \in excused'
    BY <1>2 DEF LateMark, Notify
<1>3. Closed(TaskOf[m]) =>
          row'[m] = "closed" \/ late'[m] > 0 \/ m \in excused'
    BY ReleaseAssumption DEF LateMark
<1>4. row'[m] = "closed" => Closed(TaskOf[m])
  <2>1. CASE Closed(TaskOf[m])
      BY <2>1
  <2>2. CASE ~Closed(TaskOf[m])
      BY <2>2 DEF LateMark, Marks, MarkOK, CloseMarksAreCurrent
  <2> QED
      BY <2>1, <2>2
<1>5. ClosedMembersAreMarked'
    BY <1>1, <1>2, <1>3 DEF Marks, ClosedMembersAreMarked, Live, Pending
<1>6. CloseMarksAreCurrent'
    BY <1>1, <1>2, <1>4 DEF Marks, MarkOK, CloseMarksAreCurrent, Live
<1>7. \A k \in Member : late'[k] > 0 \/ life'[k] = "none" => k \notin restored'
    BY <1>2 DEF Marks, MarkOK
<1> QED
    BY <1>5, <1>6, <1>7 DEF Marks, MarkOK

\* A row of another kind takes the place of the close's.
LEMMA MarksReplaced ==
    ASSUME TypeOK, Marks, NEW m \in Member, NEW kind \in {"exhausted", "restart"},
           row' = [row EXCEPT ![m] = kind],
           UNCHANGED <<status, life, late, keeps, excused, restored>>
    PROVE  Marks'
BY DEF TypeOK, Marks, MarkOK, ClosedMembersAreMarked, CloseMarksAreCurrent,
       Live, Closed, Pending

LEMMA MarksStopped ==
    ASSUME TypeOK, Marks, Stopped, NEW born \in SUBSET Member,
           \A m \in born : life[m] = "none" /\ life'[m] = "live",
           \A m \in Member \ born : life'[m] = life[m],
           excused \subseteq excused' /\ born \subseteq excused',
           \A m \in Member : late[m] > 0 => m \in excused'
    PROVE  Marks'
<1> USE DEF TypeOK
<1>1. /\ UNCHANGED <<status, row, keeps, restored>>
      /\ \A m \in Member : ~(late'[m] > 0)
    BY DEF Stopped
<1>2. ClosedMembersAreMarked'
    BY <1>1 DEF Marks, ClosedMembersAreMarked, Live, Closed, Pending
<1>3. CloseMarksAreCurrent'
    BY <1>1 DEF Marks, MarkOK, CloseMarksAreCurrent, Live, Closed
<1>4. \A m \in Member : late'[m] > 0 \/ life'[m] = "none" => m \notin restored'
    BY <1>1 DEF Marks, MarkOK
<1> QED
    BY <1>2, <1>3, <1>4 DEF Marks, MarkOK

LEMMA MarksOwner ==
    ASSUME TypeOK, Marks, NEW m \in Member, Owner(m)
    PROVE  Marks'
<1> USE DEF history
<1>1. CASE Archive(m)
  <2>1. /\ Withdrawn({m}) /\ UNCHANGED <<status, keeps, excused>>
        /\ restored' = restored /\ life'[m] = "archived"
        /\ \A k \in Member \ {m} : life'[k] = life[k]
      BY <1>1 DEF Archive, TypeOK
  <2> QED
      BY <2>1, MarksWithdrawn
<1>2. CASE Restore(m)
  <2>1. /\ Withdrawn({m}) /\ UNCHANGED <<status, keeps>>
        /\ excused' = excused \cup {m} /\ restored' = restored \cup {m}
        /\ life'[m] = "live" /\ \A k \in Member \ {m} : life'[k] = life[k]
      BY <1>2 DEF Restore, TypeOK
  <2> QED
      BY <2>1, MarksWithdrawn
<1>3. CASE Kill(m)
  <2>1. /\ Withdrawn({m}) /\ UNCHANGED <<status, keeps, excused>>
        /\ restored' = restored /\ life'[m] = "killed"
        /\ \A k \in Member \ {m} : life'[k] = life[k]
      BY <1>3 DEF Kill, TypeOK
  <2> QED
      BY <2>1, MarksWithdrawn
<1>4. CASE PauseRestart(m)
    BY <1>4, MarksReplaced DEF PauseRestart
<1> QED
    BY <1>1, <1>2, <1>3, <1>4 DEF Owner

LEMMA MarksStep == TypeOK /\ Marks /\ [Next]_vars => Marks'
<1> SUFFICES ASSUME TypeOK, Marks, [Next]_vars PROVE Marks'
    OBVIOUS
<1>1. CASE Deciding
  <2>1. ASSUME NEW t \in Task, NEW to \in {"open", "closed"}, Prepare(t, to)
        PROVE  Marks'
      BY <2>1, MarksKept DEF Prepare, rows, history
  <2>2. ASSUME NEW p \in prep, CommitStale(p) PROVE Marks'
      BY <2>2, MarksKept DEF CommitStale, rows, history
  <2> QED
      BY <1>1, <2>1, <2>2, MarksClose, MarksReopen DEF Deciding
<1>2. CASE Cycle
  <2>1. CASE BeginCycle
      BY <2>1, MarksKept DEF BeginCycle, rows, history
  <2>2. CASE ListMail
      BY <2>2, MarksKept DEF ListMail, rows, history
  <2>3. CASE EndCycle
      BY <2>3, MarksKept DEF EndCycle, rows
  <2> QED
      BY <1>2, <2>1, <2>2, <2>3, MarksEvaluate DEF Cycle
<1>3. ASSUME NEW n \in Note, Routing(n) \/ Arrives(n) PROVE Marks'
  <2>1. ASSUME NEW m \in Member, TakeNote(n, m) PROVE Marks'
      BY <2>1, MarksKept DEF TakeNote
  <2>2. ASSUME NEW m \in Member, SpawnCreates(n, m) PROVE Marks'
    <3>1. /\ LateMark(m, 0) /\ UNCHANGED <<status, keeps, restored>>
          /\ life[m] = "none" /\ life' = [life EXCEPT ![m] = "live"]
        BY <2>2 DEF SpawnCreates
    <3>2. 0 \in 0..LateRetries
        BY ReleaseAssumption
    <3>3. /\ life'[m] = "live" /\ m \notin restored
          /\ \A k \in Member \ {m} : life'[k] = life[k]
        BY <3>1 DEF TypeOK, Marks, MarkOK
    <3> QED
        BY <3>1, <3>2, <3>3, MarksLate
  <2>3. CASE Reserve(n)
      BY <2>3, MarksKept DEF Reserve
  <2>4. CASE SpawnReturns(n)
      BY <2>4, MarksKept DEF SpawnReturns
  <2>5. CASE SpawnFails(n)
      BY <2>5, MarksKept DEF SpawnFails, history
  <2>6. CASE Arrives(n)
      BY <2>6, MarksKept DEF Arrives
  <2> QED
      BY <1>3, <2>1, <2>2, <2>3, <2>4, <2>5, <2>6 DEF Routing
<1>4. ASSUME NEW m \in Member, Working(m) PROVE Marks'
  <2>1. CASE TurnExhausts(m)
      BY <2>1, MarksReplaced DEF TurnExhausts, history
  <2>2. ASSUME Quiet PROVE Marks'
      BY <2>2, MarksKept DEF Quiet, history
  <2> QED
      BY <1>4, <2>1, <2>2
         DEF Working, TurnBegins, DirectArrives, TakeDirect, TurnEnds, Unpark,
             Stop, Receipt, TaskStarts, TaskEnds, Compact
<1>5. ASSUME NEW m \in Member, Owner(m) \/ RetryLateMark(m) PROVE Marks'
  <2>1. CASE RetryLateMark(m)
    <3>1. /\ LateMark(m, late[m]) /\ UNCHANGED <<status, life, keeps, restored>>
          /\ late[m] > 0 /\ life[m] = "live"
        BY <2>1 DEF RetryLateMark, Live
    <3>2. late[m] \in 0..LateRetries /\ m \notin restored
        BY <3>1 DEF TypeOK, Marks, MarkOK
    <3> QED
        BY <3>1, <3>2, MarksLate
  <2> QED
      BY <1>5, <2>1, MarksOwner
<1>6. CASE Restart
  <2>1. /\ Stopped /\ UNCHANGED life
        /\ excused \subseteq excused'
        /\ \A m \in Member : late[m] > 0 => m \in excused'
      BY <1>6 DEF Restart
  <2>2. {} \in SUBSET Member /\ {} \subseteq excused'
      OBVIOUS
  <2> QED
      BY <2>1, <2>2, MarksStopped
<1>7. ASSUME NEW n \in Note, NEW m \in Member, RestartInSpawn(n, m)
      PROVE  Marks'
  <2>1. /\ Stopped /\ life[m] = "none" /\ life'[m] = "live"
        /\ \A k \in Member \ {m} : life'[k] = life[k]
        /\ excused \subseteq excused' /\ m \in excused'
        /\ \A k \in Member : late[k] > 0 => k \in excused'
      BY <1>7 DEF RestartInSpawn, TypeOK
  <2> QED
      BY <2>1, MarksStopped
<1>8. CASE UNCHANGED vars
    BY <1>8, MarksKept DEF vars
<1> QED
    BY <1>1, <1>2, <1>3, <1>4, <1>5, <1>6, <1>7, <1>8 DEF Next

LEMMA MarksAlways == Spec => []Marks
<1> QED
    BY MarksInit, MarksStep, TypeCorrect, PTL DEF Spec

\* Every live member of a closed task is marked, awaits the retry of its
\* mark, or is excused, whatever came between its spawn and now.
THEOREM MembersAreMarked == Spec => []ClosedMembersAreMarked
<1>1. Marks => ClosedMembersAreMarked
    BY DEF Marks
<1> QED
    BY <1>1, MarksAlways, PTL

\* No mark of a close outlives the close, or a restore of its member.
THEOREM MarksAreCurrent == Spec => []CloseMarksAreCurrent
<1>1. Marks => CloseMarksAreCurrent
    BY DEF Marks, MarkOK
<1> QED
    BY <1>1, MarksAlways, PTL

-----------------------------------------------------------------------------
(***************************************************************************)
(* Mail of closed tasks                                                    *)
(***************************************************************************)
\* Once the cycle has swept, waiting mail of a closed task came in since;
\* and a spawn is awaited only while the cycle routes.
Swept ==
    /\ \A n \in Note : spawn[n] # None => stage = "routing"
    /\ stage \in {"swept", "routing"} =>
          \A n \in Note : Waits(n) /\ Closed(About[n]) => n \in slipped

LEMMA SweptInit == Init => Swept
BY DEF Init, Swept

\* A step of others: no spawn starts, no note starts to wait, no task closes.
LEMMA SweptKept ==
    ASSUME TypeOK, Swept,
           UNCHANGED <<stage, slipped>>,
           \A n \in Note : spawn'[n] # None => spawn[n] # None,
           \A n \in Note : Waits(n)' => Waits(n),
           \A n \in Note : Closed(About[n])' => Closed(About[n])
    PROVE  Swept'
BY DEF Swept

LEMMA SweptClose ==
    ASSUME TypeOK, Swept, NEW p \in prep, CommitClose(p)
    PROVE  Swept'
<1> USE DEF TypeOK
<1>1. /\ UNCHANGED <<stage, spawn>>
      /\ \A u \in Task : Closed(u)' <=> (Closed(u) \/ u = p.task)
    BY DEF CommitClose, Closed, cycle
<1>2. \A n \in Note : Waits(n)' => Waits(n)
    BY DEF CommitClose, Waits
<1>3. ASSUME NEW n \in Note, stage \in {"swept", "routing"}, Waits(n)',
             Closed(About[n])'
      PROVE  n \in slipped'
  <2>1. CASE n \in slipped
      BY <1>3, <2>1 DEF CommitClose
  <2>2. CASE n \notin slipped
    <3>1. Waits(n) /\ About[n] = p.task
        BY <1>1, <1>2, <1>3, <2>2, ReleaseAssumption DEF Swept
    <3>2. n \in WaitingFor(p.task)
        BY <3>1 DEF WaitingFor
    <3>3. ~(p.known /\ n \in WaitingFor(p.task))
        BY <1>3 DEF CommitClose, Waits
    <3> QED
        BY <1>3, <3>2, <3>3 DEF CommitClose
  <2> QED
      BY <2>1, <2>2
<1> QED
    BY <1>1, <1>3 DEF Swept

LEMMA SweptStep == TypeOK /\ Swept /\ [Next]_vars => Swept'
<1> SUFFICES ASSUME TypeOK, Swept, [Next]_vars PROVE Swept'
    OBVIOUS
<1> USE DEF rows, cycle, history
<1>0. ASSUME UNCHANGED <<status, note, stage, spawn, slipped>> PROVE Swept'
    BY <1>0 DEF Swept, Waits, Closed
<1>1. CASE Deciding
  <2>1. ASSUME NEW t \in Task, NEW to \in {"open", "closed"}, Prepare(t, to)
        PROVE  Swept'
      BY <1>0, <2>1 DEF Prepare
  <2>2. ASSUME NEW p \in prep, CommitStale(p) PROVE Swept'
      BY <1>0, <2>2 DEF CommitStale
  <2>3. ASSUME NEW p \in prep, CommitReopen(p) PROVE Swept'
    <3>1. \A u \in Task : Closed(u)' => Closed(u)
        BY <2>3 DEF CommitReopen, Closed, TypeOK
    <3> QED
        BY <2>3, <3>1, SweptKept, ReleaseAssumption DEF CommitReopen, Waits
  <2> QED
      BY <1>1, <2>1, <2>2, <2>3, SweptClose DEF Deciding
<1>2. CASE Cycle
  <2>1. CASE BeginCycle
      BY <2>1 DEF BeginCycle, Swept
  <2>2. CASE Evaluate
    <3>1. \A n \in Note : ~(Waits(n)' /\ Closed(About[n])')
        BY <2>2 DEF Evaluate, Waits, Closed
    <3> QED
        BY <2>2, <3>1 DEF Evaluate, Swept
  <2>3. CASE ListMail
      BY <2>3 DEF ListMail, Swept, Waits, Closed
  <2>4. CASE EndCycle
      BY <2>4 DEF EndCycle, Swept
  <2> QED
      BY <1>2, <2>1, <2>2, <2>3, <2>4 DEF Cycle
<1>3. ASSUME NEW n \in Note, Routing(n) \/ Arrives(n) PROVE Swept'
  <2>1. ASSUME NEW m \in Member, TakeNote(n, m) PROVE Swept'
      BY <2>1, SweptKept DEF TakeNote, TypeOK, Waits, Closed
  <2>2. ASSUME NEW m \in Member, SpawnCreates(n, m) PROVE Swept'
    <3>1. /\ UNCHANGED <<status, note, stage, slipped>> /\ spawn[n] = Asked
          /\ \A k \in Note \ {n} : spawn'[k] = spawn[k]
        BY <2>2 DEF SpawnCreates, TypeOK
    <3>2. \A k \in Note : spawn'[k] # None => spawn[k] # None
        BY <3>1, ReleaseAssumption
    <3> QED
        BY <3>1, <3>2, SweptKept DEF Waits, Closed
  <2>3. CASE Reserve(n)
      BY <2>3 DEF Reserve, Swept, TypeOK, Waits, Closed
  <2>4. CASE SpawnReturns(n)
      BY <2>4, SweptKept DEF SpawnReturns, TypeOK, Waits, Closed
  <2>5. CASE SpawnFails(n)
      BY <2>5, SweptKept DEF SpawnFails, TypeOK, Waits, Closed
  <2>6. CASE Arrives(n)
      BY <2>6 DEF Arrives, Swept, TypeOK, Waits, Closed
  <2> QED
      BY <1>3, <2>1, <2>2, <2>3, <2>4, <2>5, <2>6 DEF Routing
<1>4. ASSUME NEW m \in Member, Working(m) PROVE Swept'
  <2>1. CASE TurnExhausts(m)
      BY <1>0, <2>1 DEF TurnExhausts
  <2>2. ASSUME Quiet PROVE Swept'
      BY <1>0, <2>2 DEF Quiet
  <2> QED
      BY <1>4, <2>1, <2>2
         DEF Working, TurnBegins, DirectArrives, TakeDirect, TurnEnds, Unpark,
             Stop, Receipt, TaskStarts, TaskEnds, Compact
<1>5. ASSUME NEW m \in Member, Owner(m) \/ RetryLateMark(m) PROVE Swept'
    BY <1>0, <1>5 DEF Owner, Archive, Restore, Kill, PauseRestart, RetryLateMark
<1>6. ASSUME Stopped PROVE Swept'
    BY <1>6 DEF Stopped, Swept
<1>7. CASE UNCHANGED vars
    BY <1>0, <1>7 DEF vars
<1> QED
    BY <1>1, <1>2, <1>3, <1>4, <1>5, <1>6, <1>7
       DEF Next, Restart, RestartInSpawn

\* What a step may do to a note of a closed task
LEMMA EscapeStep ==
    ASSUME TypeOK, Swept, Next, NEW n \in Note,
           note'[n] # note[n], note'[n] \in {"spawning", "taken"},
           Closed(About[n])
    PROVE  n \in slipped
<1> USE DEF rows, cycle, history, TypeOK
<1>1. stage = "routing" /\ Waits(n)
  <2>1. CASE Deciding
    <3>1. \A p \in prep : CommitClose(p) =>
              note'[n] = "away" \/ note'[n] = note[n]
        BY DEF CommitClose
    <3> QED
        BY <2>1, <3>1 DEF Deciding, Prepare, CommitStale, CommitReopen
  <2>2. CASE Cycle
    <3>1. Evaluate => note'[n] = "away" \/ note'[n] = note[n]
        BY DEF Evaluate
    <3> QED
        BY <2>2, <3>1 DEF Cycle, BeginCycle, ListMail, EndCycle
  <2>3. ASSUME NEW k \in Note, Routing(k) \/ Arrives(k)
        PROVE  stage = "routing" /\ Waits(n)
    <3>1. ASSUME NEW m \in Member, TakeNote(k, m)
          PROVE  stage = "routing" /\ Waits(n)
        BY <3>1 DEF TakeNote, Waits
    <3>2. ASSUME NEW m \in Member, SpawnCreates(k, m) PROVE FALSE
        BY <3>2 DEF SpawnCreates
    <3>3. CASE Reserve(k)
        BY <3>3 DEF Reserve, Waits
    <3>4. CASE SpawnReturns(k)
      <4>1. stage = "routing"
          BY <3>4, ReleaseAssumption DEF SpawnReturns, Swept
      <4>2. k = n /\ note[n] = "spawning"
          BY <3>4 DEF SpawnReturns
      <4> QED
          BY <4>1, <4>2 DEF Waits
    <3>5. CASE SpawnFails(k)
        BY <3>5 DEF SpawnFails
    <3>6. CASE Arrives(k)
        BY <3>6 DEF Arrives
    <3> QED
        BY <2>3, <3>1, <3>2, <3>3, <3>4, <3>5, <3>6 DEF Routing
  <2>4. ASSUME NEW m \in Member, Working(m) PROVE FALSE
      BY <2>4
         DEF Working, Quiet, TurnBegins, DirectArrives, TakeDirect, TurnEnds,
             Unpark, Stop, Receipt, TaskStarts, TaskEnds, Compact, TurnExhausts
  <2>5. ASSUME NEW m \in Member, Owner(m) \/ RetryLateMark(m) PROVE FALSE
      BY <2>5 DEF Owner, Archive, Restore, Kill, PauseRestart, RetryLateMark
  <2>6. ASSUME Stopped PROVE FALSE
      BY <2>6 DEF Stopped
  <2> QED
      BY <2>1, <2>2, <2>3, <2>4, <2>5, <2>6 DEF Next, Restart, RestartInSpawn
<1> QED
    BY <1>1 DEF Swept

\* Mail about a closed task starts work only if it came in after the sweep
\* of the cycle that routes it.
THEOREM OnlyLateMailEscapes == Spec => OnlyMidCycleMailEscapes
<1>1. TypeOK /\ Swept /\ [Next]_vars =>
          [\A n \in Note :
               /\ note'[n] # note[n] /\ note'[n] \in {"spawning", "taken"}
               /\ Closed(About[n])
               => n \in slipped]_vars
    BY EscapeStep
<1> QED
    BY <1>1, SweptInit, SweptStep, TypeCorrect, PTL
       DEF Spec, OnlyMidCycleMailEscapes

=============================================================================
