----------------------------- MODULE ParkedWork -----------------------------
(***************************************************************************)
(* What becomes of work whose turn ended on a provider limit: it is parked *)
(* on its agent with a resume message, released, or forwarded              *)
(* (src/server/team/routing/limitOutcomes.ts, limitPolicy.ts,              *)
(* parkedCancel.ts, contextExhaustion.ts).                                 *)
(*                                                                         *)
(* The turn a session runs is "human", "agent" (opened by the agent        *)
(* itself) or the work it was delivered: for a resume, the parked work     *)
(* that links it.  A group with an onLimit rule is asked before work is    *)
(* resolved, and everything else goes on meanwhile (asked).  The server    *)
(* may stop between any two transactions of one outcome.                   *)
(*                                                                         *)
(* Delivery is abstract (MailDelivery has it in detail): a claim opens the *)
(* turn, its receipt is found sooner or later or is given up on.  Cards,   *)
(* cooldowns, archiving, hop counts and a human-created session's          *)
(* limit-resumes are left out.                                             *)
(***************************************************************************)
EXTENDS ParkedStore, FiniteSets

CONSTANTS
    Grouped,    \* the sessions that are members of the group
    RuleMay,    \* whether the group may, or must not, have an onLimit rule
    MaxAsked,   \* bound: rules asked at one time
    MaxCrash,   \* bound: stops of the server
    MaxManaged  \* bound: cancels, discards, retries, hand-offs and kills

ASSUME WorkAssumption ==
    /\ Grouped \subseteq Session
    /\ RuleMay \subseteq BOOLEAN /\ RuleMay # {}
    /\ MaxAsked \in Nat /\ MaxCrash \in Nat /\ MaxManaged \in Nat

VARIABLES
    \* durable
    mail,       \* team_messages
    alive,      \* sessions with a record
    full,       \* sessions flagged context-exhausted
    \* volatile
    turn,       \* per session: what its current turn works on (active)
    last,       \* per session: the work it was last delivered (lastWork)
    asked,      \* outcomes awaiting a rule, with what was read before
    \* fixed
    ruled,      \* the group has an onLimit rule
    \* bounds
    crashes, managed

agents == <<alive, full, turn, last>>
bounds == <<ruled, crashes, managed>>
vars == <<mail, alive, full, turn, last, asked, ruled, crashes, managed>>

Question ==
    [work : Mail, who : Session, parks : Nat, toTeam : BOOLEAN,
     credit : BOOLEAN]

TypeOK ==
    /\ mail \in [Mail -> Row]
    /\ alive \subseteq Session /\ full \subseteq Session
    /\ turn \in [Session -> Mail \cup {"idle", "human", "agent"}]
    /\ last \in [Session -> Mail \cup {None}]
    /\ asked \subseteq Question /\ ruled \in RuleMay
    /\ crashes \in 0..MaxCrash /\ managed \in 0..MaxManaged

Init ==
    /\ mail = [m \in Mail |-> AbsentRow]
    /\ alive = Session /\ full = {}
    /\ turn = [s \in Session |-> "idle"]
    /\ last = [s \in Session |-> None]
    /\ asked = {} /\ ruled \in RuleMay
    /\ crashes = 0 /\ managed = 0

-----------------------------------------------------------------------------
(***************************************************************************)
(* Ids: bounds.  Messages sent take the ids in Work, forwarded copies      *)
(* those in Copy, resumes those in Resume.  A resume that can no longer    *)
(* change, and that nothing refers to, lends its id to the next one.       *)
(***************************************************************************)
Unsent(ids) == {m \in ids : mail[m].state = "absent"}

Remembered ==
    {m \in Resume : \/ \E s \in Session : turn[s] = m \/ last[s] = m
                    \/ \E q \in asked : q.work = m}

Spent(m) ==
    /\ m \notin Remembered /\ ParkedFor(mail, m) = {}
    /\ mail[m].state \in {"absent", "cancelled", "discarded", "forwarded",
                          "delivered"}

Free(m) == Spent(m) /\ \A n \in Resume : mail[n].resumes = m => Spent(n)

\* The id of the next resume, if one is free
NextResume ==
    LET free == {m \in Resume : Free(m)} IN
    IF free = {} THEN {} ELSE {CHOOSE m \in free : TRUE}

-----------------------------------------------------------------------------
(***************************************************************************)
(* Mail reaches agents                                                     *)
(***************************************************************************)
Send(to) ==
    /\ to \in (alive \ full) \cup {Team}
    /\ \E m \in Unsent(Work) : mail' = Insert(mail, m, [AbsentRow EXCEPT !.to = to])
    /\ UNCHANGED <<agents, asked, bounds>>

\* Faulty: an agent with parked work takes no mail at all
MayTakeUnparked(m, s) ==
    /\ mail[m].state = "queued"
    /\ s \in alive \ full /\ turn[s] = "idle" /\ s # mail[m].without
    /\ \/ mail[m].to = s
       \/ mail[m].to = Team /\ s \in Grouped
    /\ ParkedBy(mail, s) = {}

\* An agent with parked work takes no group mail; a flagged one takes none.
MayTake(m, s) ==
    /\ mail[m].state = "queued"
    /\ s \in alive \ full /\ turn[s] = "idle" /\ s # mail[m].without
    /\ \/ mail[m].to = s
       \/ mail[m].to = Team /\ s \in Grouped /\ ParkedBy(mail, s) = {}

\* LimitOutcomes.delivered: a resume's turn works on the parked work.
WorkOf(m) ==
    IF ParkedFor(mail, m) = {} THEN m ELSE CHOOSE w \in ParkedFor(mail, m) : TRUE

Deliver(m, s) ==
    /\ MayTake(m, s)
    /\ mail' = [mail EXCEPT ![m] =
                   [mail[m] EXCEPT !.state = "claimed", !.by = s,
                                   !.tried = @ \/ m \in Resume]]
    /\ turn' = [turn EXCEPT ![s] = WorkOf(m)]
    /\ last' = [last EXCEPT ![s] = WorkOf(m)]
    /\ UNCHANGED <<alive, full, asked, bounds>>

\* The transcript shows the message.
Receipt(m) ==
    /\ mail[m].state \in {"claimed", "uncertain"} /\ mail[m].by \in alive
    /\ mail' = [mail EXCEPT ![m].state = "delivered"]
    /\ UNCHANGED <<agents, asked, bounds>>

\* A turn of the human's, or one the agent opens itself
OwnTurn(s, kind) ==
    /\ s \in alive /\ turn[s] = "idle"
    /\ turn' = [turn EXCEPT ![s] = kind]
    /\ UNCHANGED <<mail, alive, full, last, asked, bounds>>

-----------------------------------------------------------------------------
(***************************************************************************)
(* Outcomes.  end is the table an outcome leaves, torn are the tables that *)
(* a stop of the server between two of its transactions leaves, parked is  *)
(* the work it parks.                                                      *)
(***************************************************************************)
ResumeFor(w, s) == [AbsentRow EXCEPT !.to = s, !.resumes = w]

\* A copy keeps the tags: of a resume, it is a resume.
CopyFor(row, to, s) ==
    [AbsentRow EXCEPT !.to = to, !.without = s, !.resumes = row.resumes]

Same(M) == [end |-> M, torn |-> {}, parked |-> None]

\* Faulty: the old resume is replaced after the new one was linked
ParkingThenReplace(M, w, s, r, counted) ==
    LET scheduled == Insert(M, r, ResumeFor(w, s))
        parked == Park(scheduled, w, r, counted)
    IN  [end |-> ReplaceResume(parked, w), torn |-> {scheduled, parked},
         parked |-> w]

Parking(M, w, s, r, counted) ==
    LET cleared == ReplaceResume(M, w)
        scheduled == Insert(cleared, r, ResumeFor(w, s))
    IN  [end |-> Park(scheduled, w, r, counted),
         torn |-> {cleared, scheduled}, parked |-> w]

Releasing(M, w, toTeam) ==
    LET cleared == ReplaceResume(M, w)
    IN  [end |-> Release(cleared, w, toTeam), torn |-> {cleared},
         parked |-> None]

\* Faulty: the work is marked before its copy is stored
ForwardingMarksFirst(M, w, s, to, m) ==
    LET cleared == ReplaceResume(M, w)
        marked == MarkForwarded(cleared, w, m)
    IN  [end |-> Insert(marked, m, CopyFor(M[w], to, s)), torn |-> {cleared, marked},
         parked |-> None]

Forwarding(M, w, s, to, m) ==
    LET copied == Insert(M, m, CopyFor(M[w], to, s))
        cleared == ReplaceResume(copied, w)
    IN  [end |-> MarkForwarded(cleared, w, m), torn |-> {copied, cleared},
         parked |-> None]

\* The parked work of one session, one after the other
Unparked(M, works) ==
    [m \in Mail |->
        IF m \in works THEN [M[m] EXCEPT !.state = "delivered", !.link = None]
        ELSE IF \E w \in works : M[w].link = m THEN SettleResume(M[m])
        ELSE M[m]]

Unparking(M, works) ==
    [end  |-> Unparked(M, works),
     torn |-> UNION {{Unparked(M, done), ReplaceResume(Unparked(M, done), w)} :
                        done \in SUBSET works, w \in works},
     parked |-> None]

\* A live session on another profile, or the group
Targets(s) ==
    (alive \ {s}) \cup (IF s \in Grouped \cap alive THEN {Team} ELSE {})

Parks(M, q) ==
    {Parking(M, q.work, q.who, r, TRUE) : r \in NextResume}

Forwards(M, q) ==
    {Forwarding(M, q.work, q.who, to, m) :
        to \in Targets(q.who), m \in Unsent(Copy)}

\* resolve, once the rule has answered: q holds what was read before it was
\* asked, and only the state is read again.  A forward that finds no target
\* is a release, and so is a park whose reset has passed.
Resolving(M, q) ==
    LET may == Resolutions(q.parks, q.credit) IN
    IF ~Handled(M, q.work) THEN {Same(M)}
    ELSE {Releasing(M, q.work, q.toTeam)}
         \cup (IF "park" \in may THEN Parks(M, q) ELSE {})
         \cup (IF "forward" \in may THEN Forwards(M, q) ELSE {})

\* currentWork: the last work if still held, else parked work, else work
\* delivered.  (Which of several is the newest is left open.)
CurrentWork(M, s) ==
    LET plain == {m \in Held(M, s) : M[m].resumes = None} IN
    IF last[s] \in Held(M, s) THEN {last[s]}
    ELSE IF ParkedBy(M, s) # {} THEN ParkedBy(M, s) ELSE plain

\* parkCurrent: work already parked moves to a later reset and is not
\* counted; work parked MaxParks times stays as it is.
ParkingCurrent(M, s) ==
    {Parking(M, w, s, r, M[w].state # "parked") :
        r \in NextResume, w \in {c \in CurrentWork(M, s) :
                            M[c].state = "parked" \/ M[c].parks < MaxParks}}

-----------------------------------------------------------------------------
(***************************************************************************)
(* The end of a turn.  Its claims are settled first.                       *)
(***************************************************************************)
Settled(s) ==
    LET claims == {m \in Mail : mail[m].state = "claimed" /\ mail[m].by = s} IN
    {[m \in Mail |-> IF m \in claims
                       THEN [mail[m] EXCEPT !.state = end[m]] ELSE mail[m]] :
        end \in [claims -> {"delivered", "uncertain"}]}

\* What is read before the rule is asked
QuestionOn(M, w, s, credit) ==
    [work |-> w, who |-> s, parks |-> M[w].parks, credit |-> credit,
     toTeam |-> M[w].to = Team \/ s \in Grouped \cap alive]

Working(s) == turn[s] \in Mail
AsksRule(M, s) ==
    ruled /\ Working(s) /\ Handled(M, turn[s])
          /\ QuestionOn(M, turn[s], s, FALSE).toTeam

\* turnEnded, after a final limit event.  A turn of the human's resolves
\* nothing; a limit for want of credit never parks.
AfterLimit(M, s, credit) ==
    CASE AsksRule(M, s) -> {Same(M)}
      [] Working(s) /\ ~AsksRule(M, s)
           -> Resolving(M, QuestionOn(M, turn[s], s, credit))
      [] turn[s] = "agent" /\ ~credit -> {Same(M)} \cup ParkingCurrent(M, s)
      [] OTHER -> {Same(M)}

\* turnEnded, after a success: a human turn completes whatever is parked, a
\* resume its own work, a turn the agent opened nothing.
Completed(M, s) ==
    IF turn[s] = "human" THEN ParkedBy(M, s) ELSE ParkedBy(M, s) \cap {turn[s]}

Outcomes(M, s, ending) ==
    CASE ending = "limit"   -> AfterLimit(M, s, FALSE)
      [] ending = "credit"  -> AfterLimit(M, s, TRUE)
      [] ending = "success" -> {Unparking(M, Completed(M, s))}
      [] OTHER              -> {Same(M)}

Takes(s, o) ==
    /\ mail' = o.end
    /\ last' = [last EXCEPT ![s] = IF o.parked = None THEN @ ELSE o.parked]

\* turn_completed, unless the context is exhausted; "fails" is also the death
\* of the agent.  A turn that hit a limit may be reported as a success.
EndTurn(s, ending) ==
    /\ turn[s] # "idle"
    /\ \E M \in Settled(s) :
         /\ \E o \in Outcomes(M, s, ending) : Takes(s, o)
         /\ IF ending \in {"limit", "credit"} /\ AsksRule(M, s)
              THEN /\ Cardinality(asked) < MaxAsked
                   /\ asked' = asked \cup
                        {QuestionOn(M, turn[s], s, ending = "credit")}
              ELSE asked' = asked
    /\ turn' = [turn EXCEPT ![s] = "idle"]
    /\ full' \in CASE ending = "success" -> {full \ {s}}
                  [] ending = "fails"   -> {full}
                  [] OTHER              -> {full, full \ {s}}
    /\ UNCHANGED <<alive, bounds>>

\* The Stop button: the turn ends without any outcome.
Stop(s) ==
    /\ turn[s] # "idle"
    /\ turn' = [turn EXCEPT ![s] = "idle"]
    /\ UNCHANGED <<mail, alive, full, last, asked, bounds>>

\* The rule answers, fails or times out.
RuleAnswers(q) ==
    /\ q \in asked
    /\ \E o \in Resolving(mail, q) : Takes(q.who, o)
    /\ asked' = asked \ {q}
    /\ UNCHANGED <<alive, full, turn, bounds>>

\* ContextExhaustion.turnExhausted, one transaction: the turn's mail is
\* dropped, parked work goes back to its group (or is dropped too), direct
\* mail that waits is dropped.
DropHandled(M, s) ==
    [m \in Mail |->
        IF turn[s] = m /\ M[m].state \in {"claimed", "delivered", "uncertain"}
          THEN [M[m] EXCEPT !.state = "dead"] ELSE M[m]]

ReleaseParked(M, s) ==
    LET parked == ParkedBy(M, s) IN
    [m \in Mail |->
        IF m \in parked
          THEN IF M[m].to = Team \/ s \in Grouped
                 THEN [M[m] EXCEPT !.state = "queued", !.to = Team, !.by = None,
                                   !.link = None]
                 ELSE [M[m] EXCEPT !.state = "dead", !.by = None, !.link = None]
        ELSE IF \E w \in parked : M[w].link = m THEN SettleResume(M[m])
        ELSE M[m]]

Exhaust(s) ==
    /\ turn[s] # "idle"
    /\ \E M \in Settled(s) :
         mail' = DeadLetterDirectTo(ReleaseParked(DropHandled(M, s), s), s)
    /\ turn' = [turn EXCEPT ![s] = "idle"]
    /\ last' = [last EXCEPT ![s] = IF @ = turn[s] THEN None ELSE @]
    /\ full' = full \cup {s}
    /\ UNCHANGED <<alive, asked, bounds>>

Compact(s) ==
    /\ s \in full
    /\ full' = full \ {s}
    /\ UNCHANGED <<mail, alive, turn, last, asked, bounds>>

-----------------------------------------------------------------------------
(***************************************************************************)
(* The human and the mailbox managers                                      *)
(***************************************************************************)
Manages ==
    /\ managed < MaxManaged /\ managed' = managed + 1
    /\ UNCHANGED <<asked, ruled, crashes>>

HandOff(w, to) ==
    /\ mail[w].state = "parked"
    /\ to \in Targets(mail[w].by)
    /\ \E m \in Unsent(Copy) : mail' = Forwarding(mail, w, mail[w].by, to, m).end
    /\ Manages /\ UNCHANGED agents

Cancel(m) ==
    /\ CanCancel(mail, m) /\ mail' = CancelRow(mail, m)
    /\ Manages /\ UNCHANGED agents

Discard(m) ==
    /\ mail[m].state \in {"dead", "uncertain"}
    /\ mail' = [mail EXCEPT ![m].state = "discarded"]
    /\ Manages /\ UNCHANGED agents

\* retryMessage: mail of a killed session stays dead or dies, mail of a flagged
\* one is refused.
Retry(m) ==
    /\ \/ /\ mail[m].state = "dead" /\ mail[m].to \in (alive \ full) \cup {Team}
          /\ mail' = [mail EXCEPT ![m].state = "queued"]
       \/ /\ mail[m].state = "uncertain"
          /\ mail' = [mail EXCEPT ![m] =
                IF mail[m].by \in alive
                  THEN [mail[m] EXCEPT !.state = "queued", !.by = None,
                                       !.to = mail[m].by]
                  ELSE [mail[m] EXCEPT !.state = "dead", !.to = mail[m].by]]
    /\ Manages /\ UNCHANGED agents

Kill(s) ==
    /\ s \in alive
    /\ \E M \in Settled(s) : mail' = DeadLetterDirectTo(M, s)
    /\ alive' = alive \ {s}
    /\ turn' = [turn EXCEPT ![s] = "idle"]
    /\ Manages /\ UNCHANGED <<full, last>>

-----------------------------------------------------------------------------
(***************************************************************************)
(* The server stops, and starts again: claims are settled by their         *)
(* transcripts, direct mail of killed sessions is dead.                    *)
(***************************************************************************)
\* What a claim's receipt makes of it; other rows keep their state.
Started(row, state) ==
    IF state = "queued" /\ row.to \in Session \ alive
      THEN [row EXCEPT !.state = "dead"]
      ELSE [row EXCEPT !.state = state,
                       !.by = IF state # row.state /\ state = "queued" THEN None ELSE @]

Restart(M) ==
    LET claims == {m \in Mail : M[m].state = "claimed"} IN
    /\ crashes < MaxCrash
    /\ crashes' = crashes + 1
    /\ \E receipt \in [claims -> {"queued", "delivered", "uncertain"}] :
         mail' = [m \in Mail |-> Started(M[m],
                    IF m \in claims THEN receipt[m] ELSE M[m].state)]
    /\ turn' = [s \in Session |-> "idle"]
    /\ last' = [s \in Session |-> None]
    /\ asked' = {}
    /\ UNCHANGED <<alive, full, ruled, managed>>

Crash == Restart(mail)

CrashInEndTurn(s, ending) ==
    /\ turn[s] # "idle"
    /\ \E M \in Settled(s) : \E o \in Outcomes(M, s, ending) :
         \E table \in o.torn : Restart(table)

CrashInRule(q) ==
    /\ q \in asked
    /\ \E o \in Resolving(mail, q) : \E table \in o.torn : Restart(table)

CrashInHandOff(w, to) ==
    /\ mail[w].state = "parked"
    /\ to \in Targets(mail[w].by)
    /\ \E m \in Unsent(Copy) : \E table \in Forwarding(mail, w, mail[w].by, to, m).torn :
         Restart(table)

-----------------------------------------------------------------------------
Ending == {"limit", "credit", "success", "fails"}

Agent(s) ==
    \/ \E m \in Mail : Deliver(m, s)
    \/ OwnTurn(s, "human") \/ OwnTurn(s, "agent")
    \/ \E ending \in Ending : EndTurn(s, ending)
    \/ Stop(s) \/ Exhaust(s) \/ Compact(s) \/ Kill(s)

Manager(m) ==
    \/ Cancel(m) \/ Discard(m) \/ Retry(m)
    \/ \E to \in Session \cup {Team} : HandOff(m, to)

Stopping ==
    \/ Crash
    \/ \E s \in Session, ending \in Ending : CrashInEndTurn(s, ending)
    \/ \E q \in asked : CrashInRule(q)
    \/ \E m \in Mail, to \in Session \cup {Team} : CrashInHandOff(m, to)

Next ==
    \/ \E to \in Session \cup {Team} : Send(to)
    \/ \E m \in Mail : Receipt(m) \/ Manager(m)
    \/ \E s \in Session : Agent(s)
    \/ \E q \in asked : RuleAnswers(q)
    \/ Stopping

Spec == Init /\ [][Next]_vars

\* Turns end, and an agent that is idle again and again is given the direct
\* mail that waits for it.
FairSpec ==
    /\ Spec
    /\ \A s \in Session :
         /\ WF_vars(\E ending \in Ending : EndTurn(s, ending))
         /\ \A r \in Resume : SF_vars(Deliver(r, s))

-----------------------------------------------------------------------------
(***************************************************************************)
(* Properties                                                              *)
(***************************************************************************)
Parked(w) == mail[w].state = "parked"

\* Parked work links its own resume, addressed to the agent it is parked on
\* and never cancelled under it: every caller goes through replaceResume or
\* through a cancel of both.  Two things loosen this: a stop between two
\* transactions leaves work without a link, and an outcome that waited for a
\* rule parks on the agent it was asked about, whoever has the work by then.
LinksHold ==
    \A w \in Mail : Parked(w) =>
        LET r == mail[w].link IN
        \/ r = None /\ crashes > 0
        \/ /\ r # None
           /\ mail[r].resumes = w
           /\ ~ruled => mail[r].to = mail[w].by
           /\ mail[r].state \notin {"absent", "cancelled"}

\* Work marked as handed on has its copy, whatever transaction the server
\* stopped after: the human reads "forwarded" and looks no further.
HandedOn ==
    \A w \in Mail : mail[w].state = "forwarded" =>
        mail[w].next # None /\ mail[mail[w].next].state # "absent"

\* Work that moved on wakes nobody: a resume that was never handed out waits
\* only while its work is parked and links it, so no agent is told to continue
\* work that was released, handed off, completed or cancelled.
NoStrayResume ==
    \A r \in Resume : LET w == mail[r].resumes IN
        mail[r].state = "queued" /\ ~mail[r].tried /\ crashes = 0
        => Parked(w) /\ mail[w].link = r

\* Where no rule is asked, no work is parked more than MaxParks times, by
\* whatever mixture of its own turns and turns the agent opens itself.
ParksAreCapped == ~ruled => \A w \in Mail : mail[w].parks <= MaxParks

\* While a turn works on a message its row stays with that agent: nobody
\* cancels, releases or takes it meanwhile.  Only the human's hand-off does
\* not look for a running resume.
TurnHoldsItsWork ==
    ~ruled => \A s \in Session : Working(s) =>
        /\ mail[turn[s]].by = s
        /\ mail[turn[s]].state \in {"claimed", "delivered", "parked", "forwarded"}

Waits(w, r) == Parked(w) /\ mail[w].link = r /\ mail[r].state = "queued"

\* Parked work is woken: its resume does not wait for ever, unless the agent
\* was killed or has no context left (an agent with parked work still takes
\* direct mail).
ParkedIsWoken ==
    \A w \in Work \cup Copy, r \in Resume :
        Waits(w, r) ~> (~Waits(w, r) \/ mail[w].by \notin alive \ full)
=============================================================================
