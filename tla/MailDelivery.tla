---------------------------- MODULE MailDelivery ----------------------------
(***************************************************************************)
(* Delivery of team mail: senders, the dispatcher, spawned recipients, the *)
(* agents' transcripts that prove receipt, the human, and server restarts  *)
(* (src/server/team/dispatcher.ts, sessionMailbox.ts, receipt.ts,          *)
(* staffing.ts, contextExhaustion.ts, chat/driverMailGuard.ts and the      *)
(* session lifecycle of chat/ChatSessionManager.ts).                       *)
(*                                                                         *)
(* The server is one process: code between two awaits is one step.  What   *)
(* an await lets in between is what the dispatcher's flights keep: the     *)
(* stage each push has reached.  A crash may also fall between two         *)
(* database transactions of one step (CrashInPush).                        *)
(*                                                                         *)
(* The agent (CLI) is external.  It takes envelopes from its input pipe    *)
(* and writes a transcript row per envelope, or loses them.  The rows are  *)
(* labelled with the request they answer - the send or the human's retry - *)
(* which the code cannot see: a receipt only carries the message id.       *)
(*                                                                         *)
(* Limit outcomes (parking, resumes, forwards) and the sender's hop count  *)
(* are left to other modules: no row is parked here.                       *)
(***************************************************************************)
EXTENDS MailStore, FiniteSets

CONSTANTS
    Message,    \* message ids
    Started,    \* sessions that exist at first; the others can be spawned
    MemberOf,   \* the group of each session, or None
    MaxAsk,     \* bound: sends and human retries of one message
    MaxCrash,   \* bound: crashes of the server
    WritesFail  \* whether a turn-end settle may fail (SQLITE_BUSY)

ASSUME DeliveryAssumption ==
    /\ Started \subseteq Session
    /\ MemberOf \in [Session -> Group \cup {None}]
    /\ MaxAsk \in Nat \ {0} /\ MaxCrash \in Nat
    /\ WritesFail \in BOOLEAN
    /\ Message \cap {"idle", "own"} = {}

VARIABLES
    \* durable
    mail,        \* team_messages
    reserved,    \* team_spawns, by the message each slot is held for
    life,        \* chat_sessions: does the record exist, is it archived
    flagged,     \* sessions flagged context-exhausted
    transcript,  \* per session, the rows <<message, request>> on disk
    \* volatile: gone when the server stops
    draft,       \* direct mail whose sender is between check and insert
    flight,      \* the dispatcher's pushes under way
    turn,        \* per session: "idle", "own" or the mail its turn works on
    card,        \* per session: an approval or question awaits the human
    pipe,        \* per session: envelopes handed to the agent, unread
    chain,       \* per session: claims whose settle is being retried
    up,          \* the server runs and its startup recovery is done
    \* history
    asked,       \* per message: sends and human retries so far
    handed,      \* per message: how far its latest claim got
    dropped,     \* messages whose turn ran out of context
    crashes

sessions == <<life, turn, card, flagged, pipe, transcript, chain>>
dispatch == <<flight, reserved>>
history == <<asked, handed, dropped>>
world == <<up, crashes>>
vars == <<mail, reserved, life, flagged, transcript, draft, flight, turn,
          card, pipe, chain, up, asked, handed, dropped, crashes>>

Request == Message \X (1..MaxAsk)

Stage == {"none", "prepare", "prepare-reserved", "prepare-interrupt",
          "interrupt", "spawn", "born"}

Landed == [stage |-> "none", who |-> None, lane |-> None]

Flight == [stage : Stage, who : Session \cup {None},
           lane : Session \cup Group \cup {None}]

TypeOK ==
    /\ mail \in [Message -> Row]
    /\ reserved \subseteq Message
    /\ life \in [Session -> {"none", "live", "archived", "killed"}]
    /\ flagged \subseteq Session
    /\ transcript \in [Session -> SUBSET Request]
    /\ draft \in [Message -> Session \cup {None}]
    /\ flight \in [Message -> Flight]
    /\ turn \in [Session -> Message \cup {"idle", "own"}]
    /\ card \in [Session -> BOOLEAN]
    /\ pipe \in [Session -> SUBSET Request]
    /\ chain \in [Session -> SUBSET (Message \X Stamp)]
    /\ up \in BOOLEAN
    /\ asked \in [Message -> 0..MaxAsk]
    /\ handed \in [Message -> {"no", "marked", "given"}]
    /\ dropped \subseteq Message
    /\ crashes \in 0..MaxCrash

Init ==
    /\ mail = [m \in Message |-> AbsentRow]
    /\ reserved = {}
    /\ life = [s \in Session |-> IF s \in Started THEN "live" ELSE "none"]
    /\ flagged = {}
    /\ transcript = [s \in Session |-> {}]
    /\ draft = [m \in Message |-> None]
    /\ flight = [m \in Message |-> Landed]
    /\ turn = [s \in Session |-> "idle"]
    /\ card = [s \in Session |-> FALSE]
    /\ pipe = [s \in Session |-> {}]
    /\ chain = [s \in Session |-> {}]
    /\ up = TRUE
    /\ asked = [m \in Message |-> 0]
    /\ handed = [m \in Message |-> "no"]
    /\ dropped = {}
    /\ crashes = 0

-----------------------------------------------------------------------------
(***************************************************************************)
(* Views                                                                   *)
(***************************************************************************)
HasRecord(s) == life[s] \in {"live", "archived"}   \* getRecord(id)
Exists == {s \in Session : HasRecord(s)}
Idle(s) == turn[s] = "idle"
Member(s, m) == MemberOf[s] = mail[m].to

\* The transcript holds a row with this message id, of whichever request.
Heard(s, m) == \E a \in 1..MaxAsk : <<m, a>> \in transcript[s]
HeardBy(s) == {m \in Message : Heard(s, m)}

\* A stamp no retried settle still refers to: claimed_at never repeats.
Unused(m, t) == \A s \in Session : <<m, t>> \notin chain[s]
CanStamp(m) == \E t \in Stamp : Unused(m, t)
NewStamp(m) == CHOOSE t \in Stamp : Unused(m, t)

-----------------------------------------------------------------------------
(***************************************************************************)
(* Senders                                                                 *)
(***************************************************************************)
\* prepareSend to a session: the recipient is looked up, a flagged one
\* refused, an archived one restored; then the code awaits.
Compose(m, s) ==
    /\ up /\ mail[m].state = "absent" /\ draft[m] = None
    /\ HasRecord(s) /\ s \notin flagged
    /\ draft' = [draft EXCEPT ![m] = s]
    /\ life' = [life EXCEPT ![s] = "live"]
    /\ UNCHANGED <<mail, reserved, flagged, transcript, flight, turn, card,
                   pipe, chain, world, history>>

Store(m, to, urgent, overLimit) ==
    /\ mail' = [mail EXCEPT ![m] = Enqueue(to, urgent, overLimit)]
    /\ asked' = [asked EXCEPT ![m] = 1]

\* prepareSend's commit, after the awaits: the recipient is not looked up
\* again.
CommitDirect(m, urgent, overLimit) ==
    /\ up
    /\ draft[m] # None
    /\ Store(m, draft[m], urgent, overLimit)
    /\ draft' = [draft EXCEPT ![m] = None]
    /\ UNCHANGED <<sessions, dispatch, world, handed, dropped>>

SendToGroup(m, g, urgent, overLimit) ==
    /\ up
    /\ mail[m].state = "absent" /\ draft[m] = None
    /\ Store(m, g, urgent, overLimit)
    /\ UNCHANGED <<sessions, dispatch, world, handed, dropped, draft>>

-----------------------------------------------------------------------------
(***************************************************************************)
(* The dispatcher: one pass at a time; within a pass direct pushes run one *)
(* by one, groups route concurrently, one decision at a time per group.    *)
(***************************************************************************)
InFlight(m) == flight[m].stage # "none"

Clear(lane) ==
    \A n \in Message :
        InFlight(n) => lane \in Group /\ flight[n].lane \in Group \ {lane}

TakeOff(m, stage, s) ==
    /\ Clear(mail[m].to)
    /\ flight' = [flight EXCEPT ![m] =
                    [stage |-> stage, who |-> s, lane |-> mail[m].to]]

\* The predicate push() evaluates inside the claim's transaction
Eligible(s, m, interrupting) ==
    /\ life[s] = "live" /\ ~card[s] /\ s \notin flagged
    /\ interrupting \/ Idle(s)
    /\ ToGroup(mail[m]) => Member(s, m)

\* The pass holds urgent mail behind the recipient's card ...
HoldForCard(m) ==
    /\ up /\ Direct(mail[m]) /\ Clear(mail[m].to)
    /\ mail[m].state = "queued" /\ mail[m].urgent
    /\ life[mail[m].to] = "live" /\ card[mail[m].to]
    /\ mail' = [mail EXCEPT ![m] = HoldForRequest(@)]
    /\ UNCHANGED <<sessions, dispatch, world, history, draft>>

\* Faulty: mail held behind a card is forgotten
CardForgotten(m) == FALSE /\ UNCHANGED vars

\* ... and queues it again once the card is answered.
CardGone(m) ==
    /\ up /\ Direct(mail[m]) /\ Clear(mail[m].to)
    /\ mail[m].state = "awaiting-request"
    /\ life[mail[m].to] = "live" /\ ~card[mail[m].to]
    /\ mail' = [mail EXCEPT ![m] = Requeue(@)]
    /\ UNCHANGED <<sessions, dispatch, world, history, draft>>

\* Urgent mail of a busy recipient without a card: push with an interrupt.
PickUrgent(m) ==
    /\ up /\ Direct(mail[m]) /\ mail[m].state = "queued" /\ mail[m].urgent
    /\ life[mail[m].to] = "live"
    /\ ~card[mail[m].to] /\ ~Idle(mail[m].to)
    /\ TakeOff(m, "prepare-interrupt", mail[m].to)
    /\ UNCHANGED <<mail, reserved, sessions, world, history, draft>>

\* The idle order was taken when the pass began: the pick may be stale.
PickDirect(m) ==
    /\ up /\ Direct(mail[m]) /\ mail[m].state = "queued"
    /\ HasRecord(mail[m].to)
    /\ TakeOff(m, "prepare", mail[m].to)
    /\ UNCHANGED <<mail, reserved, sessions, world, history, draft>>

\* The router names a member that was eligible before its await.
PickMember(m, s) ==
    /\ up /\ ToGroup(mail[m]) /\ mail[m].state = "queued"
    /\ Eligible(s, m, FALSE)
    /\ TakeOff(m, "prepare", s)
    /\ UNCHANGED <<mail, reserved, sessions, world, history, draft>>

\* spawnFor: the slot and the message are reserved in one transaction.
Reserve(m) ==
    /\ up /\ ToGroup(mail[m]) /\ mail[m].state = "queued"
    /\ \E s \in Session : life[s] = "none" /\ Member(s, m)
    /\ TakeOff(m, "spawn", None)
    /\ mail' = [mail EXCEPT ![m] = ReserveForSpawn(@)]
    /\ reserved' = reserved \cup {m}
    /\ UNCHANGED <<sessions, world, history, draft>>

\* spawnMember: the session record exists; its team is still resolving.
SpawnCreates(m, s) ==
    /\ up /\ flight[m].stage = "spawn"
    /\ life[s] = "none" /\ MemberOf[s] = flight[m].lane
    /\ life' = [life EXCEPT ![s] = "live"]
    /\ flight' = [flight EXCEPT ![m].stage = "born", ![m].who = s]
    /\ UNCHANGED <<mail, reserved, flagged, transcript, draft, turn, card,
                   pipe, chain, world, history>>

\* The spawn resolved: the slot is given back and the push begins, unless
\* the new member is gone already.
SpawnReturns(m) ==
    /\ up /\ flight[m].stage = "born"
    /\ reserved' = reserved \ {m}
    /\ IF HasRecord(flight[m].who)
         THEN /\ flight' = [flight EXCEPT ![m].stage = "prepare-reserved"]
              /\ mail' = mail
         ELSE /\ flight' = [flight EXCEPT ![m] = Landed]
              /\ mail' = [mail EXCEPT ![m] =
                            IF @.state = "spawning" THEN Requeue(@) ELSE @]
    /\ UNCHANGED <<sessions, world, history, draft>>

SpawnFails(m) ==
    /\ up /\ flight[m].stage = "spawn"
    /\ reserved' = reserved \ {m}
    /\ mail' = [mail EXCEPT ![m] = Requeue(@)]
    /\ flight' = [flight EXCEPT ![m] = Landed]
    /\ UNCHANGED <<sessions, world, history, draft>>

ClaimRow(m) ==
    LET s == flight[m].who IN
    IF flight[m].stage = "prepare-reserved"
      THEN ClaimSpawned(mail[m], s, NewStamp(m))
      ELSE Claim(mail[m], s, NewStamp(m))

\* Faulty: the result of the claim's UPDATE is not looked at
ClaimUnchecked(m) == TRUE

Claimable(m) ==
    mail[m].state \in IF flight[m].stage = "prepare-reserved"
                        THEN {"spawning"} ELSE {"queued", "awaiting-request"}

\* The claim push() attempts once prepare() has started the agent
ClaimWins(m) ==
    /\ flight[m].stage \in {"prepare", "prepare-reserved", "prepare-interrupt"}
    /\ CanStamp(m)
    /\ Claimable(m)
    /\ Eligible(flight[m].who, m, flight[m].stage = "prepare-interrupt")

\* Faulty: a reserved message is not given back
RefusedKeepsReserved(m) ==
    /\ up
    /\ flight[m].stage \in {"prepare", "prepare-reserved", "prepare-interrupt"}
    /\ flight' = [flight EXCEPT ![m] = Landed]
    /\ UNCHANGED <<mail, reserved, sessions, world, history, draft>>

\* prepare() threw, or the claim was refused.  Mail still reserved for a
\* spawned member goes back to the queue.
PushRefused(m) ==
    /\ up
    /\ flight[m].stage \in {"prepare", "prepare-reserved", "prepare-interrupt"}
    /\ flight' = [flight EXCEPT ![m] = Landed]
    /\ mail' = [mail EXCEPT ![m] =
                  IF flight[m].stage = "prepare-reserved" /\ @.state = "spawning"
                    THEN Requeue(@) ELSE @]
    /\ UNCHANGED <<reserved, sessions, world, history, draft>>

\* markPushed, then the driver's deliver(), in one step
Submit(m, s, row) ==
    /\ flight' = [flight EXCEPT ![m] = Landed]
    /\ mail' = [mail EXCEPT ![m] = MarkPushed(row)]
    /\ handed' = [handed EXCEPT ![m] = "given"]
    /\ pipe' = [pipe EXCEPT ![s] = @ \cup {<<m, asked[m]>>}]
    /\ turn' = [turn EXCEPT ![s] = m]

\* Faulty: a push that threw is queued again
ThrowRequeues(m, s, row) ==
    /\ flight' = [flight EXCEPT ![m] = Landed]
    /\ mail' = [mail EXCEPT ![m] = Requeue(row)]
    /\ handed' = [handed EXCEPT ![m] = "given"]
    /\ \/ /\ pipe' = [pipe EXCEPT ![s] = @ \cup {<<m, asked[m]>>}]
          /\ turn' = [turn EXCEPT ![s] = m]
       \/ UNCHANGED <<pipe, turn>>

\* deliver() or an observer of it threw after markPushed: the claim is held
\* for its receipt, which is read at once.  The envelope may have gone in.
\* A recipient found gone right after the push is held the same way, under
\* another reason.
SubmitThrows(m, s, row) ==
    /\ flight' = [flight EXCEPT ![m] = Landed]
    /\ \E found \in {FALSE, Heard(s, m)} :
         LET held == HoldUncertain(MarkPushed(row), "delivery-submit-failed")
         IN  mail' = [mail EXCEPT ![m] =
                        IF found THEN MarkDelivered(held) ELSE held]
    /\ handed' = [handed EXCEPT ![m] = "given"]
    /\ \/ /\ pipe' = [pipe EXCEPT ![s] = @ \cup {<<m, asked[m]>>}]
          /\ turn' = [turn EXCEPT ![s] = m]
       \/ UNCHANGED <<pipe, turn>>

\* Claim, re-check, mark and deliver: no await in between.
Push(m) ==
    /\ up /\ flight[m].stage \in {"prepare", "prepare-reserved"}
    /\ ClaimWins(m)
    /\ \/ Submit(m, flight[m].who, ClaimRow(m))
       \/ SubmitThrows(m, flight[m].who, ClaimRow(m))
    /\ UNCHANGED <<reserved, life, card, flagged, transcript, chain, world,
                   asked, dropped, draft>>

\* What a throw before markPushed leaves of a claim: it is given back, unless
\* pushed_at is set; then it is held for its receipt, which is read at once.
Unsubmitted(m, s, row) ==
    IF row.state # "claimed" THEN {row}
    ELSE IF ~row.pushed THEN {Requeue(row)}
    ELSE LET held == HoldUncertain(row, "delivery-submit-failed")
         IN  IF Heard(s, m) THEN {held, MarkDelivered(held)} ELSE {held}

\* The push threw between its claim and markPushed.
PushThrows(m) ==
    LET s == flight[m].who IN
    /\ up
    /\ \/ /\ ClaimWins(m)
          /\ \E n \in Unsubmitted(m, s, ClaimRow(m)) :
               mail' = [mail EXCEPT ![m] = n]
          /\ handed' = [handed EXCEPT ![m] = "no"]
       \/ /\ flight[m].stage = "interrupt"
          /\ \E n \in Unsubmitted(m, s, mail[m]) :
               mail' = [mail EXCEPT ![m] = n]
          /\ UNCHANGED handed
    /\ flight' = [flight EXCEPT ![m] = Landed]
    /\ UNCHANGED <<reserved, sessions, world, asked, dropped, draft>>

\* The claim of an interrupting push, up to the awaited interrupt.  The
\* driver closes the turn and its cards at once; prompts the agent had not
\* read may be withdrawn.
ClaimAndInterrupt(m) ==
    /\ up /\ flight[m].stage = "prepare-interrupt"
    /\ ClaimWins(m)
    /\ LET s == flight[m].who IN
         /\ mail' = [mail EXCEPT ![m] = ClaimRow(m)]
         /\ turn' = [turn EXCEPT ![s] = "idle"]
         /\ card' = [card EXCEPT ![s] = FALSE]
         /\ \E kept \in {{}, pipe[s]} : pipe' = [pipe EXCEPT ![s] = kept]
    /\ handed' = [handed EXCEPT ![m] = "no"]
    /\ flight' = [flight EXCEPT ![m].stage = "interrupt"]
    /\ UNCHANGED <<reserved, life, flagged, transcript, chain, world, asked,
                   dropped, draft>>

\* Faulty: a claim settled away during the interrupt is delivered anyway
InterruptUnchecked(m) ==
    LET s == flight[m].who IN
    /\ up /\ flight[m].stage = "interrupt"
    /\ life[s] = "live" /\ Idle(s) /\ ~card[s]
    /\ Submit(m, s, mail[m])
    /\ UNCHANGED <<reserved, life, card, flagged, transcript, chain, world,
                   asked, dropped, draft>>

\* After the interrupt the recipient is checked again: a card or a turn may
\* have come, the claim may have been settled away.
AfterInterrupt(m) ==
    LET s == flight[m].who
        ready == life[s] = "live" /\ Idle(s) /\ ~card[s]
    IN
    /\ up /\ flight[m].stage = "interrupt"
    /\ \/ /\ ~ready
          /\ mail' = [mail EXCEPT ![m] =
                        IF card[s] THEN HoldForRequest(Requeue(@))
                                   ELSE Requeue(@)]
          /\ flight' = [flight EXCEPT ![m] = Landed]
          /\ UNCHANGED <<turn, pipe, handed>>
       \/ /\ ready /\ mail[m].state # "claimed"      \* markPushed refused
          /\ flight' = [flight EXCEPT ![m] = Landed]
          /\ UNCHANGED <<mail, turn, pipe, handed>>
       \/ /\ ready /\ mail[m].state = "claimed"
          /\ \/ Submit(m, s, mail[m])
             \/ SubmitThrows(m, s, mail[m])
    /\ UNCHANGED <<reserved, life, card, flagged, transcript, chain, world,
                   asked, dropped, draft>>

-----------------------------------------------------------------------------
(***************************************************************************)
(* The agent (external) and the transcript tail                            *)
(***************************************************************************)
\* The agent writes the transcript row of an envelope it took.
Record(s, q) ==
    /\ up /\ q \in pipe[s]
    /\ pipe' = [pipe EXCEPT ![s] = @ \ {q}]
    /\ transcript' = [transcript EXCEPT ![s] = @ \cup {q}]
    /\ UNCHANGED <<mail, dispatch, life, flagged, turn, card, chain, world,
                   history, draft>>

\* Faulty: only held mail is confirmed
TailMissesClaims(s, m) ==
    /\ up /\ life[s] = "live" /\ Heard(s, m)
    /\ mail[m].by = s /\ mail[m].state = "uncertain"
    /\ mail' = [mail EXCEPT ![m] = MarkDelivered(@)]
    /\ UNCHANGED <<sessions, dispatch, world, history, draft>>

\* The tail of a live session's transcript reports a row.
TailReceipt(s, m) ==
    /\ up /\ life[s] = "live" /\ Heard(s, m)
    /\ mail[m].by = s /\ mail[m].state \in {"claimed", "uncertain"}
    /\ mail' = [mail EXCEPT ![m] = MarkDelivered(@)]
    /\ UNCHANGED <<sessions, dispatch, world, history, draft>>

-----------------------------------------------------------------------------
(***************************************************************************)
(* Settlement: what the end of a turn, of an agent or of a session does to *)
(* the claims it leaves.  A receipt that is not found proves nothing while *)
(* the agent may still be reading its input.                               *)
(***************************************************************************)
ClaimsOf(s) == {m \in Message : ClaimOf(mail[m], s)}

\* Faulty: absence of a receipt at the turn's end queues the mail again
SettleRequeues(r, found) == IF found THEN MarkDelivered(r) ELSE Requeue(r)

SettleRow(r, found) ==
    IF ~r.pushed THEN Requeue(r)
    ELSE IF found THEN MarkDelivered(r)
    ELSE HoldUncertain(r, "receipt-unconfirmed-after-delivery")

\* found: the receipts that could be read among those on disk
Settled(claims, found) ==
    [m \in Message |-> IF m \in claims THEN SettleRow(mail[m], m \in found)
                                       ELSE mail[m]]

\* settleRecipient
Settle(s) == {Settled(ClaimsOf(s), found) : found \in SUBSET HeardBy(s)}

\* claimRefs: the claims a later attempt will re-check
Refs(s) == {<<m, mail[m].at>> : m \in ClaimsOf(s)}

\* Faulty: the whole session is settled, whatever the snapshot named
SettleWholeSession(s, refs) == ClaimsOf(s)

\* settleClaims
StillClaimed(s, refs) == {m \in ClaimsOf(s) : <<m, mail[m].at>> \in refs}

\* The settle at a turn's end, or a chain of retries when its write fails:
\* the rows after the attempt, with the chain they leave.
SettleOrChain(s) ==
    {<<rows, chain[s]>> : rows \in Settle(s)} \cup
    (IF WritesFail /\ ClaimsOf(s) # {} THEN {<<mail, chain[s] \cup Refs(s)>>}
                                       ELSE {})

\* ContextExhaustion.turnExhausted, for a session that holds no parked work:
\* the turn's mail is dropped, direct mail still waiting is dead.
Drop(r) ==
    IF r.state = "claimed" THEN DeadLetter(r, "context-exhausted")
                           ELSE DeadLetterDelivered(r, "context-exhausted")

Exhaust(rows, s) ==
    [m \in Message |->
        DeadLetterDirectTo(IF turn[s] = m THEN Drop(rows[m]) ELSE rows[m],
                           s, "context-exhausted")]

\* turn_completed: the claims are settled, the flag set or cleared, and an
\* exhausted turn's mail dropped.
EndTurn(s, outcome) ==
    /\ up /\ ~Idle(s)
    /\ turn' = [turn EXCEPT ![s] = "idle"]
    /\ card' = [card EXCEPT ![s] = FALSE]
    /\ flagged' = CASE outcome = "success"   -> flagged \ {s}
                    [] outcome = "exhausted" -> flagged \cup {s}
                    [] OTHER                 -> flagged
    /\ \E result \in SettleOrChain(s) :
         /\ mail' = IF outcome = "exhausted" THEN Exhaust(result[1], s)
                                             ELSE result[1]
         /\ chain' = [chain EXCEPT ![s] = result[2]]
    /\ dropped' = IF outcome = "exhausted"
                    THEN dropped \cup {m \in Message : turn[s] = m} ELSE dropped
    /\ UNCHANGED <<dispatch, life, transcript, pipe, world, asked, handed,
                   draft>>

\* The agent process died under the driver (an error event).
AgentDies(s) ==
    /\ up /\ life[s] = "live"
    /\ turn' = [turn EXCEPT ![s] = "idle"]
    /\ card' = [card EXCEPT ![s] = FALSE]
    /\ \E kept \in {{}, pipe[s]} : pipe' = [pipe EXCEPT ![s] = kept]
    /\ \E result \in SettleOrChain(s) :
         /\ mail' = result[1]
         /\ chain' = [chain EXCEPT ![s] = result[2]]
    /\ UNCHANGED <<dispatch, life, flagged, transcript, world, history, draft>>

\* A retried settle touches only the claims its snapshot named.
RetrySettle(s) ==
    /\ up /\ chain[s] # {}
    /\ \E found \in SUBSET HeardBy(s) :
         mail' = Settled(StillClaimed(s, chain[s]), found)
    /\ chain' = [chain EXCEPT ![s] = {}]
    /\ UNCHANGED <<dispatch, life, turn, card, flagged, pipe, transcript,
                   world, history, draft>>

\* The last retry failed too: the claims are left to a later settle.
GiveUpSettle(s) ==
    /\ up /\ chain[s] # {}
    /\ chain' = [chain EXCEPT ![s] = {}]
    /\ UNCHANGED <<mail, dispatch, life, turn, card, flagged, pipe,
                   transcript, world, history, draft>>

-----------------------------------------------------------------------------
(***************************************************************************)
(* The human, and the session lifecycle                                    *)
(***************************************************************************)
\* A turn of the human's, or one the agent opens itself
OwnTurn(s) ==
    /\ up /\ life[s] = "live" /\ Idle(s)
    /\ turn' = [turn EXCEPT ![s] = "own"]
    /\ UNCHANGED <<mail, dispatch, life, card, flagged, pipe, transcript,
                   chain, world, history, draft>>

AskHuman(s) ==
    /\ up /\ ~Idle(s) /\ ~card[s]
    /\ card' = [card EXCEPT ![s] = TRUE]
    /\ UNCHANGED <<mail, dispatch, life, turn, flagged, pipe, transcript,
                   chain, world, history, draft>>

Answer(s) ==
    /\ up /\ card[s]
    /\ card' = [card EXCEPT ![s] = FALSE]
    /\ UNCHANGED <<mail, dispatch, life, turn, flagged, pipe, transcript,
                   chain, world, history, draft>>

\* The Stop button: turn_interrupted settles nothing.
Stop(s) ==
    /\ up /\ ~Idle(s)
    /\ turn' = [turn EXCEPT ![s] = "idle"]
    /\ card' = [card EXCEPT ![s] = FALSE]
    /\ \E kept \in {{}, pipe[s]} : pipe' = [pipe EXCEPT ![s] = kept]
    /\ UNCHANGED <<mail, dispatch, life, flagged, transcript, chain, world,
                   history, draft>>

\* A compaction clears the context-exhausted flag.
Compact(s) ==
    /\ up /\ s \in flagged
    /\ flagged' = flagged \ {s}
    /\ UNCHANGED <<mail, dispatch, life, turn, card, pipe, transcript, chain,
                   world, history, draft>>

EndSession(s, lives) ==
    /\ turn' = [turn EXCEPT ![s] = "idle"]
    /\ card' = [card EXCEPT ![s] = FALSE]
    /\ \E kept \in {{}, pipe[s]} : pipe' = [pipe EXCEPT ![s] = kept]
    /\ life' = [life EXCEPT ![s] = lives]
    /\ UNCHANGED <<dispatch, flagged, transcript, chain, world, history, draft>>

Archive(s) ==
    /\ up /\ life[s] = "live"
    /\ \E rows \in Settle(s) : mail' = rows
    /\ EndSession(s, "archived")

Restore(s) ==
    /\ up /\ life[s] = "archived"
    /\ life' = [life EXCEPT ![s] = "live"]
    /\ UNCHANGED <<mail, dispatch, turn, card, flagged, pipe, transcript,
                   chain, world, history, draft>>

\* Kill: claims are settled, then direct mail waiting for it is dead.
Kill(s) ==
    /\ up /\ HasRecord(s)
    /\ \E rows \in Settle(s) :
         mail' = [m \in Message |->
                    DeadLetterDirectTo(rows[m], s, "killed-recipient")]
    /\ EndSession(s, "killed")

Cancel(m) ==
    /\ up /\ mail[m].state \in {"queued", "awaiting-request"}
    /\ mail' = [mail EXCEPT ![m] = CancelWaiting(@)]
    /\ UNCHANGED <<sessions, dispatch, world, history, draft>>

DiscardMail(m) ==
    /\ up /\ mail[m].state \in {"dead", "uncertain"}
    /\ mail' = [mail EXCEPT ![m] = Discard(@)]
    /\ UNCHANGED <<sessions, dispatch, world, history, draft>>

RetryMail(m) ==
    /\ up /\ mail[m].state \in {"dead", "uncertain"} /\ asked[m] < MaxAsk
    /\ mail' = [mail EXCEPT ![m] = Retry(@, Exists, flagged)]
    /\ asked' = [asked EXCEPT ![m] =
                   IF mail'[m].state = "queued" THEN @ + 1 ELSE @]
    /\ UNCHANGED <<sessions, dispatch, world, handed, dropped, draft>>

\* A closed task's waiting group mail is dead, a reserved row included.
CloseTask(m) ==
    /\ up /\ ToGroup(mail[m]) /\ Waiting(mail[m])
    /\ mail' = [mail EXCEPT ![m] = DeadLetter(@, "task-closed")]
    /\ UNCHANGED <<sessions, dispatch, world, history, draft>>

-----------------------------------------------------------------------------
(***************************************************************************)
(* Crash and startup.  The agents are children of the server: before the   *)
(* next start each has read what it will ever read of its input.           *)
(***************************************************************************)
ServerStops ==
    /\ up /\ crashes < MaxCrash
    /\ up' = FALSE
    /\ crashes' = crashes + 1
    /\ \E read \in [Session -> SUBSET Request] :
         /\ \A s \in Session : read[s] \in SUBSET pipe[s]
         /\ transcript' = [s \in Session |-> transcript[s] \cup read[s]]
    /\ pipe' = [s \in Session |-> {}]
    /\ turn' = [s \in Session |-> "idle"]
    /\ card' = [s \in Session |-> FALSE]
    /\ chain' = [s \in Session |-> {}]
    /\ flight' = [m \in Message |-> Landed]
    /\ draft' = [m \in Message |-> None]
    /\ UNCHANGED <<reserved, life, flagged, asked, dropped>>

Crash == ServerStops /\ UNCHANGED <<mail, handed>>

\* A crash between the claim's transaction and markPushed's, or between
\* markPushed's and the driver's deliver.
CrashInPush(m) ==
    /\ ServerStops
    /\ \/ /\ ClaimWins(m)
          /\ \/ /\ mail' = [mail EXCEPT ![m] = ClaimRow(m)]
                /\ handed' = [handed EXCEPT ![m] = "no"]
             \/ /\ mail' = [mail EXCEPT ![m] = MarkPushed(ClaimRow(m))]
                /\ handed' = [handed EXCEPT ![m] = "marked"]
       \/ /\ flight[m].stage = "interrupt" /\ mail[m].state = "claimed"
          /\ mail' = [mail EXCEPT ![m] = MarkPushed(@)]
          /\ handed' = [handed EXCEPT ![m] = "marked"]

\* transcriptReceipt: a missing, unreadable or torn file proves nothing.
Receipts(s, m) ==
    IF s = None \/ s \notin Exists THEN {"uncertain"}
    ELSE IF Heard(s, m) THEN {"found", "uncertain"} ELSE {"absent", "uncertain"}

\* Faulty: mail is taken for delivered unless its absence is proven
ReconcileHopeful(r, receipt) ==
    IF r.state # "claimed" THEN r
    ELSE IF ~r.pushed \/ receipt = "absent" THEN Requeue(r)
    ELSE MarkDelivered(r)

\* Faulty: claims that were never pushed are passed over
ReconcilePushedOnly(r, receipt) ==
    IF r.state # "claimed" \/ ~r.pushed THEN r
    ELSE IF receipt = "absent" THEN Requeue(r)
    ELSE IF receipt = "found" THEN MarkDelivered(r)
    ELSE HoldUncertain(r, "transcript-unavailable-or-torn")

ReconcileRow(r, receipt) ==
    IF r.state # "claimed" THEN r
    ELSE IF ~r.pushed \/ receipt = "absent" THEN Requeue(r)
    ELSE IF receipt = "found" THEN MarkDelivered(r)
    ELSE HoldUncertain(r, "transcript-unavailable-or-torn")

\* SessionMailbox.start: receipts, interrupted spawns, killed recipients;
\* only then is the dispatcher let go.
StartRow(r, receipt) ==
    LET kept == ReconcileRow(r, receipt)
        idle == IF kept.state = "spawning" THEN Requeue(kept) ELSE kept
    IN  IF Direct(idle) /\ idle.to \notin Exists
          THEN DeadLetter(idle, "killed-recipient") ELSE idle

Start ==
    /\ ~up
    /\ up' = TRUE
    /\ \E receipt \in [Message -> {"found", "absent", "uncertain"}] :
         /\ \A m \in Message : receipt[m] \in Receipts(mail[m].by, m)
         /\ mail' = [m \in Message |-> StartRow(mail[m], receipt[m])]
    /\ reserved' = {}
    /\ UNCHANGED <<life, flagged, transcript, draft, flight, turn, card, pipe,
                   chain, crashes, history>>

-----------------------------------------------------------------------------
(***************************************************************************)
(* The next-state relation, by who takes the step                          *)
(***************************************************************************)
Dispatching(m) ==
    \/ HoldForCard(m) \/ CardGone(m)
    \/ PickUrgent(m) \/ PickDirect(m) \/ Reserve(m)
    \/ \E s \in Session : PickMember(m, s)
    \/ \E s \in Session : SpawnCreates(m, s)
    \/ SpawnReturns(m) \/ SpawnFails(m)
    \/ PushRefused(m) \/ Push(m) \/ PushThrows(m)
    \/ ClaimAndInterrupt(m) \/ AfterInterrupt(m)

Sending(m) ==
    \/ \E s \in Session : Compose(m, s)
    \/ \E urgent, over \in BOOLEAN : CommitDirect(m, urgent, over)
    \/ \E g \in Group, urgent, over \in BOOLEAN : SendToGroup(m, g, urgent, over)

Managing(m) == Cancel(m) \/ DiscardMail(m) \/ RetryMail(m) \/ CloseTask(m)

Agent(s) ==
    \/ \E q \in Request : Record(s, q)
    \/ AgentDies(s) \/ AskHuman(s) \/ Compact(s)
    \/ \E outcome \in {"success", "failed", "exhausted"} : EndTurn(s, outcome)
    \/ \E m \in Message : TailReceipt(s, m)

Settling(s) == RetrySettle(s) \/ GiveUpSettle(s)

Owner(s) ==
    OwnTurn(s) \/ Answer(s) \/ Stop(s) \/ Archive(s) \/ Restore(s) \/ Kill(s)

Next ==
    \/ \E m \in Message : Sending(m) \/ Dispatching(m) \/ Managing(m)
    \/ \E s \in Session : Agent(s) \/ Settling(s) \/ Owner(s)
    \/ Crash \/ Start
    \/ \E m \in Message : CrashInPush(m)

Spec == Init /\ [][Next]_vars

-----------------------------------------------------------------------------
(***************************************************************************)
(* Properties                                                              *)
(***************************************************************************)
\* The request's envelope is with an agent or in a transcript.
Copied(q) == \E s \in Session : q \in pipe[s] \cup transcript[s]

\* The dispatcher may still hand the message to an agent without being asked
\* again: it waits, or its claim has not been pushed.
Deliverable(m) ==
    \/ Waiting(mail[m])
    \/ mail[m].state = "claimed" /\ handed[m] # "given"

\* What keeps the dispatcher honest about copies.  Rows carry only requests
\* already made; a claim without pushed_at never reached an agent; the copies
\* of a claim's request are with its claimant; a push under way owns the only
\* claim there can be, and has not delivered.
ClaimsAreHonest ==
    /\ \A m \in Message, a \in 1..MaxAsk : Copied(<<m, a>>) => a <= asked[m]
    /\ \A m \in Message : mail[m].state = "claimed" =>
         /\ ~mail[m].pushed => handed[m] # "given"
         /\ \A s \in Session :
              <<m, asked[m]>> \in pipe[s] \cup transcript[s] => s = mail[m].by
         /\ InFlight(m) => /\ flight[m].stage = "interrupt"
                           /\ flight[m].who = mail[m].by
                           /\ handed[m] # "given"

\* No silent duplicate: while the dispatcher may still deliver a message, no
\* agent has or will read a copy of it for the same request.  This is what
\* "absence cannot authorize requeue", the refused markPushed and the
\* startup receipts are for.
NoSilentDuplicate ==
    \A m \in Message : Deliverable(m) => ~Copied(<<m, asked[m]>>)

\* A message is never delivered to two members: a request's envelope is in
\* one place only.
OneRecipient ==
    \A s, t \in Session :
        /\ pipe[s] \cap transcript[t] = {}
        /\ s # t => /\ pipe[s] \cap pipe[t] = {}
                    /\ transcript[s] \cap transcript[t] = {}

\* Cancelled mail is never delivered, whatever pass had already picked it.
CancelledNeverDelivered ==
    \A m \in Message :
        mail[m].state = "cancelled" => ~Copied(<<m, asked[m]>>)

\* Receipt is acknowledged only by the recipient's transcript.
DeliveredHasReceipt ==
    \A m \in Message : mail[m].state = "delivered" => Heard(mail[m].by, m)

\* An agent that may see a message twice is told so, unless the first turn
\* was dropped for want of context.
DuplicatesAreFlagged ==
    \A m \in Message :
        Cardinality({a \in 1..MaxAsk : Copied(<<m, a>>)}) >= 2
            => mail[m].dup \/ m \in dropped

\* m's turn still runs, yet its receipt was given up on as if it had ended.
UncertainTooEarly(m) ==
    /\ mail[m].state = "uncertain"
    /\ mail[m].reason = "receipt-unconfirmed-after-delivery"
    /\ turn[mail[m].by] = m

\* A settle retried late never declares a running turn unconfirmed: it leaves
\* the claims taken since its snapshot alone.  Urgent mail is excepted: its
\* claim is older than its turn by an awaited interrupt, in which a snapshot
\* may be taken (ChatSessionManager.ts, handleDriverEvent).
LateSettleSparesTurns ==
    \A m \in Message : ~mail[m].urgent => ~UncertainTooEarly(m)

\* A row reserved for a spawn has that spawn under way, and a slot is taken
\* only while it is: nothing can cancel or claim the row otherwise.
SpawnKeepsItsSlot ==
    up => \A m \in Message :
            /\ mail[m].state = "spawning"
                  => flight[m].stage \in {"spawn", "born", "prepare-reserved"}
            /\ m \in reserved <=> flight[m].stage \in {"spawn", "born"}

\* Mail held as uncertain was pushed: a claim that never reached its push is
\* queued again, whatever the transcript looks like
\* (openspec/specs/agent-mailbox/spec.md:195).
UncertainWasPushed ==
    \A m \in Message : mail[m].state = "uncertain" => handed[m] # "no"

\* Direct mail waiting for a killed session can never arrive and is dead
\* (mailboxStore.ts, deadLetterDirectTo).
NoMailForTheKilled ==
    \A m \in Message :
        /\ up /\ mail[m].state \in {"queued", "awaiting-request"}
        /\ Direct(mail[m])
        => life[mail[m].to] # "killed"

-----------------------------------------------------------------------------
(***************************************************************************)
(* Delivery implements the mailbox's promise.  A claim that has not been   *)
(* given to its agent is still waiting there.                              *)
(***************************************************************************)
StatusOf(m) ==
    CASE mail[m].state = "absent"                   -> "unsent"
      [] Deliverable(m)                             -> "waiting"
      [] mail[m].state = "claimed" /\ ~Deliverable(m) -> "given"
      [] mail[m].state = "uncertain"                -> "unsure"
      [] mail[m].state = "delivered"                -> "received"
      [] OTHER                                      -> "ended"

Promise ==
    INSTANCE MailPromise WITH status  <- [m \in Message |-> StatusOf(m)],
                              request <- asked,
                              unread  <- pipe,
                              read    <- transcript

\* Dispatcher, spawns, settles, receipts, retries and startup together do no
\* more to a message than MailPromise allows: a request is given once, what
\* was ended or received is never taken up again unasked, and received means
\* read.
KeepsPromise == Promise!Spec
=============================================================================
