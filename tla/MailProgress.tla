---------------------------- MODULE MailProgress ----------------------------
(***************************************************************************)
(* Progress of team mail.  While humans, agents and failures keep          *)
(* intervening a message may wait for ever, so progress is promised once   *)
(* they stop: at some moment the surroundings become calm, and from then   *)
(* on only what the server and its agents do of themselves happens - the   *)
(* dispatcher's passes, a turn coming to its end, the transcript tail, the *)
(* retry timer, the human answering an open card, a stopped server being   *)
(* started again.                                                          *)
(*                                                                         *)
(* The dispatcher is notified of every store change, turn end and answered *)
(* card, and a pass repeats while it was notified during the last one, so  *)
(* what it can do it does: weak fairness of the calm steps together.       *)
(***************************************************************************)
EXTENDS MailDelivery

VARIABLE calm   \* nobody intervenes any more

progressVars == <<vars, calm>>

ProgressInit == Init /\ calm = FALSE

\* A pass begun in the calm picks recipients that can take the mail, and
\* refuses a push only when its claim is refused.
CalmDispatching(m) ==
    \/ HoldForCard(m) \/ CardGone(m) \/ PickUrgent(m)
    \/ (PickDirect(m) /\ Eligible(mail[m].to, m, FALSE))
    \/ Reserve(m)
    \/ \E s \in Session : PickMember(m, s) \/ SpawnCreates(m, s)
    \/ SpawnReturns(m)
    \/ (PushRefused(m) /\ ~ClaimWins(m))
    \/ Push(m) \/ ClaimAndInterrupt(m) \/ AfterInterrupt(m)

CalmSession(s) ==
    \/ \E q \in Request : Record(s, q)
    \/ \E m \in Message : TailReceipt(s, m)
    \/ EndTurn(s, "success") \/ RetrySettle(s) \/ Answer(s)

CalmStep ==
    \/ \E m \in Message : CalmDispatching(m)
    \/ \E s \in Session : CalmSession(s)
    \/ Start

ProgressNext ==
    \/ ~calm /\ Next /\ calm' = FALSE
    \/ ~calm /\ calm' = TRUE /\ UNCHANGED vars
    \/ calm /\ CalmStep /\ calm' = TRUE

ProgressSpec ==
    /\ ProgressInit /\ [][ProgressNext]_progressVars
    /\ WF_progressVars(calm /\ CalmStep /\ calm' = TRUE)

-----------------------------------------------------------------------------
\* Somebody could take the message.
TakerExists(m) ==
    \/ /\ Direct(mail[m])
       /\ life[mail[m].to] = "live" /\ mail[m].to \notin flagged
    \/ /\ ToGroup(mail[m])
       /\ \E s \in Session :
            /\ Member(s, m)
            /\ life[s] \in {"none", "live"} /\ s \notin flagged

\* A stop or an interrupt withdrew the prompt before the agent read it, and
\* no turn has ended since: the claim stays for the next settle.
Withdrawn(m) ==
    /\ mail[m].pushed /\ Idle(mail[m].by)
    /\ ~Copied(<<m, asked[m]>>)

\* Once the surroundings are calm, waiting mail that somebody could take does
\* not wait for ever, wherever a spawn, a push, an interrupt, a card or a
\* crash had left it.
WaitingMailIsTaken ==
    \A m \in Message :
        <>calm => <>[](Waiting(mail[m]) => ~TakerExists(m))

\* A claim is confirmed, given back or held for the human at the latest when
\* its recipient's turn ends, except for a prompt withdrawn unread.
ClaimsAreSettled ==
    \A m \in Message :
        <>calm => <>[](mail[m].state = "claimed" => Withdrawn(m))
=============================================================================
