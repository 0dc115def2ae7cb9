----------------------------- MODULE MailTypes -----------------------------
(***************************************************************************)
(* Type correctness of MailDelivery, for every choice of its constants.    *)
(*                                                                         *)
(* TypeOK is not inductive: a pushed envelope is a <<message, request>>    *)
(* pair only because mail that is not "absent" has been asked for, a push  *)
(* has a session to go to only because of the stage it is in, and so on.   *)
(* Grounded adds these facts.                                              *)
(***************************************************************************)
EXTENDS MailDelivery, TLAPS

WithSession == {"prepare", "prepare-reserved", "prepare-interrupt",
                "interrupt", "born"}

Grounded ==
    /\ \A m \in Message : (mail[m].state = "absent") <=> (asked[m] = 0)
    /\ \A m \in Message : draft[m] # None => mail[m].state = "absent"
    /\ \A m \in Message : mail[m].state = "claimed" => mail[m].at \in Stamp
    /\ \A m \in Message :
          flight[m].stage \in WithSession => flight[m].who \in Session

Typed == TypeOK /\ Grounded

-----------------------------------------------------------------------------
(***************************************************************************)
(* Rows                                                                    *)
(***************************************************************************)
\* n may follow r by a statement that claims nothing: a row stays a row, is
\* not inserted or removed, and a claim found in it was there before.
Keeps(r, n) ==
    /\ n \in Row
    /\ (n.state = "absent") <=> (r.state = "absent")
    /\ n.state = "claimed" =>
         /\ r.state = "claimed" /\ n.at = r.at /\ n.by = r.by
         /\ r.pushed => n.pushed

LEMMA KeepsTransitive ==
    ASSUME NEW r \in Row, NEW n, NEW q, Keeps(r, n), Keeps(n, q)
    PROVE  Keeps(r, q)
BY DEF Keeps

LEMMA KeepsReflexive == \A r \in Row : Keeps(r, r)
BY DEF Keeps

\* Every statement of the store but the claims keeps the row, whatever row it
\* is given.
LEMMA RowKeeps ==
    ASSUME NEW r \in Row
    PROVE  /\ Keeps(r, HoldForRequest(r))
           /\ Keeps(r, ReserveForSpawn(r))
           /\ Keeps(r, MarkPushed(r))
           /\ Keeps(r, MarkDelivered(r))
           /\ Keeps(r, Requeue(r))
           /\ Keeps(r, CancelWaiting(r))
           /\ Keeps(r, Discard(r))
           /\ \A why \in Reason : /\ Keeps(r, DeadLetter(r, why))
                                  /\ Keeps(r, DeadLetterDelivered(r, why))
                                  /\ Keeps(r, HoldUncertain(r, why))
           /\ \A s \in Session, why \in Reason :
                Keeps(r, DeadLetterDirectTo(r, s, why))
<1>1. Keeps(r, HoldForRequest(r))
  BY DEF Keeps, HoldForRequest, From, Row, MessageState
<1>2. Keeps(r, ReserveForSpawn(r))
  BY DEF Keeps, ReserveForSpawn, From, Row, MessageState
<1>3. Keeps(r, MarkPushed(r))
  BY DEF Keeps, MarkPushed, From, Row, MessageState
<1>4. Keeps(r, MarkDelivered(r))
  BY DEF Keeps, MarkDelivered, From, Row, MessageState
<1>5. Keeps(r, Requeue(r))
  BY DEF Keeps, Requeue, From, Row, MessageState
<1>6. Keeps(r, CancelWaiting(r))
  BY DEF Keeps, CancelWaiting, From, Row, MessageState
<1>7. Keeps(r, Discard(r))
  BY DEF Keeps, Discard, From, Row, MessageState
<1>8. ASSUME NEW why \in Reason
      PROVE  /\ Keeps(r, DeadLetter(r, why))
             /\ Keeps(r, DeadLetterDelivered(r, why))
             /\ Keeps(r, HoldUncertain(r, why))
  <2>1. Keeps(r, DeadLetter(r, why))
    BY DEF Keeps, DeadLetter, From, Row, MessageState
  <2>2. Keeps(r, DeadLetterDelivered(r, why))
    BY DEF Keeps, DeadLetterDelivered, From, Row, MessageState
  <2>3. Keeps(r, HoldUncertain(r, why))
    BY DEF Keeps, HoldUncertain, From, Row, MessageState
  <2> QED
    BY <2>1, <2>2, <2>3
<1>9. ASSUME NEW s \in Session, NEW why \in Reason
      PROVE  Keeps(r, DeadLetterDirectTo(r, s, why))
  BY DEF Keeps, DeadLetterDirectTo, From, Row, MessageState
<1> QED
  BY <1>1, <1>2, <1>3, <1>4, <1>5, <1>6, <1>7, <1>8, <1>9

\* A claim leaves the row alone or makes it the claim of s, stamped t.
Claims(r, n, s, t) ==
    /\ n \in Row
    /\ (n.state = "absent") <=> (r.state = "absent")
    /\ \/ n = r
       \/ n.state = "claimed" /\ n.by = s /\ n.at = t /\ n.to = r.to

LEMMA ClaimTypes ==
    ASSUME NEW r \in Row, NEW s \in Session, NEW t \in Stamp
    PROVE  Claims(r, Claim(r, s, t), s, t) /\ Claims(r, ClaimSpawned(r, s, t), s, t)
<1>1. Claims(r, Claim(r, s, t), s, t)
  BY DEF Claims, Claim, From, Row, MessageState
<1>2. Claims(r, ClaimSpawned(r, s, t), s, t)
  BY DEF Claims, ClaimSpawned, From, Row, MessageState
<1> QED
  BY <1>1, <1>2

\* The insert makes a row; the human's retry keeps one.
LEMMA AskTypes ==
    /\ AbsentRow \in Row /\ AbsentRow.state = "absent"
    /\ \A to \in Session \cup Group, urgent, over \in BOOLEAN :
         /\ Enqueue(to, urgent, over) \in Row
         /\ Enqueue(to, urgent, over).state \in {"queued", "dead"}
    /\ \A r \in Row : \A exists, flags : Keeps(r, Retry(r, exists, flags))
<1>1. AbsentRow \in Row /\ AbsentRow.state = "absent"
  BY DEF AbsentRow, Row, MessageState, Reason
<1>2. ASSUME NEW to \in Session \cup Group, NEW urgent \in BOOLEAN,
             NEW over \in BOOLEAN
      PROVE  /\ Enqueue(to, urgent, over) \in Row
             /\ Enqueue(to, urgent, over).state \in {"queued", "dead"}
  BY <1>2 DEF Enqueue, AbsentRow, Row, MessageState, Reason
<1>3. ASSUME NEW r \in Row, NEW exists, NEW flags
      PROVE  Keeps(r, Retry(r, exists, flags))
  <2>1. RetryRecipient(r) \in Session \cup {None}
    BY DEF RetryRecipient, Row, Direct
  <2>2. RetryKilled(r) \in Row /\ RetryKilled(r).state = "dead"
    BY <2>1 DEF RetryKilled, Row, MessageState, Reason
  <2>3. /\ RetryDead(r) \in Row /\ RetryDead(r).state = "queued"
        /\ RetryUncertain(r) \in Row /\ RetryUncertain(r).state = "queued"
    BY DEF RetryDead, RetryUncertain, Row, MessageState, Reason
  <2> QED
    BY <2>2, <2>3 DEF Retry, Keeps
<1> QED
  BY <1>1, <1>2, <1>3

\* A settled row keeps.
LEMMA SettleKeeps ==
    ASSUME NEW r \in Row, NEW found
    PROVE  Keeps(r, SettleRow(r, found))
<1> "receipt-unconfirmed-after-delivery" \in Reason
  BY DEF Reason
<1> QED
  BY RowKeeps DEF SettleRow

-----------------------------------------------------------------------------
(***************************************************************************)
(* Steps                                                                   *)
(***************************************************************************)
\* One row kept, the others as they were.
LEMMA OneRowKept ==
    ASSUME TypeOK, NEW m \in Message, NEW n, Keeps(mail[m], n),
           mail' = [mail EXCEPT ![m] = n]
    PROVE  /\ mail' \in [Message -> Row]
           /\ \A k \in Message : Keeps(mail[k], mail'[k])
BY KeepsReflexive DEF TypeOK, Keeps

\* A step that only keeps rows, and sends no flight off without a session,
\* stays grounded.
LEMMA KeepsGrounded ==
    ASSUME Typed,
           \A m \in Message : Keeps(mail[m], mail'[m]),
           asked' = asked,
           \A m \in Message : draft'[m] # None => mail[m].state = "absent",
           \A m \in Message :
               flight'[m].stage \in WithSession => flight'[m].who \in Session
    PROVE  Grounded'
BY DEF Typed, Grounded, Keeps

LEMMA InitTyped == Init => Typed
<1> SUFFICES ASSUME Init PROVE Typed
  OBVIOUS
<1>1. TypeOK
  BY AskTypes, DeliveryAssumption DEF Init, TypeOK, Landed, Flight, Stage
<1>2. Grounded
  BY AskTypes DEF Init, Grounded, Landed, WithSession, AbsentRow
<1> QED
  BY <1>1, <1>2 DEF Typed

\* Senders
LEMMA SendingTyped ==
    ASSUME Typed, NEW m \in Message, Sending(m)
    PROVE  Typed'
<1> USE DeliveryAssumption, NamesAssumption
<1>1. ASSUME NEW s \in Session, Compose(m, s) PROVE Typed'
  <2>1. TypeOK'
    BY <1>1 DEF Typed, TypeOK, Compose, world, history
  <2>2. Grounded'
    BY <1>1 DEF Typed, TypeOK, Grounded, Compose, world, history
  <2> QED
    BY <2>1, <2>2 DEF Typed
<1>2. ASSUME NEW to \in Session \cup Group, NEW urgent \in BOOLEAN,
             NEW over \in BOOLEAN, Store(m, to, urgent, over),
             mail[m].state = "absent",
             draft' \in [Message -> Session \cup {None}], draft'[m] = None,
             \A k \in Message \ {m} : draft'[k] = draft[k],
             UNCHANGED <<sessions, dispatch, world, handed, dropped>>
      PROVE  Typed'
  <2> DEFINE n == Enqueue(to, urgent, over)
  <2>1. n \in Row /\ n.state \in {"queued", "dead"}
    BY AskTypes
  <2>2. mail' = [mail EXCEPT ![m] = n] /\ asked' = [asked EXCEPT ![m] = 1]
    BY <1>2 DEF Store
  <2> HIDE DEF n
  <2>3. TypeOK'
    BY <1>2, <2>1, <2>2 DEF Typed, TypeOK, sessions, dispatch, world
  <2>4. Grounded'
    BY <1>2, <2>1, <2>2 DEF Typed, TypeOK, Grounded, sessions, dispatch, world
  <2> QED
    BY <2>3, <2>4 DEF Typed
<1>3. ASSUME NEW urgent \in BOOLEAN, NEW over \in BOOLEAN,
             CommitDirect(m, urgent, over)
      PROVE  Typed'
  <2>1. draft[m] \in Session /\ mail[m].state = "absent"
    BY <1>3 DEF Typed, TypeOK, Grounded, CommitDirect
  <2> QED
    BY <1>2, <1>3, <2>1 DEF CommitDirect, Typed, TypeOK
<1>4. ASSUME NEW g \in Group, NEW urgent \in BOOLEAN, NEW over \in BOOLEAN,
             SendToGroup(m, g, urgent, over)
      PROVE  Typed'
  BY <1>2, <1>4 DEF SendToGroup, Typed, TypeOK
<1> QED
  BY <1>1, <1>3, <1>4 DEF Sending

\* The human's management of mail
LEMMA ManagingTyped ==
    ASSUME Typed, NEW m \in Message, Managing(m)
    PROVE  Typed'
<1>1. mail[m] \in Row
  BY DEF Typed, TypeOK
<1>2. ASSUME NEW n, Keeps(mail[m], n), mail' = [mail EXCEPT ![m] = n],
             UNCHANGED <<sessions, dispatch, world, history, draft>>
      PROVE  Typed'
  <2>1. /\ mail' \in [Message -> Row]
        /\ \A k \in Message : Keeps(mail[k], mail'[k])
    BY <1>2, OneRowKept DEF Typed
  <2>2. TypeOK'
    BY <1>2, <2>1 DEF Typed, TypeOK, sessions, dispatch, world, history
  <2>3. Grounded'
    BY <1>2, <2>1, KeepsGrounded DEF Typed, Grounded, dispatch, history
  <2> QED
    BY <2>2, <2>3 DEF Typed
<1>3. CASE Cancel(m)
  BY <1>1, <1>2, <1>3, RowKeeps DEF Cancel
<1>4. CASE DiscardMail(m)
  BY <1>1, <1>2, <1>4, RowKeeps DEF DiscardMail
<1>5. CASE CloseTask(m)
  <2>1. "task-closed" \in Reason
    BY DEF Reason
  <2> QED
    BY <1>1, <1>2, <1>5, <2>1, RowKeeps DEF CloseTask
<1>6. CASE RetryMail(m)
  <2> DEFINE n == Retry(mail[m], Exists, flagged)
  <2>1. Keeps(mail[m], n)
    BY <1>1, AskTypes
  <2>2. mail' = [mail EXCEPT ![m] = n]
    BY <1>6 DEF RetryMail
  <2> HIDE DEF n
  <2>3. /\ mail' \in [Message -> Row]
        /\ \A k \in Message : Keeps(mail[k], mail'[k])
    BY <2>1, <2>2, OneRowKept DEF Typed
  <2>4. /\ asked' \in [Message -> 0..MaxAsk]
        /\ \A k \in Message : (asked'[k] = 0) <=> (asked[k] = 0)
    BY <1>6, DeliveryAssumption DEF RetryMail, Typed, TypeOK, Grounded
  <2>5. TypeOK'
    BY <1>6, <2>3, <2>4 DEF RetryMail, Typed, TypeOK, sessions, dispatch, world
  <2>6. Grounded'
    BY <1>6, <2>3, <2>4
       DEF RetryMail, Typed, Grounded, Keeps, sessions, dispatch, world
  <2> QED
    BY <2>5, <2>6 DEF Typed
<1> QED
  BY <1>3, <1>4, <1>5, <1>6 DEF Managing

\* One flight changed, the others as they were.
LEMMA FlightChanged ==
    ASSUME Typed, NEW m \in Message, NEW f \in Flight,
           f.stage \in WithSession => f.who \in Session,
           flight' = [flight EXCEPT ![m] = f]
    PROVE  /\ flight' \in [Message -> Flight]
           /\ \A k \in Message :
                flight'[k].stage \in WithSession => flight'[k].who \in Session
BY DEF Typed, TypeOK, Grounded

\* The dispatcher.  A flight that takes off knows its session, or is a spawn.
LEMMA TakeOffTyped ==
    ASSUME Typed, NEW m \in Message, NEW stage \in Stage,
           NEW who \in Session \cup {None},
           stage \in WithSession => who \in Session,
           TakeOff(m, stage, who)
    PROVE  /\ flight' \in [Message -> Flight]
           /\ \A k \in Message :
                flight'[k].stage \in WithSession => flight'[k].who \in Session
<1>1. mail[m].to \in Session \cup Group \cup {None}
  BY DEF Typed, TypeOK, Row
<1>2. [stage |-> stage, who |-> who, lane |-> mail[m].to] \in Flight
  BY <1>1 DEF Flight
<1> QED
  BY <1>2 DEF TakeOff, Typed, TypeOK, Grounded

LEMMA PickingTyped ==
    ASSUME Typed, NEW m \in Message,
           \/ HoldForCard(m) \/ CardGone(m) \/ PickUrgent(m) \/ PickDirect(m)
           \/ \E s \in Session : PickMember(m, s)
    PROVE  Typed'
<1> USE NamesAssumption
<1>1. mail[m] \in Row
  BY DEF Typed, TypeOK
<1>2. ASSUME NEW n, Keeps(mail[m], n), mail' = [mail EXCEPT ![m] = n],
             UNCHANGED <<sessions, dispatch, world, history, draft>>
      PROVE  Typed'
  <2>1. /\ mail' \in [Message -> Row]
        /\ \A k \in Message : Keeps(mail[k], mail'[k])
    BY <1>2, OneRowKept DEF Typed
  <2>2. TypeOK'
    BY <1>2, <2>1 DEF Typed, TypeOK, sessions, dispatch, world, history
  <2>3. Grounded'
    BY <1>2, <2>1, KeepsGrounded DEF Typed, Grounded, dispatch, history
  <2> QED
    BY <2>2, <2>3 DEF Typed
<1>3. ASSUME NEW stage \in Stage \ {"born"}, NEW s \in Session,
             TakeOff(m, stage, s),
             UNCHANGED <<mail, reserved, sessions, world, history, draft>>
      PROVE  Typed'
  <2>1. /\ flight' \in [Message -> Flight]
        /\ \A k \in Message :
             flight'[k].stage \in WithSession => flight'[k].who \in Session
    BY <1>3, TakeOffTyped
  <2>2. TypeOK'
    BY <1>3, <2>1 DEF Typed, TypeOK, sessions, world, history
  <2>3. Grounded'
    BY <1>3, <2>1 DEF Typed, Grounded, history
  <2> QED
    BY <2>2, <2>3 DEF Typed
<1>4. CASE HoldForCard(m)
  BY <1>1, <1>2, <1>4, RowKeeps DEF HoldForCard
<1>5. CASE CardGone(m)
  BY <1>1, <1>2, <1>5, RowKeeps DEF CardGone
<1>6. CASE PickUrgent(m)
  BY <1>3, <1>6 DEF PickUrgent, Direct, Stage
<1>7. CASE PickDirect(m)
  BY <1>3, <1>7 DEF PickDirect, Direct, Stage
<1>8. ASSUME NEW s \in Session, PickMember(m, s) PROVE Typed'
  BY <1>3, <1>8 DEF PickMember, Stage
<1> QED
  BY <1>4, <1>5, <1>6, <1>7, <1>8

LEMMA SpawningTyped ==
    ASSUME Typed, NEW m \in Message,
           \/ Reserve(m) \/ SpawnReturns(m) \/ SpawnFails(m) \/ PushRefused(m)
           \/ \E s \in Session : SpawnCreates(m, s)
    PROVE  Typed'
<1>1. mail[m] \in Row
  BY DEF Typed, TypeOK
<1>2. ASSUME NEW n, Keeps(mail[m], n), mail' = [mail EXCEPT ![m] = n],
             reserved' \subseteq Message, flight' \in [Message -> Flight],
             \A k \in Message :
                 flight'[k].stage \in WithSession => flight'[k].who \in Session,
             UNCHANGED <<sessions, world, history, draft>>
      PROVE  Typed'
  <2>1. /\ mail' \in [Message -> Row]
        /\ \A k \in Message : Keeps(mail[k], mail'[k])
    BY <1>2, OneRowKept DEF Typed
  <2>2. TypeOK'
    BY <1>2, <2>1 DEF Typed, TypeOK, sessions, world, history
  <2>3. Grounded'
    BY <1>2, <2>1, KeepsGrounded DEF Typed, Grounded, history
  <2> QED
    BY <2>2, <2>3 DEF Typed
<1>3. ASSUME flight' = [flight EXCEPT ![m] = Landed]
      PROVE  /\ flight' \in [Message -> Flight]
             /\ \A k \in Message :
                  flight'[k].stage \in WithSession => flight'[k].who \in Session
  BY <1>3 DEF Typed, TypeOK, Grounded, Landed, Flight, Stage, WithSession
<1>4. CASE Reserve(m)
  <2>1. /\ flight' \in [Message -> Flight]
        /\ \A k \in Message :
             flight'[k].stage \in WithSession => flight'[k].who \in Session
    BY <1>4, TakeOffTyped DEF Reserve, Stage, WithSession
  <2> QED
    BY <1>1, <1>2, <1>4, <2>1, RowKeeps DEF Reserve, Typed, TypeOK
<1>5. CASE SpawnReturns(m)
  <2>1. reserved' \subseteq Message
    BY <1>5 DEF SpawnReturns, Typed, TypeOK
  <2>2. CASE HasRecord(flight[m].who)
    <3>1. /\ flight' = [flight EXCEPT ![m].stage = "prepare-reserved"]
          /\ mail' = mail /\ UNCHANGED <<sessions, world, history, draft>>
          /\ flight[m].who \in Session
      BY <1>5, <2>2 DEF SpawnReturns, Typed, Grounded, WithSession
    <3>2. /\ flight' \in [Message -> Flight]
          /\ \A k \in Message :
               flight'[k].stage \in WithSession => flight'[k].who \in Session
      <4> DEFINE f == [flight[m] EXCEPT !.stage = "prepare-reserved"]
      <4>1. flight[m] \in Flight
        BY DEF Typed, TypeOK
      <4>2. f \in Flight /\ f.who \in Session
        BY <3>1, <4>1 DEF Flight, Stage
      <4>3. flight' = [flight EXCEPT ![m] = f]
        BY <3>1
      <4> HIDE DEF f
      <4> QED
        BY <4>2, <4>3, FlightChanged
    <3>3. mail' = [mail EXCEPT ![m] = mail[m]]
      BY <3>1 DEF Typed, TypeOK
    <3> QED
      BY <1>1, <1>2, <2>1, <3>1, <3>2, <3>3, KeepsReflexive
  <2>3. CASE ~HasRecord(flight[m].who)
    <3> DEFINE n == IF mail[m].state = "spawning" THEN Requeue(mail[m]) ELSE mail[m]
    <3>1. Keeps(mail[m], n)
      BY <1>1, RowKeeps, KeepsReflexive
    <3>2. mail' = [mail EXCEPT ![m] = n] /\ flight' = [flight EXCEPT ![m] = Landed]
      BY <1>5, <2>3 DEF SpawnReturns
    <3> HIDE DEF n
    <3> QED
      BY <1>2, <1>3, <1>5, <2>1, <3>1, <3>2 DEF SpawnReturns
  <2> QED
    BY <2>2, <2>3
<1>6. CASE SpawnFails(m)
  BY <1>1, <1>2, <1>3, <1>6, RowKeeps DEF SpawnFails, Typed, TypeOK
<1>7. CASE PushRefused(m)
  <2> DEFINE n == IF flight[m].stage = "prepare-reserved" /\ mail[m].state = "spawning"
                    THEN Requeue(mail[m]) ELSE mail[m]
  <2>1. Keeps(mail[m], n)
    BY <1>1, RowKeeps, KeepsReflexive
  <2>2. mail' = [mail EXCEPT ![m] = n] /\ flight' = [flight EXCEPT ![m] = Landed]
    BY <1>7 DEF PushRefused
  <2> HIDE DEF n
  <2> QED
    BY <1>2, <1>3, <1>7, <2>1, <2>2 DEF PushRefused, Typed, TypeOK
<1>8. ASSUME NEW s \in Session, SpawnCreates(m, s) PROVE Typed'
  <2>1. /\ flight' \in [Message -> Flight]
        /\ \A k \in Message :
             flight'[k].stage \in WithSession => flight'[k].who \in Session
    <3> DEFINE f == [flight[m] EXCEPT !.stage = "born", !.who = s]
    <3>1. flight[m] \in Flight
      BY DEF Typed, TypeOK
    <3>2. f \in Flight /\ f.who \in Session
      BY <3>1 DEF Flight, Stage
    <3>3. flight' = [flight EXCEPT ![m] = f]
      BY <1>8 DEF SpawnCreates
    <3> HIDE DEF f
    <3> QED
      BY <3>2, <3>3, FlightChanged
  <2>2. TypeOK'
    BY <1>8, <2>1 DEF SpawnCreates, Typed, TypeOK, world, history
  <2>3. Grounded'
    BY <1>8, <2>1 DEF SpawnCreates, Typed, Grounded, history
  <2> QED
    BY <2>2, <2>3 DEF Typed
<1> QED
  BY <1>4, <1>5, <1>6, <1>7, <1>8

\* The claim a push wins is of the session it is made for, freshly stamped.
LEMMA ClaimRowTypes ==
    ASSUME Typed, NEW m \in Message, ClaimWins(m)
    PROVE  /\ flight[m].who \in Session
           /\ ClaimRow(m) \in Row
           /\ ClaimRow(m).state = "claimed"
           /\ ClaimRow(m).by = flight[m].who
           /\ ClaimRow(m).at \in Stamp
           /\ mail[m].state \in {"queued", "awaiting-request", "spawning"}
<1>1. flight[m].who \in Session
  BY DEF ClaimWins, Typed, Grounded, WithSession
<1>2. NewStamp(m) \in Stamp
  BY DEF ClaimWins, CanStamp, NewStamp
<1>3. mail[m] \in Row
  BY DEF Typed, TypeOK
<1>4. mail[m].state \in {"queued", "awaiting-request", "spawning"}
  BY DEF ClaimWins, Claimable
<1>5. ClaimRow(m) \in Row
  BY <1>1, <1>2, <1>3, ClaimTypes DEF ClaimRow, Claims
<1>6. /\ ClaimRow(m).state = "claimed" /\ ClaimRow(m).by = flight[m].who
      /\ ClaimRow(m).at = NewStamp(m)
  BY <1>1, <1>2, <1>3 DEF ClaimWins, Claimable, ClaimRow, Claim, ClaimSpawned,
                          From, Row
<1> QED
  BY <1>1, <1>2, <1>4, <1>5, <1>6

\* The flight lands: whatever became of it, the step stays typed.
LEMMA LandingTyped ==
    ASSUME Typed, NEW m \in Message, NEW n \in Row, n.state # "absent",
           n.state = "claimed" => n.at \in Stamp, mail[m].state # "absent",
           mail' = [mail EXCEPT ![m] = n],
           flight' = [flight EXCEPT ![m] = Landed],
           handed' \in [Message -> {"no", "marked", "given"}],
           pipe' \in [Session -> SUBSET Request],
           turn' \in [Session -> Message \cup {"idle", "own"}],
           UNCHANGED <<reserved, life, card, flagged, transcript, chain, world,
                       asked, dropped, draft>>
    PROVE  Typed'
<1>1. mail' \in [Message -> Row]
  BY DEF Typed, TypeOK
<1>2. Landed \in Flight /\ Landed.stage \notin WithSession
  BY DEF Landed, Flight, Stage, WithSession
<1>3. /\ flight' \in [Message -> Flight]
      /\ \A k \in Message :
           flight'[k].stage \in WithSession => flight'[k].who \in Session
  BY <1>2, FlightChanged
<1>4. TypeOK'
  BY <1>1, <1>3 DEF Typed, TypeOK, world
<1>5. Grounded'
  BY <1>3 DEF Typed, TypeOK, Grounded
<1> QED
  BY <1>4, <1>5 DEF Typed

\* Handing the envelope over, or throwing while doing so
LEMMA SubmitTyped ==
    ASSUME Typed, NEW m \in Message, NEW s \in Session, NEW row \in Row,
           row.state = "claimed", row.at \in Stamp, mail[m].state # "absent",
           Submit(m, s, row) \/ SubmitThrows(m, s, row),
           UNCHANGED <<reserved, life, card, flagged, transcript, chain, world,
                       asked, dropped, draft>>
    PROVE  Typed'
<1>1. <<m, asked[m]>> \in Request
  BY DeliveryAssumption DEF Typed, TypeOK, Grounded, Request
<1>2. /\ [pipe EXCEPT ![s] = @ \cup {<<m, asked[m]>>}]
           \in [Session -> SUBSET Request]
      /\ [turn EXCEPT ![s] = m] \in [Session -> Message \cup {"idle", "own"}]
      /\ [handed EXCEPT ![m] = "given"] \in [Message -> {"no", "marked", "given"}]
      /\ pipe \in [Session -> SUBSET Request]
      /\ turn \in [Session -> Message \cup {"idle", "own"}]
  BY <1>1 DEF Typed, TypeOK
<1>3. /\ MarkPushed(row) \in Row
      /\ MarkPushed(row).state = "claimed"
      /\ MarkPushed(row).at = row.at
  BY DEF MarkPushed, From, Row
<1>4. CASE Submit(m, s, row)
  BY <1>2, <1>3, <1>4, LandingTyped DEF Submit
<1>5. CASE SubmitThrows(m, s, row)
  <2> DEFINE held == HoldUncertain(MarkPushed(row), "delivery-submit-failed")
  <2>1. held \in Row /\ held.state = "uncertain"
    BY <1>3 DEF HoldUncertain, From, Row, MessageState, Reason
  <2>2. MarkDelivered(held) \in Row /\ MarkDelivered(held).state = "delivered"
    BY <2>1 DEF MarkDelivered, From, Row, MessageState
  <2>3. /\ \/ mail' = [mail EXCEPT ![m] = held]
           \/ mail' = [mail EXCEPT ![m] = MarkDelivered(held)]
        /\ flight' = [flight EXCEPT ![m] = Landed]
        /\ handed' = [handed EXCEPT ![m] = "given"]
        /\ \/ pipe' = pipe /\ turn' = turn
           \/ /\ pipe' = [pipe EXCEPT ![s] = @ \cup {<<m, asked[m]>>}]
              /\ turn' = [turn EXCEPT ![s] = m]
    BY <1>5 DEF SubmitThrows
  <2> HIDE DEF held
  <2>4. /\ handed' \in [Message -> {"no", "marked", "given"}]
        /\ pipe' \in [Session -> SUBSET Request]
        /\ turn' \in [Session -> Message \cup {"idle", "own"}]
    BY <1>2, <2>3
  <2>5. CASE mail' = [mail EXCEPT ![m] = held]
    BY <2>1, <2>3, <2>4, <2>5, LandingTyped
  <2>6. CASE mail' = [mail EXCEPT ![m] = MarkDelivered(held)]
    BY <2>2, <2>3, <2>4, <2>6, LandingTyped
  <2> QED
    BY <2>3, <2>5, <2>6
<1> QED
  BY <1>4, <1>5

LEMMA PushingTyped ==
    ASSUME Typed, NEW m \in Message,
           Push(m) \/ ClaimAndInterrupt(m) \/ AfterInterrupt(m)
    PROVE  Typed'
<1>1. mail[m] \in Row
  BY DEF Typed, TypeOK
<1>2. CASE Push(m)
  <2>1. ClaimWins(m)
    BY <1>2 DEF Push
  <2> QED
    BY <1>2, <2>1, ClaimRowTypes, SubmitTyped DEF Push
<1>3. CASE ClaimAndInterrupt(m)
  <2> DEFINE f == [flight[m] EXCEPT !.stage = "interrupt"]
  <2>1. ClaimWins(m) /\ mail' = [mail EXCEPT ![m] = ClaimRow(m)]
    BY <1>3 DEF ClaimAndInterrupt
  <2>2. /\ flight[m].who \in Session /\ ClaimRow(m) \in Row
        /\ ClaimRow(m).state = "claimed" /\ ClaimRow(m).at \in Stamp
        /\ mail[m].state \in {"queued", "awaiting-request", "spawning"}
    BY <2>1, ClaimRowTypes
  <2>3. flight[m] \in Flight
    BY DEF Typed, TypeOK
  <2>4. f \in Flight /\ f.who \in Session
    BY <2>2, <2>3 DEF Flight, Stage
  <2>5. flight' = [flight EXCEPT ![m] = f]
    BY <1>3 DEF ClaimAndInterrupt
  <2> HIDE DEF f
  <2>6. /\ flight' \in [Message -> Flight]
        /\ \A k \in Message :
             flight'[k].stage \in WithSession => flight'[k].who \in Session
    BY <2>4, <2>5, FlightChanged
  <2>7. /\ turn' \in [Session -> Message \cup {"idle", "own"}]
        /\ card' \in [Session -> BOOLEAN]
        /\ pipe' \in [Session -> SUBSET Request]
        /\ handed' \in [Message -> {"no", "marked", "given"}]
    BY <1>3, <2>2 DEF ClaimAndInterrupt, Typed, TypeOK
  <2>8. TypeOK'
    BY <1>3, <2>1, <2>2, <2>6, <2>7 DEF ClaimAndInterrupt, Typed, TypeOK, world
  <2>9. Grounded'
    BY <1>3, <2>1, <2>2, <2>6 DEF ClaimAndInterrupt, Typed, TypeOK, Grounded
  <2> QED
    BY <2>8, <2>9 DEF Typed
<1>4. CASE AfterInterrupt(m)
  <2> DEFINE s == flight[m].who
             unlanded == UNCHANGED <<turn, pipe, handed>>
  <2>1. s \in Session
    BY <1>4 DEF AfterInterrupt, Typed, Grounded, WithSession
  <2>2. UNCHANGED <<reserved, life, card, flagged, transcript, chain, world,
                    asked, dropped, draft>>
    BY <1>4 DEF AfterInterrupt
  <2>3. ASSUME unlanded, flight' = [flight EXCEPT ![m] = Landed],
               NEW n, Keeps(mail[m], n), mail' = [mail EXCEPT ![m] = n]
        PROVE  Typed'
    <3>1. /\ flight' \in [Message -> Flight]
          /\ \A k \in Message :
               flight'[k].stage \in WithSession => flight'[k].who \in Session
      BY <2>3, FlightChanged DEF Landed, Flight, Stage, WithSession
    <3>2. /\ mail' \in [Message -> Row]
          /\ \A k \in Message : Keeps(mail[k], mail'[k])
      BY <2>3, OneRowKept DEF Typed
    <3>3. TypeOK'
      BY <2>2, <2>3, <3>1, <3>2 DEF Typed, TypeOK, world
    <3>4. Grounded'
      BY <2>2, <3>1, <3>2, KeepsGrounded DEF Typed, Grounded
    <3> QED
      BY <3>3, <3>4 DEF Typed
  <2>4. ASSUME unlanded, flight' = [flight EXCEPT ![m] = Landed],
               mail' = [mail EXCEPT ![m] =
                         IF card[s] THEN HoldForRequest(Requeue(@))
                                    ELSE Requeue(@)]
        PROVE  Typed'
    <3> DEFINE n == IF card[s] THEN HoldForRequest(Requeue(mail[m]))
                               ELSE Requeue(mail[m])
    <3>1. Keeps(mail[m], Requeue(mail[m]))
      BY <1>1, RowKeeps
    <3>2. Keeps(Requeue(mail[m]), HoldForRequest(Requeue(mail[m])))
      BY <3>1, RowKeeps DEF Keeps
    <3>3. Keeps(mail[m], n)
      BY <1>1, <3>1, <3>2, KeepsTransitive
    <3>4. mail' = [mail EXCEPT ![m] = n]
      BY <2>4
    <3> HIDE DEF n
    <3> QED
      BY <2>3, <2>4, <3>3, <3>4
  <2>5. ASSUME unlanded, flight' = [flight EXCEPT ![m] = Landed], mail' = mail
        PROVE  Typed'
    <3>1. mail' = [mail EXCEPT ![m] = mail[m]]
      BY <2>5 DEF Typed, TypeOK
    <3> QED
      BY <1>1, <2>3, <2>5, <3>1, KeepsReflexive
  <2>6. ASSUME mail[m].state = "claimed",
               Submit(m, s, mail[m]) \/ SubmitThrows(m, s, mail[m])
        PROVE  Typed'
    <3>1. mail[m].at \in Stamp
      BY <2>6 DEF Typed, Grounded
    <3> QED
      BY <1>1, <2>1, <2>2, <2>6, <3>1, SubmitTyped
  <2> QED
    BY <1>4, <2>4, <2>5, <2>6 DEF AfterInterrupt
<1> QED
  BY <1>2, <1>3, <1>4

\* A claim given back or held is a row that claims nothing.
LEMMA UnsubmittedTypes ==
    ASSUME NEW m, NEW s, NEW row \in Row, NEW n \in Unsubmitted(m, s, row)
    PROVE  /\ n \in Row
           /\ n.state # "claimed"
           /\ \/ n = row
              \/ n.state = "queued" /\ row.state = "claimed" /\ ~row.pushed
              \/ n.state = "uncertain"
              \/ n.state = "delivered" /\ Heard(s, m) /\ n.by = row.by
<1> DEFINE held == HoldUncertain(row, "delivery-submit-failed")
<1>1. CASE row.state # "claimed"
  BY <1>1 DEF Unsubmitted
<1>2. CASE row.state = "claimed" /\ ~row.pushed
  <2>1. Requeue(row) \in Row /\ Requeue(row).state = "queued"
    BY <1>2 DEF Requeue, From, Row, MessageState
  <2> QED
    BY <1>2, <2>1 DEF Unsubmitted
<1>3. CASE row.state = "claimed" /\ row.pushed
  <2>1. held \in Row /\ held.state = "uncertain" /\ held.by = row.by
    BY <1>3 DEF HoldUncertain, From, Row, MessageState, Reason
  <2>2. /\ MarkDelivered(held) \in Row /\ MarkDelivered(held).by = row.by
        /\ MarkDelivered(held).state = "delivered"
    BY <2>1 DEF MarkDelivered, From, Row, MessageState
  <2>3. n = held \/ (n = MarkDelivered(held) /\ Heard(s, m))
    BY <1>3 DEF Unsubmitted
  <2> QED
    BY <2>1, <2>2, <2>3
<1> QED
  BY <1>1, <1>2, <1>3 DEF Row

LEMMA PushThrowsTyped ==
    ASSUME Typed, NEW m \in Message, PushThrows(m)
    PROVE  Typed'
<1>1. mail[m] \in Row
  BY DEF Typed, TypeOK
<1>2. /\ flight' = [flight EXCEPT ![m] = Landed]
      /\ handed' \in [Message -> {"no", "marked", "given"}]
      /\ UNCHANGED <<reserved, life, card, flagged, transcript, chain, world,
                     asked, dropped, draft>>
      /\ pipe' \in [Session -> SUBSET Request]
      /\ turn' \in [Session -> Message \cup {"idle", "own"}]
  BY DEF PushThrows, sessions, Typed, TypeOK
<1>3. ASSUME ClaimWins(m), NEW n \in Unsubmitted(m, flight[m].who, ClaimRow(m)),
             mail' = [mail EXCEPT ![m] = n]
      PROVE  Typed'
  <2>1. /\ ClaimRow(m) \in Row /\ ClaimRow(m).state = "claimed"
        /\ mail[m].state # "absent"
    BY <1>3, ClaimRowTypes
  <2>2. n \in Row /\ n.state # "absent" /\ n.state # "claimed"
    BY <1>3, <2>1, UnsubmittedTypes
  <2> QED
    BY <1>2, <1>3, <2>1, <2>2, LandingTyped
<1>4. ASSUME flight[m].stage = "interrupt",
             NEW n \in Unsubmitted(m, flight[m].who, mail[m]),
             mail' = [mail EXCEPT ![m] = n], UNCHANGED <<pipe, turn, handed>>
      PROVE  Typed'
  <2>1. /\ n \in Row /\ n.state # "claimed"
        /\ n = mail[m] \/ n.state \in {"queued", "uncertain", "delivered"}
    BY <1>1, <1>4, UnsubmittedTypes
  <2>2. n.state = "absent" => mail[m].state = "absent"
    BY <2>1
  <2>3. CASE mail[m].state # "absent"
    BY <1>2, <1>4, <2>1, <2>2, <2>3, LandingTyped
  <2>4. CASE mail[m].state = "absent"
    <3>1. n = mail[m]
      BY <1>4, <2>4 DEF Unsubmitted
    <3>2. mail' = mail
      BY <1>4, <3>1 DEF Typed, TypeOK
    <3>3. /\ flight' \in [Message -> Flight]
          /\ \A k \in Message :
               flight'[k].stage \in WithSession => flight'[k].who \in Session
      BY <1>2, FlightChanged DEF Landed, Flight, Stage, WithSession
    <3>4. TypeOK'
      BY <1>2, <1>4, <3>2, <3>3 DEF Typed, TypeOK, world
    <3>5. Grounded'
      BY <1>2, <1>4, <3>2, <3>3 DEF Typed, Grounded
    <3> QED
      BY <3>4, <3>5 DEF Typed
  <2> QED
    BY <2>3, <2>4
<1> QED
  BY <1>3, <1>4 DEF PushThrows, sessions

LEMMA DispatchingTyped ==
    ASSUME Typed, NEW m \in Message, Dispatching(m)
    PROVE  Typed'
BY PickingTyped, SpawningTyped, PushingTyped, PushThrowsTyped DEF Dispatching

\* Rows kept, every one.
AllKept(rows) ==
    /\ rows \in [Message -> Row]
    /\ \A m \in Message : Keeps(mail[m], rows[m])

LEMMA SettledKept ==
    ASSUME TypeOK, NEW claims, NEW found
    PROVE  AllKept(Settled(claims, found))
<1>1. \A m \in Message : Keeps(mail[m], Settled(claims, found)[m])
  BY SettleKeeps, KeepsReflexive DEF TypeOK, Settled
<1>2. \A m \in Message : Settled(claims, found)[m] \in Row
  BY <1>1 DEF Keeps
<1> QED
  BY <1>1, <1>2 DEF AllKept, Settled

LEMMA SettlementTyped ==
    ASSUME Typed, NEW s \in Session
    PROVE  /\ \A rows \in Settle(s) : AllKept(rows)
           /\ \A result \in SettleOrChain(s) :
                /\ AllKept(result[1])
                /\ result[2] \in SUBSET (Message \X Stamp)
<1>1. \A rows \in Settle(s) : AllKept(rows)
  BY SettledKept DEF Typed, Settle
<1>2. AllKept(mail)
  BY KeepsReflexive DEF Typed, TypeOK, AllKept
<1>3. Refs(s) \in SUBSET (Message \X Stamp)
  BY DEF Refs, ClaimsOf, ClaimOf, Typed, Grounded
<1>4. chain[s] \in SUBSET (Message \X Stamp)
  BY DEF Typed, TypeOK
<1>5. ASSUME NEW result \in SettleOrChain(s)
      PROVE  /\ AllKept(result[1])
             /\ result[2] \in SUBSET (Message \X Stamp)
  <2>1. \/ \E rows \in Settle(s) : result = <<rows, chain[s]>>
        \/ result = <<mail, chain[s] \cup Refs(s)>>
    BY <1>5 DEF SettleOrChain
  <2> QED
    BY <1>1, <1>2, <1>3, <1>4, <2>1
<1> QED
  BY <1>1, <1>5

LEMMA DirectKept ==
    ASSUME NEW rows, AllKept(rows), TypeOK, NEW s \in Session,
           NEW why \in Reason, NEW drop \in [Message -> BOOLEAN]
    PROVE  AllKept([m \in Message |->
               DeadLetterDirectTo(IF drop[m] THEN Drop(rows[m]) ELSE rows[m],
                                  s, why)])
<1> DEFINE inner(m) == IF drop[m] THEN Drop(rows[m]) ELSE rows[m]
           outer(m) == DeadLetterDirectTo(inner(m), s, why)
<1>1. ASSUME NEW m \in Message
      PROVE  Keeps(mail[m], outer(m))
  <2>1. rows[m] \in Row /\ Keeps(mail[m], rows[m]) /\ mail[m] \in Row
    BY DEF AllKept, TypeOK
  <2>2. "context-exhausted" \in Reason
    BY DEF Reason
  <2>3. Keeps(rows[m], inner(m))
    BY <2>1, <2>2, RowKeeps, KeepsReflexive DEF Drop
  <2>4. inner(m) \in Row
    BY <2>3 DEF Keeps
  <2> HIDE DEF inner
  <2>5. Keeps(inner(m), outer(m))
    BY <2>4, RowKeeps
  <2> HIDE DEF outer
  <2> QED
    BY <2>1, <2>3, <2>5, KeepsTransitive
<1>2. \A m \in Message : outer(m) \in Row
  BY <1>1 DEF Keeps
<1> HIDE DEF outer
<1>3. AllKept([m \in Message |-> outer(m)])
  BY <1>1, <1>2 DEF AllKept
<1> QED
  BY <1>3 DEF outer

\* A session's step: rows are kept and no flight changes.
LEMMA SessionStepTyped ==
    ASSUME Typed, AllKept(mail'),
           life' \in [Session -> {"none", "live", "archived", "killed"}],
           turn' \in [Session -> Message \cup {"idle", "own"}],
           card' \in [Session -> BOOLEAN],
           flagged' \subseteq Session, dropped' \subseteq Message,
           pipe' \in [Session -> SUBSET Request],
           transcript' \in [Session -> SUBSET Request],
           chain' \in [Session -> SUBSET (Message \X Stamp)],
           UNCHANGED <<dispatch, world, asked, handed, draft>>
    PROVE  Typed'
<1>1. TypeOK'
  BY DEF Typed, TypeOK, AllKept, dispatch, world
<1>2. Grounded'
  BY KeepsGrounded DEF Typed, Grounded, AllKept, dispatch
<1> QED
  BY <1>1, <1>2 DEF Typed

LEMMA AgentTyped ==
    ASSUME Typed, NEW s \in Session, Agent(s) \/ Settling(s)
    PROVE  Typed'
<1>1. AllKept(mail)
  BY KeepsReflexive DEF Typed, TypeOK, AllKept
<1>2. ASSUME NEW q \in Request, Record(s, q) PROVE Typed'
  BY <1>1, <1>2, SessionStepTyped
     DEF Record, Typed, TypeOK, AllKept, history
<1>3. CASE AgentDies(s)
  <2> PICK kept \in {{}, pipe[s]} : pipe' = [pipe EXCEPT ![s] = kept]
    BY <1>3 DEF AgentDies
  <2> PICK result \in SettleOrChain(s) :
             mail' = result[1] /\ chain' = [chain EXCEPT ![s] = result[2]]
    BY <1>3 DEF AgentDies
  <2>1. AllKept(mail') /\ chain' \in [Session -> SUBSET (Message \X Stamp)]
    BY SettlementTyped DEF Typed, TypeOK, AllKept
  <2> QED
    BY <1>3, <2>1, SessionStepTyped DEF AgentDies, Typed, TypeOK, history
<1>4. CASE AskHuman(s)
  BY <1>1, <1>4, SessionStepTyped DEF AskHuman, Typed, TypeOK, AllKept, history
<1>5. CASE Compact(s)
  BY <1>1, <1>5, SessionStepTyped DEF Compact, Typed, TypeOK, AllKept, history
<1>6. ASSUME NEW outcome \in {"success", "failed", "exhausted"},
             EndTurn(s, outcome)
      PROVE  Typed'
  <2> PICK result \in SettleOrChain(s) :
             /\ mail' = IF outcome = "exhausted" THEN Exhaust(result[1], s)
                                                 ELSE result[1]
             /\ chain' = [chain EXCEPT ![s] = result[2]]
    BY <1>6 DEF EndTurn
  <2>1. AllKept(result[1]) /\ chain' \in [Session -> SUBSET (Message \X Stamp)]
    BY SettlementTyped DEF Typed, TypeOK
  <2>2. "context-exhausted" \in Reason
    BY DEF Reason
  <2> DEFINE drop == [m \in Message |-> turn[s] = m]
  <2>3. drop \in [Message -> BOOLEAN]
    OBVIOUS
  <2>4. Exhaust(result[1], s) =
          [m \in Message |->
             DeadLetterDirectTo(IF drop[m] THEN Drop(result[1][m])
                                           ELSE result[1][m],
                                s, "context-exhausted")]
    BY DEF Exhaust
  <2> HIDE DEF drop
  <2>5. AllKept(Exhaust(result[1], s))
    BY <2>1, <2>2, <2>3, <2>4, DirectKept DEF Typed
  <2>6. AllKept(mail')
    BY <2>1, <2>5 DEF AllKept
  <2>7. flagged' \subseteq Session /\ dropped' \subseteq Message
    BY <1>6 DEF EndTurn, Typed, TypeOK
  <2> QED
    BY <1>6, <2>1, <2>6, <2>7, SessionStepTyped DEF EndTurn, Typed, TypeOK
<1>7. ASSUME NEW m \in Message, TailReceipt(s, m) PROVE Typed'
  <2>1. Keeps(mail[m], MarkDelivered(mail[m]))
    BY RowKeeps DEF Typed, TypeOK
  <2>2. mail' = [mail EXCEPT ![m] = MarkDelivered(mail[m])]
    BY <1>7 DEF TailReceipt
  <2>3. AllKept(mail')
    BY <2>1, <2>2, OneRowKept DEF AllKept, Typed
  <2> QED
    BY <1>7, <2>3, SessionStepTyped
       DEF TailReceipt, Typed, TypeOK, sessions, history
<1>8. CASE RetrySettle(s)
  <2>1. AllKept(mail')
    BY <1>8, SettledKept DEF RetrySettle, Typed, AllKept
  <2> QED
    BY <1>8, <2>1, SessionStepTyped DEF RetrySettle, Typed, TypeOK, history
<1>9. CASE GiveUpSettle(s)
  BY <1>1, <1>9, SessionStepTyped DEF GiveUpSettle, Typed, TypeOK, AllKept, history
<1> QED
  BY <1>2, <1>3, <1>4, <1>5, <1>6, <1>7, <1>8, <1>9 DEF Agent, Settling

LEMMA OwnerTyped ==
    ASSUME Typed, NEW s \in Session, Owner(s)
    PROVE  Typed'
<1>1. AllKept(mail)
  BY KeepsReflexive DEF Typed, TypeOK, AllKept
<1>2. ASSUME NEW lives \in {"archived", "killed"}, EndSession(s, lives),
             AllKept(mail')
      PROVE  Typed'
  <2> PICK kept \in {{}, pipe[s]} : pipe' = [pipe EXCEPT ![s] = kept]
    BY <1>2 DEF EndSession
  <2> QED
    BY <1>2, SessionStepTyped DEF EndSession, Typed, TypeOK, history
<1>3. CASE OwnTurn(s)
  BY <1>1, <1>3, SessionStepTyped DEF OwnTurn, Typed, TypeOK, AllKept, history
<1>4. CASE Answer(s)
  BY <1>1, <1>4, SessionStepTyped DEF Answer, Typed, TypeOK, AllKept, history
<1>5. CASE Stop(s)
  <2> PICK kept \in {{}, pipe[s]} : pipe' = [pipe EXCEPT ![s] = kept]
    BY <1>5 DEF Stop
  <2> QED
    BY <1>1, <1>5, SessionStepTyped DEF Stop, Typed, TypeOK, AllKept, history
<1>6. CASE Archive(s)
  <2>1. AllKept(mail')
    BY <1>6, SettlementTyped DEF Archive, AllKept
  <2> QED
    BY <1>2, <1>6, <2>1 DEF Archive
<1>7. CASE Restore(s)
  BY <1>1, <1>7, SessionStepTyped DEF Restore, Typed, TypeOK, AllKept, history
<1>8. CASE Kill(s)
  <2> PICK rows \in Settle(s) :
             mail' = [m \in Message |->
                        DeadLetterDirectTo(rows[m], s, "killed-recipient")]
    BY <1>8 DEF Kill
  <2>1. AllKept(rows)
    BY SettlementTyped
  <2>2. "killed-recipient" \in Reason
    BY DEF Reason
  <2> DEFINE none == [m \in Message |-> FALSE]
  <2>3. none \in [Message -> BOOLEAN]
    OBVIOUS
  <2>4. AllKept([m \in Message |->
          DeadLetterDirectTo(IF none[m] THEN Drop(rows[m]) ELSE rows[m],
                             s, "killed-recipient")])
    BY <2>1, <2>2, <2>3, DirectKept DEF Typed
  <2>5. AllKept(mail')
    BY <2>4 DEF AllKept
  <2> QED
    BY <1>2, <1>8, <2>5 DEF Kill
<1> QED
  BY <1>3, <1>4, <1>5, <1>6, <1>7, <1>8 DEF Owner

\* The server stops, with rows that are kept or claimed, and starts again.
LEMMA StoppingTyped ==
    ASSUME Typed, ServerStops, mail' \in [Message -> Row],
           \A m \in Message : (mail'[m].state = "absent") <=> (asked[m] = 0),
           \A m \in Message : mail'[m].state = "claimed" => mail'[m].at \in Stamp,
           handed' \in [Message -> {"no", "marked", "given"}]
    PROVE  Typed'
<1>1. crashes' \in 0..MaxCrash
  BY DeliveryAssumption DEF ServerStops, Typed, TypeOK
<1>2. PICK read \in [Session -> SUBSET Request] :
             transcript' = [s \in Session |-> transcript[s] \cup read[s]]
  BY DEF ServerStops
<1>3. transcript' \in [Session -> SUBSET Request]
  BY <1>2 DEF Typed, TypeOK
<1>4. Landed \in Flight /\ Landed.stage \notin WithSession
  BY DEF Landed, Flight, Stage, WithSession
<1>5. TypeOK'
  BY <1>1, <1>3, <1>4 DEF ServerStops, Typed, TypeOK
<1>6. Grounded'
  BY <1>4 DEF ServerStops, Typed, Grounded
<1> QED
  BY <1>5, <1>6 DEF Typed

LEMMA WorldTyped ==
    ASSUME Typed, Crash \/ Start \/ \E m \in Message : CrashInPush(m)
    PROVE  Typed'
<1>1. CASE Crash
  BY <1>1, StoppingTyped DEF Crash, Typed, TypeOK, Grounded
<1>2. ASSUME NEW m \in Message, CrashInPush(m) PROVE Typed'
  <2>1. ServerStops
    BY <1>2 DEF CrashInPush
  <2>2. ASSUME NEW n \in Row, n.state = "claimed", n.at \in Stamp,
               mail[m].state # "absent", mail' = [mail EXCEPT ![m] = n],
               handed' \in [Message -> {"no", "marked", "given"}]
        PROVE  Typed'
    BY <2>1, <2>2, StoppingTyped DEF Typed, TypeOK, Grounded
  <2>3. ASSUME NEW n \in Row, n.state = "claimed", n.at \in Stamp
        PROVE  /\ MarkPushed(n) \in Row /\ MarkPushed(n).state = "claimed"
               /\ MarkPushed(n).at \in Stamp
    BY <2>3 DEF MarkPushed, From, Row
  <2>4. handed' \in [Message -> {"no", "marked", "given"}]
    BY <1>2 DEF CrashInPush, Typed, TypeOK
  <2>5. CASE ClaimWins(m) /\ mail' = [mail EXCEPT ![m] = ClaimRow(m)]
    BY <2>2, <2>4, <2>5, ClaimRowTypes
  <2>6. CASE ClaimWins(m) /\ mail' = [mail EXCEPT ![m] = MarkPushed(ClaimRow(m))]
    BY <2>2, <2>3, <2>4, <2>6, ClaimRowTypes
  <2>7. CASE mail[m].state = "claimed" /\ mail' = [mail EXCEPT ![m] = MarkPushed(@)]
    BY <2>2, <2>3, <2>4, <2>7 DEF Typed, TypeOK, Grounded
  <2> QED
    BY <1>2, <2>5, <2>6, <2>7 DEF CrashInPush
<1>3. CASE Start
  <2> PICK receipt \in [Message -> {"found", "absent", "uncertain"}] :
             mail' = [m \in Message |-> StartRow(mail[m], receipt[m])]
    BY <1>3 DEF Start
  <2>1. ASSUME NEW m \in Message
        PROVE  Keeps(mail[m], StartRow(mail[m], receipt[m]))
    <3> DEFINE kept == ReconcileRow(mail[m], receipt[m])
               idle == IF kept.state = "spawning" THEN Requeue(kept) ELSE kept
    <3>1. {"killed-recipient", "transcript-unavailable-or-torn"} \subseteq Reason
      BY DEF Reason
    <3>2. mail[m] \in Row
      BY DEF Typed, TypeOK
    <3>3. Keeps(mail[m], kept)
      BY <3>1, <3>2, RowKeeps, KeepsReflexive DEF ReconcileRow
    <3>4. kept \in Row
      BY <3>3 DEF Keeps
    <3> HIDE DEF kept
    <3>5. Keeps(kept, idle)
      BY <3>4, RowKeeps, KeepsReflexive
    <3>6. idle \in Row
      BY <3>5 DEF Keeps
    <3> HIDE DEF idle
    <3>7. StartRow(mail[m], receipt[m]) \in {idle, DeadLetter(idle, "killed-recipient")}
      BY DEF StartRow, kept, idle
    <3>8. Keeps(idle, StartRow(mail[m], receipt[m]))
      BY <3>1, <3>6, <3>7, RowKeeps, KeepsReflexive
    <3> QED
      BY <3>2, <3>3, <3>5, <3>8, KeepsTransitive
  <2>2. AllKept(mail')
    BY <2>1 DEF AllKept, Keeps
  <2>3. TypeOK'
    BY <1>3, <2>2 DEF Start, Typed, TypeOK, AllKept, history
  <2>4. Grounded'
    BY <1>3, <2>2, KeepsGrounded DEF Start, Typed, Grounded, AllKept, history
  <2> QED
    BY <2>3, <2>4 DEF Typed
<1> QED
  BY <1>1, <1>2, <1>3

-----------------------------------------------------------------------------
\* Every step stays typed and grounded.
THEOREM TypedStep == Typed /\ [Next]_vars => Typed'
<1> SUFFICES ASSUME Typed, [Next]_vars PROVE Typed'
  OBVIOUS
<1>1. ASSUME NEW m \in Message, Sending(m) \/ Dispatching(m) \/ Managing(m)
      PROVE  Typed'
  BY <1>1, SendingTyped, DispatchingTyped, ManagingTyped
<1>2. ASSUME NEW s \in Session, Agent(s) \/ Settling(s) \/ Owner(s)
      PROVE  Typed'
  BY <1>2, AgentTyped, OwnerTyped
<1>3. CASE Crash \/ Start \/ \E m \in Message : CrashInPush(m)
  BY <1>3, WorldTyped
<1>4. CASE UNCHANGED vars
  BY <1>4 DEF vars, Typed, TypeOK, Grounded
<1> QED
  BY <1>1, <1>2, <1>3, <1>4 DEF Next

THEOREM TypedAlways == Spec => []Typed
<1> QED
  BY InitTyped, TypedStep, PTL DEF Spec

\* Type correctness: rows, flights, turns and chains stay what the schema and
\* the code's types say, in every reachable state.
THEOREM TypeCorrect == Spec => []TypeOK
<1>1. Typed => TypeOK
  BY DEF Typed
<1> QED
  BY <1>1, TypedAlways, PTL
=============================================================================
