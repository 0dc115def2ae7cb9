----------------------------- MODULE MailSafety -----------------------------
(***************************************************************************)
(* The safety of mail delivery, for every choice of the constants: no      *)
(* silent duplicate, one recipient, no delivery of cancelled mail, no      *)
(* delivery without a receipt, no second copy that was not announced.      *)
(*                                                                         *)
(* None of them is inductive alone.  A claim is queued again because it    *)
(* was never pushed, or because a clean transcript of its claimant lacks   *)
(* it; that no copy exists elsewhere is what ClaimsAreHonest adds, and     *)
(* that none is still on its way at a start is PipesDieWithServer.  That   *)
(* copies of older requests were announced is Announced, further down.     *)
(***************************************************************************)
EXTENDS MailTypes, FiniteSetTheorems

PipesDieWithServer == ~up => \A s \in Session : pipe[s] = {}

Receipted ==
    \A m \in Message : mail[m].state = "delivered" =>
        mail[m].by \in Session /\ Heard(mail[m].by, m)

Safe ==
    /\ ClaimsAreHonest
    /\ NoSilentDuplicate
    /\ OneRecipient
    /\ CancelledNeverDelivered
    /\ Receipted
    /\ PipesDieWithServer

Inductive == Typed /\ Safe

\* A step of the mailbox's promise, up to the types
Promised ==
    \/ \E m \in Message : Promise!Ask(m)
    \/ \E m \in Message, s \in Session : Promise!Give(m, s)
    \/ Promise!Moves

\* What every step does
Kept == Safe' /\ Promised

-----------------------------------------------------------------------------
(***************************************************************************)
(* Rows a step may leave without handing anything over                     *)
(***************************************************************************)
Ended == {"dead", "cancelled", "discarded"}

\* What was given up, received or ended is not taken up again.
Onward(r, n) ==
    /\ r.state = "uncertain" => n.state \in {"uncertain", "delivered"} \cup Ended
    /\ r.state = "delivered" => n.state \in {"delivered"} \cup Ended
    /\ r.state \in Ended => n.state \in Ended

Quiet(m, n) ==
    /\ Keeps(mail[m], n) /\ Onward(mail[m], n)
    /\ Waiting(n) \/ n.state = "cancelled" => ~Copied(<<m, asked[m]>>)
    /\ n.state = "delivered" => n.by \in Session /\ Heard(n.by, m)

\* What Keeps does not say: the state each statement leaves, and the columns
\* it touches.
LEMMA RowEffects ==
    ASSUME NEW r \in Row
    PROVE  /\ HoldForRequest(r).state \in {r.state, "awaiting-request"}
           /\ HoldForRequest(r).state # r.state => r.state = "queued"
           /\ ReserveForSpawn(r).state \in {r.state, "spawning"}
           /\ ReserveForSpawn(r).state # r.state => r.state = "queued"
           /\ CancelWaiting(r).state \in {r.state, "cancelled"}
           /\ CancelWaiting(r).state # r.state => Waiting(r)
           /\ HoldForRequest(r).by = r.by /\ ReserveForSpawn(r).by = r.by
           /\ CancelWaiting(r).by = r.by /\ MarkPushed(r).by = r.by
           /\ MarkPushed(r).state = r.state
           /\ MarkDelivered(r).state \in {r.state, "delivered"}
           /\ MarkDelivered(r).by = r.by
           /\ Requeue(r) # r => /\ Requeue(r).state = "queued"
                                /\ Waiting(r) \/ r.state = "claimed"
           /\ Discard(r) # r => Discard(r).state = "discarded"
           /\ \A why \in Reason :
                /\ DeadLetter(r, why) # r => DeadLetter(r, why).state = "dead"
                /\ DeadLetterDelivered(r, why) # r =>
                     DeadLetterDelivered(r, why).state = "dead"
                /\ HoldUncertain(r, why) # r =>
                     HoldUncertain(r, why).state = "uncertain"
           /\ \A s \in Session, why \in Reason :
                DeadLetterDirectTo(r, s, why) # r =>
                  DeadLetterDirectTo(r, s, why).state = "dead"
<1>1. /\ HoldForRequest(r).state \in {r.state, "awaiting-request"}
      /\ HoldForRequest(r).state # r.state => r.state = "queued"
      /\ HoldForRequest(r).by = r.by
  BY DEF HoldForRequest, From, Row
<1>2. /\ ReserveForSpawn(r).state \in {r.state, "spawning"}
      /\ ReserveForSpawn(r).state # r.state => r.state = "queued"
      /\ ReserveForSpawn(r).by = r.by
  BY DEF ReserveForSpawn, From, Row
<1>3. /\ CancelWaiting(r).state \in {r.state, "cancelled"}
      /\ CancelWaiting(r).state # r.state => Waiting(r)
      /\ CancelWaiting(r).by = r.by
  BY DEF CancelWaiting, From, Row, Waiting
<1>4. /\ MarkPushed(r).by = r.by /\ MarkPushed(r).state = r.state
  BY DEF MarkPushed, From, Row
<1>5. /\ MarkDelivered(r).state \in {r.state, "delivered"}
      /\ MarkDelivered(r).by = r.by
  BY DEF MarkDelivered, From, Row
<1>6. Requeue(r) # r => /\ Requeue(r).state = "queued"
                        /\ Waiting(r) \/ r.state = "claimed"
  BY DEF Requeue, From, Row, Waiting
<1>7. Discard(r) # r => Discard(r).state = "discarded"
  BY DEF Discard, From, Row
<1>8. ASSUME NEW why \in Reason
      PROVE  /\ DeadLetter(r, why) # r => DeadLetter(r, why).state = "dead"
             /\ DeadLetterDelivered(r, why) # r =>
                  DeadLetterDelivered(r, why).state = "dead"
             /\ HoldUncertain(r, why) # r =>
                  HoldUncertain(r, why).state = "uncertain"
  BY DEF DeadLetter, DeadLetterDelivered, HoldUncertain, From, Row
<1>9. ASSUME NEW s \in Session, NEW why \in Reason,
             DeadLetterDirectTo(r, s, why) # r
      PROVE  DeadLetterDirectTo(r, s, why).state = "dead"
  BY <1>9 DEF DeadLetterDirectTo, From, Row
<1> QED
  BY <1>1, <1>2, <1>3, <1>4, <1>5, <1>6, <1>7, <1>8, <1>9

\* No statement but the retry goes back.
LEMMA RowOnward ==
    ASSUME NEW r \in Row
    PROVE  /\ Onward(r, r)
           /\ Onward(r, HoldForRequest(r)) /\ Onward(r, ReserveForSpawn(r))
           /\ Onward(r, CancelWaiting(r)) /\ Onward(r, Discard(r))
           /\ Onward(r, Requeue(r)) /\ Onward(r, MarkDelivered(r))
           /\ \A why : /\ Onward(r, DeadLetter(r, why))
                       /\ Onward(r, DeadLetterDelivered(r, why))
                       /\ Onward(r, HoldUncertain(r, why))
           /\ \A s, why : Onward(r, DeadLetterDirectTo(r, s, why))
<1>1. /\ Onward(r, r)
      /\ Onward(r, HoldForRequest(r)) /\ Onward(r, ReserveForSpawn(r))
      /\ Onward(r, CancelWaiting(r)) /\ Onward(r, Discard(r))
  BY DEF Onward, Ended, HoldForRequest, ReserveForSpawn, CancelWaiting, Discard,
         From, Row
<1>2. Onward(r, Requeue(r)) /\ Onward(r, MarkDelivered(r))
  BY DEF Onward, Ended, Requeue, MarkDelivered, From, Row
<1>3. ASSUME NEW why
      PROVE  /\ Onward(r, DeadLetter(r, why))
             /\ Onward(r, DeadLetterDelivered(r, why))
             /\ Onward(r, HoldUncertain(r, why))
  BY DEF Onward, Ended, DeadLetter, DeadLetterDelivered, HoldUncertain, From, Row
<1>4. ASSUME NEW s, NEW why PROVE Onward(r, DeadLetterDirectTo(r, s, why))
  BY DEF Onward, Ended, DeadLetterDirectTo, From, Row
<1> QED
  BY <1>1, <1>2, <1>3, <1>4

\* Statements applied to a quiet row leave a quiet row.
LEMMA QuietRows ==
    ASSUME TypeOK, NEW m \in Message, NEW r, Quiet(m, r)
    PROVE  /\ Quiet(m, HoldForRequest(r))
           /\ Quiet(m, ReserveForSpawn(r))
           /\ Quiet(m, CancelWaiting(r))
           /\ Quiet(m, Discard(r))
           /\ (r.state = "claimed" => ~Copied(<<m, asked[m]>>))
                => Quiet(m, Requeue(r))
           /\ r.by \in Session /\ Heard(r.by, m) => Quiet(m, MarkDelivered(r))
           /\ \A why \in Reason : /\ Quiet(m, DeadLetter(r, why))
                                  /\ Quiet(m, DeadLetterDelivered(r, why))
                                  /\ Quiet(m, HoldUncertain(r, why))
           /\ \A s \in Session, why \in Reason :
                Quiet(m, DeadLetterDirectTo(r, s, why))
<1>1. r \in Row /\ mail[m] \in Row /\ Keeps(mail[m], r)
  BY DEF Quiet, Keeps, TypeOK
<1>2. \A n : Keeps(r, n) /\ Onward(r, n) => Keeps(mail[m], n) /\ Onward(mail[m], n)
  BY <1>1, KeepsTransitive DEF Quiet, Onward, Ended
<1>3. Quiet(m, HoldForRequest(r)) /\ Quiet(m, ReserveForSpawn(r))
  BY <1>1, <1>2, RowKeeps, RowEffects, RowOnward DEF Quiet, Waiting
<1>4. Quiet(m, CancelWaiting(r)) /\ Quiet(m, Discard(r))
  BY <1>1, <1>2, RowKeeps, RowEffects, RowOnward DEF Quiet, Waiting
<1>5. ASSUME r.state = "claimed" => ~Copied(<<m, asked[m]>>)
      PROVE  Quiet(m, Requeue(r))
  BY <1>1, <1>2, <1>5, RowKeeps, RowEffects, RowOnward DEF Quiet, Waiting
<1>6. ASSUME r.by \in Session, Heard(r.by, m)
      PROVE  Quiet(m, MarkDelivered(r))
  BY <1>1, <1>2, <1>6, RowKeeps, RowEffects, RowOnward DEF Quiet, Waiting
<1>7. ASSUME NEW why \in Reason
      PROVE  /\ Quiet(m, DeadLetter(r, why))
             /\ Quiet(m, DeadLetterDelivered(r, why))
             /\ Quiet(m, HoldUncertain(r, why))
  BY <1>1, <1>2, RowKeeps, RowEffects, RowOnward DEF Quiet, Waiting
<1>8. ASSUME NEW s \in Session, NEW why \in Reason
      PROVE  Quiet(m, DeadLetterDirectTo(r, s, why))
  BY <1>1, <1>2, RowKeeps, RowEffects, RowOnward DEF Quiet, Waiting
<1> QED
  BY <1>3, <1>4, <1>5, <1>6, <1>7, <1>8

\* A row left alone is quiet, and so is an unpushed claim given back.
LEMMA QuietNow ==
    ASSUME Inductive, NEW m \in Message
    PROVE  /\ Quiet(m, mail[m])
           /\ Waiting(mail[m]) => ~Copied(<<m, asked[m]>>)
           /\ mail[m].state = "claimed" /\ ~mail[m].pushed
                => ~Copied(<<m, asked[m]>>)
           /\ mail[m].state = "claimed" /\ InFlight(m)
                => ~Copied(<<m, asked[m]>>)
<1>1. Keeps(mail[m], mail[m]) /\ Onward(mail[m], mail[m])
  BY KeepsReflexive, RowOnward DEF Inductive, Typed, TypeOK
<1>2. Deliverable(m) => ~Copied(<<m, asked[m]>>)
  BY DEF Inductive, Safe, NoSilentDuplicate
<1> QED
  BY <1>1, <1>2 DEF Inductive, Safe, CancelledNeverDelivered, Receipted, Quiet,
                    Deliverable, ClaimsAreHonest

-----------------------------------------------------------------------------
(***************************************************************************)
(* The promise                                                             *)
(***************************************************************************)
\* A transcript row is a receipt in the promise's eyes.
LEMMA HeardMaps ==
    ASSUME NEW s \in Session, NEW m \in Message, Heard(s, m)
    PROVE  Promise!Receipt(m) = {"received"}
BY DEF Promise!Heard, Heard, Promise!Receipt

LEMMA CopiedMaps ==
    ASSUME NEW m \in Message
    PROVE  /\ Promise!Copied(m) <=> Copied(<<m, asked[m]>>)
           /\ ~Copied(<<m, asked[m]>>) => "waiting" \in Promise!Return(m)
BY DEF Promise!Copied, Copied, Promise!Return

LEMMA StatusStays ==
    ASSUME NEW m \in Message PROVE StatusOf(m) \in Promise!After(m)
BY DEF Promise!After, StatusOf

\* A quiet row is one the promise allows.
LEMMA QuietMoves ==
    ASSUME Inductive, NEW m \in Message, Quiet(m, mail'[m]),
           mail'[m].state = "claimed" => handed'[m] = handed[m],
           UNCHANGED transcript
    PROVE  StatusOf(m)' \in Promise!After(m)
<1>1. mail[m] \in Row /\ mail'[m] \in Row
  BY DEF Inductive, Typed, TypeOK, Quiet, Keeps
<1>2. /\ mail'[m].state = "delivered" => "received" \in Promise!Receipt(m)
      /\ Waiting(mail'[m]) => "waiting" \in Promise!Return(m)
  BY HeardMaps, CopiedMaps DEF Quiet
<1>3. CASE mail[m].state \in {"absent", "uncertain", "delivered"} \cup Ended
  BY <1>1, <1>2, <1>3
     DEF Quiet, Keeps, Onward, Ended, StatusOf, Deliverable, Waiting,
         Promise!After, Row, MessageState
<1>4. CASE Waiting(mail[m]) \/ mail[m].state = "claimed"
  BY <1>1, <1>2, <1>4
     DEF Quiet, Keeps, StatusOf, Deliverable, Waiting, Promise!After, Row,
         MessageState
<1> QED
  BY <1>1, <1>3, <1>4 DEF Row, MessageState, Ended, Waiting

\* Inputs that shrink are read or lost, as long as a copy is in one place.
LEMMA InputsMove ==
    ASSUME NEW s \in Session,
           pipe'[s] \subseteq pipe[s], transcript[s] \subseteq transcript'[s],
           transcript'[s] \subseteq transcript[s] \cup pipe[s], OneRecipient'
    PROVE  Promise!Inputs(s)
BY DEF Promise!Inputs, OneRecipient

-----------------------------------------------------------------------------
\* A step that hands nothing over and leaves quiet rows is safe.
LEMMA QuietStep ==
    ASSUME Inductive,
           \A m \in Message : Quiet(m, mail'[m]),
           \A s \in Session : pipe'[s] \subseteq pipe[s],
           \A m \in Message :
               InFlight(m)' /\ mail'[m].state = "claimed" => flight'[m] = flight[m],
           \A m \in Message :
               mail'[m].state = "claimed" => handed'[m] = handed[m],
           PipesDieWithServer',
           UNCHANGED <<transcript, asked>>
    PROVE  Kept
<1>1. \A q : Copied(q)' => Copied(q)
  BY DEF Copied
<1>2. ClaimsAreHonest'
  BY <1>1 DEF Inductive, Safe, ClaimsAreHonest, Quiet, Keeps, InFlight
<1>3. NoSilentDuplicate'
  BY <1>1 DEF Inductive, Safe, NoSilentDuplicate, Deliverable, Quiet, Keeps
<1>4. OneRecipient'
  BY DEF Inductive, Safe, OneRecipient
<1>5. CancelledNeverDelivered'
  BY <1>1 DEF Quiet, CancelledNeverDelivered
<1>6. Receipted'
  BY DEF Quiet, Receipted, Heard
<1>7. Promise!Moves
  <2>1. \A m \in Message : StatusOf(m)' \in Promise!After(m)
    BY QuietMoves
  <2>2. \A s \in Session : Promise!Inputs(s)
    BY <1>4, InputsMove
  <2> QED
    BY <2>1, <2>2 DEF Promise!Moves
<1> QED
  BY <1>2, <1>3, <1>4, <1>5, <1>6, <1>7 DEF Safe, Kept, Promised

\* The same when one row changes and the rest of the store stays.
LEMMA QuietRowStep ==
    ASSUME Inductive, NEW m \in Message, NEW n, Quiet(m, n),
           mail' = [mail EXCEPT ![m] = n],
           \A s \in Session : pipe'[s] \subseteq pipe[s],
           \A k \in Message : \/ flight'[k] = flight[k]
                              \/ k = m /\ (n.state # "claimed" \/ ~InFlight(m)'),
           \A k \in Message : \/ handed'[k] = handed[k]
                              \/ k = m /\ n.state # "claimed",
           UNCHANGED <<transcript, asked, up>>
    PROVE  Kept
<1>1. \A k \in Message : Quiet(k, mail'[k])
  BY QuietNow DEF Inductive, Typed, TypeOK
<1>2. PipesDieWithServer'
  BY DEF Inductive, Safe, PipesDieWithServer
<1>3. \A k \in Message :
        /\ InFlight(k)' /\ mail'[k].state = "claimed" => flight'[k] = flight[k]
        /\ mail'[k].state = "claimed" => handed'[k] = handed[k]
  BY DEF Inductive, Typed, TypeOK
<1> QED
  BY <1>1, <1>2, <1>3, QuietStep

\* A step of a session alone.
LEMMA QuietSessionStep ==
    ASSUME Inductive, \A m \in Message : Quiet(m, mail'[m]),
           \A s \in Session : pipe'[s] \subseteq pipe[s],
           UNCHANGED <<flight, transcript, asked, handed, up>>
    PROVE  Kept
BY QuietStep DEF Inductive, Safe, PipesDieWithServer

-----------------------------------------------------------------------------
(***************************************************************************)
(* Steps                                                                   *)
(***************************************************************************)
\* A send or a retry asks for a delivery nobody has received yet.
LEMMA AskStep ==
    ASSUME Inductive, NEW m \in Message, NEW n \in Row,
           NEW a \in Nat, a = asked[m] + 1,
           \/ n.state \in {"queued", "dead"} /\ mail[m].state = "absent"
           \/ n.state = "queued" /\ mail[m].state \in {"dead", "uncertain"},
           mail' = [mail EXCEPT ![m] = n],
           asked' = [asked EXCEPT ![m] = a],
           UNCHANGED <<pipe, transcript, flight, handed, up>>
    PROVE  Kept
<1>1. \A k \in Message \ {m} : mail'[k] = mail[k] /\ asked'[k] = asked[k]
  BY DEF Inductive, Typed, TypeOK
<1>2. mail'[m] = n /\ asked'[m] = a
  BY DEF Inductive, Typed, TypeOK
<1>3. \A q : Copied(q)' <=> Copied(q)
  BY DEF Copied
<1>4. ~Copied(<<m, a>>) /\ a > asked[m]
  <2>0. asked[m] \in Nat /\ a > asked[m]
    BY DEF Inductive, Typed, TypeOK
  <2> SUFFICES ASSUME Copied(<<m, a>>) PROVE FALSE
    BY <2>0
  <2>1. <<m, a>> \in Request
    BY DEF Copied, Inductive, Typed, TypeOK
  <2>2. a \in 1..MaxAsk
    BY <2>1 DEF Request
  <2> QED
    BY <2>0, <2>2 DEF Inductive, Safe, ClaimsAreHonest, Typed, TypeOK
<1>5. ClaimsAreHonest'
  <2>1. \A k \in Message, b \in 1..MaxAsk : Copied(<<k, b>>)' => b <= asked'[k]
    BY <1>1, <1>2, <1>3 DEF Inductive, Safe, ClaimsAreHonest, Typed, TypeOK
  <2>2. ASSUME NEW k \in Message, mail'[k].state = "claimed"
        PROVE  k # m
    BY <1>2, <2>2
  <2> QED
    BY <1>1, <2>1, <2>2 DEF Inductive, Safe, ClaimsAreHonest, InFlight
<1>6. NoSilentDuplicate'
  BY <1>1, <1>2, <1>3, <1>4
     DEF Inductive, Safe, NoSilentDuplicate, Deliverable
<1>7. OneRecipient' /\ PipesDieWithServer'
  BY DEF Inductive, Safe, OneRecipient, PipesDieWithServer
<1>8. CancelledNeverDelivered'
  BY <1>1, <1>2, <1>3 DEF Inductive, Safe, CancelledNeverDelivered
<1>9. Receipted'
  BY <1>1, <1>2 DEF Inductive, Safe, Receipted, Heard
<1>10. Promise!Ask(m)
  <2>1. /\ StatusOf(m)' = IF n.state = "queued" THEN "waiting" ELSE "ended"
        /\ StatusOf(m) = IF mail[m].state = "absent" THEN "unsent"
                         ELSE IF mail[m].state = "dead" THEN "ended" ELSE "unsure"
    BY <1>2 DEF StatusOf, Deliverable, Waiting
  <2>2. \A k \in Message \ {m} : StatusOf(k)' = StatusOf(k)
    BY <1>1 DEF StatusOf, Deliverable
  <2>3. asked' = [asked EXCEPT ![m] = asked[m] + 1]
    OBVIOUS
  <2>4. CASE n.state = "queued"
    BY <2>1, <2>2, <2>3, <2>4 DEF Promise!Ask
  <2>5. CASE n.state # "queued"
    BY <2>1, <2>2, <2>3, <2>5 DEF Promise!Ask
  <2> QED
    BY <2>4, <2>5
<1> QED
  BY <1>5, <1>6, <1>7, <1>8, <1>9, <1>10 DEF Safe, Kept, Promised

LEMMA SendingSafe ==
    ASSUME Inductive, NEW m \in Message, Sending(m)
    PROVE  Kept
<1>1. ASSUME NEW s \in Session, Compose(m, s) PROVE Kept
  BY <1>1, QuietNow, QuietSessionStep DEF Compose, world, history
<1>2. ASSUME NEW to \in Session \cup Group, NEW urgent \in BOOLEAN,
             NEW over \in BOOLEAN, Store(m, to, urgent, over),
             mail[m].state = "absent",
             UNCHANGED <<sessions, dispatch, world, handed, dropped>>
      PROVE  Kept
  <2>1. 1 = asked[m] + 1
    BY <1>2 DEF Inductive, Typed, TypeOK, Grounded
  <2> QED
    BY <1>2, <2>1, AskTypes, AskStep DEF Store, sessions, dispatch, world
<1>3. ASSUME NEW urgent \in BOOLEAN, NEW over \in BOOLEAN,
             CommitDirect(m, urgent, over)
      PROVE  Kept
  <2>1. draft[m] \in Session /\ mail[m].state = "absent"
    BY <1>3 DEF Inductive, Typed, TypeOK, Grounded, CommitDirect
  <2> QED
    BY <1>2, <1>3, <2>1 DEF CommitDirect
<1>4. ASSUME NEW g \in Group, NEW urgent \in BOOLEAN, NEW over \in BOOLEAN,
             SendToGroup(m, g, urgent, over)
      PROVE  Kept
  BY <1>2, <1>4 DEF SendToGroup
<1> QED
  BY <1>1, <1>3, <1>4 DEF Sending

LEMMA ManagingSafe ==
    ASSUME Inductive, NEW m \in Message, Managing(m)
    PROVE  Kept
<1>1. Quiet(m, mail[m]) /\ mail[m] \in Row /\ TypeOK
  BY QuietNow DEF Inductive, Typed, TypeOK
<1>2. ASSUME NEW n, Quiet(m, n), mail' = [mail EXCEPT ![m] = n],
             UNCHANGED <<sessions, dispatch, world, history, draft>>
      PROVE  Kept
  BY <1>2, QuietRowStep DEF sessions, dispatch, world, history
<1>3. CASE Cancel(m)
  BY <1>1, <1>2, <1>3, QuietRows DEF Cancel
<1>4. CASE DiscardMail(m)
  BY <1>1, <1>2, <1>4, QuietRows DEF DiscardMail
<1>5. CASE CloseTask(m)
  <2>1. "task-closed" \in Reason
    BY DEF Reason
  <2> QED
    BY <1>1, <1>2, <1>5, <2>1, QuietRows DEF CloseTask
<1>6. CASE RetryMail(m)
  <2> DEFINE n == Retry(mail[m], Exists, flagged)
  <2>1. Keeps(mail[m], n)
    BY <1>1, AskTypes
  <2>2. /\ n.state \in {"dead", "uncertain", "queued"}
        /\ mail[m].state \in {"dead", "uncertain"}
        /\ n.state = "uncertain" => mail[m].state = "uncertain"
    BY <1>6 DEF RetryMail, Retry, RetryKilled, RetryDead, RetryUncertain
  <2>3. /\ mail' = [mail EXCEPT ![m] = n] /\ mail'[m] = n
        /\ asked' = [asked EXCEPT ![m] =
                       IF n.state = "queued" THEN @ + 1 ELSE @]
        /\ UNCHANGED <<sessions, dispatch, world, handed, dropped, draft>>
    BY <1>1, <1>6 DEF RetryMail, TypeOK
  <2> HIDE DEF n
  <2>4. CASE n.state = "queued"
    <3>1. asked[m] + 1 \in Nat
      BY <1>1 DEF TypeOK
    <3> QED
      BY <2>1, <2>2, <2>3, <2>4, <3>1, AskStep DEF Keeps, sessions, dispatch, world
  <2>5. CASE n.state # "queued"
    <3>1. asked' = asked
      BY <1>1, <2>3, <2>5 DEF TypeOK
    <3>2. Quiet(m, n)
      BY <2>1, <2>2, <2>5 DEF Quiet, Waiting, Onward, Ended
    <3> QED
      BY <2>3, <3>1, <3>2, QuietRowStep DEF sessions, dispatch, world
  <2> QED
    BY <2>4, <2>5
<1> QED
  BY <1>3, <1>4, <1>5, <1>6 DEF Managing

LEMMA PickingSafe ==
    ASSUME Inductive, NEW m \in Message,
           \/ HoldForCard(m) \/ CardGone(m) \/ PickUrgent(m) \/ PickDirect(m)
           \/ \E s \in Session : PickMember(m, s)
    PROVE  Kept
<1>1. Quiet(m, mail[m]) /\ mail[m] \in Row /\ TypeOK
  BY QuietNow DEF Inductive, Typed, TypeOK
<1>2. ASSUME NEW n, Quiet(m, n), mail' = [mail EXCEPT ![m] = n],
             UNCHANGED <<sessions, dispatch, world, history, draft>>
      PROVE  Kept
  BY <1>2, QuietRowStep DEF sessions, dispatch, world, history
<1>3. ASSUME NEW stage, NEW s, TakeOff(m, stage, s), mail[m].state = "queued",
             UNCHANGED <<mail, reserved, sessions, world, history, draft>>
      PROVE  Kept
  <2>1. mail' = [mail EXCEPT ![m] = mail[m]]
    BY <1>1, <1>3 DEF TypeOK
  <2>2. \A k \in Message \ {m} : flight'[k] = flight[k]
    BY <1>1, <1>3 DEF TakeOff, TypeOK
  <2> QED
    BY <1>1, <1>3, <2>1, <2>2, QuietRowStep DEF sessions, world, history
<1>4. CASE HoldForCard(m)
  BY <1>1, <1>2, <1>4, QuietRows DEF HoldForCard
<1>5. CASE CardGone(m)
  BY <1>1, <1>2, <1>5, QuietRows DEF CardGone
<1>6. CASE PickUrgent(m) \/ PickDirect(m)
  BY <1>3, <1>6 DEF PickUrgent, PickDirect
<1>7. ASSUME NEW s \in Session, PickMember(m, s) PROVE Kept
  BY <1>3, <1>7 DEF PickMember
<1> QED
  BY <1>4, <1>5, <1>6, <1>7

LEMMA SpawningSafe ==
    ASSUME Inductive, NEW m \in Message,
           \/ Reserve(m) \/ SpawnReturns(m) \/ SpawnFails(m) \/ PushRefused(m)
           \/ \E s \in Session : SpawnCreates(m, s)
    PROVE  Kept
<1>1. Quiet(m, mail[m]) /\ mail[m] \in Row /\ TypeOK
  BY QuietNow DEF Inductive, Typed, TypeOK
<1>2. ASSUME NEW n, Quiet(m, n), mail' = [mail EXCEPT ![m] = n],
             \/ n.state # "claimed"
             \/ flight' = [flight EXCEPT ![m] = Landed],
             \A k \in Message \ {m} : flight'[k] = flight[k],
             UNCHANGED <<sessions, world, history, draft>>
      PROVE  Kept
  <2>1. ~InFlight(m)' \/ n.state # "claimed"
    BY <1>1, <1>2 DEF InFlight, Landed, TypeOK
  <2> QED
    BY <1>2, <2>1, QuietRowStep DEF sessions, world, history
<1>3. mail[m].state = "claimed" /\ InFlight(m) =>
        /\ flight[m].stage = "interrupt" /\ Quiet(m, Requeue(mail[m]))
  BY <1>1, QuietNow, QuietRows DEF Inductive, Safe, ClaimsAreHonest
<1>4. CASE Reserve(m)
  <2>1. ReserveForSpawn(mail[m]).state # "claimed"
    BY <1>1, <1>4, RowEffects DEF Reserve
  <2>2. \A k \in Message \ {m} : flight'[k] = flight[k]
    BY <1>1, <1>4 DEF Reserve, TakeOff, TypeOK
  <2> QED
    BY <1>1, <1>2, <1>4, <2>1, <2>2, QuietRows DEF Reserve
<1>5. ASSUME flight' = [flight EXCEPT ![m] = Landed],
             UNCHANGED <<sessions, world, history, draft>>,
             \/ mail' = [mail EXCEPT ![m] = mail[m]]
             \/ /\ mail' = [mail EXCEPT ![m] = Requeue(@)]
                /\ mail[m].state # "claimed"
      PROVE  Kept
  <2>1. \A k \in Message \ {m} : flight'[k] = flight[k]
    BY <1>1, <1>5 DEF TypeOK
  <2>2. mail[m].state # "claimed" => Quiet(m, Requeue(mail[m]))
    BY <1>1, QuietRows
  <2> QED
    BY <1>1, <1>2, <1>5, <2>1, <2>2
<1>6. CASE SpawnReturns(m)
  <2>1. mail[m].state # "claimed"
    BY <1>3, <1>6 DEF SpawnReturns, InFlight
  <2>2. CASE HasRecord(flight[m].who)
    <3>1. /\ mail' = [mail EXCEPT ![m] = mail[m]]
          /\ \A k \in Message \ {m} : flight'[k] = flight[k]
      BY <1>1, <1>6, <2>2 DEF SpawnReturns, TypeOK
    <3> QED
      BY <1>1, <1>2, <1>6, <2>1, <3>1 DEF SpawnReturns
  <2>3. CASE ~HasRecord(flight[m].who)
    <3>1. \/ mail' = [mail EXCEPT ![m] = mail[m]]
          \/ mail' = [mail EXCEPT ![m] = Requeue(@)]
      BY <1>1, <1>6, <2>3 DEF SpawnReturns
    <3> QED
      BY <1>5, <1>6, <2>1, <2>3, <3>1 DEF SpawnReturns
  <2> QED
    BY <2>2, <2>3
<1>7. CASE SpawnFails(m)
  <2>1. mail[m].state # "claimed"
    BY <1>3, <1>7 DEF SpawnFails, InFlight
  <2> QED
    BY <1>5, <1>7, <2>1 DEF SpawnFails
<1>8. CASE PushRefused(m)
  <2>1. \/ mail' = [mail EXCEPT ![m] = mail[m]]
        \/ /\ mail' = [mail EXCEPT ![m] = Requeue(@)]
           /\ mail[m].state # "claimed"
    BY <1>1, <1>8 DEF PushRefused
  <2> QED
    BY <1>5, <1>8, <2>1 DEF PushRefused
<1>9. ASSUME NEW s \in Session, SpawnCreates(m, s) PROVE Kept
  <2>1. mail[m].state # "claimed"
    BY <1>3, <1>9 DEF SpawnCreates, InFlight
  <2>2. /\ mail' = [mail EXCEPT ![m] = mail[m]]
        /\ \A k \in Message \ {m} : flight'[k] = flight[k]
    BY <1>1, <1>9 DEF SpawnCreates, TypeOK
  <2>3. UNCHANGED <<pipe, transcript, asked, handed, up>>
    BY <1>9 DEF SpawnCreates, world, history
  <2> QED
    BY <1>1, <2>1, <2>2, <2>3, QuietRowStep
<1> QED
  BY <1>4, <1>6, <1>7, <1>8, <1>9

\* The envelope of a request no agent has is handed to s: the one step that
\* makes a copy.
LEMMA HandOver ==
    ASSUME Inductive, NEW m \in Message, NEW s \in Session, NEW n \in Row,
           Deliverable(m),
           ~Copied(<<m, asked[m]>>),
           \/ n.state = "claimed" /\ n.pushed /\ n.by = s /\ pipe' # pipe
           \/ n.state = "uncertain"
           \/ n.state = "delivered" /\ n.by = s /\ Heard(s, m),
           mail' = [mail EXCEPT ![m] = n],
           flight' = [flight EXCEPT ![m] = Landed],
           handed' = [handed EXCEPT ![m] = "given"],
           \/ pipe' = pipe
           \/ pipe' = [pipe EXCEPT ![s] = @ \cup {<<m, asked[m]>>}],
           up, UNCHANGED <<transcript, asked, up>>
    PROVE  Kept
<1> DEFINE q == <<m, asked[m]>>
<1>1. \A k \in Message \ {m} :
        mail'[k] = mail[k] /\ handed'[k] = handed[k] /\ flight'[k] = flight[k]
  BY DEF Inductive, Typed, TypeOK
<1>2. mail'[m] = n /\ handed'[m] = "given" /\ ~InFlight(m)'
  BY DEF Inductive, Typed, TypeOK, InFlight, Landed
<1>3. \A t \in Session : pipe'[t] \subseteq IF t = s THEN pipe[t] \cup {q}
                                                     ELSE pipe[t]
  BY DEF Inductive, Typed, TypeOK
<1>4. \A r : Copied(r)' => r = q \/ Copied(r)
  BY <1>3 DEF Copied
<1>5. asked[m] \in 1..MaxAsk
  BY DEF Inductive, Typed, TypeOK, Grounded, Deliverable, Waiting
<1>6. ClaimsAreHonest'
  <2>1. \A k \in Message, a \in 1..MaxAsk : Copied(<<k, a>>)' => a <= asked'[k]
    BY <1>4, <1>5 DEF Inductive, Safe, ClaimsAreHonest
  <2>2. ASSUME mail'[m].state = "claimed"
        PROVE  /\ mail'[m].pushed /\ ~InFlight(m)'
               /\ \A t \in Session :
                    <<m, asked'[m]>> \in pipe'[t] \cup transcript'[t]
                      => t = mail'[m].by
    <3>1. \A t \in Session : q \notin pipe[t] \cup transcript[t]
      BY DEF Copied
    <3> QED
      BY <1>2, <1>3, <2>2, <3>1
  <2>3. ASSUME NEW k \in Message \ {m}, mail'[k].state = "claimed",
               NEW t \in Session,
               <<k, asked'[k]>> \in pipe'[t] \cup transcript'[t]
        PROVE  t = mail'[k].by
    <3>1. <<k, asked[k]>> # q
      OBVIOUS
    <3>2. <<k, asked[k]>> \in pipe[t] \cup transcript[t]
      BY <1>3, <2>3, <3>1
    <3> QED
      BY <1>1, <2>3, <3>2 DEF Inductive, Safe, ClaimsAreHonest
  <2>4. \A k \in Message \ {m} : mail'[k].state = "claimed" =>
          /\ ~mail'[k].pushed => handed'[k] # "given"
          /\ InFlight(k)' => /\ flight'[k].stage = "interrupt"
                             /\ flight'[k].who = mail'[k].by
                             /\ handed'[k] # "given"
    BY <1>1 DEF Inductive, Safe, ClaimsAreHonest, InFlight
  <2> QED
    BY <2>1, <2>2, <2>3, <2>4 DEF ClaimsAreHonest
<1>7. \A k \in Message \ {m} :
        Copied(<<k, asked[k]>>)' => Copied(<<k, asked[k]>>)
  <2>1. ASSUME NEW k \in Message \ {m}, Copied(<<k, asked[k]>>)'
        PROVE  Copied(<<k, asked[k]>>)
    <3>1. <<k, asked[k]>> # q /\ <<k, asked'[k]>> = <<k, asked[k]>>
      OBVIOUS
    <3> HIDE DEF q
    <3> QED
      BY <1>4, <2>1, <3>1 DEF Copied
  <2> QED
    BY <2>1
<1>8. NoSilentDuplicate'
  BY <1>1, <1>2, <1>7
     DEF Inductive, Safe, NoSilentDuplicate, Deliverable, Waiting
<1>9. OneRecipient'
  <2>1. \A t \in Session : q \notin pipe[t] \cup transcript[t]
    BY DEF Copied
  <2> HIDE DEF q
  <2> QED
    BY <1>3, <2>1 DEF Inductive, Safe, OneRecipient
<1>10. CancelledNeverDelivered'
  <2>1. mail'[m].state # "cancelled"
    BY <1>2
  <2>2. ASSUME NEW k \in Message, mail'[k].state = "cancelled"
        PROVE  ~Copied(<<k, asked[k]>>)'
    <3>1. k \in Message \ {m} /\ mail[k].state = "cancelled"
      BY <1>1, <2>1, <2>2
    <3> QED
      BY <1>7, <3>1 DEF Inductive, Safe, CancelledNeverDelivered
  <2> QED
    BY <2>2 DEF CancelledNeverDelivered
<1>11. Receipted'
  <2>1. \A t, k : Heard(t, k)' <=> Heard(t, k)
    BY DEF Heard
  <2>2. ASSUME NEW k \in Message, mail'[k].state = "delivered"
        PROVE  mail'[k].by \in Session /\ Heard(mail'[k].by, k)
    <3>1. CASE k = m
      BY <1>2, <2>2, <3>1
    <3>2. CASE k # m
      BY <1>1, <2>2, <3>2 DEF Inductive, Safe, Receipted
    <3> QED
      BY <3>1, <3>2
  <2> QED
    BY <2>1, <2>2 DEF Receipted
<1>12. PipesDieWithServer'
  BY DEF PipesDieWithServer
<1>13. /\ StatusOf(m) = "waiting"
       /\ StatusOf(m)' = CASE n.state = "claimed"   -> "given"
                           [] n.state = "uncertain" -> "unsure"
                           [] OTHER                 -> "received"
       /\ \A k \in Message \ {m} : StatusOf(k)' = StatusOf(k)
  <2>1. StatusOf(m) = "waiting"
    BY DEF StatusOf, Deliverable, Waiting
  <2>2. \A k \in Message \ {m} : StatusOf(k)' = StatusOf(k)
    BY <1>1 DEF StatusOf, Deliverable
  <2> QED
    BY <1>2, <2>1, <2>2 DEF StatusOf, Deliverable, Waiting
<1>14. /\ n.state = "delivered" => Promise!Receipt(m) = {"received"}
       /\ ~Promise!Copied(m)
  BY HeardMaps, CopiedMaps
<1>15. ASSUME pipe' = pipe PROVE Promised
  <2>1. StatusOf(m)' \in Promise!After(m)
    BY <1>13, <1>14, <1>15 DEF Promise!After
  <2>2. \A k \in Message \ {m} : StatusOf(k)' \in Promise!After(k)
    BY <1>13, StatusStays
  <2>3. \A t \in Session : Promise!Inputs(t)
    BY <1>9, <1>15, InputsMove
  <2> QED
    BY <2>1, <2>2, <2>3 DEF Promised, Promise!Moves
<1>16. ASSUME pipe' = [pipe EXCEPT ![s] = @ \cup {<<m, asked[m]>>}]
       PROVE  Promised
  <2>1. Promise!Give(m, s)
    BY <1>13, <1>14, <1>16 DEF Promise!Give
  <2> QED
    BY <2>1 DEF Promised
<1> QED
  BY <1>6, <1>8, <1>9, <1>10, <1>11, <1>12, <1>15, <1>16 DEF Safe, Kept

\* Both ways a submission can go are hand-overs.
LEMMA SubmitSafe ==
    ASSUME Inductive, NEW m \in Message, NEW s \in Session, NEW row \in Row,
           row.state = "claimed", row.by = s, Deliverable(m),
           ~Copied(<<m, asked[m]>>), up,
           Submit(m, s, row) \/ SubmitThrows(m, s, row),
           UNCHANGED <<transcript, asked, up>>
    PROVE  Kept
<1>1. /\ MarkPushed(row) \in Row /\ MarkPushed(row).state = "claimed"
      /\ MarkPushed(row).pushed /\ MarkPushed(row).by = s
  BY DEF MarkPushed, From, Row
<1>2. CASE Submit(m, s, row)
  <2>1. pipe' = [pipe EXCEPT ![s] = @ \cup {<<m, asked[m]>>}] /\ pipe' # pipe
    BY <1>2 DEF Submit, Copied, Inductive, Typed, TypeOK
  <2> QED
    BY <1>1, <1>2, <2>1, HandOver DEF Submit
<1>3. CASE SubmitThrows(m, s, row)
  <2> DEFINE held == HoldUncertain(MarkPushed(row), "delivery-submit-failed")
  <2>1. held \in Row /\ held.state = "uncertain" /\ held.by = s
    BY <1>1 DEF HoldUncertain, From, Row, MessageState, Reason
  <2>2. /\ MarkDelivered(held) \in Row /\ MarkDelivered(held).state = "delivered"
        /\ MarkDelivered(held).by = s
    BY <2>1 DEF MarkDelivered, From, Row, MessageState
  <2>3. /\ \/ mail' = [mail EXCEPT ![m] = held]
           \/ mail' = [mail EXCEPT ![m] = MarkDelivered(held)] /\ Heard(s, m)
        /\ flight' = [flight EXCEPT ![m] = Landed]
        /\ handed' = [handed EXCEPT ![m] = "given"]
        /\ \/ pipe' = pipe
           \/ pipe' = [pipe EXCEPT ![s] = @ \cup {<<m, asked[m]>>}]
    BY <1>3 DEF SubmitThrows
  <2> HIDE DEF held
  <2>4. CASE mail' = [mail EXCEPT ![m] = held]
    BY <2>1, <2>3, <2>4, HandOver
  <2>5. CASE mail' = [mail EXCEPT ![m] = MarkDelivered(held)] /\ Heard(s, m)
    BY <2>2, <2>3, <2>5, HandOver
  <2> QED
    BY <2>3, <2>4, <2>5
<1> QED
  BY <1>2, <1>3

\* A claim is made of mail no agent has; it is not pushed yet.
LEMMA ClaimStep ==
    ASSUME Inductive, NEW m \in Message, NEW n \in Row, n.state = "claimed",
           ~Copied(<<m, asked[m]>>), Deliverable(m),
           mail' = [mail EXCEPT ![m] = n],
           handed'[m] \in {"no", "marked"},
           \A k \in Message \ {m} :
               handed'[k] = handed[k] /\ (InFlight(k)' => flight'[k] = flight[k]),
           InFlight(m)' => /\ flight'[m].stage = "interrupt"
                           /\ flight'[m].who = n.by,
           \A s \in Session : pipe'[s] \subseteq pipe[s],
           \A s \in Session : transcript[s] \subseteq transcript'[s],
           \A s \in Session : transcript'[s] \subseteq transcript[s] \cup pipe[s],
           OneRecipient', PipesDieWithServer', UNCHANGED asked
    PROVE  Kept
<1>1. \A k \in Message \ {m} : mail'[k] = mail[k]
  BY DEF Inductive, Typed, TypeOK
<1>2. mail'[m] = n
  BY DEF Inductive, Typed, TypeOK
<1>3. \A q : Copied(q)' => Copied(q)
  BY DEF Copied
<1>4. ClaimsAreHonest'
  <2>1. \A k \in Message, a \in 1..MaxAsk : Copied(<<k, a>>)' => a <= asked'[k]
    BY <1>3 DEF Inductive, Safe, ClaimsAreHonest
  <2>2. \A s \in Session : <<m, asked'[m]>> \notin pipe'[s] \cup transcript'[s]
    BY <1>3 DEF Copied
  <2>3. ASSUME NEW k \in Message \ {m}, mail'[k].state = "claimed"
        PROVE  /\ ~mail'[k].pushed => handed'[k] # "given"
               /\ \A s \in Session :
                    <<k, asked'[k]>> \in pipe'[s] \cup transcript'[s]
                      => s = mail'[k].by
               /\ InFlight(k)' => /\ flight'[k].stage = "interrupt"
                                  /\ flight'[k].who = mail'[k].by
                                  /\ handed'[k] # "given"
    BY <1>1, <2>3 DEF Inductive, Safe, ClaimsAreHonest, InFlight
  <2> QED
    BY <1>2, <2>1, <2>2, <2>3 DEF ClaimsAreHonest
<1>5. NoSilentDuplicate'
  BY <1>1, <1>3 DEF Inductive, Safe, NoSilentDuplicate, Deliverable
<1>6. CancelledNeverDelivered'
  BY <1>1, <1>2, <1>3 DEF Inductive, Safe, CancelledNeverDelivered
<1>7. Receipted'
  BY <1>1, <1>2 DEF Inductive, Safe, Receipted, Heard
<1>8. Promise!Moves
  <2>1. StatusOf(m) = "waiting" /\ StatusOf(m)' = "waiting"
    BY <1>2 DEF StatusOf, Deliverable, Waiting
  <2>2. \A k \in Message \ {m} : StatusOf(k)' = StatusOf(k)
    BY <1>1 DEF StatusOf, Deliverable
  <2>3. \A k \in Message : StatusOf(k)' \in Promise!After(k)
    BY <2>1, <2>2, StatusStays
  <2>4. \A s \in Session : Promise!Inputs(s)
    BY InputsMove
  <2> QED
    BY <2>3, <2>4 DEF Promise!Moves
<1> QED
  BY <1>4, <1>5, <1>6, <1>7, <1>8 DEF Safe, Kept, Promised

LEMMA PushingSafe ==
    ASSUME Inductive, NEW m \in Message,
           Push(m) \/ ClaimAndInterrupt(m) \/ AfterInterrupt(m)
    PROVE  Kept
<1>1. Quiet(m, mail[m]) /\ mail[m] \in Row /\ TypeOK /\ Typed
  BY QuietNow DEF Inductive, Typed, TypeOK
<1>2. ASSUME ClaimWins(m)
      PROVE  /\ ~Copied(<<m, asked[m]>>) /\ Deliverable(m)
             /\ flight[m].who \in Session /\ ClaimRow(m) \in Row
             /\ ClaimRow(m).state = "claimed" /\ ClaimRow(m).by = flight[m].who
  BY <1>1, <1>2, ClaimRowTypes, QuietNow DEF Waiting, Deliverable
<1>3. CASE Push(m)
  <2>1. ClaimWins(m) /\ up /\ UNCHANGED <<transcript, asked, up>>
    BY <1>3 DEF Push, world
  <2>2. \/ Submit(m, flight[m].who, ClaimRow(m))
        \/ SubmitThrows(m, flight[m].who, ClaimRow(m))
    BY <1>3 DEF Push
  <2> QED
    BY <1>2, <2>1, <2>2, SubmitSafe
<1>4. CASE ClaimAndInterrupt(m)
  <2>1. /\ ClaimWins(m) /\ mail' = [mail EXCEPT ![m] = ClaimRow(m)]
        /\ handed' = [handed EXCEPT ![m] = "no"]
        /\ flight' = [flight EXCEPT ![m].stage = "interrupt"]
        /\ UNCHANGED <<transcript, asked, up>> /\ up
    BY <1>4 DEF ClaimAndInterrupt, world
  <2>2. \A s \in Session : pipe'[s] \subseteq pipe[s]
    BY <1>1, <1>4 DEF ClaimAndInterrupt, TypeOK
  <2>3. /\ handed'[m] = "no"
        /\ \A k \in Message \ {m} :
             handed'[k] = handed[k] /\ flight'[k] = flight[k]
    BY <1>1, <2>1 DEF TypeOK
  <2>4. flight'[m].stage = "interrupt" /\ flight'[m].who = flight[m].who
    BY <1>1, <2>1 DEF TypeOK, Flight
  <2>5. OneRecipient' /\ PipesDieWithServer'
    BY <2>1, <2>2 DEF Inductive, Safe, OneRecipient, PipesDieWithServer
  <2> QED
    BY <1>2, <2>1, <2>2, <2>3, <2>4, <2>5, ClaimStep
<1>5. CASE AfterInterrupt(m)
  <2> DEFINE s == flight[m].who
  <2>1. /\ s \in Session /\ InFlight(m) /\ up
        /\ UNCHANGED <<transcript, asked, up>>
    BY <1>1, <1>5 DEF AfterInterrupt, Typed, Grounded, WithSession, InFlight, world
  <2>2. mail[m].state = "claimed" =>
          ~Copied(<<m, asked[m]>>) /\ mail[m].by = s /\ Deliverable(m)
    BY <2>1, QuietNow DEF Inductive, Safe, ClaimsAreHonest, Deliverable
  <2>3. ASSUME NEW n, Quiet(m, n), mail' = [mail EXCEPT ![m] = n],
               flight' = [flight EXCEPT ![m] = Landed],
               UNCHANGED <<pipe, handed>>
        PROVE  Kept
    <3>1. /\ ~InFlight(m)'
          /\ \A k \in Message \ {m} : flight'[k] = flight[k]
      BY <1>1, <2>3 DEF InFlight, Landed, TypeOK
    <3> QED
      BY <2>1, <2>3, <3>1, QuietRowStep
  <2>4. Quiet(m, Requeue(mail[m])) /\ Quiet(m, HoldForRequest(Requeue(mail[m])))
    BY <1>1, <2>2, QuietRows
  <2>5. CASE /\ mail' = [mail EXCEPT ![m] =
                          IF card[s] THEN HoldForRequest(Requeue(@))
                                     ELSE Requeue(@)]
             /\ flight' = [flight EXCEPT ![m] = Landed]
             /\ UNCHANGED <<turn, pipe, handed>>
    BY <2>3, <2>4, <2>5
  <2>6. CASE /\ flight' = [flight EXCEPT ![m] = Landed]
             /\ UNCHANGED <<mail, turn, pipe, handed>>
    <3>1. mail' = [mail EXCEPT ![m] = mail[m]]
      BY <1>1, <2>6 DEF TypeOK
    <3> QED
      BY <1>1, <2>3, <2>6, <3>1
  <2>7. CASE /\ mail[m].state = "claimed"
             /\ Submit(m, s, mail[m]) \/ SubmitThrows(m, s, mail[m])
    BY <1>1, <2>1, <2>2, <2>7, SubmitSafe
  <2> QED
    BY <1>5, <2>5, <2>6, <2>7 DEF AfterInterrupt
<1> QED
  BY <1>3, <1>4, <1>5

\* A throw before markPushed has handed nothing over.
LEMMA PushThrowsSafe ==
    ASSUME Inductive, NEW m \in Message, PushThrows(m)
    PROVE  Kept
<1>1. Quiet(m, mail[m]) /\ mail[m] \in Row /\ TypeOK /\ Typed
  BY QuietNow DEF Inductive, Typed, TypeOK
<1>2. /\ up /\ flight' = [flight EXCEPT ![m] = Landed]
      /\ UNCHANGED <<transcript, pipe, asked, up>>
      /\ \A k \in Message \ {m} : handed'[k] = handed[k]
  BY <1>1 DEF PushThrows, sessions, world, TypeOK
<1>3. flight[m].who \in Session
  BY <1>1, ClaimRowTypes DEF PushThrows, Typed, Grounded, WithSession
<1>4. ASSUME NEW n, Quiet(m, n), mail' = [mail EXCEPT ![m] = n],
             n.state # "claimed"
      PROVE  Kept
  <2>1. /\ ~InFlight(m)'
        /\ \A k \in Message \ {m} : flight'[k] = flight[k]
    BY <1>1, <1>2 DEF InFlight, Landed, TypeOK
  <2> QED
    BY <1>2, <1>4, <2>1, QuietRowStep
<1>5. ASSUME ClaimWins(m), NEW n \in Unsubmitted(m, flight[m].who, ClaimRow(m))
      PROVE  Quiet(m, n) /\ n.state # "claimed"
  <2>1. /\ ClaimRow(m) \in Row /\ ClaimRow(m).state = "claimed"
        /\ ClaimRow(m).by = flight[m].who /\ Waiting(mail[m])
    BY <1>1, <1>5, ClaimRowTypes DEF Waiting
  <2>2. ~Copied(<<m, asked[m]>>)
    BY <2>1, QuietNow
  <2>3. /\ n \in Row
        /\ \/ n.state \in {"queued", "uncertain"}
           \/ n.state = "delivered" /\ Heard(n.by, m) /\ n.by \in Session
    BY <1>3, <1>5, <2>1, UnsubmittedTypes
  <2> QED
    BY <2>1, <2>2, <2>3 DEF Quiet, Keeps, Waiting, Onward, Ended
<1>6. ASSUME flight[m].stage = "interrupt",
             NEW n \in Unsubmitted(m, flight[m].who, mail[m])
      PROVE  Quiet(m, n) /\ n.state # "claimed"
  <2>1. mail[m].state = "claimed" =>
          ~Copied(<<m, asked[m]>>) /\ mail[m].by = flight[m].who
    BY <1>6, QuietNow DEF Inductive, Safe, ClaimsAreHonest, InFlight
  <2>2. CASE mail[m].state # "claimed"
    BY <1>1, <1>6, <2>2 DEF Unsubmitted
  <2>3. CASE mail[m].state = "claimed"
    <3>1. /\ n \in Row
          /\ \/ n.state \in {"queued", "uncertain"}
             \/ n.state = "delivered" /\ Heard(n.by, m) /\ n.by \in Session
      BY <1>1, <1>3, <1>6, <2>1, <2>3, UnsubmittedTypes
    <3> QED
      BY <2>1, <2>3, <3>1 DEF Quiet, Keeps, Waiting, Onward, Ended
  <2> QED
    BY <2>2, <2>3
<1> QED
  BY <1>4, <1>5, <1>6 DEF PushThrows

LEMMA DispatchingSafe ==
    ASSUME Inductive, NEW m \in Message, Dispatching(m)
    PROVE  Kept
BY PickingSafe, SpawningSafe, PushingSafe, PushThrowsSafe DEF Dispatching

\* Settling leaves quiet rows: an unpushed claim has no copy to fear, and only
\* a receipt delivers.
LEMMA SettledQuiet ==
    ASSUME Inductive, NEW s \in Session, NEW claims \in SUBSET ClaimsOf(s),
           NEW found \in SUBSET HeardBy(s)
    PROVE  \A m \in Message : Quiet(m, Settled(claims, found)[m])
<1> SUFFICES ASSUME NEW m \in Message
             PROVE  Quiet(m, Settled(claims, found)[m])
  OBVIOUS
<1>1. Quiet(m, mail[m]) /\ TypeOK
  BY QuietNow DEF Inductive, Typed
<1>2. CASE m \notin claims
  BY <1>1, <1>2 DEF Settled
<1>3. CASE m \in claims
  <2>1. mail[m].state = "claimed" /\ mail[m].by = s
    BY <1>3 DEF ClaimsOf, ClaimOf
  <2>2. m \in found => Heard(s, m)
    BY DEF HeardBy
  <2>3. "receipt-unconfirmed-after-delivery" \in Reason
    BY DEF Reason
  <2>4. Quiet(m, SettleRow(mail[m], m \in found))
    BY <1>1, <2>1, <2>2, <2>3, QuietNow, QuietRows DEF SettleRow
  <2> QED
    BY <1>3, <2>4 DEF Settled
<1> QED
  BY <1>2, <1>3

LEMMA SettlementQuiet ==
    ASSUME Inductive, NEW s \in Session
    PROVE  /\ \A rows \in Settle(s), m \in Message : Quiet(m, rows[m])
           /\ \A result \in SettleOrChain(s), m \in Message :
                Quiet(m, result[1][m])
<1>1. \A rows \in Settle(s), m \in Message : Quiet(m, rows[m])
  BY SettledQuiet DEF Settle
<1>2. ASSUME NEW result \in SettleOrChain(s)
      PROVE  result[1] \in Settle(s) \cup {mail}
  BY <1>2 DEF SettleOrChain
<1> QED
  BY <1>1, <1>2, QuietNow

\* A row written to disk leaves the pipe it came from.
LEMMA RecordSafe ==
    ASSUME Inductive, NEW s \in Session, NEW q \in Request, Record(s, q)
    PROVE  Kept
<1>1. /\ q \in pipe[s]
      /\ pipe' = [pipe EXCEPT ![s] = @ \ {q}]
      /\ transcript' = [transcript EXCEPT ![s] = @ \cup {q}]
      /\ UNCHANGED <<mail, flight, asked, handed, up>> /\ up
  BY DEF Record, dispatch, world, history
<1>2. \A t \in Session : /\ pipe'[t] = IF t = s THEN pipe[t] \ {q} ELSE pipe[t]
                         /\ transcript'[t] = IF t = s THEN transcript[t] \cup {q}
                                                      ELSE transcript[t]
  BY <1>1 DEF Inductive, Typed, TypeOK
<1>3. \A t \in Session :
        pipe'[t] \cup transcript'[t] = pipe[t] \cup transcript[t]
  BY <1>1, <1>2
<1>4. \A r : Copied(r)' <=> Copied(r)
  BY <1>3 DEF Copied
<1>5. ClaimsAreHonest'
  BY <1>1, <1>3, <1>4 DEF Inductive, Safe, ClaimsAreHonest, InFlight
<1>6. NoSilentDuplicate' /\ CancelledNeverDelivered'
  BY <1>1, <1>4
     DEF Inductive, Safe, NoSilentDuplicate, CancelledNeverDelivered, Deliverable
<1>7. OneRecipient'
  <2>1. \A t \in Session : /\ q \notin transcript[t]
                           /\ t # s => q \notin pipe[t]
    BY <1>1 DEF Inductive, Safe, OneRecipient
  <2>2. ASSUME NEW a \in Session, NEW b \in Session
        PROVE  pipe'[a] \cap transcript'[b] = {}
    <3>1. pipe[a] \cap transcript[b] = {}
      BY DEF Inductive, Safe, OneRecipient
    <3> QED
      BY <1>2, <2>1, <3>1
  <2>3. ASSUME NEW a \in Session, NEW b \in Session, a # b
        PROVE  /\ pipe'[a] \cap pipe'[b] = {}
               /\ transcript'[a] \cap transcript'[b] = {}
    <3>1. /\ pipe[a] \cap pipe[b] = {} /\ pipe[a] \cap transcript[b] = {}
          /\ pipe[b] \cap transcript[a] = {}
          /\ transcript[a] \cap transcript[b] = {}
      BY <2>3 DEF Inductive, Safe, OneRecipient
    <3> QED
      BY <1>2, <2>1, <2>3, <3>1
  <2> QED
    BY <2>2, <2>3 DEF OneRecipient
<1>8. Receipted'
  <2>1. \A t \in Session, k \in Message : Heard(t, k) => Heard(t, k)'
    BY <1>2 DEF Heard
  <2> QED
    BY <1>1, <2>1 DEF Inductive, Safe, Receipted
<1>9. PipesDieWithServer'
  BY <1>1 DEF PipesDieWithServer
<1>10. Promise!Moves
  <2>1. \A m \in Message : StatusOf(m)' \in Promise!After(m)
    BY <1>1, StatusStays DEF StatusOf, Deliverable
  <2>2. \A t \in Session : Promise!Inputs(t)
    BY <1>1, <1>2, <1>7, InputsMove
  <2> QED
    BY <1>1, <2>1, <2>2 DEF Promise!Moves
<1> QED
  BY <1>5, <1>6, <1>7, <1>8, <1>9, <1>10 DEF Safe, Kept, Promised

LEMMA AgentSafe ==
    ASSUME Inductive, NEW s \in Session, Agent(s) \/ Settling(s)
    PROVE  Kept
<1>1. /\ \A m \in Message : Quiet(m, mail[m])
      /\ TypeOK
      /\ \A result \in SettleOrChain(s), m \in Message : Quiet(m, result[1][m])
  BY QuietNow, SettlementQuiet DEF Inductive, Typed
<1>2. ASSUME NEW q \in Request, Record(s, q) PROVE Kept
  BY <1>2, RecordSafe
<1>3. CASE AgentDies(s)
  <2>1. \A m \in Message : Quiet(m, mail'[m])
    BY <1>1, <1>3 DEF AgentDies
  <2>2. \A t \in Session : pipe'[t] \subseteq pipe[t]
    BY <1>1, <1>3 DEF AgentDies, TypeOK
  <2> QED
    BY <1>3, <2>1, <2>2, QuietSessionStep DEF AgentDies, dispatch, world, history
<1>4. CASE AskHuman(s)
  BY <1>1, <1>4, QuietSessionStep DEF AskHuman, dispatch, world, history
<1>5. CASE Compact(s)
  BY <1>1, <1>5, QuietSessionStep DEF Compact, dispatch, world, history
<1>6. ASSUME NEW outcome \in {"success", "failed", "exhausted"},
             EndTurn(s, outcome)
      PROVE  Kept
  <2> PICK result \in SettleOrChain(s) :
             mail' = IF outcome = "exhausted" THEN Exhaust(result[1], s)
                                              ELSE result[1]
    BY <1>6 DEF EndTurn
  <2>1. \A m \in Message : Quiet(m, result[1][m])
    BY <1>1
  <2>2. "context-exhausted" \in Reason
    BY DEF Reason
  <2>3. ASSUME NEW m \in Message
        PROVE  Quiet(m, Exhaust(result[1], s)[m])
    <3> DEFINE n == IF turn[s] = m THEN Drop(result[1][m]) ELSE result[1][m]
    <3>1. Quiet(m, n)
      BY <1>1, <2>1, <2>2, QuietRows DEF Drop
    <3>2. Exhaust(result[1], s)[m]
            = DeadLetterDirectTo(n, s, "context-exhausted")
      BY DEF Exhaust
    <3> HIDE DEF n
    <3> QED
      BY <1>1, <2>2, <3>1, <3>2, QuietRows
  <2>4. \A m \in Message : Quiet(m, mail'[m])
    BY <2>1, <2>3
  <2> QED
    BY <1>6, <2>4, QuietSessionStep DEF EndTurn, dispatch, world
<1>7. ASSUME NEW m \in Message, TailReceipt(s, m) PROVE Kept
  <2>1. Quiet(m, MarkDelivered(mail[m]))
    BY <1>1, <1>7, QuietRows DEF TailReceipt
  <2>2. \A k \in Message : Quiet(k, mail'[k])
    BY <1>1, <1>7, <2>1 DEF TailReceipt, TypeOK
  <2> QED
    BY <1>7, <2>2, QuietSessionStep
       DEF TailReceipt, sessions, dispatch, world, history
<1>8. CASE RetrySettle(s)
  <2>1. StillClaimed(s, chain[s]) \in SUBSET ClaimsOf(s)
    BY DEF StillClaimed
  <2>2. \A m \in Message : Quiet(m, mail'[m])
    BY <1>8, <2>1, SettledQuiet DEF RetrySettle
  <2> QED
    BY <1>8, <2>2, QuietSessionStep DEF RetrySettle, dispatch, world, history
<1>9. CASE GiveUpSettle(s)
  BY <1>1, <1>9, QuietSessionStep DEF GiveUpSettle, dispatch, world, history
<1> QED
  BY <1>2, <1>3, <1>4, <1>5, <1>6, <1>7, <1>8, <1>9 DEF Agent, Settling

LEMMA OwnerSafe ==
    ASSUME Inductive, NEW s \in Session, Owner(s)
    PROVE  Kept
<1>1. /\ \A m \in Message : Quiet(m, mail[m])
      /\ TypeOK
      /\ \A rows \in Settle(s), m \in Message : Quiet(m, rows[m])
  BY QuietNow, SettlementQuiet DEF Inductive, Typed
<1>2. ASSUME NEW lives, EndSession(s, lives),
             \A m \in Message : Quiet(m, mail'[m])
      PROVE  Kept
  <2>1. \A t \in Session : pipe'[t] \subseteq pipe[t]
    BY <1>1, <1>2 DEF EndSession, TypeOK
  <2> QED
    BY <1>2, <2>1, QuietSessionStep DEF EndSession, dispatch, world, history
<1>3. CASE OwnTurn(s)
  BY <1>1, <1>3, QuietSessionStep DEF OwnTurn, dispatch, world, history
<1>4. CASE Answer(s)
  BY <1>1, <1>4, QuietSessionStep DEF Answer, dispatch, world, history
<1>5. CASE Stop(s)
  <2>1. \A t \in Session : pipe'[t] \subseteq pipe[t]
    BY <1>1, <1>5 DEF Stop, TypeOK
  <2> QED
    BY <1>1, <1>5, <2>1, QuietSessionStep DEF Stop, dispatch, world, history
<1>6. CASE Archive(s)
  BY <1>1, <1>2, <1>6 DEF Archive
<1>7. CASE Restore(s)
  BY <1>1, <1>7, QuietSessionStep DEF Restore, dispatch, world, history
<1>8. CASE Kill(s)
  <2>1. "killed-recipient" \in Reason
    BY DEF Reason
  <2> PICK rows \in Settle(s) :
             mail' = [m \in Message |->
                        DeadLetterDirectTo(rows[m], s, "killed-recipient")]
    BY <1>8 DEF Kill
  <2>2. \A m \in Message : Quiet(m, mail'[m])
    BY <1>1, <2>1, QuietRows
  <2> QED
    BY <1>2, <1>8, <2>2 DEF Kill
<1> QED
  BY <1>3, <1>4, <1>5, <1>6, <1>7, <1>8 DEF Owner

\* When the server stops every copy stays where it is or is lost.
LEMMA StopEffects ==
    ASSUME Inductive, ServerStops
    PROVE  /\ \A s \in Session : /\ pipe'[s] = {}
                                 /\ transcript[s] \subseteq transcript'[s]
                                 /\ transcript'[s] \subseteq transcript[s] \cup pipe[s]
           /\ \A m \in Message : ~InFlight(m)'
           /\ OneRecipient' /\ PipesDieWithServer' /\ UNCHANGED asked
<1>1. \A s \in Session : /\ pipe'[s] = {}
                         /\ transcript[s] \subseteq transcript'[s]
                         /\ transcript'[s] \subseteq transcript[s] \cup pipe[s]
  BY DEF ServerStops
<1>2. \A m \in Message : ~InFlight(m)'
  BY DEF ServerStops, InFlight, Landed
<1>3. OneRecipient' /\ PipesDieWithServer'
  BY <1>1 DEF Inductive, Safe, OneRecipient, PipesDieWithServer
<1> QED
  BY <1>1, <1>2, <1>3 DEF ServerStops

\* At a start, with nothing left to read, the claimant's transcript tells
\* whether the claim's envelope arrived.
LEMMA ReceiptsTell ==
    ASSUME Inductive, ~up, NEW m \in Message, mail[m].state = "claimed",
           NEW receipt \in Receipts(mail[m].by, m)
    PROVE  /\ receipt = "absent" => ~Copied(<<m, asked[m]>>)
           /\ receipt = "found" =>
                mail[m].by \in Session /\ Heard(mail[m].by, m)
<1>1. receipt = "found" => mail[m].by \in Session /\ Heard(mail[m].by, m)
  BY DEF Receipts, Exists
<1>2. ASSUME receipt = "absent", Copied(<<m, asked[m]>>)
      PROVE  FALSE
  <2>1. ~Heard(mail[m].by, m)
    BY <1>2 DEF Receipts
  <2>2. PICK s \in Session : <<m, asked[m]>> \in pipe[s] \cup transcript[s]
    BY <1>2 DEF Copied
  <2>3. s = mail[m].by /\ pipe[s] = {}
    BY <2>2 DEF Inductive, Safe, ClaimsAreHonest, PipesDieWithServer
  <2>4. asked[m] \in 1..MaxAsk
    BY DEF Inductive, Typed, TypeOK, Grounded
  <2> QED
    BY <2>1, <2>2, <2>3, <2>4 DEF Heard
<1> QED
  BY <1>1, <1>2

LEMMA WorldSafe ==
    ASSUME Inductive, Crash \/ Start \/ \E m \in Message : CrashInPush(m)
    PROVE  Kept
<1>1. TypeOK /\ \A m \in Message : Quiet(m, mail[m]) /\ mail[m] \in Row
  BY QuietNow DEF Inductive, Typed, TypeOK
<1>2. CASE Crash
  <2>1. ServerStops /\ UNCHANGED <<mail, handed>>
    BY <1>2 DEF Crash
  <2>2. \A q : Copied(q)' => Copied(q)
    BY <2>1, StopEffects DEF Copied
  <2>3. ClaimsAreHonest'
    BY <2>1, <2>2, StopEffects DEF Inductive, Safe, ClaimsAreHonest
  <2>4. NoSilentDuplicate' /\ CancelledNeverDelivered'
    BY <2>1, <2>2, StopEffects
       DEF Inductive, Safe, NoSilentDuplicate, CancelledNeverDelivered, Deliverable
  <2>5. Receipted'
    <3>1. \A s \in Session, m \in Message : Heard(s, m) => Heard(s, m)'
      BY <2>1, StopEffects DEF Heard
    <3> QED
      BY <2>1, <3>1 DEF Inductive, Safe, Receipted
  <2>6. Promise!Moves
    <3>1. \A m \in Message : StatusOf(m)' \in Promise!After(m)
      BY <2>1, StatusStays DEF StatusOf, Deliverable
    <3>2. \A s \in Session : Promise!Inputs(s)
      BY <2>1, StopEffects, InputsMove
    <3> QED
      BY <2>1, <3>1, <3>2, StopEffects DEF Promise!Moves
  <2> QED
    BY <2>1, <2>3, <2>4, <2>5, <2>6, StopEffects DEF Safe, Kept, Promised
<1>3. ASSUME NEW m \in Message, CrashInPush(m) PROVE Kept
  <2>1. ServerStops
    BY <1>3 DEF CrashInPush
  <2>2. ASSUME NEW n \in Row, n.state = "claimed", ~Copied(<<m, asked[m]>>),
               Deliverable(m),
               mail' = [mail EXCEPT ![m] = n],
               \E h \in {"no", "marked"} : handed' = [handed EXCEPT ![m] = h]
        PROVE  Kept
    <3>1. /\ handed'[m] \in {"no", "marked"}
          /\ \A k \in Message \ {m} : handed'[k] = handed[k]
      BY <1>1, <2>2 DEF TypeOK
    <3>2. /\ \A k \in Message : ~InFlight(k)'
          /\ \A s \in Session : /\ pipe'[s] \subseteq pipe[s]
                                /\ transcript[s] \subseteq transcript'[s]
                                /\ transcript'[s] \subseteq transcript[s] \cup pipe[s]
          /\ OneRecipient' /\ PipesDieWithServer' /\ UNCHANGED asked
      BY <2>1, StopEffects
    <3> QED
      BY <2>2, <3>1, <3>2, ClaimStep
  <2>3. ASSUME NEW n \in Row, n.state = "claimed"
        PROVE  MarkPushed(n) \in Row /\ MarkPushed(n).state = "claimed"
    BY <2>3 DEF MarkPushed, From, Row
  <2>4. ASSUME ClaimWins(m)
        PROVE  /\ ~Copied(<<m, asked[m]>>) /\ Deliverable(m)
               /\ ClaimRow(m) \in Row /\ ClaimRow(m).state = "claimed"
    BY <1>1, <2>4, ClaimRowTypes, QuietNow
       DEF Inductive, ClaimWins, Claimable, Waiting, Deliverable
  <2>5. CASE /\ ClaimWins(m)
             /\ \/ /\ mail' = [mail EXCEPT ![m] = ClaimRow(m)]
                   /\ handed' = [handed EXCEPT ![m] = "no"]
                \/ /\ mail' = [mail EXCEPT ![m] = MarkPushed(ClaimRow(m))]
                   /\ handed' = [handed EXCEPT ![m] = "marked"]
    BY <2>2, <2>3, <2>4, <2>5
  <2>6. CASE /\ flight[m].stage = "interrupt" /\ mail[m].state = "claimed"
             /\ mail' = [mail EXCEPT ![m] = MarkPushed(mail[m])]
             /\ handed' = [handed EXCEPT ![m] = "marked"]
    <3>1. ~Copied(<<m, asked[m]>>) /\ Deliverable(m)
      BY <2>6, QuietNow DEF InFlight, Deliverable, Inductive, Safe, ClaimsAreHonest
    <3> QED
      BY <1>1, <2>2, <2>3, <2>6, <3>1
  <2> QED
    BY <1>3, <2>5, <2>6 DEF CrashInPush
<1>4. CASE Start
  <2> PICK receipt \in [Message -> {"found", "absent", "uncertain"}] :
             /\ \A m \in Message : receipt[m] \in Receipts(mail[m].by, m)
             /\ mail' = [m \in Message |-> StartRow(mail[m], receipt[m])]
    BY <1>4 DEF Start
  <2>1. \A m \in Message : mail[m].state = "claimed" =>
          /\ receipt[m] = "absent" => ~Copied(<<m, asked[m]>>)
          /\ receipt[m] = "found" =>
               mail[m].by \in Session /\ Heard(mail[m].by, m)
    BY <1>4, ReceiptsTell DEF Start
  <2>2. ASSUME NEW m \in Message
        PROVE  Quiet(m, StartRow(mail[m], receipt[m]))
    <3> DEFINE kept == ReconcileRow(mail[m], receipt[m])
               idle == IF kept.state = "spawning" THEN Requeue(kept) ELSE kept
    <3>1. {"killed-recipient", "transcript-unavailable-or-torn"} \subseteq Reason
      BY DEF Reason
    <3>2. Quiet(m, kept)
      BY <1>1, <2>1, <3>1, QuietNow, QuietRows DEF ReconcileRow
    <3> HIDE DEF kept
    <3>3. Quiet(m, idle)
      BY <1>1, <3>2, QuietRows
    <3> HIDE DEF idle
    <3>4. StartRow(mail[m], receipt[m]) \in {idle, DeadLetter(idle, "killed-recipient")}
      BY DEF StartRow, kept, idle
    <3> QED
      BY <1>1, <3>1, <3>3, <3>4, QuietRows
  <2>3. \A m \in Message : Quiet(m, mail'[m])
    BY <2>2
  <2>4. /\ PipesDieWithServer'
        /\ UNCHANGED <<pipe, flight, transcript, asked, handed>>
    BY <1>4 DEF Start, PipesDieWithServer, history
  <2> QED
    BY <2>3, <2>4, QuietStep
<1> QED
  BY <1>2, <1>3, <1>4

LEMMA InitSafe == Init => Safe
<1> SUFFICES ASSUME Init PROVE Safe
  OBVIOUS
<1>1. \A q : ~Copied(q)
  BY DEF Init, Copied
<1>2. \A m \in Message : mail[m].state = "absent"
  BY DEF Init, AbsentRow
<1> QED
  BY <1>1, <1>2
     DEF Init, Safe, ClaimsAreHonest, NoSilentDuplicate, OneRecipient, Waiting,
         CancelledNeverDelivered, Receipted, PipesDieWithServer, Deliverable

-----------------------------------------------------------------------------
\* Every step of the system keeps the safety properties and the promise.
LEMMA KeptStep == Inductive /\ [Next]_vars => Kept
<1> SUFFICES ASSUME Inductive, [Next]_vars PROVE Kept
  OBVIOUS
<1>1. ASSUME NEW m \in Message, Sending(m) \/ Dispatching(m) \/ Managing(m)
      PROVE  Kept
  BY <1>1, SendingSafe, DispatchingSafe, ManagingSafe
<1>2. ASSUME NEW s \in Session, Agent(s) \/ Settling(s) \/ Owner(s)
      PROVE  Kept
  BY <1>2, AgentSafe, OwnerSafe
<1>3. CASE Crash \/ Start \/ \E m \in Message : CrashInPush(m)
  BY <1>3, WorldSafe
<1>4. CASE UNCHANGED vars
  <2>1. /\ \A m \in Message : Quiet(m, mail'[m])
        /\ UNCHANGED <<pipe, flight, transcript, asked, handed, up>>
    BY <1>4, QuietNow DEF vars
  <2> QED
    BY <2>1, QuietSessionStep
<1> QED
  BY <1>1, <1>2, <1>3, <1>4 DEF Next

\* Every step of the system keeps the inductive invariant.
THEOREM SafeStep == Inductive /\ [Next]_vars => Inductive'
<1> QED
  BY KeptStep, TypedStep DEF Inductive, Kept

THEOREM InductiveAlways == Spec => []Inductive
<1>1. Init => Inductive
  BY InitTyped, InitSafe DEF Inductive
<1> QED
  BY <1>1, SafeStep, PTL DEF Spec

\* No message that may still be handed to an agent has a copy of the same
\* request with any agent: crashes, failed settles, retries and interrupts
\* of the dispatcher never make a silent duplicate.
THEOREM NeverASilentDuplicate == Spec => []NoSilentDuplicate
<1>1. Inductive => NoSilentDuplicate
  BY DEF Inductive, Safe
<1> QED
  BY <1>1, InductiveAlways, PTL

\* A request's envelope is with one agent at most, and either unread or
\* recorded.
THEOREM NeverTwoRecipients == Spec => []OneRecipient
<1>1. Inductive => OneRecipient
  BY DEF Inductive, Safe
<1> QED
  BY <1>1, InductiveAlways, PTL

\* A message cancelled while a pass had already picked it stays undelivered.
THEOREM CancelHolds == Spec => []CancelledNeverDelivered
<1>1. Inductive => CancelledNeverDelivered
  BY DEF Inductive, Safe
<1> QED
  BY <1>1, InductiveAlways, PTL

\* Only a row of the claimant's transcript makes a message delivered.
THEOREM ReceiptsProveDelivery == Spec => []DeliveredHasReceipt
<1>1. Inductive => DeliveredHasReceipt
  BY DEF Inductive, Safe, Receipted, DeliveredHasReceipt
<1> QED
  BY <1>1, InductiveAlways, PTL

\* The facts about claims the others rest on.
THEOREM ClaimsStayHonest == Spec => []ClaimsAreHonest
<1>1. Inductive => ClaimsAreHonest
  BY DEF Inductive, Safe
<1> QED
  BY <1>1, InductiveAlways, PTL

-----------------------------------------------------------------------------
(***************************************************************************)
(* Refinement                                                              *)
(***************************************************************************)
\* An initial state is one of the promise.
LEMMA PromiseInit == Init => Promise!Init
<1> SUFFICES ASSUME Init PROVE Promise!Init
  OBVIOUS
<1>1. \A m \in Message : StatusOf(m) = "unsent"
  BY DEF Init, StatusOf, Deliverable, Waiting, AbsentRow
<1>2. [m \in Message |-> StatusOf(m)] = [m \in Message |-> "unsent"]
  BY <1>1
<1> QED
  BY <1>2 DEF Init, Promise!Init

\* Every step of the system is a step of the promise, or none.
LEMMA PromiseStep ==
    Inductive /\ Inductive' /\ [Next]_vars => [Promise!Next]_Promise!vars
<1> SUFFICES ASSUME Inductive, Inductive', [Next]_vars PROVE Promise!Next
  OBVIOUS
<1>1. Promised
  BY KeptStep DEF Kept
<1>2. ASSUME Promise!Moves PROVE Promise!Settle
  <2>1. \A m \in Message : StatusOf(m)' \in Promise!Status
    <3>1. TypeOK'
      BY DEF Inductive, Typed
    <3> QED
      BY <3>1 DEF TypeOK, Row, MessageState, StatusOf, Promise!Status
  <2>2. /\ pipe' \in [Session -> SUBSET Promise!Copies]
        /\ transcript' \in [Session -> SUBSET Promise!Copies]
    BY DEF Inductive, Typed, TypeOK, Request, Promise!Copies
  <2> QED
    BY <1>2, <2>1, <2>2 DEF Promise!Settle
<1> QED
  BY <1>1, <1>2 DEF Promised, Promise!Next

\* Mail delivery implements the mailbox's promise, for all sessions, messages
\* and bounds.
THEOREM DeliveryKeepsPromise == Spec => KeepsPromise
<1> QED
  BY PromiseInit, PromiseStep, InductiveAlways, PTL
     DEF Spec, KeepsPromise, Promise!Spec
-----------------------------------------------------------------------------
(***************************************************************************)
(* Duplicates                                                              *)
(***************************************************************************)
\* The agent is told that it may have seen the message, or its first turn was
\* dropped.
Told(m) == mail[m].dup \/ m \in dropped

\* A copy that answers an older request was announced when the message was
\* asked for again: an uncertain row by the retry, a dead letter by the turn
\* that dropped it.
Announced ==
    \A m \in Message, a \in 1..MaxAsk :
        /\ Copied(<<m, a>>)
        /\ a # asked[m] \/ mail[m].state = "dead"
        => Told(m)

\* n may follow r by a statement that buries nothing.
Lives(r, n) == (r.dup => n.dup) /\ (n.state = "dead" => r.state = "dead")

\* m's row may become n: a letter dies unread, or its turn is dropped.
Fares(m, n) ==
    /\ mail[m].dup => n.dup
    /\ n.state = "dead" => \/ mail[m].state = "dead"
                           \/ ~Copied(<<m, asked[m]>>)
                           \/ m \in dropped'

LEMMA RowLives ==
    ASSUME NEW r \in Row
    PROVE  /\ Lives(r, r)
           /\ Lives(r, HoldForRequest(r)) /\ Lives(r, ReserveForSpawn(r))
           /\ Lives(r, CancelWaiting(r)) /\ Lives(r, Discard(r))
           /\ Lives(r, Requeue(r)) /\ Lives(r, HoldForRequest(Requeue(r)))
           /\ Lives(r, MarkPushed(r)) /\ Lives(r, MarkDelivered(r))
           /\ \A why : Lives(r, HoldUncertain(r, why))
           /\ \A s, t : Lives(r, Claim(r, s, t)) /\ Lives(r, ClaimSpawned(r, s, t))
<1>1. /\ Lives(r, r)
      /\ Lives(r, HoldForRequest(r)) /\ Lives(r, ReserveForSpawn(r))
      /\ Lives(r, CancelWaiting(r)) /\ Lives(r, Discard(r))
  BY DEF Lives, HoldForRequest, ReserveForSpawn, CancelWaiting, Discard, From, Row
<1>2. /\ Lives(r, Requeue(r)) /\ Lives(r, HoldForRequest(Requeue(r)))
      /\ Lives(r, MarkPushed(r)) /\ Lives(r, MarkDelivered(r))
  BY DEF Lives, Requeue, HoldForRequest, MarkPushed, MarkDelivered, From, Row
<1>3. /\ \A why : Lives(r, HoldUncertain(r, why))
      /\ \A s, t : Lives(r, Claim(r, s, t)) /\ Lives(r, ClaimSpawned(r, s, t))
  BY DEF Lives, HoldUncertain, Claim, ClaimSpawned, From, Row
<1> QED
  BY <1>1, <1>2, <1>3

\* Burials keep the announcement too.
LEMMA RowBuries ==
    ASSUME NEW r \in Row, NEW why
    PROVE  /\ r.dup => /\ DeadLetter(r, why).dup
                       /\ DeadLetterDelivered(r, why).dup
           /\ \A s : r.dup => DeadLetterDirectTo(r, s, why).dup
           /\ \A s : DeadLetterDirectTo(r, s, why).state = "dead" =>
                       r.state = "dead" \/ Waiting(r)
BY DEF DeadLetter, DeadLetterDelivered, DeadLetterDirectTo, From, Row, Waiting

LEMMA LivesFares ==
    ASSUME NEW m \in Message, NEW n, Lives(mail[m], n)
    PROVE  Fares(m, n)
BY DEF Lives, Fares

-----------------------------------------------------------------------------
\* A step that copies at most the current request of a letter that stays
\* alive, and buries only letters nobody read or whose turn it drops.
LEMMA AnnouncedKept ==
    ASSUME Announced, dropped \subseteq dropped', asked' = asked,
           \A m \in Message : Fares(m, mail'[m]),
           \A m \in Message, a \in 1..MaxAsk : Copied(<<m, a>>)' =>
               Copied(<<m, a>>) \/ (a = asked[m] /\ mail'[m].state # "dead")
    PROVE  Announced'
<1> SUFFICES ASSUME NEW m \in Message, NEW a \in 1..MaxAsk, Copied(<<m, a>>)',
                    a # asked'[m] \/ mail'[m].state = "dead"
             PROVE  Told(m)'
  BY DEF Announced
<1>1. Copied(<<m, a>>)
  OBVIOUS
<1>2. Told(m) => Told(m)'
  BY DEF Told, Fares
<1>3. CASE a # asked[m]
  BY <1>1, <1>2, <1>3 DEF Announced
<1>4. CASE a = asked[m]
  <2>1. mail[m].state = "dead" \/ m \in dropped'
    BY <1>1, <1>4 DEF Fares
  <2> QED
    BY <1>1, <1>2, <2>1 DEF Announced, Told
<1> QED
  BY <1>3, <1>4

\* The same when nothing is handed over.
LEMMA AnnouncedQuietly ==
    ASSUME Announced, dropped \subseteq dropped', asked' = asked,
           \A m \in Message : Fares(m, mail'[m]),
           \A s \in Session : pipe'[s] \subseteq pipe[s],
           \A s \in Session : transcript'[s] \subseteq transcript[s] \cup pipe[s]
    PROVE  Announced'
<1>1. \A q : Copied(q)' => Copied(q)
  BY DEF Copied
<1> QED
  BY <1>1, AnnouncedKept

\* The same when one row changes.
LEMMA AnnouncedRow ==
    ASSUME TypeOK, Announced, NEW m \in Message, NEW n, Fares(m, n),
           mail' = [mail EXCEPT ![m] = n],
           \A s \in Session : pipe'[s] \subseteq pipe[s],
           UNCHANGED <<transcript, asked, dropped>>
    PROVE  Announced'
<1>1. mail[m] \in Row /\ \A k \in Message : mail'[k] = IF k = m THEN n ELSE mail[k]
  BY DEF TypeOK
<1>2. \A k \in Message : Fares(k, mail[k])
  BY DEF Fares
<1>3. \A k \in Message : Fares(k, mail'[k])
  BY <1>1, <1>2
<1> QED
  BY <1>3, AnnouncedQuietly

\* A message is asked for: for the first time, or again after its copies were
\* announced.
LEMMA AnnouncedAsk ==
    ASSUME Inductive, Announced, NEW m \in Message, NEW n, NEW a \in Nat,
           mail' = [mail EXCEPT ![m] = n],
           asked' = [asked EXCEPT ![m] = a],
           \/ mail[m].state = "absent"
           \/ /\ mail[m].state \in {"dead", "uncertain"} /\ n.state = "queued"
              /\ n.dup \/ (mail[m].state = "dead" /\ ~mail[m].dup),
           UNCHANGED <<pipe, transcript, dropped>>
    PROVE  Announced'
<1>1. /\ mail'[m] = n /\ asked'[m] = a
      /\ \A k \in Message \ {m} : mail'[k] = mail[k] /\ asked'[k] = asked[k]
  BY DEF Inductive, Typed, TypeOK
<1>2. \A q : Copied(q)' <=> Copied(q)
  BY DEF Copied
<1>3. ASSUME mail[m].state = "absent", NEW b \in 1..MaxAsk
      PROVE  ~Copied(<<m, b>>)
  <2>1. asked[m] = 0
    BY <1>3 DEF Inductive, Typed, Grounded
  <2> QED
    BY <2>1 DEF Inductive, Safe, ClaimsAreHonest
<1>4. ASSUME mail[m].state = "dead", NEW b \in 1..MaxAsk, Copied(<<m, b>>)
      PROVE  Told(m)
  BY <1>4 DEF Announced
<1> SUFFICES ASSUME NEW k \in Message, NEW b \in 1..MaxAsk, Copied(<<k, b>>),
                    b # asked'[k] \/ mail'[k].state = "dead"
             PROVE  Told(k)'
  BY <1>2 DEF Announced
<1>5. CASE k = m
  BY <1>1, <1>3, <1>4, <1>5 DEF Told
<1>6. CASE k # m
  BY <1>1, <1>6 DEF Announced, Told
<1> QED
  BY <1>5, <1>6

-----------------------------------------------------------------------------
LEMMA SendingAnnounced ==
    ASSUME Inductive, Announced, NEW m \in Message, Sending(m)
    PROVE  Announced'
<1>1. ASSUME NEW s \in Session, Compose(m, s) PROVE Announced'
  <2>1. \A k \in Message : Fares(k, mail'[k])
    BY <1>1 DEF Compose, Fares
  <2> QED
    BY <1>1, <2>1, AnnouncedQuietly DEF Compose, history
<1>2. ASSUME NEW urgent \in BOOLEAN, NEW over \in BOOLEAN,
             \/ CommitDirect(m, urgent, over)
             \/ \E g \in Group : SendToGroup(m, g, urgent, over)
      PROVE  Announced'
  <2>1. mail[m].state = "absent"
    BY <1>2 DEF CommitDirect, SendToGroup, Inductive, Typed, Grounded
  <2> QED
    BY <1>2, <2>1, AnnouncedAsk DEF CommitDirect, SendToGroup, Store, sessions
<1> QED
  BY <1>1, <1>2 DEF Sending

LEMMA ManagingAnnounced ==
    ASSUME Inductive, Announced, NEW m \in Message, Managing(m)
    PROVE  Announced'
<1>1. mail[m] \in Row /\ TypeOK
  BY DEF Inductive, Typed, TypeOK
<1>2. CASE Cancel(m)
  <2>1. Fares(m, CancelWaiting(mail[m]))
    BY <1>1, RowLives, LivesFares
  <2> QED
    BY <1>1, <1>2, <2>1, AnnouncedRow DEF Cancel, sessions, history
<1>3. CASE DiscardMail(m)
  <2>1. Fares(m, Discard(mail[m]))
    BY <1>1, RowLives, LivesFares
  <2> QED
    BY <1>1, <1>3, <2>1, AnnouncedRow DEF DiscardMail, sessions, history
<1>4. CASE CloseTask(m)
  <2>1. ~Copied(<<m, asked[m]>>)
    BY <1>4, QuietNow DEF CloseTask
  <2>2. Fares(m, DeadLetter(mail[m], "task-closed"))
    BY <1>1, <2>1, RowBuries DEF Fares
  <2> QED
    BY <1>1, <1>4, <2>2, AnnouncedRow DEF CloseTask, sessions, history
<1>5. CASE RetryMail(m)
  <2> DEFINE n == Retry(mail[m], Exists, flagged)
  <2>1. /\ mail[m].state \in {"dead", "uncertain"}
        /\ n.state \in {"dead", "uncertain", "queued"}
        /\ mail[m].dup => n.dup
        /\ n.state = "queued" =>
             n.dup \/ (mail[m].state = "dead" /\ ~mail[m].dup)
        /\ n.state = "dead" => mail[m].state = "dead" \/ n.dup
    BY <1>1, <1>5
       DEF RetryMail, Retry, RetryKilled, RetryDead, RetryUncertain, Row
  <2>2. /\ mail' = [mail EXCEPT ![m] = n] /\ mail'[m] = n
        /\ asked' = [asked EXCEPT ![m] =
                       IF n.state = "queued" THEN asked[m] + 1 ELSE asked[m]]
        /\ UNCHANGED <<pipe, transcript, dropped>>
    BY <1>1, <1>5 DEF RetryMail, TypeOK, sessions
  <2> HIDE DEF n
  <2>3. CASE n.state = "queued"
    <3>1. asked[m] + 1 \in Nat
      BY <1>1 DEF TypeOK
    <3>2. asked' = [asked EXCEPT ![m] = asked[m] + 1]
      BY <2>2, <2>3
    <3> QED
      BY <2>1, <2>2, <2>3, <3>1, <3>2, AnnouncedAsk
  <2>4. CASE n.state # "queued"
    <3>1. asked' = asked
      BY <1>1, <2>2, <2>4 DEF TypeOK
    <3>2. \A k \in Message \ {m} : mail'[k] = mail[k]
      BY <1>1, <2>2 DEF TypeOK
    <3>3. \A q : Copied(q)' <=> Copied(q)
      BY <2>2 DEF Copied
    <3> SUFFICES ASSUME NEW k \in Message, NEW b \in 1..MaxAsk, Copied(<<k, b>>),
                        b # asked[k] \/ mail'[k].state = "dead"
                 PROVE  Told(k)'
      BY <3>1, <3>3 DEF Announced
    <3>4. CASE k = m
      BY <2>1, <2>2, <3>4 DEF Announced, Told
    <3>5. CASE k # m
      BY <2>2, <3>2, <3>5 DEF Announced, Told
    <3> QED
      BY <3>4, <3>5
  <2> QED
    BY <2>3, <2>4
<1> QED
  BY <1>2, <1>3, <1>4, <1>5 DEF Managing

LEMMA ClaimLives ==
    ASSUME TypeOK, NEW m \in Message
    PROVE  Lives(mail[m], ClaimRow(m))
<1>1. mail[m] \in Row
  BY DEF TypeOK
<1> QED
  BY <1>1, RowLives DEF ClaimRow

LEMMA PickingAnnounced ==
    ASSUME Inductive, Announced, NEW m \in Message,
           \/ HoldForCard(m) \/ CardGone(m) \/ PickUrgent(m) \/ PickDirect(m)
           \/ Reserve(m) \/ SpawnReturns(m) \/ SpawnFails(m) \/ PushRefused(m)
           \/ \E s \in Session : PickMember(m, s) \/ SpawnCreates(m, s)
    PROVE  Announced'
<1>1. mail[m] \in Row /\ TypeOK
  BY DEF Inductive, Typed, TypeOK
<1>2. /\ Fares(m, mail[m]) /\ Fares(m, HoldForRequest(mail[m]))
      /\ Fares(m, ReserveForSpawn(mail[m])) /\ Fares(m, Requeue(mail[m]))
  BY <1>1, RowLives, LivesFares
<1>3. mail' = mail => mail' = [mail EXCEPT ![m] = mail[m]]
  BY <1>1 DEF TypeOK
<1>4. /\ UNCHANGED <<pipe, transcript, asked, dropped>>
      /\ \E n \in {mail[m], HoldForRequest(mail[m]), ReserveForSpawn(mail[m]),
                   Requeue(mail[m])} : mail' = [mail EXCEPT ![m] = n]
  BY <1>3 DEF HoldForCard, CardGone, PickUrgent, PickDirect, Reserve, SpawnReturns,
              SpawnFails, PushRefused, PickMember, SpawnCreates, sessions, history
<1> QED
  BY <1>1, <1>2, <1>4, AnnouncedRow

\* A submission copies the current request, of a letter that stays alive.
LEMMA SubmitAnnounced ==
    ASSUME Inductive, Announced, NEW m \in Message, NEW s \in Session,
           NEW row \in Row, row.state = "claimed", Lives(mail[m], row),
           Submit(m, s, row) \/ SubmitThrows(m, s, row),
           UNCHANGED <<transcript, asked, dropped>>
    PROVE  Announced'
<1> DEFINE pushed == MarkPushed(row)
           held == HoldUncertain(pushed, "delivery-submit-failed")
<1>1. /\ pushed.state = "claimed" /\ pushed.dup = row.dup
      /\ held.state = "uncertain" /\ held.dup = row.dup
      /\ MarkDelivered(held).state = "delivered"
      /\ MarkDelivered(held).dup = row.dup
  BY DEF MarkPushed, HoldUncertain, MarkDelivered, From, Row
<1>2. /\ \/ mail' = [mail EXCEPT ![m] = pushed]
         \/ mail' = [mail EXCEPT ![m] = held]
         \/ mail' = [mail EXCEPT ![m] = MarkDelivered(held)]
      /\ \/ pipe' = pipe
         \/ pipe' = [pipe EXCEPT ![s] = @ \cup {<<m, asked[m]>>}]
  BY DEF Submit, SubmitThrows
<1> HIDE DEF pushed, held
<1>3. /\ mail'[m].state # "dead" /\ mail'[m].dup = row.dup
      /\ \A k \in Message \ {m} : mail'[k] = mail[k]
  BY <1>1, <1>2 DEF Inductive, Typed, TypeOK
<1>4. \A k \in Message : Fares(k, mail'[k])
  BY <1>3 DEF Fares, Lives
<1>5. \A t \in Session : pipe'[t] \subseteq pipe[t] \cup {<<m, asked[m]>>}
  BY <1>2 DEF Inductive, Typed, TypeOK
<1>6. ASSUME NEW k \in Message, NEW a \in 1..MaxAsk, Copied(<<k, a>>)'
      PROVE  Copied(<<k, a>>) \/ (a = asked[k] /\ mail'[k].state # "dead")
  <2>1. Copied(<<k, a>>) \/ <<k, a>> = <<m, asked[m]>>
    BY <1>5, <1>6 DEF Copied
  <2> QED
    BY <1>3, <2>1
<1> QED
  BY <1>4, <1>6, AnnouncedKept

LEMMA PushingAnnounced ==
    ASSUME Inductive, Announced, NEW m \in Message,
           \/ Push(m) \/ PushThrows(m)
           \/ ClaimAndInterrupt(m) \/ AfterInterrupt(m)
    PROVE  Announced'
<1>1. mail[m] \in Row /\ TypeOK /\ Typed
  BY DEF Inductive, Typed, TypeOK
<1>2. ASSUME ClaimWins(m)
      PROVE  /\ flight[m].who \in Session /\ ClaimRow(m) \in Row
             /\ ClaimRow(m).state = "claimed"
  BY <1>1, <1>2, ClaimRowTypes
<1>3. Lives(mail[m], ClaimRow(m)) /\ Lives(mail[m], mail[m])
  BY <1>1, ClaimLives, RowLives
<1>4. CASE Push(m)
  <2>1. /\ ClaimWins(m) /\ UNCHANGED <<transcript, asked, dropped>>
        /\ \/ Submit(m, flight[m].who, ClaimRow(m))
           \/ SubmitThrows(m, flight[m].who, ClaimRow(m))
    BY <1>4 DEF Push
  <2> QED
    BY <1>2, <1>3, <2>1, SubmitAnnounced
<1>5. CASE ClaimAndInterrupt(m)
  <2>1. /\ mail' = [mail EXCEPT ![m] = ClaimRow(m)]
        /\ UNCHANGED <<transcript, asked, dropped>>
    BY <1>5 DEF ClaimAndInterrupt
  <2>2. \A s \in Session : pipe'[s] \subseteq pipe[s]
    BY <1>1, <1>5 DEF ClaimAndInterrupt, TypeOK
  <2>3. Fares(m, ClaimRow(m))
    BY <1>3, LivesFares
  <2> QED
    BY <1>1, <2>1, <2>2, <2>3, AnnouncedRow
<1>6. CASE PushThrows(m)
  <2>1. ASSUME NEW r \in Row, Lives(mail[m], r),
               NEW n \in Unsubmitted(m, flight[m].who, r)
        PROVE  Fares(m, n)
    <3> DEFINE held == HoldUncertain(r, "delivery-submit-failed")
    <3>1. held \in Row
      <4>1. "delivery-submit-failed" \in Reason
        BY DEF Reason
      <4> QED
        BY <4>1, RowKeeps DEF Keeps
    <3>2. Lives(r, Requeue(r)) /\ Lives(r, held) /\ Lives(held, MarkDelivered(held))
      BY <3>1, RowLives
    <3>3. n \in {r, Requeue(r), held, MarkDelivered(held)}
      BY <2>1 DEF Unsubmitted
    <3> QED
      BY <2>1, <3>2, <3>3 DEF Lives, Fares
  <2>2. \E n : Fares(m, n) /\ mail' = [mail EXCEPT ![m] = n]
    BY <1>1, <1>2, <1>3, <1>6, <2>1 DEF PushThrows
  <2>3. UNCHANGED <<pipe, transcript, asked, dropped>>
    BY <1>6 DEF PushThrows, sessions
  <2> QED
    BY <1>1, <2>2, <2>3, AnnouncedRow
<1>7. CASE AfterInterrupt(m)
  <2> DEFINE s == flight[m].who
  <2>1. s \in Session /\ UNCHANGED <<transcript, asked, dropped>>
    BY <1>1, <1>7 DEF AfterInterrupt, Typed, Grounded, WithSession
  <2>2. CASE pipe' = pipe /\ mail' = [mail EXCEPT ![m] =
                               IF card[s] THEN HoldForRequest(Requeue(@))
                                          ELSE Requeue(@)]
    <3>1. Fares(m, Requeue(mail[m])) /\ Fares(m, HoldForRequest(Requeue(mail[m])))
      BY <1>1, RowLives, LivesFares
    <3> QED
      BY <1>1, <2>1, <2>2, <3>1, AnnouncedRow
  <2>3. CASE pipe' = pipe /\ mail' = mail
    <3>1. Fares(m, mail[m]) /\ mail' = [mail EXCEPT ![m] = mail[m]]
      BY <1>1, <1>3, <2>3, LivesFares DEF TypeOK
    <3> QED
      BY <1>1, <2>1, <2>3, <3>1, AnnouncedRow
  <2>4. CASE mail[m].state = "claimed"
             /\ (Submit(m, s, mail[m]) \/ SubmitThrows(m, s, mail[m]))
    BY <1>1, <1>3, <2>1, <2>4, SubmitAnnounced
  <2> QED
    BY <1>7, <2>2, <2>3, <2>4 DEF AfterInterrupt
<1> QED
  BY <1>4, <1>5, <1>6, <1>7

\* Settling buries nothing.
LEMMA SettlementLives ==
    ASSUME TypeOK, NEW s \in Session
    PROVE  /\ \A claims, found : \A m \in Message :
                Lives(mail[m], Settled(claims, found)[m])
           /\ \A rows \in Settle(s), m \in Message : Lives(mail[m], rows[m])
           /\ \A result \in SettleOrChain(s), m \in Message :
                Lives(mail[m], result[1][m])
<1>1. ASSUME NEW claims, NEW found, NEW m \in Message
      PROVE  Lives(mail[m], Settled(claims, found)[m])
  <2>1. mail[m] \in Row
    BY DEF TypeOK
  <2> QED
    BY <2>1, RowLives DEF Settled, SettleRow
<1>2. \A rows \in Settle(s), m \in Message : Lives(mail[m], rows[m])
  BY <1>1 DEF Settle
<1>3. ASSUME NEW result \in SettleOrChain(s)
      PROVE  result[1] \in Settle(s) \cup {mail}
  BY <1>3 DEF SettleOrChain
<1> QED
  BY <1>1, <1>2, <1>3 DEF Lives

\* The bulk burial of a session's waiting mail buries what nobody has read.
LEMMA DirectFares ==
    ASSUME NEW m \in Message, NEW n, Quiet(m, n), Fares(m, n), NEW s, NEW why
    PROVE  Fares(m, DeadLetterDirectTo(n, s, why))
<1>1. n \in Row
  BY DEF Quiet, Keeps
<1> QED
  BY <1>1, RowBuries DEF Quiet, Fares

LEMMA AgentAnnounced ==
    ASSUME Inductive, Announced, NEW s \in Session, Agent(s) \/ Settling(s)
    PROVE  Announced'
<1>1. TypeOK /\ \A m \in Message : mail[m] \in Row /\ Fares(m, mail[m])
  BY DEF Inductive, Typed, TypeOK, Fares
<1>2. ASSUME NEW q \in Request, Record(s, q) PROVE Announced'
  <2>1. \A t \in Session : /\ pipe'[t] \subseteq pipe[t]
                           /\ transcript'[t] \subseteq transcript[t] \cup pipe[t]
    BY <1>1, <1>2 DEF Record, TypeOK
  <2> QED
    BY <1>1, <1>2, <2>1, AnnouncedQuietly DEF Record, history
<1>3. CASE AgentDies(s)
  <2>1. \A m \in Message : Fares(m, mail'[m])
    BY <1>1, <1>3, SettlementLives, LivesFares DEF AgentDies
  <2>2. \A t \in Session : pipe'[t] \subseteq pipe[t]
    BY <1>1, <1>3 DEF AgentDies, TypeOK
  <2> QED
    BY <1>3, <2>1, <2>2, AnnouncedQuietly DEF AgentDies, history
<1>4. CASE AskHuman(s) \/ Compact(s) \/ GiveUpSettle(s)
  BY <1>1, <1>4, AnnouncedQuietly DEF AskHuman, Compact, GiveUpSettle, history
<1>5. ASSUME NEW outcome \in {"success", "failed", "exhausted"},
             EndTurn(s, outcome)
      PROVE  Announced'
  <2> PICK result \in SettleOrChain(s) :
             mail' = IF outcome = "exhausted" THEN Exhaust(result[1], s)
                                              ELSE result[1]
    BY <1>5 DEF EndTurn
  <2>1. \A m \in Message : Quiet(m, result[1][m]) /\ Lives(mail[m], result[1][m])
    BY <1>1, SettlementQuiet, SettlementLives
  <2>2. UNCHANGED <<pipe, transcript, asked>> /\ dropped \subseteq dropped'
    BY <1>5 DEF EndTurn
  <2>3. ASSUME outcome = "exhausted", NEW m \in Message
        PROVE  Fares(m, mail'[m])
    <3> DEFINE n == IF turn[s] = m THEN Drop(result[1][m]) ELSE result[1][m]
    <3>1. result[1][m] \in Row /\ "context-exhausted" \in Reason
      BY <2>1 DEF Quiet, Keeps, Reason
    <3>2. Quiet(m, n)
      BY <1>1, <2>1, <3>1, QuietRows DEF Drop
    <3>3. turn[s] = m => m \in dropped'
      BY <1>5, <2>3 DEF EndTurn
    <3>4. Fares(m, n)
      BY <2>1, <3>1, <3>3, RowBuries DEF Drop, Fares, Lives
    <3>5. mail'[m] = DeadLetterDirectTo(n, s, "context-exhausted")
      BY <2>3 DEF Exhaust
    <3> HIDE DEF n
    <3> QED
      BY <3>2, <3>4, <3>5, DirectFares
  <2>4. \A m \in Message : Fares(m, mail'[m])
    BY <2>1, <2>3, LivesFares
  <2> QED
    BY <2>2, <2>4, AnnouncedQuietly
<1>6. ASSUME NEW m \in Message, TailReceipt(s, m) PROVE Announced'
  <2>1. Fares(m, MarkDelivered(mail[m]))
    BY <1>1, RowLives, LivesFares
  <2> QED
    BY <1>1, <1>6, <2>1, AnnouncedRow DEF TailReceipt, sessions, history
<1>7. CASE RetrySettle(s)
  <2>1. \A m \in Message : Fares(m, mail'[m])
    BY <1>1, <1>7, SettlementLives, LivesFares DEF RetrySettle
  <2> QED
    BY <1>7, <2>1, AnnouncedQuietly DEF RetrySettle, history
<1> QED
  BY <1>2, <1>3, <1>4, <1>5, <1>6, <1>7 DEF Agent, Settling

LEMMA OwnerAnnounced ==
    ASSUME Inductive, Announced, NEW s \in Session, Owner(s)
    PROVE  Announced'
<1>1. TypeOK /\ \A m \in Message : Fares(m, mail[m])
  BY DEF Inductive, Typed, Fares
<1>2. CASE OwnTurn(s) \/ Answer(s) \/ Restore(s)
  BY <1>1, <1>2, AnnouncedQuietly DEF OwnTurn, Answer, Restore, history
<1>3. CASE Stop(s)
  <2>1. \A t \in Session : pipe'[t] \subseteq pipe[t]
    BY <1>1, <1>3 DEF Stop, TypeOK
  <2> QED
    BY <1>1, <1>3, <2>1, AnnouncedQuietly DEF Stop, history
<1>4. ASSUME NEW lives, EndSession(s, lives),
             \A m \in Message : Fares(m, mail'[m])
      PROVE  Announced'
  <2>1. \A t \in Session : pipe'[t] \subseteq pipe[t]
    BY <1>1, <1>4 DEF EndSession, TypeOK
  <2> QED
    BY <1>4, <2>1, AnnouncedQuietly DEF EndSession, history
<1>5. CASE Archive(s)
  <2>1. \A m \in Message : Fares(m, mail'[m])
    BY <1>1, <1>5, SettlementLives, LivesFares DEF Archive
  <2> QED
    BY <1>4, <1>5, <2>1 DEF Archive
<1>6. CASE Kill(s)
  <2> PICK rows \in Settle(s) :
             mail' = [m \in Message |->
                        DeadLetterDirectTo(rows[m], s, "killed-recipient")]
    BY <1>6 DEF Kill
  <2>1. \A m \in Message : Quiet(m, rows[m]) /\ Fares(m, rows[m])
    BY <1>1, SettlementQuiet, SettlementLives, LivesFares
  <2>2. \A m \in Message : Fares(m, mail'[m])
    BY <2>1, DirectFares
  <2> QED
    BY <1>4, <1>6, <2>2 DEF Kill
<1> QED
  BY <1>2, <1>3, <1>5, <1>6 DEF Owner

LEMMA WorldAnnounced ==
    ASSUME Inductive, Announced,
           Crash \/ Start \/ \E m \in Message : CrashInPush(m)
    PROVE  Announced'
<1>1. TypeOK /\ \A m \in Message : mail[m] \in Row /\ Fares(m, mail[m])
  BY DEF Inductive, Typed, TypeOK, Fares
<1>2. ASSUME ServerStops, \A m \in Message : Fares(m, mail'[m])
      PROVE  Announced'
  <2>1. \A s \in Session : /\ pipe'[s] \subseteq pipe[s]
                           /\ transcript'[s] \subseteq transcript[s] \cup pipe[s]
    BY <1>2, StopEffects
  <2> QED
    BY <1>2, <2>1, AnnouncedQuietly DEF ServerStops
<1>3. CASE Crash
  BY <1>1, <1>2, <1>3 DEF Crash
<1>4. ASSUME NEW m \in Message, CrashInPush(m) PROVE Announced'
  <2>1. Lives(mail[m], ClaimRow(m)) /\ Lives(mail[m], MarkPushed(mail[m]))
    BY <1>1, ClaimLives, RowLives
  <2>2. ClaimWins(m) => Lives(ClaimRow(m), MarkPushed(ClaimRow(m)))
    BY ClaimRowTypes, RowLives DEF Inductive
  <2>3. ClaimWins(m) => Lives(mail[m], MarkPushed(ClaimRow(m)))
    BY <2>1, <2>2 DEF Lives
  <2>4. \E n : Fares(m, n) /\ mail' = [mail EXCEPT ![m] = n]
    BY <1>4, <2>1, <2>3, LivesFares DEF CrashInPush
  <2>5. \A k \in Message : Fares(k, mail'[k])
    BY <1>1, <2>4 DEF TypeOK
  <2> QED
    BY <1>2, <1>4, <2>5 DEF CrashInPush
<1>5. CASE Start
  <2> PICK receipt \in [Message -> {"found", "absent", "uncertain"}] :
             /\ \A m \in Message : receipt[m] \in Receipts(mail[m].by, m)
             /\ mail' = [m \in Message |-> StartRow(mail[m], receipt[m])]
    BY <1>5 DEF Start
  <2>1. ASSUME NEW m \in Message
        PROVE  Fares(m, StartRow(mail[m], receipt[m]))
    <3> DEFINE kept == ReconcileRow(mail[m], receipt[m])
               idle == IF kept.state = "spawning" THEN Requeue(kept) ELSE kept
    <3>1. kept \in Row /\ Lives(mail[m], kept)
      BY <1>1, RowLives, RowKeeps DEF ReconcileRow, Keeps, Reason
    <3>2. kept.state # "claimed" /\ (Waiting(kept) => ~Copied(<<m, asked[m]>>))
      <4>1. mail[m].state = "claimed" /\ receipt[m] = "absent"
              => ~Copied(<<m, asked[m]>>)
        BY <1>5, ReceiptsTell DEF Start
      <4> QED
        BY <1>1, <4>1, QuietNow
           DEF ReconcileRow, Requeue, MarkDelivered, HoldUncertain, From, Row, Waiting
    <3> HIDE DEF kept
    <3>3. /\ idle \in Row /\ Lives(mail[m], idle)
          /\ idle.state # "claimed" /\ (Waiting(idle) => ~Copied(<<m, asked[m]>>))
      <4>1. Requeue(kept) \in Row /\ Lives(kept, Requeue(kept))
        BY <3>1, RowKeeps, RowLives DEF Keeps
      <4> QED
        BY <3>1, <3>2, <4>1 DEF Lives, Requeue, From, Row, Waiting
    <3> HIDE DEF idle
    <3>4. Fares(m, DeadLetter(idle, "killed-recipient")) /\ Fares(m, idle)
      BY <3>3 DEF Fares, Lives, DeadLetter, From, Row, Waiting
    <3>5. StartRow(mail[m], receipt[m])
            \in {idle, DeadLetter(idle, "killed-recipient")}
      BY DEF StartRow, kept, idle
    <3> QED
      BY <3>4, <3>5
  <2>2. \A m \in Message : Fares(m, mail'[m])
    BY <2>1
  <2> QED
    BY <1>5, <2>2, AnnouncedQuietly DEF Start, history
<1> QED
  BY <1>3, <1>4, <1>5

LEMMA InitAnnounced == Init => Announced
BY DEF Init, Announced, Copied

LEMMA AnnouncedStep == Inductive /\ Announced /\ [Next]_vars => Announced'
<1> SUFFICES ASSUME Inductive, Announced, [Next]_vars PROVE Announced'
  OBVIOUS
<1>1. ASSUME NEW m \in Message, Sending(m) \/ Dispatching(m) \/ Managing(m)
      PROVE  Announced'
  BY <1>1, SendingAnnounced, PickingAnnounced, PushingAnnounced,
     ManagingAnnounced DEF Dispatching
<1>2. ASSUME NEW s \in Session, Agent(s) \/ Settling(s) \/ Owner(s)
      PROVE  Announced'
  BY <1>2, AgentAnnounced, OwnerAnnounced
<1>3. CASE UNCHANGED vars
  BY <1>3 DEF vars, Announced, Copied, Told
<1> QED
  BY <1>1, <1>2, <1>3, WorldAnnounced DEF Next

\* No message has copies of two requests with the agents unless the second
\* was announced as a possible duplicate, or the first turn was dropped:
\* whatever is retried, recovered or settled late.
THEOREM DuplicatesAnnounced == Spec => []DuplicatesAreFlagged
<1>1. Inductive /\ Announced => DuplicatesAreFlagged
  <2> SUFFICES ASSUME Inductive, Announced, NEW m \in Message, ~Told(m),
                      Cardinality({a \in 1..MaxAsk : Copied(<<m, a>>)}) >= 2
               PROVE  FALSE
    BY DEF DuplicatesAreFlagged, Told
  <2> DEFINE copies == {a \in 1..MaxAsk : Copied(<<m, a>>)}
  <2>1. copies \subseteq {asked[m]}
    BY DEF Announced
  <2>2. IsFiniteSet({asked[m]}) /\ Cardinality({asked[m]}) = 1
    BY FS_Singleton
  <2>3. Cardinality(copies) <= 1
    BY <2>1, <2>2, FS_Subset
  <2>4. Cardinality(copies) \in Nat
    BY <2>1, <2>2, FS_Subset, FS_CardinalityType
  <2> QED
    BY <2>3, <2>4
<1>2. Spec => []Announced
  BY InitAnnounced, AnnouncedStep, InductiveAlways, PTL DEF Spec
<1> QED
  BY <1>1, <1>2, InductiveAlways, PTL
=============================================================================
