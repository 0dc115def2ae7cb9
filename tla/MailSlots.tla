----------------------------- MODULE MailSlots -----------------------------
(***************************************************************************)
(* Two more invariants of MailDelivery, for every choice of its constants: *)
(* a reservation keeps its spawn (SpawnKeepsItsSlot), and a settle retried *)
(* late spares newer turns (LateSettleSparesTurns).                        *)
(*                                                                         *)
(* For the first, a pass must not take a message off twice: Slotted says   *)
(* that the lane of a flight is still the group its row is addressed to,   *)
(* which is what Clear looks at.  For the second, Spared says that the     *)
(* claim a turn works on is not in a snapshot that waits to be retried,    *)
(* since its stamp is new, unless an interrupt came between the two.       *)
(***************************************************************************)
EXTENDS MailTypes

Slotted ==
    /\ SpawnKeepsItsSlot
    /\ ~up => \A m \in Message : ~InFlight(m)
    /\ \A m \in Message : InFlight(m) =>
         /\ mail[m].state # "absent"
         /\ ToGroup(mail[m]) => flight[m].lane = mail[m].to

Interrupting(m) == flight[m].stage \in {"prepare-interrupt", "interrupt"}

Owned(r) == r.state \in {"claimed", "uncertain"}

\* The turn of s works on the claim of m.
Works(s, m) == ClaimOf(mail[m], s) /\ turn[s] = m

Spared ==
    /\ \A m \in Message : Owned(mail[m]) => mail[m].by \in Session
    /\ \A m \in Message : Interrupting(m) => mail[m].urgent
    /\ \A m \in Message, s \in Session :
         ~mail[m].urgent /\ Works(s, m) => <<m, mail[m].at>> \notin chain[s]
    /\ LateSettleSparesTurns

Slots == Slotted /\ Spared

-----------------------------------------------------------------------------
(***************************************************************************)
(* Rows                                                                    *)
(***************************************************************************)
\* n may follow r by a statement that neither inserts nor reserves.
Calm(r, n) ==
    /\ n.state = "spawning" => r.state = "spawning"
    /\ n.state = "absent" => r.state = "absent"
    /\ n.to \in Group => n.to = r.to
    /\ n.urgent = r.urgent

LEMMA CalmTransitive ==
    ASSUME NEW r, NEW n, NEW q, Calm(r, n), Calm(n, q)
    PROVE  Calm(r, q)
BY DEF Calm

Unconfirmed(r) ==
    r.state = "uncertain" /\ r.reason = "receipt-unconfirmed-after-delivery"

\* Only a claim gives a row to a session, only a settle declares its receipt
\* unconfirmed.
Still(r, n) ==
    /\ Calm(r, n)
    /\ Owned(n) => Owned(r) /\ n.by = r.by
    /\ Unconfirmed(n) => n = r

LEMMA StillTransitive ==
    ASSUME NEW r, NEW n, NEW q, Still(r, n), Still(n, q)
    PROVE  Still(r, q)
BY CalmTransitive DEF Still

\* Every statement but the insert, the reservation, the claims and the settle
LEMMA RowStill ==
    ASSUME NEW r \in Row
    PROVE  /\ Still(r, r)
           /\ Still(r, HoldForRequest(r)) /\ Still(r, MarkDelivered(r))
           /\ Still(r, Requeue(r)) /\ Still(r, CancelWaiting(r))
           /\ Still(r, Discard(r)) /\ Still(r, MarkPushed(r))
           /\ \A why : /\ Still(r, DeadLetter(r, why))
                       /\ Still(r, DeadLetterDelivered(r, why))
           /\ \A s, why : Still(r, DeadLetterDirectTo(r, s, why))
           /\ \A why : why # "receipt-unconfirmed-after-delivery"
                         => Still(r, HoldUncertain(r, why))
           /\ \A s, t : Calm(r, Claim(r, s, t)) /\ Calm(r, ClaimSpawned(r, s, t))
           /\ \A exists, flags : Still(r, Retry(r, exists, flags))
<1> USE DEF Still, Calm, Unconfirmed, Owned, From, Row
<1>1. /\ Still(r, r)
      /\ Still(r, HoldForRequest(r)) /\ Still(r, MarkDelivered(r))
  BY DEF HoldForRequest, MarkDelivered
<1>2. Still(r, Requeue(r)) /\ Still(r, CancelWaiting(r))
  BY DEF Requeue, CancelWaiting
<1>3. Still(r, Discard(r)) /\ Still(r, MarkPushed(r))
  BY DEF Discard, MarkPushed
<1>4. ASSUME NEW why
      PROVE  Still(r, DeadLetter(r, why)) /\ Still(r, DeadLetterDelivered(r, why))
  BY DEF DeadLetter, DeadLetterDelivered
<1>5. ASSUME NEW s, NEW why PROVE Still(r, DeadLetterDirectTo(r, s, why))
  BY DEF DeadLetterDirectTo
<1>6. ASSUME NEW why, why # "receipt-unconfirmed-after-delivery"
      PROVE  Still(r, HoldUncertain(r, why))
  BY <1>6 DEF HoldUncertain
<1>7. ASSUME NEW s, NEW t
      PROVE  Calm(r, Claim(r, s, t)) /\ Calm(r, ClaimSpawned(r, s, t))
  BY DEF Claim, ClaimSpawned
<1>8. ASSUME NEW exists, NEW flags PROVE Still(r, Retry(r, exists, flags))
  <2>1. RetryRecipient(r) \in Session \cup {None}
    BY DEF RetryRecipient, Direct
  <2>2. Still(r, RetryKilled(r))
    BY <2>1, NamesAssumption DEF RetryKilled
  <2>3. Still(r, RetryDead(r))
    BY DEF RetryDead
  <2>4. r.state = "uncertain" => Still(r, RetryUncertain(r))
    BY NamesAssumption DEF RetryUncertain
  <2> HIDE DEF Still
  <2>5. r.state \in {"dead", "uncertain"} /\ r.state # "dead"
           => r.state = "uncertain"
    OBVIOUS
  <2> QED
    BY <1>1, <2>2, <2>3, <2>4, <2>5 DEF Retry
<1> HIDE DEF Still, Calm, Unconfirmed, Owned, From, Row
<1> QED
  BY <1>1, <1>2, <1>3, <1>4, <1>5, <1>6, <1>7, <1>8

\* What the end of a turn, an agent or a session s does to a row: only claims
\* of s become unconfirmed.
Ends(r, n, s) ==
    /\ Calm(r, n)
    /\ Owned(n) => Owned(r) /\ n.by = r.by
    /\ Unconfirmed(n) => n = r \/ n.by = s

LEMMA StillEnds ==
    ASSUME NEW r, NEW n, NEW q, NEW s, Ends(r, n, s), Still(n, q)
    PROVE  Ends(r, q, s)
BY CalmTransitive DEF Ends, Still

LEMMA SettleEnds ==
    ASSUME NEW r \in Row, NEW s, NEW found, ClaimOf(r, s)
    PROVE  Ends(r, SettleRow(r, found), s)
BY RowStill
   DEF Ends, Still, Calm, Owned, SettleRow, ClaimOf, HoldUncertain, From, Row

-----------------------------------------------------------------------------
(***************************************************************************)
(* Shapes of steps                                                         *)
(***************************************************************************)
\* The rows stay calm, the flights and slots are left alone.
LEMMA SlottedKept ==
    ASSUME Slotted, \A m \in Message : Calm(mail[m], mail'[m]),
           UNCHANGED <<flight, reserved, up>>
    PROVE  Slotted'
BY DEF Slotted, SpawnKeepsItsSlot, Calm, InFlight, ToGroup

\* The flight of m lands, or goes on without its slot.
LEMMA SlottedMoves ==
    ASSUME Typed, Slotted, NEW m \in Message, NEW f, up, up' = up,
           \A k \in Message : Calm(mail[k], mail'[k]),
           flight' = [flight EXCEPT ![m] = f], InFlight(m),
           f.stage \notin {"spawn", "born"},
           f.stage # "none" => f.lane = flight[m].lane,
           mail'[m].state = "spawning" => f.stage = "prepare-reserved",
           reserved' = reserved \ {m}
    PROVE  Slotted'
BY DEF Slotted, SpawnKeepsItsSlot, Calm, InFlight, ToGroup, Typed, TypeOK

\* The same of a push, which holds no slot.
LEMMA SlottedPush ==
    ASSUME Typed, Slotted, NEW m \in Message, NEW f, up, UNCHANGED <<up, reserved>>,
           \A k \in Message : Calm(mail[k], mail'[k]),
           flight' = [flight EXCEPT ![m] = f],
           flight[m].stage \notin {"none", "spawn", "born"},
           f.stage \notin {"spawn", "born"},
           f.stage # "none" => f.lane = flight[m].lane,
           mail'[m].state # "spawning"
    PROVE  Slotted'
<1>1. InFlight(m) /\ m \notin reserved
  BY DEF Slotted, SpawnKeepsItsSlot, InFlight
<1>2. reserved' = reserved \ {m}
  BY <1>1
<1> QED
  BY <1>1, <1>2, SlottedMoves

\* A flight takes off only once per message.
LEMMA NotInFlight ==
    ASSUME Typed, Slotted, NEW m \in Message, mail[m].to \in Session \cup Group,
           Clear(mail[m].to)
    PROVE  ~InFlight(m)
BY NamesAssumption DEF Slotted, Clear, ToGroup, InFlight

LEMMA SlottedTakesOff ==
    ASSUME Typed, Slotted, NEW m \in Message, NEW stage, NEW who,
           TakeOff(m, stage, who), up, UNCHANGED <<up, mail, reserved>>,
           mail[m].to \in Session \cup Group, mail[m].state = "queued",
           stage \in {"prepare", "prepare-interrupt"}
    PROVE  Slotted'
<1>1. ~InFlight(m)
  BY NotInFlight DEF TakeOff
<1>2. m \notin reserved
  BY <1>1 DEF Slotted, SpawnKeepsItsSlot, InFlight
<1> QED
  BY <1>1, <1>2
     DEF Slotted, SpawnKeepsItsSlot, InFlight, ToGroup, TakeOff, Typed, TypeOK

\* No claim is made, no turn of a message begins, and what a snapshot adds
\* belongs to a session whose turn is over.
LEMMA SparedKept ==
    ASSUME Spared,
           \A m \in Message : Calm(mail[m], mail'[m]) /\ Keeps(mail[m], mail'[m]),
           \A m \in Message : Owned(mail'[m]) => mail'[m].by \in Session,
           \A m \in Message : Interrupting(m)' => Interrupting(m),
           \A s \in Session : \/ turn'[s] \notin Message
                              \/ turn'[s] = turn[s] /\ chain'[s] \subseteq chain[s],
           \A m \in Message : Unconfirmed(mail'[m]) =>
               \/ mail'[m] = mail[m]
               \/ mail[m].urgent
               \/ turn'[mail'[m].by] # m
    PROVE  Spared'
<1>1. \A m \in Message : Interrupting(m)' => mail'[m].urgent
  BY DEF Spared, Calm
<1>2. ASSUME NEW m \in Message, NEW s \in Session,
             ~mail'[m].urgent, Works(s, m)'
      PROVE  <<m, mail'[m].at>> \notin chain'[s]
  BY <1>2 DEF Spared, Works, ClaimOf, Calm, Keeps
<1>3. LateSettleSparesTurns'
  BY DEF Owned, Spared, Calm, LateSettleSparesTurns, UncertainTooEarly, Unconfirmed
<1> QED
  BY <1>1, <1>2, <1>3 DEF Spared

\* Rows are still, no turn of a message begins, no snapshot grows.
LEMMA SparedStill ==
    ASSUME Spared,
           \A m \in Message : Still(mail[m], mail'[m]) /\ Keeps(mail[m], mail'[m]),
           \A m \in Message : Interrupting(m)' => Interrupting(m),
           \A s \in Session : \/ turn'[s] \notin Message
                              \/ turn'[s] = turn[s] /\ chain'[s] \subseteq chain[s]
    PROVE  Spared'
BY SparedKept DEF Still, Spared

LEMMA StillStep ==
    ASSUME Slots,
           \A m \in Message : Still(mail[m], mail'[m]) /\ Keeps(mail[m], mail'[m]),
           \A s \in Session : \/ turn'[s] \notin Message
                              \/ turn'[s] = turn[s] /\ chain'[s] \subseteq chain[s],
           UNCHANGED <<flight, reserved, up>>
    PROVE  Slots'
<1>1. Slotted'
  BY SlottedKept DEF Slots, Still
<1>2. Spared'
  BY SparedStill DEF Slots, Interrupting
<1> QED
  BY <1>1, <1>2 DEF Slots

LEMMA OneStill ==
    ASSUME Typed, NEW m \in Message, NEW n, Still(mail[m], n), Keeps(mail[m], n),
           mail' = [mail EXCEPT ![m] = n]
    PROVE  \A k \in Message : Still(mail[k], mail'[k]) /\ Keeps(mail[k], mail'[k])
BY RowStill, KeepsReflexive DEF Typed, TypeOK

LEMMA NoneStill ==
    ASSUME Typed, mail' = mail
    PROVE  \A k \in Message : Still(mail[k], mail'[k]) /\ Keeps(mail[k], mail'[k])
BY RowStill, KeepsReflexive DEF Typed, TypeOK

LEMMA OneRowStill ==
    ASSUME Typed, Slots, NEW m \in Message, NEW n, Still(mail[m], n),
           Keeps(mail[m], n), mail' = [mail EXCEPT ![m] = n],
           UNCHANGED <<flight, reserved, up, turn, chain>>
    PROVE  Slots'
BY OneStill, StillStep

-----------------------------------------------------------------------------
(***************************************************************************)
(* Steps                                                                   *)
(***************************************************************************)
LEMMA SendingSlots ==
    ASSUME Typed, Slots, NEW m \in Message, Sending(m)
    PROVE  Slots'
<1>1. ASSUME NEW s \in Session, Compose(m, s) PROVE Slots'
  BY <1>1, NoneStill, StillStep DEF Compose, world
<1>2. ASSUME NEW to \in Session \cup Group, NEW urgent \in BOOLEAN,
             NEW over \in BOOLEAN, Store(m, to, urgent, over),
             mail[m].state = "absent",
             UNCHANGED <<sessions, dispatch, world>>
      PROVE  Slots'
  <2> DEFINE n == Enqueue(to, urgent, over)
  <2>1. n.state \in {"queued", "dead"}
    BY AskTypes
  <2>2. mail' = [mail EXCEPT ![m] = n]
    BY <1>2 DEF Store
  <2> HIDE DEF n
  <2>3. ~InFlight(m)
    BY <1>2 DEF Slots, Slotted
  <2>4. ~Interrupting(m)
    BY <2>3 DEF InFlight, Interrupting
  <2>5. \A k \in Message : k # m => mail'[k] = mail[k]
    BY <2>2 DEF Typed, TypeOK
  <2>6. mail'[m].state \in {"queued", "dead"}
    BY <2>1, <2>2 DEF Typed, TypeOK
  <2>7. Slotted'
    BY <1>2, <2>3, <2>5, <2>6
       DEF Slots, Slotted, SpawnKeepsItsSlot, InFlight, ToGroup, dispatch, world
  <2>8. Spared'
    BY <1>2, <2>4, <2>5, <2>6
       DEF Slots, Spared, Works, ClaimOf, Owned, Interrupting,
           LateSettleSparesTurns, UncertainTooEarly, sessions, dispatch
  <2> QED
    BY <2>7, <2>8 DEF Slots
<1>3. ASSUME NEW urgent \in BOOLEAN, NEW over \in BOOLEAN,
             CommitDirect(m, urgent, over)
      PROVE  Slots'
  <2>1. draft[m] \in Session /\ mail[m].state = "absent"
    BY <1>3 DEF Typed, TypeOK, Grounded, CommitDirect
  <2> QED
    BY <1>2, <1>3, <2>1 DEF CommitDirect
<1>4. ASSUME NEW g \in Group, NEW urgent \in BOOLEAN, NEW over \in BOOLEAN,
             SendToGroup(m, g, urgent, over)
      PROVE  Slots'
  BY <1>2, <1>4 DEF SendToGroup
<1> QED
  BY <1>1, <1>3, <1>4 DEF Sending

LEMMA ManagingSlots ==
    ASSUME Typed, Slots, NEW m \in Message, Managing(m)
    PROVE  Slots'
<1> USE DEF sessions, dispatch, world
<1>1. mail[m] \in Row
  BY DEF Typed, TypeOK
<1>2. CASE Cancel(m)
  BY <1>1, <1>2, RowKeeps, RowStill, OneRowStill DEF Cancel
<1>3. CASE DiscardMail(m)
  BY <1>1, <1>3, RowKeeps, RowStill, OneRowStill DEF DiscardMail
<1>4. CASE RetryMail(m)
  BY <1>1, <1>4, AskTypes, RowStill, OneRowStill DEF RetryMail
<1>5. CASE CloseTask(m)
  <2>1. "task-closed" \in Reason
    BY DEF Reason
  <2> QED
    BY <1>1, <1>5, <2>1, RowKeeps, RowStill, OneRowStill DEF CloseTask
<1> QED
  BY <1>2, <1>3, <1>4, <1>5 DEF Managing

\* The dispatcher up to the claim
LEMMA PickingSlots ==
    ASSUME Typed, Slots, NEW m \in Message,
           \/ HoldForCard(m) \/ CardGone(m) \/ PickUrgent(m) \/ PickDirect(m)
           \/ \E s \in Session : PickMember(m, s)
    PROVE  Slots'
<1> USE DEF sessions, dispatch, world
<1>1. mail[m] \in Row
  BY DEF Typed, TypeOK
<1>2. CASE HoldForCard(m)
  BY <1>1, <1>2, RowKeeps, RowStill, OneRowStill DEF HoldForCard
<1>3. CASE CardGone(m)
  BY <1>1, <1>3, RowKeeps, RowStill, OneRowStill DEF CardGone
<1>4. ASSUME NEW stage \in {"prepare", "prepare-interrupt"}, NEW who \in Session,
             TakeOff(m, stage, who), up, mail[m].to \in Session \cup Group,
             mail[m].state = "queued",
             stage = "prepare-interrupt" => mail[m].urgent,
             UNCHANGED <<mail, reserved, sessions, world, history, draft>>
      PROVE  Slots'
  <2>1. Slotted'
    BY <1>4, SlottedTakesOff DEF Slots
  <2>2. \A k \in Message : Interrupting(k)' => Interrupting(k) \/ mail[k].urgent
    BY <1>4 DEF TakeOff, Interrupting, Typed, TypeOK
  <2>3. Spared'
    BY <1>4, <2>2 DEF Slots, Spared, Works, ClaimOf, LateSettleSparesTurns,
                      UncertainTooEarly
  <2> QED
    BY <2>1, <2>3 DEF Slots
<1>5. CASE PickUrgent(m)
  BY <1>4, <1>5 DEF PickUrgent, Direct
<1>6. CASE PickDirect(m)
  BY <1>4, <1>6 DEF PickDirect, Direct
<1>7. ASSUME NEW s \in Session, PickMember(m, s) PROVE Slots'
  BY <1>4, <1>7 DEF PickMember, ToGroup
<1> QED
  BY <1>2, <1>3, <1>5, <1>6, <1>7

LEMMA SpawningSlots ==
    ASSUME Typed, Slots, NEW m \in Message,
           \/ Reserve(m) \/ SpawnReturns(m) \/ SpawnFails(m)
           \/ \E s \in Session : SpawnCreates(m, s)
    PROVE  Slots'
<1> USE DEF sessions, world
<1>1. mail[m] \in Row
  BY DEF Typed, TypeOK
<1>2. CASE Reserve(m)
  <2>1. mail[m].to \in Session \cup Group
    BY <1>2 DEF Reserve, ToGroup
  <2>2. ~InFlight(m)
    BY <1>2, <2>1, NotInFlight DEF Reserve, TakeOff, Slots
  <2>3. mail'[m] = [mail[m] EXCEPT !.state = "spawning"]
    BY <1>1, <1>2 DEF Reserve, ReserveForSpawn, From, Typed, TypeOK
  <2>4. \A k \in Message : k # m => mail'[k] = mail[k] /\ flight'[k] = flight[k]
    BY <1>2 DEF Reserve, TakeOff, Typed, TypeOK
  <2>5. flight'[m].stage = "spawn" /\ flight'[m].lane = mail[m].to
    BY <1>2 DEF Reserve, TakeOff, Typed, TypeOK
  <2>6. /\ mail'[m].state = "spawning" /\ mail'[m].to = mail[m].to
        /\ mail'[m].urgent = mail[m].urgent
    BY <1>1, <2>3 DEF Row
  <2>7. Slotted'
    BY <1>2, <2>4, <2>5, <2>6
       DEF Reserve, Slots, Slotted, SpawnKeepsItsSlot, InFlight, ToGroup
  <2>8. Spared'
    BY <1>2, <2>4, <2>5, <2>6
       DEF Reserve, Slots, Spared, Interrupting, Works, ClaimOf, Owned,
           LateSettleSparesTurns, UncertainTooEarly
  <2> QED
    BY <2>7, <2>8 DEF Slots
<1>3. ASSUME NEW f, NEW n, Still(mail[m], n), Keeps(mail[m], n), up,
             mail' = [mail EXCEPT ![m] = n],
             flight' = [flight EXCEPT ![m] = f],
             flight[m].stage \in {"spawn", "born"},
             f.stage \in {"none", "prepare-reserved"},
             f.stage # "none" => f.lane = flight[m].lane,
             n.state = "spawning" => f.stage = "prepare-reserved",
             reserved' = reserved \ {m}, UNCHANGED <<sessions, world>>
      PROVE  Slots'
  <2>1. \A k \in Message : Still(mail[k], mail'[k]) /\ Keeps(mail[k], mail'[k])
    BY <1>3, OneStill
  <2>2. mail'[m] = n
    BY <1>3 DEF Typed, TypeOK
  <2>3. Slotted'
    BY <1>3, <2>1, <2>2, SlottedMoves DEF Slots, Still, InFlight
  <2>4. \A k \in Message : Interrupting(k)' => Interrupting(k)
    BY <1>3 DEF Interrupting, Typed, TypeOK
  <2>5. Spared'
    BY <1>3, <2>1, <2>4, SparedStill DEF Slots
  <2> QED
    BY <2>3, <2>5 DEF Slots
<1>4. CASE SpawnReturns(m)
  <2>1. CASE HasRecord(flight[m].who)
    <3> DEFINE f == [flight[m] EXCEPT !.stage = "prepare-reserved"]
    <3>1. flight' = [flight EXCEPT ![m] = f] /\ mail' = [mail EXCEPT ![m] = mail[m]]
      BY <1>4, <2>1 DEF SpawnReturns, Typed, TypeOK
    <3>2. f.stage = "prepare-reserved" /\ f.lane = flight[m].lane
      BY DEF Typed, TypeOK, Flight
    <3> HIDE DEF f
    <3> QED
      BY <1>1, <1>3, <1>4, <3>1, <3>2, RowStill, KeepsReflexive DEF SpawnReturns
  <2>2. CASE ~HasRecord(flight[m].who)
    <3> DEFINE n == IF mail[m].state = "spawning" THEN Requeue(mail[m])
                                                  ELSE mail[m]
    <3>1. /\ flight' = [flight EXCEPT ![m] = Landed]
          /\ mail' = [mail EXCEPT ![m] = n]
      BY <1>4, <2>2 DEF SpawnReturns
    <3>2. n.state # "spawning"
      BY <1>1 DEF Requeue, From, Row
    <3>3. Still(mail[m], n) /\ Keeps(mail[m], n)
      BY <1>1, RowStill, RowKeeps, KeepsReflexive
    <3> HIDE DEF n
    <3> QED
      BY <1>3, <1>4, <3>1, <3>2, <3>3 DEF SpawnReturns, Landed
  <2> QED
    BY <2>1, <2>2
<1>5. CASE SpawnFails(m)
  <2>1. Requeue(mail[m]).state # "spawning"
    BY <1>1 DEF Requeue, From, Row
  <2> QED
    BY <1>1, <1>3, <1>5, <2>1, RowStill, RowKeeps DEF SpawnFails, Landed
<1>6. ASSUME NEW s \in Session, SpawnCreates(m, s) PROVE Slots'
  <2> DEFINE f == [flight[m] EXCEPT !.stage = "born", !.who = s]
  <2>0. flight[m] \in Flight
    BY DEF Typed, TypeOK
  <2>7. f.stage = "born" /\ f.lane = flight[m].lane
    BY <2>0 DEF Flight
  <2>8. flight' = [flight EXCEPT ![m] = f]
    BY <1>6 DEF SpawnCreates
  <2> HIDE DEF f
  <2>1. \A k \in Message : k # m => flight'[k] = flight[k]
    BY <2>8 DEF Typed, TypeOK
  <2>2. /\ flight[m].stage = "spawn" /\ flight'[m].stage = "born"
        /\ flight'[m].lane = flight[m].lane
    BY <1>6, <2>7, <2>8 DEF SpawnCreates, Typed, TypeOK
  <2>9. /\ \A k \in Message : InFlight(k)' <=> InFlight(k)
        /\ \A k \in Message : flight'[k].lane = flight[k].lane
        /\ \A k \in Message : flight'[k].stage \in {"spawn", "born"}
                               <=> flight[k].stage \in {"spawn", "born"}
        /\ \A k \in Message : flight'[k].stage = "prepare-reserved"
                               <=> flight[k].stage = "prepare-reserved"
    BY <2>1, <2>2 DEF InFlight
  <2>10. UNCHANGED <<mail, reserved, up>>
    BY <1>6 DEF SpawnCreates
  <2>3. Slotted'
    BY <2>9, <2>10 DEF Slots, Slotted, SpawnKeepsItsSlot, ToGroup
  <2>4. \A k \in Message : Interrupting(k)' => Interrupting(k)
    BY <2>1, <2>2 DEF Interrupting
  <2>5. Spared'
    BY <1>6, <2>4, NoneStill, SparedStill DEF Slots, SpawnCreates
  <2> QED
    BY <2>3, <2>5 DEF Slots
<1> QED
  BY <1>2, <1>4, <1>5, <1>6

\* The push of m is over, and left no claim behind.
LEMMA LandedSlots ==
    ASSUME Typed, Slots, NEW m \in Message, NEW n, Still(mail[m], n),
           Keeps(mail[m], n), up, mail' = [mail EXCEPT ![m] = n],
           flight' = [flight EXCEPT ![m] = Landed],
           flight[m].stage \notin {"none", "spawn", "born"},
           flight[m].stage = "prepare-reserved" => n.state # "spawning",
           UNCHANGED <<reserved, up, turn, chain>>
    PROVE  Slots'
<1>1. \A k \in Message : Still(mail[k], mail'[k]) /\ Keeps(mail[k], mail'[k])
  BY OneStill
<1>2. mail'[m] = n
  BY DEF Typed, TypeOK
<1>3. n.state # "spawning"
  BY DEF Slots, Slotted, SpawnKeepsItsSlot, Still, Calm
<1>4. Slotted'
  BY <1>1, <1>2, <1>3, SlottedPush DEF Slots, Still, Landed
<1>5. \A k \in Message : Interrupting(k)' => Interrupting(k)
  BY DEF Interrupting, Landed, Typed, TypeOK
<1>6. Spared'
  BY <1>1, <1>5, SparedStill DEF Slots
<1> QED
  BY <1>4, <1>6 DEF Slots

\* The push of m is over, m is claimed for a session or was, and the turn of
\* s may work on it.
LEMMA GivenSlots ==
    ASSUME Typed, Slots, NEW m \in Message, NEW n, NEW s \in Session,
           Calm(mail[m], n), n.state # "spawning",
           Owned(n) => n.by \in Session, ~Unconfirmed(n),
           n.state = "claimed" /\ ~n.urgent =>
               \A q \in Session : <<m, n.at>> \notin chain[q],
           up, mail' = [mail EXCEPT ![m] = n],
           flight' = [flight EXCEPT ![m] = Landed],
           flight[m].stage \notin {"none", "spawn", "born"},
           turn' = turn \/ turn' = [turn EXCEPT ![s] = m],
           UNCHANGED <<reserved, up, chain>>
    PROVE  Slots'
<1>1. mail'[m] = n /\ \A k \in Message : k # m => mail'[k] = mail[k]
  BY DEF Typed, TypeOK
<1>2. \A k \in Message : Calm(mail[k], mail'[k])
  BY <1>1, RowStill DEF Typed, TypeOK, Still
<1>3. Slotted'
  BY <1>1, <1>2, SlottedPush DEF Slots, Landed
<1>4. \A k \in Message : Interrupting(k)' => Interrupting(k)
  BY DEF Interrupting, Landed, Typed, TypeOK
<1>5. \A k \in Message, q \in Session : k # m /\ turn'[q] = k => turn[q] = k
  BY DEF Typed, TypeOK
<1>6. \A k \in Message : Interrupting(k)' => mail'[k].urgent
  BY <1>2, <1>4 DEF Slots, Spared, Calm
<1>7. \A k \in Message : Owned(mail'[k]) => mail'[k].by \in Session
  BY <1>1 DEF Slots, Spared
<1>8. ASSUME NEW k \in Message, NEW q \in Session, ~mail'[k].urgent, Works(q, k)'
      PROVE  <<k, mail'[k].at>> \notin chain'[q]
  BY <1>1, <1>5, <1>8 DEF Slots, Spared, Works, ClaimOf
<1>9. ASSUME NEW k \in Message, ~mail'[k].urgent, UncertainTooEarly(k)'
      PROVE  FALSE
  <2>1. k # m
    BY <1>1, <1>9 DEF UncertainTooEarly, Unconfirmed
  <2>2. mail[k].by \in Session
    BY <1>1, <1>9, <2>1 DEF UncertainTooEarly, Owned, Slots, Spared
  <2> QED
    BY <1>1, <1>5, <1>9, <2>1, <2>2
       DEF UncertainTooEarly, LateSettleSparesTurns, Slots, Spared
<1>10. Spared'
  BY <1>6, <1>7, <1>8, <1>9 DEF Spared, LateSettleSparesTurns
<1> QED
  BY <1>3, <1>10 DEF Slots

\* The stamp of a claim is in no snapshot.
LEMMA ClaimIsNew ==
    ASSUME Typed, NEW m \in Message, ClaimWins(m)
    PROVE  /\ Calm(mail[m], ClaimRow(m))
           /\ \A q \in Session : <<m, ClaimRow(m).at>> \notin chain[q]
<1>1. mail[m] \in Row
  BY DEF Typed, TypeOK
<1>2. ClaimRow(m).at = NewStamp(m)
  BY <1>1 DEF ClaimWins, Claimable, ClaimRow, Claim, ClaimSpawned, From, Row
<1>3. Unused(m, NewStamp(m))
  BY DEF ClaimWins, CanStamp, NewStamp
<1> QED
  BY <1>1, <1>2, <1>3, RowStill DEF ClaimRow, Unused

\* The envelope is handed over, or the hand-over throws.
LEMMA SubmitSlots ==
    ASSUME Typed, Slots, NEW m \in Message, NEW s \in Session, NEW row \in Row,
           row.state = "claimed", row.by \in Session, Calm(mail[m], row), up,
           ~row.urgent => \A q \in Session : <<m, row.at>> \notin chain[q],
           flight[m].stage \notin {"none", "spawn", "born"},
           Submit(m, s, row) \/ SubmitThrows(m, s, row),
           UNCHANGED <<reserved, chain, up>>
    PROVE  Slots'
<1> DEFINE pushed == MarkPushed(row)
           held == HoldUncertain(pushed, "delivery-submit-failed")
<1>1. /\ pushed \in Row /\ pushed.state = "claimed"
      /\ pushed.by = row.by /\ pushed.at = row.at /\ Still(row, pushed)
  BY RowStill DEF MarkPushed, From, Row
<1>2. /\ held \in Row /\ held.state = "uncertain" /\ held.by = row.by
      /\ held.reason = "delivery-submit-failed" /\ Still(pushed, held)
  BY <1>1, RowStill DEF HoldUncertain, From, Row, MessageState, Reason
<1>3. /\ MarkDelivered(held).state = "delivered"
      /\ Still(held, MarkDelivered(held))
  BY <1>2, RowStill DEF MarkDelivered, From, Row
<1>4. \/ mail' = [mail EXCEPT ![m] = pushed]
      \/ mail' = [mail EXCEPT ![m] = held]
      \/ mail' = [mail EXCEPT ![m] = MarkDelivered(held)]
  BY DEF Submit, SubmitThrows
<1>5. /\ flight' = [flight EXCEPT ![m] = Landed]
      /\ turn' = turn \/ turn' = [turn EXCEPT ![s] = m]
  BY DEF Submit, SubmitThrows
<1> HIDE DEF pushed, held
<1>6. Calm(mail[m], pushed)
  BY <1>1, CalmTransitive DEF Still
<1>7. CASE mail' = [mail EXCEPT ![m] = pushed]
  <2>1. ~Unconfirmed(pushed) /\ (~pushed.urgent => ~row.urgent)
    BY <1>1 DEF Unconfirmed, Still, Calm
  <2> QED
    BY <1>1, <1>5, <1>6, <1>7, <2>1, GivenSlots
<1>8. Calm(mail[m], held)
  BY <1>2, <1>6, CalmTransitive DEF Still
<1>9. CASE mail' = [mail EXCEPT ![m] = held]
  BY <1>2, <1>5, <1>8, <1>9, GivenSlots DEF Unconfirmed
<1>10. CASE mail' = [mail EXCEPT ![m] = MarkDelivered(held)]
  <2>1. Calm(mail[m], MarkDelivered(held))
    BY <1>3, <1>8, CalmTransitive DEF Still
  <2> QED
    BY <1>3, <1>5, <1>10, <2>1, GivenSlots DEF Unconfirmed, Owned
<1> QED
  BY <1>4, <1>7, <1>9, <1>10

LEMMA UnsubmittedStill ==
    ASSUME NEW m, NEW s, NEW row \in Row, NEW n \in Unsubmitted(m, s, row)
    PROVE  Still(row, n)
<1> DEFINE held == HoldUncertain(row, "delivery-submit-failed")
<1>1. n \in {row, Requeue(row), held, MarkDelivered(held)}
  BY DEF Unsubmitted
<1>2. held \in Row
  <2>1. "delivery-submit-failed" \in Reason
    BY DEF Reason
  <2> QED
    BY <2>1, RowKeeps DEF Keeps
<1>3. Still(row, held)
  BY RowStill
<1>4. Still(held, MarkDelivered(held))
  BY <1>2, RowStill
<1> HIDE DEF held
<1> QED
  BY <1>1, <1>3, <1>4, RowStill, StillTransitive

LEMMA PushingSlots ==
    ASSUME Typed, Slots, NEW m \in Message,
           PushRefused(m) \/ Push(m) \/ PushThrows(m)
    PROVE  Slots'
<1> USE DEF sessions, world
<1>1. mail[m] \in Row
  BY DEF Typed, TypeOK
<1>2. CASE PushRefused(m)
  <2> DEFINE n == IF flight[m].stage = "prepare-reserved"
                       /\ mail[m].state = "spawning"
                    THEN Requeue(mail[m]) ELSE mail[m]
  <2>1. mail' = [mail EXCEPT ![m] = n]
    BY <1>2 DEF PushRefused
  <2>2. Still(mail[m], n) /\ Keeps(mail[m], n)
    BY <1>1, RowStill, RowKeeps, KeepsReflexive
  <2>3. flight[m].stage = "prepare-reserved" => n.state # "spawning"
    BY <1>1 DEF Requeue, From, Row
  <2> HIDE DEF n
  <2> QED
    BY <1>2, <2>1, <2>2, <2>3, LandedSlots DEF PushRefused
<1>3. ASSUME ClaimWins(m)
      PROVE  /\ flight[m].who \in Session /\ ClaimRow(m) \in Row
             /\ ClaimRow(m).state = "claimed" /\ ClaimRow(m).by \in Session
             /\ flight[m].stage \notin {"none", "spawn", "born"}
  BY <1>3, ClaimRowTypes DEF ClaimWins
<1>4. CASE Push(m)
  BY <1>3, <1>4, ClaimIsNew, SubmitSlots DEF Push
<1>5. CASE PushThrows(m)
  <2>1. ASSUME ClaimWins(m),
               NEW n \in Unsubmitted(m, flight[m].who, ClaimRow(m)),
               mail' = [mail EXCEPT ![m] = n]
        PROVE  Slots'
    <3>1. Still(ClaimRow(m), n) /\ n.state # "claimed"
      BY <1>3, <2>1, UnsubmittedStill, UnsubmittedTypes
    <3>2. Calm(mail[m], n)
      BY <2>1, <3>1, ClaimIsNew, CalmTransitive DEF Still
    <3>3. n.state # "spawning" /\ ~Unconfirmed(n)
          /\ (Owned(n) => n.by \in Session)
      BY <1>3, <2>1, <3>1 DEF Still, Calm, Unconfirmed, Owned
    <3> QED
      BY <1>3, <1>5, <2>1, <3>1, <3>2, <3>3, GivenSlots DEF PushThrows
  <2>2. ASSUME flight[m].stage = "interrupt",
               NEW n \in Unsubmitted(m, flight[m].who, mail[m]),
               mail' = [mail EXCEPT ![m] = n]
        PROVE  Slots'
    <3>1. Still(mail[m], n) /\ Keeps(mail[m], n)
      <4>1. Still(mail[m], n)
        BY <1>1, UnsubmittedStill
      <4>2. n \in Row /\ n.state = "claimed" => n = mail[m]
        BY <1>1, UnsubmittedTypes
      <4>3. (n.state = "absent") <=> (mail[m].state = "absent")
        BY <1>1, UnsubmittedTypes, <4>1 DEF Still, Calm, Unsubmitted
      <4> QED
        BY <1>1, <4>1, <4>2, <4>3, UnsubmittedTypes DEF Keeps
    <3> QED
      BY <1>5, <2>2, <3>1, LandedSlots DEF PushThrows
  <2> QED
    BY <1>5, <2>1, <2>2 DEF PushThrows
<1> QED
  BY <1>2, <1>4, <1>5

LEMMA InterruptingSlots ==
    ASSUME Typed, Slots, NEW m \in Message,
           ClaimAndInterrupt(m) \/ AfterInterrupt(m)
    PROVE  Slots'
<1> USE DEF sessions, world
<1>1. mail[m] \in Row
  BY DEF Typed, TypeOK
<1>2. Interrupting(m) /\ mail[m].urgent /\ up
  BY DEF ClaimAndInterrupt, AfterInterrupt, Interrupting, Slots, Spared
<1>3. flight[m].stage \notin {"none", "spawn", "born", "prepare-reserved"}
  BY <1>2 DEF Interrupting
<1>4. CASE ClaimAndInterrupt(m)
  <2> DEFINE f == [flight[m] EXCEPT !.stage = "interrupt"]
  <2>1. flight[m] \in Flight
    BY DEF Typed, TypeOK
  <2>2. f.stage = "interrupt" /\ f.lane = flight[m].lane
    BY <2>1 DEF Flight
  <2>3. /\ flight' = [flight EXCEPT ![m] = f]
        /\ mail' = [mail EXCEPT ![m] = ClaimRow(m)]
        /\ turn' = [turn EXCEPT ![flight[m].who] = "idle"]
        /\ UNCHANGED <<reserved, chain, up>> /\ ClaimWins(m)
    BY <1>4 DEF ClaimAndInterrupt
  <2> HIDE DEF f
  <2>4. /\ flight[m].who \in Session /\ ClaimRow(m).state = "claimed"
        /\ ClaimRow(m).by \in Session /\ Calm(mail[m], ClaimRow(m))
    BY <2>3, ClaimRowTypes, ClaimIsNew
  <2>5. mail'[m] = ClaimRow(m) /\ \A k \in Message : k # m => mail'[k] = mail[k]
    BY <2>3 DEF Typed, TypeOK
  <2>6. \A k \in Message : Calm(mail[k], mail'[k])
    BY <2>4, <2>5, RowStill DEF Typed, TypeOK, Still
  <2>7. Slotted'
    BY <1>2, <1>3, <2>2, <2>3, <2>4, <2>5, <2>6, SlottedPush DEF Slots
  <2>8. \A k \in Message : Interrupting(k)' => Interrupting(k)
    BY <1>2, <2>3 DEF Interrupting, Typed, TypeOK
  <2>9. mail'[m].urgent
    BY <1>2, <2>6 DEF Calm
  <2>10. \A k \in Message, q \in Session : turn'[q] = k => turn[q] = k
    BY <2>3, DeliveryAssumption DEF Typed, TypeOK
  <2>11. \A k \in Message : Interrupting(k)' => mail'[k].urgent
    BY <2>6, <2>8 DEF Slots, Spared, Calm
  <2>12. \A k \in Message : Owned(mail'[k]) => mail'[k].by \in Session
    BY <2>4, <2>5 DEF Slots, Spared
  <2>13. ASSUME NEW k \in Message, NEW q \in Session, ~mail'[k].urgent,
                Works(q, k)'
         PROVE  <<k, mail'[k].at>> \notin chain'[q]
    BY <2>3, <2>5, <2>9, <2>10, <2>13 DEF Slots, Spared, Works, ClaimOf
  <2>14. ASSUME NEW k \in Message, ~mail'[k].urgent, UncertainTooEarly(k)'
         PROVE  FALSE
    <3>1. mail'[k] = mail[k]
      BY <2>5, <2>9, <2>14
    <3>2. mail[k].by \in Session
      BY <3>1, <2>14 DEF UncertainTooEarly, Owned, Slots, Spared
    <3> QED
      BY <2>10, <2>14, <3>1, <3>2
         DEF UncertainTooEarly, LateSettleSparesTurns, Slots, Spared
  <2>15. Spared'
    BY <2>11, <2>12, <2>13, <2>14 DEF Spared, LateSettleSparesTurns
  <2> QED
    BY <2>7, <2>15 DEF Slots
<1>5. CASE AfterInterrupt(m)
  <2> DEFINE s == flight[m].who
             ready == life[s] = "live" /\ Idle(s) /\ ~card[s]
             back == IF card[s] THEN HoldForRequest(Requeue(mail[m]))
                                ELSE Requeue(mail[m])
  <2>1. CASE ~ready
    <3>1. Still(mail[m], back) /\ Keeps(mail[m], back)
      <4>1. Still(mail[m], Requeue(mail[m])) /\ Keeps(mail[m], Requeue(mail[m]))
        BY <1>1, RowStill, RowKeeps
      <4>2. Requeue(mail[m]) \in Row
        BY <4>1 DEF Keeps
      <4>3. /\ Still(Requeue(mail[m]), HoldForRequest(Requeue(mail[m])))
            /\ Keeps(Requeue(mail[m]), HoldForRequest(Requeue(mail[m])))
        BY <4>2, RowStill, RowKeeps
      <4> QED
        BY <1>1, <4>1, <4>3, StillTransitive, KeepsTransitive
    <3>2. /\ mail' = [mail EXCEPT ![m] = back]
          /\ flight' = [flight EXCEPT ![m] = Landed]
          /\ UNCHANGED <<reserved, up, turn, chain>>
      BY <1>5, <2>1 DEF AfterInterrupt
    <3> HIDE DEF back
    <3> QED
      BY <1>2, <1>3, <3>1, <3>2, LandedSlots
  <2>2. CASE ready /\ mail[m].state # "claimed"
    <3>1. /\ mail' = [mail EXCEPT ![m] = mail[m]]
          /\ flight' = [flight EXCEPT ![m] = Landed]
          /\ UNCHANGED <<reserved, up, turn, chain>>
      BY <1>5, <2>2 DEF AfterInterrupt, Typed, TypeOK
    <3> QED
      BY <1>1, <1>2, <1>3, <3>1, RowStill, KeepsReflexive, LandedSlots
  <2>3. CASE ready /\ mail[m].state = "claimed"
    <3>1. /\ Submit(m, s, mail[m]) \/ SubmitThrows(m, s, mail[m])
          /\ UNCHANGED <<reserved, chain, up>>
      BY <1>5, <2>3 DEF AfterInterrupt
    <3>2. s \in Session
      BY <1>5 DEF AfterInterrupt, Typed, Grounded, WithSession
    <3>3. mail[m].by \in Session
      BY <2>3 DEF Slots, Spared, Owned
    <3>4. Calm(mail[m], mail[m])
      BY DEF Calm
    <3> HIDE DEF s
    <3> QED
      BY <1>1, <1>2, <1>3, <2>3, <3>1, <3>2, <3>3, <3>4, SubmitSlots
  <2> QED
    BY <2>1, <2>2, <2>3
<1> QED
  BY <1>4, <1>5

LEMMA DispatchingSlots ==
    ASSUME Typed, Slots, NEW m \in Message, Dispatching(m)
    PROVE  Slots'
BY PickingSlots, SpawningSlots, PushingSlots, InterruptingSlots DEF Dispatching

-----------------------------------------------------------------------------
\* The turn of s is over, and its claims may be settled.
LEMMA EndsStep ==
    ASSUME Typed, Slots, NEW s \in Session,
           \A m \in Message : Ends(mail[m], mail'[m], s) /\ Keeps(mail[m], mail'[m]),
           turn' = [turn EXCEPT ![s] = "idle"],
           \A q \in Session : q # s => chain'[q] = chain[q],
           UNCHANGED <<flight, reserved, up>>
    PROVE  Slots'
<1>1. /\ turn'[s] \notin Message
      /\ \A q \in Session : q # s => turn'[q] = turn[q]
  BY DeliveryAssumption DEF Typed, TypeOK
<1>2. \A m \in Message : Calm(mail[m], mail'[m])
  BY DEF Ends
<1>3. Slotted'
  BY <1>2, SlottedKept DEF Slots
<1>4. \A m \in Message : Owned(mail'[m]) => mail'[m].by \in Session
  BY DEF Ends, Slots, Spared
<1>5. \A m \in Message : Interrupting(m)' => Interrupting(m)
  BY DEF Interrupting
<1>6. \A q \in Session : \/ turn'[q] \notin Message
                         \/ turn'[q] = turn[q] /\ chain'[q] \subseteq chain[q]
  BY <1>1
<1>7. \A m \in Message : Unconfirmed(mail'[m]) =>
          mail'[m] = mail[m] \/ turn'[mail'[m].by] # m
  BY <1>1 DEF Ends
<1>8. Spared'
  BY <1>2, <1>4, <1>5, <1>6, <1>7, SparedKept DEF Slots
<1> QED
  BY <1>3, <1>8 DEF Slots

\* What a settle, late or not, does to the rows
LEMMA SettledEnds ==
    ASSUME Typed, NEW s \in Session, NEW claims \in SUBSET ClaimsOf(s), NEW found,
           NEW m \in Message
    PROVE  Ends(mail[m], Settled(claims, found)[m], s)
<1>1. mail[m] \in Row
  BY DEF Typed, TypeOK
<1>2. Ends(mail[m], mail[m], s)
  BY <1>1, RowStill DEF Ends, Still
<1>3. m \in claims => Ends(mail[m], SettleRow(mail[m], m \in found), s)
  BY <1>1, SettleEnds DEF ClaimsOf
<1> QED
  BY <1>2, <1>3 DEF Settled

LEMMA SettlementEnds ==
    ASSUME Typed, NEW s \in Session, NEW result \in SettleOrChain(s),
           NEW m \in Message
    PROVE  Ends(mail[m], result[1][m], s)
<1>1. \/ \E rows \in Settle(s) : result = <<rows, chain[s]>>
      \/ result = <<mail, chain[s] \cup Refs(s)>>
  BY DEF SettleOrChain
<1>2. Ends(mail[m], mail[m], s)
  BY RowStill DEF Ends, Still, Typed, TypeOK
<1>3. \A rows \in Settle(s) : Ends(mail[m], rows[m], s)
  BY SettledEnds DEF Settle
<1> QED
  BY <1>1, <1>2, <1>3

\* A claim s settled is dropped, or direct mail to s dead-lettered.
LEMMA DropStill ==
    ASSUME NEW r \in Row, NEW s \in Session, NEW why \in Reason, NEW drop, NEW n,
           n = DeadLetterDirectTo(IF drop THEN Drop(r) ELSE r, s, why)
    PROVE  Still(r, n) /\ Keeps(r, n)
<1> DEFINE q == IF drop THEN Drop(r) ELSE r
<1>1. "context-exhausted" \in Reason
  BY DEF Reason
<1>2. Still(r, q) /\ Keeps(r, q)
  BY <1>1, RowStill, RowKeeps, KeepsReflexive DEF Drop
<1>3. q \in Row
  BY <1>2 DEF Keeps
<1>4. n = DeadLetterDirectTo(q, s, why)
  OBVIOUS
<1> HIDE DEF q
<1>5. Still(q, n) /\ Keeps(q, n)
  BY <1>3, <1>4, RowStill, RowKeeps
<1> QED
  BY <1>2, <1>5, StillTransitive, KeepsTransitive

LEMMA AgentSlots ==
    ASSUME Typed, Slots, NEW s \in Session, Agent(s)
    PROVE  Slots'
<1> USE DEF sessions, dispatch, world, history
<1>1. ASSUME NEW q \in Request, Record(s, q) PROVE Slots'
  BY <1>1, NoneStill, StillStep DEF Record
<1>2. CASE AskHuman(s)
  BY <1>2, NoneStill, StillStep DEF AskHuman
<1>3. CASE Compact(s)
  BY <1>3, NoneStill, StillStep DEF Compact
<1>4. ASSUME NEW m \in Message, TailReceipt(s, m) PROVE Slots'
  <2>1. mail[m] \in Row
    BY DEF Typed, TypeOK
  <2> QED
    BY <1>4, <2>1, RowStill, RowKeeps, OneRowStill DEF TailReceipt
<1>5. CASE AgentDies(s)
  <2> PICK result \in SettleOrChain(s) :
             /\ mail' = result[1]
             /\ chain' = [chain EXCEPT ![s] = result[2]]
    BY <1>5 DEF AgentDies
  <2>1. \A m \in Message : Ends(mail[m], mail'[m], s) /\ Keeps(mail[m], mail'[m])
    BY SettlementEnds, SettlementTyped DEF AllKept
  <2>2. \A q \in Session : q # s => chain'[q] = chain[q]
    BY DEF Typed, TypeOK
  <2> QED
    BY <1>5, <2>1, <2>2, EndsStep DEF AgentDies
<1>6. ASSUME NEW outcome \in {"success", "failed", "exhausted"},
             EndTurn(s, outcome)
      PROVE  Slots'
  <2> PICK result \in SettleOrChain(s) :
             /\ mail' = IF outcome = "exhausted" THEN Exhaust(result[1], s)
                                                 ELSE result[1]
             /\ chain' = [chain EXCEPT ![s] = result[2]]
    BY <1>6 DEF EndTurn
  <2>1. AllKept(result[1])
    BY SettlementTyped
  <2>2. ASSUME NEW m \in Message
        PROVE  /\ Ends(mail[m], Exhaust(result[1], s)[m], s)
               /\ Keeps(mail[m], Exhaust(result[1], s)[m])
    <3>1. result[1][m] \in Row /\ Keeps(mail[m], result[1][m]) /\ mail[m] \in Row
      BY <2>1 DEF AllKept, Typed, TypeOK
    <3>2. "context-exhausted" \in Reason
      BY DEF Reason
    <3> DEFINE n == Exhaust(result[1], s)[m]
    <3>3. n = DeadLetterDirectTo(IF turn[s] = m THEN Drop(result[1][m])
                                                ELSE result[1][m],
                                 s, "context-exhausted")
      BY DEF Exhaust
    <3> HIDE DEF n
    <3>4. Still(result[1][m], n) /\ Keeps(result[1][m], n)
      BY <3>1, <3>2, <3>3, DropStill
    <3>5. Ends(mail[m], n, s) /\ Keeps(mail[m], n)
      BY <3>1, <3>4, SettlementEnds, StillEnds, KeepsTransitive
    <3> QED
      BY <3>5 DEF n
  <2>3. \A m \in Message : Ends(mail[m], mail'[m], s)
    BY <2>2, SettlementEnds
  <2>5. \A m \in Message : Keeps(mail[m], mail'[m])
    BY <2>1, <2>2 DEF AllKept
  <2>6. \A q \in Session : q # s => chain'[q] = chain[q]
    BY DEF Typed, TypeOK
  <2> QED
    BY <1>6, <2>3, <2>5, <2>6, EndsStep DEF EndTurn
<1> QED
  BY <1>1, <1>2, <1>3, <1>4, <1>5, <1>6 DEF Agent

\* A settle retried late; Spared keeps its snapshot off running turns.
LEMMA SettlingSlots ==
    ASSUME Typed, Slots, NEW s \in Session, Settling(s)
    PROVE  Slots'
<1>1. CASE GiveUpSettle(s)
  <2>1. \A q \in Session : chain'[q] \subseteq chain[q]
    BY <1>1 DEF GiveUpSettle, Typed, TypeOK
  <2> QED
    BY <1>1, <2>1, NoneStill, StillStep DEF GiveUpSettle, dispatch, world
<1>2. CASE RetrySettle(s)
  <2> DEFINE claims == StillClaimed(s, chain[s])
  <2> PICK found \in SUBSET HeardBy(s) : mail' = Settled(claims, found)
    BY <1>2 DEF RetrySettle
  <2>1. claims \subseteq ClaimsOf(s)
    BY DEF StillClaimed
  <2>2. \A m \in claims : ClaimOf(mail[m], s) /\ <<m, mail[m].at>> \in chain[s]
    BY DEF StillClaimed, ClaimsOf
  <2> HIDE DEF claims
  <2>3. \A m \in Message : Ends(mail[m], mail'[m], s)
    BY <2>1, SettledEnds
  <2>4. \A m \in Message : Keeps(mail[m], mail'[m])
    BY SettledKept DEF AllKept, Typed
  <2>5. \A q \in Session : turn'[q] = turn[q] /\ chain'[q] \subseteq chain[q]
    BY <1>2 DEF RetrySettle, Typed, TypeOK
  <2>6. UNCHANGED <<flight, reserved, up>>
    BY <1>2 DEF RetrySettle, dispatch, world
  <2>7. ASSUME NEW m \in Message, Unconfirmed(mail'[m]), mail'[m] # mail[m],
               ~mail[m].urgent
        PROVE  turn'[mail'[m].by] # m
    <3>1. m \in claims
      BY <2>7 DEF Settled
    <3>2. mail'[m].by = s
      BY <2>3, <2>7 DEF Ends
    <3>3. turn[s] # m
      BY <2>2, <2>7, <3>1 DEF Works, Slots, Spared
    <3> QED
      BY <2>5, <3>2, <3>3
  <2>8. \A m \in Message : Calm(mail[m], mail'[m])
    BY <2>3 DEF Ends
  <2>9. \A m \in Message : Owned(mail'[m]) => mail'[m].by \in Session
    BY <2>3 DEF Ends, Slots, Spared
  <2>10. \A m \in Message : Interrupting(m)' => Interrupting(m)
    BY <2>6 DEF Interrupting
  <2>11. Spared'
    BY <2>4, <2>5, <2>7, <2>8, <2>9, <2>10, SparedKept DEF Slots
  <2>12. Slotted'
    BY <2>6, <2>8, SlottedKept DEF Slots
  <2> QED
    BY <2>11, <2>12 DEF Slots
<1> QED
  BY <1>1, <1>2 DEF Settling

LEMMA OwnerSlots ==
    ASSUME Typed, Slots, NEW s \in Session, Owner(s)
    PROVE  Slots'
<1> USE DEF sessions, dispatch, world, history
<1>1. CASE Answer(s)
  BY <1>1, NoneStill, StillStep DEF Answer
<1>2. CASE Restore(s)
  BY <1>2, NoneStill, StillStep DEF Restore
<1>3. ASSUME NEW to \in {"idle", "own"}, turn' = [turn EXCEPT ![s] = to],
             UNCHANGED <<mail, flight, reserved, up, chain>>
      PROVE  Slots'
  <2>1. \A q \in Session : turn'[q] \notin Message \/ turn'[q] = turn[q]
    BY <1>3, DeliveryAssumption DEF Typed, TypeOK
  <2> QED
    BY <1>3, <2>1, NoneStill, StillStep
<1>4. CASE OwnTurn(s)
  BY <1>3, <1>4 DEF OwnTurn
<1>5. CASE Stop(s)
  BY <1>3, <1>5 DEF Stop
<1>6. CASE Archive(s)
  <2> PICK rows \in Settle(s) : mail' = rows
    BY <1>6 DEF Archive
  <2>1. \A m \in Message : Ends(mail[m], mail'[m], s) /\ Keeps(mail[m], mail'[m])
    BY SettledEnds, SettlementTyped DEF Settle, AllKept
  <2> QED
    BY <1>6, <2>1, EndsStep DEF Archive, EndSession
<1>7. CASE Kill(s)
  <2> PICK rows \in Settle(s) :
             mail' = [m \in Message |->
                        DeadLetterDirectTo(rows[m], s, "killed-recipient")]
    BY <1>7 DEF Kill
  <2>1. ASSUME NEW m \in Message
        PROVE  Ends(mail[m], mail'[m], s) /\ Keeps(mail[m], mail'[m])
    <3>1. Ends(mail[m], rows[m], s)
      BY SettledEnds DEF Settle
    <3>2. rows[m] \in Row /\ Keeps(mail[m], rows[m]) /\ mail[m] \in Row
      BY SettlementTyped DEF AllKept, Typed, TypeOK
    <3>3. "killed-recipient" \in Reason
      BY DEF Reason
    <3>4. /\ Still(rows[m], DeadLetterDirectTo(rows[m], s, "killed-recipient"))
          /\ Keeps(rows[m], DeadLetterDirectTo(rows[m], s, "killed-recipient"))
      BY <3>2, <3>3, RowStill, RowKeeps
    <3> QED
      BY <3>1, <3>2, <3>4, StillEnds, KeepsTransitive
  <2> QED
    BY <1>7, <2>1, EndsStep DEF Kill, EndSession
<1> QED
  BY <1>1, <1>2, <1>4, <1>5, <1>6, <1>7 DEF Owner

-----------------------------------------------------------------------------
\* A stop leaves no flight, no turn and no snapshot; the slots are kept on
\* disk until the start.
LEMMA StoppedSlots ==
    ASSUME Typed, Slots, ServerStops,
           \A m \in Message : Owned(mail'[m]) => mail'[m].by \in Session
    PROVE  Slots'
<1>1. /\ ~up' /\ \A m \in Message : flight'[m] = Landed
      /\ \A s \in Session : turn'[s] \notin Message
  BY DeliveryAssumption DEF ServerStops
<1>2. Slotted'
  BY <1>1 DEF Slotted, SpawnKeepsItsSlot, InFlight, Landed
<1>3. \A m \in Message : ~UncertainTooEarly(m)'
  BY <1>1 DEF UncertainTooEarly, Owned
<1>4. Spared'
  BY <1>1, <1>3 DEF Spared, Interrupting, Landed, Works, LateSettleSparesTurns
<1> QED
  BY <1>2, <1>4 DEF Slots

LEMMA StartSlots ==
    ASSUME Typed, Slots, Start
    PROVE  Slots'
<1> PICK receipt \in [Message -> {"found", "absent", "uncertain"}] :
           mail' = [m \in Message |-> StartRow(mail[m], receipt[m])]
  BY DEF Start
<1>1. ASSUME NEW m \in Message
      PROVE  /\ Still(mail[m], mail'[m]) /\ Keeps(mail[m], mail'[m])
             /\ mail'[m].state # "spawning"
  <2> DEFINE kept == ReconcileRow(mail[m], receipt[m])
             idle == IF kept.state = "spawning" THEN Requeue(kept) ELSE kept
  <2>1. {"killed-recipient", "transcript-unavailable-or-torn"} \subseteq Reason
    BY DEF Reason
  <2>2. mail[m] \in Row
    BY DEF Typed, TypeOK
  <2>3. Still(mail[m], kept) /\ Keeps(mail[m], kept)
    BY <2>1, <2>2, RowStill, RowKeeps, KeepsReflexive DEF ReconcileRow
  <2>4. kept \in Row
    BY <2>3 DEF Keeps
  <2> HIDE DEF kept
  <2>5. Still(kept, idle) /\ Keeps(kept, idle)
    BY <2>4, RowStill, RowKeeps, KeepsReflexive
  <2>6. idle \in Row /\ idle.state # "spawning"
    BY <2>4, <2>5 DEF Keeps, Requeue, From, Row
  <2> DEFINE dead == DeadLetter(idle, "killed-recipient")
  <2>7. mail'[m] \in {idle, dead}
    BY DEF StartRow, kept, idle
  <2> HIDE DEF idle
  <2>8. Still(idle, dead) /\ Keeps(idle, dead) /\ Still(idle, idle)
    BY <2>1, <2>6, RowStill, RowKeeps
  <2>9. dead.state # "spawning"
    BY <2>6, <2>8 DEF Still, Calm
  <2> HIDE DEF dead
  <2> QED
    BY <2>2, <2>3, <2>5, <2>6, <2>7, <2>8, <2>9,
       StillTransitive, KeepsTransitive, KeepsReflexive
<1>2. \A m \in Message : ~InFlight(m) /\ ~InFlight(m)'
  BY DEF Start, Slots, Slotted, InFlight
<1>3. Slotted'
  BY <1>1, <1>2 DEF Start, Slotted, SpawnKeepsItsSlot, InFlight
<1>4. \A m \in Message : Interrupting(m)' => Interrupting(m)
  BY DEF Start, Interrupting
<1>5. Spared'
  BY <1>1, <1>4, SparedStill DEF Start, Slots
<1> QED
  BY <1>3, <1>5 DEF Slots

LEMMA WorldSlots ==
    ASSUME Typed, Slots, Crash \/ Start \/ \E m \in Message : CrashInPush(m)
    PROVE  Slots'
<1>1. CASE Crash
  BY <1>1, StoppedSlots DEF Crash, Slots, Spared
<1>2. ASSUME NEW m \in Message, CrashInPush(m) PROVE Slots'
  <2>1. mail[m] \in Row /\ \A r \in Row : MarkPushed(r).by = r.by
    BY DEF Typed, TypeOK, MarkPushed, From, Row
  <2>2. ASSUME NEW n, n.by \in Session, mail' = [mail EXCEPT ![m] = n]
        PROVE  Slots'
    <3>1. \A k \in Message : Owned(mail'[k]) => mail'[k].by \in Session
      BY <2>2 DEF Slots, Spared, Typed, TypeOK
    <3> QED
      BY <1>2, <3>1, StoppedSlots DEF CrashInPush
  <2>3. ClaimWins(m) => ClaimRow(m) \in Row /\ ClaimRow(m).by \in Session
    BY ClaimRowTypes
  <2>4. mail[m].state = "claimed" => mail[m].by \in Session
    BY DEF Slots, Spared, Owned
  <2>5. \/ ClaimWins(m) /\ mail' = [mail EXCEPT ![m] = ClaimRow(m)]
        \/ ClaimWins(m) /\ mail' = [mail EXCEPT ![m] = MarkPushed(ClaimRow(m))]
        \/ mail[m].state = "claimed"
           /\ mail' = [mail EXCEPT ![m] = MarkPushed(mail[m])]
    BY <1>2 DEF CrashInPush
  <2> QED
    BY <2>1, <2>2, <2>3, <2>4, <2>5
<1> QED
  BY <1>1, <1>2, StartSlots

LEMMA InitSlots == Init => Slots
<1> SUFFICES ASSUME Init PROVE Slots
  OBVIOUS
<1>1. \A m \in Message : mail[m] = AbsentRow /\ flight[m] = Landed
  BY DEF Init
<1>2. AbsentRow.state = "absent" /\ Landed.stage = "none"
  BY DEF AbsentRow, Landed
<1>3. Slotted
  BY <1>1, <1>2 DEF Init, Slotted, SpawnKeepsItsSlot, InFlight
<1>4. Spared
  BY <1>1, <1>2 DEF Spared, Owned, Interrupting, Works, ClaimOf,
                    LateSettleSparesTurns, UncertainTooEarly
<1> QED
  BY <1>3, <1>4 DEF Slots

\* Every step of the mail system keeps the slots and spares running turns.
THEOREM SlotsStep == Typed /\ Slots /\ [Next]_vars => Slots'
<1> SUFFICES ASSUME Typed, Slots, [Next]_vars PROVE Slots'
  OBVIOUS
<1>1. ASSUME NEW m \in Message, Sending(m) \/ Dispatching(m) \/ Managing(m)
      PROVE  Slots'
  BY <1>1, SendingSlots, DispatchingSlots, ManagingSlots
<1>2. ASSUME NEW s \in Session, Agent(s) \/ Settling(s) \/ Owner(s)
      PROVE  Slots'
  BY <1>2, AgentSlots, SettlingSlots, OwnerSlots
<1>3. CASE Crash \/ Start \/ \E m \in Message : CrashInPush(m)
  BY <1>3, WorldSlots
<1>4. CASE UNCHANGED vars
  BY <1>4, NoneStill, StillStep DEF vars
<1> QED
  BY <1>1, <1>2, <1>3, <1>4 DEF Next

LEMMA SlotsAlways == Spec => []Slots
<1> QED
  BY InitSlots, TypedAlways, SlotsStep, PTL DEF Spec

\* Mail reserved for a spawn has that spawn under way and a slot is held only
\* while it is, whatever passes, spawns, closed tasks, crashes and starts
\* come between (staffing.ts, spawnFor; mailboxStore.ts, reserveForSpawn).
THEOREM SpawnKeepsSlot == Spec => []SpawnKeepsItsSlot
<1>1. Slots => SpawnKeepsItsSlot
  BY DEF Slots, Slotted
<1> QED
  BY <1>1, SlotsAlways, PTL

\* A settle that is retried late never declares the receipt of a running turn
\* unconfirmed, unless its mail is urgent (sessionMailbox.ts, claimRefs and
\* settleClaims).
THEOREM LateSettleSpares == Spec => []LateSettleSparesTurns
<1>1. Slots => LateSettleSparesTurns
  BY DEF Slots, Spared
<1> QED
  BY <1>1, SlotsAlways, PTL
=============================================================================
