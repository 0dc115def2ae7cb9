----------------------------- MODULE MailStore -----------------------------
(***************************************************************************)
(* The rows of team_messages and the conditional updates MailboxStore      *)
(* makes on them (src/server/team/mailboxStore.ts, mailboxSql.ts,          *)
(* parkedCancel.ts, mailboxRetry.ts).  Every update of the store is        *)
(*    UPDATE ... SET ... WHERE id = $id AND state IN (from)                *)
(* inside one IMMEDIATE transaction: it changes the row, or it finds the   *)
(* row in another state and does nothing.  An operator here takes a row    *)
(* and returns the row after the statement.                                *)
(*                                                                         *)
(* Data that no property tells apart (body, tags, thread, hop, dates other *)
(* than the claim stamp) is left out.  A row that was never inserted has   *)
(* state "absent".                                                         *)
(***************************************************************************)
EXTENDS Naturals

CONSTANTS
    Session,    \* chat session ids
    Group,      \* group ids of the team
    None,       \* SQL NULL
    Stamp       \* values of claimed_at: numbers from 1

ASSUME StampAssumption == Stamp \subseteq Nat \ {0}

ASSUME NamesAssumption == /\ Session \cap Group = {}
                          /\ None \notin Session \cup Group

MessageState ==
    {"absent", "queued", "awaiting-request", "spawning", "claimed",
     "uncertain", "delivered", "dead", "cancelled", "discarded"}

Reason ==
    {"none", "hop-limit", "killed-recipient", "context-exhausted",
     "task-closed", "receipt-unconfirmed-after-delivery",
     "delivery-submit-failed", "transcript-unavailable-or-torn"}

Row ==
    [state  : MessageState,
     to     : Session \cup Group \cup {None},  \* to_kind and to_id
     by     : Session \cup {None},             \* claimed_by
     at     : Stamp \cup {0},                  \* claimed_at, 0 for NULL
     pushed : BOOLEAN,                         \* pushed_at IS NOT NULL
     urgent : BOOLEAN,                         \* priority
     dup    : BOOLEAN,                         \* possible_duplicate
     reason : Reason]

Direct(r) == r.to \in Session      \* to_kind = 'session'
ToGroup(r) == r.to \in Group       \* to_kind = 'group'

AbsentRow ==
    [state |-> "absent", to |-> None, by |-> None, at |-> 0,
     pushed |-> FALSE, urgent |-> FALSE, dup |-> FALSE, reason |-> "none"]

(***************************************************************************)
(* Insert.  A message too far along its reply chain is born dead.          *)
(***************************************************************************)
Enqueue(to, urgent, overLimit) ==
    [AbsentRow EXCEPT !.state = IF overLimit THEN "dead" ELSE "queued",
                      !.to = to, !.urgent = urgent,
                      !.reason = IF overLimit THEN "hop-limit" ELSE "none"]

(***************************************************************************)
(* MailboxStore.transition: the update happens only from the states listed *)
(***************************************************************************)
From(r, states, changed) == IF r.state \in states THEN changed ELSE r

\* claim: queued or held mail, by one caller.  pushed_at is not written.
Claim(r, s, t) ==
    From(r, {"queued", "awaiting-request"},
         [r EXCEPT !.state = "claimed", !.by = s, !.at = t])

\* claimSpawned: mail reserved for the session spawned to take it
ClaimSpawned(r, s, t) ==
    From(r, {"spawning"}, [r EXCEPT !.state = "claimed", !.by = s, !.at = t])

\* Faulty: a state the schema does not know
ReserveMisnamed(r) == From(r, {"queued"}, [r EXCEPT !.state = "reserved"])

ReserveForSpawn(r) == From(r, {"queued"}, [r EXCEPT !.state = "spawning"])

HoldForRequest(r) ==
    From(r, {"queued"}, [r EXCEPT !.state = "awaiting-request"])

\* Faulty: the push leaves no trace in the row
PushUnrecorded(r) == r

MarkPushed(r) == From(r, {"claimed"}, [r EXCEPT !.pushed = TRUE])

MarkDelivered(r) ==
    From(r, {"claimed", "uncertain"}, [r EXCEPT !.state = "delivered"])

\* Faulty: mail of a closed task is revived when its spawn fails
RequeueClosed(r) ==
    From(r, {"claimed", "awaiting-request", "spawning", "dead"},
         [r EXCEPT !.state = "queued", !.by = None, !.at = 0,
                   !.pushed = FALSE])

Requeue(r) ==
    From(r, {"claimed", "awaiting-request", "spawning"},
         [r EXCEPT !.state = "queued", !.by = None, !.at = 0,
                   !.pushed = FALSE])

DeadLetter(r, why) ==
    From(r, {"queued", "claimed", "awaiting-request", "spawning"},
         [r EXCEPT !.state = "dead", !.reason = why])

DeadLetterDelivered(r, why) ==
    From(r, {"delivered", "uncertain"},
         [r EXCEPT !.state = "dead", !.reason = why])

HoldUncertain(r, why) ==
    From(r, {"claimed"}, [r EXCEPT !.state = "uncertain", !.reason = why])

\* ParkedCancel.cancel on a row that is not parked and resumes nothing
CancelWaiting(r) ==
    From(r, {"queued", "awaiting-request"}, [r EXCEPT !.state = "cancelled"])

Discard(r) ==
    From(r, {"dead", "uncertain"}, [r EXCEPT !.state = "discarded"])

\* deadLetterDirectTo: one row of the bulk update for session s
DeadLetterDirectTo(r, s, why) ==
    IF r.to = s
      THEN From(r, {"queued", "awaiting-request"},
                [r EXCEPT !.state = "dead", !.reason = why])
      ELSE r

(***************************************************************************)
(* retryMessage.  exists and flagged are the sets of sessions that have a  *)
(* record and that are flagged context-exhausted.                          *)
(***************************************************************************)
RetryRecipient(r) ==
    IF r.state = "uncertain" THEN r.by
    ELSE IF Direct(r) THEN r.to ELSE None

RetryRefused(r, flagged) ==
    /\ r.state = "dead"
    /\ r.reason = "context-exhausted"
    /\ r.to \in flagged

RetryKilled(r) ==
    [r EXCEPT !.state = "dead", !.reason = "killed-recipient",
              !.to = RetryRecipient(r), !.dup = @ \/ r.state = "uncertain"]

\* A dead letter goes back as it is: claimed_by, claimed_at and pushed_at
\* keep the values the dead letter carried.
RetryDead(r) == [r EXCEPT !.state = "queued", !.reason = "none"]

\* Faulty: the second delivery is not announced
RetryUnannounced(r) ==
    [r EXCEPT !.state = "queued", !.to = r.by, !.by = None, !.at = 0,
              !.pushed = FALSE, !.reason = "none"]

RetryUncertain(r) ==
    [r EXCEPT !.state = "queued", !.to = r.by, !.by = None, !.at = 0,
              !.pushed = FALSE, !.reason = "none", !.dup = TRUE]

Retry(r, exists, flagged) ==
    LET recipient == RetryRecipient(r) IN
    IF r.state \notin {"dead", "uncertain"} THEN r
    ELSE IF recipient # None /\ recipient \notin exists THEN RetryKilled(r)
    ELSE IF RetryRefused(r, flagged) THEN r
    ELSE IF r.state = "dead" THEN RetryDead(r)
    ELSE IF r.by # None THEN RetryUncertain(r)
    ELSE r

(***************************************************************************)
(* Views of a row the dispatcher and the startup sweep select on           *)
(***************************************************************************)
Waiting(r) == r.state \in {"queued", "awaiting-request", "spawning"}
ClaimOf(r, s) == r.state = "claimed" /\ r.by = s
=============================================================================
