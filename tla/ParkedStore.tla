---------------------------- MODULE ParkedStore ----------------------------
(***************************************************************************)
(* Rows of team_messages as provider limits see them: handled work that    *)
(* may be parked on its agent, the resume message that is to wake the      *)
(* agent, and the copies that hand work on (src/server/team/               *)
(* mailboxStore.ts, parkedCancel.ts, routing/limitPolicy.ts).              *)
(*                                                                         *)
(* MailStore has the delivery of one row in detail.  Here a row is queued, *)
(* claimed, delivered, uncertain or dead, and what matters is how rows     *)
(* hang together: a parked row links its resume, a resume names the work   *)
(* it continues.  An operator takes the whole table M and returns it after *)
(* ONE transaction.  Times are left out: a row scheduled for the           *)
(* provider's reset is queued, and is picked up at any later moment.       *)
(***************************************************************************)
EXTENDS Naturals

CONSTANTS
    Session,
    Work,       \* ids of messages sent
    Copy,       \* ids of the copies that hand work on
    Resume,     \* ids of resume messages
    Team,       \* the one group: a to_id of kind "group"
    None,
    MaxParks    \* MAX_PARKS

Mail == Work \cup Copy \cup Resume

ASSUME ParkedAssumption ==
    /\ {"idle", "human", "agent"} \cap Mail = {}
    /\ Resume \cap (Work \cup Copy) = {}
    /\ MaxParks \in Nat \ {0}
    /\ Team \notin Session /\ None \notin Session \cup {Team} \cup Mail

Row ==
    [state   : {"absent", "queued", "claimed", "delivered", "uncertain",
                "parked", "forwarded", "dead", "cancelled", "discarded"},
     to      : Session \cup {Team, None},
     by      : Session \cup {None},   \* claimed_by
     link    : Mail \cup {None},      \* resume_message_id
     parks   : Nat,                   \* park_count
     resumes : Mail \cup {None},      \* the work a resume's body names
     without : Session \cup {None},   \* excluded_profile, by its session
     next    : Mail \cup {None},      \* the copy state_reason names: "forwarded: <id>"
     tried   : BOOLEAN]               \* history: it was claimed once

AbsentRow ==
    [state |-> "absent", to |-> None, by |-> None, link |-> None, parks |-> 0,
     resumes |-> None, without |-> None, next |-> None, tried |-> FALSE]

\* MailboxStore.enqueue
Insert(M, m, row) == [M EXCEPT ![m] = [row EXCEPT !.state = "queued"]]

ParkedBy(M, s) == {m \in DOMAIN M : M[m].state = "parked" /\ M[m].by = s}
Held(M, s) ==
    {m \in DOMAIN M : M[m].state \in {"delivered", "parked"} /\ M[m].by = s}

\* parkedFor: the parked work that links resume r
ParkedFor(M, r) == {m \in DOMAIN M : M[m].state = "parked" /\ M[m].link = r}

-----------------------------------------------------------------------------
(***************************************************************************)
(* Parking and its ends.  Each is conditional on the row's state.          *)
(***************************************************************************)
Handled(M, w) == M[w].state \in {"delivered", "parked"}

\* settleResume: a resume nobody has taken is ended; others may have run.
SettleResume(r) ==
    CASE r.state = "queued" -> [r EXCEPT !.state = "cancelled"]
      [] r.state = "dead"   -> [r EXCEPT !.state = "discarded"]
      [] OTHER              -> r

\* Faulty: the old resume is unlinked, and left in the queue
ReplaceLeavesQueued(M, w) == [M EXCEPT ![w].link = None]

ReplaceResume(M, w) ==
    IF M[w].link = None THEN M
    ELSE LET unlinked == [M EXCEPT ![w].link = None] IN
         [unlinked EXCEPT ![M[w].link] = SettleResume(@)]

\* store.park; without handled work the new resume is cancelled instead.
Park(M, w, r, counted) ==
    IF Handled(M, w)
      THEN [M EXCEPT ![w] = [M[w] EXCEPT !.state = "parked", !.link = r,
                                         !.parks = IF counted THEN @ + 1 ELSE @]]
      ELSE [M EXCEPT ![r].state = "cancelled"]

\* Back to the group's queue, or to the same session's.
Release(M, w, toTeam) ==
    IF Handled(M, w)
      THEN [M EXCEPT ![w] = [M[w] EXCEPT !.state = "queued", !.by = None,
                                         !.link = None,
                                         !.to = IF toTeam THEN Team ELSE @]]
      ELSE M

\* Faulty: a state the schema does not know
ForwardedMisnamed(M, w, copy) ==
    IF Handled(M, w)
      THEN [M EXCEPT ![w].state = "handed-off", ![w].link = None, ![w].next = copy]
      ELSE M

MarkForwarded(M, w, copy) ==
    IF Handled(M, w)
      THEN [M EXCEPT ![w] = [M[w] EXCEPT !.state = "forwarded", !.link = None,
                                         !.next = copy]]
      ELSE M

\* Faulty: parks are not counted against the limit
ResolutionsUncapped(parks, credit) ==
    {"release", "forward"} \cup IF credit THEN {} ELSE {"park"}

\* resolveLimit: what may happen to work whose turn hit a limit.  The rule's
\* answer, the progress made and the distance of the reset are free.
Resolutions(parks, credit) ==
    IF parks >= MaxParks THEN {"release"}
    ELSE {"release", "forward"} \cup IF credit THEN {} ELSE {"park"}

-----------------------------------------------------------------------------
(***************************************************************************)
(* ParkedCancel.cancel                                                     *)
(***************************************************************************)
\* Faulty: the resume's turn is not considered
NeverInFlight(M, w) == FALSE

ResumeInFlight(M, w) ==
    /\ M[w].state = "parked" /\ M[w].link # None
    /\ M[M[w].link].state \in {"claimed", "delivered", "uncertain"}

LinkedResume(M, m) == M[m].state = "queued" /\ ParkedFor(M, m) # {}

CanCancel(M, m) ==
    /\ M[m].state \in {"queued", "parked"}
    /\ ~ResumeInFlight(M, m) /\ ~LinkedResume(M, m)

CancelRow(M, m) ==
    LET row == [M[m] EXCEPT !.state = "cancelled", !.link = None]
        gone == [M EXCEPT ![m] = row]
    IN
    IF M[m].state = "parked" /\ M[m].link # None
      THEN [gone EXCEPT ![M[m].link] = SettleResume(@)] ELSE gone

\* deadLetterDirectTo
DeadLetterDirectTo(M, s) ==
    [m \in DOMAIN M |-> IF M[m].state = "queued" /\ M[m].to = s
                          THEN [M[m] EXCEPT !.state = "dead"] ELSE M[m]]
=============================================================================
