---------------------------- MODULE ParkedSafety ----------------------------
(***************************************************************************)
(* Proofs about parked work: type correctness, that work marked as         *)
(* forwarded has its copy whatever transaction the server stops after,     *)
(* that no work is parked too often where no rule is asked, and, in the    *)
(* second half, how parked work, its resume and its agent's turn hang      *)
(* together (LinksHold, NoStrayResume, TurnHoldsItsWork).                  *)
(*                                                                         *)
(* Good and Tied say so of one table.  Each operation of ParkedStore keeps *)
(* them, so does each outcome, in the table it leaves and in those between *)
(* its transactions, and so does a restart on any of them.  Tied alone is  *)
(* not inductive: an outcome must not park or settle a resume that other   *)
(* work links (Fresh), and the outcome of one agent must not reach the     *)
(* work of another (Owns).                                                 *)
(***************************************************************************)
EXTENDS ParkedWork, TLAPS

Table == [Mail -> Row]

Whole(M) ==
    \A w \in Mail : M[w].state = "forwarded" =>
        M[w].next # None /\ M[M[w].next].state # "absent"

Capped(M) == \A w \in Mail : M[w].parks <= MaxParks

\* A good table, with capped parks if c
Good(M, c) == M \in Table /\ Whole(M) /\ (c => Capped(M))

\* N follows M: no row is lost, marked as forwarded or parked once more.
Kept(row, next) ==
    /\ row.state # "absent" => next.state # "absent"
    /\ next.state = "forwarded" =>
          row.state = "forwarded" /\ next.next = row.next
    /\ next.parks \in {row.parks, 0}

Keeps(M, N) == \A m \in Mail : Kept(M[m], N[m])

\* What every outcome is
Sound(o, c) ==
    /\ Good(o.end, c)
    /\ \A table \in o.torn : Good(table, c)
    /\ o.parked \in Mail \cup {None}

-----------------------------------------------------------------------------
(***************************************************************************)
(* Operations on tables                                                    *)
(***************************************************************************)
\* A step that keeps rows keeps tables good.
LEMMA KeepsGood ==
    ASSUME NEW M, NEW N, NEW c, Good(M, c), N \in Table, Keeps(M, N)
    PROVE  Good(N, c)
<1>1. Whole(N)
  <2> SUFFICES ASSUME NEW w \in Mail, N[w].state = "forwarded"
               PROVE  N[w].next # None /\ N[N[w].next].state # "absent"
      BY DEF Whole
  <2>1. /\ M[w].state = "forwarded" /\ N[w].next = M[w].next
        /\ M[w].next # None /\ M[M[w].next].state # "absent"
      BY DEF Good, Whole, Keeps, Kept
  <2>2. M[w].next \in Mail
      BY <2>1 DEF Good, Table, Row
  <2> QED
      BY <2>1, <2>2 DEF Keeps, Kept
<1>2. ASSUME c PROVE Capped(N)
  <2> SUFFICES ASSUME NEW w \in Mail PROVE N[w].parks <= MaxParks
      BY DEF Capped
  <2>1. M[w].parks <= MaxParks /\ N[w].parks \in {M[w].parks, 0}
      BY <1>2 DEF Good, Capped, Keeps, Kept
  <2> QED
      BY <2>1, ParkedAssumption
<1> QED
    BY <1>1, <1>2 DEF Good

\* One row changes, and is kept.
LEMMA RowGood ==
    ASSUME NEW M, NEW c, Good(M, c), NEW m \in Mail, NEW row \in Row,
           Kept(M[m], row)
    PROVE  /\ Good([M EXCEPT ![m] = row], c)
           /\ Keeps(M, [M EXCEPT ![m] = row])
<1>1. [M EXCEPT ![m] = row] \in Table
    BY DEF Good, Table
<1>2. Keeps(M, [M EXCEPT ![m] = row])
    BY DEF Good, Table, Keeps, Kept
<1> QED
    BY <1>1, <1>2, KeepsGood

\* A message is stored.
LEMMA InsertGood ==
    ASSUME NEW M, NEW c, Good(M, c), NEW m \in Mail, NEW row \in Row, row.parks = 0
    PROVE  /\ Good(Insert(M, m, row), c)
           /\ Insert(M, m, row)[m].state = "queued"
           /\ Insert(M, m, row)[m].parks = 0
           /\ \A w \in Mail \ {m} : Insert(M, m, row)[w] = M[w]
<1> DEFINE queued == [row EXCEPT !.state = "queued"]
<1>1. queued \in Row /\ queued.state = "queued" /\ queued.parks = 0
    BY DEF Row
<1>2. M \in Table
    BY DEF Good
<1> HIDE DEF queued
<1>3. Good([M EXCEPT ![m] = queued], c)
    BY <1>1, RowGood DEF Kept
<1>4. Insert(M, m, row) = [M EXCEPT ![m] = queued]
    BY DEF Insert, queued
<1> QED
    BY <1>1, <1>2, <1>3, <1>4 DEF Table

\* A resume nobody has taken is ended.
LEMMA SettleResumeRow ==
    ASSUME NEW r \in Row
    PROVE  SettleResume(r) \in Row /\ Kept(r, SettleResume(r))
    BY DEF SettleResume, Row, Kept

\* The resume of parked work is ended and unlinked.
LEMMA ReplaceResumeGood ==
    ASSUME NEW M, NEW c, Good(M, c), NEW w \in Mail
    PROVE  Good(ReplaceResume(M, w), c) /\ Keeps(M, ReplaceResume(M, w))
<1> DEFINE N == ReplaceResume(M, w)
<1>1. CASE M[w].link = None
    BY <1>1 DEF ReplaceResume, Keeps, Kept
<1>2. CASE M[w].link # None
  <2> DEFINE r == M[w].link
             U == [M EXCEPT ![w].link = None]
  <2>1. r \in Mail /\ M \in Table
      BY <1>2 DEF Good, Table, Row
  <2>2. U \in Table /\ Keeps(M, U)
      BY <2>1 DEF Table, Row, Keeps, Kept
  <2>3. N = [U EXCEPT ![r] = SettleResume(U[r])]
      BY <1>2, <2>1 DEF ReplaceResume
  <2>. HIDE DEF N, U, r
  <2>4. SettleResume(U[r]) \in Row /\ Kept(U[r], SettleResume(U[r]))
      BY <2>1, <2>2, SettleResumeRow DEF Table
  <2>5. Good(U, c)
      BY <2>2, KeepsGood
  <2>6. Good(N, c) /\ Keeps(U, N)
      BY <2>1, <2>3, <2>4, <2>5, RowGood
  <2>7. Keeps(M, N)
      BY <2>2, <2>6 DEF Keeps, Kept
  <2> QED
      BY <2>6, <2>7 DEF N
<1> QED
    BY <1>1, <1>2

\* store.park
LEMMA ParkGood ==
    ASSUME NEW M, NEW c, Good(M, c), NEW w \in Mail, NEW r \in Mail,
           NEW counted \in BOOLEAN,
           c /\ counted => M[w].parks < MaxParks
    PROVE  Good(Park(M, w, r, counted), c)
<1> DEFINE parks == IF counted THEN M[w].parks + 1 ELSE M[w].parks
           row == [M[w] EXCEPT !.state = "parked", !.link = r, !.parks = parks]
           unused == [M[r] EXCEPT !.state = "cancelled"]
<1>1. M \in Table /\ M[w] \in Row /\ M[r] \in Row
    BY DEF Good, Table
<1>2. /\ row \in Row /\ row.state = "parked"
      /\ row.parks = IF counted THEN M[w].parks + 1 ELSE M[w].parks
  <2>1. parks \in Nat
      BY <1>1 DEF Row
  <2> HIDE DEF parks
  <2>2. row \in Row /\ row.state = "parked" /\ row.parks = parks
      BY <1>1, <2>1 DEF Row
  <2> QED
      BY <2>2 DEF parks
<1>3. unused \in Row /\ Kept(M[r], unused)
    BY <1>1 DEF Row, Kept
<1>4. Good([M EXCEPT ![r] = unused], c)
  <2> HIDE DEF unused
  <2> QED
      BY <1>3, RowGood
<1>5. Good([M EXCEPT ![w] = row], c)
  <2> HIDE DEF row
  <2> DEFINE N == [M EXCEPT ![w] = row]
  <2>1. N \in Table /\ N[w] = row /\ \A m \in Mail \ {w} : N[m] = M[m]
      BY <1>1, <1>2 DEF Table
  <2> HIDE DEF N
  <2>2. ASSUME NEW m \in Mail, N[m].state = "forwarded"
        PROVE  N[m].next # None /\ N[N[m].next].state # "absent"
    <3>1. m # w /\ N[m] = M[m] /\ M[m] \in Row
        BY <1>1, <1>2, <2>1, <2>2 DEF Table
    <3>2. M[m].next \in Mail /\ M[M[m].next].state # "absent" /\ M[m].next # None
        BY <2>2, <3>1 DEF Good, Whole, Row
    <3> QED
        BY <1>2, <2>1, <3>1, <3>2
  <2>3. ASSUME c PROVE Capped(N)
    <3>1. Capped(M)
        BY <2>3 DEF Good
    <3>2. row.parks <= MaxParks
        BY <1>1, <1>2, <2>3, <3>1, ParkedAssumption DEF Capped, Row
    <3> QED
        BY <2>1, <3>1, <3>2 DEF Capped
  <2> QED
      BY <2>1, <2>2, <2>3 DEF Good, Whole, N
<1> QED
    BY <1>4, <1>5 DEF Park

\* store.release
LEMMA ReleaseGood ==
    ASSUME NEW M, NEW c, Good(M, c), NEW w \in Mail, NEW toTeam \in BOOLEAN
    PROVE  Good(Release(M, w, toTeam), c)
<1> DEFINE row ==
        [M[w] EXCEPT !.state = "queued", !.by = None, !.link = None,
                     !.to = IF toTeam THEN Team ELSE @]
<1>1. M[w] \in Row
    BY DEF Good, Table
<1>2. row \in Row /\ Kept(M[w], row)
    BY <1>1 DEF Row, Kept
<1>3. Good([M EXCEPT ![w] = row], c)
  <2> HIDE DEF row
  <2> QED
      BY <1>2, RowGood
<1> QED
    BY <1>3 DEF Release

\* store.markForwarded, once the copy is stored
LEMMA MarkForwardedGood ==
    ASSUME NEW M, NEW c, Good(M, c), NEW w \in Mail, NEW copy \in Mail,
           M[copy].state # "absent"
    PROVE  Good(MarkForwarded(M, w, copy), c)
<1> DEFINE row == [M[w] EXCEPT !.state = "forwarded", !.link = None, !.next = copy]
           N == [M EXCEPT ![w] = row]
<1>1. M[w] \in Row /\ M \in Table
    BY DEF Good, Table
<1>2. /\ row \in Row /\ row.state = "forwarded" /\ row.next = copy
      /\ row.parks = M[w].parks
    BY <1>1 DEF Row
<1> HIDE DEF row
<1>3. N \in Table /\ N[w] = row /\ \A m \in Mail \ {w} : N[m] = M[m]
    BY <1>1, <1>2 DEF Table
<1>4. \A m \in Mail : M[m].state # "absent" => N[m].state # "absent"
    BY <1>2, <1>3
<1> HIDE DEF N
<1>5. Whole(N)
  <2> SUFFICES ASSUME NEW m \in Mail, N[m].state = "forwarded"
               PROVE  N[m].next # None /\ N[N[m].next].state # "absent"
      BY DEF Whole
  <2>1. CASE m = w
      BY <2>1, <1>2, <1>3, <1>4, ParkedAssumption
  <2>2. CASE m # w
    <3>1. N[m] = M[m] /\ M[m] \in Row
        BY <2>2, <1>1, <1>3 DEF Table
    <3>2. M[m].next # None /\ M[M[m].next].state # "absent"
        BY <3>1 DEF Good, Whole
    <3>3. M[m].next \in Mail
        BY <3>1, <3>2 DEF Row
    <3> QED
        BY <3>1, <3>2, <3>3, <1>4
  <2> QED
      BY <2>1, <2>2
<1>6. c => Capped(N)
    BY <1>2, <1>3 DEF Good, Capped
<1>7. Good(N, c)
    BY <1>3, <1>5, <1>6 DEF Good
<1> QED
    BY <1>7 DEF MarkForwarded, N, row

\* ParkedCancel.cancel
LEMMA CancelGood ==
    ASSUME NEW M, NEW c, Good(M, c), NEW m \in Mail
    PROVE  Good(CancelRow(M, m), c)
<1> DEFINE row == [M[m] EXCEPT !.state = "cancelled", !.link = None]
           gone == [M EXCEPT ![m] = row]
           N == CancelRow(M, m)
<1>1. M \in Table /\ M[m] \in Row
    BY DEF Good, Table
<1>2. gone \in Table /\ Good(gone, c)
  <2>1. row \in Row /\ Kept(M[m], row)
      BY <1>1 DEF Row, Kept
  <2> HIDE DEF row
  <2> QED
      BY <2>1, RowGood DEF Good
<1>3. CASE M[m].state = "parked" /\ M[m].link # None
  <2> DEFINE r == M[m].link
  <2>1. r \in Mail
      BY <1>1, <1>3 DEF Row
  <2>2. N = [gone EXCEPT ![r] = SettleResume(gone[r])]
      BY <1>3 DEF CancelRow
  <2>. HIDE DEF N, gone, r
  <2>3. SettleResume(gone[r]) \in Row /\ Kept(gone[r], SettleResume(gone[r]))
      BY <1>2, <2>1, SettleResumeRow DEF Table
  <2>4. Good(N, c)
      BY <1>2, <2>1, <2>2, <2>3, RowGood
  <2> QED
      BY <2>4 DEF N
<1>4. CASE ~(M[m].state = "parked" /\ M[m].link # None)
    BY <1>2, <1>4 DEF CancelRow
<1> QED
    BY <1>3, <1>4

\* Direct mail that waits for a session is dropped.
LEMMA DeadLetterGood ==
    ASSUME NEW M, NEW c, Good(M, c), NEW s
    PROVE  Good(DeadLetterDirectTo(M, s), c)
<1>1. DeadLetterDirectTo(M, s) \in Table
    BY DEF DeadLetterDirectTo, Good, Table, Row
<1>2. Keeps(M, DeadLetterDirectTo(M, s))
    BY DEF DeadLetterDirectTo, Good, Table, Row, Keeps, Kept
<1> QED
    BY <1>1, <1>2, KeepsGood

-----------------------------------------------------------------------------
(***************************************************************************)
(* Outcomes                                                                *)
(***************************************************************************)
LEMMA ResumeForRow ==
    ASSUME NEW w \in Mail, NEW s \in Session
    PROVE  ResumeFor(w, s) \in Row /\ ResumeFor(w, s).parks = 0
    BY DEF ResumeFor, AbsentRow, Row

LEMMA CopyForRow ==
    ASSUME NEW row \in Row, NEW to \in Session \cup {Team},
           NEW s \in Session \cup {None}
    PROVE  CopyFor(row, to, s) \in Row /\ CopyFor(row, to, s).parks = 0
    BY DEF CopyFor, AbsentRow, Row

\* LimitOutcomes.park, which counts only below the limit
LEMMA ParkingSound ==
    ASSUME NEW M, NEW c, Good(M, c), NEW w \in Mail, NEW s \in Session,
           NEW r \in Mail, NEW counted \in BOOLEAN,
           c /\ counted => M[w].parks < MaxParks
    PROVE  Sound(Parking(M, w, s, r, counted), c)
<1> DEFINE cleared == ReplaceResume(M, w)
           scheduled == Insert(cleared, r, ResumeFor(w, s))
           parked == Park(scheduled, w, r, counted)
<1>1. Good(cleared, c) /\ cleared[w].parks \in {M[w].parks, 0}
    BY ReplaceResumeGood DEF Keeps, Kept
<1> HIDE DEF cleared
<1>2. /\ Good(scheduled, c)
      /\ scheduled[w].parks \in {cleared[w].parks, 0}
    BY <1>1, ResumeForRow, InsertGood
<1> HIDE DEF scheduled
<1>3. c /\ counted => scheduled[w].parks < MaxParks
    BY <1>1, <1>2, ParkedAssumption
<1>4. Good(parked, c)
    BY <1>2, <1>3, ParkGood
<1>5. Parking(M, w, s, r, counted) =
          [end |-> parked, torn |-> {cleared, scheduled}, parked |-> w]
    BY DEF Parking, cleared, scheduled
<1> HIDE DEF parked
<1> QED
    BY <1>1, <1>2, <1>4, <1>5 DEF Sound

\* LimitOutcomes.release
LEMMA ReleasingSound ==
    ASSUME NEW M, NEW c, Good(M, c), NEW w \in Mail, NEW toTeam \in BOOLEAN
    PROVE  Sound(Releasing(M, w, toTeam), c)
<1>1. Good(ReplaceResume(M, w), c)
    BY ReplaceResumeGood
<1>2. Good(Release(ReplaceResume(M, w), w, toTeam), c)
    BY <1>1, ReleaseGood
<1> QED
    BY <1>1, <1>2 DEF Sound, Releasing

\* LimitOutcomes.forward
LEMMA ForwardingSound ==
    ASSUME NEW M, NEW c, Good(M, c), NEW w \in Mail, NEW m \in Mail,
           NEW s \in Session \cup {None}, NEW to \in Session \cup {Team}
    PROVE  Sound(Forwarding(M, w, s, to, m), c)
<1> DEFINE copy == CopyFor(M[w], to, s)
           copied == Insert(M, m, copy)
           cleared == ReplaceResume(copied, w)
           marked == MarkForwarded(cleared, w, m)
<1>1. M[w] \in Row
    BY DEF Good, Table
<1>2. Good(copied, c) /\ copied[m].state = "queued"
  <2>1. copy \in Row /\ copy.parks = 0
      BY <1>1, CopyForRow
  <2> HIDE DEF copy
  <2> QED
      BY <2>1, InsertGood
<1> HIDE DEF copied
<1>3. Good(cleared, c) /\ cleared[m].state # "absent"
    BY <1>2, ReplaceResumeGood DEF Keeps, Kept
<1> HIDE DEF cleared
<1>4. Good(marked, c)
    BY <1>3, MarkForwardedGood
<1>5. Forwarding(M, w, s, to, m) =
          [end |-> marked, torn |-> {copied, cleared}, parked |-> None]
    BY DEF Forwarding, copied, cleared, copy
<1> HIDE DEF marked
<1> QED
    BY <1>2, <1>3, <1>4, <1>5 DEF Sound

\* LimitOutcomes.unpark of some works
LEMMA UnparkedGood ==
    ASSUME NEW M, NEW c, Good(M, c), NEW works
    PROVE  Good(Unparked(M, works), c)
<1> DEFINE N == Unparked(M, works)
           done(m) == [M[m] EXCEPT !.state = "delivered", !.link = None]
<1>1. ASSUME NEW m \in Mail PROVE N[m] \in Row /\ Kept(M[m], N[m])
  <2>1. M[m] \in Row
      BY DEF Good, Table
  <2>2. done(m) \in Row /\ Kept(M[m], done(m))
      BY <2>1 DEF Row, Kept
  <2>3. SettleResume(M[m]) \in Row /\ Kept(M[m], SettleResume(M[m]))
      BY <2>1, SettleResumeRow
  <2>4. Kept(M[m], M[m])
      BY DEF Kept
  <2>5. N[m] \in {done(m), SettleResume(M[m]), M[m]}
      BY DEF Unparked
  <2> HIDE DEF N, done
  <2> QED
      BY <2>1, <2>2, <2>3, <2>4, <2>5
<1>2. N = [m \in Mail |-> N[m]]
    BY DEF Unparked
<1> HIDE DEF N
<1>3. N \in Table
    BY <1>1, <1>2 DEF Table
<1>4. Good(N, c)
    BY <1>1, <1>3, KeepsGood DEF Keeps
<1> QED
    BY <1>4 DEF N

LEMMA UnparkingSound ==
    ASSUME NEW M, NEW c, Good(M, c), NEW works, works \subseteq Mail
    PROVE  Sound(Unparking(M, works), c)
<1>1. \A some : Good(Unparked(M, some), c)
    BY UnparkedGood
<1>2. ASSUME NEW some, NEW w \in Mail
      PROVE  Good(ReplaceResume(Unparked(M, some), w), c)
    BY <1>1, ReplaceResumeGood
<1> QED
    BY <1>1, <1>2 DEF Sound, Unparking

LEMMA SameSound ==
    ASSUME NEW M, NEW c, Good(M, c)
    PROVE  Sound(Same(M), c)
    BY DEF Sound, Same

\* LimitOutcomes.resolve: where no rule was asked the count is the row's.
LEMMA ResolvingSound ==
    ASSUME TypeOK, NEW M, NEW c, Good(M, c), NEW q \in Question,
           c => q.parks = M[q.work].parks,
           NEW o \in Resolving(M, q)
    PROVE  Sound(o, c)
<1>0. /\ q.work \in Mail /\ q.who \in Session /\ q.parks \in Nat
      /\ q.toTeam \in BOOLEAN
    BY DEF Question
<1>1. CASE o = Same(M)
    BY <1>1, SameSound
<1>2. CASE o = Releasing(M, q.work, q.toTeam)
    BY <1>0, <1>2, ReleasingSound
<1>3. ASSUME "park" \in Resolutions(q.parks, q.credit), o \in Parks(M, q)
      PROVE  Sound(o, c)
  <2>1. PICK r \in NextResume : o = Parking(M, q.work, q.who, r, TRUE)
      BY <1>3 DEF Parks
  <2>2. r \in Mail
      BY DEF NextResume, Mail
  <2>3. q.parks < MaxParks
      BY <1>0, <1>3, ParkedAssumption DEF Resolutions
  <2> QED
      BY <1>0, <2>1, <2>2, <2>3, ParkingSound
<1>4. ASSUME o \in Forwards(M, q)
      PROVE  Sound(o, c)
  <2>1. PICK to \in Targets(q.who), m \in Unsent(Copy) :
            o = Forwarding(M, q.work, q.who, to, m)
      BY <1>4 DEF Forwards
  <2>2. m \in Mail /\ to \in Session \cup {Team}
      BY DEF Unsent, Mail, Targets, TypeOK
  <2> QED
      BY <1>0, <2>1, <2>2, ForwardingSound
<1> QED
    BY <1>1, <1>2, <1>3, <1>4 DEF Resolving

\* LimitOutcomes.parkCurrent
LEMMA ParkingCurrentSound ==
    ASSUME TypeOK, NEW M, NEW c, Good(M, c), NEW s \in Session,
           NEW o \in ParkingCurrent(M, s)
    PROVE  Sound(o, c)
<1>1. PICK r \in NextResume, w \in CurrentWork(M, s) :
          /\ M[w].state = "parked" \/ M[w].parks < MaxParks
          /\ o = Parking(M, w, s, r, M[w].state # "parked")
    BY DEF ParkingCurrent
<1>2. r \in Mail
    BY DEF NextResume, Mail
<1>3. w \in Mail
    BY DEF CurrentWork, Held, ParkedBy, Good, Table
<1> QED
    BY <1>1, <1>2, <1>3, ParkingSound

\* What is asked about work of a table is a question, with its count.
LEMMA QuestionOnTyped ==
    ASSUME NEW M, NEW c, Good(M, c), NEW w \in Mail, NEW s \in Session,
           NEW credit \in BOOLEAN
    PROVE  /\ QuestionOn(M, w, s, credit) \in Question
           /\ QuestionOn(M, w, s, credit).parks = M[w].parks
           /\ QuestionOn(M, w, s, credit).work = w
    BY DEF QuestionOn, Question, Good, Table, Row

\* LimitOutcomes.turnEnded
LEMMA OutcomesSound ==
    ASSUME TypeOK, NEW M, NEW c, Good(M, c), NEW s \in Session,
           NEW ending \in Ending, NEW o \in Outcomes(M, s, ending)
    PROVE  Sound(o, c)
<1>1. CASE o = Same(M)
    BY <1>1, SameSound
<1>2. CASE o = Unparking(M, Completed(M, s))
  <2>1. Completed(M, s) \subseteq Mail
      BY DEF Completed, ParkedBy, Good, Table
  <2> QED
      BY <1>2, <2>1, UnparkingSound
<1>3. ASSUME NEW credit \in BOOLEAN, o \in AfterLimit(M, s, credit)
      PROVE  Sound(o, c)
  <2>1. CASE o \in ParkingCurrent(M, s)
      BY <2>1, ParkingCurrentSound
  <2>2. ASSUME Working(s), o \in Resolving(M, QuestionOn(M, turn[s], s, credit))
        PROVE  Sound(o, c)
    <3>1. turn[s] \in Mail
        BY <2>2 DEF Working
    <3> DEFINE q == QuestionOn(M, turn[s], s, credit)
    <3>2. q \in Question /\ q.parks = M[q.work].parks
        BY <3>1, QuestionOnTyped
    <3> HIDE DEF q
    <3>3. o \in Resolving(M, q)
        BY <2>2 DEF q
    <3> QED
        BY <3>2, <3>3, ResolvingSound
  <2> QED
      BY <1>1, <1>3, <2>1, <2>2 DEF AfterLimit
<1> QED
    BY <1>1, <1>2, <1>3 DEF Outcomes, Ending

-----------------------------------------------------------------------------
(***************************************************************************)
(* The inductive invariant, and its steps                                  *)
(***************************************************************************)
\* Everything but the table.  Only a group with a rule leaves questions open.
Others ==
    /\ alive \subseteq Session /\ full \subseteq Session
    /\ turn \in [Session -> Mail \cup {"idle", "human", "agent"}]
    /\ last \in [Session -> Mail \cup {None}]
    /\ asked \subseteq Question /\ ruled \in RuleMay
    /\ crashes \in 0..MaxCrash /\ managed \in 0..MaxManaged
    /\ asked # {} => ruled

Inv == Good(mail, ~ruled) /\ Others

LEMMA InvTyped ==
    ASSUME Inv
    PROVE  TypeOK /\ mail \in Table
    BY DEF Inv, Others, Good, Table, TypeOK

LEMMA InvNext ==
    ASSUME ruled' = ruled, Good(mail', ~ruled), Others'
    PROVE  Inv'
    BY DEF Inv, Good, Table, Whole, Capped

LEMMA InvInit == Init => Inv
<1> SUFFICES ASSUME Init PROVE Inv
    OBVIOUS
<1>1. AbsentRow \in Row /\ AbsentRow.state = "absent" /\ AbsentRow.parks = 0
    BY DEF AbsentRow, Row
<1>2. mail \in Table /\ \A m \in Mail : mail[m] = AbsentRow
    BY <1>1 DEF Init, Table
<1>3. Good(mail, ~ruled)
    BY <1>1, <1>2, ParkedAssumption DEF Good, Whole, Capped
<1>4. Others
    BY WorkAssumption DEF Init, Others
<1> QED
    BY <1>3, <1>4 DEF Inv

\* Claims are settled at a turn's end.
LEMMA SettledGood ==
    ASSUME Inv, NEW s, NEW M \in Settled(s)
    PROVE  Good(M, ~ruled)
<1> DEFINE claims == {m \in Mail : mail[m].state = "claimed" /\ mail[m].by = s}
           ended(m, to) == [mail[m] EXCEPT !.state = to]
<1>1. PICK end \in [claims -> {"delivered", "uncertain"}] :
          M = [m \in Mail |-> IF m \in claims THEN ended(m, end[m]) ELSE mail[m]]
    BY DEF Settled
<1>2. mail \in Table
    BY InvTyped
<1>3. \A m \in Mail, to \in {"delivered", "uncertain"} :
          ended(m, to) \in Row /\ Kept(mail[m], ended(m, to))
    BY <1>2 DEF Table, Row, Kept
<1> HIDE DEF ended, claims
<1>4. ASSUME NEW m \in Mail PROVE M[m] \in Row /\ Kept(mail[m], M[m])
    BY <1>1, <1>2, <1>3 DEF Table, Kept
<1>5. M \in Table
    BY <1>1, <1>4 DEF Table
<1> QED
    BY <1>4, <1>5, KeepsGood DEF Inv, Keeps

\* One row of the table changes.
LEMMA RowStep ==
    ASSUME Inv, NEW m \in Mail, NEW row \in Row, Kept(mail[m], row),
           mail' = [mail EXCEPT ![m] = row], ruled' = ruled, Others'
    PROVE  Inv'
<1>1. Good(mail', ~ruled)
    BY RowGood DEF Inv
<1> QED
    BY <1>1, InvNext

LEMMA SendStep ==
    ASSUME Inv, NEW to \in Session \cup {Team}, Send(to)
    PROVE  Inv'
<1> DEFINE row == [AbsentRow EXCEPT !.to = to]
<1>1. PICK m \in Unsent(Work) : mail' = Insert(mail, m, row)
    BY DEF Send
<1>2. m \in Mail
    BY DEF Unsent, Mail
<1>3. row \in Row /\ row.parks = 0
    BY DEF AbsentRow, Row
<1> HIDE DEF row
<1>4. Good(mail', ~ruled)
    BY <1>1, <1>2, <1>3, InsertGood DEF Inv
<1> QED
    BY <1>4, InvNext DEF Send, Inv, Others, agents, bounds

LEMMA DeliverStep ==
    ASSUME Inv, NEW m \in Mail, NEW s \in Session, Deliver(m, s)
    PROVE  Inv'
<1> DEFINE row == [mail[m] EXCEPT !.state = "claimed", !.by = s,
                                  !.tried = @ \/ m \in Resume]
<1>1. mail \in Table /\ mail[m] \in Row
    BY InvTyped DEF Table
<1>2. row \in Row /\ Kept(mail[m], row)
    BY <1>1 DEF Row, Kept
<1>3. WorkOf(m) \in Mail
    BY <1>1 DEF WorkOf, ParkedFor, Table
<1>4. Others'
    BY <1>3 DEF Deliver, Inv, Others, bounds
<1> QED
    BY <1>2, <1>4, RowStep DEF Deliver, bounds

LEMMA ReceiptStep ==
    ASSUME Inv, NEW m \in Mail, Receipt(m)
    PROVE  Inv'
<1> DEFINE row == [mail[m] EXCEPT !.state = "delivered"]
<1>1. row \in Row /\ Kept(mail[m], row)
    BY InvTyped DEF Table, Row, Kept
<1>2. Others'
    BY DEF Receipt, Inv, Others, agents, bounds
<1> QED
    BY <1>1, <1>2, RowStep DEF Receipt, bounds

LEMMA OwnTurnStep ==
    ASSUME Inv, NEW s \in Session, NEW kind \in {"human", "agent"},
           OwnTurn(s, kind)
    PROVE  Inv'
    BY InvNext DEF OwnTurn, Inv, Others, bounds

LEMMA EndTurnStep ==
    ASSUME Inv, NEW s \in Session, NEW ending \in Ending, EndTurn(s, ending)
    PROVE  Inv'
<1>1. PICK M \in Settled(s) :
        /\ \E o \in Outcomes(M, s, ending) : Takes(s, o)
        /\ IF ending \in {"limit", "credit"} /\ AsksRule(M, s)
             THEN asked' = asked \cup {QuestionOn(M, turn[s], s, ending = "credit")}
             ELSE asked' = asked
    BY DEF EndTurn
<1>2. PICK o \in Outcomes(M, s, ending) : Takes(s, o)
    BY <1>1
<1>3. Good(M, ~ruled) /\ TypeOK
    BY SettledGood, InvTyped
<1>4. Sound(o, ~ruled)
    BY <1>2, <1>3, OutcomesSound
<1>5. Good(mail', ~ruled)
    BY <1>2, <1>4 DEF Takes, Sound
<1>6. last' \in [Session -> Mail \cup {None}]
    BY <1>2, <1>3, <1>4 DEF Takes, Sound, TypeOK
<1>7. asked' \subseteq Question /\ (asked' # {} => ruled)
  <2>1. CASE asked' = asked
      BY <2>1 DEF Inv, Others
  <2>2. CASE AsksRule(M, s)
    <3>1. ruled /\ turn[s] \in Mail
        BY <2>2 DEF AsksRule, Working
    <3>2. QuestionOn(M, turn[s], s, ending = "credit") \in Question
        BY <3>1, <1>3, QuestionOnTyped
    <3> QED
        BY <1>1, <3>1, <3>2 DEF Inv, Others
  <2> QED
      BY <1>1, <2>1, <2>2
<1>8. Others'
    BY <1>6, <1>7 DEF EndTurn, Inv, Others, bounds
<1> QED
    BY <1>5, <1>8, InvNext DEF EndTurn, bounds

LEMMA StopStep ==
    ASSUME Inv, NEW s \in Session, Stop(s)
    PROVE  Inv'
    BY InvNext DEF Stop, Inv, Others, bounds

LEMMA RuleAnswersStep ==
    ASSUME Inv, NEW q \in asked, RuleAnswers(q)
    PROVE  Inv'
<1>1. PICK o \in Resolving(mail, q) : Takes(q.who, o)
    BY DEF RuleAnswers
<1>2. q \in Question /\ q.who \in Session /\ ruled /\ TypeOK
    BY InvTyped DEF Inv, Others, Question
<1>3. Sound(o, ~ruled)
    BY <1>1, <1>2, ResolvingSound DEF Inv
<1>4. Good(mail', ~ruled)
    BY <1>1, <1>3 DEF Takes, Sound
<1>5. last' \in [Session -> Mail \cup {None}]
    BY <1>1, <1>2, <1>3 DEF Takes, Sound, TypeOK
<1>6. Others'
    BY <1>2, <1>5 DEF RuleAnswers, Inv, Others, bounds
<1> QED
    BY <1>4, <1>6, InvNext DEF RuleAnswers, bounds

\* Rows are kept one by one: the table they make is good.
LEMMA RowsGood ==
    ASSUME NEW M, NEW c, Good(M, c), NEW N, N = [m \in Mail |-> N[m]],
           \A m \in Mail : N[m] \in Row /\ Kept(M[m], N[m])
    PROVE  Good(N, c)
<1>1. N \in Table
    BY DEF Table
<1> QED
    BY <1>1, KeepsGood DEF Keeps

\* The turn's mail is dropped.
LEMMA DropHandledGood ==
    ASSUME NEW M, NEW c, Good(M, c), NEW s
    PROVE  Good(DropHandled(M, s), c)
<1> DEFINE N == DropHandled(M, s)
           dead(m) == [M[m] EXCEPT !.state = "dead"]
<1>1. \A m \in Mail : /\ M[m] \in Row /\ Kept(M[m], M[m])
                      /\ dead(m) \in Row /\ Kept(M[m], dead(m))
    BY DEF Good, Table, Row, Kept
<1>2. \A m \in Mail : N[m] \in {M[m], dead(m)}
    BY DEF DropHandled
<1>3. N = [m \in Mail |-> N[m]]
    BY DEF DropHandled
<1> HIDE DEF N, dead
<1>4. \A m \in Mail : N[m] \in Row /\ Kept(M[m], N[m])
    BY <1>1, <1>2
<1>5. Good(N, c)
    BY <1>3, <1>4, RowsGood
<1> QED
    BY <1>5 DEF N

\* Parked work goes back to its group, or is dropped.
LEMMA ReleaseParkedGood ==
    ASSUME NEW M, NEW c, Good(M, c), NEW s
    PROVE  Good(ReleaseParked(M, s), c)
<1> DEFINE N == ReleaseParked(M, s)
           back(m) == [M[m] EXCEPT !.state = "queued", !.to = Team, !.by = None,
                                   !.link = None]
           dead(m) == [M[m] EXCEPT !.state = "dead", !.by = None, !.link = None]
<1>1. ASSUME NEW m \in Mail
      PROVE  /\ M[m] \in Row /\ Kept(M[m], M[m])
             /\ back(m) \in Row /\ Kept(M[m], back(m))
             /\ dead(m) \in Row /\ Kept(M[m], dead(m))
             /\ SettleResume(M[m]) \in Row /\ Kept(M[m], SettleResume(M[m]))
  <2>1. M[m] \in Row
      BY DEF Good, Table
  <2>2. back(m) \in Row /\ Kept(M[m], back(m))
      BY <2>1 DEF Row, Kept
  <2>3. dead(m) \in Row /\ Kept(M[m], dead(m))
      BY <2>1 DEF Row, Kept
  <2> QED
      BY <2>1, <2>2, <2>3, SettleResumeRow DEF Kept
<1>2. \A m \in Mail : N[m] \in {M[m], back(m), dead(m), SettleResume(M[m])}
    BY DEF ReleaseParked
<1>3. N = [m \in Mail |-> N[m]]
    BY DEF ReleaseParked
<1> HIDE DEF N, back, dead
<1>4. \A m \in Mail : N[m] \in Row /\ Kept(M[m], N[m])
    BY <1>1, <1>2
<1>5. Good(N, c)
    BY <1>3, <1>4, RowsGood
<1> QED
    BY <1>5 DEF N

\* A turn ends in an exhausted context.
LEMMA ExhaustStep ==
    ASSUME Inv, NEW s \in Session, Exhaust(s)
    PROVE  Inv'
<1>1. PICK M \in Settled(s) :
          mail' = DeadLetterDirectTo(ReleaseParked(DropHandled(M, s), s), s)
    BY DEF Exhaust
<1>2. Good(M, ~ruled)
    BY SettledGood
<1>3. Good(mail', ~ruled)
    BY <1>1, <1>2, DropHandledGood, ReleaseParkedGood, DeadLetterGood
<1>4. Others'
    BY DEF Exhaust, Inv, Others, bounds
<1> QED
    BY <1>3, <1>4, InvNext DEF Exhaust, bounds

LEMMA CompactStep ==
    ASSUME Inv, NEW s \in Session, Compact(s)
    PROVE  Inv'
    BY InvNext DEF Compact, Inv, Others, bounds

\* What a manager does leaves the rest typed.
LEMMA ManagesOthers ==
    ASSUME Inv, Manages, UNCHANGED agents
    PROVE  Others' /\ ruled' = ruled
    BY WorkAssumption DEF Manages, Inv, Others, agents

\* What a hand-off passes on is a sound outcome.
LEMMA HandOffSound ==
    ASSUME Inv, NEW w \in Mail, NEW to \in Targets(mail[w].by),
           NEW m \in Unsent(Copy)
    PROVE  Sound(Forwarding(mail, w, mail[w].by, to, m), ~ruled)
<1>1. mail[w].by \in Session \cup {None}
    BY InvTyped DEF Table, Row
<1>2. to \in Session \cup {Team} /\ m \in Mail
    BY InvTyped DEF Targets, Unsent, Mail, TypeOK
<1> QED
    BY <1>1, <1>2, ForwardingSound DEF Inv

LEMMA HandOffStep ==
    ASSUME Inv, NEW w \in Mail, NEW to, HandOff(w, to)
    PROVE  Inv'
<1>1. PICK m \in Unsent(Copy) :
          mail' = Forwarding(mail, w, mail[w].by, to, m).end
    BY DEF HandOff
<1>2. Good(mail', ~ruled)
    BY <1>1, HandOffSound DEF HandOff, Sound
<1> QED
    BY <1>2, ManagesOthers, InvNext DEF HandOff

LEMMA CancelStep ==
    ASSUME Inv, NEW m \in Mail, Cancel(m)
    PROVE  Inv'
<1>1. Good(mail', ~ruled)
    BY CancelGood DEF Cancel, Inv
<1> QED
    BY <1>1, ManagesOthers, InvNext DEF Cancel

LEMMA DiscardStep ==
    ASSUME Inv, NEW m \in Mail, Discard(m)
    PROVE  Inv'
<1> DEFINE row == [mail[m] EXCEPT !.state = "discarded"]
<1>1. row \in Row /\ Kept(mail[m], row)
    BY InvTyped DEF Table, Row, Kept
<1>2. mail' = [mail EXCEPT ![m] = row]
    BY DEF Discard
<1> HIDE DEF row
<1> QED
    BY <1>1, <1>2, ManagesOthers, RowStep DEF Discard

LEMMA RetryStep ==
    ASSUME Inv, NEW m \in Mail, Retry(m)
    PROVE  Inv'
<1> DEFINE again == [mail[m] EXCEPT !.state = "queued"]
           freed == [mail[m] EXCEPT !.state = "queued", !.by = None,
                                    !.to = mail[m].by]
           dead == [mail[m] EXCEPT !.state = "dead", !.to = mail[m].by]
<1>1. mail[m] \in Row
    BY InvTyped DEF Table
<1>2. again \in Row /\ Kept(mail[m], again)
    BY <1>1 DEF Row, Kept
<1>3. freed \in Row /\ Kept(mail[m], freed)
    BY <1>1 DEF Row, Kept
<1>4. dead \in Row /\ Kept(mail[m], dead)
    BY <1>1 DEF Row, Kept
<1>5. \E row \in {again, freed, dead} : mail' = [mail EXCEPT ![m] = row]
    BY DEF Retry
<1> HIDE DEF again, freed, dead
<1> QED
    BY <1>2, <1>3, <1>4, <1>5, ManagesOthers, RowStep DEF Retry

LEMMA KillStep ==
    ASSUME Inv, NEW s \in Session, Kill(s)
    PROVE  Inv'
<1>1. PICK M \in Settled(s) : mail' = DeadLetterDirectTo(M, s)
    BY DEF Kill
<1>2. Good(mail', ~ruled)
    BY <1>1, SettledGood, DeadLetterGood
<1>3. Others' /\ ruled' = ruled
    BY WorkAssumption DEF Kill, Manages, Inv, Others
<1> QED
    BY <1>2, <1>3, InvNext

-----------------------------------------------------------------------------
(***************************************************************************)
(* The server stops                                                        *)
(***************************************************************************)
\* The server starts again on any good table.
LEMMA RestartStep ==
    ASSUME Inv, NEW M, Good(M, ~ruled), Restart(M)
    PROVE  Inv'
<1> DEFINE claims == {m \in Mail : M[m].state = "claimed"}
           found == {"queued", "delivered", "uncertain"}
<1>1. PICK receipt \in [claims -> found] :
          mail' = [m \in Mail |-> Started(M[m],
                      IF m \in claims THEN receipt[m] ELSE M[m].state)]
    BY DEF Restart
<1>2. ASSUME NEW m \in Mail
      PROVE  mail'[m] \in Row /\ Kept(M[m], mail'[m])
  <2> DEFINE dead == [M[m] EXCEPT !.state = "dead"]
             owner(to) == IF to # M[m].state /\ to = "queued" THEN None ELSE M[m].by
             moved(to) == [M[m] EXCEPT !.state = to, !.by = owner(to)]
  <2>1. M[m] \in Row
      BY <1>2 DEF Good, Table
  <2>2. dead \in Row /\ Kept(M[m], dead)
      BY <2>1 DEF Row, Kept
  <2>3. \A to \in found \cup {M[m].state} : moved(to) \in Row /\ Kept(M[m], moved(to))
    <3>1. \A to : owner(to) \in Session \cup {None}
        BY <2>1 DEF Row
    <3> HIDE DEF owner
    <3> SUFFICES ASSUME NEW to \in found \cup {M[m].state}
                 PROVE  moved(to) \in Row /\ Kept(M[m], moved(to))
        OBVIOUS
    <3>2. /\ moved(to) \in Row /\ moved(to).state = to
          /\ moved(to).next = M[m].next /\ moved(to).parks = M[m].parks
      <4>1. owner(to) \in Session \cup {None}
          BY <3>1
      <4> QED
          BY <2>1, <4>1 DEF Row
    <3> HIDE DEF moved
    <3> QED
        BY <3>2 DEF Kept
  <2>4. PICK to \in found \cup {M[m].state} : mail'[m] = Started(M[m], to)
      BY <1>1, <1>2
  <2>5. mail'[m] \in {dead, moved(to)}
      BY <2>4 DEF Started
  <2> HIDE DEF dead, moved
  <2> QED
      BY <2>2, <2>3, <2>5
<1>3. mail' = [m \in Mail |-> mail'[m]]
    BY <1>1
<1>4. Good(mail', ~ruled)
    BY <1>2, <1>3, RowsGood
<1>5. Others'
    BY WorkAssumption DEF Restart, Inv, Others
<1> QED
    BY <1>4, <1>5, InvNext DEF Restart

LEMMA CrashInEndTurnStep ==
    ASSUME Inv, NEW s \in Session, NEW ending \in Ending,
           CrashInEndTurn(s, ending)
    PROVE  Inv'
<1>1. PICK M \in Settled(s) :
          \E o \in Outcomes(M, s, ending) : \E table \in o.torn : Restart(table)
    BY DEF CrashInEndTurn
<1>2. PICK o \in Outcomes(M, s, ending) : \E table \in o.torn : Restart(table)
    BY <1>1
<1>3. Sound(o, ~ruled)
  <2>1. Good(M, ~ruled) /\ TypeOK
      BY SettledGood, InvTyped
  <2> QED
      BY <2>1, OutcomesSound
<1> QED
    BY <1>2, <1>3, RestartStep DEF Sound

LEMMA CrashInRuleStep ==
    ASSUME Inv, NEW q \in asked, CrashInRule(q)
    PROVE  Inv'
<1>1. PICK o \in Resolving(mail, q) : \E table \in o.torn : Restart(table)
    BY DEF CrashInRule
<1>2. q \in Question /\ ruled /\ TypeOK
    BY InvTyped DEF Inv, Others
<1>3. Sound(o, ~ruled)
    BY <1>1, <1>2, ResolvingSound DEF Inv
<1> QED
    BY <1>1, <1>3, RestartStep DEF Sound

LEMMA CrashInHandOffStep ==
    ASSUME Inv, NEW w \in Mail, NEW to, CrashInHandOff(w, to)
    PROVE  Inv'
<1>1. PICK m \in Unsent(Copy) :
          \E table \in Forwarding(mail, w, mail[w].by, to, m).torn : Restart(table)
    BY DEF CrashInHandOff
<1>2. Sound(Forwarding(mail, w, mail[w].by, to, m), ~ruled)
    BY HandOffSound DEF CrashInHandOff
<1> QED
    BY <1>1, <1>2, RestartStep DEF Sound

LEMMA StoppingStep ==
    ASSUME Inv, Stopping
    PROVE  Inv'
<1>1. CASE Crash
    BY <1>1, RestartStep DEF Crash, Inv
<1>2. CASE \E s \in Session, ending \in Ending : CrashInEndTurn(s, ending)
    BY <1>2, CrashInEndTurnStep
<1>3. CASE \E q \in asked : CrashInRule(q)
    BY <1>3, CrashInRuleStep
<1>4. CASE \E m \in Mail, to \in Session \cup {Team} : CrashInHandOff(m, to)
    BY <1>4, CrashInHandOffStep
<1> QED
    BY <1>1, <1>2, <1>3, <1>4 DEF Stopping

-----------------------------------------------------------------------------
(***************************************************************************)
(* Theorems                                                                *)
(***************************************************************************)
\* Every step keeps the invariant.
LEMMA InvStep == Inv /\ [Next]_vars => Inv'
<1> SUFFICES ASSUME Inv, [Next]_vars PROVE Inv'
    OBVIOUS
<1>1. CASE UNCHANGED vars
    BY <1>1 DEF vars, Inv, Others, Good, Table, Whole, Capped
<1>2. CASE \E to \in Session \cup {Team} : Send(to)
    BY <1>2, SendStep
<1>3. CASE \E m \in Mail : Receipt(m)
    BY <1>3, ReceiptStep
<1>4. ASSUME NEW m \in Mail, Manager(m) PROVE Inv'
    BY <1>4, CancelStep, DiscardStep, RetryStep, HandOffStep DEF Manager
<1>5. ASSUME NEW s \in Session, Agent(s) PROVE Inv'
  <2>1. CASE \E m \in Mail : Deliver(m, s)
      BY <2>1, DeliverStep
  <2>2. CASE OwnTurn(s, "human") \/ OwnTurn(s, "agent")
      BY <2>2, OwnTurnStep
  <2>3. CASE \E ending \in Ending : EndTurn(s, ending)
      BY <2>3, EndTurnStep
  <2>4. CASE Stop(s) \/ Exhaust(s) \/ Compact(s) \/ Kill(s)
      BY <2>4, StopStep, ExhaustStep, CompactStep, KillStep
  <2> QED
      BY <1>5, <2>1, <2>2, <2>3, <2>4 DEF Agent
<1>6. CASE \E q \in asked : RuleAnswers(q)
    BY <1>6, RuleAnswersStep
<1>7. CASE Stopping
    BY <1>7, StoppingStep
<1> QED
    BY <1>1, <1>2, <1>3, <1>4, <1>5, <1>6, <1>7 DEF Next

\* The invariant holds in every state, for any sessions, ids and limits.
THEOREM InvAlways == Spec => []Inv
<1> QED
    BY InvInit, InvStep, PTL DEF Spec

\* The variables of limit outcomes keep their types.
THEOREM ParkedTypeCorrect == Spec => []TypeOK
<1> QED
    BY InvTyped, InvAlways, PTL

\* Work that reads "forwarded" has a stored copy, however its forwarding
\* interleaved with other outcomes and whatever transaction the server
\* stopped after.
THEOREM ForwardedHasCopy == Spec => []HandedOn
<1>1. Inv => HandedOn
    BY DEF Inv, Good, Whole, HandedOn
<1> QED
    BY <1>1, InvAlways, PTL

\* A group without a rule parks no work more than MaxParks times.
THEOREM ParksStayCapped == Spec => []ParksAreCapped
<1>1. Inv => ParksAreCapped
    BY DEF Inv, Good, Capped, ParksAreCapped
<1> QED
    BY <1>1, InvAlways, PTL

-----------------------------------------------------------------------------
(***************************************************************************)
(* Links: parked work and the resume that is to wake its agent             *)
(***************************************************************************)
\* A linked resume goes to one agent, is its agent's once taken, and is never
\* worked on for itself: it is not parked, handed on or cancelled.
Serves(row) ==
    /\ row.to \in Session
    /\ \/ row.state \in {"queued", "dead", "discarded"}
       \/ /\ row.state \in {"claimed", "delivered", "uncertain"}
          /\ row.tried /\ row.by = row.to

\* w links a resume of its own, for its own agent if c.
Binds(M, w, c) ==
    LET r == M[w].link IN
    /\ r \in Resume /\ M[r].resumes = w /\ Serves(M[r])
    /\ c => M[r].to = M[w].by

Untaken(row) ==
    ~row.tried /\ row.state \notin {"absent", "cancelled", "discarded"}

\* Only parked work has a link, all of it but the works in X, and every resume
\* nobody has taken is linked but those in Y.
Tied(M, c, X, Y) ==
    /\ \A w \in Mail : M[w].link # None => M[w].state = "parked" /\ Binds(M, w, c)
    /\ \A w \in Mail : M[w].state = "parked" /\ M[w].link = None => w \in X
    /\ \A r \in Resume : M[r].state # "absent" => M[r].resumes # None
    /\ \A r \in Resume : Untaken(M[r]) => r \in Y \/ M[M[r].resumes].link = r

Unbound(M, m) == \A w \in Mail : M[w].link # m

LEMMA TiedMore ==
    ASSUME NEW M, NEW c, NEW X, NEW Y, NEW X2, NEW Y2, Tied(M, c, X, Y),
           X \subseteq X2, Y \subseteq Y2
    PROVE  Tied(M, c, X2, Y2)
    BY DEF Tied

\* Parked work, and any message that is no resume, is not linked.
LEMMA PlainUnbound ==
    ASSUME NEW M \in Table, NEW c, NEW X, NEW Y, Tied(M, c, X, Y), NEW m \in Mail,
           m \notin Resume \/ M[m].state \in {"absent", "parked", "forwarded"}
    PROVE  Unbound(M, m)
    BY ParkedAssumption DEF Tied, Binds, Serves, Unbound

\* Delivery goes on: links, and what resumes are about, stay.
Lives(m, row, next) ==
    /\ next.link = row.link /\ next.resumes = row.resumes
    /\ next.state = "parked" <=> row.state = "parked"
    /\ row.state = "parked" => next.by = row.by
    /\ m \in Resume =>
          /\ Serves(row) => Serves(next) /\ next.to = row.to
          /\ Untaken(next) => Untaken(row)
          /\ next.state # "absent" => row.state # "absent"

LEMMA LivesTied ==
    ASSUME NEW M \in Table, NEW N \in Table, NEW c, NEW X, NEW Y,
           Tied(M, c, X, Y), \A m \in Mail : Lives(m, M[m], N[m])
    PROVE  Tied(N, c, X, Y)
<1>1. \A r \in Resume : r \in Mail
    BY DEF Mail
<1>2. ASSUME NEW w \in Mail, N[w].link # None
      PROVE  N[w].state = "parked" /\ Binds(N, w, c)
  <2>1. M[w].link = N[w].link /\ M[w].state = "parked" /\ Binds(M, w, c)
      BY <1>2 DEF Tied, Lives
  <2>2. N[w].state = "parked" /\ N[w].by = M[w].by
      BY <2>1 DEF Lives
  <2> QED
      BY <1>1, <2>1, <2>2 DEF Binds, Lives
<1>3. ASSUME NEW w \in Mail, N[w].state = "parked", N[w].link = None PROVE w \in X
    BY <1>3 DEF Tied, Lives
<1>4. ASSUME NEW r \in Resume, N[r].state # "absent" PROVE N[r].resumes # None
    BY <1>1, <1>4 DEF Tied, Lives
<1>5. ASSUME NEW r \in Resume, Untaken(N[r])
      PROVE  r \in Y \/ N[N[r].resumes].link = r
  <2>1. /\ Untaken(M[r]) /\ N[r].resumes = M[r].resumes
        /\ r \in Y \/ M[M[r].resumes].link = r
      BY <1>1, <1>5 DEF Tied, Lives
  <2>2. M[r].resumes \in Mail
      BY <1>1, <2>1 DEF Tied, Untaken, Table, Row
  <2> QED
      BY <2>1, <2>2 DEF Lives
<1> QED
    BY <1>2, <1>3, <1>4, <1>5 DEF Tied

\* The works in W lose their links, and what they linked is settled.
Leaves(M, N, W) ==
    \A m \in Mail :
        /\ m \in W => /\ N[m].link = None /\ N[m].resumes = M[m].resumes
                      /\ Untaken(N[m]) => Untaken(M[m])
                      /\ N[m].state # "absent" => M[m].state # "absent"
        /\ m \notin W => N[m] = IF \E w \in W : M[w].link = m
                                  THEN SettleResume(M[m]) ELSE M[m]

LEMMA LeavesTied ==
    ASSUME NEW M \in Table, NEW N \in Table, NEW c, NEW X, NEW Y,
           Tied(M, c, X, Y), NEW W, W \subseteq Mail, Leaves(M, N, W),
           \A w \in W : Unbound(M, w) /\ (N[w].state = "parked" => w \in X)
    PROVE  Tied(N, c, X, Y)
<1>1. \A r \in Resume : r \in Mail
    BY DEF Mail
<1>2. ASSUME NEW m \in Mail, m \notin W, NEW w \in W, M[w].link = m
      PROVE  /\ N[m].link = None /\ N[m].resumes = M[m].resumes
             /\ N[m].state # "parked" /\ ~Untaken(N[m])
             /\ N[m].state # "absent" => M[m].state # "absent"
  <2>1. m \in Resume /\ Serves(M[m]) /\ M[m].link = None /\ M[m] \in Row
      BY <1>2, ParkedAssumption DEF Tied, Binds, Serves, Table
  <2>2. N[m] = SettleResume(M[m])
      BY <1>2 DEF Leaves
  <2>3. CASE M[m].state = "queued"
    <3>1. N[m] = [M[m] EXCEPT !.state = "cancelled"]
        BY <2>2, <2>3 DEF SettleResume
    <3> QED
        BY <2>1, <2>3, <3>1 DEF Row, Untaken
  <2>4. CASE M[m].state = "dead"
    <3>1. N[m] = [M[m] EXCEPT !.state = "discarded"]
        BY <2>2, <2>4 DEF SettleResume
    <3> QED
        BY <2>1, <2>4, <3>1 DEF Row, Untaken
  <2>5. CASE M[m].state \notin {"queued", "dead"}
    <3>1. N[m] = M[m]
        BY <2>2, <2>5 DEF SettleResume
    <3> QED
        BY <2>1, <2>5, <3>1 DEF Serves, Untaken
  <2> QED
      BY <2>3, <2>4, <2>5
<1>3. ASSUME NEW m \in Mail, m \notin W, \A w \in W : M[w].link # m
      PROVE  N[m] = M[m]
    BY <1>3 DEF Leaves
<1>4. ASSUME NEW w \in Mail, N[w].link # None
      PROVE  /\ w \notin W /\ N[w] = M[w]
             /\ N[w].state = "parked" /\ Binds(N, w, c)
  <2>1. w \notin W
      BY <1>4 DEF Leaves
  <2>2. N[w] = M[w]
      BY <1>2, <1>3, <1>4, <2>1
  <2>3. /\ M[w].state = "parked" /\ Binds(M, w, c)
        /\ M[w].link \in Resume /\ M[M[w].link].resumes = w
      BY <1>4, <2>2 DEF Tied, Binds
  <2>4. M[w].link \notin W
      BY <2>1 DEF Unbound
  <2>5. \A v \in W : M[v].link # M[w].link
      BY <1>4, <2>1, <2>2, <2>3 DEF Tied, Binds
  <2>6. N[M[w].link] = M[M[w].link]
      BY <1>1, <1>3, <2>3, <2>4, <2>5
  <2> QED
      BY <2>1, <2>2, <2>3, <2>6 DEF Binds
<1>5. ASSUME NEW w \in Mail, N[w].state = "parked", N[w].link = None PROVE w \in X
    BY <1>2, <1>3, <1>5 DEF Tied
<1>6. ASSUME NEW r \in Resume, N[r].state # "absent" PROVE N[r].resumes # None
  <2>1. N[r].resumes = M[r].resumes /\ M[r].state # "absent"
      BY <1>1, <1>2, <1>3, <1>6 DEF Leaves
  <2> QED
      BY <2>1 DEF Tied
<1>7. ASSUME NEW r \in Resume, Untaken(N[r])
      PROVE  r \in Y \/ N[N[r].resumes].link = r
  <2>1. CASE r \in W
      BY <1>1, <1>7, <2>1 DEF Leaves, Tied, Unbound, Untaken, Table, Row
  <2>2. CASE r \notin W
    <3>1. N[r] = M[r] /\ \A w \in W : M[w].link # r
        BY <1>1, <1>2, <1>3, <1>7, <2>2
    <3>2. M[r].resumes \in Mail
        BY <1>1, <1>7, <3>1 DEF Tied, Untaken, Table, Row
    <3>3. CASE M[M[r].resumes].link = r
      <4>1. M[r].resumes \notin W /\ M[M[r].resumes].state = "parked"
          BY <1>1, <3>1, <3>2, <3>3, ParkedAssumption DEF Tied
      <4>2. Unbound(M, M[r].resumes)
          BY <3>2, <4>1, PlainUnbound
      <4>3. N[M[r].resumes] = M[M[r].resumes]
          BY <1>3, <3>2, <4>1, <4>2 DEF Unbound
      <4> QED
          BY <3>1, <3>3, <4>3
    <3> QED
        BY <1>7, <3>1, <3>3 DEF Tied
  <2> QED
      BY <2>1, <2>2
<1> QED
    BY <1>4, <1>5, <1>6, <1>7 DEF Tied

\* A link that is still there is the one there was.
LEMMA LeavesLinks ==
    ASSUME NEW M \in Table, NEW N \in Table, NEW c, NEW X, NEW Y,
           Tied(M, c, X, Y), NEW W, W \subseteq Mail, Leaves(M, N, W)
    PROVE  \A m \in Mail : N[m].link \in {M[m].link, None}
<1> SUFFICES ASSUME NEW m \in Mail PROVE N[m].link \in {M[m].link, None}
    OBVIOUS
<1>1. SettleResume(M[m]).link = M[m].link
    BY DEF SettleResume, Table, Row
<1> QED
    BY <1>1 DEF Leaves

\* What somebody has, or had, of the works outside W stays.
Taken == {"claimed", "delivered", "uncertain", "parked", "forwarded"}
Spares(M, N, W) ==
    \A m \in Mail \ W : M[m].state \in Taken => N[m] = M[m]

LEMMA LeavesSpares ==
    ASSUME NEW M, NEW N, NEW W, Leaves(M, N, W)
    PROVE  Spares(M, N, W)
<1> SUFFICES ASSUME NEW m \in Mail \ W, M[m].state \in Taken
             PROVE  N[m] = M[m]
    BY DEF Spares
<1>1. SettleResume(M[m]) = M[m]
    BY DEF SettleResume, Taken
<1> QED
    BY <1>1 DEF Leaves

\* N is M with the link of w taken away.
Clears(M, N, w) ==
    /\ Leaves(M, N, {w})
    /\ N[w].link = None /\ N[w].state = M[w].state /\ N[w].by = M[w].by
    /\ \A m \in Mail : N[m].link \in {M[m].link, None}

\* store.replaceResume, for work that is no linked resume itself
LEMMA ReplaceResumeTied ==
    ASSUME NEW M \in Table, NEW c, NEW X, NEW Y, Tied(M, c, X, Y),
           NEW w \in Mail, Unbound(M, w), NEW N, N = ReplaceResume(M, w)
    PROVE  N \in Table /\ Tied(N, c, X \cup {w}, Y) /\ Clears(M, N, w)
<1>1. CASE M[w].link = None
  <2>1. N = M
      BY <1>1 DEF ReplaceResume
  <2>2. Leaves(M, N, {w})
      BY <1>1, <2>1, ParkedAssumption DEF Leaves
  <2> QED
      BY <1>1, <2>1, <2>2, TiedMore DEF Clears
<1>2. CASE M[w].link # None
  <2> DEFINE r == M[w].link
             U == [M EXCEPT ![w].link = None]
  <2>1. /\ r \in Mail /\ r # w /\ M[w] \in Row /\ M[r] \in Row
        /\ M[r].state # "absent"
      BY <1>2, ParkedAssumption DEF Tied, Binds, Serves, Table, Mail
  <2>2. /\ U \in Table /\ U[w] = [M[w] EXCEPT !.link = None]
        /\ \A m \in Mail \ {w} : U[m] = M[m]
      BY <2>1 DEF Table, Row
  <2>3. N = [U EXCEPT ![r] = SettleResume(U[r])]
      BY <1>2, <2>1 DEF ReplaceResume
  <2>4. /\ SettleResume(M[r]) \in Row /\ SettleResume(M[r]).link = M[r].link
        /\ SettleResume(M[r]).state # "absent"
    <3>1. CASE M[r].state = "queued"
        BY <2>1, <3>1 DEF SettleResume, Row
    <3>2. CASE M[r].state = "dead"
        BY <2>1, <3>2 DEF SettleResume, Row
    <3>3. CASE M[r].state \notin {"queued", "dead"}
        BY <2>1, <3>3 DEF SettleResume, Row
    <3> QED
        BY <3>1, <3>2, <3>3
  <2>5. /\ N \in Table /\ N[w] = [M[w] EXCEPT !.link = None]
        /\ N[r] = SettleResume(M[r])
        /\ \A m \in Mail \ {w, r} : N[m] = M[m]
    <3> HIDE DEF U
    <3> QED
        BY <2>1, <2>2, <2>3, <2>4 DEF Table
  <2>6. /\ N[w].link = None /\ N[w].resumes = M[w].resumes
        /\ N[w].state = M[w].state /\ N[w].by = M[w].by
        /\ N[w].tried = M[w].tried
      BY <2>1, <2>5 DEF Row
  <2>7. Leaves(M, N, {w})
      BY <2>1, <2>5, <2>6 DEF Leaves, Untaken
  <2>8. Tied(M, c, X \cup {w}, Y)
      BY TiedMore
  <2>9. Tied(N, c, X \cup {w}, Y)
      BY <2>5, <2>7, <2>8, LeavesTied
  <2>10. \A m \in Mail : N[m].link \in {M[m].link, None}
      BY <2>7, <2>5, <2>8, LeavesLinks
  <2> QED
      BY <2>5, <2>6, <2>7, <2>9, <2>10 DEF Clears
<1> QED
    BY <1>1, <1>2

\* N is M with a message stored as m.
Stores(M, N, m, row) ==
    /\ N[m] = [row EXCEPT !.state = "queued"] /\ N[m].state = "queued"
    /\ N[m].link = None
    /\ \A w \in Mail \ {m} : N[w] = M[w]

\* A message is stored under an id nobody refers to.
LEMMA InsertTied ==
    ASSUME NEW M \in Table, NEW c, NEW X, NEW Y, Tied(M, c, X, Y),
           NEW m \in Mail, Unbound(M, m), M[m].state # "parked",
           NEW row \in Row, row.link = None, ~row.tried,
           m \in Resume => row.resumes # None /\ m \in Y,
           NEW N, N = Insert(M, m, row)
    PROVE  N \in Table /\ Tied(N, c, X, Y) /\ Stores(M, N, m, row)
<1> DEFINE queued == [row EXCEPT !.state = "queued"]
<1>1. /\ queued \in Row /\ queued.state = "queued" /\ queued.link = None
      /\ queued.resumes = row.resumes
    BY DEF Row
<1> HIDE DEF queued
<1>2. /\ N \in Table /\ N[m] = queued /\ \A w \in Mail \ {m} : N[w] = M[w]
    BY <1>1 DEF Insert, Table, queued
<1>3. M[m].link = None /\ \A r \in Resume : r \in Mail
    BY DEF Tied, Mail
<1>4. ASSUME NEW w \in Mail, N[w].link # None
      PROVE  N[w].state = "parked" /\ Binds(N, w, c)
  <2>1. w # m /\ N[w] = M[w] /\ M[w].state = "parked" /\ Binds(M, w, c)
      BY <1>1, <1>2, <1>4 DEF Tied
  <2>2. N[M[w].link] = M[M[w].link]
      BY <1>2, <1>3, <2>1 DEF Binds, Unbound
  <2> QED
      BY <2>1, <2>2 DEF Binds
<1>5. ASSUME NEW r \in Resume, Untaken(N[r])
      PROVE  r \in Y \/ N[N[r].resumes].link = r
  <2>1. CASE r = m
      BY <2>1
  <2>2. CASE r # m
    <3>1. N[r] = M[r] /\ (r \in Y \/ M[M[r].resumes].link = r)
        BY <1>2, <1>3, <1>5, <2>2 DEF Tied
    <3>2. M[r].resumes \in Mail
        BY <1>3, <1>5, <3>1 DEF Tied, Untaken, Table, Row
    <3>3. r # None
        BY <1>3, ParkedAssumption
    <3> QED
        BY <1>2, <1>3, <3>1, <3>2, <3>3
  <2> QED
      BY <2>1, <2>2
<1>6. /\ \A w \in Mail : N[w].state = "parked" /\ N[w].link = None => w \in X
      /\ \A r \in Resume : N[r].state # "absent" => N[r].resumes # None
    BY <1>1, <1>2, <1>3 DEF Tied
<1> QED
    BY <1>1, <1>2, <1>3, <1>4, <1>5, <1>6 DEF Tied, Stores, queued

\* N is M with w parked on r.
ParksOn(M, N, w, r) == N[w].link = r /\ \A m \in Mail \ {w} : N[m] = M[m]

\* store.park, of handled work on a resume stored for it
LEMMA ParkTied ==
    ASSUME NEW M \in Table, NEW c, NEW X, NEW Y, NEW w \in Mail, NEW r \in Resume,
           Tied(M, c, X \cup {w}, Y \cup {r}), Handled(M, w),
           Unbound(M, w), Unbound(M, r), M[w].link = None,
           M[r].state = "queued", M[r].resumes = w, M[r].to \in Session,
           c => M[r].to = M[w].by,
           NEW counted \in BOOLEAN, NEW N, N = Park(M, w, r, counted), N \in Table
    PROVE  Tied(N, c, X, Y) /\ ParksOn(M, N, w, r)
<1> DEFINE parks == IF counted THEN M[w].parks + 1 ELSE M[w].parks
           row == [M[w] EXCEPT !.state = "parked", !.link = r, !.parks = parks]
<1>1. r \in Mail /\ r # w /\ M[w] \in Row /\ r # None
    BY ParkedAssumption DEF Table, Handled, Mail
<1>2. N = [M EXCEPT ![w] = row]
    BY DEF Park
<1>3. /\ row.state = "parked" /\ row.link = r /\ row.by = M[w].by
      /\ row.resumes = M[w].resumes /\ row.tried = M[w].tried
  <2> HIDE DEF parks
  <2> QED
      BY <1>1 DEF Row
<1> HIDE DEF row
<1>4. N[w] = row /\ \A m \in Mail \ {w} : N[m] = M[m]
    BY <1>1, <1>2 DEF Table
<1>5. ASSUME NEW v \in Mail, N[v].link # None
      PROVE  N[v].state = "parked" /\ Binds(N, v, c)
  <2>1. CASE v = w
      BY <1>1, <1>3, <1>4, <2>1 DEF Binds, Serves
  <2>2. CASE v # w
    <3>1. N[v] = M[v] /\ M[v].state = "parked" /\ Binds(M, v, c)
        BY <1>4, <1>5, <2>2 DEF Tied
    <3>2. M[v].link \in Mail /\ N[M[v].link] = M[M[v].link]
        BY <1>4, <3>1 DEF Binds, Unbound, Mail
    <3> QED
        BY <3>1, <3>2 DEF Binds
  <2> QED
      BY <2>1, <2>2
<1>6. ASSUME NEW v \in Mail, N[v].state = "parked", N[v].link = None PROVE v \in X
    BY <1>1, <1>3, <1>4, <1>6 DEF Tied
<1>7. ASSUME NEW t \in Resume
      PROVE  /\ N[t].state # "absent" => N[t].resumes # None
             /\ Untaken(N[t]) => t \in Y \/ N[N[t].resumes].link = t
  <2>0. t \in Mail
      BY DEF Mail
  <2>1. N[t].resumes = M[t].resumes /\ (N[t].state # "absent" => M[t].state # "absent")
      BY <1>3, <1>4, <2>0 DEF Handled
  <2>2. ASSUME Untaken(N[t]), t \notin Y PROVE N[N[t].resumes].link = t
    <3>1. Untaken(M[t])
        BY <1>3, <1>4, <2>0, <2>2 DEF Untaken, Handled
    <3>2. CASE t = r
        BY <1>1, <1>3, <1>4, <3>2
    <3>3. CASE t # r
      <4>1. M[M[t].resumes].link = t /\ M[t].resumes \in Mail
          BY <2>0, <2>2, <3>1, <3>3 DEF Tied, Untaken, Table, Row
      <4>2. M[t].resumes # w
          BY <4>1, <2>0, ParkedAssumption
      <4> QED
          BY <1>4, <2>1, <4>1, <4>2
    <3> QED
        BY <3>2, <3>3
  <2> QED
      BY <2>1, <2>2 DEF Tied
<1> QED
    BY <1>3, <1>4, <1>5, <1>6, <1>7 DEF Tied, ParksOn

\* Work that leaves "parked" needs no exception any more.
LEMMA TiedLess ==
    ASSUME NEW M, NEW c, NEW X, NEW Y, NEW w, Tied(M, c, X \cup {w}, Y),
           M[w].state # "parked"
    PROVE  Tied(M, c, X, Y)
    BY DEF Tied

\* store.release and store.markForwarded, of handled work without a link
LEMMA HandledLeaves ==
    ASSUME NEW M \in Table, NEW c, NEW X, NEW Y, NEW w \in Mail,
           Tied(M, c, X \cup {w}, Y), Unbound(M, w), Handled(M, w),
           M[w].link = None, NEW N \in Table,
           \/ \E toTeam \in BOOLEAN : N = Release(M, w, toTeam)
           \/ \E copy \in Mail : N = MarkForwarded(M, w, copy)
    PROVE  Tied(N, c, X, Y) /\ Leaves(M, N, {w})
<1>1. M[w] \in Row
    BY DEF Table
<1>2. /\ N[w].link = None /\ N[w].resumes = M[w].resumes
      /\ N[w].state \in {"queued", "forwarded"} /\ N[w].tried = M[w].tried
      /\ \A m \in Mail \ {w} : N[m] = M[m]
  <2>1. CASE \E toTeam \in BOOLEAN : N = Release(M, w, toTeam)
    <3>1. PICK toTeam \in BOOLEAN : N = Release(M, w, toTeam)
        BY <2>1
    <3> DEFINE row == [M[w] EXCEPT !.state = "queued", !.by = None, !.link = None,
                                   !.to = IF toTeam THEN Team ELSE @]
    <3>2. N = [M EXCEPT ![w] = row]
        BY <3>1 DEF Release
    <3>3. /\ row.link = None /\ row.resumes = M[w].resumes
          /\ row.state = "queued" /\ row.tried = M[w].tried
        BY <1>1 DEF Row
    <3> HIDE DEF row
    <3> QED
        BY <3>2, <3>3 DEF Table
  <2>2. CASE \E copy \in Mail : N = MarkForwarded(M, w, copy)
    <3>1. PICK copy \in Mail : N = MarkForwarded(M, w, copy)
        BY <2>2
    <3> DEFINE row == [M[w] EXCEPT !.state = "forwarded", !.link = None,
                                   !.next = copy]
    <3>2. N = [M EXCEPT ![w] = row]
        BY <3>1 DEF MarkForwarded
    <3>3. /\ row.link = None /\ row.resumes = M[w].resumes
          /\ row.state = "forwarded" /\ row.tried = M[w].tried
        BY <1>1 DEF Row
    <3> HIDE DEF row
    <3> QED
        BY <3>2, <3>3 DEF Table
  <2> QED
      BY <2>1, <2>2
<1>3. Leaves(M, N, {w})
    BY <1>2, ParkedAssumption DEF Leaves, Untaken, Handled
<1>4. Tied(N, c, X \cup {w}, Y)
    BY <1>3, LeavesTied
<1> QED
    BY <1>2, <1>3, <1>4, TiedLess

\* LimitOutcomes.unpark of some parked works
LEMMA UnparkedTied ==
    ASSUME NEW M \in Table, NEW c, NEW X, NEW Y, Tied(M, c, X, Y), NEW works,
           \A w \in works : w \in Mail /\ M[w].state = "parked",
           NEW N \in Table, N = Unparked(M, works)
    PROVE  Tied(N, c, X, Y) /\ Leaves(M, N, works)
<1>1. \A w \in works : Unbound(M, w)
    BY PlainUnbound
<1>2. ASSUME NEW w \in works
      PROVE  /\ N[w].link = None /\ N[w].resumes = M[w].resumes
             /\ N[w].state = "delivered" /\ N[w].tried = M[w].tried
  <2>1. M[w] \in Row /\ N[w] = [M[w] EXCEPT !.state = "delivered", !.link = None]
      BY DEF Unparked, Table
  <2> QED
      BY <2>1 DEF Row
<1>3. Leaves(M, N, works)
  <2>1. ASSUME NEW m \in Mail, m \notin works
        PROVE  N[m] = IF \E w \in works : M[w].link = m
                        THEN SettleResume(M[m]) ELSE M[m]
      BY <2>1 DEF Unparked
  <2>2. ASSUME NEW m \in works
        PROVE  /\ Untaken(N[m]) => Untaken(M[m])
               /\ N[m].state # "absent" => M[m].state # "absent"
      BY <1>2, <2>2 DEF Untaken
  <2> QED
      BY <1>2, <2>1, <2>2 DEF Leaves
<1> QED
    BY <1>1, <1>2, <1>3, LeavesTied

\* ParkedCancel.cancel: of queued mail only if it is no parked work's resume
LEMMA CancelTied ==
    ASSUME NEW M \in Table, NEW c, NEW X, NEW Y, Tied(M, c, X, Y),
           NEW m \in Mail, CanCancel(M, m), NEW N \in Table, N = CancelRow(M, m)
    PROVE  Tied(N, c, X, Y) /\ Leaves(M, N, {m})
<1> DEFINE row == [M[m] EXCEPT !.state = "cancelled", !.link = None]
           gone == [M EXCEPT ![m] = row]
           r == M[m].link
<1>1. M[m] \in Row /\ Unbound(M, m)
  <2>1. CASE M[m].state = "parked"
      BY <2>1, PlainUnbound DEF Table
  <2>2. CASE M[m].state = "queued"
    <3>1. ParkedFor(M, m) = {}
        BY <2>2 DEF CanCancel, LinkedResume
    <3> QED
        BY <3>1, ParkedAssumption DEF Unbound, Tied, ParkedFor, Table
  <2> QED
      BY <2>1, <2>2 DEF CanCancel
<1>2. row.link = None /\ row.state = "cancelled" /\ row.resumes = M[m].resumes
    BY <1>1 DEF Row
<1> HIDE DEF row
<1>3. gone[m] = row /\ \A w \in Mail \ {m} : gone[w] = M[w]
    BY DEF Table
<1>4. CASE r = None
  <2>1. N = gone
      BY <1>4 DEF CancelRow, row
  <2>2. Leaves(M, N, {m})
      BY <1>2, <1>3, <1>4, <2>1, ParkedAssumption
         DEF Leaves, Untaken, CanCancel
  <2>3. N[m].state # "parked" /\ {m} \subseteq Mail
      BY <1>2, <1>3, <2>1
  <2> QED
      BY <1>1, <2>2, <2>3, LeavesTied
<1>5. CASE r # None
  <2>1. M[m].state = "parked" /\ r \in Mail /\ r # m
      BY <1>1, <1>5 DEF Tied, Unbound, Row
  <2>2. N = [gone EXCEPT ![r] = SettleResume(gone[r])]
      BY <1>5, <2>1 DEF CancelRow, row
  <2>3. N[r] = SettleResume(M[r]) /\ N[m] = row
        /\ \A w \in Mail \ {m, r} : N[w] = M[w]
    <3>1. gone = [w \in Mail |-> gone[w]]
        BY DEF Table
    <3> HIDE DEF gone, r
    <3> QED
        BY <1>3, <2>1, <2>2, <3>1
  <2>4. Leaves(M, N, {m})
      BY <1>2, <2>1, <2>3 DEF Leaves, Untaken
  <2> QED
      BY <1>1, <1>2, <2>3, <2>4, LeavesTied
<1> QED
    BY <1>4, <1>5

\* deadLetterDirectTo
LEMMA DeadLetterTied ==
    ASSUME NEW M \in Table, NEW c, NEW X, NEW Y, Tied(M, c, X, Y), NEW s,
           NEW N \in Table, N = DeadLetterDirectTo(M, s)
    PROVE  /\ Tied(N, c, X, Y)
           /\ \A m \in Mail : N[m].link = M[m].link
           /\ Spares(M, N, {})
<1>1. ASSUME NEW m \in Mail
      PROVE  /\ Lives(m, M[m], N[m])
             /\ M[m].state # "queued" => N[m] = M[m]
  <2> DEFINE dead == [M[m] EXCEPT !.state = "dead"]
  <2>1. M[m] \in Row
      BY DEF Table
  <2>2. /\ dead.state = "dead" /\ dead.link = M[m].link /\ dead.to = M[m].to
        /\ dead.resumes = M[m].resumes /\ dead.tried = M[m].tried
      BY <2>1 DEF Row
  <2>3. N[m] = IF M[m].state = "queued" /\ M[m].to = s THEN dead ELSE M[m]
      BY DEF DeadLetterDirectTo, Table
  <2> HIDE DEF dead
  <2> QED
      BY <2>2, <2>3 DEF Lives, Serves, Untaken
<1>2. Tied(N, c, X, Y)
    BY <1>1, LivesTied
<1> QED
    BY <1>1, <1>2 DEF Lives, Spares, Taken

\* An outcome for the works in W: its tables are tied, it links nothing but new
\* resumes, parks no linked resume, and spares what others have.
Orderly(o, M, c, X, Y, W) ==
    /\ Tied(o.end, c, X, Y)
    /\ \A table \in o.torn : Tied(table, c, Mail, Resume)
    /\ \A m \in Mail : o.end[m].link \in {M[m].link, None} \cup NextResume
    /\ o.parked # None => Unbound(M, o.parked) /\ o.parked \notin NextResume
    /\ Spares(M, o.end, W \cup NextResume)

\* A table as it is, but for claims that were settled
Follows(M) ==
    /\ M \in Table
    /\ \A m \in Mail :
          /\ M[m].link = mail[m].link
          /\ \/ M[m].state = mail[m].state
             \/ mail[m].state = "claimed"
                /\ M[m].state \in {"delivered", "uncertain"}

\* The id of a new resume is one nobody refers to.
LEMMA NewResume ==
    ASSUME NEW M, NEW c, NEW X, NEW Y, mail \in Table, Tied(mail, c, X, Y),
           Follows(M), NEW r \in NextResume
    PROVE  /\ r \in Resume /\ r \in Mail /\ r \notin Remembered /\ Unbound(M, r)
           /\ M[r].state \in {"absent", "cancelled", "discarded", "forwarded",
                              "delivered"}
<1>1. r \in Resume /\ Free(r)
    BY DEF NextResume
<1>2. /\ r \in Mail /\ r \notin Remembered /\ ParkedFor(mail, r) = {}
      /\ mail[r].state \in {"absent", "cancelled", "discarded", "forwarded",
                            "delivered"}
    BY <1>1 DEF Free, Spent, Mail
<1>3. Unbound(mail, r)
    BY <1>2, ParkedAssumption DEF Unbound, Tied, ParkedFor, Table
<1> QED
    BY <1>1, <1>2, <1>3 DEF Follows, Unbound

LEMMA SameOrderly ==
    ASSUME NEW M, NEW c, NEW X, NEW Y, NEW W, Tied(M, c, X, Y)
    PROVE  Orderly(Same(M), M, c, X, Y, W)
    BY DEF Same, Orderly, Spares

\* LimitOutcomes.park
LEMMA ParkingOrderly ==
    ASSUME NEW M, NEW c, NEW X, NEW Y, Good(M, FALSE), Tied(M, c, X, Y),
           NEW w \in Mail, Handled(M, w), Unbound(M, w), w \notin NextResume,
           NEW s \in Session, c => M[w].by = s,
           NEW r \in NextResume, r \in Resume, r \in Mail, Unbound(M, r),
           M[r].state # "parked", NEW counted \in BOOLEAN
    PROVE  Orderly(Parking(M, w, s, r, counted), M, c, X, Y, {w})
<1> DEFINE cleared == ReplaceResume(M, w)
           scheduled == Insert(cleared, r, ResumeFor(w, s))
           parked == Park(scheduled, w, r, counted)
<1>1. M \in Table /\ r # w /\ w # None /\ r # None
    BY ParkedAssumption DEF Good
<1>0. cleared = ReplaceResume(M, w) /\ parked = Park(scheduled, w, r, counted)
    OBVIOUS
<1> HIDE DEF cleared
<1>2. cleared \in Table /\ Tied(cleared, c, X \cup {w}, Y) /\ Clears(M, cleared, w)
    BY <1>0, <1>1, ReplaceResumeTied
<1>3. Spares(M, cleared, {w}) /\ cleared[r] = M[r]
    BY <1>1, <1>2, LeavesSpares DEF Clears, Leaves, Unbound
<1>4. Unbound(cleared, r) /\ Unbound(cleared, w)
    BY <1>1, <1>2 DEF Clears, Unbound
<1>5. /\ ResumeFor(w, s) \in Row /\ ResumeFor(w, s).link = None
      /\ ~ResumeFor(w, s).tried /\ ResumeFor(w, s).resumes = w
      /\ ResumeFor(w, s).to = s
    BY ResumeForRow DEF ResumeFor, AbsentRow
<1>6. Tied(cleared, c, X \cup {w}, Y \cup {r})
    BY <1>2, TiedMore
<1>7. /\ scheduled \in Table /\ Tied(scheduled, c, X \cup {w}, Y \cup {r})
      /\ scheduled[r] = [ResumeFor(w, s) EXCEPT !.state = "queued"]
      /\ scheduled[r].state = "queued"
      /\ scheduled[r].link = None
      /\ \A m \in Mail \ {r} : scheduled[m] = cleared[m]
    BY <1>1, <1>2, <1>3, <1>4, <1>5, <1>6, InsertTied DEF Stores
<1>8. scheduled[r].resumes = w /\ scheduled[r].to = s
  <2> DEFINE new == ResumeFor(w, s)
  <2>1. scheduled[r] = [new EXCEPT !.state = "queued"] /\ new \in Row
      BY <1>5, <1>7
  <2> HIDE DEF new
  <2>2. scheduled[r].resumes = new.resumes /\ scheduled[r].to = new.to
      BY <2>1 DEF Row
  <2> QED
      BY <1>5, <2>2 DEF new
<1>9. /\ Handled(scheduled, w) /\ scheduled[w].link = None
      /\ scheduled[w].by = M[w].by
      /\ Unbound(scheduled, r) /\ Unbound(scheduled, w)
    BY <1>1, <1>2, <1>4, <1>7 DEF Clears, Handled, Unbound
<1> HIDE DEF scheduled
<1>10. Parking(M, w, s, r, counted) =
          [end |-> parked, torn |-> {cleared, scheduled}, parked |-> w]
    BY DEF Parking, cleared, scheduled
<1>11. parked \in Table
  <2>1. Sound(Parking(M, w, s, r, counted), FALSE)
      BY ParkingSound
  <2> HIDE DEF parked
  <2> QED
      BY <1>10, <2>1 DEF Sound, Good
<1> HIDE DEF parked
<1>12. Tied(parked, c, X, Y) /\ ParksOn(scheduled, parked, w, r)
  <2>1. /\ scheduled \in Table /\ Tied(scheduled, c, X \cup {w}, Y \cup {r})
        /\ Handled(scheduled, w) /\ Unbound(scheduled, w) /\ Unbound(scheduled, r)
        /\ scheduled[w].link = None /\ scheduled[r].state = "queued"
        /\ scheduled[r].resumes = w /\ scheduled[r].to \in Session
        /\ c => scheduled[r].to = scheduled[w].by
        /\ parked = Park(scheduled, w, r, counted) /\ parked \in Table
      BY <1>0, <1>7, <1>8, <1>9, <1>11
  <2> QED
      BY <2>1, ParkTied
<1>13. Tied(cleared, c, Mail, Resume) /\ Tied(scheduled, c, Mail, Resume)
    BY <1>2, <1>7 DEF Tied
<1>14. ASSUME NEW m \in Mail
       PROVE  parked[m].link \in {M[m].link, None} \cup NextResume
    BY <1>2, <1>7, <1>12 DEF Clears, ParksOn
<1>15. Spares(M, parked, {w} \cup NextResume)
    BY <1>3, <1>7, <1>12 DEF Spares, ParksOn
<1> QED
    BY <1>10, <1>12, <1>13, <1>14, <1>15 DEF Orderly

\* LimitOutcomes.release
LEMMA ReleasingOrderly ==
    ASSUME NEW M, NEW c, NEW X, NEW Y, Good(M, FALSE), Tied(M, c, X, Y),
           NEW w \in Mail, Handled(M, w), Unbound(M, w), NEW toTeam \in BOOLEAN
    PROVE  Orderly(Releasing(M, w, toTeam), M, c, X, Y, {w})
<1> DEFINE cleared == ReplaceResume(M, w)
           released == Release(cleared, w, toTeam)
<1>1. M \in Table /\ cleared = ReplaceResume(M, w)
    BY DEF Good
<1> HIDE DEF cleared
<1>2. cleared \in Table /\ Tied(cleared, c, X \cup {w}, Y) /\ Clears(M, cleared, w)
    BY <1>1, ReplaceResumeTied
<1>3. Spares(M, cleared, {w}) /\ Good(cleared, FALSE)
    BY <1>1, <1>2, LeavesSpares, ReplaceResumeGood DEF Clears
<1>4. Unbound(cleared, w) /\ Handled(cleared, w)
    BY <1>2, ParkedAssumption DEF Clears, Unbound, Handled
<1>5. released \in Table /\ released = Release(cleared, w, toTeam)
    BY <1>3, ReleaseGood DEF Good
<1> HIDE DEF released
<1>6. /\ Tied(released, c, X, Y) /\ Leaves(cleared, released, {w})
    BY <1>2, <1>4, <1>5, HandledLeaves DEF Clears
<1>7. Spares(cleared, released, {w})
    BY <1>6, LeavesSpares
<1>8. \A m \in Mail : released[m].link \in {cleared[m].link, None}
    BY <1>2, <1>5, <1>6, LeavesLinks
<1>9. Releasing(M, w, toTeam) =
          [end |-> released, torn |-> {cleared}, parked |-> None]
    BY DEF Releasing, cleared, released
<1>10. Tied(cleared, c, Mail, Resume)
    BY <1>2 DEF Tied
<1>11. Spares(M, released, {w} \cup NextResume)
    BY <1>3, <1>7 DEF Spares
<1>12. \A m \in Mail : released[m].link \in {M[m].link, None} \cup NextResume
    BY <1>2, <1>8 DEF Clears
<1> QED
    BY <1>6, <1>9, <1>10, <1>11, <1>12 DEF Orderly

\* N is M with w handed on, in the name of its agent.
Passes(M, N, w) ==
    N[w].state = "forwarded" /\ N[w].by = M[w].by /\ Spares(M, N, {w})

\* LimitOutcomes.forward, to a copy stored under a new id
LEMMA ForwardingOrderly ==
    ASSUME NEW M, NEW c, NEW X, NEW Y, Good(M, FALSE), Tied(M, c, X, Y),
           NEW w \in Mail, Handled(M, w), Unbound(M, w),
           NEW m \in Copy, M[m].state = "absent",
           NEW s \in Session \cup {None}, NEW to \in Session \cup {Team}
    PROVE  /\ Orderly(Forwarding(M, w, s, to, m), M, c, X, Y, {w})
           /\ Passes(M, Forwarding(M, w, s, to, m).end, w)
<1> DEFINE copy == CopyFor(M[w], to, s)
           copied == Insert(M, m, copy)
           cleared == ReplaceResume(copied, w)
           marked == MarkForwarded(cleared, w, m)
<1>1. /\ M \in Table /\ M[w] \in Row /\ m \in Mail /\ m \notin Resume
      /\ m # w
    BY ParkedAssumption DEF Good, Table, Handled, Mail
<1>2. Forwarding(M, w, s, to, m) =
          [end |-> marked, torn |-> {copied, cleared}, parked |-> None]
    BY DEF Forwarding
<1>3. marked \in Table
  <2>1. Sound(Forwarding(M, w, s, to, m), FALSE)
      BY <1>1, ForwardingSound
  <2> HIDE DEF marked, copied, cleared
  <2> QED
      BY <1>2, <2>1 DEF Sound, Good
<1>4. copy \in Row /\ copy.link = None /\ ~copy.tried
    BY <1>1, CopyForRow DEF CopyFor, AbsentRow
<1> HIDE DEF copy
<1>5. Unbound(M, m)
    BY <1>1, PlainUnbound
<1>6. /\ copied \in Table /\ Tied(copied, c, X, Y)
      /\ copied[m].link = None
      /\ \A v \in Mail \ {m} : copied[v] = M[v]
  <2>1. copied = Insert(M, m, copy) /\ M[m].state # "parked"
      BY <1>1
  <2> HIDE DEF copied
  <2>2. copied \in Table /\ Tied(copied, c, X, Y) /\ Stores(M, copied, m, copy)
      BY <1>1, <1>4, <1>5, <2>1, InsertTied
  <2> QED
      BY <2>2 DEF Stores
<1>7. /\ cleared = ReplaceResume(copied, w)
      /\ marked = MarkForwarded(cleared, w, m)
    OBVIOUS
<1> HIDE DEF copied, cleared, marked
<1>8. /\ Unbound(copied, w) /\ Handled(copied, w) /\ copied[w] = M[w]
      /\ \A v \in Mail : copied[v].link \in {M[v].link, None}
    BY <1>1, <1>6, ParkedAssumption DEF Unbound, Handled
<1>9. cleared \in Table /\ Tied(cleared, c, X \cup {w}, Y) /\ Clears(copied, cleared, w)
    BY <1>6, <1>7, <1>8, ReplaceResumeTied
<1>10. /\ Unbound(cleared, w) /\ Handled(cleared, w)
       /\ cleared[w].link = None /\ cleared[w].by = M[w].by
    BY <1>8, <1>9, ParkedAssumption DEF Clears, Unbound, Handled
<1>11. /\ Tied(marked, c, X, Y) /\ Leaves(cleared, marked, {w})
    BY <1>1, <1>3, <1>7, <1>9, <1>10, HandledLeaves
<1>12. marked[w].state = "forwarded" /\ marked[w].by = M[w].by
  <2> DEFINE row == [cleared[w] EXCEPT !.state = "forwarded", !.link = None,
                                       !.next = m]
  <2>1. marked = [cleared EXCEPT ![w] = row]
      BY <1>7, <1>10 DEF MarkForwarded
  <2>2. row.state = "forwarded" /\ row.by = cleared[w].by
      BY <1>9 DEF Table, Row
  <2> HIDE DEF row
  <2> QED
      BY <1>9, <1>10, <2>1, <2>2 DEF Table
<1>13. Spares(M, marked, {w})
  <2>1. Spares(copied, cleared, {w}) /\ Spares(cleared, marked, {w})
      BY <1>9, <1>11, LeavesSpares DEF Clears
  <2> QED
      BY <1>6, <2>1 DEF Spares, Taken
<1>14. \A v \in Mail : marked[v].link \in {M[v].link, None} \cup NextResume
  <2>1. \A v \in Mail : marked[v].link \in {cleared[v].link, None}
      BY <1>3, <1>9, <1>11, LeavesLinks
  <2> QED
      BY <1>8, <1>9, <2>1 DEF Clears
<1>15. Tied(copied, c, Mail, Resume) /\ Tied(cleared, c, Mail, Resume)
    BY <1>6, <1>9 DEF Tied
<1>16. Spares(M, marked, {w} \cup NextResume)
    BY <1>13 DEF Spares
<1> QED
    BY <1>2, <1>11, <1>12, <1>13, <1>14, <1>15, <1>16 DEF Orderly, Passes

\* LimitOutcomes.unpark
LEMMA UnparkingOrderly ==
    ASSUME NEW M, NEW c, NEW X, NEW Y, Good(M, FALSE), Tied(M, c, X, Y), NEW works,
           \A w \in works : w \in Mail /\ M[w].state = "parked"
    PROVE  Orderly(Unparking(M, works), M, c, X, Y, works)
<1>1. M \in Table
    BY DEF Good
<1>2. ASSUME NEW done \in SUBSET works
      PROVE  /\ Unparked(M, done) \in Table /\ Tied(Unparked(M, done), c, X, Y)
             /\ Leaves(M, Unparked(M, done), done)
             /\ \A m \in Mail : Unparked(M, done)[m].link \in {M[m].link, None}
  <2> DEFINE N == Unparked(M, done)
  <2>1. N \in Table
      BY UnparkedGood DEF Good
  <2>2. N = Unparked(M, done)
      OBVIOUS
  <2> HIDE DEF N
  <2>3. \A w \in done : w \in Mail /\ M[w].state = "parked"
      BY <1>2
  <2>4. Tied(N, c, X, Y) /\ Leaves(M, N, done)
      BY <1>1, <2>1, <2>2, <2>3, UnparkedTied
  <2>5. \A m \in Mail : N[m].link \in {M[m].link, None}
      BY <1>1, <2>1, <2>3, <2>4, LeavesLinks
  <2> QED
      BY <2>1, <2>2, <2>4, <2>5
<1>3. ASSUME NEW done \in SUBSET works, NEW w \in works
      PROVE  Tied(ReplaceResume(Unparked(M, done), w), c, Mail, Resume)
  <2> DEFINE N == Unparked(M, done)
             R == ReplaceResume(N, w)
  <2>1. /\ N \in Table /\ Tied(N, c, X, Y)
        /\ \A m \in Mail : N[m].link \in {M[m].link, None}
      BY <1>2, <1>3
  <2>2. R = ReplaceResume(N, w)
      OBVIOUS
  <2> HIDE DEF N, R
  <2>3. w \in Mail /\ Unbound(M, w)
      BY <1>1, PlainUnbound
  <2>4. Unbound(N, w)
      BY <2>1, <2>3, ParkedAssumption DEF Unbound
  <2>5. Tied(R, c, X \cup {w}, Y)
      BY <2>1, <2>2, <2>3, <2>4, ReplaceResumeTied
  <2>6. Tied(R, c, Mail, Resume)
      BY <2>3, <2>5 DEF Tied
  <2> QED
      BY <2>6 DEF R, N
<1>4. \A done \in SUBSET works : Tied(Unparked(M, done), c, Mail, Resume)
    BY <1>2 DEF Tied
<1>5. \A table \in Unparking(M, works).torn : Tied(table, c, Mail, Resume)
    BY <1>3, <1>4 DEF Unparking
<1>6. Spares(M, Unparked(M, works), works)
    BY <1>2, LeavesSpares
<1>7. Spares(M, Unparked(M, works), works \cup NextResume)
    BY <1>6 DEF Spares
<1>8. /\ Unparking(M, works).end = Unparked(M, works)
      /\ Unparking(M, works).parked = None
    BY DEF Unparking
<1> QED
    BY <1>2, <1>5, <1>7, <1>8 DEF Orderly

\* LimitOutcomes.resolve, of work that is no linked resume
LEMMA ResolvingOrderly ==
    ASSUME TypeOK, NEW M, NEW c, NEW X, NEW Y, Good(M, FALSE), Follows(M),
           mail \in Table, Tied(mail, c, X, Y), Tied(M, c, X, Y),
           NEW q \in Question, Unbound(M, q.work), q.work \notin NextResume,
           c => M[q.work].by = q.who, NEW o \in Resolving(M, q)
    PROVE  Orderly(o, M, c, X, Y, {q.work})
<1>0. /\ q.work \in Mail /\ q.who \in Session /\ q.parks \in Nat
      /\ q.toTeam \in BOOLEAN
    BY DEF Question
<1>1. CASE o = Same(M)
    BY <1>1, SameOrderly
<1>2. CASE Handled(M, q.work) /\ o = Releasing(M, q.work, q.toTeam)
    BY <1>0, <1>2, ReleasingOrderly
<1>3. ASSUME Handled(M, q.work), o \in Parks(M, q)
      PROVE  Orderly(o, M, c, X, Y, {q.work})
  <2>1. PICK r \in NextResume : o = Parking(M, q.work, q.who, r, TRUE)
      BY <1>3 DEF Parks
  <2>2. /\ r \in Resume /\ r \in Mail /\ Unbound(M, r)
        /\ M[r].state # "parked"
      BY NewResume
  <2> QED
      BY <1>0, <1>3, <2>1, <2>2, ParkingOrderly
<1>4. ASSUME Handled(M, q.work), o \in Forwards(M, q)
      PROVE  Orderly(o, M, c, X, Y, {q.work})
  <2>1. PICK to \in Targets(q.who), m \in Unsent(Copy) :
            o = Forwarding(M, q.work, q.who, to, m)
      BY <1>4 DEF Forwards
  <2>2. m \in Copy /\ to \in Session \cup {Team} /\ M[m].state = "absent"
      BY DEF Unsent, Mail, Targets, TypeOK, Follows
  <2> QED
      BY <1>0, <1>4, <2>1, <2>2, ForwardingOrderly
<1> QED
    BY <1>1, <1>2, <1>3, <1>4 DEF Resolving

\* Nothing links what a turn works on, or what is remembered otherwise.
Fresh == \A w \in Mail : mail[w].link # None => mail[w].link \notin Remembered

\* Work that is remembered, parked or no resume is nobody's resume.
LEMMA WorkUnbound ==
    ASSUME NEW M, NEW c, NEW X, NEW Y, mail \in Table, Tied(mail, c, X, Y), Fresh,
           Follows(M), NEW w \in Mail,
           w \in Remembered \/ w \notin Resume \/ M[w].state = "parked"
    PROVE  Unbound(M, w) /\ w \notin NextResume
<1>1. w \notin NextResume
    BY NewResume DEF NextResume
<1>2. Unbound(mail, w)
  <2>1. CASE w \in Remembered
      BY <2>1, ParkedAssumption DEF Fresh, Unbound
  <2>2. CASE w \notin Resume \/ mail[w].state = "parked"
      BY <2>2, PlainUnbound
  <2> QED
      BY <2>1, <2>2 DEF Follows
<1> QED
    BY <1>1, <1>2 DEF Follows, Unbound

LEMMA OrderlyMore ==
    ASSUME NEW o, NEW M, NEW c, NEW X, NEW Y, NEW W, NEW V, Orderly(o, M, c, X, Y, W),
           W \subseteq V
    PROVE  Orderly(o, M, c, X, Y, V)
    BY DEF Orderly, Spares

\* What an outcome of s may change, where turns own their work
Own(M, s, c) == {m \in Mail : c => M[m].by = s}

\* LimitOutcomes.parkCurrent
LEMMA ParkingCurrentOrderly ==
    ASSUME TypeOK, NEW M, NEW c, NEW X, NEW Y, Good(M, FALSE), Follows(M), Fresh,
           mail \in Table, Tied(mail, c, X, Y), Tied(M, c, X, Y),
           NEW s \in Session, NEW o \in ParkingCurrent(M, s)
    PROVE  Orderly(o, M, c, X, Y, Own(M, s, c))
<1>1. PICK r \in NextResume, w \in CurrentWork(M, s) :
          o = Parking(M, w, s, r, M[w].state # "parked")
    BY DEF ParkingCurrent
<1>2. /\ w \in Mail /\ Handled(M, w) /\ M[w].by = s
      /\ w = last[s] \/ M[w].state = "parked" \/ M[w].resumes = None
    BY DEF CurrentWork, Held, ParkedBy, Good, Table, Handled
<1>3. w \in Remembered \/ w \notin Resume \/ M[w].state = "parked"
  <2>1. CASE w = last[s]
      BY <2>1 DEF Remembered
  <2>2. CASE M[w].resumes = None
      BY <1>2, <2>2 DEF Tied, Handled
  <2> QED
      BY <1>2, <2>1, <2>2
<1>4. Unbound(M, w) /\ w \notin NextResume
    BY <1>2, <1>3, WorkUnbound
<1>5. r \in Resume /\ r \in Mail /\ Unbound(M, r) /\ M[r].state # "parked"
    BY NewResume
<1>6. (M[w].state # "parked") \in BOOLEAN
    OBVIOUS
<1>7. Orderly(o, M, c, X, Y, {w})
    BY <1>1, <1>2, <1>4, <1>5, <1>6, ParkingOrderly
<1> QED
    BY <1>2, <1>7, OrderlyMore DEF Own

\* LimitOutcomes.turnEnded: an outcome of s leaves the table tied, and changes
\* work in the name of s.
LEMMA OutcomesOrderly ==
    ASSUME TypeOK, NEW M, NEW c, NEW X, NEW Y, Good(M, FALSE), Follows(M), Fresh,
           mail \in Table, Tied(mail, c, X, Y), Tied(M, c, X, Y),
           NEW s \in Session, c /\ Working(s) => M[turn[s]].by = s,
           NEW ending \in Ending, NEW o \in Outcomes(M, s, ending)
    PROVE  Orderly(o, M, c, X, Y, Own(M, s, c))
<1>1. CASE o = Same(M)
    BY <1>1, SameOrderly
<1>2. CASE o = Unparking(M, Completed(M, s))
  <2>1. \A w \in Completed(M, s) :
            w \in Mail /\ M[w].state = "parked" /\ M[w].by = s
      BY DEF Completed, ParkedBy, Good, Table
  <2>2. Orderly(o, M, c, X, Y, Completed(M, s))
      BY <1>2, <2>1, UnparkingOrderly
  <2> QED
      BY <2>1, <2>2, OrderlyMore DEF Own
<1>3. ASSUME NEW credit \in BOOLEAN, o \in AfterLimit(M, s, credit)
      PROVE  Orderly(o, M, c, X, Y, Own(M, s, c))
  <2>1. CASE o \in ParkingCurrent(M, s)
      BY <2>1, ParkingCurrentOrderly
  <2>2. ASSUME Working(s), o \in Resolving(M, QuestionOn(M, turn[s], s, credit))
        PROVE  Orderly(o, M, c, X, Y, Own(M, s, c))
    <3>1. turn[s] \in Mail /\ (turn[s] \in Remembered \/ turn[s] \notin Resume)
        BY <2>2 DEF Working, Remembered
    <3> DEFINE q == QuestionOn(M, turn[s], s, credit)
    <3>2. q \in Question /\ q.work = turn[s] /\ q.who = s
        BY <3>1, QuestionOnTyped DEF QuestionOn
    <3>3. o \in Resolving(M, q)
        BY <2>2
    <3> HIDE DEF q
    <3>4. Unbound(M, q.work) /\ q.work \notin NextResume
        BY <3>1, <3>2, WorkUnbound
    <3>5. Orderly(o, M, c, X, Y, {q.work})
        BY <2>2, <3>2, <3>3, <3>4, ResolvingOrderly
    <3> QED
        BY <2>2, <3>1, <3>2, <3>5, OrderlyMore DEF Own
  <2> QED
      BY <1>1, <1>3, <2>1, <2>2 DEF AfterLimit
<1> QED
    BY <1>1, <1>2, <1>3 DEF Outcomes, Ending

\* Claims settled at a turn's end: the table follows, and stays tied.
LEMMA SettledTied ==
    ASSUME mail \in Table, NEW c, NEW X, NEW Y, Tied(mail, c, X, Y), NEW s,
           NEW M \in Settled(s), M \in Table
    PROVE  /\ Follows(M) /\ Tied(M, c, X, Y)
           /\ \A m \in Mail : /\ M[m].by = mail[m].by
                              /\ mail[m].by # s => M[m] = mail[m]
<1> DEFINE claims == {m \in Mail : mail[m].state = "claimed" /\ mail[m].by = s}
           ended(m, to) == [mail[m] EXCEPT !.state = to]
<1>1. PICK end \in [claims -> {"delivered", "uncertain"}] :
          M = [m \in Mail |-> IF m \in claims THEN ended(m, end[m]) ELSE mail[m]]
    BY DEF Settled
<1>2. ASSUME NEW m \in Mail, NEW to \in {"delivered", "uncertain"}
      PROVE  /\ ended(m, to).state = to /\ ended(m, to).link = mail[m].link
             /\ ended(m, to).by = mail[m].by /\ ended(m, to).to = mail[m].to
             /\ ended(m, to).resumes = mail[m].resumes
             /\ ended(m, to).tried = mail[m].tried
  <2>1. mail[m] \in Row
      BY DEF Table
  <2> QED
      BY <1>2, <2>1 DEF Row
<1> HIDE DEF ended
<1>3. ASSUME NEW m \in Mail
      PROVE  \/ M[m] = mail[m]
             \/ /\ mail[m].state = "claimed" /\ mail[m].by = s
                /\ \E to \in {"delivered", "uncertain"} : M[m] = ended(m, to)
    BY <1>1
<1> HIDE DEF claims
<1>4. \A m \in Mail : Lives(m, mail[m], M[m])
    BY <1>2, <1>3 DEF Lives, Serves, Untaken
<1>5. Tied(M, c, X, Y)
    BY <1>4, LivesTied
<1>6. Follows(M)
    BY <1>2, <1>3 DEF Follows
<1> QED
    BY <1>2, <1>3, <1>5, <1>6

-----------------------------------------------------------------------------
(***************************************************************************)
(* The invariant about links, and its steps                                *)
(***************************************************************************)
\* A turn's work is in its agent's name, and parked only on a resume that is
\* running, so that it cannot be cancelled meanwhile.
Owns(s) ==
    Working(s) =>
        LET row == mail[turn[s]] IN
        /\ row.by = s
        /\ row.state \in {"claimed", "delivered", "parked", "forwarded"}
        /\ row.state = "parked" =>
              row.link # None /\ mail[row.link].state \in {"claimed", "delivered"}

\* A stop leaves parked work without a link, and resumes nothing links.
Loose == IF crashes = 0 THEN {} ELSE Mail
Stray == IF crashes = 0 THEN {} ELSE Resume

Links ==
    /\ Tied(mail, ~ruled, Loose, Stray) /\ Fresh
    /\ ~ruled => \A s \in Session : Owns(s)

LInv == Inv /\ Links

LEMMA LinksInit == Init => Links
<1> SUFFICES ASSUME Init PROVE Links
    OBVIOUS
<1>1. \A m \in Mail : mail[m] = AbsentRow
    BY DEF Init
<1>2. /\ AbsentRow.state = "absent" /\ AbsentRow.link = None
    BY DEF AbsentRow
<1>3. Tied(mail, ~ruled, Loose, Stray)
    BY <1>1, <1>2 DEF Tied, Untaken, Mail
<1>4. Fresh
    BY <1>1, <1>2 DEF Fresh
<1>5. \A s \in Session : ~Working(s)
    BY ParkedAssumption DEF Init, Working
<1> QED
    BY <1>3, <1>4, <1>5 DEF Links, Owns

\* Without a stop the exceptions stay what they were.
LEMMA LinksNext ==
    ASSUME ruled' = ruled, crashes' = crashes,
           Tied(mail', ~ruled, Loose, Stray), Fresh',
           ~ruled => \A s \in Session : Owns(s)'
    PROVE  Links'
    BY DEF Links, Tied, Binds, Loose, Stray

\* No link is new, and nothing is remembered anew.
LEMMA FreshLess ==
    ASSUME Fresh, \A w \in Mail : mail'[w].link \in {mail[w].link, None},
           \A m \in Resume : m \in Remembered' => m \in Remembered
    PROVE  Fresh'
    BY DEF Fresh, Remembered

\* What a turn holds on to: its work, and the resume it runs for
Holds(s) == {turn[s], mail[turn[s]].link} \cap Mail

LEMMA HeldRows ==
    ASSUME LInv, ~ruled, NEW s \in Session, Working(s), NEW m \in Holds(s)
    PROVE  /\ m \in Mail /\ mail[m].by = s /\ mail[m].state \in Taken \ {"uncertain"}
           /\ m \notin NextResume
<1>1. /\ Tied(mail, ~ruled, Loose, Stray) /\ Fresh /\ Owns(s)
      /\ mail \in Table
    BY InvTyped DEF LInv, Links
<1>2. turn[s] \in Mail /\ (turn[s] \in Remembered \/ turn[s] \notin Resume)
    BY DEF Working, Remembered
<1>3. Follows(mail)
    BY <1>1 DEF Follows
<1>4. turn[s] \notin NextResume
    BY <1>1, <1>2, <1>3, WorkUnbound
<1>5. CASE m = turn[s]
    BY <1>1, <1>2, <1>4, <1>5 DEF Owns, Taken
<1>6. CASE m # turn[s]
  <2>1. /\ m \in Mail /\ m = mail[turn[s]].link /\ m # None
      BY <1>6, ParkedAssumption DEF Holds
  <2>2. mail[turn[s]].state = "parked" /\ Binds(mail, turn[s], TRUE)
      BY <1>1, <1>2, <2>1 DEF Tied, Binds
  <2>3. mail[m].state \in {"claimed", "delivered"} /\ mail[turn[s]].by = s
      BY <1>1, <2>1, <2>2 DEF Owns
  <2>4. mail[m].by = s
      BY <2>1, <2>2, <2>3 DEF Binds, Serves
  <2>5. m \notin NextResume
      BY <1>1, <1>2, <1>3, <2>1, NewResume DEF Unbound
  <2> QED
      BY <2>1, <2>3, <2>4, <2>5 DEF Taken
<1> QED
    BY <1>5, <1>6

\* A turn that goes on, with the rows it holds on to, owns its work.
LEMMA OwnsStays ==
    ASSUME LInv, ~ruled, NEW s \in Session, turn'[s] = turn[s],
           \A m \in Mail : /\ mail[m].by = s /\ m \notin NextResume
                           /\ mail[m].state \in Taken \ {"uncertain"}
                           => mail'[m] = mail[m]
    PROVE  Owns(s)'
<1> SUFFICES ASSUME Working(s) PROVE Owns(s)'
    BY DEF Owns, Working
<1>1. Owns(s) /\ turn[s] \in Mail /\ mail \in Table
    BY InvTyped DEF LInv, Links, Working
<1>2. \A m \in Holds(s) : mail'[m] = mail[m]
    BY HeldRows
<1>3. mail'[turn[s]] = mail[turn[s]]
    BY <1>1, <1>2 DEF Holds
<1>4. ASSUME mail[turn[s]].state = "parked"
      PROVE  mail'[mail[turn[s]].link] = mail[mail[turn[s]].link]
  <2>1. mail[turn[s]].link \in Mail
      BY <1>1, <1>4 DEF Owns, Table, Row
  <2> QED
      BY <1>2, <2>1 DEF Holds
<1> QED
    BY <1>1, <1>3, <1>4 DEF Owns

LEMMA IdleOwns ==
    ASSUME NEW s \in Session, turn'[s] \in {"idle", "human", "agent"}
    PROVE  Owns(s)'
    BY ParkedAssumption DEF Owns, Working

LEMMA SendLinks ==
    ASSUME LInv, Inv', NEW to \in Session \cup {Team}, Send(to)
    PROVE  Links'
<1> DEFINE row == [AbsentRow EXCEPT !.to = to]
<1>1. PICK m \in Unsent(Work) : mail' = Insert(mail, m, row)
    BY DEF Send
<1>2. /\ mail \in Table /\ Tied(mail, ~ruled, Loose, Stray) /\ Fresh
    BY InvTyped DEF LInv, Links
<1>3. m \in Mail /\ m \notin Resume /\ mail[m].state = "absent"
    BY ParkedAssumption DEF Unsent, Mail
<1>4. row \in Row /\ row.link = None /\ ~row.tried
    BY DEF AbsentRow, Row
<1> HIDE DEF row
<1>5. Unbound(mail, m) /\ mail[m].state # "parked"
    BY <1>2, <1>3, PlainUnbound
<1>6. Tied(mail', ~ruled, Loose, Stray) /\ Stores(mail, mail', m, row)
    BY <1>1, <1>2, <1>3, <1>4, <1>5, InsertTied
<1>7. /\ \A w \in Mail : mail'[w].link \in {mail[w].link, None}
      /\ \A w \in Mail : mail[w].state # "absent" => mail'[w] = mail[w]
    BY <1>3, <1>6 DEF Stores
<1>8. Fresh'
    BY <1>2, <1>7, FreshLess DEF Send, agents, Remembered
<1>9. ASSUME ~ruled, NEW s \in Session PROVE Owns(s)'
    BY <1>7, <1>9, OwnsStays DEF Send, agents, Taken
<1> QED
    BY <1>6, <1>8, <1>9, LinksNext DEF Send, bounds

LEMMA DeliverLinks ==
    ASSUME LInv, Inv', NEW m \in Mail, NEW s \in Session, Deliver(m, s)
    PROVE  Links'
<1> DEFINE row == [mail[m] EXCEPT !.state = "claimed", !.by = s,
                                  !.tried = @ \/ m \in Resume]
           w == WorkOf(m)
<1>1. /\ mail \in Table /\ mail' \in Table /\ mail[m] \in Row
      /\ Tied(mail, ~ruled, Loose, Stray) /\ Fresh
    BY InvTyped DEF LInv, Links, Table, Inv, Good
<1>2. /\ row.state = "claimed" /\ row.by = s /\ row.link = mail[m].link
      /\ row.to = mail[m].to /\ row.resumes = mail[m].resumes
      /\ m \in Resume => row.tried
    BY <1>1 DEF Row
<1>3. mail' = [mail EXCEPT ![m] = row]
    BY DEF Deliver
<1> HIDE DEF row
<1>4. mail'[m] = row /\ \A v \in Mail \ {m} : mail'[v] = mail[v]
    BY <1>1, <1>3 DEF Table
<1>5. /\ mail[m].state = "queued" /\ s # None /\ s # Team
      /\ mail[m].to = s \/ mail[m].to = Team
    BY ParkedAssumption DEF Deliver, MayTake
<1>6. \A v \in Mail : Lives(v, mail[v], mail'[v])
    BY <1>2, <1>4, <1>5, ParkedAssumption DEF Lives, Serves, Untaken
<1>7. Tied(mail', ~ruled, Loose, Stray)
    BY <1>1, <1>6, LivesTied
<1>8. /\ w \in Mail /\ Unbound(mail, w)
      /\ \/ w = m
         \/ w # m /\ mail[w].state = "parked" /\ mail[w].link = m
  <2>1. CASE ParkedFor(mail, m) = {}
      BY <1>1, <2>1, ParkedAssumption DEF WorkOf, Unbound, Tied, ParkedFor, Table
  <2>2. CASE ParkedFor(mail, m) # {}
    <3>1. w \in ParkedFor(mail, m)
        BY <2>2 DEF WorkOf
    <3>2. w \in Mail /\ mail[w].state = "parked" /\ mail[w].link = m
        BY <1>1, <3>1 DEF ParkedFor, Table
    <3>3. Unbound(mail, w)
        BY <1>1, <3>2, PlainUnbound
    <3> QED
        BY <1>5, <3>2, <3>3
  <2> QED
      BY <2>1, <2>2
<1>9. /\ turn' = [turn EXCEPT ![s] = w] /\ last' = [last EXCEPT ![s] = w]
      /\ asked' = asked /\ ruled' = ruled /\ crashes' = crashes
    BY DEF Deliver, bounds
<1>10. Fresh'
  <2>1. \A v \in Mail : mail'[v].link = mail[v].link
      BY <1>2, <1>4
  <2>2. \A n \in Resume : n \in Remembered' => n \in Remembered \/ n = w
      BY <1>9 DEF Remembered, LInv, Inv, Others
  <2>3. \A v \in Mail : mail[v].link # w
      BY <1>8 DEF Unbound
  <2> HIDE DEF w
  <2> QED
      BY <1>1, <2>1, <2>2, <2>3 DEF Fresh, Remembered
<1>11. ASSUME ~ruled, NEW o \in Session PROVE Owns(o)'
  <2>1. turn' = [turn EXCEPT ![s] = w] /\ turn \in [Session -> Mail \cup {"idle", "human", "agent"}]
      BY <1>9 DEF LInv, Inv, Others
  <2>2. CASE o # s
    <3>1. turn'[o] = turn[o]
        BY <2>1, <2>2
    <3> QED
        BY <1>4, <1>5, <1>11, <3>1, OwnsStays DEF Taken
  <2>3. CASE o = s /\ w = m
      BY <1>2, <1>4, <2>1, <2>3 DEF Owns
  <2>4. CASE o = s /\ w # m
    <3>1. mail[w].state = "parked" /\ mail[w].link = m /\ mail'[w] = mail[w]
        BY <1>4, <1>8, <2>4
    <3>2. Binds(mail, w, TRUE)
        BY <1>1, <1>8, <1>11, <2>4, <3>1, ParkedAssumption DEF Tied, Binds
    <3>3. mail[w].by = s /\ m # None
        BY <1>5, <3>1, <3>2, ParkedAssumption DEF Binds, Serves
    <3>4. turn'[o] = w
        BY <2>1, <2>4
    <3> HIDE DEF w
    <3> QED
        BY <1>2, <1>4, <2>4, <3>1, <3>3, <3>4 DEF Owns
  <2> QED
      BY <1>8, <2>2, <2>3, <2>4
<1> QED
    BY <1>7, <1>9, <1>10, <1>11, LinksNext

LEMMA ReceiptLinks ==
    ASSUME LInv, Inv', NEW m \in Mail, Receipt(m)
    PROVE  Links'
<1> DEFINE row == [mail[m] EXCEPT !.state = "delivered"]
<1>1. /\ mail \in Table /\ mail' \in Table /\ mail[m] \in Row
      /\ Tied(mail, ~ruled, Loose, Stray) /\ Fresh
    BY InvTyped DEF LInv, Links, Table, Inv, Good
<1>2. /\ row.state = "delivered" /\ row.by = mail[m].by /\ row.link = mail[m].link
      /\ row.to = mail[m].to /\ row.resumes = mail[m].resumes
      /\ row.tried = mail[m].tried
    BY <1>1 DEF Row
<1>3. mail' = [mail EXCEPT ![m] = row] /\ mail[m].state \in {"claimed", "uncertain"}
    BY DEF Receipt
<1> HIDE DEF row
<1>4. mail'[m] = row /\ \A v \in Mail \ {m} : mail'[v] = mail[v]
    BY <1>1, <1>3 DEF Table
<1>5. \A v \in Mail : Lives(v, mail[v], mail'[v])
    BY <1>2, <1>3, <1>4 DEF Lives, Serves, Untaken
<1>6. Tied(mail', ~ruled, Loose, Stray)
    BY <1>1, <1>5, LivesTied
<1>7. Fresh'
    BY <1>1, <1>5, FreshLess DEF Receipt, agents, Remembered, Lives
<1>8. ASSUME ~ruled, NEW s \in Session PROVE Owns(s)'
  <2> SUFFICES ASSUME Working(s) PROVE Owns(s)'
      BY DEF Owns, Working, Receipt, agents
  <2>1. /\ Owns(s) /\ turn[s] \in Mail /\ turn'[s] = turn[s]
      BY <1>8 DEF LInv, Links, Working, Receipt, agents
  <2>2. mail[turn[s]].state = "parked" => mail[turn[s]].link \in Mail
      BY <1>1, <2>1 DEF Owns, Table, Row
  <2> QED
      BY <1>2, <1>3, <1>4, <2>1, <2>2 DEF Owns
<1> QED
    BY <1>6, <1>7, <1>8, LinksNext DEF Receipt, bounds

\* A turn begins, or is stopped, without any mail.
LEMMA TurnLinks ==
    ASSUME LInv, Inv', NEW s \in Session, NEW kind \in {"idle", "human", "agent"},
           turn' = [turn EXCEPT ![s] = kind], UNCHANGED <<mail, last, asked, bounds>>
    PROVE  Links'
<1>1. /\ Tied(mail, ~ruled, Loose, Stray) /\ Fresh
      /\ turn \in [Session -> Mail \cup {"idle", "human", "agent"}]
    BY DEF LInv, Links, Inv, Others
<1>2. Tied(mail', ~ruled, Loose, Stray)
    BY <1>1
<1>3. \A m \in Resume : m \in Remembered' => m \in Remembered
    BY <1>1, ParkedAssumption DEF Remembered, Mail
<1>4. Fresh'
    BY <1>1, <1>3, FreshLess
<1>5. ASSUME ~ruled, NEW o \in Session PROVE Owns(o)'
  <2>1. CASE o = s
      BY <1>1, <2>1, IdleOwns
  <2>2. CASE o # s
      BY <1>1, <1>5, <2>2, OwnsStays
  <2> QED
      BY <2>1, <2>2
<1> QED
    BY <1>2, <1>4, <1>5, LinksNext DEF bounds

\* What an outcome links is new, and what it parks nobody links.
LEMMA FreshTakes ==
    ASSUME mail \in Table, Fresh, NEW M, NEW c, NEW X, NEW Y, NEW W, Follows(M),
           Tied(mail, c, X, Y), NEW o, Orderly(o, M, c, X, Y, W), mail' = o.end,
           \A n \in Resume : n \in Remembered' =>
               n \in Remembered \/ (n = o.parked /\ o.parked # None)
    PROVE  Fresh'
<1> SUFFICES ASSUME NEW w \in Mail, mail'[w].link # None,
                    mail'[w].link \in Remembered'
             PROVE  FALSE
    BY DEF Fresh
<1>1. mail'[w].link \in {mail[w].link, None} \cup NextResume
    BY DEF Orderly, Follows
<1>2. mail'[w].link \in Resume
    BY DEF Remembered
<1>3. mail'[w].link \notin Remembered
    BY <1>1, NewResume DEF Fresh
<1>4. mail'[w].link = o.parked /\ o.parked # None
    BY <1>2, <1>3
<1>5. Unbound(M, o.parked) /\ o.parked \notin NextResume
    BY <1>4 DEF Orderly
<1>6. M[w].link = mail[w].link
    BY DEF Follows
<1> QED
    BY <1>1, <1>4, <1>5, <1>6 DEF Unbound

LEMMA EndTurnLinks ==
    ASSUME LInv, Inv', NEW s \in Session, NEW ending \in Ending, EndTurn(s, ending)
    PROVE  Links'
<1>1. PICK M \in Settled(s) :
        /\ \E o \in Outcomes(M, s, ending) : Takes(s, o)
        /\ IF ending \in {"limit", "credit"} /\ AsksRule(M, s)
             THEN asked' = asked \cup {QuestionOn(M, turn[s], s, ending = "credit")}
             ELSE asked' = asked
    BY DEF EndTurn
<1>2. PICK o \in Outcomes(M, s, ending) : Takes(s, o)
    BY <1>1
<1>3. /\ mail \in Table /\ TypeOK /\ Good(M, FALSE) /\ M \in Table
      /\ Tied(mail, ~ruled, Loose, Stray) /\ Fresh
  <2>1. Good(M, ~ruled)
      BY SettledGood DEF LInv
  <2> QED
      BY <2>1, InvTyped DEF LInv, Links, Good
<1>4. /\ Follows(M) /\ Tied(M, ~ruled, Loose, Stray)
      /\ \A m \in Mail : /\ M[m].by = mail[m].by
                         /\ mail[m].by # s => M[m] = mail[m]
    BY <1>3, SettledTied
<1>5. ~ruled /\ Working(s) => M[turn[s]].by = s
    BY <1>4 DEF LInv, Links, Owns, Working
<1>6. Orderly(o, M, ~ruled, Loose, Stray, Own(M, s, ~ruled))
    BY <1>2, <1>3, <1>4, <1>5, OutcomesOrderly
<1>7. /\ mail' = o.end /\ last' = [last EXCEPT ![s] = IF o.parked = None THEN @ ELSE o.parked]
      /\ turn' = [turn EXCEPT ![s] = "idle"] /\ ruled' = ruled /\ crashes' = crashes
    BY <1>2 DEF Takes, EndTurn, bounds
<1>8. Tied(mail', ~ruled, Loose, Stray)
    BY <1>6, <1>7 DEF Orderly
<1>9. Fresh'
  <2>1. \A n \in Resume :
            n \in Remembered' => n \in Remembered \/ (n = o.parked /\ o.parked # None)
    <3>1. ASSUME NEW q \in asked', q \notin asked PROVE q.work = turn[s]
        BY <1>1, <3>1 DEF QuestionOn
    <3>2. ASSUME NEW n \in Resume, NEW x \in Session, turn'[x] = n \/ last'[x] = n
          PROVE  n \in Remembered \/ (n = o.parked /\ o.parked # None)
        BY <1>3, <1>7, <3>2, ParkedAssumption DEF Remembered, TypeOK, Mail
    <3> QED
        BY <3>1, <3>2 DEF Remembered
  <2> QED
      BY <1>3, <1>4, <1>6, <1>7, <2>1, FreshTakes
<1>10. ASSUME ~ruled, NEW x \in Session PROVE Owns(x)'
  <2>1. CASE x = s
      BY <1>3, <1>7, <2>1, IdleOwns DEF TypeOK
  <2>2. CASE x # s
    <3>1. turn'[x] = turn[x]
        BY <1>3, <1>7, <2>2 DEF TypeOK
    <3>2. ASSUME NEW m \in Mail, mail[m].by = x, m \notin NextResume,
                 mail[m].state \in Taken \ {"uncertain"}
          PROVE  mail'[m] = mail[m]
      <4>1. M[m] = mail[m] /\ m \notin Own(M, s, ~ruled) \cup NextResume
          BY <1>4, <1>10, <2>2, <3>2 DEF Own
      <4> QED
          BY <1>6, <1>7, <3>2, <4>1 DEF Orderly, Spares
    <3> QED
        BY <1>10, <3>1, <3>2, OwnsStays
  <2> QED
      BY <2>1, <2>2
<1> QED
    BY <1>7, <1>8, <1>9, <1>10, LinksNext

LEMMA RuleAnswersLinks ==
    ASSUME LInv, Inv', NEW q \in asked, RuleAnswers(q)
    PROVE  Links'
<1>1. PICK o \in Resolving(mail, q) : Takes(q.who, o)
    BY DEF RuleAnswers
<1>2. /\ mail \in Table /\ TypeOK /\ ruled /\ q \in Question /\ q.work \in Mail
      /\ Good(mail, FALSE) /\ Tied(mail, ~ruled, Loose, Stray) /\ Fresh
    BY InvTyped DEF LInv, Links, Inv, Others, Good, Question
<1>3. Follows(mail) /\ (q.work \in Remembered \/ q.work \notin Resume)
    BY <1>2 DEF Follows, Remembered
<1>4. Unbound(mail, q.work) /\ q.work \notin NextResume
    BY <1>2, <1>3, WorkUnbound
<1>5. Orderly(o, mail, ~ruled, Loose, Stray, {q.work})
    BY <1>1, <1>2, <1>3, <1>4, ResolvingOrderly
<1>6. /\ mail' = o.end /\ asked' \subseteq asked /\ turn' = turn
      /\ last' = [last EXCEPT ![q.who] = IF o.parked = None THEN @ ELSE o.parked]
      /\ ruled' = ruled /\ crashes' = crashes
    BY <1>1 DEF Takes, RuleAnswers, bounds
<1>7. Tied(mail', ~ruled, Loose, Stray)
    BY <1>5, <1>6 DEF Orderly
<1>8. Fresh'
  <2>1. \A n \in Resume :
            n \in Remembered' => n \in Remembered \/ (n = o.parked /\ o.parked # None)
    <3>1. ASSUME NEW n \in Resume, NEW x \in Session, turn'[x] = n \/ last'[x] = n
          PROVE  n \in Remembered \/ (n = o.parked /\ o.parked # None)
        BY <1>2, <1>6, <3>1, ParkedAssumption DEF Remembered, TypeOK, Mail
    <3> QED
        BY <1>6, <3>1 DEF Remembered
  <2> QED
      BY <1>2, <1>3, <1>5, <1>6, <2>1, FreshTakes
<1> QED
    BY <1>2, <1>6, <1>7, <1>8, LinksNext

\* A turn that ends in an exhausted context drops its mail.
LEMMA DropHandledTied ==
    ASSUME NEW M \in Table, NEW c, NEW X, NEW Y, Tied(M, c, X, Y), NEW s \in Session,
           turn[s] \in Mail => Unbound(M, turn[s]),
           NEW N \in Table, N = DropHandled(M, s)
    PROVE  /\ Tied(N, c, X, Y) /\ Spares(M, N, {turn[s]})
           /\ \A m \in Mail : N[m].link \in {M[m].link, None}
<1> DEFINE W == {m \in Mail : turn[s] = m
                              /\ M[m].state \in {"claimed", "delivered", "uncertain"}}
           dead(m) == [M[m] EXCEPT !.state = "dead"]
<1>1. ASSUME NEW m \in W
      PROVE  /\ N[m].link = None /\ M[m].link = None /\ N[m].resumes = M[m].resumes
             /\ N[m].state = "dead" /\ N[m].tried = M[m].tried
  <2>1. N[m] = dead(m) /\ M[m] \in Row
      BY <1>1 DEF DropHandled, Table
  <2>2. M[m].link = None
      BY <1>1 DEF Tied
  <2> QED
      BY <2>1, <2>2 DEF Row
<1>2. \A m \in Mail : m \notin W => N[m] = M[m]
    BY DEF DropHandled
<1>3. /\ W \subseteq Mail /\ W \subseteq {turn[s]}
      /\ \A m \in W :
            /\ M[m].state \in {"claimed", "delivered", "uncertain"}
            /\ Unbound(M, m)
    OBVIOUS
<1> HIDE DEF W
<1>4. Leaves(M, N, W)
  <2>1. ASSUME NEW m \in Mail, m \notin W
        PROVE  ~\E w \in W : M[w].link = m
      BY <1>1, ParkedAssumption
  <2>2. ASSUME NEW m \in W
        PROVE  /\ Untaken(N[m]) => Untaken(M[m])
               /\ N[m].state # "absent" => M[m].state # "absent"
      BY <1>1, <1>3, <2>2 DEF Untaken
  <2> QED
      BY <1>1, <1>2, <2>1, <2>2 DEF Leaves
<1>5. Tied(N, c, X, Y)
    BY <1>1, <1>3, <1>4, LeavesTied
<1>6. \A m \in Mail : N[m].link \in {M[m].link, None}
    BY <1>1, <1>2
<1> QED
    BY <1>2, <1>3, <1>5, <1>6 DEF Spares

\* Its parked work goes back to the group, or is dropped as well.
LEMMA ReleaseParkedTied ==
    ASSUME NEW M \in Table, NEW c, NEW X, NEW Y, Tied(M, c, X, Y), NEW s \in Session,
           NEW N \in Table, N = ReleaseParked(M, s)
    PROVE  /\ Tied(N, c, X, Y) /\ Spares(M, N, {m \in Mail : M[m].by = s})
           /\ \A m \in Mail : N[m].link \in {M[m].link, None}
<1> DEFINE W == ParkedBy(M, s)
           back(m) == [M[m] EXCEPT !.state = "queued", !.to = Team, !.by = None,
                                   !.link = None]
           dead(m) == [M[m] EXCEPT !.state = "dead", !.by = None, !.link = None]
<1>0. \A m : m \in W <=> m \in Mail /\ M[m].state = "parked" /\ M[m].by = s
    BY DEF ParkedBy, Table
<1>1. ASSUME NEW m \in W
      PROVE  /\ N[m].link = None /\ N[m].resumes = M[m].resumes
             /\ N[m].state \in {"queued", "dead"} /\ N[m].tried = M[m].tried
  <2>1. M[m] \in Row /\ m \in Mail
      BY <1>0, <1>1 DEF Table
  <2>2. N[m] \in {back(m), dead(m)}
      BY <1>1, <2>1 DEF ReleaseParked
  <2>3. /\ back(m).link = None /\ back(m).resumes = M[m].resumes
        /\ back(m).state = "queued" /\ back(m).tried = M[m].tried
        /\ dead(m).link = None /\ dead(m).resumes = M[m].resumes
        /\ dead(m).state = "dead" /\ dead(m).tried = M[m].tried
      BY <2>1 DEF Row
  <2> HIDE DEF back, dead
  <2> QED
      BY <2>2, <2>3
<1>2. ASSUME NEW m \in Mail, m \notin W
      PROVE  N[m] = IF \E w \in W : M[w].link = m THEN SettleResume(M[m]) ELSE M[m]
    BY <1>2 DEF ReleaseParked
<1> HIDE DEF W
<1>3. Leaves(M, N, W)
    BY <1>0, <1>1, <1>2 DEF Leaves, Untaken
<1>4. \A w \in W : Unbound(M, w) /\ N[w].state # "parked"
    BY <1>0, <1>1, PlainUnbound
<1>5. W \subseteq Mail
    BY <1>0
<1>6. Tied(N, c, X, Y) /\ \A m \in Mail : N[m].link \in {M[m].link, None}
    BY <1>3, <1>4, <1>5, LeavesTied, LeavesLinks
<1>7. Spares(M, N, W)
    BY <1>3, LeavesSpares
<1> QED
    BY <1>0, <1>6, <1>7 DEF Spares

LEMMA ExhaustLinks ==
    ASSUME LInv, Inv', NEW s \in Session, Exhaust(s)
    PROVE  Links'
<1>1. PICK M \in Settled(s) :
          mail' = DeadLetterDirectTo(ReleaseParked(DropHandled(M, s), s), s)
    BY DEF Exhaust
<1> DEFINE D == DropHandled(M, s)
           R == ReleaseParked(D, s)
<1>2. /\ mail \in Table /\ mail' \in Table /\ TypeOK
      /\ Good(M, FALSE) /\ M \in Table
      /\ Tied(mail, ~ruled, Loose, Stray) /\ Fresh
  <2>1. Good(M, ~ruled)
      BY SettledGood DEF LInv
  <2> QED
      BY <2>1, InvTyped DEF LInv, Links, Good, Inv
<1>3. /\ Follows(M) /\ Tied(M, ~ruled, Loose, Stray)
      /\ \A m \in Mail : /\ M[m].by = mail[m].by
                         /\ mail[m].by # s => M[m] = mail[m]
    BY <1>2, SettledTied
<1>4. turn[s] \in Mail => Unbound(M, turn[s])
    BY <1>2, <1>3, WorkUnbound DEF Remembered
<1>5. D = DropHandled(M, s) /\ R = ReleaseParked(D, s) /\ mail' = DeadLetterDirectTo(R, s)
    BY <1>1
<1> HIDE DEF D, R
<1>6. Good(D, FALSE) /\ D \in Table /\ Good(R, FALSE) /\ R \in Table
  <2>1. Good(D, FALSE)
      BY <1>2, <1>5, DropHandledGood
  <2>2. Good(R, FALSE)
      BY <1>5, <2>1, ReleaseParkedGood
  <2> QED
      BY <2>1, <2>2 DEF Good
<1>7. /\ Tied(D, ~ruled, Loose, Stray) /\ Spares(M, D, {turn[s]})
      /\ \A m \in Mail : D[m].link \in {M[m].link, None}
    BY <1>2, <1>3, <1>4, <1>5, <1>6, DropHandledTied
<1>8. /\ Tied(R, ~ruled, Loose, Stray) /\ Spares(D, R, {m \in Mail : D[m].by = s})
      /\ \A m \in Mail : R[m].link \in {D[m].link, None}
    BY <1>5, <1>6, <1>7, ReleaseParkedTied
<1>9. /\ Tied(mail', ~ruled, Loose, Stray) /\ Spares(R, mail', {})
      /\ \A m \in Mail : mail'[m].link = R[m].link
    BY <1>2, <1>5, <1>6, <1>8, DeadLetterTied
<1>10. Fresh'
  <2>1. \A m \in Mail : mail'[m].link \in {mail[m].link, None}
      BY <1>3, <1>7, <1>8, <1>9 DEF Follows
  <2>2. \A m \in Resume : m \in Remembered' => m \in Remembered
      BY <1>2, ParkedAssumption DEF Exhaust, Remembered, TypeOK, Mail
  <2> QED
      BY <1>2, <2>1, <2>2, FreshLess
<1>11. ASSUME ~ruled, NEW x \in Session PROVE Owns(x)'
  <2>1. CASE x = s
      BY <1>2, <2>1, IdleOwns DEF TypeOK, Exhaust
  <2>2. CASE x # s
    <3>1. turn'[x] = turn[x]
        BY <1>2, <2>2 DEF TypeOK, Exhaust
    <3>2. turn[s] \in Mail => mail[turn[s]].by = s
        BY <1>11 DEF LInv, Links, Owns, Working
    <3>3. ASSUME NEW m \in Mail, mail[m].by = x, mail[m].state \in Taken
          PROVE  mail'[m] = mail[m]
      <4>1. M[m] = mail[m] /\ m # turn[s]
          BY <1>3, <2>2, <3>2, <3>3
      <4>2. D[m] = mail[m]
          BY <1>7, <3>3, <4>1 DEF Spares
      <4>3. R[m] = mail[m]
          BY <1>8, <2>2, <3>3, <4>2 DEF Spares
      <4> QED
          BY <1>9, <3>3, <4>3 DEF Spares
    <3> QED
        BY <1>11, <3>1, <3>3, OwnsStays
  <2> QED
      BY <2>1, <2>2
<1> QED
    BY <1>9, <1>10, <1>11, LinksNext DEF Exhaust, bounds

LEMMA CompactLinks ==
    ASSUME LInv, Inv', NEW s \in Session, Compact(s)
    PROVE  Links'
<1>1. Tied(mail, ~ruled, Loose, Stray) /\ Fresh
    BY DEF LInv, Links
<1>2. \A x \in Session : ~ruled => Owns(x)'
    BY OwnsStays DEF Compact
<1>3. Fresh'
    BY <1>1, FreshLess DEF Compact, Remembered
<1> QED
    BY <1>1, <1>2, <1>3, LinksNext DEF Compact, bounds

\* What a hand-off passes on is an orderly outcome.
LEMMA HandOffOrderly ==
    ASSUME LInv, NEW w \in Mail, NEW to \in Targets(mail[w].by),
           mail[w].state = "parked", NEW m \in Unsent(Copy),
           NEW o, o = Forwarding(mail, w, mail[w].by, to, m)
    PROVE  /\ Orderly(o, mail, ~ruled, Loose, Stray, {w}) /\ Passes(mail, o.end, w)
           /\ Unbound(mail, w)
<1>1. /\ mail \in Table /\ Good(mail, FALSE) /\ TypeOK
      /\ Tied(mail, ~ruled, Loose, Stray)
    BY InvTyped DEF LInv, Links, Inv, Good
<1>2. /\ Handled(mail, w) /\ Unbound(mail, w)
      /\ m \in Copy /\ mail[m].state = "absent"
      /\ mail[w].by \in Session \cup {None} /\ to \in Session \cup {Team}
    BY <1>1, PlainUnbound DEF Handled, Unsent, Targets, TypeOK, Table, Row
<1> DEFINE by == mail[w].by
           f == Forwarding(mail, w, by, to, m)
<1>3. by \in Session \cup {None} /\ o = f
    BY <1>2
<1> HIDE DEF by
<1>4. Orderly(f, mail, ~ruled, Loose, Stray, {w}) /\ Passes(mail, f.end, w)
    BY <1>1, <1>2, <1>3, ForwardingOrderly
<1> QED
    BY <1>2, <1>3, <1>4

LEMMA HandOffLinks ==
    ASSUME LInv, Inv', NEW w \in Mail, NEW to, HandOff(w, to)
    PROVE  Links'
<1>1. PICK m \in Unsent(Copy) :
          mail' = Forwarding(mail, w, mail[w].by, to, m).end
    BY DEF HandOff
<1> DEFINE o == Forwarding(mail, w, mail[w].by, to, m)
<1>2. /\ mail \in Table /\ Tied(mail, ~ruled, Loose, Stray) /\ Fresh
      /\ Follows(mail)
    BY InvTyped DEF LInv, Links, Follows
<1>3. mail[w].state = "parked" /\ to \in Targets(mail[w].by)
    BY DEF HandOff
<1>4. /\ Orderly(o, mail, ~ruled, Loose, Stray, {w}) /\ Unbound(mail, w)
      /\ mail'[w].state = "forwarded" /\ mail'[w].by = mail[w].by
      /\ Spares(mail, mail', {w})
    BY <1>1, <1>3, HandOffOrderly DEF Passes
<1>5. mail' = o.end /\ UNCHANGED <<turn, last, asked, ruled, crashes>>
    BY <1>1 DEF HandOff, Manages, agents
<1> HIDE DEF o
<1>6. Tied(mail', ~ruled, Loose, Stray)
    BY <1>4, <1>5 DEF Orderly
<1>7. Fresh'
  <2>1. \A n \in Resume : n \in Remembered' => n \in Remembered
      BY <1>5 DEF Remembered
  <2> QED
      BY <1>2, <1>4, <1>5, <2>1, FreshTakes
<1>8. ASSUME ~ruled, NEW s \in Session PROVE Owns(s)'
  <2>1. CASE turn[s] = w
    <3>1. mail[w].by = s
        BY <1>8, <2>1 DEF LInv, Links, Owns, Working
    <3> QED
        BY <1>4, <1>5, <2>1, <3>1 DEF Owns
  <2>2. CASE turn[s] # w
    <3> SUFFICES ASSUME Working(s) PROVE Owns(s)'
        BY <1>5 DEF Owns, Working
    <3>1. Owns(s) /\ turn[s] \in Mail
        BY <1>8 DEF LInv, Links, Working
    <3>2. mail'[turn[s]] = mail[turn[s]]
        BY <1>4, <2>2, <3>1 DEF Owns, Spares, Taken
    <3>3. ASSUME mail[turn[s]].state = "parked"
          PROVE  mail'[mail[turn[s]].link] = mail[mail[turn[s]].link]
      <4>1. /\ mail[turn[s]].link \in Mail
            /\ mail[mail[turn[s]].link].state \in {"claimed", "delivered"}
          BY <1>2, <3>1, <3>3 DEF Owns, Table, Row
      <4> QED
          BY <1>3, <1>4, <4>1 DEF Spares, Taken
    <3> QED
        BY <1>5, <3>1, <3>2, <3>3 DEF Owns
  <2> QED
      BY <2>1, <2>2
<1> QED
    BY <1>5, <1>6, <1>7, <1>8, LinksNext

LEMMA CancelLinks ==
    ASSUME LInv, Inv', NEW m \in Mail, Cancel(m)
    PROVE  Links'
<1>1. /\ mail \in Table /\ mail' \in Table /\ TypeOK
      /\ Tied(mail, ~ruled, Loose, Stray) /\ Fresh
    BY InvTyped DEF LInv, Links, Inv, Good
<1>2. /\ CanCancel(mail, m) /\ mail' = CancelRow(mail, m)
      /\ UNCHANGED <<turn, last, asked, ruled, crashes>>
    BY DEF Cancel, Manages, agents
<1>3. Tied(mail', ~ruled, Loose, Stray) /\ Leaves(mail, mail', {m})
    BY <1>1, <1>2, CancelTied
<1>4. Fresh'
  <2>1. \A w \in Mail : mail'[w].link \in {mail[w].link, None}
      BY <1>1, <1>3, LeavesLinks
  <2>2. \A n \in Resume : n \in Remembered' => n \in Remembered
      BY <1>2 DEF Remembered
  <2> QED
      BY <1>1, <2>1, <2>2, FreshLess
<1>5. Spares(mail, mail', {m})
    BY <1>3, LeavesSpares
<1>6. ASSUME ~ruled, NEW s \in Session PROVE Owns(s)'
  <2> SUFFICES ASSUME Working(s) PROVE Owns(s)'
      BY <1>2 DEF Owns, Working
  <2>1. Owns(s) /\ turn[s] \in Mail
      BY <1>6 DEF LInv, Links, Working
  <2>2. turn[s] # m
      BY <1>2, <2>1 DEF Owns, CanCancel, ResumeInFlight
  <2>3. mail'[turn[s]] = mail[turn[s]]
      BY <1>5, <2>1, <2>2 DEF Owns, Spares, Taken
  <2>4. ASSUME mail[turn[s]].state = "parked"
        PROVE  mail'[mail[turn[s]].link] = mail[mail[turn[s]].link]
    <3>1. /\ mail[turn[s]].link \in Mail
          /\ mail[mail[turn[s]].link].state \in {"claimed", "delivered"}
        BY <1>1, <2>1, <2>4 DEF Owns, Table, Row
    <3> QED
        BY <1>2, <1>5, <3>1 DEF Spares, Taken, CanCancel
  <2> QED
      BY <1>2, <2>1, <2>3, <2>4 DEF Owns
<1> QED
    BY <1>2, <1>3, <1>4, <1>6, LinksNext

\* Rows live on, and those a turn may hold on to stay.
LEMMA LivesLinks ==
    ASSUME LInv, Inv', \A m \in Mail : Lives(m, mail[m], mail'[m]),
           \A m \in Mail : mail[m].state \in Taken \ {"uncertain"} => mail'[m] = mail[m],
           UNCHANGED <<turn, last, asked, ruled, crashes>>
    PROVE  Links'
<1>1. /\ mail \in Table /\ mail' \in Table
      /\ Tied(mail, ~ruled, Loose, Stray) /\ Fresh
    BY InvTyped DEF LInv, Links, Inv, Good
<1>2. Tied(mail', ~ruled, Loose, Stray)
    BY <1>1, LivesTied
<1>3. Fresh'
    BY <1>1, FreshLess DEF Lives, Remembered
<1>4. ASSUME ~ruled, NEW s \in Session PROVE Owns(s)'
    BY <1>4, OwnsStays
<1> QED
    BY <1>2, <1>3, <1>4, LinksNext

LEMMA DiscardLinks ==
    ASSUME LInv, Inv', NEW m \in Mail, Discard(m)
    PROVE  Links'
<1> DEFINE row == [mail[m] EXCEPT !.state = "discarded"]
<1>1. /\ mail \in Table /\ mail[m] \in Row /\ mail' = [mail EXCEPT ![m] = row]
      /\ mail[m].state \in {"dead", "uncertain"}
      /\ UNCHANGED <<turn, last, asked, ruled, crashes>>
    BY InvTyped DEF LInv, Table, Discard, Manages, agents
<1>2. /\ row.state = "discarded" /\ row.link = mail[m].link
      /\ row.resumes = mail[m].resumes /\ row.to = mail[m].to
    BY <1>1 DEF Row
<1> HIDE DEF row
<1>3. mail'[m] = row /\ \A w \in Mail \ {m} : mail'[w] = mail[w]
    BY <1>1 DEF Table
<1>4. \A w \in Mail : Lives(w, mail[w], mail'[w])
    BY <1>1, <1>2, <1>3 DEF Lives, Serves, Untaken
<1>5. \A w \in Mail : mail[w].state \in Taken \ {"uncertain"} => mail'[w] = mail[w]
    BY <1>1, <1>3 DEF Taken
<1> QED
    BY <1>1, <1>4, <1>5, LivesLinks

LEMMA RetryLinks ==
    ASSUME LInv, Inv', NEW m \in Mail, Retry(m)
    PROVE  Links'
<1> DEFINE again == [mail[m] EXCEPT !.state = "queued"]
           freed == [mail[m] EXCEPT !.state = "queued", !.by = None,
                                    !.to = mail[m].by]
           dead == [mail[m] EXCEPT !.state = "dead", !.to = mail[m].by]
<1>1. /\ mail \in Table /\ mail[m] \in Row
      /\ UNCHANGED <<turn, last, asked, ruled, crashes>>
    BY InvTyped DEF LInv, Table, Retry, Manages, agents
<1>2. /\ again.state = "queued" /\ again.link = mail[m].link
      /\ again.resumes = mail[m].resumes /\ again.to = mail[m].to
      /\ again.tried = mail[m].tried
    BY <1>1 DEF Row
<1>3. /\ freed.state = "queued" /\ freed.link = mail[m].link
      /\ freed.resumes = mail[m].resumes /\ freed.to = mail[m].by
      /\ freed.tried = mail[m].tried
    BY <1>1 DEF Row
<1>4. /\ dead.state = "dead" /\ dead.link = mail[m].link
      /\ dead.resumes = mail[m].resumes /\ dead.to = mail[m].by
      /\ dead.tried = mail[m].tried
    BY <1>1 DEF Row
<1>5. \/ mail[m].state = "dead" /\ mail' = [mail EXCEPT ![m] = again]
      \/ mail[m].state = "uncertain"
         /\ \E row \in {freed, dead} : mail' = [mail EXCEPT ![m] = row]
    BY DEF Retry
<1> HIDE DEF again, freed, dead
<1>6. /\ \/ mail[m].state = "dead" /\ mail'[m] = again
         \/ mail[m].state = "uncertain" /\ mail'[m] \in {freed, dead}
      /\ \A w \in Mail \ {m} : mail'[w] = mail[w]
    BY <1>1, <1>5 DEF Table
<1>7. Lives(m, mail[m], mail'[m])
    BY <1>2, <1>3, <1>4, <1>6 DEF Lives, Serves, Untaken
<1>8. \A w \in Mail : Lives(w, mail[w], mail'[w])
    BY <1>6, <1>7 DEF Lives
<1>9. \A w \in Mail : mail[w].state \in Taken \ {"uncertain"} => mail'[w] = mail[w]
    BY <1>6 DEF Taken
<1> QED
    BY <1>1, <1>8, <1>9, LivesLinks

LEMMA KillLinks ==
    ASSUME LInv, Inv', NEW s \in Session, Kill(s)
    PROVE  Links'
<1>1. PICK M \in Settled(s) : mail' = DeadLetterDirectTo(M, s)
    BY DEF Kill
<1>2. /\ mail \in Table /\ mail' \in Table /\ TypeOK /\ M \in Table
      /\ Tied(mail, ~ruled, Loose, Stray) /\ Fresh
  <2>1. Good(M, ~ruled)
      BY SettledGood DEF LInv
  <2> QED
      BY <2>1, InvTyped DEF LInv, Links, Good, Inv
<1>3. /\ Follows(M) /\ Tied(M, ~ruled, Loose, Stray)
      /\ \A m \in Mail : /\ M[m].by = mail[m].by
                         /\ mail[m].by # s => M[m] = mail[m]
    BY <1>2, SettledTied
<1>4. /\ Tied(mail', ~ruled, Loose, Stray) /\ Spares(M, mail', {})
      /\ \A m \in Mail : mail'[m].link = M[m].link
    BY <1>1, <1>2, <1>3, DeadLetterTied
<1>5. /\ turn' = [turn EXCEPT ![s] = "idle"]
      /\ UNCHANGED <<last, asked, ruled, crashes>>
    BY DEF Kill, Manages
<1>6. Fresh'
  <2>1. \A m \in Mail : mail'[m].link \in {mail[m].link, None}
      BY <1>3, <1>4 DEF Follows
  <2>2. \A m \in Resume : m \in Remembered' => m \in Remembered
      BY <1>2, <1>5, ParkedAssumption DEF Remembered, TypeOK, Mail
  <2> QED
      BY <1>2, <2>1, <2>2, FreshLess
<1>7. ASSUME ~ruled, NEW x \in Session PROVE Owns(x)'
  <2>1. CASE x = s
      BY <1>2, <1>5, <2>1, IdleOwns DEF TypeOK
  <2>2. CASE x # s
    <3>1. turn'[x] = turn[x]
        BY <1>2, <1>5, <2>2 DEF TypeOK
    <3>2. ASSUME NEW m \in Mail, mail[m].by = x, mail[m].state \in Taken
          PROVE  mail'[m] = mail[m]
        BY <1>3, <1>4, <2>2, <3>2 DEF Spares
    <3> QED
        BY <1>7, <3>1, <3>2, OwnsStays
  <2> QED
      BY <2>1, <2>2
<1> QED
    BY <1>4, <1>5, <1>6, <1>7, LinksNext

\* The server starts again on a table that is tied but for what a stop leaves:
\* whatever was remembered is forgotten.
LEMMA RestartLinks ==
    ASSUME LInv, Inv', NEW M, M \in Table, Tied(M, ~ruled, Mail, Resume), Restart(M)
    PROVE  Links'
<1> DEFINE claims == {m \in Mail : M[m].state = "claimed"}
           found == {"queued", "delivered", "uncertain"}
<1>1. PICK receipt \in [claims -> found] :
          mail' = [m \in Mail |-> Started(M[m],
                      IF m \in claims THEN receipt[m] ELSE M[m].state)]
    BY DEF Restart
<1>2. ASSUME NEW m \in Mail PROVE Lives(m, M[m], mail'[m])
  <2> DEFINE dead == [M[m] EXCEPT !.state = "dead"]
             owner(to) == IF to # M[m].state /\ to = "queued" THEN None ELSE M[m].by
             moved(to) == [M[m] EXCEPT !.state = to, !.by = owner(to)]
  <2>1. M[m] \in Row
      BY DEF Table
  <2>2. /\ dead.state = "dead" /\ dead.link = M[m].link /\ dead.to = M[m].to
        /\ dead.resumes = M[m].resumes /\ dead.tried = M[m].tried
      BY <2>1 DEF Row
  <2>3. ASSUME NEW to
        PROVE  /\ moved(to).state = to /\ moved(to).link = M[m].link
               /\ moved(to).to = M[m].to /\ moved(to).resumes = M[m].resumes
               /\ moved(to).tried = M[m].tried /\ moved(to).by = owner(to)
    <3> HIDE DEF owner
    <3> QED
        BY <2>1 DEF Row
  <2>4. PICK to : /\ mail'[m] = Started(M[m], to)
                  /\ \/ to = M[m].state
                     \/ M[m].state = "claimed" /\ to \in found
      BY <1>1, <1>2
  <2>5. \/ to = "queued" /\ mail'[m] = dead
        \/ mail'[m] = moved(to)
      BY <2>4 DEF Started
  <2>6. CASE to = "queued" /\ mail'[m] = dead
    <3> HIDE DEF dead
    <3> QED
        BY <2>2, <2>4, <2>6 DEF Lives, Serves, Untaken
  <2>7. CASE mail'[m] = moved(to)
    <3>1. to # "queued" \/ to = M[m].state => owner(to) = M[m].by
        OBVIOUS
    <3> HIDE DEF moved, owner
    <3> QED
        BY <2>3, <2>4, <2>7, <3>1 DEF Lives, Serves, Untaken
  <2> QED
      BY <2>5, <2>6, <2>7
<1>3. mail' \in Table /\ crashes' # 0 /\ ruled' = ruled
    BY DEF Inv, Good, LInv, Others, Restart
<1>4. Tied(mail', ~ruled, Mail, Resume)
    BY <1>2, <1>3, LivesTied
<1>5. Tied(mail, ~ruled, Loose, Stray)'
    BY <1>3, <1>4 DEF Tied, Binds, Loose, Stray
<1>6. /\ turn' = [s \in Session |-> "idle"] /\ last' = [s \in Session |-> None]
      /\ asked' = {}
    BY DEF Restart
<1>7. Fresh'
  <2>1. \A m \in Mail : m \notin Remembered'
      BY <1>6, ParkedAssumption DEF Remembered
  <2> QED
      BY <2>1 DEF Fresh, Remembered, Mail
<1>8. \A s \in Session : Owns(s)'
    BY <1>6, IdleOwns
<1> QED
    BY <1>5, <1>7, <1>8 DEF Links

LEMMA CrashInEndTurnLinks ==
    ASSUME LInv, Inv', NEW s \in Session, NEW ending \in Ending,
           CrashInEndTurn(s, ending)
    PROVE  Links'
<1>1. PICK M \in Settled(s) :
          \E o \in Outcomes(M, s, ending) : \E table \in o.torn : Restart(table)
    BY DEF CrashInEndTurn
<1>2. PICK o \in Outcomes(M, s, ending) : \E table \in o.torn : Restart(table)
    BY <1>1
<1>3. PICK table \in o.torn : Restart(table)
    BY <1>2
<1>4. /\ mail \in Table /\ TypeOK /\ Good(M, ~ruled) /\ Good(M, FALSE) /\ M \in Table
      /\ Tied(mail, ~ruled, Loose, Stray) /\ Fresh
  <2>1. Good(M, ~ruled)
      BY SettledGood DEF LInv
  <2> QED
      BY <2>1, InvTyped DEF LInv, Links, Good
<1>5. table \in Table
  <2>1. Sound(o, ~ruled)
      BY <1>2, <1>4, OutcomesSound
  <2> QED
      BY <1>3, <2>1 DEF Sound, Good
<1>6. /\ Follows(M) /\ Tied(M, ~ruled, Loose, Stray)
      /\ \A m \in Mail : M[m].by = mail[m].by
    BY <1>4, SettledTied
<1>7. ~ruled /\ Working(s) => M[turn[s]].by = s
    BY <1>6 DEF LInv, Links, Owns, Working
<1>8. Orderly(o, M, ~ruled, Loose, Stray, Own(M, s, ~ruled))
    BY <1>2, <1>4, <1>6, <1>7, OutcomesOrderly
<1>9. Tied(table, ~ruled, Mail, Resume)
    BY <1>3, <1>8 DEF Orderly
<1> QED
    BY <1>3, <1>5, <1>9, RestartLinks

LEMMA CrashInRuleLinks ==
    ASSUME LInv, Inv', NEW q \in asked, CrashInRule(q)
    PROVE  Links'
<1>1. PICK o \in Resolving(mail, q) : \E table \in o.torn : Restart(table)
    BY DEF CrashInRule
<1>2. PICK table \in o.torn : Restart(table)
    BY <1>1
<1>3. /\ mail \in Table /\ TypeOK /\ ruled /\ q \in Question /\ q.work \in Mail
      /\ Good(mail, FALSE) /\ Tied(mail, ~ruled, Loose, Stray) /\ Fresh
    BY InvTyped DEF LInv, Links, Inv, Others, Good, Question
<1>4. table \in Table
  <2>1. Sound(o, FALSE)
      BY <1>1, <1>3, ResolvingSound
  <2> QED
      BY <1>2, <2>1 DEF Sound, Good
<1>5. Follows(mail) /\ (q.work \in Remembered \/ q.work \notin Resume)
    BY <1>3 DEF Follows, Remembered
<1>6. Unbound(mail, q.work) /\ q.work \notin NextResume
    BY <1>3, <1>5, WorkUnbound
<1>7. Orderly(o, mail, ~ruled, Loose, Stray, {q.work})
    BY <1>1, <1>3, <1>5, <1>6, ResolvingOrderly
<1>8. Tied(table, ~ruled, Mail, Resume)
    BY <1>2, <1>7 DEF Orderly
<1> QED
    BY <1>2, <1>4, <1>8, RestartLinks

LEMMA CrashInHandOffLinks ==
    ASSUME LInv, Inv', NEW w \in Mail, NEW to, CrashInHandOff(w, to)
    PROVE  Links'
<1>1. PICK m \in Unsent(Copy) :
          \E table \in Forwarding(mail, w, mail[w].by, to, m).torn : Restart(table)
    BY DEF CrashInHandOff
<1> DEFINE o == Forwarding(mail, w, mail[w].by, to, m)
<1>2. PICK table \in o.torn : Restart(table)
    BY <1>1
<1>3. /\ Orderly(o, mail, ~ruled, Loose, Stray, {w}) /\ Sound(o, ~ruled)
    BY HandOffOrderly, HandOffSound DEF CrashInHandOff, LInv
<1> HIDE DEF o
<1>4. table \in Table /\ Tied(table, ~ruled, Mail, Resume)
    BY <1>2, <1>3 DEF Orderly, Sound, Good
<1> QED
    BY <1>2, <1>4, RestartLinks

LEMMA StoppingLinks ==
    ASSUME LInv, Inv', Stopping
    PROVE  Links'
<1>1. CASE Crash
  <2>1. mail \in Table /\ Tied(mail, ~ruled, Mail, Resume)
      BY InvTyped, TiedMore DEF LInv, Links, Loose, Stray
  <2> QED
      BY <1>1, <2>1, RestartLinks DEF Crash
<1>2. CASE \E s \in Session, ending \in Ending : CrashInEndTurn(s, ending)
    BY <1>2, CrashInEndTurnLinks
<1>3. CASE \E q \in asked : CrashInRule(q)
    BY <1>3, CrashInRuleLinks
<1>4. CASE \E m \in Mail, to \in Session \cup {Team} : CrashInHandOff(m, to)
    BY <1>4, CrashInHandOffLinks
<1> QED
    BY <1>1, <1>2, <1>3, <1>4 DEF Stopping

\* Every step keeps the invariant about links.
LEMMA LinksStep == LInv /\ [Next]_vars => LInv'
<1> SUFFICES ASSUME LInv, [Next]_vars PROVE LInv'
    OBVIOUS
<1>0. Inv'
    BY InvStep DEF LInv
<1>1. CASE UNCHANGED vars
  <2>1. Links'
      BY <1>1 DEF LInv, Links, Tied, Binds, Fresh, Remembered, Owns, Working,
                  Loose, Stray, vars
  <2> QED
      BY <1>0, <2>1 DEF LInv
<1>2. CASE \E to \in Session \cup {Team} : Send(to)
    BY <1>0, <1>2, SendLinks DEF LInv
<1>3. CASE \E m \in Mail : Receipt(m)
    BY <1>0, <1>3, ReceiptLinks DEF LInv
<1>4. ASSUME NEW m \in Mail, Manager(m) PROVE Links'
    BY <1>0, <1>4, CancelLinks, DiscardLinks, RetryLinks, HandOffLinks DEF Manager
<1>5. ASSUME NEW s \in Session, Agent(s) PROVE Links'
  <2>1. CASE \E m \in Mail : Deliver(m, s)
      BY <1>0, <2>1, DeliverLinks
  <2>2. CASE OwnTurn(s, "human") \/ OwnTurn(s, "agent") \/ Stop(s)
    <3>1. PICK kind \in {"idle", "human", "agent"} : turn' = [turn EXCEPT ![s] = kind]
        BY <2>2 DEF OwnTurn, Stop
    <3> QED
        BY <1>0, <2>2, <3>1, TurnLinks DEF OwnTurn, Stop
  <2>3. CASE \E ending \in Ending : EndTurn(s, ending)
      BY <1>0, <2>3, EndTurnLinks
  <2>4. CASE Exhaust(s) \/ Compact(s) \/ Kill(s)
      BY <1>0, <2>4, ExhaustLinks, CompactLinks, KillLinks
  <2> QED
      BY <1>5, <2>1, <2>2, <2>3, <2>4 DEF Agent
<1>6. CASE \E q \in asked : RuleAnswers(q)
    BY <1>0, <1>6, RuleAnswersLinks DEF LInv
<1>7. CASE Stopping
    BY <1>0, <1>7, StoppingLinks DEF LInv
<1> QED
    BY <1>0, <1>1, <1>2, <1>3, <1>4, <1>5, <1>6, <1>7 DEF Next, LInv

\* The invariant about links holds in every state.
THEOREM LInvAlways == Spec => []LInv
<1>1. Init => LInv
    BY InvInit, LinksInit DEF LInv
<1> QED
    BY <1>1, LinksStep, PTL DEF Spec

\* Parked work links a resume of its own, stored, not cancelled and addressed
\* to the agent it is parked on, through every outcome, cancel, hand-off and
\* exhaustion.  Only a stop leaves work without a link, and only an outcome
\* that waited for a rule addresses another agent.
THEOREM ParkedLinksHold == Spec => []LinksHold
<1>1. LInv => LinksHold
  <2> SUFFICES ASSUME LInv, NEW w \in Mail, Parked(w)
               PROVE  \/ mail[w].link = None /\ crashes > 0
                      \/ /\ mail[w].link # None
                         /\ mail[mail[w].link].resumes = w
                         /\ ~ruled => mail[mail[w].link].to = mail[w].by
                         /\ mail[mail[w].link].state \notin {"absent", "cancelled"}
      BY DEF LinksHold
  <2>1. Tied(mail, ~ruled, Loose, Stray) /\ crashes \in Nat
      BY WorkAssumption DEF LInv, Links, Inv, Others
  <2> QED
      BY <2>1 DEF Tied, Binds, Serves, Loose, Parked
<1> QED
    BY <1>1, LInvAlways, PTL

\* Until the server stops, a resume that waits and was never taken is the one
\* its work is parked on: no outcome leaves one behind that would wake an
\* agent for work that moved on.
THEOREM ParkedNoStray == Spec => []NoStrayResume
<1>1. LInv => NoStrayResume
  <2> SUFFICES ASSUME LInv, NEW r \in Resume, mail[r].state = "queued",
                      ~mail[r].tried, crashes = 0
               PROVE  Parked(mail[r].resumes) /\ mail[mail[r].resumes].link = r
      BY DEF NoStrayResume
  <2>1. Tied(mail, ~ruled, Loose, Stray) /\ mail \in Table
      BY InvTyped DEF LInv, Links
  <2>2. r \in Mail /\ r # None
      BY ParkedAssumption DEF Mail
  <2>3. mail[r].resumes \in Mail
      BY <2>1, <2>2 DEF Tied, Table, Row
  <2>4. mail[mail[r].resumes].link = r
      BY <2>1 DEF Tied, Untaken, Stray
  <2> QED
      BY <2>1, <2>2, <2>3, <2>4 DEF Tied, Parked
<1> QED
    BY <1>1, LInvAlways, PTL

\* Where no rule is asked, the work of a running turn stays in its agent's
\* name: no outcome of another agent, cancel, exhaustion or kill takes it
\* away.
THEOREM TurnsHoldTheirWork == Spec => []TurnHoldsItsWork
<1>1. LInv => TurnHoldsItsWork
    BY DEF LInv, Links, Owns, TurnHoldsItsWork
<1> QED
    BY <1>1, LInvAlways, PTL
=============================================================================
