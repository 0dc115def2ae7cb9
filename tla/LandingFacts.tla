---------------------------- MODULE LandingFacts ----------------------------
(***************************************************************************)
(* What PlanLanding merges and what it records of it.                      *)
(*                                                                         *)
(* Both hang on the change's last landing effect: a merge that may still   *)
(* act belongs to the newest round, or can no longer succeed, or nothing   *)
(* is done with it any more; and one that is done as merged stands, unless *)
(* the change went on to another round before anybody looked.              *)
(***************************************************************************)
EXTENDS LandingSafety

LastOf(c) == effects[c][Last(c)]
IsMerge(c) == Last(c) # NoEffect /\ LastOf(c).kind = "merge"

PassedNewest(c) == Newest(c) # 0 /\ rounds[c][Newest(c)].outcome = "pass"

(* Only the last effect of a change may act or be taken up again. *)
Lasting(c) ==
    /\ \A i \in LiveLanding(c) : i = Last(c)
    /\ change[c].unknown # NoEffect =>
          change[c].unknown = Last(c) /\ LastOf(c).state = "failed"

(* A merge is recorded for a round that passed. *)
Reviewed(c) ==
    IsMerge(c) =>
        /\ LastOf(c).round \in 1..Newest(c)
        /\ rounds[c][LastOf(c).round].outcome = "pass"
        /\ LastOf(c).state = "done" =>
              LastOf(c).outcome \in {"merged", "not-merged"}

(* No commit contains a version of the base that is still to come. *)
Based(c) ==
    /\ origin.head[c].base <= origin.base /\ result[c].base <= origin.base
    /\ \A i \in 1..Newest(c) : rounds[c][i].commit.base <= origin.base

(* A stage that is left to do is still called for. *)
Planning(c) ==
    /\ run.plan[c] # "none" => change[c].state # "stopped"
    /\ run.plan[c] \in {"push", "decide"} =>
          rounds[c][Newest(c)].outcome = "open"
    /\ run.plan[c] = "fix" => rounds[c][Newest(c)].outcome = "fail"
    /\ run.plan[c] = "landing" => PassedNewest(c)
    /\ run.plan[c] \in {"outcome", "settle"} =>
          \/ ~Runs(c) /\ change[c].state = "cancelled"
          \/ run.at = "accept" /\ run.now[1] = c
          \/ OwesOutcome(c)

-----------------------------------------------------------------------------
(* A merge that may still act, or that Retry may take up. *)
Acts(c) ==
    IsMerge(c) /\ (Live(LastOf(c)) \/ change[c].unknown # NoEffect)

(* It is for the newest round, whose change waits for it ... *)
Fit(c) ==
    /\ LastOf(c).round = Newest(c)
    /\ LastOf(c).pin.base <= origin.head[c].base
    /\ run.plan[c] # "result"
    /\ \/ change[c].state = "landing"
       \/ change[c].state = "gating" /\ change[c].step = "awaiting-slot"
       \/ change[c].state = "stopped" /\ change[c].unknown # NoEffect

(* ... or the base has moved past it, and the call finds that out ... *)
Sunk(c) == LastOf(c).pin.base < origin.base

(* ... or the change is done with. *)
Out(c) ==
    \/ ~Runs(c) /\ LastOf(c).state # "running"
    \/ change[c].state = "landed"
    \/ change[c].state = "stopped" /\ task[c] # "open"

Pinned(c) == Acts(c) => Fit(c) \/ Sunk(c) \/ Out(c)

(* The landing stage of the change, once it has begun. *)
Reading(c) ==
    run.now[1] = c =>
        /\ run.at \in {"head", "base", "write"} =>
              change[c].state = "landing" \/ ~Runs(c)
        /\ run.at \in {"base", "write"} =>
              /\ run.head.base <= origin.head[c].base
              /\ Acts(c) => \/ LastOf(c).pin.base <= run.head.base
                            \/ Sunk(c) \/ Out(c)
        /\ run.at = "write" => run.base <= origin.base

-----------------------------------------------------------------------------
Merged(c) ==
    /\ IsMerge(c)
    /\ LastOf(c).state = "done" /\ LastOf(c).outcome = "merged"

MergingNow(c) == change[c].state = "landing" /\ change[c].step = "merging"

(* The change is landing with its merge, or has landed, or its execution   *)
(* has ended: nothing of it is pushed any more.                            *)
Standing(c) ==
    \/ change[c].state = "landed" \/ ~Runs(c) \/ MergingNow(c)
    \/ /\ change[c].state = "landing" /\ change[c].step = "up-to-date"
       /\ LastOf(c).round = Newest(c)

(* The change went on to another round. *)
Overtaken(c) ==
    /\ LastOf(c).round # Newest(c) /\ c \notin facts
    /\ change[c].state # "landed"
    /\ change[c].state = "landing" => Runs(c) /\ change[c].step # "merging"

MergeStands(c) ==
    Merged(c) =>
        \/ Overtaken(c)
        \/ /\ origin.pr[c] = "merged"
           /\ run.plan[c] # "push" \/ ~Runs(c)
           /\ LastOf(c).round = Newest(c) \/ Standing(c)

FactStands(c) ==
    /\ c \in facts =>
          /\ Merged(c) /\ origin.pr[c] = "merged" /\ Standing(c)
          /\ run.plan[c] \in {"none", "outcome", "settle"}
    /\ change[c].state = "landed" => c \in facts

(* The call, or the outcome, that is under way. *)
Called(c) ==
    run.now[1] = c =>
        /\ run.at \in Calls =>
              /\ Last(c) # NoEffect /\ run.now[2] = Last(c)
              /\ LastOf(c).state = "running"
        /\ run.at \in {"merge", "view"} =>
              IsMerge(c) /\ LastOf(c).round = Newest(c)
        /\ run.at = "view" => origin.pr[c] = "merged"
        /\ run.at = "fetch" =>
              Merged(c) /\ origin.pr[c] = "merged" /\ Standing(c)
        /\ run.at = "poll" =>
              /\ Last(c) # NoEffect /\ ~IsMerge(c)
              /\ LastOf(c).state = "done"

Sound(c) ==
    /\ Lasting(c) /\ Reviewed(c) /\ Based(c) /\ Planning(c) /\ Pinned(c)
    /\ Reading(c) /\ MergeStands(c) /\ FactStands(c) /\ Called(c)

FInv == IInv /\ \A c \in Change : Sound(c)

-----------------------------------------------------------------------------
(***************************************************************************)
(* Changes that a step leaves alone                                        *)
(***************************************************************************)
(* The step leaves the change's row, its rounds and the states of its      *)
(* effects as they are; its branch and the base may move on, a result come *)
(* in, its pull request be closed and its task too.                        *)
EffectsKept(c) ==
    /\ Last(c)' = Last(c)
    /\ \A i \in 1..Last(c) :
          /\ effects'[c][i].kind = effects[c][i].kind
          /\ effects'[c][i].round = effects[c][i].round
          /\ effects'[c][i].pin = effects[c][i].pin
          /\ effects'[c][i].state = effects[c][i].state
          /\ effects'[c][i].outcome = effects[c][i].outcome

Kept(c) ==
    /\ change'[c] = change[c] /\ rounds'[c] = rounds[c] /\ EffectsKept(c)
    /\ c \in facts' <=> c \in facts
    /\ origin'.base >= origin.base
    /\ result'[c] = result[c] \/ result'[c].base <= origin'.base
    /\ \/ origin'.head[c] = origin.head[c]
       \/ origin.head[c].base <= origin'.head[c].base
          /\ origin'.head[c].base <= origin'.base
    /\ origin.pr[c] = "merged" => origin'.pr[c] = "merged"
    /\ task[c] # "open" => task'[c] # "open"
    /\ Runs(c)' = Runs(c)

\* The types of what the invariant compares.
LEMMA FactTypes ==
    ASSUME Typed, NEW c \in Change
    PROVE  /\ Last(c) \in Nat /\ Newest(c) \in Nat
           /\ Last(c) # NoEffect => LastOf(c) \in Effect
           /\ Last(c) # NoEffect => Last(c) \in 1..Last(c)
           /\ change[c] \in Row
           /\ origin.base \in Nat /\ origin.head[c].base \in Nat
           /\ result[c].base \in Nat /\ run.head.base \in Nat
           /\ run.base \in Nat
           /\ Last(c) # NoEffect => LastOf(c).pin.base \in Nat
           /\ \A i \in 1..Newest(c) : rounds[c][i].commit.base \in Nat
<1>1. StoreTypeOK
  BY DEF Typed, TypeOK
<1>2. Last(c) \in Nat /\ (Last(c) # NoEffect => Last(c) \in 1..Last(c))
  BY <1>1, EffectType DEF NoEffect
<1>3. Last(c) # NoEffect => LastOf(c) \in Effect
  BY <1>1, <1>2, EffectType DEF LastOf
<1>4. Last(c) # NoEffect => LastOf(c).pin.base \in Nat
  BY <1>3 DEF Effect, Commit
<1>5. /\ change[c] \in Row /\ Newest(c) \in Nat
      /\ \A i \in 1..Newest(c) : rounds[c][i] \in Round
      /\ origin.head[c] \in Commit /\ result[c] \in Commit
      /\ run.head \in Commit /\ run.base \in Nat /\ origin.base \in Nat
  BY ChangeType DEF Typed
<1>6. \A i \in 1..Newest(c) : rounds[c][i].commit.base \in Nat
  BY <1>5 DEF Round, Commit
<1> QED
  BY <1>2, <1>3, <1>4, <1>5, <1>6 DEF Commit

\* What is derived from a change's own rows is kept with them.
LEMMA KeptIsSame ==
    ASSUME Typed, NEW c \in Change, Kept(c)
    PROVE  /\ Last(c)' = Last(c) /\ Newest(c)' = Newest(c)
           /\ Runs(c)' = Runs(c)
           /\ Last(c) # NoEffect =>
                 /\ LastOf(c)'.kind = LastOf(c).kind
                 /\ LastOf(c)'.round = LastOf(c).round
                 /\ LastOf(c)'.pin = LastOf(c).pin
                 /\ LastOf(c)'.state = LastOf(c).state
                 /\ LastOf(c)'.outcome = LastOf(c).outcome
           /\ LiveLanding(c)' = LiveLanding(c)
           /\ IsMerge(c)' = IsMerge(c) /\ Acts(c)' = Acts(c)
           /\ Merged(c)' = Merged(c)
           /\ OwesOutcome(c)' = OwesOutcome(c)
           /\ PassedNewest(c)' = PassedNewest(c)
<1>1. /\ Last(c)' = Last(c) /\ Newest(c)' = Newest(c) /\ Runs(c)' = Runs(c)
      /\ Last(c) \in Nat
  BY FactTypes DEF Kept, EffectsKept, Newest
<1>2. Last(c) # NoEffect =>
         /\ LastOf(c)'.kind = LastOf(c).kind
         /\ LastOf(c)'.round = LastOf(c).round
         /\ LastOf(c)'.pin = LastOf(c).pin
         /\ LastOf(c)'.state = LastOf(c).state
         /\ LastOf(c)'.outcome = LastOf(c).outcome
  <2>1. Last(c) # NoEffect => Last(c) \in 1..Last(c)
    BY FactTypes
  <2> QED
    BY <1>1, <2>1 DEF Kept, EffectsKept, LastOf
<1>3. LiveLanding(c)' = LiveLanding(c)
  <2>1. \A i \in 1..Last(c) : Live(effects'[c][i]) = Live(effects[c][i])
    BY DEF Kept, EffectsKept, Live
  <2>2. LiveLanding(c)' = {i \in 1..Last(c) : Live(effects'[c][i])}
    BY <1>1 DEF LiveLanding, Last
  <2>3. LiveLanding(c) = {i \in 1..Last(c) : Live(effects[c][i])}
    BY DEF LiveLanding, Last
  <2> QED
    BY <2>1, <2>2, <2>3
<1>4. IsMerge(c)' = IsMerge(c)
  BY <1>1, <1>2 DEF IsMerge
<1>5. PassedNewest(c)' = PassedNewest(c)
  BY <1>1 DEF Kept, PassedNewest
<1>6. Acts(c)' = Acts(c) /\ Merged(c)' = Merged(c)
  BY <1>1, <1>2, <1>4 DEF Kept, Acts, Merged, IsMerge, Live
<1>7. OwesOutcome(c)' = OwesOutcome(c)
  BY <1>1, <1>2 DEF Kept, OwesOutcome, Settling, ResumedWait, OfNewestRound,
                    StopVerdict, LastOf
<1> QED
  BY <1>1, <1>2, <1>3, <1>4, <1>5, <1>6, <1>7

\* A change that is kept stays sound, when what is under way is.
LEMMA KeptSound ==
    ASSUME FInv, NEW c \in Change, Kept(c), Typed',
           run'.plan[c] \in {run.plan[c], "none"},
           run.at = "accept" /\ run.now[1] = c =>
              \/ run'.plan[c] = "none"
              \/ run'.at = "accept" /\ run'.now[1] = c,
           Reading(c)', Called(c)'
    PROVE  Sound(c)'
<1>1. Sound(c) /\ Typed
  BY DEF FInv, IInv
<1>2. /\ Last(c)' = Last(c) /\ Newest(c)' = Newest(c)
      /\ Runs(c)' = Runs(c)
      /\ Last(c) # NoEffect =>
            /\ LastOf(c)'.kind = LastOf(c).kind
            /\ LastOf(c)'.round = LastOf(c).round
            /\ LastOf(c)'.pin = LastOf(c).pin
            /\ LastOf(c)'.state = LastOf(c).state
            /\ LastOf(c)'.outcome = LastOf(c).outcome
      /\ LiveLanding(c)' = LiveLanding(c)
      /\ IsMerge(c)' = IsMerge(c) /\ Acts(c)' = Acts(c)
      /\ Merged(c)' = Merged(c)
      /\ OwesOutcome(c)' = OwesOutcome(c)
      /\ PassedNewest(c)' = PassedNewest(c)
  BY <1>1, KeptIsSame
<1>3. /\ origin.base \in Nat /\ origin'.base \in Nat
      /\ origin'.base >= origin.base
      /\ origin.head[c].base \in Nat /\ origin'.head[c].base \in Nat
      /\ result[c].base \in Nat
      /\ \A i \in 1..Newest(c) : rounds[c][i].commit.base \in Nat
      /\ Last(c) # NoEffect => LastOf(c).pin.base \in Nat
  <2>1. origin'.base \in Nat /\ origin'.head[c].base \in Nat
    BY DEF Typed, TypeOK, Origin, Commit
  <2> QED
    BY <1>1, <2>1, FactTypes DEF Kept
<1>4. Acts(c) \/ Merged(c) \/ IsMerge(c) => Last(c) # NoEffect
  BY DEF Acts, Merged, IsMerge
<1>5. Lasting(c)'
  <2>1. change[c].unknown # NoEffect => Last(c) # NoEffect
    BY <1>1 DEF Sound, Lasting
  <2> QED
    BY <1>1, <1>2, <2>1 DEF Sound, Kept, Lasting
<1>6. Reviewed(c)'
  BY <1>1, <1>2, <1>4 DEF Sound, Kept, Reviewed
<1>7. Based(c)'
  BY <1>1, <1>2, <1>3 DEF Sound, Kept, Based
<1>8. Planning(c)'
  BY <1>1, <1>2 DEF Sound, Kept, Planning
<1>9. Pinned(c)'
  <2>1. CASE ~Acts(c)
    BY <1>2, <2>1 DEF Pinned
  <2>2. CASE Acts(c) /\ Fit(c)
    BY <1>2, <1>3, <1>4, <2>2 DEF Pinned, Fit, Kept
  <2>3. CASE Acts(c) /\ Sunk(c)
    BY <1>2, <1>3, <1>4, <2>3 DEF Pinned, Sunk
  <2>4. CASE Acts(c) /\ Out(c)
    BY <1>2, <1>4, <2>4 DEF Pinned, Out, Kept
  <2> QED
    BY <1>1, <2>1, <2>2, <2>3, <2>4 DEF Sound, Pinned
<1>10. Merged(c) => /\ Overtaken(c) => Overtaken(c)'
                    /\ Standing(c) => Standing(c)'
  BY <1>2, <1>4 DEF Kept, Overtaken, Standing, MergingNow
<1>11. MergeStands(c)'
  BY <1>1, <1>2, <1>4, <1>10 DEF Sound, Kept, MergeStands
<1>12. FactStands(c)'
  BY <1>1, <1>2, <1>4, <1>10 DEF Sound, Kept, FactStands
<1> QED
  BY <1>5, <1>6, <1>7, <1>8, <1>9, <1>11, <1>12 DEF Sound

(* A place where nothing of any change is under way. *)
Quiet == {"idle", "stages", "inspect", "due"}

\* Nothing of the change is under way after the step.
LEMMA ElsewhereThen ==
    ASSUME NEW c \in Change,
           run'.now[1] # c \/ run'.at \in Quiet \cup {"accept"}
    PROVE  Reading(c)' /\ Called(c)'
BY DEF Reading, Called, Calls, Quiet

\* A step of the executor for one change leaves the others sound.
LEMMA OthersSound ==
    ASSUME FInv, Typed', NEW c \in Change, NEW d \in Change \ {c}, Kept(d),
           run'.plan[d] \in {run.plan[d], "none"},
           run.at # "accept" \/ run.now[1] = c,
           run'.at \in Quiet \/ run'.now[1] = c
    PROVE  Sound(d)'
<1>1. Reading(d)' /\ Called(d)'
  BY ElsewhereThen
<1> QED
  BY <1>1, KeptSound

\* A step beside the executor leaves a change that it keeps sound.
LEMMA BesideSound ==
    ASSUME FInv, Typed', NEW c \in Change, Kept(c), run' = run
    PROVE  Sound(c)'
<1>1. Sound(c) /\ Typed
  BY DEF FInv, IInv
<1>2. /\ Last(c)' = Last(c) /\ Newest(c)' = Newest(c)
      /\ Runs(c)' = Runs(c)
      /\ Last(c) # NoEffect =>
            /\ LastOf(c)'.round = LastOf(c).round
            /\ LastOf(c)'.pin = LastOf(c).pin
            /\ LastOf(c)'.state = LastOf(c).state
      /\ IsMerge(c)' = IsMerge(c) /\ Acts(c)' = Acts(c)
      /\ Merged(c)' = Merged(c)
  BY <1>1, KeptIsSame
<1>3. Acts(c) \/ Merged(c) \/ IsMerge(c) => Last(c) # NoEffect
  BY DEF Acts, Merged, IsMerge
<1>4. /\ origin.base \in Nat /\ origin'.base \in Nat
      /\ origin'.base >= origin.base /\ run.base \in Nat
      /\ origin.head[c].base \in Nat /\ origin'.head[c].base \in Nat
      /\ run.head.base \in Nat
      /\ Last(c) # NoEffect => LastOf(c).pin.base \in Nat
  <2>1. origin'.base \in Nat /\ origin'.head[c].base \in Nat
    BY DEF Typed, TypeOK, Origin, Commit
  <2> QED
    BY <1>1, <2>1, FactTypes DEF Kept
<1>5. Acts(c) => /\ Sunk(c) => Sunk(c)'
                 /\ Out(c) => Out(c)'
  BY <1>2, <1>3, <1>4 DEF Kept, Sunk, Out
<1>6. Reading(c)'
  BY <1>1, <1>2, <1>3, <1>4, <1>5 DEF Sound, Kept, Reading
<1>7. Merged(c) /\ Standing(c) => Standing(c)'
  BY <1>2, <1>3 DEF Kept, Standing, MergingNow
<1>8. run.now[1] = c /\ run.at = "poll" /\ Last(c) # NoEffect
        => LastOf(c)'.state = "done"
  BY <1>1, <1>2 DEF Sound, Called
<1>9. Called(c)'
  BY <1>1, <1>2, <1>3, <1>7, <1>8 DEF Sound, Kept, Called
<1> QED
  BY <1>6, <1>9, KeptSound

-----------------------------------------------------------------------------
(***************************************************************************)
(* What comes in between                                                   *)
(***************************************************************************)
\* Rows, rounds and effects that a step does not write are kept.
LEMMA StoreKept ==
    ASSUME Typed, Typed', NEW c \in Change,
           UNCHANGED <<exec, change, rounds, effects, facts>>,
           task[c] # "open" => task'[c] # "open",
           origin' = origin \/ origin'.base >= origin.base,
           result'[c] = result[c] \/ result'[c].base <= origin'.base,
           \/ origin'.head[c] = origin.head[c]
           \/ origin.head[c].base <= origin'.head[c].base
              /\ origin'.head[c].base <= origin'.base,
           origin.pr[c] = "merged" => origin'.pr[c] = "merged"
    PROVE  Kept(c)
<1>1. EffectsKept(c) /\ Runs(c)' = Runs(c)
  BY DEF EffectsKept, Last, Runs
<1>2. origin'.base >= origin.base
  BY FactTypes
<1> QED
  BY <1>1, <1>2 DEF Kept

\* GitHub, others who push to it, and the base moving on.
LEMMA OriginSound ==
    ASSUME FInv, Typed', NEW c \in Change,
           GitHubUpdates(c) \/ PushByOther(c) \/ ShutPull(c) \/ MergeByOther
    PROVE  \A d \in Change : Sound(d)'
<1>1. Typed /\ origin \in Origin /\ origin' \in Origin
  BY DEF FInv, IInv, Typed, TypeOK
<1>2. UNCHANGED <<exec, change, rounds, effects, facts, task, result, run>>
  BY DEF GitHubUpdates, PushByOther, ShutPull, MergeByOther, store
<1> SUFFICES ASSUME NEW d \in Change
             PROVE  Sound(d)'
  OBVIOUS
<1>3. /\ origin.base \in Nat /\ origin.head[d] \in Commit
      /\ origin.head[d].base <= origin.base
      /\ origin.head \in [Change -> Commit]
  BY <1>1 DEF FInv, Sound, Based, Origin
<1>4. /\ origin'.base >= origin.base
      /\ origin.pr[d] = "merged" => origin'.pr[d] = "merged"
      /\ \/ origin'.head[d] = origin.head[d]
         \/ origin.head[d].base <= origin'.head[d].base
            /\ origin'.head[d].base <= origin'.base
  <2>1. CASE GitHubUpdates(c)
    <3> DEFINE head == IF origin.head[c] = origin.asked[c] /\ origin.pr[c] = "open"
                         THEN [origin.head[c] EXCEPT !.base = origin.base]
                         ELSE origin.head[c]
    <3>1. /\ origin'.base = origin.base /\ origin'.pr = origin.pr
          /\ origin'.head = [origin.head EXCEPT ![c] = head]
      BY <1>1, <2>1 DEF GitHubUpdates, Origin
    <3>2. origin.head[c] \in Commit
      BY <1>3
    <3>3. head = origin.head[c] \/ head.base = origin.base
      BY <3>2 DEF Commit
    <3> HIDE DEF head
    <3>4. origin'.head[d] = IF d = c THEN head ELSE origin.head[d]
      BY <1>3, <3>1
    <3> QED
      BY <1>3, <3>1, <3>3, <3>4 DEF Commit
  <2>2. CASE PushByOther(c)
    <3>1. PICK w \in NextWork(c) : origin' = [origin EXCEPT !.head[c].work = w]
      BY <2>2 DEF PushByOther
    <3>2. /\ origin'.base = origin.base /\ origin'.pr = origin.pr
          /\ origin'.head = [origin.head EXCEPT ![c].work = w]
      BY <1>1, <3>1 DEF Origin
    <3>3. origin'.head[d].base = origin.head[d].base
      BY <1>3, <3>2 DEF Commit
    <3> QED
      BY <1>3, <3>2, <3>3 DEF Commit
  <2>3. CASE ShutPull(c)
    <3>1. /\ origin'.base = origin.base /\ origin'.head = origin.head
          /\ origin'.pr = [origin.pr EXCEPT ![c] = "closed"]
          /\ origin.pr[c] = "open"
      BY <1>1, <2>3 DEF ShutPull, OnGitHub, Origin
    <3> QED
      BY <1>1, <1>3, <3>1 DEF Origin
  <2>4. CASE MergeByOther
    <3>1. /\ origin'.base = origin.base + 1 /\ origin'.head = origin.head
          /\ origin'.pr = origin.pr
      BY <1>1, <2>4 DEF MergeByOther, Origin
    <3> QED
      BY <1>3, <3>1
  <2> QED
    BY <2>1, <2>2, <2>3, <2>4
<1>5. Kept(d)
  BY <1>1, <1>2, <1>4, StoreKept
<1> QED
  BY <1>2, <1>5, BesideSound

\* A result, a closed task, a hold: the change's rows stay.
LEMMA CommandSound ==
    ASSUME FInv, Typed', NEW c \in Change,
           \/ Submit(c) \/ Hold(c) \/ Release(c) \/ CloseTask(c)
           \/ UNCHANGED vars
    PROVE  \A d \in Change : Sound(d)'
<1>1. Typed
  BY DEF FInv, IInv
<1>2. UNCHANGED <<exec, change, rounds, effects, facts, origin, run>>
  BY DEF Submit, Hold, Release, CloseTask, vars, store
<1> SUFFICES ASSUME NEW d \in Change
             PROVE  Sound(d)'
  OBVIOUS
<1>3. task[d] # "open" => task'[d] # "open"
  BY <1>1 DEF Submit, Hold, Release, CloseTask, vars, store, Typed, TypeOK,
              StoreTypeOK
<1>4. result'[d] = result[d] \/ result'[d].base <= origin'.base
  <2>1. CASE Submit(c)
    <3>1. PICK w \in NextWork(c), b \in {origin.head[c].base, origin.base} :
             result' = [result EXCEPT ![c] = [work |-> w, base |-> b]]
      BY <2>1 DEF Submit
    <3>2. b <= origin.base
      BY <1>1, FactTypes DEF FInv, Sound, Based
    <3> QED
      BY <1>1, <1>2, <3>1, <3>2 DEF Typed, TypeOK
  <2>2. CASE result' = result
    BY <2>2
  <2> QED
    BY <2>1, <2>2 DEF Hold, Release, CloseTask, vars
<1>5. Kept(d)
  BY <1>1, <1>2, <1>3, <1>4, StoreKept
<1> QED
  BY <1>2, <1>5, BesideSound

\* A backoff ends.
LEMMA BackoffSound ==
    ASSUME FInv, Typed', NEW c \in Change, NEW i \in 1..Last(c),
           BackoffEnds(c, i)
    PROVE  \A d \in Change : Sound(d)'
<1>1. Typed /\ StoreTypeOK
  BY DEF FInv, IInv, Typed, TypeOK
<1>2. /\ UNCHANGED <<exec, change, rounds, facts, task, result, origin, run>>
      /\ effects' = [effects EXCEPT ![c][i].due = TRUE]
  BY DEF BackoffEnds
<1>3. effects[c] \in Seq(Effect) /\ i \in 1..Len(effects[c])
      /\ effects[c][i] \in Effect
  BY <1>1, EffectType DEF Last
<1> SUFFICES ASSUME NEW d \in Change
             PROVE  Sound(d)'
  OBVIOUS
<1>4. EffectsKept(d)
  <2> DEFINE e == [effects[c][i] EXCEPT !.due = TRUE]
  <2>1. /\ e.kind = effects[c][i].kind /\ e.round = effects[c][i].round
        /\ e.pin = effects[c][i].pin /\ e.state = effects[c][i].state
        /\ e.outcome = effects[c][i].outcome
    BY <1>3 DEF Effect
  <2>2. effects' = [effects EXCEPT ![c] = [effects[c] EXCEPT ![i] = e]]
    BY <1>1, <1>2 DEF StoreTypeOK
  <2> HIDE DEF e
  <2>3. effects'[d] = IF d = c THEN [effects[c] EXCEPT ![i] = e] ELSE effects[d]
    BY <1>1, <2>2 DEF StoreTypeOK
  <2>4. CASE d = c
    <3>1. effects'[c] = [effects[c] EXCEPT ![i] = e]
      BY <2>3, <2>4
    <3>2. Len(effects'[c]) = Len(effects[c])
          /\ \A j \in 1..Len(effects[c]) :
                effects'[c][j] = IF j = i THEN e ELSE effects[c][j]
      BY <1>3, <3>1
    <3> QED
      BY <2>1, <2>4, <3>2 DEF EffectsKept, Last
  <2> QED
    BY <2>3, <2>4 DEF EffectsKept, Last
<1>5. Runs(d)' = Runs(d) /\ origin.base >= origin.base
  BY <1>1, <1>2, FactTypes DEF Runs
<1> QED
  BY <1>2, <1>4, <1>5, BesideSound DEF Kept

-----------------------------------------------------------------------------
(***************************************************************************)
(* The executor reads, waits and goes on                                   *)
(***************************************************************************)
\* The pass is at a quiet place, and the change is kept.
LEMMA QuietSound ==
    ASSUME FInv, Typed', NEW c \in Change, Kept(c),
           run'.at \in Quiet, run'.plan[c] \in {run.plan[c], "none"},
           run.at = "accept" /\ run.now[1] = c => run'.plan[c] = "none"
    PROVE  Sound(c)'
<1>1. Reading(c)' /\ Called(c)'
  BY ElsewhereThen
<1> QED
  BY <1>1, KeptSound

\* A step that writes no row keeps every change.
LEMMA NothingWritten ==
    ASSUME Typed, UNCHANGED <<exec, change, rounds, effects, facts, task, result,
                              origin>>
    PROVE  \A c \in Change : Kept(c)
<1>1. origin.base >= origin.base
  BY DEF Typed, TypeOK, Origin
<1> QED
  BY <1>1 DEF Kept, EffectsKept, Last, Runs

\* The stage that ends leaves the other stages to do.
LEMMA StageIsDone ==
    ASSUME Typed, NEW c \in Change, NextStage(c)
    PROVE  /\ run'.at = "stages" /\ run'.plan[c] = "none"
           /\ \A d \in Change : run'.plan[d] \in {run.plan[d], "none"}
<1>1. run \in Executor
  BY DEF Typed, TypeOK
<1>2. run'.at = "stages" /\ run'.plan = [run.plan EXCEPT ![c] = "none"]
  BY DEF NextStage, Idle
<1> QED
  BY <1>1, <1>2 DEF Executor

\* The second half of the pass takes its next effect, or comes to its end.
LEMMA TurnSound ==
    ASSUME FInv, Typed', Inspect \/ RanDue \/ Inspected
    PROVE  \A c \in Change : Sound(c)'
<1>1. Typed /\ run \in Executor
  BY DEF FInv, IInv, Typed, TypeOK
<1>2. /\ UNCHANGED <<exec, change, rounds, effects, facts, task, result, origin>>
      /\ run.at \in {"stages", "inspect", "due"}
  BY DEF Inspect, RanDue, Inspected, store
<1>3. run'.at \in Quiet /\ \A c \in Change : run'.plan[c] \in {run.plan[c], "none"}
  <2>1. CASE run' = Idle
    BY <2>1 DEF Idle, Quiet
  <2>2. CASE run' = [run EXCEPT !.at = "inspect", !.todo = DueUnknownEffects]
    BY <1>1, <2>2 DEF Executor, Quiet
  <2>3. CASE run' = [run EXCEPT !.at = "due", !.todo = DueEffects]
    BY <1>1, <2>3 DEF Executor, Quiet
  <2> QED
    BY <2>1, <2>2, <2>3 DEF Inspect, RanDue, Inspected
<1> QED
  BY <1>1, <1>2, <1>3, NothingWritten, QuietSound

\* The server that starts again has no stage left to do, and nothing under way.
LEMMA RestartIsDone ==
    ASSUME Restarted
    PROVE  run'.at \in Quiet /\ \A c \in Change : run'.plan[c] = "none"
BY DEF Restarted, Idle, Quiet

\* A stage that ends, or is cut off, without having written anything.
LEMMA IdleStageSound ==
    ASSUME FInv, Typed', NEW c \in Change, NextStage(c) \/ Restarted,
           run.at # "accept",
           UNCHANGED <<exec, change, rounds, effects, facts, task, result, origin>>
    PROVE  \A d \in Change : Sound(d)'
<1>1. Typed
  BY DEF FInv, IInv
<1> QED
  BY <1>1, NothingWritten, StageIsDone, RestartIsDone, QuietSound DEF Quiet

\* The landing stage reads the branch and the base.
LEMMA ReadingSound ==
    ASSUME FInv, Typed', NEW c \in Change,
           ReadHead(c) \/ (ReadBase /\ run.now[1] = c)
    PROVE  \A d \in Change : Sound(d)'
<1>1. Typed /\ run \in Executor /\ Sound(c)
  BY DEF FInv, IInv, Typed, TypeOK
<1>2. /\ UNCHANGED <<exec, change, rounds, effects, facts, task, result, origin>>
      /\ run.now[1] = c /\ run.at \in {"head", "base"}
  BY DEF ReadHead, ReadBase, On, store
<1>3. /\ run'.now = run.now /\ run'.plan = run.plan
      /\ \/ /\ run.at = "head" /\ run'.at = "base"
            /\ run'.head = origin.head[c]
         \/ /\ run.at = "base" /\ run'.at = "write" /\ run'.head = run.head
            /\ run'.base = origin.base
  BY <1>1, <1>2 DEF ReadHead, ReadBase, On, Executor
<1>4. \A d \in Change : Kept(d)
  BY <1>1, <1>2, NothingWritten
<1>5. ASSUME NEW d \in Change \ {c} PROVE Sound(d)'
  BY <1>2, <1>3, <1>4, OthersSound
<1>6. Sound(c)'
  <2>1. /\ Last(c)' = Last(c) /\ LastOf(c)' = LastOf(c)
        /\ Runs(c)' = Runs(c) /\ Acts(c)' = Acts(c)
        /\ Sunk(c)' = Sunk(c) /\ Out(c)' = Out(c)
    BY <1>2 DEF Last, LastOf, Runs, Acts, IsMerge, Live, Sunk, Out
  <2>2. run'.head.base <= origin.head[c].base
        /\ (run'.at = "write" => run'.base <= origin.base)
    <3>1. origin.head[c].base \in Nat /\ origin.base \in Nat
      BY <1>1, FactTypes
    <3> QED
      BY <1>1, <1>2, <1>3, <3>1 DEF Sound, Reading
  <2>3. Acts(c) => \/ LastOf(c).pin.base <= run'.head.base
                   \/ Sunk(c) \/ Out(c)
    BY <1>1, <1>2, <1>3 DEF Sound, Reading, Pinned, Fit
  <2>4. Reading(c)'
    BY <1>1, <1>2, <1>3, <2>1, <2>2, <2>3 DEF Sound, Reading
  <2>5. Called(c)'
    BY <1>3 DEF Called, Calls
  <2> QED
    BY <1>2, <1>3, <1>4, <2>4, <2>5, KeptSound
<1> QED
  BY <1>5, <1>6

-----------------------------------------------------------------------------
(***************************************************************************)
(* Stages                                                                  *)
(***************************************************************************)
\* The last effect of a change whose effects are as they were.
LEMMA SameEffects ==
    ASSUME NEW c \in Change, effects'[c] = effects[c]
    PROVE  /\ Last(c)' = Last(c) /\ LastOf(c)' = LastOf(c)
           /\ LiveLanding(c)' = LiveLanding(c)
           /\ IsMerge(c)' = IsMerge(c) /\ Merged(c)' = Merged(c)
BY DEF Last, LastOf, LiveLanding, IsMerge, Merged

\* A stage has ended, or was cut off: what its change's own rows must satisfy.
LEMMA StageSound ==
    ASSUME FInv, Typed', NEW c \in Change, NextStage(c) \/ Restarted,
           run.at # "accept" \/ run.now[1] = c,
           \A d \in Change \ {c} : Kept(d),
           Lasting(c)', Reviewed(c)', Based(c)', Pinned(c)', MergeStands(c)',
           FactStands(c)'
    PROVE  \A d \in Change : Sound(d)'
<1>1. /\ run'.at \in Quiet /\ run'.plan[c] = "none"
      /\ \A d \in Change : run'.plan[d] \in {run.plan[d], "none"}
  BY StageIsDone, RestartIsDone DEF FInv, IInv, Quiet
<1>2. ASSUME NEW d \in Change \ {c} PROVE Sound(d)'
  BY <1>1, <1>2, OthersSound
<1>3. Reading(c)' /\ Called(c)'
  BY <1>1, ElsewhereThen
<1>4. Planning(c)'
  BY <1>1 DEF Planning
<1>5. Sound(c)'
  BY <1>3, <1>4 DEF Sound
<1> QED
  BY <1>2, <1>5

\* A stage of a change that has no landing fact ends, or is cut off, and
\* leaves the effects as they are.
LEMMA StageLeaves ==
    ASSUME FInv, Typed', NEW c \in Change, NextStage(c) \/ Restarted,
           run.plan[c] # "none", c \notin facts,
           run.at # "accept" \/ run.now[1] = c,
           \A d \in Change \ {c} : Kept(d),
           exec' = exec, effects' = effects, facts' = facts,
           origin'.base = origin.base, Based(c)',
           change'[c].unknown \in {change[c].unknown, NoEffect},
           change'[c].state # "landed",
           Newest(c)' >= Newest(c),
           \A i \in 1..Newest(c) : rounds[c][i].outcome = "pass"
                                      => rounds'[c][i].outcome = "pass",
           Acts(c) /\ Fit(c) => Fit(c)' \/ Sunk(c)',
           origin'.pr[c] = origin.pr[c] \/ Overtaken(c) \/ ~Merged(c),
           \/ change'[c] = change[c] \/ ~Merged(c)
           \/ change'[c].state = "landing"
                 => Runs(c) /\ change'[c].step # "merging"
    PROVE  \A d \in Change : Sound(d)'
<1>1. Typed /\ Sound(c)
  BY DEF FInv, IInv
<1>2. /\ Last(c)' = Last(c) /\ LastOf(c)' = LastOf(c)
      /\ LiveLanding(c)' = LiveLanding(c)
      /\ IsMerge(c)' = IsMerge(c) /\ Merged(c)' = Merged(c)
      /\ Runs(c)' = Runs(c)
  BY SameEffects DEF Runs
<1>3. /\ change[c].state \notin {"landed", "stopped"}
      /\ Newest(c) \in Nat /\ Newest(c)' \in Nat
  BY <1>1, FactTypes DEF Sound, FactStands, Planning, Typed, TypeOK, StoreTypeOK,
                         Newest
<1>4. run'.plan[c] = "none"
  BY <1>1, StageIsDone, RestartIsDone
<1>5. Lasting(c)'
  BY <1>1, <1>2 DEF Sound, Lasting
<1>6. Reviewed(c)'
  <2>1. IsMerge(c) => LastOf(c).round \in 1..Newest(c)'
    BY <1>1, <1>3 DEF Sound, Reviewed
  <2> QED
    BY <1>1, <1>2, <2>1 DEF Sound, Reviewed
<1>7. Pinned(c)'
  <2>1. Acts(c)' => Acts(c)
    BY <1>2 DEF Acts
  <2>2. Sunk(c) => Sunk(c)'
    BY <1>2 DEF Sunk
  <2>3. Out(c) => Out(c)'
    BY <1>2, <1>3 DEF Out
  <2> QED
    BY <1>1, <2>1, <2>2, <2>3 DEF Sound, Pinned
<1>8. MergeStands(c)'
  <2> SUFFICES ASSUME Merged(c)
               PROVE  \/ Overtaken(c)'
                      \/ /\ origin'.pr[c] = "merged"
                         /\ LastOf(c).round = Newest(c)' \/ Standing(c)'
    BY <1>2, <1>4 DEF MergeStands
  <2>1. LastOf(c).round \in 1..Newest(c)
    BY <1>1 DEF Merged, Sound, Reviewed
  <2>2. LastOf(c).round # Newest(c) => LastOf(c).round # Newest(c)'
    BY <1>3, <2>1
  <2>3. CASE ~Runs(c)
    BY <1>1, <1>2, <1>3, <2>2, <2>3 DEF Sound, MergeStands, Overtaken, Standing
  <2>4. CASE Runs(c) /\ LastOf(c).round # Newest(c)'
    BY <1>1, <1>2, <1>3, <2>2, <2>4 DEF Sound, MergeStands, Overtaken, Standing,
                                        MergingNow
  <2>5. CASE LastOf(c).round = Newest(c)'
    BY <1>1, <2>2, <2>5 DEF Sound, MergeStands, Overtaken
  <2> QED
    BY <2>3, <2>4, <2>5
<1>9. FactStands(c)'
  BY DEF FactStands
<1> QED
  BY <1>5, <1>6, <1>7, <1>8, <1>9, StageSound

\* What a step leaves alone of the other changes keeps them.
LEMMA OthersKept ==
    ASSUME Typed, Typed', NEW c \in Change, exec' = exec,
           origin'.base = origin.base,
           \A d \in Change \ {c} :
              /\ change'[d] = change[d] /\ rounds'[d] = rounds[d]
              /\ effects'[d] = effects[d] /\ result'[d] = result[d]
              /\ origin'.head[d] = origin.head[d]
              /\ origin'.pr[d] = origin.pr[d]
              /\ task[d] # "open" => task'[d] # "open"
              /\ d \in facts' <=> d \in facts
    PROVE  \A d \in Change \ {c} : Kept(d)
<1>1. origin'.base >= origin.base
  BY DEF Typed, TypeOK, Origin
<1> SUFFICES ASSUME NEW d \in Change \ {c}
             PROVE  Kept(d)
  OBVIOUS
<1>2. EffectsKept(d) /\ Runs(d)' = Runs(d)
  BY DEF EffectsKept, Last, Runs
<1> QED
  BY <1>1, <1>2 DEF Kept

\* A transition writes one row.
LEMMA OneRow ==
    ASSUME Typed, NEW c \in Change, NEW row, Transition(c, row)
    PROVE  change'[c] = row /\ \A d \in Change \ {c} : change'[d] = change[d]
BY DEF Transition, Typed, TypeOK, StoreTypeOK

\* A round is added behind the others, which keep their commits and passes.
LEMMA WithRoundAdds ==
    ASSUME Typed, NEW c \in Change, NEW round,
           rounds'[c] = WithRound(c, round)
    PROVE  /\ Newest(c)' = Newest(c) + 1
           /\ rounds'[c][Newest(c) + 1] = round
           /\ \A i \in 1..Newest(c) :
                 /\ rounds'[c][i].commit = rounds[c][i].commit
                 /\ rounds[c][i].outcome = "pass" =>
                       rounds'[c][i].outcome = "pass"
<1> DEFINE older == [i \in 1..Newest(c) |->
               IF i = Newest(c) /\ rounds[c][i].outcome = "open"
                 THEN [rounds[c][i] EXCEPT !.outcome = "superseded"]
                 ELSE rounds[c][i]]
<1>1. /\ Newest(c) \in Nat /\ \A i \in 1..Newest(c) : rounds[c][i] \in Round
  BY ChangeType DEF Typed
<1>2. \A i \in 1..Newest(c) :
         /\ older[i].commit = rounds[c][i].commit
         /\ rounds[c][i].outcome = "pass" => older[i].outcome = "pass"
         /\ older[i] \in Round
  BY <1>1 DEF Round
<1>3. older \in Seq(Round) /\ Len(older) = Newest(c)
  BY <1>1, <1>2
<1>4. rounds'[c] = Append(older, round)
  BY DEF WithRound
<1> HIDE DEF older
<1>5. /\ Len(Append(older, round)) = Newest(c) + 1
      /\ \A i \in 1..Newest(c) : Append(older, round)[i] = older[i]
      /\ Append(older, round)[Newest(c) + 1] = round
  BY <1>1, <1>3
<1> QED
  BY <1>1, <1>2, <1>4, <1>5 DEF Newest

\* A result becomes the newest round.
LEMMA InsertRoundSound ==
    ASSUME FInv, Typed', NEW c \in Change, InsertRound(c)
    PROVE  \A d \in Change : Sound(d)'
<1> DEFINE round == [commit |-> result[c], pushed |-> FALSE, carried |-> FALSE,
                     outcome |-> "open"]
           row == [change[c] EXCEPT !.state = "gating", !.step = "none"]
<1>1. IInv /\ Typed /\ Sound(c)
  BY DEF FInv, IInv
<1>2. OnStage(c) /\ run.at = "stages" /\ run.plan[c] = "result"
  BY <1>1, StageIsPlanned DEF InsertRound, StageName
<1>3. NextStage(c)
      /\ UNCHANGED <<exec, effects, facts, task, origin>>
  BY DEF InsertRound
<1>4. /\ rounds'[c] = WithRound(c, round)
      /\ \A d \in Change \ {c} : rounds'[d] = rounds[d]
      /\ result'[c] = NoCommit
      /\ \A d \in Change \ {c} : result'[d] = result[d]
  BY <1>1 DEF InsertRound, Typed, TypeOK, StoreTypeOK
<1>5. change[c] \in Row
  BY <1>1, FactTypes
<1>6. row.state = "gating" /\ row.unknown = change[c].unknown
  BY <1>5 DEF Row
<1>7. Transition(c, row) \/ UNCHANGED <<change, slot>>
  BY DEF InsertRound
<1>8. /\ change'[c] = change[c] \/ change'[c] = row
      /\ \A d \in Change \ {c} : change'[d] = change[d]
  <2> HIDE DEF row
  <2> QED
    BY <1>1, <1>7, OneRow
<1> HIDE DEF row
<1>9. \A d \in Change \ {c} : Kept(d)
  BY <1>1, <1>3, <1>4, <1>8, OthersKept
<1>10. /\ Newest(c)' = Newest(c) + 1 /\ rounds'[c][Newest(c) + 1] = round
       /\ \A i \in 1..Newest(c) :
                 /\ rounds'[c][i].commit = rounds[c][i].commit
                 /\ rounds[c][i].outcome = "pass" =>
                       rounds'[c][i].outcome = "pass"
  BY <1>1, <1>4, WithRoundAdds
<1>11. Based(c)'
  <2>1. /\ Newest(c) \in Nat /\ origin.base \in Nat
        /\ \A i \in 1..Newest(c)' : i \in 1..Newest(c) \/ i = Newest(c) + 1
    BY <1>1, <1>10, FactTypes
  <2>2. round.commit = result[c]
    OBVIOUS
  <2> HIDE DEF round
  <2>3. \A i \in 1..Newest(c) : rounds[c][i].commit.base <= origin.base
    BY <1>1 DEF Sound, Based
  <2>4. \A i \in 1..Newest(c)' : rounds'[c][i].commit.base <= origin'.base
    BY <1>1, <1>3, <1>10, <2>1, <2>2, <2>3 DEF Sound, Based
  <2> QED
    BY <1>1, <1>3, <1>4, <2>1, <2>4 DEF Sound, Based, NoCommit
<1>12. ~Fit(c)
  BY <1>2 DEF Fit
<1>13. c \notin facts
  BY <1>1, <1>2 DEF Sound, FactStands
<1>14. change[c].state # "landed" /\ Newest(c) \in Nat
  BY <1>1, <1>2, StageOf, FactTypes
<1> QED
  BY <1>2, <1>3, <1>6, <1>8, <1>9, <1>10, <1>11, <1>12, <1>13, <1>14,
     StageLeaves

\* No merge waits for a round that is reviewed or repaired.
LEMMA StageUnfit ==
    ASSUME FInv, NEW c \in Change,
           run.plan[c] \in {"result", "push", "decide", "fix"}
    PROVE  ~(Acts(c) /\ Fit(c)) /\ c \notin facts
BY DEF FInv, Sound, Planning, Reviewed, FactStands, Acts, Fit

\* The newest round is written in place.
LEMMA RoundInPlace ==
    ASSUME Typed, NEW c \in Change, Newest(c) # 0, NEW round \in Round,
           rounds' = [rounds EXCEPT ![c] = [rounds[c] EXCEPT ![Newest(c)] = round]]
    PROVE  /\ Newest(c)' = Newest(c) /\ Newest(c) \in 1..Newest(c)
           /\ rounds'[c][Newest(c)] = round
           /\ \A i \in 1..Newest(c) :
                 i # Newest(c) => rounds'[c][i] = rounds[c][i]
           /\ \A d \in Change \ {c} : rounds'[d] = rounds[d]
<1>1. /\ StoreTypeOK /\ rounds[c] \in Seq(Round) /\ Newest(c) = Len(rounds[c])
      /\ Newest(c) \in 1..Newest(c)
  BY ChangeType DEF Typed, TypeOK, Newest
<1>2. rounds'[c] = [rounds[c] EXCEPT ![Newest(c)] = round]
      /\ \A d \in Change \ {c} : rounds'[d] = rounds[d]
  BY <1>1 DEF StoreTypeOK
<1> QED
  BY <1>1, <1>2 DEF Newest

\* The newest round is pushed, or its change stops.
LEMMA PushSound ==
    ASSUME FInv, Typed', NEW c \in Change, Push(c)
    PROVE  \A d \in Change : Sound(d)'
<1>1. IInv /\ Typed /\ Sound(c)
  BY DEF FInv, IInv
<1>2. OnStage(c) /\ run.at = "stages" /\ run.plan[c] = "push"
  BY <1>1, StageIsPlanned DEF Push, StageName
<1>3. NextStage(c) /\ UNCHANGED <<exec, effects, facts, task, result>>
  BY DEF Push, store
<1>4. /\ ~(Acts(c) /\ Fit(c)) /\ c \notin facts /\ Newest(c) # 0
      /\ change[c].state # "landed" /\ Newest(c) \in Nat
  BY <1>1, <1>2, StageUnfit, StageOf, FactTypes DEF Typed
<1>5. CASE UNCHANGED <<store, origin>>
  BY <1>2, <1>3, <1>5, IdleStageSound DEF store
<1>6. CASE /\ Transition(c, Stopped(c, NoEffect))
           /\ UNCHANGED <<rounds, origin>>
  <2>1. /\ change'[c] = Stopped(c, NoEffect)
        /\ \A d \in Change \ {c} : change'[d] = change[d]
    BY <1>1, <1>6, OneRow
  <2>2. Stopped(c, NoEffect).state = "stopped"
        /\ Stopped(c, NoEffect).unknown = NoEffect
    BY <1>1, StoppedRow DEF NoEffect
  <2>3. \A d \in Change \ {c} : Kept(d)
    BY <1>1, <1>3, <1>6, <2>1, OthersKept
  <2>4. Based(c)' /\ Newest(c)' = Newest(c)
    BY <1>1, <1>3, <1>6 DEF Sound, Based, Newest
  <2> QED
    BY <1>2, <1>3, <1>4, <1>6, <2>1, <2>2, <2>3, <2>4, StageLeaves
<1>7. CASE /\ Runs(c) /\ UNCHANGED change
           /\ origin' = [origin EXCEPT !.head[c] = rounds[c][Newest(c)].commit,
                                       !.pr[c] = "open"]
           /\ rounds' = [rounds EXCEPT ![c][Newest(c)].pushed = TRUE]
  <2> DEFINE round == [rounds[c][Newest(c)] EXCEPT !.pushed = TRUE]
  <2>1. StoreTypeOK /\ origin \in Origin /\ rounds[c][Newest(c)] \in Round
    BY <1>1, <1>4, ChangeType DEF Typed, TypeOK
  <2>2. /\ round \in Round /\ round.commit = rounds[c][Newest(c)].commit
        /\ round.outcome = rounds[c][Newest(c)].outcome
    BY <2>1 DEF Round
  <2>3. rounds' = [rounds EXCEPT ![c] = [rounds[c] EXCEPT ![Newest(c)] = round]]
    BY <1>7, <2>1 DEF StoreTypeOK
  <2> HIDE DEF round
  <2>4. /\ Newest(c)' = Newest(c) /\ Newest(c) \in 1..Newest(c)
        /\ rounds'[c][Newest(c)] = round
        /\ \A i \in 1..Newest(c) :
              i # Newest(c) => rounds'[c][i] = rounds[c][i]
        /\ \A d \in Change \ {c} : rounds'[d] = rounds[d]
    BY <1>1, <1>4, <2>2, <2>3, RoundInPlace
  <2>5. \A i \in 1..Newest(c) :
           /\ rounds'[c][i].commit = rounds[c][i].commit
           /\ rounds'[c][i].outcome = rounds[c][i].outcome
    BY <2>2, <2>4
  <2>6. /\ origin'.base = origin.base
        /\ origin'.head[c] = rounds[c][Newest(c)].commit
        /\ \A d \in Change \ {c} : /\ origin'.head[d] = origin.head[d]
                                   /\ origin'.pr[d] = origin.pr[d]
    BY <1>7, <2>1 DEF Origin
  <2>7. \A d \in Change \ {c} : Kept(d)
    BY <1>1, <1>3, <1>7, <2>4, <2>6, OthersKept
  <2>8. Based(c)'
    BY <1>1, <1>3, <2>4, <2>5, <2>6 DEF Sound, Based
  <2>9. Overtaken(c) \/ ~Merged(c)
    BY <1>1, <1>2, <1>7 DEF Sound, MergeStands
  <2> QED
    BY <1>2, <1>3, <1>4, <1>7, <2>4, <2>5, <2>6, <2>7, <2>8, <2>9, StageLeaves
<1> QED
  BY <1>5, <1>6, <1>7 DEF Push

\* The newest round is decided, with its change's row or, if the server stops
\* in between, without it.
LEMMA DecidedSound ==
    ASSUME FInv, Typed', NEW c \in Change, NextStage(c) \/ Restarted,
           Serving(c, "decide"),
           UNCHANGED <<exec, effects, facts, task, result, origin>>,
           \/ Transition(c, [change[c] EXCEPT !.passed = TRUE, !.step = "none"])
           \/ Transition(c, Stopped(c, NoEffect))
           \/ UNCHANGED change,
           \/ UNCHANGED rounds
           \/ \E outcome \in {"pass", "fail"} :
                 rounds' = [rounds EXCEPT ![c][Newest(c)].outcome = outcome]
    PROVE  \A d \in Change : Sound(d)'
<1>1. IInv /\ Typed /\ Sound(c)
  BY DEF FInv, IInv
<1>2. OnStage(c) /\ run.at = "stages" /\ run.plan[c] = "decide"
  BY <1>1, StageIsPlanned DEF StageName
<1>3. /\ ~(Acts(c) /\ Fit(c)) /\ c \notin facts /\ Newest(c) # 0
      /\ change[c].state # "landed" /\ Newest(c) \in Nat
      /\ change[c].state = "landing" => Runs(c)
      /\ rounds[c][Newest(c)].outcome = "open" /\ change[c] \in Row
  BY <1>1, <1>2, StageUnfit, StageOf, FactTypes DEF Typed, Sound, Planning
<1>4. \/ UNCHANGED change
      \/ /\ change'[c].state = "landing" => Runs(c) /\ change'[c].step # "merging"
         /\ change'[c].state # "landed"
         /\ change'[c].unknown \in {change[c].unknown, NoEffect}
         /\ \A d \in Change \ {c} : change'[d] = change[d]
  <2> DEFINE row == [change[c] EXCEPT !.passed = TRUE, !.step = "none"]
  <2>1. /\ row.state = change[c].state /\ row.unknown = change[c].unknown
        /\ row.step = "none"
    BY <1>3 DEF Row
  <2>2. Stopped(c, NoEffect).state = "stopped"
        /\ Stopped(c, NoEffect).unknown = NoEffect
    BY <1>1, StoppedRow DEF NoEffect
  <2>3. \/ Transition(c, row) \/ Transition(c, Stopped(c, NoEffect))
        \/ UNCHANGED change
    OBVIOUS
  <2> HIDE DEF row
  <2> QED
    BY <1>1, <1>3, <2>1, <2>2, <2>3, OneRow
<1>5. /\ Newest(c)' = Newest(c)
      /\ \A d \in Change \ {c} : rounds'[d] = rounds[d]
      /\ \A i \in 1..Newest(c) :
            /\ rounds'[c][i].commit = rounds[c][i].commit
            /\ i # Newest(c) => rounds'[c][i] = rounds[c][i]
  <2>1. CASE UNCHANGED rounds
    BY <2>1 DEF Newest
  <2>2. ASSUME NEW outcome \in {"pass", "fail"},
               rounds' = [rounds EXCEPT ![c][Newest(c)].outcome = outcome]
        PROVE  <1>5!:
    <3> DEFINE round == [rounds[c][Newest(c)] EXCEPT !.outcome = outcome]
    <3>1. StoreTypeOK /\ rounds[c][Newest(c)] \in Round
      BY <1>1, <1>3, ChangeType DEF Typed, TypeOK
    <3>2. round \in Round /\ round.commit = rounds[c][Newest(c)].commit
      BY <3>1 DEF Round
    <3>3. rounds' = [rounds EXCEPT ![c] = [rounds[c] EXCEPT ![Newest(c)] = round]]
      BY <2>2, <3>1 DEF StoreTypeOK
    <3> HIDE DEF round
    <3>4. /\ Newest(c)' = Newest(c) /\ rounds'[c][Newest(c)] = round
          /\ \A i \in 1..Newest(c) :
                i # Newest(c) => rounds'[c][i] = rounds[c][i]
          /\ \A d \in Change \ {c} : rounds'[d] = rounds[d]
      BY <1>1, <1>3, <3>2, <3>3, RoundInPlace
    <3> QED
      BY <3>2, <3>4
  <2> QED
    BY <2>1, <2>2
<1>6. Based(c)'
  BY <1>1, <1>5 DEF Sound, Based
<1>7. \A d \in Change \ {c} : Kept(d)
  BY <1>1, <1>4, <1>5, OthersKept
<1> QED
  BY <1>2, <1>3, <1>4, <1>5, <1>6, <1>7, StageLeaves

\* CI and the review decide the newest round.
LEMMA DecideSound ==
    ASSUME FInv, Typed', NEW c \in Change, Decide(c)
    PROVE  \A d \in Change : Sound(d)'
BY DecidedSound DEF Decide

\* A stage that writes its change's row and nothing else of it.
LEMMA RowStageSound ==
    ASSUME FInv, Typed', NEW c \in Change, NextStage(c) \/ Restarted,
           OnStage(c),
           run.at # "accept", c \notin facts,
           UNCHANGED <<exec, rounds, effects, facts, result, origin>>,
           \A d \in Change \ {c} : task[d] # "open" => task'[d] # "open",
           NEW row, Transition(c, row),
           row.unknown \in {change[c].unknown, NoEffect},
           row.state # "landed",
           Acts(c) /\ Fit(c) => Fit(c)' \/ Sunk(c),
           \/ row = change[c] \/ ~Merged(c)
           \/ row.state = "landing" => Runs(c) /\ row.step # "merging"
    PROVE  \A d \in Change : Sound(d)'
<1>1. Typed /\ Sound(c)
  BY DEF FInv, IInv
<1>2. change'[c] = row /\ \A d \in Change \ {c} : change'[d] = change[d]
  BY <1>1, OneRow
<1>3. \A d \in Change \ {c} : Kept(d)
  BY <1>1, <1>2, OthersKept
<1>4. /\ Newest(c)' = Newest(c) /\ Newest(c) \in Nat
      /\ Based(c)' /\ Sunk(c)' = Sunk(c)
  BY <1>1, FactTypes DEF Sound, Based, Newest, Sunk, LastOf, Last
<1>5. Newest(c)' >= Newest(c)
  BY <1>4
<1> QED
  BY <1>2, <1>3, <1>4, <1>5, StageLeaves DEF OnStage

\* A failed round goes back to its implementer.
LEMMA FixSound ==
    ASSUME FInv, Typed', NEW c \in Change, Undecided(c) \/ Fix(c)
    PROVE  \A d \in Change : Sound(d)'
<1>1. IInv /\ Typed
  BY DEF FInv, IInv
<1>2. OnStage(c) /\ run.at = "stages" /\ run.plan[c] \in {"decide", "fix"}
  BY <1>1, StageIsPlanned DEF Undecided, Fix, StageName
<1>3. NextStage(c) /\ UNCHANGED <<exec, rounds, effects, facts, task, result, origin>>
  BY DEF Undecided, Fix, store
<1>4. CASE UNCHANGED change
  BY <1>2, <1>3, <1>4, IdleStageSound
<1>5. CASE /\ Fix(c) /\ change[c].state \in {"gating", "landing"}
  <2> DEFINE row == [change[c] EXCEPT !.state = "implementing", !.step = "none"]
  <2>1. row.state = "implementing" /\ row.unknown = change[c].unknown
    BY <1>1, FactTypes DEF Row
  <2>2. Stopped(c, NoEffect).state = "stopped"
        /\ Stopped(c, NoEffect).unknown = NoEffect
    BY <1>1, StoppedRow DEF NoEffect
  <2>3. Transition(c, row) \/ Transition(c, Stopped(c, NoEffect))
    BY <1>5 DEF Fix
  <2>4. ~(Acts(c) /\ Fit(c)) /\ c \notin facts
    BY <1>2, StageUnfit
  <2> HIDE DEF row
  <2> QED
    BY <1>2, <1>3, <2>1, <2>2, <2>3, <2>4, RowStageSound
<1> QED
  BY <1>4, <1>5 DEF Undecided, Fix, store

\* The landing stage foresees a conflict.
LEMMA PredictConflictSound ==
    ASSUME FInv, Typed', NEW c \in Change, PredictConflict(c)
    PROVE  \A d \in Change : Sound(d)'
<1> DEFINE row == [change[c] EXCEPT !.state = "gating", !.step = "none",
                      !.passed = FALSE, !.unknown = NoEffect]
<1>1. IInv /\ Typed /\ Sound(c)
  BY DEF FInv, IInv
<1>2. OnStage(c) /\ run.at = "write" /\ run.plan[c] = "landing"
  BY <1>1, StageIsPlanned DEF PredictConflict, StagePlaces
<1>3. /\ NextStage(c) /\ Transition(c, row) /\ run.now[1] = c
      /\ run.head.base < run.base
      /\ UNCHANGED <<exec, rounds, effects, facts, task, result, origin>>
  BY DEF PredictConflict, On
<1>4. row.state = "gating" /\ row.unknown = NoEffect
  BY <1>1, FactTypes DEF Row
<1>5. c \notin facts
  BY <1>1, <1>2 DEF Sound, FactStands
<1> HIDE DEF row
<1>6. Acts(c) /\ Fit(c) => Sunk(c)
  <2> SUFFICES ASSUME Acts(c), Fit(c)
               PROVE  Sunk(c)
    OBVIOUS
  <2>1. ~Out(c)
    <3>1. change[c].state \notin {"landed", "stopped"}
      BY <1>1, <1>2 DEF Sound, Planning, FactStands, StageOf, Fit
    <3>2. ~Runs(c) => change[c].state = "cancelled"
      BY <1>1, <1>2, StageOf
    <3> QED
      BY <3>1, <3>2 DEF Out, Fit
  <2>2. LastOf(c).pin.base <= run.head.base \/ Sunk(c)
    BY <1>1, <1>2, <1>3, <2>1 DEF Sound, Reading
  <2>3. /\ run.base <= origin.base /\ run.head.base \in Nat
        /\ run.base \in Nat /\ origin.base \in Nat
        /\ LastOf(c).pin.base \in Nat
    BY <1>1, <1>2, <1>3, FactTypes DEF Sound, Reading, Acts, IsMerge
  <2> QED
    BY <1>3, <2>2, <2>3 DEF Sunk
<1> QED
  BY <1>2, <1>3, <1>4, <1>5, <1>6, RowStageSound

\* A change takes the slot.
LEMMA EnterLandingSound ==
    ASSUME FInv, Typed', NEW c \in Change, EnterLanding(c)
    PROVE  \A d \in Change : Sound(d)'
<1> DEFINE entered == [change[c] EXCEPT !.state = "landing",
                                        !.step = "up-to-date"]
           waiting == [change[c] EXCEPT !.step = "awaiting-slot"]
<1>1. IInv /\ Typed /\ Sound(c) /\ change[c] \in Row /\ run \in Executor
  BY FactTypes DEF FInv, IInv, Typed, TypeOK
<1>2. OnStage(c) /\ run.at = "stages" /\ run.plan[c] = "landing"
  BY <1>1, StageIsPlanned DEF EnterLanding, StageName
<1>3. UNCHANGED <<exec, rounds, effects, facts, task, result, origin>>
  BY DEF EnterLanding
<1>4. c \notin facts
  BY <1>1, <1>2 DEF Sound, FactStands
<1>5. /\ entered.state = "landing" /\ entered.step = "up-to-date"
      /\ entered.unknown = change[c].unknown
      /\ waiting.state = change[c].state /\ waiting.step = "awaiting-slot"
      /\ waiting.unknown = change[c].unknown
  BY <1>1 DEF Row
<1>6. \/ NextStage(c) /\ UNCHANGED change
      \/ /\ NextStage(c) /\ Transition(c, waiting)
         /\ change[c].state = "gating"
      \/ /\ Begin(c, "head")
         /\ \/ UNCHANGED change /\ change[c].state = "landing"
            \/ Transition(c, entered) /\ change[c].state = "gating"
  BY DEF EnterLanding
<1> HIDE DEF entered, waiting
<1>7. CASE NextStage(c) /\ UNCHANGED change
  BY <1>2, <1>3, <1>7, IdleStageSound
<1>8. CASE NextStage(c) /\ Transition(c, waiting) /\ change[c].state = "gating"
  <2>1. Acts(c) /\ Fit(c) => Fit(c)'
    <3>1. change'[c] = waiting /\ run'.plan[c] = "none"
      BY <1>1, <1>8, OneRow, StageIsDone
    <3> QED
      BY <1>3, <1>5, <1>8, <3>1 DEF Fit, LastOf, Last, Newest
  <2> QED
    BY <1>2, <1>3, <1>4, <1>5, <1>8, <2>1, RowStageSound
<1>9. CASE /\ Begin(c, "head")
           /\ \/ UNCHANGED change /\ change[c].state = "landing"
              \/ Transition(c, entered) /\ change[c].state = "gating"
  <2>1. run'.at = "head" /\ run'.now[1] = c /\ run'.plan = run.plan
    BY <1>1, <1>9 DEF Begin, Executor
  <2>2. /\ \A d \in Change \ {c} : change'[d] = change[d]
        /\ change'[c].state = "landing"
        /\ change'[c].unknown = change[c].unknown
        /\ \/ change'[c] = change[c]
           \/ change[c].state = "gating" /\ change'[c].step = "up-to-date"
    BY <1>1, <1>5, <1>9, OneRow
  <2>3. \A d \in Change \ {c} : Kept(d)
    BY <1>1, <1>3, <2>2, OthersKept
  <2>4. ASSUME NEW d \in Change \ {c} PROVE Sound(d)'
    BY <1>2, <2>1, <2>3, OthersSound
  <2>5. /\ Last(c)' = Last(c) /\ LastOf(c)' = LastOf(c)
        /\ LiveLanding(c)' = LiveLanding(c)
        /\ IsMerge(c)' = IsMerge(c) /\ Merged(c)' = Merged(c)
        /\ Runs(c)' = Runs(c) /\ Newest(c)' = Newest(c)
    BY <1>3, SameEffects DEF Runs, Newest
  <2>6. Runs(c)
    BY <1>1, <1>2, <2>2, StageOf, <1>9
  <2>7. Lasting(c)' /\ Reviewed(c)' /\ Based(c)'
    BY <1>1, <1>3, <2>2, <2>5 DEF Sound, Lasting, Reviewed, Based
  <2>8. Planning(c)'
    BY <1>1, <1>2, <1>3, <2>1, <2>2, <2>5 DEF Sound, Planning, PassedNewest
  <2>9. Pinned(c)'
    <3>1. /\ Acts(c)' => Acts(c)
          /\ Sunk(c) => Sunk(c)'
      BY <1>3, <2>2, <2>5 DEF Acts, Sunk
    <3>2. Fit(c) => Fit(c)'
      BY <1>3, <1>9, <2>1, <2>2, <2>5 DEF Fit
    <3>3. ~Out(c)
      BY <1>9, <2>6 DEF Out
    <3> QED
      BY <1>1, <3>1, <3>2, <3>3 DEF Sound, Pinned
  <2>10. MergeStands(c)'
    <3>1. CASE change'[c] = change[c]
      BY <1>1, <1>3, <2>1, <2>5, <3>1
         DEF Sound, MergeStands, Overtaken, Standing, MergingNow
    <3>2. CASE change[c].state = "gating" /\ change'[c].step = "up-to-date"
      BY <1>1, <1>2, <1>3, <2>1, <2>2, <2>5, <2>6, <3>2
         DEF Sound, MergeStands, Overtaken, Standing, MergingNow
    <3> QED
      BY <2>2, <3>1, <3>2
  <2>11. FactStands(c)'
    BY <1>3, <1>4, <2>2 DEF FactStands
  <2>12. Reading(c)' /\ Called(c)'
    BY <2>1, <2>2 DEF Reading, Called, Calls
  <2>13. Sound(c)'
    BY <2>7, <2>8, <2>9, <2>10, <2>11, <2>12 DEF Sound
  <2> QED
    BY <2>4, <2>13
<1> QED
  BY <1>6, <1>7, <1>8, <1>9

\* A read of the landing stage fails.
LEMMA ReadFailsSound ==
    ASSUME FInv, Typed', NEW c \in Change, ReadFails(c)
    PROVE  \A d \in Change : Sound(d)'
BY IdleStageSound DEF ReadFails, On, store

\* The row a settled outcome leaves: as asked for, or cancelled when the
\* execution has finished.
LEMMA ConcludesRow ==
    ASSUME Typed, NEW c \in Change, NEW row \in Row, Concludes(c, row)
    PROVE  /\ \/ change'[c] = row
              \/ /\ ~Runs(c) /\ row.state = "landing"
                 /\ change'[c].state = "cancelled"
                 /\ change'[c].unknown = row.unknown
           /\ change'[c].state = "landing" => Runs(c) /\ change'[c] = row
           /\ \A d \in Change \ {c} : change'[d] = change[d]
           /\ \A d \in Change : task[d] # "open" => task'[d] # "open"
<1> DEFINE ended == [row EXCEPT !.state = "cancelled", !.step = "none"]
<1>1. ended.state = "cancelled" /\ ended.unknown = row.unknown
  BY DEF Row
<1>2. /\ change'[c] = Finished(c, row)
      /\ \A d \in Change \ {c} : change'[d] = change[d]
  BY OneRow DEF Concludes
<1>3. Finished(c, row) = IF ~Runs(c) /\ row.state = "landing" THEN ended ELSE row
  BY DEF Finished
<1>4. \A d \in Change : task[d] # "open" => task'[d] # "open"
  BY DEF Concludes, Typed, TypeOK, StoreTypeOK
<1> HIDE DEF ended
<1> QED
  BY <1>1, <1>2, <1>3, <1>4

\* The outcome of a branch update is looked for on origin; its round is there
\* with its change's row or, if the server stops in between, without it.
LEMMA PolledSound ==
    ASSUME FInv, Typed', NEW c \in Change, NextStage(c) \/ Restarted,
           On(c, "poll"),
           UNCHANGED <<exec, effects, facts, result, origin>>,
           UNCHANGED rounds \/ rounds' = WithCarried(c),
           \/ Concludes(c, [change[c] EXCEPT !.step = "up-to-date",
                                             !.passed = FALSE])
           \/ Concludes(c, Stopped(c, NoEffect)) \/ FailedUpdate(c)
           \/ UNCHANGED <<change, task>>
    PROVE  \A d \in Change : Sound(d)'
<1> DEFINE carriedRow == [change[c] EXCEPT !.step = "up-to-date",
                                           !.passed = FALSE]
           failedRow == [change[c] EXCEPT !.state = "gating", !.step = "none",
              !.passed = IF c \in run.held THEN @ ELSE FALSE]
           head == origin.head[c]
           round == [commit |-> head, pushed |-> TRUE, carried |-> TRUE,
                     outcome |-> "open"]
<1>1. IInv /\ Typed /\ Sound(c) /\ change[c] \in Row
  BY FactTypes DEF FInv, IInv
<1>2. OnStage(c) /\ run.at = "poll" /\ run.now[1] = c
  BY <1>1, StageIsPlanned DEF StagePlaces, On
<1>3. /\ ~IsMerge(c) /\ ~Merged(c) /\ ~Acts(c) /\ c \notin facts
      /\ change[c].state # "landed"
  BY <1>1, <1>2, StageOf DEF Sound, Called, Merged, Acts, FactStands
<1>4. /\ carriedRow \in Row /\ failedRow \in Row
      /\ Stopped(c, NoEffect) \in Row
      /\ carriedRow.state = change[c].state
      /\ carriedRow.step = "up-to-date"
      /\ carriedRow.unknown = change[c].unknown
      /\ failedRow.state = "gating" /\ failedRow.unknown = change[c].unknown
      /\ Stopped(c, NoEffect).state = "stopped"
      /\ Stopped(c, NoEffect).unknown = NoEffect
  <2>1. /\ carriedRow \in Row /\ failedRow \in Row
        /\ carriedRow.state = change[c].state
        /\ carriedRow.step = "up-to-date"
        /\ carriedRow.unknown = change[c].unknown
        /\ failedRow.state = "gating" /\ failedRow.unknown = change[c].unknown
    BY <1>1 DEF Row, ChangeState
  <2> HIDE DEF carriedRow, failedRow
  <2> QED
    BY <1>1, <2>1, StoppedRow DEF NoEffect
<1>5. /\ \/ Concludes(c, carriedRow) \/ Concludes(c, Stopped(c, NoEffect))
         \/ Concludes(c, failedRow) \/ UNCHANGED <<change, task>>
      /\ \/ UNCHANGED rounds
         \/ rounds' = [rounds EXCEPT ![c] = WithRound(c, round)]
  BY DEF WithCarried, FailedUpdate
<1> HIDE DEF carriedRow, failedRow
<1>6. /\ \A d \in Change \ {c} : change'[d] = change[d]
      /\ \A d \in Change : task[d] # "open" => task'[d] # "open"
      /\ change'[c].unknown \in {change[c].unknown, NoEffect}
      /\ change'[c].state # "landed"
      /\ \/ change'[c] = change[c]
         \/ change'[c].state = "landing"
               => Runs(c) /\ change'[c].step # "merging"
  BY <1>1, <1>3, <1>4, <1>5, ConcludesRow
<1>7. \A d \in Change \ {c} : rounds'[d] = rounds[d]
  BY <1>1, <1>5 DEF Typed, TypeOK, StoreTypeOK
<1>8. \A d \in Change \ {c} : Kept(d)
  BY <1>1, <1>6, <1>7, OthersKept
<1>9. /\ Newest(c)' >= Newest(c) /\ Based(c)'
       /\ \A i \in 1..Newest(c) : rounds[c][i].outcome = "pass"
                                     => rounds'[c][i].outcome = "pass"
  <2>1. Newest(c) \in Nat
    BY <1>1, FactTypes
  <2>2. CASE UNCHANGED rounds
    BY <1>1, <2>1, <2>2 DEF Newest, Sound, Based
  <2>3. CASE rounds' = [rounds EXCEPT ![c] = WithRound(c, round)]
    <3>1. rounds'[c] = WithRound(c, round)
      BY <1>1, <2>3 DEF Typed, TypeOK, StoreTypeOK
    <3>2. round.commit = head
      OBVIOUS
    <3> HIDE DEF round
    <3>3. /\ Newest(c)' = Newest(c) + 1
          /\ rounds'[c][Newest(c) + 1] = round
          /\ \A i \in 1..Newest(c) :
                 /\ rounds'[c][i].commit = rounds[c][i].commit
                 /\ rounds[c][i].outcome = "pass" =>
                       rounds'[c][i].outcome = "pass"
      BY <1>1, <3>1, WithRoundAdds
    <3>4. \A i \in 1..Newest(c)' : i \in 1..Newest(c) \/ i = Newest(c) + 1
      BY <2>1, <3>3
    <3>5. \A i \in 1..Newest(c)' : rounds'[c][i].commit.base <= origin.base
      BY <1>1, <3>2, <3>3, <3>4 DEF Sound, Based
    <3>6. Based(c)'
      BY <1>1, <3>5 DEF Sound, Based
    <3> QED
      BY <2>1, <3>3, <3>6
  <2> QED
    BY <1>5, <2>2, <2>3
<1> QED
  BY <1>2, <1>3, <1>6, <1>8, <1>9, StageLeaves DEF OnStage

\* The branch update's answer is read.
LEMMA PollUpdateSound ==
    ASSUME FInv, Typed', NEW c \in Change, PollUpdate(c)
    PROVE  \A d \in Change : Sound(d)'
BY PolledSound DEF PollUpdate

\* An effect is recorded as it was asked for.
LEMMA NewEffect ==
    ASSUME Typed, NEW c \in Change, NEW kind, NEW pin, NEW base,
           LiveLanding(c) = {},
           effects' = WithEffect(c, kind, Newest(c), pin, base)
    PROVE  /\ \A d \in Change \ {c} : effects'[d] = effects[d]
           /\ Last(c)' = Last(c) + 1 /\ Last(c)' # NoEffect
           /\ LiveLanding(c)' \subseteq {Last(c)'}
           /\ LastOf(c)'.kind = kind /\ LastOf(c)'.round = Newest(c)
           /\ LastOf(c)'.pin = pin /\ LastOf(c)'.state = "pending"
<1> DEFINE e == [kind |-> kind, round |-> Newest(c), pin |-> pin, base |-> base,
                 tries |-> 0, due |-> TRUE, state |-> "pending",
                 outcome |-> "none"]
<1>1. /\ StoreTypeOK /\ effects[c] \in Seq(Effect) /\ Last(c) \in Nat
      /\ Last(c) = Len(effects[c])
  BY EffectType DEF Typed, TypeOK, Last
<1>2. /\ e.kind = kind /\ e.round = Newest(c) /\ e.pin = pin
      /\ e.state = "pending"
  OBVIOUS
<1>3. effects' = [effects EXCEPT ![c] = Append(@, e)]
  BY DEF WithEffect
<1> HIDE DEF e
<1>4. effects'[c] = Append(effects[c], e)
  BY <1>1, <1>3 DEF StoreTypeOK
<1>5. /\ \A d \in Change \ {c} : effects'[d] = effects[d]
      /\ Last(c)' = Last(c) + 1 /\ LiveLanding(c)' \subseteq {Last(c) + 1}
  BY <1>1, WithEffectAdds
<1>6. LastOf(c)' = e
  BY <1>1, <1>4, <1>5 DEF LastOf
<1> QED
  BY <1>1, <1>2, <1>5, <1>6 DEF NoEffect

\* The effect of the landing stage is recorded, the only place a merge is asked
\* for, with its change's step or, if the server stops in between, without it.
LEMMA RequestedSound ==
    ASSUME FInv, Typed', NEW c \in Change, NextStage(c) \/ Restarted,
           MayRequest(c), effects' = Requested(c),
           UNCHANGED <<exec, rounds, facts, task, result, origin>>,
           NEW row, Transition(c, row),
           row.state = change[c].state, row.unknown = NoEffect,
           row = change[c] \/ row.step = StepOf(Wanted)
    PROVE  \A d \in Change : Sound(d)'
<1>1. IInv /\ Typed /\ Sound(c) /\ change[c] \in Row
  BY FactTypes DEF FInv, IInv
<1>2. /\ OnStage(c) /\ run.at = "write" /\ run.plan[c] = "landing"
      /\ change[c].unknown = NoEffect /\ run.now[1] = c
  BY <1>1, StageIsPlanned DEF MayRequest, StagePlaces, On
<1>3. /\ c \notin facts /\ change[c].state # "landed"
      /\ change[c].state = "landing" \/ ~Runs(c)
      /\ change[c].state = "landing" => Runs(c)
  BY <1>1, <1>2, StageOf DEF Sound, FactStands, Reading
<1>4. /\ effects' = WithEffect(c, Wanted, Newest(c), run.head, WantedBase)
      /\ MayInsert(c, Wanted, Newest(c), run.head, WantedBase)
  BY DEF Requested, MayRequest
<1>5. Wanted \in {"update-branch", "merge"}
  BY DEF Wanted
<1>6. /\ change'[c] = row /\ \A d \in Change \ {c} : change'[d] = change[d]
      /\ Newest(c)' = Newest(c) /\ Runs(c)' = Runs(c)
      /\ run'.plan[c] = "none"
  BY <1>1, OneRow, StageIsDone, RestartIsDone DEF Newest, Runs
<1>7. CASE LiveLanding(c) # {}
  <2>1. effects' = effects
    BY <1>4, <1>7 DEF WithEffect
  <2>2. PICK i \in LiveLanding(c) : TRUE
    BY <1>7
  <2>3. Live(LastOf(c))
    BY <1>1, <2>2 DEF Sound, Lasting, LastOf, LiveLanding
  <2>4. ~Merged(c)
    BY <2>3 DEF Merged, Live
  <2>5. Acts(c) /\ Fit(c) => Fit(c)'
    <3>1. LastOf(c)' = LastOf(c)
      BY <2>1, SameEffects
    <3>2. Fit(c) => change[c].state = "landing"
      BY <1>1, <1>2, <1>3, StageOf DEF Fit
    <3> QED
      BY <1>6, <3>1, <3>2 DEF Fit
  <2> QED
    BY <1>2, <1>3, <2>1, <2>4, <2>5, RowStageSound
<1>8. CASE LiveLanding(c) = {}
  <2>1. /\ \A d \in Change \ {c} : effects'[d] = effects[d]
        /\ Last(c)' # NoEffect /\ LiveLanding(c)' \subseteq {Last(c)'}
        /\ LastOf(c)'.kind = Wanted /\ LastOf(c)'.round = Newest(c)
        /\ LastOf(c)'.pin = run.head /\ LastOf(c)'.state = "pending"
    BY <1>1, <1>4, <1>8, NewEffect
  <2>2. \A d \in Change \ {c} : Kept(d)
    BY <1>1, <1>6, <2>1, OthersKept
  <2>3. Lasting(c)'
    BY <1>6, <2>1 DEF Lasting
  <2>4. Reviewed(c)'
    <3>1. Newest(c) # 0 /\ rounds[c][Newest(c)].outcome = "pass"
      BY <1>1, <1>2 DEF Sound, Planning, PassedNewest
    <3>2. Newest(c) \in 1..Newest(c)
      BY <1>1, <3>1, FactTypes
    <3> QED
      BY <1>6, <2>1, <3>1, <3>2 DEF Reviewed
  <2>5. Based(c)'
    BY <1>1, <1>6 DEF Sound, Based
  <2>6. Pinned(c)'
    <3>1. run.head.base <= origin.head[c].base
      BY <1>1, <1>2 DEF Sound, Reading
    <3> QED
      BY <1>3, <1>6, <2>1, <3>1 DEF Pinned, Fit, Out
  <2>7. MergeStands(c)'
    BY <2>1 DEF MergeStands, Merged
  <2>8. FactStands(c)'
    BY <1>3, <1>6 DEF FactStands
  <2> QED
    BY <1>2, <2>2, <2>3, <2>4, <2>5, <2>6, <2>7, <2>8, StageSound
<1> QED
  BY <1>7, <1>8

\* The landing stage asks for its effect, or finds another one in the way.
LEMMA RequestEffectSound ==
    ASSUME FInv, Typed', NEW c \in Change, RequestEffect(c)
    PROVE  \A d \in Change : Sound(d)'
<1> DEFINE row == [change[c] EXCEPT !.step = StepOf(Wanted)]
<1>1. IInv /\ change[c] \in Row
  BY FactTypes DEF FInv, IInv
<1>2. On(c, "write") /\ run.at = "write" /\ change[c].unknown = NoEffect
  BY <1>1, StageIsPlanned DEF RequestEffect, MayRequest, On, StagePlaces
<1>3. row.state = change[c].state /\ row.step = StepOf(Wanted)
      /\ row.unknown = NoEffect
  BY <1>1, <1>2 DEF Row
<1>4. NextStage(c) /\ UNCHANGED <<exec, rounds, facts, task, result, origin>>
  BY DEF RequestEffect
<1>5. \/ UNCHANGED <<effects, change>>
      \/ MayRequest(c) /\ effects' = Requested(c) /\ Transition(c, row)
  BY DEF RequestEffect
<1> HIDE DEF row
<1> QED
  BY <1>2, <1>3, <1>4, <1>5, IdleStageSound, RequestedSound

\* A change that is owed an outcome has a settled last effect; one that is
\* done as merged is this round's, or its change is still merging.
LEMMA OwedIsSettled ==
    ASSUME FInv, NEW c \in Change, OwesOutcome(c)
    PROVE  /\ Last(c) # NoEffect /\ LastOf(c).state \in {"done", "failed"}
           /\ \/ change[c].state = "landing"
              \/ /\ change[c].state = "gating" /\ Runs(c)
                 /\ change[c].step = "awaiting-slot"
                 /\ LastOf(c).round = Newest(c)
           /\ Runs(c) => LastOf(c).state = "done" \/ StopVerdict(LastOf(c))
           /\ ~Runs(c) => change[c].state = "landing" /\ IsMerge(c)
           /\ ~Acts(c)
           /\ Merged(c) => /\ ~Overtaken(c) /\ origin.pr[c] = "merged"
                           /\ \/ ~Runs(c) \/ MergingNow(c)
                              \/ LastOf(c).round = Newest(c)
<1>1. IInv /\ Sound(c)
  BY DEF FInv
<1>2. /\ Last(c) # NoEffect /\ LastOf(c).state \in {"done", "failed"}
      /\ \/ change[c].state = "landing"
         \/ /\ change[c].state = "gating" /\ Runs(c)
            /\ change[c].step = "awaiting-slot"
            /\ LastOf(c).round = Newest(c)
      /\ Runs(c) => LastOf(c).state = "done" \/ StopVerdict(LastOf(c))
      /\ ~Runs(c) => change[c].state = "landing" /\ LastOf(c).kind = "merge"
  BY DEF OwesOutcome, StopVerdict, Settling, ResumedWait, OfNewestRound, LastOf
<1>3. ~Acts(c)
  BY <1>1, <1>2 DEF IInv, Acting, Acts, Live
<1>4. Merged(c) => \/ ~Runs(c) \/ MergingNow(c)
                   \/ LastOf(c).round = Newest(c)
  BY DEF OwesOutcome, StopVerdict, Settling, ResumedWait, OfNewestRound, LastOf,
         StepOf, Merged, IsMerge, MergingNow
<1>5. Merged(c) => ~Overtaken(c)
  BY <1>2, <1>4 DEF Overtaken, MergingNow
<1>6. Merged(c) => origin.pr[c] = "merged"
  BY <1>1, <1>5 DEF Sound, MergeStands
<1> QED
  BY <1>2, <1>3, <1>4, <1>5, <1>6 DEF IsMerge

\* The row of a change that a settled outcome takes up again.
LEMMA ResumedRow ==
    ASSUME FInv, NEW c \in Change, OwesOutcome(c)
    PROVE  /\ Resumed(c) \in Row /\ Resumed(c).state = "landing"
           /\ Resumed(c).unknown = change[c].unknown
           /\ \/ Resumed(c) = change[c]
              \/ Runs(c) /\ Resumed(c).step = StepOf(LastOf(c).kind)
<1>1. change[c] \in Row
  BY FactTypes DEF FInv, IInv
<1>2. \/ change[c].state = "landing"
      \/ change[c].state = "gating" /\ change[c].step = "awaiting-slot" /\ Runs(c)
  BY OwedIsSettled
<1> DEFINE row == [change[c] EXCEPT !.state = "landing",
                                    !.step = StepOf(LastOf(c).kind)]
<1>3. /\ row \in Row /\ row.state = "landing"
      /\ row.unknown = change[c].unknown /\ row.step = StepOf(LastOf(c).kind)
  BY <1>1 DEF Row, StepOf, ChangeState
<1>4. Resumed(c) = IF /\ change[c].state = "gating"
                      /\ change[c].step = "awaiting-slot"
                   THEN row ELSE change[c]
  BY DEF Resumed, LastOf
<1> HIDE DEF row
<1> QED
  BY <1>1, <1>2, <1>3, <1>4

\* The outcome of a settled effect is applied to its change.
LEMMA ApplyOutcomeSound ==
    ASSUME FInv, Typed', NEW c \in Change, ApplyOutcome(c)
    PROVE  \A d \in Change : Sound(d)'
<1> DEFINE row == Resumed(c)
           asked == [row EXCEPT !.step = "up-to-date"]
           stopped == [row EXCEPT !.state = "stopped", !.step = "none",
                                  !.unknown = NoEffect]
<1>1. IInv /\ Typed /\ Sound(c) /\ change[c] \in Row /\ run \in Executor
  BY FactTypes DEF FInv, IInv, Typed, TypeOK
<1>2. OnStage(c) /\ run.at = "stages" /\ run.plan[c] \in {"outcome", "settle"}
  BY <1>1, StageIsPlanned DEF ApplyOutcome, StageName
<1>3. UNCHANGED <<exec, rounds, effects, facts, result, origin>>
  BY DEF ApplyOutcome
<1>4. change[c].state # "landed"
  BY <1>1, <1>2, StageOf
<1>5. CASE NextStage(c) /\ UNCHANGED <<change, task>>
  BY <1>2, <1>3, <1>5, IdleStageSound
<1>6. CASE ~Runs(c) /\ change[c].state = "cancelled"
  <2>1. row = change[c]
    BY <1>6 DEF Resumed
  <2>2. NextStage(c) /\ Concludes(c, change[c])
    BY <1>6, <2>1 DEF ApplyOutcome
  <2>3. change' = change /\ task' = task
    BY <1>1, <1>6, <2>2 DEF Concludes, Finished, Transition, Typed, TypeOK,
                            StoreTypeOK
  <2> QED
    BY <1>5, <2>2, <2>3
<1>7. CASE OwesOutcome(c)
  <2>1. /\ Last(c) # NoEffect /\ LastOf(c).state \in {"done", "failed"}
        /\ ~Acts(c)
        /\ Runs(c) => LastOf(c).state = "done" \/ StopVerdict(LastOf(c))
        /\ Merged(c) => /\ ~Overtaken(c) /\ origin.pr[c] = "merged"
                        /\ \/ ~Runs(c) \/ MergingNow(c)
                           \/ LastOf(c).round = Newest(c)
    BY <1>7, OwedIsSettled
  <2>2. /\ row \in Row /\ row.state = "landing"
        /\ row.unknown = change[c].unknown
        /\ row = change[c] \/ (Runs(c) /\ row.step = StepOf(LastOf(c).kind))
    BY <1>7, ResumedRow
  <2>3. /\ asked \in Row /\ asked.state = "landing"
        /\ asked.step = "up-to-date" /\ asked.unknown = change[c].unknown
        /\ stopped.state = "stopped" /\ stopped.unknown = NoEffect
    BY <2>2 DEF Row
  <2>4. \/ NextStage(c) /\ UNCHANGED <<change, task>>
        \/ /\ NextStage(c) /\ Concludes(c, asked)
           /\ LastOf(c).outcome = "not-merged"
        \/ /\ LastOf(c).state = "done" /\ LastOf(c).outcome # "not-merged"
           /\ Transition(c, row) /\ task' = task
           /\ run' = [run EXCEPT !.row = row, !.now = <<c, NoEffect>>,
                 !.at = IF LastOf(c).kind = "merge" THEN "fetch" ELSE "poll"]
        \/ /\ NextStage(c) /\ task' = task /\ Transition(c, stopped)
           /\ StopVerdict(LastOf(c))
        \/ /\ NextStage(c) /\ Concludes(c, row)
           /\ LastOf(c).state # "done"
    BY <2>2 DEF ApplyOutcome, LastOf
  <2> HIDE DEF row, asked, stopped
  <2>5. CASE /\ NextStage(c) /\ ~Merged(c)
             /\ \/ Concludes(c, asked) \/ Concludes(c, row)
                \/ Transition(c, stopped) /\ task' = task
    <3>1. c \notin facts
      BY <1>1, <2>5 DEF Sound, FactStands
    <3>2. /\ \A d \in Change \ {c} : change'[d] = change[d]
          /\ \A d \in Change : task[d] # "open" => task'[d] # "open"
          /\ change'[c].unknown \in {change[c].unknown, NoEffect}
          /\ change'[c].state # "landed"
      BY <1>1, <1>4, <2>2, <2>3, <2>5, ConcludesRow, OneRow
    <3>3. \A d \in Change \ {c} : Kept(d)
      BY <1>1, <1>3, <3>2, OthersKept
    <3>4. Newest(c)' >= Newest(c) /\ Based(c)'
      BY <1>1, <1>3, FactTypes DEF Sound, Based, Newest
    <3> QED
      BY <1>2, <1>3, <2>1, <2>5, <3>1, <3>2, <3>3, <3>4, StageLeaves
  <2>6. CASE /\ LastOf(c).state = "done" /\ LastOf(c).outcome # "not-merged"
             /\ Transition(c, row) /\ task' = task
             /\ run' = [run EXCEPT !.row = row, !.now = <<c, NoEffect>>,
                  !.at = IF LastOf(c).kind = "merge" THEN "fetch" ELSE "poll"]
    <3>1. /\ run'.plan = run.plan /\ run'.now[1] = c
          /\ run'.at = IF LastOf(c).kind = "merge" THEN "fetch" ELSE "poll"
      BY <1>1, <2>6 DEF Executor
    <3>2. /\ change'[c] = row
          /\ \A d \in Change \ {c} : change'[d] = change[d]
      BY <1>1, <2>6, OneRow
    <3>3. \A d \in Change \ {c} : Kept(d)
      BY <1>1, <1>3, <2>6, <3>2, OthersKept
    <3>4. ASSUME NEW d \in Change \ {c} PROVE Sound(d)'
      BY <1>2, <3>1, <3>3, OthersSound
    <3>5. /\ Last(c)' = Last(c) /\ LastOf(c)' = LastOf(c)
          /\ LiveLanding(c)' = LiveLanding(c)
          /\ IsMerge(c)' = IsMerge(c) /\ Merged(c)' = Merged(c)
          /\ Runs(c)' = Runs(c) /\ Newest(c)' = Newest(c)
      BY <1>3, SameEffects DEF Runs, Newest
    <3>6. Lasting(c)' /\ Reviewed(c)' /\ Based(c)'
      BY <1>1, <1>3, <2>2, <3>2, <3>5 DEF Sound, Lasting, Reviewed, Based
    <3>7. OwesOutcome(c)'
      <4>1. CASE row = change[c]
        BY <1>3, <1>7, <3>2, <3>5, <4>1
           DEF OwesOutcome, Settling, ResumedWait, OfNewestRound
      <4>2. CASE Runs(c) /\ row.step = StepOf(LastOf(c).kind)
        <5>1. Settling(c)'
          BY <2>2, <3>2, <4>2 DEF Settling, StepOf
        <5>2. (effects[c][Last(c)])' = LastOf(c)
          BY <3>5 DEF LastOf
        <5> QED
          BY <2>1, <2>6, <3>2, <3>5, <4>2, <5>1, <5>2 DEF OwesOutcome
      <4> QED
        BY <2>2, <4>1, <4>2
    <3>8. Planning(c)'
      BY <1>2, <2>2, <3>1, <3>2, <3>7 DEF Planning
    <3>9. Pinned(c)'
      BY <2>1, <2>2, <3>2, <3>5 DEF Pinned, Acts
    <3>10. Merged(c) => Standing(c)'
      <4> SUFFICES ASSUME Merged(c)
                   PROVE  Standing(c)'
        OBVIOUS
      <4>1. CASE row = change[c]
        <5>1. \/ ~Runs(c) \/ MergingNow(c)
              \/ change[c].step = "up-to-date" /\ LastOf(c).round = Newest(c)
          BY <1>7, <2>2, <4>1
             DEF OwesOutcome, Merged, IsMerge, StopVerdict, Settling,
                 ResumedWait, OfNewestRound, StepOf, LastOf, MergingNow
        <5> QED
          BY <2>2, <3>2, <3>5, <4>1, <5>1 DEF Standing, MergingNow
      <4>2. CASE row.step = StepOf(LastOf(c).kind)
        BY <2>2, <3>2, <4>2 DEF Merged, IsMerge, StepOf, Standing, MergingNow
      <4> QED
        BY <2>2, <4>1, <4>2
    <3>11. MergeStands(c)' /\ FactStands(c)'
      BY <1>1, <1>2, <1>3, <2>1, <2>2, <3>1, <3>2, <3>5, <3>10
         DEF Sound, MergeStands, FactStands
    <3>12. IsMerge(c) => Merged(c)
      BY <1>1, <2>6 DEF Sound, Reviewed, Merged
    <3>13. Reading(c)' /\ Called(c)'
      BY <1>3, <2>1, <2>6, <3>1, <3>5, <3>10, <3>12
         DEF Reading, Called, Calls, IsMerge
    <3>14. Sound(c)'
      BY <3>6, <3>8, <3>9, <3>11, <3>13 DEF Sound
    <3> QED
      BY <3>4, <3>14
  <2> QED
    BY <1>5, <2>4, <2>5, <2>6 DEF Merged, StopVerdict
<1> QED
  BY <1>1, <1>2, <1>6, <1>7 DEF Sound, Planning

\* The fact of a landing is recorded with its change's row.
LEMMA RecordLandingSound ==
    ASSUME FInv, Typed', NEW c \in Change, RecordLanding(c)
    PROVE  \A d \in Change : Sound(d)'
<1> DEFINE row == [change[c] EXCEPT !.state = "landed", !.step = "none"]
<1>1. IInv /\ Typed /\ Sound(c) /\ change[c] \in Row /\ run \in Executor
      /\ StoreTypeOK
  BY FactTypes DEF FInv, IInv, Typed, TypeOK
<1>2. /\ run.at = "fetch" /\ run.now[1] = c /\ change[c].unknown = NoEffect
      /\ run.plan[c] \in {"outcome", "settle"}
  BY <1>1 DEF RecordLanding, On, IInv, Staged
<1>3. UNCHANGED <<exec, rounds, task, result, origin>>
  BY DEF RecordLanding
<1>4. Merged(c) /\ origin.pr[c] = "merged" /\ Standing(c)
  BY <1>1, <1>2 DEF Sound, Called
<1>5. CASE c \in facts
  <2>1. UNCHANGED <<change, effects, facts>> /\ run' = Idle
    BY <1>5 DEF RecordLanding
  <2>2. run'.at \in Quiet /\ \A d \in Change : run'.plan[d] = "none"
    BY <2>1 DEF Idle, Quiet
  <2> QED
    BY <1>1, <1>2, <1>3, <2>1, <2>2, NothingWritten, QuietSound
<1>6. CASE c \notin facts
  <2>1. /\ facts' = facts \cup {c} /\ effects' = WithLandingCancelled(c)
        /\ run'.at = "accept" /\ run'.now = run.now /\ run'.plan = run.plan
        /\ Transition(c, row) \/ UNCHANGED change
    BY <1>1, <1>6 DEF RecordLanding, At, Executor
  <2>2. row.state = "landed" /\ row.unknown = NoEffect
    BY <1>1, <1>2 DEF Row
  <2> HIDE DEF row
  <2>3. /\ \A d \in Change \ {c} : effects'[d] = effects[d]
        /\ Last(c)' = Last(c) /\ LiveLanding(c)' = {}
        /\ \A i \in 1..Last(c) :
              ~Live(effects[c][i]) => effects'[c][i] = effects[c][i]
    BY <1>1, <2>1, LandingCancels
  <2>4. /\ \A d \in Change \ {c} : change'[d] = change[d]
        /\ change'[c] = change[c] \/ change'[c].state = "landed"
        /\ change'[c].unknown = NoEffect
    BY <1>1, <1>2, <2>1, <2>2, OneRow
  <2>5. \A d \in Change \ {c} : Kept(d)
    BY <1>1, <1>3, <2>1, <2>3, <2>4, OthersKept
  <2>6. ASSUME NEW d \in Change \ {c} PROVE Sound(d)'
    BY <1>2, <2>1, <2>5, OthersSound
  <2>7. /\ LastOf(c)' = LastOf(c) /\ IsMerge(c)' = IsMerge(c)
        /\ Merged(c)' /\ ~Live(LastOf(c)) /\ Last(c) # NoEffect
    <3>1. ~Live(LastOf(c)) /\ Last(c) # NoEffect
      BY <1>4 DEF Merged, IsMerge, Live
    <3>2. LastOf(c)' = LastOf(c)
      BY <1>1, <2>3, <3>1, FactTypes DEF LastOf
    <3> QED
      BY <1>4, <2>3, <3>1, <3>2 DEF IsMerge, Merged
  <2>8. Newest(c)' = Newest(c) /\ Runs(c)' = Runs(c)
    BY <1>3 DEF Newest, Runs
  <2>9. Standing(c)'
    BY <1>4, <2>4, <2>7, <2>8 DEF Standing, MergingNow
  <2>10. Lasting(c)' /\ Reviewed(c)' /\ Based(c)'
    BY <1>1, <1>3, <2>3, <2>4, <2>7, <2>8 DEF Sound, Lasting, Reviewed, Based
  <2>11. Planning(c)'
    BY <1>1, <1>2, <2>1, <2>4 DEF Sound, Planning
  <2>12. Pinned(c)'
    BY <2>4, <2>7 DEF Pinned, Acts
  <2>13. MergeStands(c)' /\ FactStands(c)'
    BY <1>2, <1>3, <1>4, <2>1, <2>7, <2>9 DEF MergeStands, FactStands
  <2>14. Reading(c)' /\ Called(c)'
    BY <2>1, ElsewhereThen
  <2>15. Sound(c)'
    BY <2>10, <2>11, <2>12, <2>13, <2>14 DEF Sound
  <2> QED
    BY <2>6, <2>15
<1> QED
  BY <1>5, <1>6

\* The execution of a landed change may be completed.
LEMMA CompletedSound ==
    ASSUME FInv, NEW c \in Change, change[c].state = "landed",
           UNCHANGED <<change, rounds, effects, facts, result, origin>>,
           run'.at \in Quiet, run'.plan[c] = "none"
    PROVE  Sound(c)'
<1>1. Sound(c)
  BY DEF FInv
<1>2. /\ Last(c)' = Last(c) /\ LastOf(c)' = LastOf(c)
      /\ LiveLanding(c)' = LiveLanding(c)
      /\ IsMerge(c)' = IsMerge(c) /\ Merged(c)' = Merged(c)
      /\ Newest(c)' = Newest(c)
  BY SameEffects DEF Newest
<1>3. Lasting(c)' /\ Reviewed(c)' /\ Based(c)' /\ Planning(c)'
  BY <1>1, <1>2 DEF Sound, Lasting, Reviewed, Based, Planning
<1>4. Pinned(c)' /\ MergeStands(c)' /\ FactStands(c)'
  BY <1>1, <1>2
     DEF Sound, Pinned, Out, MergeStands, FactStands, Standing, Overtaken
<1>5. Reading(c)' /\ Called(c)'
  BY ElsewhereThen
<1> QED
  BY <1>3, <1>4, <1>5 DEF Sound

\* The task of a landed change is accepted.
LEMMA AcceptLandedSound ==
    ASSUME FInv, Typed', NEW c \in Change, AcceptLanded(c)
    PROVE  \A d \in Change : Sound(d)'
<1>1. IInv /\ Typed /\ StoreTypeOK
  BY DEF FInv, IInv, Typed, TypeOK
<1>2. /\ run.at = "accept" /\ run.now[1] = c /\ NextStage(c)
      /\ UNCHANGED <<change, rounds, effects, facts, result, origin>>
  BY DEF AcceptLanded, On
<1>3. /\ run'.at = "stages" /\ run'.plan[c] = "none"
      /\ \A d \in Change : run'.plan[d] \in {run.plan[d], "none"}
  BY <1>1, <1>2, StageIsDone
<1> SUFFICES ASSUME NEW d \in Change
             PROVE  Sound(d)'
  OBVIOUS
<1>4. CASE change[d].state = "landed"
  <2>1. run'.plan[d] = "none"
    BY <1>1, <1>2, <1>3, <1>4 DEF IInv, Finishing
  <2> QED
    BY <1>2, <1>3, <1>4, <2>1, CompletedSound DEF Quiet
<1>5. CASE change[d].state # "landed"
  <2>1. Runs(d)' = Runs(d)
    BY <1>1, <1>5 DEF AcceptLanded, Runs, StoreTypeOK
  <2>2. task[d] # "open" => task'[d] # "open"
    BY <1>1 DEF AcceptLanded, StoreTypeOK
  <2>3. origin.base >= origin.base
    BY <1>1, FactTypes
  <2>4. Kept(d)
    BY <1>2, <2>1, <2>2, <2>3 DEF Kept, EffectsKept, Last
  <2> QED
    BY <1>2, <1>3, <2>4, QuietSound DEF Quiet
<1> QED
  BY <1>4, <1>5

-----------------------------------------------------------------------------
(***************************************************************************)
(* What a pass plans                                                       *)
(***************************************************************************)
\* What the planner has found out of a change that it owes something.
LEMMA OwedMeans ==
    ASSUME NEW c \in Change
    PROVE  /\ Owed(c) \in {"outcome", "settle"} <=> OwesOutcome(c)
           /\ Owed(c) \notin {"none", "outcome", "settle"} => ~LeftAlone(c)
           /\ Owed(c) = "result" =>
                 change[c].state # "landing" /\ ~ResumedWait(c)
           /\ Owed(c) \in {"push", "decide"} =>
                 rounds[c][Newest(c)].outcome = "open"
           /\ Owed(c) = "fix" => rounds[c][Newest(c)].outcome = "fail"
           /\ Owed(c) = "landing" => PassedNewest(c)
           /\ Owed(c) = "close" => task[c] # "open"
           /\ Owed(c) = "yield" =>
                 change[c].state = "landing" /\ LiveLanding(c) = {}
BY DEF Owed, Passed, PassedNewest

\* A pass reads every row and plans its stages.
LEMMA PlanSound ==
    ASSUME FInv, Typed', Plan
    PROVE  \A c \in Change : Sound(c)'
<1>1. IInv /\ Typed
  BY DEF FInv, IInv
<1>2. UNCHANGED <<exec, rounds, effects, facts, task, result, origin>>
  BY DEF Plan
<1>3. /\ run.at = "idle" /\ run'.at = "stages" /\ run'.plan = Planned
  BY DEF Plan, Idle
<1> SUFFICES ASSUME NEW c \in Change
             PROVE  Sound(c)'
  OBVIOUS
<1>4. Sound(c) /\ change[c] \in Row
  BY <1>1, FactTypes DEF FInv
<1>5. run'.plan[c] = IF Owed(c) \in StageName THEN Owed(c) ELSE "none"
  BY <1>3 DEF Planned
<1>6. /\ Last(c)' = Last(c) /\ LastOf(c)' = LastOf(c)
      /\ LiveLanding(c)' = LiveLanding(c)
      /\ IsMerge(c)' = IsMerge(c) /\ Merged(c)' = Merged(c)
      /\ Runs(c)' = Runs(c) /\ Newest(c)' = Newest(c)
  BY <1>2, SameEffects DEF Runs, Newest
<1>7. \/ /\ change'[c] = change[c]
      \/ /\ Owed(c) \in {"close", "yield"}
         /\ change'[c].state = IF Owed(c) = "close" THEN "stopped" ELSE "gating"
         /\ change'[c].unknown \in {change[c].unknown, NoEffect}
  <2> DEFINE yielding == [change[c] EXCEPT !.state = "gating", !.step = "none"]
  <2>1. yielding.state = "gating" /\ yielding.unknown = change[c].unknown
    BY <1>4 DEF Row
  <2>2. Stopped(c, NoEffect).state = "stopped"
        /\ Stopped(c, NoEffect).unknown = NoEffect
    BY <1>1, StoppedRow DEF NoEffect
  <2>3. change'[c] = CASE Owed(c) = "close" -> Stopped(c, NoEffect)
                       [] Owed(c) = "yield" -> yielding
                       [] OTHER -> change[c]
    BY DEF Plan
  <2> HIDE DEF yielding
  <2> QED
    BY <2>1, <2>2, <2>3
<1>8. /\ Owed(c) \in {"outcome", "settle"} <=> OwesOutcome(c)
      /\ Owed(c) \notin {"none", "outcome", "settle"} => ~LeftAlone(c)
      /\ Owed(c) = "result" =>
            change[c].state # "landing" /\ ~ResumedWait(c)
      /\ Owed(c) \in {"push", "decide"} =>
            rounds[c][Newest(c)].outcome = "open"
      /\ Owed(c) = "fix" => rounds[c][Newest(c)].outcome = "fail"
      /\ Owed(c) = "landing" => PassedNewest(c)
      /\ Owed(c) = "close" => task[c] # "open"
      /\ Owed(c) = "yield" =>
            change[c].state = "landing" /\ LiveLanding(c) = {}
  BY OwedMeans
<1>9. Owed(c) \notin {"none", "outcome", "settle"} =>
         /\ Runs(c) /\ ~Settling(c)
         /\ change[c].state \notin {"landed", "stopped", "cancelled"}
  BY <1>8 DEF LeftAlone
<1>10. change'[c] # change[c] => /\ Runs(c) /\ ~Settling(c)
                                 /\ change[c].state \notin {"landed", "stopped",
                                                            "cancelled"}
                                 /\ change'[c].state \in {"stopped", "gating"}
  BY <1>7, <1>9
<1>11. Lasting(c)' /\ Reviewed(c)' /\ Based(c)'
  BY <1>2, <1>4, <1>6, <1>7 DEF Sound, Lasting, Reviewed, Based
<1>12. Planning(c)'
  <2> SUFFICES ASSUME run'.plan[c] # "none"
               PROVE  Planning(c)'
    BY DEF Planning
  <2>1. Owed(c) \in StageName /\ run'.plan[c] = Owed(c)
    BY <1>5
  <2>2. change'[c] = change[c]
    BY <1>7, <2>1 DEF StageName
  <2>3. change[c].state # "stopped"
    <3>1. CASE OwesOutcome(c)
      BY <3>1, OwedIsSettled
    <3> QED
      BY <1>8, <1>9, <2>1, <3>1 DEF StageName
  <2>4. OwesOutcome(c)' = OwesOutcome(c)
    BY <1>2, <1>6, <2>2 DEF OwesOutcome, Settling, ResumedWait, OfNewestRound
  <2>5. PassedNewest(c)' = PassedNewest(c)
    BY <1>2, <1>6 DEF PassedNewest
  <2> QED
    BY <1>2, <1>6, <1>8, <2>1, <2>2, <2>3, <2>4, <2>5 DEF Planning
<1>13. Pinned(c)'
  <2> SUFFICES ASSUME Acts(c)'
               PROVE  Fit(c)' \/ Sunk(c)' \/ Out(c)'
    BY DEF Pinned
  <2>1. Acts(c)
    BY <1>6, <1>7 DEF Acts
  <2>2. CASE change'[c] = change[c]
    <3>1. Fit(c) => run'.plan[c] # "result"
      <4> SUFFICES ASSUME Fit(c), Owed(c) = "result"
                   PROVE  FALSE
        BY <1>5
      <4>1. ~LeftAlone(c) /\ change[c].state # "landing" /\ ~ResumedWait(c)
        BY <1>8
      <4>2. change[c].state = "gating" /\ change[c].step = "awaiting-slot"
        BY <4>1 DEF Fit, LeftAlone
      <4>3. OfNewestRound(c)
        BY <2>1 DEF Fit, Acts, IsMerge, OfNewestRound, LastOf
      <4> QED
        BY <4>1, <4>2, <4>3 DEF ResumedWait
    <3>2. Fit(c) => Fit(c)'
      BY <1>2, <1>6, <2>2, <3>1 DEF Fit
    <3>3. Sunk(c)' = Sunk(c) /\ Out(c)' = Out(c)
      BY <1>2, <1>6, <2>2 DEF Sunk, Out
    <3> QED
      BY <1>4, <2>1, <3>2, <3>3 DEF Sound, Pinned
  <2>3. CASE change'[c] # change[c] /\ Owed(c) = "close"
    BY <1>2, <1>7, <1>8, <2>3 DEF Out
  <2>4. CASE change'[c] # change[c] /\ Owed(c) = "yield"
    <3>1. change[c].unknown = NoEffect
      BY <1>1, <1>8, <2>4 DEF IInv, Acting
    <3>2. Last(c) \in 1..Last(c)
      BY <1>1, <2>1, FactTypes DEF Acts, IsMerge
    <3>3. ~Live(LastOf(c))
      BY <1>8, <2>4, <3>2 DEF LiveLanding, LastOf, Last
    <3> QED
      BY <2>1, <3>1, <3>3 DEF Acts
  <2> QED
    BY <1>7, <2>2, <2>3, <2>4
<1>14. Standing(c) => Standing(c)' \/ LastOf(c).round = Newest(c)
  BY <1>6, <1>10 DEF Standing, MergingNow, Settling
<1>15. MergeStands(c)'
  <2> SUFFICES ASSUME Merged(c)
               PROVE  MergeStands(c)'
    BY <1>6 DEF MergeStands
  <2>1. CASE Overtaken(c)
    <3>1. Overtaken(c)'
      BY <1>2, <1>6, <1>10, <2>1 DEF Overtaken
    <3> QED
      BY <3>1 DEF MergeStands
  <2>2. CASE ~Overtaken(c)
    <3>1. /\ origin.pr[c] = "merged"
          /\ LastOf(c).round = Newest(c) \/ Standing(c)
      BY <1>4, <2>2 DEF Sound, MergeStands
    <3>2. run'.plan[c] = "push" => ~Runs(c)
      <4> SUFFICES ASSUME Owed(c) = "push", Runs(c)
                   PROVE  FALSE
        BY <1>5
      <4>1. LastOf(c).round # Newest(c)
        BY <1>4, <1>8 DEF Sound, Reviewed, Merged
      <4>2. ~Standing(c)
        BY <1>9, <4>1 DEF Standing, MergingNow, Settling
      <4> QED
        BY <3>1, <4>1, <4>2
    <3> QED
      BY <1>2, <1>6, <1>14, <3>1, <3>2 DEF MergeStands
  <2> QED
    BY <2>1, <2>2
<1>16. FactStands(c)'
  <2>1. ASSUME c \in facts
        PROVE  /\ change'[c] = change[c]
               /\ run'.plan[c] \in {"none", "outcome", "settle"}
    <3>1. Merged(c) /\ Standing(c)
      BY <1>4, <2>1 DEF Sound, FactStands
    <3>2. CASE change[c].state = "landed" \/ ~Runs(c)
      BY <1>5, <1>7, <1>9, <3>2
    <3>3. CASE MergingNow(c) \/ (/\ change[c].state = "landing"
                                 /\ change[c].step = "up-to-date"
                                 /\ LastOf(c).round = Newest(c))
      <4>1. CASE Runs(c)
        <5>1. OwesOutcome(c)
          BY <3>1, <3>3, <4>1
             DEF MergingNow, Merged, IsMerge, OwesOutcome, Settling, StepOf,
                 OfNewestRound, LastOf
        <5> QED
          BY <1>5, <1>7, <1>8, <5>1
      <4> QED
        BY <3>2, <4>1
    <3> QED
      BY <3>1, <3>2, <3>3 DEF Standing
  <2>2. c \in facts => Standing(c)'
    <3>1. change'[c] = change[c] => Standing(c)' = Standing(c)
      BY <1>6 DEF Standing, MergingNow
    <3> QED
      BY <1>4, <2>1, <3>1 DEF Sound, FactStands
  <2>3. change'[c].state = "landed" => change[c].state = "landed"
    BY <1>10
  <2> QED
    BY <1>2, <1>4, <1>6, <2>1, <2>2, <2>3 DEF Sound, FactStands
<1>17. Reading(c)' /\ Called(c)'
  BY <1>3, ElsewhereThen DEF Quiet
<1> QED
  BY <1>11, <1>12, <1>13, <1>15, <1>16, <1>17 DEF Sound

-----------------------------------------------------------------------------
(***************************************************************************)
(* Inspections and calls                                                   *)
(***************************************************************************)
\* An effect that may act is its change's last one, and no fact is about it.
LEMMA LiveIsLast ==
    ASSUME FInv, NEW c \in Change, NEW i \in 1..Last(c), Live(effects[c][i])
    PROVE  /\ i = Last(c) /\ Last(c) # NoEffect /\ LastOf(c) = effects[c][i]
           /\ change[c].unknown = NoEffect /\ ~Merged(c) /\ c \notin facts
           /\ change[c].state # "landed"
<1>1. IInv /\ Sound(c)
  BY DEF FInv
<1>2. i \in LiveLanding(c)
  BY DEF LiveLanding, Last
<1>3. i = Last(c) /\ LastOf(c) = effects[c][i]
  BY <1>1, <1>2 DEF Sound, Lasting, LastOf
<1>4. change[c].unknown = NoEffect
  BY <1>1, <1>2 DEF IInv, Acting
<1>5. ~Merged(c)
  BY <1>3 DEF Merged, Live
<1>6. Last(c) # NoEffect
  BY <1>3 DEF NoEffect
<1> QED
  BY <1>1, <1>3, <1>4, <1>5, <1>6 DEF Sound, FactStands

\* No stage is left in the second half of a pass.
LEMMA NoStageLeft ==
    ASSUME IInv, run.at \notin StagePlaces
    PROVE  \A c \in Change : run.plan[c] = "none"
BY DEF IInv, Staged

\* A write to an effect that may act: what it says of GitHub is so, and a
\* change that it stops names it only if a merge may be found out again.
LEMMA EffectSound ==
    ASSUME FInv, Typed', run.at \notin StagePlaces, run'.plan = run.plan,
           NEW c \in Change, NEW i \in 1..Last(c), Live(effects[c][i]), NEW e,
           effects' = Written(c, i, e),
           e.kind = effects[c][i].kind, e.round = effects[c][i].round,
           e.pin = effects[c][i].pin,
           e.kind = "merge" /\ e.state = "done" =>
              \/ e.outcome = "not-merged"
              \/ e.outcome = "merged" /\ origin.pr[c] = "merged",
           e.state = "running" => Runs(c),
           UNCHANGED <<exec, rounds, facts, task, result>>,
           origin'.base = origin.base, origin'.head = origin.head,
           origin'.pr = origin.pr,
           NEW row \in Row, Transition(c, row),
           \/ row = change[c]
           \/ /\ row.state = "stopped" /\ row.unknown \in {NoEffect, i}
              /\ Runs(c) /\ change[c].state # "stopped"
              /\ e.state = "failed",
           \/ run'.at \in Quiet
           \/ run'.at = "call" /\ run'.now = <<c, i>> /\ e.state = "running"
    PROVE  \A d \in Change : Sound(d)'
<1>1. IInv /\ Typed /\ StoreTypeOK /\ Sound(c)
  BY DEF FInv, IInv, Typed, TypeOK
<1>2. /\ i = Last(c) /\ Last(c) # NoEffect /\ LastOf(c) = effects[c][i]
      /\ change[c].unknown = NoEffect /\ ~Merged(c) /\ c \notin facts
      /\ change[c].state # "landed"
  BY LiveIsLast
<1>3. \A d \in Change : run.plan[d] = "none"
  BY <1>1, NoStageLeft
<1>4. run.at # "accept"
  BY DEF StagePlaces
<1>5. /\ \A d \in Change : Last(d)' = Last(d)
      /\ \A d \in Change \ {c} : effects'[d] = effects[d]
      /\ effects'[c][i] = e
      /\ \A j \in LiveLanding(c)' : j \in LiveLanding(c)
      /\ ~Live(e) => LiveLanding(c)' = {}
  <2>1. /\ \A d \in Change : Last(d)' = Last(d)
        /\ effects'[c][i] = e
        /\ \A d \in Change : LiveLanding(d)' \subseteq LiveLanding(d)
        /\ ~Live(e) => LiveLanding(c)' \subseteq LiveLanding(c) \ {i}
    BY <1>1, WrittenFrame
  <2>2. effects' = [effects EXCEPT ![c][i] = e]
    BY DEF Written
  <2>3. \A d \in Change \ {c} : effects'[d] = effects[d]
    BY <1>1, <2>2 DEF StoreTypeOK
  <2>4. LiveLanding(c) \subseteq {i}
    BY <1>1, <1>2 DEF Sound, Lasting
  <2> QED
    BY <2>1, <2>3, <2>4
<1>6. /\ change'[c] = row /\ \A d \in Change \ {c} : change'[d] = change[d]
      /\ Newest(c)' = Newest(c) /\ Runs(c)' = Runs(c)
  BY <1>1, OneRow DEF Newest, Runs
<1>7. \A d \in Change \ {c} : Kept(d)
  BY <1>1, <1>5, <1>6, OthersKept
<1>8. ASSUME NEW d \in Change \ {c} PROVE Sound(d)'
  BY <1>4, <1>7, <1>8, OthersSound
<1>9. LastOf(c)' = e
  BY <1>2, <1>5 DEF LastOf
<1>10. Lasting(c)'
  BY <1>1, <1>2, <1>5, <1>6, <1>9 DEF Sound, Lasting, Live
<1>11. IsMerge(c)' = IsMerge(c)
  BY <1>2, <1>5, <1>9 DEF IsMerge
<1>12. Reviewed(c)' /\ Based(c)' /\ Planning(c)'
  BY <1>1, <1>2, <1>3, <1>6, <1>9, <1>11
     DEF Sound, Reviewed, Based, Planning, IsMerge
<1>13. Pinned(c)'
  <2> SUFFICES ASSUME Acts(c)'
               PROVE  Fit(c)' \/ Sunk(c)' \/ Out(c)'
    BY DEF Pinned
  <2>1. IsMerge(c) /\ Acts(c)
    BY <1>2, <1>11 DEF Acts
  <2>2. CASE row = change[c]
    <3>1. Fit(c) => Fit(c)'
      BY <1>2, <1>6, <1>9, <2>2 DEF Fit
    <3>2. Sunk(c) => Sunk(c)'
      BY <1>2, <1>9 DEF Sunk
    <3>3. Out(c) => Out(c)'
      BY <1>2, <1>6, <1>9, <2>2 DEF Out
    <3> QED
      BY <1>1, <2>1, <3>1, <3>2, <3>3 DEF Sound, Pinned
  <2>3. CASE /\ row.state = "stopped" /\ row.unknown \in {NoEffect, i}
             /\ Runs(c) /\ change[c].state # "stopped" /\ e.state = "failed"
    <3>1. row.unknown # NoEffect
      BY <1>6, <1>9, <2>3 DEF Acts, Live
    <3>2. Fit(c) => Fit(c)'
      BY <1>2, <1>6, <1>9, <2>3, <3>1 DEF Fit
    <3>3. Sunk(c) => Sunk(c)'
      BY <1>2, <1>9 DEF Sunk
    <3>4. ~Out(c)
      BY <1>2, <2>3 DEF Out
    <3> QED
      BY <1>1, <2>1, <3>2, <3>3, <3>4 DEF Sound, Pinned
  <2> QED
    BY <2>2, <2>3
<1>14. MergeStands(c)'
  <2> SUFFICES ASSUME Merged(c)'
               PROVE  MergeStands(c)'
    BY DEF MergeStands
  <2>1. origin'.pr[c] = "merged" /\ row = change[c]
    BY <1>9 DEF Merged, IsMerge
  <2>2. LastOf(c)'.round = Newest(c) \/ Standing(c)' \/ Overtaken(c)'
    BY <1>2, <1>6, <2>1 DEF Standing, Overtaken, MergingNow
  <2> QED
    BY <1>3, <1>6, <2>1, <2>2 DEF MergeStands
<1>15. FactStands(c)'
  BY <1>2, <1>6 DEF FactStands
<1>16. Reading(c)'
  BY DEF Reading, Quiet
<1>17. Called(c)'
  <2>1. CASE run'.at \in Quiet
    BY <2>1, ElsewhereThen
  <2>2. CASE run'.at = "call" /\ run'.now = <<c, i>> /\ e.state = "running"
    BY <1>2, <1>5, <1>9, <2>2 DEF Called
  <2> QED
    BY <2>1, <2>2
<1>18. Sound(c)'
  BY <1>10, <1>12, <1>13, <1>14, <1>15, <1>16, <1>17 DEF Sound
<1> QED
  BY <1>8, <1>18

\* Settling and retrying an effect leave what it is for as it was.
LEMMA SettledKeeps ==
    ASSUME Typed, NEW c \in Change, NEW i \in 1..Last(c)
    PROVE  /\ \A state, outcome : \E e :
                 /\ Settled(c, i, state, outcome) = Written(c, i, e)
                 /\ e.kind = effects[c][i].kind /\ e.round = effects[c][i].round
                 /\ e.pin = effects[c][i].pin
                 /\ e.state = state /\ e.outcome = outcome
           /\ \A state : \E e :
                 /\ Retried(c, i, state) = Written(c, i, e)
                 /\ e.kind = effects[c][i].kind /\ e.round = effects[c][i].round
                 /\ e.pin = effects[c][i].pin /\ e.state = state
           /\ \A state : LET e == [effects[c][i] EXCEPT !.state = state] IN
                 /\ e.kind = effects[c][i].kind /\ e.round = effects[c][i].round
                 /\ e.pin = effects[c][i].pin /\ e.state = state
<1> DEFINE old == effects[c][i]
<1>1. old \in Effect
  BY EffectType DEF Typed, TypeOK
<1> HIDE DEF old
<1>2. ASSUME NEW state, NEW outcome
      PROVE  LET e == [old EXCEPT !.state = state, !.outcome = outcome] IN
             /\ e.kind = old.kind /\ e.round = old.round /\ e.pin = old.pin
             /\ e.state = state /\ e.outcome = outcome
  BY <1>1 DEF Effect
<1>3. ASSUME NEW state
      PROVE  LET e == [old EXCEPT !.state = state, !.due = FALSE,
                                  !.tries = @ + 1] IN
             /\ e.kind = old.kind /\ e.round = old.round /\ e.pin = old.pin
             /\ e.state = state
  BY <1>1 DEF Effect
<1>4. ASSUME NEW state
      PROVE  LET e == [old EXCEPT !.state = state] IN
             /\ e.kind = old.kind /\ e.round = old.round /\ e.pin = old.pin
             /\ e.state = state
  BY <1>1 DEF Effect
<1>5. ASSUME NEW state, NEW outcome
      PROVE  \E e : /\ Settled(c, i, state, outcome) = Written(c, i, e)
                    /\ e.kind = old.kind /\ e.round = old.round
                    /\ e.pin = old.pin
                    /\ e.state = state /\ e.outcome = outcome
  <2> DEFINE e == [old EXCEPT !.state = state, !.outcome = outcome]
  <2>1. /\ e.kind = old.kind /\ e.round = old.round /\ e.pin = old.pin
        /\ e.state = state /\ e.outcome = outcome
    BY <1>2
  <2>2. Settled(c, i, state, outcome) = Written(c, i, e)
    BY DEF Settled, old
  <2> HIDE DEF e
  <2> QED
    BY <2>1, <2>2
<1>6. ASSUME NEW state
      PROVE  \E e : /\ Retried(c, i, state) = Written(c, i, e)
                    /\ e.kind = old.kind /\ e.round = old.round
                    /\ e.pin = old.pin /\ e.state = state
  BY <1>3 DEF Retried, old
<1> QED
  BY <1>4, <1>5, <1>6 DEF old

\* GitHub says what became of an effect of unknown outcome.
LEMMA InspectAnswersSound ==
    ASSUME FInv, Typed', NEW c \in Change, NEW i \in 1..Last(c),
           InspectAnswers(c, i)
    PROVE  \A d \in Change : Sound(d)'
<1>1. IInv /\ Typed /\ run \in Executor
  BY DEF FInv, IInv, Typed, TypeOK
<1>2. /\ run.at = "inspect" /\ <<c, i>> \in run.todo
      /\ run'.at = "inspect" /\ run'.plan = run.plan
      /\ UNCHANGED <<exec, change, slot, rounds, facts, task, result, origin>>
  BY <1>1 DEF InspectAnswers, Executor
<1>3. Live(effects[c][i])
  BY <1>1, <1>2 DEF IInv, Listed, Live
<1>4. PICK e : /\ effects' = Written(c, i, e)
               /\ e.kind = effects[c][i].kind /\ e.round = effects[c][i].round
               /\ e.pin = effects[c][i].pin
               /\ e.state \in {"pending", "done", "failed"}
               /\ e.kind = "merge" /\ e.state = "done" =>
                     e.outcome = "merged" /\ origin.pr[c] = "merged"
  <2> DEFINE waits == [effects[c][i] EXCEPT !.state = "pending"]
  <2>1. /\ waits.kind = effects[c][i].kind /\ waits.round = effects[c][i].round
        /\ waits.pin = effects[c][i].pin /\ waits.state = "pending"
    BY <1>1, SettledKeeps
  <2>2. \/ effects[c][i].kind = "merge" /\ origin.pr[c] = "merged"
              /\ effects' = Settled(c, i, "done", "merged")
        \/ effects' = Settled(c, i, "failed", "pr-closed")
        \/ effects' = Written(c, i, waits)
        \/ effects[c][i].kind # "merge"
              /\ effects' = Settled(c, i, "done", "requested")
    BY DEF InspectAnswers
  <2> HIDE DEF waits
  <2>3. ASSUME NEW state \in {"done", "failed"}, NEW outcome,
               effects' = Settled(c, i, state, outcome)
        PROVE  \E e : /\ effects' = Written(c, i, e)
                      /\ e.kind = effects[c][i].kind
                      /\ e.round = effects[c][i].round
                      /\ e.pin = effects[c][i].pin
                      /\ e.state = state /\ e.outcome = outcome
    BY <1>1, <2>3, SettledKeeps
  <2>4. CASE effects' = Written(c, i, waits)
    BY <2>1, <2>4
  <2>5. CASE effects[c][i].kind = "merge" /\ origin.pr[c] = "merged"
              /\ effects' = Settled(c, i, "done", "merged")
    BY <2>3, <2>5
  <2>6. CASE effects' = Settled(c, i, "failed", "pr-closed")
    BY <2>3, <2>6
  <2>7. CASE effects[c][i].kind # "merge"
              /\ effects' = Settled(c, i, "done", "requested")
    BY <2>3, <2>7
  <2> QED
    BY <2>2, <2>4, <2>5, <2>6, <2>7
<1>5. change[c] \in Row /\ Transition(c, change[c])
  BY <1>1, <1>2, StandsStill
<1>6. run.at \notin StagePlaces /\ run'.at \in Quiet
  BY <1>2 DEF StagePlaces, Quiet
<1> QED
  BY <1>2, <1>3, <1>4, <1>5, <1>6, EffectSound

\* The row a change is left with when an effect of it failed for good.
LEMMA StopsChangeThen ==
    ASSUME Typed, NEW c \in Change, NEW named \in Nat, StopsChange(c, named)
    PROVE  \E row \in Row :
              /\ Transition(c, row)
              /\ \/ row = change[c]
                 \/ /\ row.state = "stopped" /\ row.unknown = named
                    /\ Runs(c) /\ change[c].state # "stopped"
BY StoppedRow, StandsStill DEF StopsChange

\* An inspection or a call fails, or GitHub refuses the merge for good.
LEMMA FailingSound ==
    ASSUME FInv, Typed', NEW c \in Change, NEW i \in 1..Last(c),
           Failing(c, i) \/ MergeRefused(c, i)
    PROVE  \A d \in Change : Sound(d)'
<1>1. IInv /\ Typed /\ run \in Executor /\ Sound(c)
  BY DEF FInv, IInv, Typed, TypeOK
<1>2. /\ run.at \in {"inspect"} \cup Calls
      /\ run'.at \in {"inspect", "due"} /\ run'.plan = run.plan
      /\ UNCHANGED <<exec, rounds, facts, task, result, origin>>
  BY <1>1 DEF Failing, InspectFails, CallFails, MergeRefused, Calling, At,
              Executor, Calls
<1>3. Live(effects[c][i])
  <2>1. CASE InspectFails(c, i)
    BY <1>1, <2>1 DEF InspectFails, IInv, Listed, Live
  <2>2. CASE CallFails(c, i) \/ MergeRefused(c, i)
    <3>1. run.at \in Calls /\ run.now = <<c, i>>
      BY <2>2 DEF CallFails, MergeRefused, Calling, Calls
    <3> QED
      BY <1>1, <3>1 DEF Sound, Called, LastOf, Live
  <2> QED
    BY <2>1, <2>2 DEF Failing
<1>4. i \in Nat /\ NoEffect \in Nat
  BY DEF NoEffect
<1>5. \/ /\ \/ effects' = Retried(c, i, "pending")
            \/ effects' = Retried(c, i, "unknown")
         /\ UNCHANGED <<change, slot>>
      \/ /\ effects' = Settled(c, i, "failed", "none")
         /\ \/ UNCHANGED <<change, slot>> \/ StopsChange(c, i)
            \/ StopsChange(c, NoEffect)
  BY DEF Failing, InspectFails, CallFails, MergeRefused
<1>6. PICK e : /\ effects' = Written(c, i, e)
               /\ e.kind = effects[c][i].kind /\ e.round = effects[c][i].round
               /\ e.pin = effects[c][i].pin
               /\ \/ /\ e.state \in {"pending", "unknown"}
                     /\ UNCHANGED <<change, slot>>
                  \/ /\ e.state = "failed"
                     /\ \/ UNCHANGED <<change, slot>> \/ StopsChange(c, i)
                        \/ StopsChange(c, NoEffect)
  <2>1. CASE /\ \/ effects' = Retried(c, i, "pending")
                \/ effects' = Retried(c, i, "unknown")
             /\ UNCHANGED <<change, slot>>
    <3>1. PICK state \in {"pending", "unknown"} : effects' = Retried(c, i, state)
      BY <2>1
    <3> QED
      BY <1>1, <2>1, <3>1, SettledKeeps
  <2>2. CASE effects' = Settled(c, i, "failed", "none")
    <3>1. PICK e : /\ effects' = Written(c, i, e)
                   /\ e.kind = effects[c][i].kind
                   /\ e.round = effects[c][i].round
                   /\ e.pin = effects[c][i].pin /\ e.state = "failed"
      BY <1>1, <2>2, SettledKeeps
    <3>2. \/ UNCHANGED <<change, slot>> \/ StopsChange(c, i)
          \/ StopsChange(c, NoEffect)
      BY <1>5
    <3> QED
      BY <3>1, <3>2
  <2> QED
    BY <1>5, <2>1, <2>2
<1>7. PICK row \in Row :
         /\ Transition(c, row)
         /\ \/ row = change[c]
            \/ /\ row.state = "stopped" /\ row.unknown \in {NoEffect, i}
               /\ Runs(c) /\ change[c].state # "stopped" /\ e.state = "failed"
  BY <1>1, <1>4, <1>6, StopsChangeThen, StandsStill
<1>8. run.at \notin StagePlaces /\ run'.at \in Quiet
  BY <1>2 DEF StagePlaces, Quiet, Calls
<1> QED
  BY <1>2, <1>3, <1>6, <1>7, <1>8, EffectSound

\* A due effect is marked running, just before its call.
LEMMA MarkRunningSound ==
    ASSUME FInv, Typed', NEW c \in Change, NEW i \in 1..Last(c),
           MarkRunning(c, i)
    PROVE  \A d \in Change : Sound(d)'
<1> DEFINE e == [effects[c][i] EXCEPT !.state = "running"]
<1>1. IInv /\ Typed /\ run \in Executor
  BY DEF FInv, IInv, Typed, TypeOK
<1>2. /\ e.kind = effects[c][i].kind /\ e.round = effects[c][i].round
      /\ e.pin = effects[c][i].pin /\ e.state = "running"
  BY <1>1, SettledKeeps
<1>3. /\ run.at = "due" /\ <<c, i>> \in run.todo
      /\ effects' = Written(c, i, e)
      /\ run'.at = IF Live(effects[c][i]) THEN "call" ELSE "due"
      /\ run'.now = <<c, i>> /\ run'.plan = run.plan
      /\ UNCHANGED <<exec, change, slot, rounds, facts, task, result, origin>>
  BY <1>1 DEF MarkRunning, Executor
<1> HIDE DEF e
<1>4. CASE Live(effects[c][i])
  <2>1. Runs(c)
    BY <1>1, <1>3, <1>4 DEF IInv, Listed, Live
  <2>2. change[c] \in Row /\ Transition(c, change[c])
    BY <1>1, <1>3, StandsStill
  <2>3. run.at \notin StagePlaces
    BY <1>3 DEF StagePlaces
  <2> QED
    BY <1>2, <1>3, <1>4, <2>1, <2>2, <2>3, EffectSound
<1>5. CASE ~Live(effects[c][i])
  <2>1. effects' = effects
    BY <1>3, <1>5 DEF Written
  <2> QED
    BY <1>1, <1>3, <1>5, <2>1, NothingWritten, QuietSound DEF Quiet
<1> QED
  BY <1>4, <1>5

\* A call that answers: what it says of a merge is so.
LEMMA AnsweredSound ==
    ASSUME FInv, Typed', NEW c \in Change, NEW i \in 1..Last(c), NEW outcome,
           run.at \in Calls, run.now = <<c, i>>, Answered(c, i, outcome),
           origin'.base = origin.base, origin'.head = origin.head,
           origin'.pr = origin.pr,
           effects[c][i].kind = "merge" =>
              \/ outcome = "not-merged"
              \/ outcome = "merged" /\ origin.pr[c] = "merged"
    PROVE  \A d \in Change : Sound(d)'
<1>1. IInv /\ Typed /\ run \in Executor /\ Sound(c)
  BY DEF FInv, IInv, Typed, TypeOK
<1>2. /\ run'.at = "due" /\ run'.plan = run.plan
      /\ UNCHANGED <<exec, change, slot, rounds, facts, task, result>>
      /\ effects' = Settled(c, i, "done", outcome)
  BY <1>1 DEF Answered, At, Executor
<1>3. Live(effects[c][i])
  BY <1>1 DEF Sound, Called, LastOf, Live
<1>4. PICK e : /\ effects' = Written(c, i, e)
               /\ e.kind = effects[c][i].kind /\ e.round = effects[c][i].round
               /\ e.pin = effects[c][i].pin
               /\ e.state = "done" /\ e.outcome = outcome
  BY <1>1, <1>2, SettledKeeps
<1>5. change[c] \in Row /\ Transition(c, change[c])
  BY <1>1, <1>2, StandsStill
<1>6. run.at \notin StagePlaces /\ run'.at \in Quiet
  BY <1>2 DEF StagePlaces, Quiet, Calls
<1> QED
  BY <1>2, <1>3, <1>4, <1>5, <1>6, EffectSound

\* A merge that has found its base unmoved is for the newest round: nobody
\* has sent its change on to another one.
LEMMA RunningMergeFits ==
    ASSUME FInv, NEW c \in Change, NEW i \in 1..Last(c),
           run.at \in Calls, run.now = <<c, i>>, effects[c][i].kind = "merge",
           ~(effects[c][i].pin.base < origin.base)
    PROVE  IsMerge(c) /\ LastOf(c).round = Newest(c)
<1>1. IInv /\ Sound(c)
  BY DEF FInv
<1>2. /\ Last(c) # NoEffect /\ i = Last(c) /\ LastOf(c) = effects[c][i]
      /\ LastOf(c).state = "running"
  BY <1>1 DEF Sound, Called, LastOf
<1>3. IsMerge(c) /\ Acts(c) /\ ~Sunk(c)
  BY <1>2 DEF IsMerge, Acts, Live, Sunk
<1>4. change[c].state = "landing"
  BY <1>1, <1>2 DEF IInv, MergeKeepsLanding
<1>5. Fit(c)
  BY <1>1, <1>2, <1>3, <1>4 DEF Sound, Pinned, Out
<1> QED
  BY <1>3, <1>5 DEF Fit

\* The call, the merge and the view after it.
LEMMA CallSound ==
    ASSUME FInv, Typed', NEW c \in Change, NEW i \in 1..Last(c),
           \/ ReadMergeBase(c, i) \/ MergePull(c, i) \/ ViewMerged(c, i)
           \/ AskUpdate(c, i)
    PROVE  \A d \in Change : Sound(d)'
<1>1. IInv /\ Typed /\ run \in Executor /\ Sound(c) /\ origin \in Origin
  BY DEF FInv, IInv, Typed, TypeOK
<1>2. run.at \in Calls /\ run.now = <<c, i>> /\ run.at # "accept"
  BY DEF ReadMergeBase, MergePull, ViewMerged, AskUpdate, Calling, Calls
<1>3. /\ Last(c) # NoEffect /\ i = Last(c) /\ LastOf(c) = effects[c][i]
      /\ LastOf(c).state = "running"
  BY <1>1, <1>2 DEF Sound, Called, LastOf
<1>4. CASE ReadMergeBase(c, i) /\ Answered(c, i, "not-merged")
  BY <1>2, <1>4, AnsweredSound DEF ReadMergeBase
<1>5. CASE /\ At("merge") /\ effects[c][i].kind = "merge"
           /\ ~(effects[c][i].pin.base < origin.base)
           /\ UNCHANGED <<exec, change, rounds, effects, facts, task, result,
                          origin>>
  <2>1. run'.at = "merge" /\ run'.now = <<c, i>> /\ run'.plan = run.plan
    BY <1>1, <1>2, <1>5 DEF At, Executor
  <2>2. \A d \in Change : Kept(d)
    BY <1>1, <1>5, NothingWritten
  <2>3. ASSUME NEW d \in Change \ {c} PROVE Sound(d)'
    BY <1>2, <2>1, <2>2, <2>3, OthersSound
  <2>4. IsMerge(c) /\ LastOf(c).round = Newest(c)
    BY <1>2, <1>5, RunningMergeFits
  <2>5. /\ Last(c)' = Last(c) /\ LastOf(c)' = LastOf(c)
        /\ IsMerge(c)' = IsMerge(c) /\ Newest(c)' = Newest(c)
    BY <1>5, SameEffects DEF Newest
  <2>6. Reading(c)' /\ Called(c)'
    BY <1>3, <2>1, <2>4, <2>5 DEF Reading, Called
  <2>7. Sound(c)'
    BY <1>2, <2>1, <2>2, <2>6, KeptSound
  <2> QED
    BY <2>3, <2>7
<1>6. CASE MergePull(c, i)
  <2>1. /\ run'.at = "view" /\ run'.now = <<c, i>> /\ run'.plan = run.plan
        /\ run.at = "merge"
        /\ UNCHANGED <<exec, change, rounds, effects, facts, task, result>>
    BY <1>1, <1>2, <1>6 DEF MergePull, Calling, At, Executor, store
  <2>2. /\ origin'.base = origin.base + 1 /\ origin'.head = origin.head
        /\ origin'.pr = [origin.pr EXCEPT ![c] = "merged"]
    BY <1>1, <1>6 DEF MergePull, Origin
  <2>3. /\ origin'.pr[c] = "merged" /\ origin'.base >= origin.base
        /\ \A d \in Change \ {c} : origin'.pr[d] = origin.pr[d]
    BY <1>1, <2>2 DEF Origin
  <2>4. ASSUME NEW d \in Change PROVE Kept(d)
    BY <1>1, <2>1, <2>2, <2>3, StoreKept
  <2>5. ASSUME NEW d \in Change \ {c} PROVE Sound(d)'
    BY <1>2, <2>1, <2>4, <2>5, OthersSound
  <2>6. IsMerge(c) /\ LastOf(c).round = Newest(c)
    BY <1>1, <1>2, <2>1 DEF Sound, Called
  <2>7. /\ Last(c)' = Last(c) /\ LastOf(c)' = LastOf(c)
        /\ IsMerge(c)' = IsMerge(c) /\ Newest(c)' = Newest(c)
    BY <2>1, SameEffects DEF Newest
  <2>8. Reading(c)' /\ Called(c)'
    BY <1>3, <2>1, <2>3, <2>6, <2>7 DEF Reading, Called
  <2>9. Sound(c)'
    BY <1>2, <2>1, <2>4, <2>8, KeptSound
  <2> QED
    BY <2>5, <2>9
<1>7. CASE ViewMerged(c, i)
  <2>1. origin.pr[c] = "merged"
    BY <1>1, <1>2, <1>7 DEF Sound, Called, ViewMerged, Calling
  <2> QED
    BY <1>2, <1>7, <2>1, AnsweredSound DEF ViewMerged
<1>8. CASE AskUpdate(c, i)
  <2>1. /\ origin'.base = origin.base /\ origin'.head = origin.head
        /\ origin'.pr = origin.pr /\ effects[c][i].kind # "merge"
    BY <1>1, <1>8 DEF AskUpdate, Calling, Origin
  <2> QED
    BY <1>2, <1>8, <2>1, AnsweredSound DEF AskUpdate
<1> QED
  BY <1>4, <1>5, <1>6, <1>7, <1>8 DEF ReadMergeBase, Calling, store

-----------------------------------------------------------------------------
(***************************************************************************)
(* Stop, Retry and the end of the process                                  *)
(***************************************************************************)
\* Neither Stop nor the end of the process changes what an effect is for, and
\* a settled one they leave as it is.
LEMMA RelabelKeeps ==
    ASSUME Typed, NEW c \in Change, Last(c) # NoEffect,
           \/ \E x \in Exec : effects' = WithPendingCancelled(x)
           \/ effects' = RunningToUnknown
    PROVE  /\ LastOf(c)'.kind = LastOf(c).kind
           /\ LastOf(c)'.round = LastOf(c).round
           /\ LastOf(c)'.pin = LastOf(c).pin
           /\ LastOf(c)'.outcome = LastOf(c).outcome
<1>1. /\ StoreTypeOK /\ Last(c) \in 1..Last(c) /\ LastOf(c) \in Effect
      /\ DOMAIN effects[c] = 1..Last(c)
  BY FactTypes, EffectType DEF Typed, TypeOK
<1>2. Last(c)' = Last(c)
  BY <1>1, PendingIsCancelled, RunningIsUnknown
<1>3. ASSUME NEW x \in Exec, effects' = WithPendingCancelled(x)
      PROVE  LastOf(c)' \in {LastOf(c), [LastOf(c) EXCEPT !.state = "cancelled"]}
  <2>1. effects'[c] = [i \in 1..Last(c) |->
          IF ExecOf[c] = x /\ effects[c][i].state = "pending"
            THEN [effects[c][i] EXCEPT !.state = "cancelled"]
            ELSE effects[c][i]]
    BY <1>1, <1>3 DEF WithPendingCancelled
  <2> QED
    BY <1>1, <1>2, <2>1 DEF LastOf
<1>4. ASSUME effects' = RunningToUnknown
      PROVE  LastOf(c)' \in {LastOf(c), [LastOf(c) EXCEPT !.state = "unknown"]}
  <2>1. effects'[c] = [i \in 1..Last(c) |->
          IF effects[c][i].state = "running"
            THEN [effects[c][i] EXCEPT !.state = "unknown"]
            ELSE effects[c][i]]
    BY <1>1, <1>4 DEF RunningToUnknown
  <2> QED
    BY <1>1, <1>2, <2>1 DEF LastOf
<1> QED
  BY <1>1, <1>3, <1>4 DEF Effect

\* The server stops.
LEMMA CrashSound ==
    ASSUME FInv, Typed', Crash
    PROVE  \A c \in Change : Sound(c)'
<1>1. IInv /\ Typed /\ StoreTypeOK
  BY DEF FInv, IInv, Typed, TypeOK
<1>2. /\ UNCHANGED <<exec, change, rounds, task, result, origin>>
      /\ effects' = RunningToUnknown
      /\ run'.at = "inspect" /\ \A c \in Change : run'.plan[c] = "none"
      /\ \/ UNCHANGED facts
         \/ run.at = "fetch" /\ facts' = facts \cup {run.now[1]}
  BY DEF Crash, Restarted, Idle
<1> SUFFICES ASSUME NEW c \in Change
             PROVE  Sound(c)'
  OBVIOUS
<1>3. Sound(c)
  BY DEF FInv
<1>4. /\ Last(c)' = Last(c) /\ LiveLanding(c)' = LiveLanding(c)
      /\ Newest(c)' = Newest(c) /\ Runs(c)' = Runs(c)
  BY <1>1, <1>2, RunningIsUnknown DEF Newest, Runs
<1>5. Last(c) # NoEffect =>
         /\ LastOf(c)'.kind = LastOf(c).kind
         /\ LastOf(c)'.round = LastOf(c).round
         /\ LastOf(c)'.pin = LastOf(c).pin
         /\ LastOf(c)'.outcome = LastOf(c).outcome
         /\ LastOf(c)'.state # "running"
         /\ ~Live(LastOf(c)) => LastOf(c)' = LastOf(c)
         /\ Live(LastOf(c)') = Live(LastOf(c))
  <2> SUFFICES ASSUME Last(c) # NoEffect
               PROVE  <1>5!2
    OBVIOUS
  <2>1. Last(c) \in 1..Last(c)
    BY <1>1, FactTypes
  <2>2. /\ LastOf(c)'.state # "running"
        /\ ~Live(LastOf(c)) => LastOf(c)' = LastOf(c)
    BY <1>1, <1>2, <1>4, <2>1, RunningIsUnknown DEF LastOf
  <2>3. Live(LastOf(c)') = Live(LastOf(c))
    <3>1. /\ Last(c) \in LiveLanding(c) <=> Live(LastOf(c))
          /\ Last(c) \in LiveLanding(c)' <=> Live(LastOf(c)')
      BY <1>4, <2>1 DEF LiveLanding, LastOf, Last
    <3> QED
      BY <1>4, <3>1 DEF Live
  <2> QED
    BY <1>1, <1>2, <2>2, <2>3, RelabelKeeps
<1>6. IsMerge(c)' = IsMerge(c) /\ Merged(c)' = Merged(c) /\ Acts(c)' = Acts(c)
  BY <1>2, <1>4, <1>5 DEF IsMerge, Merged, Acts, Live
<1>7. Lasting(c)' /\ Reviewed(c)' /\ Based(c)' /\ Planning(c)'
  BY <1>2, <1>3, <1>4, <1>5, <1>6
     DEF Sound, Lasting, Reviewed, Based, Planning, IsMerge, Live
<1>8. Pinned(c)'
  BY <1>2, <1>3, <1>4, <1>5, <1>6
     DEF Sound, Pinned, Fit, Sunk, Out, Acts, IsMerge
<1>9. c \in facts' => \/ c \in facts
                      \/ Merged(c) /\ origin.pr[c] = "merged" /\ Standing(c)
  BY <1>2, <1>3 DEF Sound, Called
<1>10. Merged(c) => Standing(c)' = Standing(c)
  BY <1>2, <1>4, <1>5 DEF Merged, IsMerge, Standing, MergingNow
<1>11. MergeStands(c)'
  BY <1>2, <1>3, <1>4, <1>5, <1>6, <1>9, <1>10
     DEF Sound, MergeStands, Overtaken, Merged, IsMerge
<1>12. FactStands(c)'
  BY <1>2, <1>3, <1>6, <1>9, <1>10 DEF Sound, FactStands
<1>13. Reading(c)' /\ Called(c)'
  BY <1>2, ElsewhereThen DEF Quiet
<1> QED
  BY <1>7, <1>8, <1>11, <1>12, <1>13 DEF Sound

\* It stops between a stage's write to an effect or a round and the one to the
\* change's row.
LEMMA CrashInStageSound ==
    ASSUME FInv, Typed', NEW c \in Change, CrashInStage(c)
    PROVE  \A d \in Change : Sound(d)'
<1>1. IInv /\ Restarted
      /\ UNCHANGED <<exec, change, slot, facts, task, result, origin>>
  BY DEF FInv, CrashInStage
<1>2. CASE MayRequest(c) /\ effects' = Requested(c) /\ UNCHANGED rounds
  <2>1. change[c].unknown = NoEffect
    BY <1>1, <1>2, StageIsPlanned DEF MayRequest
  <2>2. Transition(c, change[c])
    BY <1>1, StandsStill DEF IInv
  <2> QED
    BY <1>1, <1>2, <2>1, <2>2, RequestedSound
<1>3. CASE /\ Serving(c, "decide") /\ UNCHANGED effects
           /\ rounds' = [rounds EXCEPT ![c][Newest(c)].outcome = "pass"]
  BY <1>1, <1>3, DecidedSound
<1>4. CASE On(c, "poll") /\ rounds' = WithCarried(c) /\ UNCHANGED effects
  BY <1>1, <1>4, PolledSound
<1> QED
  BY <1>2, <1>3, <1>4 DEF CrashInStage

\* It stops between an effect that failed for good and the stop of its change.
LEMMA CrashInFailureSound ==
    ASSUME FInv, Typed', NEW c \in Change, NEW i \in 1..Last(c),
           CrashInFailure(c, i)
    PROVE  \A d \in Change : Sound(d)'
<1>1. IInv /\ Typed /\ run \in Executor /\ Sound(c)
  BY DEF FInv, IInv, Typed, TypeOK
<1>2. /\ effects' = Settled(c, i, "failed", "none")
      /\ UNCHANGED <<exec, change, slot, rounds, facts, task, result, origin>>
      /\ run' = [Idle EXCEPT !.at = "inspect", !.boot = TRUE,
                             !.todo = DueUnknownEffects']
      /\ \/ run.at \in Calls /\ run.now = <<c, i>>
         \/ run.at = "inspect" /\ <<c, i>> \in run.todo
  BY DEF CrashInFailure, Restarted, Calls
<1>3. Live(effects[c][i])
  BY <1>1, <1>2 DEF IInv, Listed, Sound, Called, LastOf, Live
<1>4. run.at \notin StagePlaces /\ run'.at \in Quiet
  BY <1>2 DEF StagePlaces, Calls, Idle, Quiet
<1>5. run'.plan = run.plan
  <2>1. run'.plan = [d \in Change |-> "none"]
    BY <1>2 DEF Idle
  <2>2. run.plan = [d \in Change |-> run.plan[d]]
    BY <1>1 DEF Executor
  <2> QED
    BY <1>1, <1>4, <2>1, <2>2, NoStageLeft
<1>6. PICK e : /\ effects' = Written(c, i, e)
               /\ e.kind = effects[c][i].kind /\ e.round = effects[c][i].round
               /\ e.pin = effects[c][i].pin /\ e.state = "failed"
  BY <1>1, <1>2, SettledKeeps
<1>7. change[c] \in Row /\ Transition(c, change[c])
  BY <1>1, <1>2, StandsStill
<1> QED
  BY <1>2, <1>3, <1>4, <1>5, <1>6, <1>7, EffectSound

\* Stop: an execution ends, its changes that may are cancelled.
LEMMA StopSound ==
    ASSUME FInv, Typed', NEW x \in Exec, Stop(x)
    PROVE  \A c \in Change : Sound(c)'
<1>1. IInv /\ Typed /\ StoreTypeOK
  BY DEF FInv, IInv, Typed, TypeOK
<1>2. /\ UNCHANGED <<rounds, facts, result, origin, run>>
      /\ effects' = WithPendingCancelled(x)
      /\ exec[x] = "running" /\ exec' = [exec EXCEPT ![x] = "stopped"]
  BY DEF Stop
<1> SUFFICES ASSUME NEW c \in Change
             PROVE  Sound(c)'
  OBVIOUS
<1>3. Sound(c) /\ change[c] \in Row
  BY <1>1, FactTypes DEF FInv
<1>4. ExecOf[c] \in Exec
  BY StoreAssumption DEF Change
<1>5. \/ change'[c] = change[c] /\ c \notin Stoppable(x)
      \/ change'[c].state = "cancelled" /\ c \in Stoppable(x)
            /\ change'[c].unknown = change[c].unknown
  <2> DEFINE row == [change[c] EXCEPT !.state = "cancelled", !.step = "none"]
  <2>1. row.state = "cancelled" /\ row.unknown = change[c].unknown
    BY <1>3 DEF Row
  <2>2. change'[c] = IF c \in Stoppable(x) THEN row ELSE change[c]
    BY DEF Stop
  <2> HIDE DEF row
  <2> QED
    BY <2>1, <2>2
<1>6. task[c] # "open" => task'[c] # "open"
  BY DEF Stop
<1>7. CASE ExecOf[c] # x
  <2>1. effects'[c] = effects[c] /\ Last(c)' = Last(c)
    BY <1>1, <1>2, <1>7, PendingIsCancelled
  <2>2. c \notin Stoppable(x)
    BY <1>7 DEF Stoppable
  <2>3. Runs(c)' = Runs(c)
    BY <1>1, <1>2, <1>4, <1>7 DEF Runs, StoreTypeOK
  <2>4. origin.base >= origin.base
    BY <1>1, FactTypes
  <2>5. Kept(c)
    BY <1>2, <1>5, <1>6, <2>1, <2>2, <2>3, <2>4 DEF Kept, EffectsKept
  <2> QED
    BY <1>2, <2>5, BesideSound
<1>8. CASE ExecOf[c] = x
  <2>1. Runs(c) /\ ~Runs(c)'
    BY <1>1, <1>2, <1>8 DEF Runs, StoreTypeOK
  <2>2. /\ Last(c)' = Last(c) /\ Newest(c)' = Newest(c)
        /\ LiveLanding(c)' \subseteq LiveLanding(c)
    BY <1>1, <1>2, PendingIsCancelled DEF Newest
  <2>3. Last(c) # NoEffect =>
           /\ Last(c) \in 1..Last(c)
           /\ LastOf(c)'.kind = LastOf(c).kind
           /\ LastOf(c)'.round = LastOf(c).round
           /\ LastOf(c)'.pin = LastOf(c).pin
           /\ LastOf(c)'.outcome = LastOf(c).outcome
           /\ \/ LastOf(c)' = LastOf(c)
              \/ /\ LastOf(c).state = "pending"
                 /\ LastOf(c)'.state = "cancelled"
    <3>1. Last(c) # NoEffect => Last(c) \in 1..Last(c)
      BY <1>1, FactTypes
    <3>2. \A i \in 1..Last(c) :
             \/ effects'[c][i] = effects[c][i]
             \/ /\ effects[c][i].state = "pending"
                /\ effects'[c][i].state = "cancelled"
      BY <1>1, <1>2, PendingIsCancelled
    <3>3. Last(c) # NoEffect => \/ LastOf(c)' = LastOf(c)
                                \/ /\ LastOf(c).state = "pending"
                                   /\ LastOf(c)'.state = "cancelled"
      BY <2>2, <3>1, <3>2 DEF LastOf
    <3> QED
      BY <1>1, <1>2, <3>1, <3>3, RelabelKeeps
  <2>4. /\ IsMerge(c)' = IsMerge(c) /\ Merged(c)' = Merged(c)
        /\ Acts(c)' => Acts(c)
    BY <1>5, <2>2, <2>3 DEF IsMerge, Merged, Acts, Live
  <2>5. IsMerge(c) /\ LastOf(c).state = "running" =>
           /\ change[c].state = "landing" /\ change'[c] = change[c]
           /\ LastOf(c)' = LastOf(c)
    <3> SUFFICES ASSUME IsMerge(c), LastOf(c).state = "running"
                 PROVE  /\ change[c].state = "landing" /\ change'[c] = change[c]
                        /\ LastOf(c)' = LastOf(c)
      OBVIOUS
    <3>1. change[c].state = "landing"
      BY <1>1, <2>3 DEF IInv, MergeKeepsLanding, IsMerge, LastOf
    <3>2. c \notin Stoppable(x)
      BY <2>3, <3>1 DEF Stoppable, IsMerge, LastOf
    <3> QED
      BY <1>5, <2>3, <3>1, <3>2 DEF IsMerge
  <2>6. c \notin Stoppable(x) =>
           \/ change[c].state \in {"landed", "cancelled"}
           \/ /\ run.at \in Calls
              /\ \E i \in 1..Last(c) : effects[c][i].state = "running"
    BY <1>1, <1>8 DEF Stoppable, IInv, Acting
  <2>7. Lasting(c)' /\ Based(c)'
    BY <1>2, <1>3, <1>5, <2>2, <2>3 DEF Sound, Lasting, Based
  <2>8. Reviewed(c)'
    BY <1>2, <1>3, <2>2, <2>3, <2>4 DEF Sound, Reviewed, IsMerge
  <2>9. Planning(c)'
    <3> SUFFICES ASSUME run.plan[c] # "none"
                 PROVE  Planning(c)'
      BY <1>2 DEF Planning
    <3>1. run.at \notin Calls
      BY <1>1 DEF IInv, Staged, StagePlaces, Calls
    <3>2. \/ change[c].state \in {"landed", "cancelled"}
             /\ change'[c] = change[c]
          \/ change'[c].state = "cancelled"
      BY <1>5, <2>6, <3>1
    <3>3. change[c].state = "landed" => run.at = "accept" /\ run.now[1] = c
      BY <1>1 DEF IInv, Finishing
    <3> QED
      BY <1>2, <1>3, <2>1, <2>2, <3>2, <3>3 DEF Sound, Planning, PassedNewest
  <2>10. Pinned(c)'
    <3> SUFFICES ASSUME Acts(c)'
                 PROVE  Fit(c)' \/ Sunk(c)' \/ Out(c)'
      BY DEF Pinned
    <3>1. IsMerge(c) /\ Acts(c)
      BY <2>4 DEF Acts
    <3>2. CASE LastOf(c).state = "running"
      <4>1. ~Out(c)
        BY <2>1, <2>5, <3>1, <3>2 DEF Out
      <4>2. Fit(c) => Fit(c)'
        BY <1>2, <2>2, <2>5, <3>1, <3>2 DEF Fit
      <4>3. Sunk(c) => Sunk(c)'
        BY <1>2, <2>5, <3>1, <3>2 DEF Sunk
      <4> QED
        BY <1>3, <3>1, <4>1, <4>2, <4>3 DEF Sound, Pinned
    <3>3. CASE LastOf(c).state # "running"
      BY <2>1, <2>3, <3>1, <3>3 DEF Out, IsMerge
    <3> QED
      BY <3>2, <3>3
  <2>11. Reading(c)'
    <3> SUFFICES ASSUME run.now[1] = c, run.at \in {"head", "base", "write"}
                 PROVE  Reading(c)'
      BY <1>2 DEF Reading
    <3>1. Acts(c)' => Out(c)'
      <4>1. IsMerge(c) => LastOf(c).state # "running"
        BY <1>1, <2>3 DEF IInv, Acting, Calls, IsMerge, LastOf
      <4> QED
        BY <2>1, <2>3, <2>4, <4>1 DEF Out, Acts, IsMerge
    <3> QED
      BY <1>2, <1>3, <2>1, <3>1 DEF Sound, Reading
  <2>12. Merged(c) => /\ Standing(c)'
                      /\ Overtaken(c) => Overtaken(c)'
    <3> SUFFICES ASSUME Merged(c)
                 PROVE  /\ Standing(c)'
                        /\ Overtaken(c) => Overtaken(c)'
      OBVIOUS
    <3>1. change'[c].state = "landing" => FALSE
      <4>1. \A i \in 1..Last(c) : effects[c][i].kind = "merge"
               => effects[c][i].state # "running"
        <5>1. \A i \in LiveLanding(c) : i = Last(c)
          BY <1>3 DEF Sound, Lasting
        <5>2. \A i \in 1..Last(c) :
                 effects[c][i].state = "running" => i \in LiveLanding(c)
          BY DEF LiveLanding, Live, Last
        <5> QED
          BY <5>1, <5>2 DEF Merged, LastOf
      <4>2. change[c].state = "landing" => c \in Stoppable(x)
        BY <1>8, <4>1 DEF Stoppable
      <4> QED
        BY <1>5, <4>2
    <3>2. change'[c].state = "landed" => change[c].state = "landed"
      BY <1>5
    <3> QED
      BY <1>2, <2>1, <2>2, <2>3, <3>1, <3>2
         DEF Standing, Overtaken, Merged, IsMerge
  <2>13. MergeStands(c)'
    BY <1>2, <1>3, <2>1, <2>2, <2>4, <2>12 DEF Sound, MergeStands
  <2>14. FactStands(c)'
    BY <1>2, <1>3, <1>5, <2>4, <2>12 DEF Sound, FactStands
  <2>15. Called(c)'
    <3> SUFFICES ASSUME run.now[1] = c
                 PROVE  Called(c)'
      BY <1>2 DEF Called
    <3>1. run.at \in Calls => LastOf(c)'.state = "running"
      BY <1>3, <2>3 DEF Sound, Called
    <3>2. run.at = "poll" => LastOf(c)'.state = "done"
      BY <1>3, <2>3 DEF Sound, Called
    <3> QED
      BY <1>2, <1>3, <2>2, <2>3, <2>4, <2>12, <3>1, <3>2
         DEF Sound, Called, IsMerge
  <2> QED
    BY <2>7, <2>8, <2>9, <2>10, <2>11, <2>13, <2>14, <2>15 DEF Sound
<1> QED
  BY <1>7, <1>8

\* A retry takes up the effect its change names, which is the last one.
LEMMA RetriedEffect ==
    ASSUME FInv, NEW c \in Change, Retry(c), change[c].unknown # NoEffect
    PROVE  /\ Last(c) # NoEffect /\ LiveLanding(c)' \subseteq {Last(c)}
           /\ LastOf(c)'.kind = LastOf(c).kind
           /\ LastOf(c)'.round = LastOf(c).round
           /\ LastOf(c)'.pin = LastOf(c).pin
           /\ LastOf(c)'.state = "unknown" /\ LastOf(c).state = "failed"
<1> DEFINE i == Last(c)
           e == [effects[c][i] EXCEPT !.state = "unknown", !.tries = 0,
                                      !.due = TRUE]
<1>1. IInv /\ Typed /\ StoreTypeOK /\ Sound(c)
  BY DEF FInv, IInv, Typed, TypeOK
<1>2. /\ i = change[c].unknown /\ effects[c][i].state = "failed"
      /\ i # NoEffect /\ LiveLanding(c) = {}
  BY <1>1 DEF Sound, Lasting, LastOf, IInv, Acting
<1>3. /\ effects[c] \in Seq(Effect) /\ i = Len(effects[c])
      /\ i \in 1..Last(c) /\ effects[c][i] \in Effect
  BY <1>1, <1>2, FactTypes, EffectType DEF Last, LastOf
<1>4. effects' = [effects EXCEPT ![c][i].state = "unknown",
                         ![c][i].tries = 0, ![c][i].due = TRUE]
  BY <1>2 DEF Retry
<1>5. effects'[c] = [effects[c] EXCEPT ![i] = e]
  BY <1>1, <1>3, <1>4 DEF StoreTypeOK
<1>6. /\ e.kind = effects[c][i].kind /\ e.round = effects[c][i].round
      /\ e.pin = effects[c][i].pin /\ e.state = "unknown"
  BY <1>3 DEF Effect
<1> HIDE DEF e
<1>7. Last(c)' = Last(c) /\ LastOf(c)' = e
  BY <1>3, <1>5 DEF Last, LastOf
<1>8. LiveLanding(c)' \subseteq {Last(c)}
  <2> SUFFICES ASSUME NEW j \in LiveLanding(c)', j # i
               PROVE  FALSE
    OBVIOUS
  <2>1. j \in 1..Last(c) /\ Live(effects'[c][j])
    BY <1>7 DEF LiveLanding, Last
  <2>2. effects'[c][j] = effects[c][j]
    BY <1>3, <1>5, <2>1
  <2> QED
    BY <1>2, <2>1, <2>2 DEF LiveLanding, Last
<1> QED
  BY <1>2, <1>6, <1>7, <1>8 DEF LastOf

\* Retry: a stopped change, and the effect it names, are taken up again.
LEMMA RetrySound ==
    ASSUME FInv, Typed', NEW c \in Change, Retry(c)
    PROVE  \A d \in Change : Sound(d)'
<1> DEFINE i == change[c].unknown
           gating == [[change[c] EXCEPT !.unknown = NoEffect]
                         EXCEPT !.state = "gating"]
           landing == [[change[c] EXCEPT !.unknown = NoEffect]
                          EXCEPT !.state = "landing",
                                 !.step = StepOf(effects[c][i].kind)]
           waiting == [[change[c] EXCEPT !.unknown = NoEffect]
                          EXCEPT !.state = "gating", !.step = "awaiting-slot"]
<1>1. IInv /\ Typed /\ StoreTypeOK /\ Sound(c) /\ change[c] \in Row
  BY FactTypes DEF FInv, IInv, Typed, TypeOK
<1>2. /\ UNCHANGED <<exec, rounds, facts, task, result, origin, run>>
      /\ change[c].state = "stopped" /\ task[c] = "open"
  BY DEF Retry
<1>3. Runs(c) /\ run.plan[c] = "none"
  BY <1>1, <1>2 DEF IInv, Finishing, Sound, Planning
<1>4. /\ gating.state = "gating" /\ gating.unknown = NoEffect
      /\ landing.state = "landing" /\ landing.unknown = NoEffect
      /\ landing.step = StepOf(effects[c][i].kind)
      /\ waiting.state = "gating" /\ waiting.unknown = NoEffect
      /\ waiting.step = "awaiting-slot"
  BY <1>1 DEF Row
<1>5. \/ i = NoEffect /\ Transition(c, gating) /\ effects' = effects
      \/ i # NoEffect /\ (Transition(c, landing) \/ Transition(c, waiting))
  BY DEF Retry
<1> HIDE DEF i, gating, landing, waiting
<1>6. /\ \/ /\ i = NoEffect /\ change'[c].state = "gating"
            /\ effects' = effects
         \/ /\ i # NoEffect
            /\ \/ /\ change'[c].state = "landing"
                  /\ change'[c].step = StepOf(effects[c][i].kind)
               \/ /\ change'[c].state = "gating"
                  /\ change'[c].step = "awaiting-slot"
      /\ change'[c].unknown = NoEffect
      /\ \A d \in Change \ {c} : change'[d] = change[d]
  BY <1>1, <1>4, <1>5, OneRow
<1>7. /\ \A d \in Change : Last(d)' = Last(d)
      /\ \A d \in Change \ {c} : effects'[d] = effects[d]
  BY <1>1, RetryTakesUp
<1>8. \A d \in Change \ {c} : Kept(d)
  BY <1>1, <1>2, <1>6, <1>7, OthersKept
<1>9. ASSUME NEW d \in Change \ {c} PROVE Sound(d)'
  BY <1>2, <1>8, <1>9, BesideSound
<1>10. Newest(c)' = Newest(c) /\ Runs(c)' = Runs(c)
  BY <1>2 DEF Newest, Runs
<1>11. Based(c)' /\ Planning(c)'
  BY <1>1, <1>2, <1>3, <1>10 DEF Sound, Based, Planning
<1>12. ~Standing(c) /\ c \notin facts
  BY <1>1, <1>2, <1>3 DEF Standing, MergingNow, Sound, FactStands
<1>13. FactStands(c)'
  BY <1>2, <1>6, <1>12 DEF FactStands
<1>14. run.now[1] = c => run.at \notin {"head", "base", "write", "fetch"}
  BY <1>1, <1>2, <1>3, <1>12 DEF Sound, Reading, Called
<1>15. Reading(c)'
  BY <1>2, <1>14 DEF Reading
<1>16. ~Out(c)
  BY <1>2, <1>3 DEF Out
<1>17. CASE i = NoEffect
  <2>1. /\ Last(c)' = Last(c) /\ LastOf(c)' = LastOf(c)
        /\ LiveLanding(c)' = LiveLanding(c)
        /\ IsMerge(c)' = IsMerge(c) /\ Merged(c)' = Merged(c)
    BY <1>6, <1>17, SameEffects
  <2>2. Lasting(c)' /\ Reviewed(c)'
    BY <1>1, <1>2, <1>6, <1>10, <2>1 DEF Sound, Lasting, Reviewed
  <2>3. Pinned(c)'
    <3>1. Acts(c)' => Acts(c)
      BY <1>6, <2>1 DEF Acts
    <3>2. ~Fit(c)
      BY <1>2, <1>17 DEF Fit, i
    <3>3. Sunk(c) => Sunk(c)'
      BY <1>2, <2>1 DEF Sunk
    <3> QED
      BY <1>1, <1>16, <3>1, <3>2, <3>3 DEF Sound, Pinned
  <2>4. MergeStands(c)'
    BY <1>1, <1>2, <1>3, <1>6, <1>10, <1>12, <1>17, <2>1
       DEF Sound, MergeStands, Overtaken
  <2>5. Called(c)'
    BY <1>1, <1>2, <1>10, <1>14, <2>1 DEF Sound, Called
  <2> QED
    BY <1>9, <1>11, <1>13, <1>15, <2>2, <2>3, <2>4, <2>5 DEF Sound
<1>18. CASE i # NoEffect
  <2>1. /\ Last(c) # NoEffect /\ LiveLanding(c)' \subseteq {Last(c)}
        /\ LastOf(c)'.kind = LastOf(c).kind
        /\ LastOf(c)'.round = LastOf(c).round
        /\ LastOf(c)'.pin = LastOf(c).pin
        /\ LastOf(c)'.state = "unknown" /\ LastOf(c).state = "failed"
    BY <1>18, RetriedEffect DEF i
  <2>2. effects[c][i] = LastOf(c)
    BY <1>1, <1>18 DEF Sound, Lasting, LastOf, i
  <2>3. IsMerge(c)' = IsMerge(c) /\ ~Merged(c)'
    BY <1>7, <2>1 DEF IsMerge, Merged
  <2>4. Lasting(c)' /\ Reviewed(c)'
    BY <1>1, <1>2, <1>6, <1>7, <1>10, <2>1, <2>3
       DEF Sound, Lasting, Reviewed
  <2>5. Pinned(c)'
    <3> SUFFICES ASSUME IsMerge(c)
                 PROVE  Fit(c)' \/ Sunk(c)'
      BY <2>3 DEF Pinned, Acts
    <3>1. Acts(c)
      BY <1>18 DEF Acts, i
    <3>2. Fit(c) => Fit(c)'
      BY <1>2, <1>3, <1>6, <1>10, <1>18, <2>1, <2>2 DEF Fit, IsMerge, StepOf
    <3>3. Sunk(c) => Sunk(c)'
      BY <1>2, <2>1 DEF Sunk
    <3> QED
      BY <1>1, <1>16, <3>1, <3>2, <3>3 DEF Sound, Pinned
  <2>6. MergeStands(c)'
    BY <2>3 DEF MergeStands
  <2>7. Called(c)'
    <3> SUFFICES ASSUME run.now[1] = c, run.at \in Calls \cup {"fetch", "poll"}
                 PROVE  FALSE
      BY <1>2 DEF Called, Calls
    <3> QED
      BY <1>1, <2>1 DEF Sound, Called, Merged
  <2> QED
    BY <1>9, <1>11, <1>13, <1>15, <2>4, <2>5, <2>6, <2>7 DEF Sound
<1> QED
  BY <1>17, <1>18

-----------------------------------------------------------------------------
(***************************************************************************)
(* The theorems                                                            *)
(***************************************************************************)
LEMMA FactsInit == Init => FInv
<1> SUFFICES ASSUME Init
             PROVE  FInv
  OBVIOUS
<1>1. IInv
  BY SafeInit
<1> SUFFICES ASSUME NEW c \in Change
             PROVE  Sound(c)
  BY <1>1 DEF FInv
<1>2. /\ run = Idle /\ Last(c) = 0 /\ Newest(c) = 0 /\ facts = {}
      /\ change[c].state = "implementing" /\ change[c].unknown = NoEffect
      /\ result[c].base = 0 /\ origin.base = 1 /\ origin.head[c].base = 1
  BY DEF Init, StoreInit, Last, Newest, NoCommit
<1>3. run.at = "idle" /\ run.plan[c] = "none"
  BY <1>2 DEF Idle
<1>4. ~IsMerge(c) /\ ~Merged(c) /\ ~Acts(c)
  BY <1>2 DEF IsMerge, Merged, Acts, NoEffect
<1>5. Lasting(c) /\ Reviewed(c) /\ Pinned(c) /\ MergeStands(c)
  BY <1>2, <1>4 DEF Lasting, Reviewed, Pinned, MergeStands, LiveLanding, Last
<1>6. Based(c)
  BY <1>2 DEF Based
<1>7. Planning(c) /\ FactStands(c) /\ Reading(c) /\ Called(c)
  BY <1>2, <1>3 DEF Planning, FactStands, Reading, Called, Calls
<1> QED
  BY <1>5, <1>6, <1>7 DEF Sound

\* Every step keeps the invariant.
LEMMA FactsStep == FInv /\ [Next]_vars => FInv'
<1> SUFFICES ASSUME FInv, [Next]_vars
             PROVE  FInv'
  OBVIOUS
<1>1. IInv /\ IInv' /\ Typed' /\ run \in Executor
  BY SafeStep DEF FInv, IInv, Typed, TypeOK
<1> SUFFICES \A d \in Change : Sound(d)'
  BY <1>1 DEF FInv
<1>2. 1 \in Change
  BY StoreAssumption DEF Change
<1>3. CASE UNCHANGED vars
  BY <1>1, <1>2, <1>3, CommandSound
<1>4. CASE Plan \/ Inspect \/ Inspected \/ RanDue
  BY <1>1, <1>4, PlanSound, TurnSound
<1>5. CASE ReadBase
  <2>1. run.now[1] \in Change
    BY <1>1 DEF Executor, Pair
  <2> QED
    BY <1>1, <1>5, <2>1, ReadingSound
<1>6. ASSUME NEW c \in Change, Stage(c) PROVE \A d \in Change : Sound(d)'
  BY <1>1, <1>6, InsertRoundSound, PushSound, DecideSound, FixSound,
     EnterLandingSound, ReadingSound, PredictConflictSound,
     RequestEffectSound, ApplyOutcomeSound, RecordLandingSound,
     AcceptLandedSound, PollUpdateSound
     DEF Stage
<1>7. ASSUME NEW c \in Change, NEW i \in 1..Last(c), Effects(c, i)
      PROVE  \A d \in Change : Sound(d)'
  BY <1>1, <1>7, InspectAnswersSound, MarkRunningSound, CallSound,
     FailingSound DEF Effects
<1>8. CASE Outside
  <2>1. CASE MergeByOther \/ Crash
    BY <1>1, <1>2, <2>1, OriginSound, CrashSound
  <2>2. ASSUME NEW x \in Exec, Stop(x) PROVE \A d \in Change : Sound(d)'
    BY <1>1, <2>2, StopSound
  <2>3. ASSUME NEW c \in Change,
               \/ ReadFails(c) \/ Submit(c) \/ GitHubUpdates(c)
               \/ PushByOther(c) \/ ShutPull(c) \/ Retry(c) \/ CloseTask(c)
               \/ Hold(c) \/ Release(c) \/ CrashInStage(c)
        PROVE  \A d \in Change : Sound(d)'
    BY <1>1, <2>3, ReadFailsSound, CommandSound, OriginSound, RetrySound,
       CrashInStageSound
  <2>4. ASSUME NEW c \in Change, NEW i \in 1..Last(c),
               Failing(c, i) \/ BackoffEnds(c, i) \/ CrashInFailure(c, i)
        PROVE  \A d \in Change : Sound(d)'
    BY <1>1, <2>4, FailingSound, BackoffSound, CrashInFailureSound
  <2> QED
    BY <1>8, <2>1, <2>2, <2>3, <2>4 DEF Outside
<1> QED
  BY <1>3, <1>4, <1>5, <1>6, <1>7, <1>8 DEF Next, Pass

\* The invariant holds in every reachable state.
THEOREM LandingSound == Spec => []FInv
BY FactsInit, FactsStep, PTL DEF Spec

\* FactsAreMerges: a change has a landing fact only if its pull request was
\* merged, and one that has landed has its fact, for every number of changes
\* and executions, whatever is lost, stopped or retried in between.
THEOREM LandingFactsAreMerges == Spec => []FactsAreMerges
<1>1. FInv => FactsAreMerges
  BY DEF FInv, Sound, FactStands, FactsAreMerges
<1> QED
  BY <1>1, LandingSound, PTL

\* Only the executor's merge call makes an open pull request a merged one.
LEMMA OnlyMergePull ==
    ASSUME Typed, [Next]_vars, NEW c \in Change,
           origin.pr[c] = "open", origin'.pr[c] = "merged"
    PROVE  \E i \in 1..Last(c) : MergePull(c, i)
<1>1. origin \in Origin
  BY DEF Typed, TypeOK
<1>2. origin' # origin
  OBVIOUS
<1>3. ASSUME NEW d \in Change,
             Push(d) \/ GitHubUpdates(d) \/ PushByOther(d) \/ ShutPull(d)
      PROVE  FALSE
  <2>1. origin.pr \in [Change -> {"open", "merged", "closed"}]
    BY <1>1 DEF Origin
  <2>2. CASE Push(d)
    <3>1. origin'.pr = [origin.pr EXCEPT ![d] = "open"]
      BY <1>1, <1>2, <2>2 DEF Push, Origin
    <3> QED
      BY <2>1, <3>1
  <2>3. CASE GitHubUpdates(d) \/ PushByOther(d)
    <3>1. origin'.pr = origin.pr
      BY <1>1, <2>3 DEF GitHubUpdates, PushByOther, Origin
    <3> QED
      BY <3>1
  <2>4. CASE ShutPull(d)
    <3>1. origin'.pr = [origin.pr EXCEPT ![d] = "closed"]
      BY <1>1, <2>4 DEF ShutPull, Origin
    <3> QED
      BY <2>1, <3>1
  <2> QED
    BY <1>3, <2>2, <2>3, <2>4
<1>4. ~MergeByOther
  BY <1>1 DEF MergeByOther, Origin
<1>5. ASSUME NEW d \in Change, NEW i \in 1..Last(d), AskUpdate(d, i)
      PROVE  FALSE
  BY <1>1, <1>2, <1>5 DEF AskUpdate, Origin
<1>6. ASSUME NEW d \in Change, Stage(d) PROVE FALSE
  BY <1>2, <1>3, <1>6
     DEF Stage, InsertRound, Decide, Undecided, Fix, EnterLanding, ReadHead,
         PredictConflict, RequestEffect, ApplyOutcome, RecordLanding,
         AcceptLanded, PollUpdate
<1>7. ASSUME NEW d \in Change, NEW i \in 1..Last(d), Effects(d, i)
      PROVE  d = c /\ MergePull(d, i)
  <2>1. MergePull(d, i)
    BY <1>2, <1>5, <1>7
       DEF Effects, InspectAnswers, MarkRunning, ReadMergeBase, ViewMerged,
           MergeRefused
  <2>2. d = c
    BY <1>1, <2>1 DEF MergePull, Origin
  <2> QED
    BY <2>1, <2>2
<1>8. ~(Plan \/ ReadBase \/ Inspect \/ Inspected \/ RanDue)
  BY <1>2 DEF Plan, ReadBase, Inspect, Inspected, RanDue
<1>9. ~Outside
  <2>1. ~Crash /\ \A x \in Exec : ~Stop(x)
    BY <1>2 DEF Crash, Stop
  <2>2. ASSUME NEW d \in Change,
               \/ ReadFails(d) \/ Submit(d) \/ Retry(d) \/ CloseTask(d)
               \/ Hold(d) \/ Release(d) \/ CrashInStage(d)
        PROVE  FALSE
    BY <1>2, <2>2 DEF ReadFails, Submit, Retry, CloseTask, Hold, Release,
                      CrashInStage
  <2>3. ASSUME NEW d \in Change, NEW i \in 1..Last(d),
               Failing(d, i) \/ BackoffEnds(d, i) \/ CrashInFailure(d, i)
        PROVE  FALSE
    BY <1>2, <2>3 DEF Failing, InspectFails, CallFails, BackoffEnds,
                      CrashInFailure
  <2> QED
    BY <1>3, <1>4, <2>1, <2>2, <2>3 DEF Outside
<1>10. ~UNCHANGED vars
  BY <1>2 DEF vars
<1> QED
  BY <1>6, <1>7, <1>8, <1>9, <1>10 DEF Next, Pass

\* MergesPassedRound: the merge of a pull request happens only while the
\* newest round of its change has passed, however long before its effect was
\* recorded and whatever the implementer or Retry did since.
THEOREM LandingMergesPassedRound == Spec => MergesPassedRound
<1>1. ASSUME FInv, [Next]_vars
      PROVE  [\A c \in Change :
                 origin.pr[c] = "open" /\ origin'.pr[c] = "merged"
                    => rounds[c][Newest(c)].outcome = "pass"]_vars
  <2> SUFFICES ASSUME NEW c \in Change,
                      origin.pr[c] = "open", origin'.pr[c] = "merged"
               PROVE  rounds[c][Newest(c)].outcome = "pass"
    OBVIOUS
  <2>1. Typed /\ Sound(c)
    BY <1>1 DEF FInv, IInv
  <2>2. PICK i \in 1..Last(c) : MergePull(c, i)
    BY <1>1, <2>1, OnlyMergePull
  <2>3. run.at = "merge" /\ run.now[1] = c
    BY <2>2 DEF MergePull, Calling
  <2> QED
    BY <2>1, <2>3 DEF Sound, Called, Reviewed
<1>2. FInv /\ [Next]_vars
        => [\A c \in Change :
               origin.pr[c] = "open" /\ origin'.pr[c] = "merged"
                  => rounds[c][Newest(c)].outcome = "pass"]_vars
  BY <1>1
<1> QED
  BY <1>2, LandingSound, PTL DEF Spec, MergesPassedRound
=============================================================================
