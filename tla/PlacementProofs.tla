--------------------------- MODULE PlacementProofs ---------------------------
(***************************************************************************)
(* What the placement of a student keeps true, for any number of answers,  *)
(* sessions and skills, whatever overlaps, fails or is sent again; and what*)
(* the pages that lead to it do, for any number of answers and mishaps.    *)
(***************************************************************************)
EXTENDS Placement, Onboarding, FiniteSetTheorems, TLAPS

-----------------------------------------------------------------------------
(* Types. *)

LEMMA BlankType == \A o \in Ended : [Blank EXCEPT !.stage = o] \in Transaction
BY DEF Blank, Transaction, Stages

\* A step that only moves a transaction keeps every type.
LEMMA MoveType ==
  ASSUME TypeOK, NEW r \in Requests, NEW next \in Transaction, Moves(r, next)
  PROVE  TypeOK'
BY DEF TypeOK, Moves, database

LEMMA EndType ==
  ASSUME TypeOK, NEW r \in Requests, NEW o \in Ended, End(r, o)
  PROVE  TypeOK'
BY BlankType, MoveType DEF End

LEMMA StepType ==
  ASSUME TypeOK, NEW r \in Requests, Step(r)
  PROVE  TypeOK'
<1>1. /\ tx[r] \in Transaction
      /\ SubmissionOf[r] \in Submissions /\ SessionOf[r] \in Sessions
  BY PlacementAssumption DEF TypeOK
<1> USE <1>1
<1>2. ASSUME LoadSession(r) PROVE TypeOK'
  <2>1. [Blank EXCEPT !.stage = "loaded"] \in Transaction
    BY DEF Blank, Transaction, Stages
  <2>2. \/ End(r, "not_found") \/ End(r, "refused")
        \/ Moves(r, [Blank EXCEPT !.stage = "loaded"])
    BY <1>2 DEF LoadSession
  <2> QED
    BY <2>1, <2>2, EndType, MoveType DEF Ended
<1>3. ASSUME CheckDuplicate(r) PROVE TypeOK'
  <2>1. [tx[r] EXCEPT !.stage = "checked"] \in Transaction
    BY DEF Transaction, Stages
  <2> QED
    BY <1>3, <2>1, EndType, MoveType DEF CheckDuplicate, Ended
<1>4. ASSUME AskAgent(r) PROVE TypeOK'
  <2>1. [tx[r] EXCEPT !.stage = "replying"] \in Transaction
    BY DEF Transaction, Stages
  <2>2. \A levels \in Signals :
          [tx[r] EXCEPT !.stage = "completing", !.levels = levels] \in Transaction
    BY PlacementAssumption DEF Transaction, Stages
  <2> QED
    BY <1>4, <2>1, <2>2, MoveType DEF AskAgent
<1>5. ASSUME Continue(r) PROVE TypeOK'
  <2>1. CASE Recorded(r)
    BY <1>5, <2>1, EndType DEF Continue, Ended
  <2>2. CASE ~Recorded(r)
    <3>1. [Blank EXCEPT !.stage = "continued"] \in Transaction
      BY BlankType DEF Ended
    <3>2. [submission |-> SubmissionOf[r], session |-> SessionOf[r], completing |-> FALSE]
            \in Answer
      BY DEF Answer
    <3> QED
      BY <1>5, <2>2, <3>1, <3>2 DEF Continue, TypeOK
  <2> QED
    BY <2>1, <2>2
<1>6. ASSUME FlushCompletion(r) PROVE TypeOK'
  <2>1. [tx[r] EXCEPT !.stage = "seeding"] \in Transaction
    BY DEF Transaction, Stages
  <2> QED
    BY <1>6, <2>1, EndType, MoveType DEF FlushCompletion, Ended
<1>7. ASSUME NEW next \in Transaction, FlushPending(r, next) PROVE TypeOK'
  <2>1. [next EXCEPT !.seeded = @ \cup tx[r].pending] \in Transaction
    BY DEF Transaction
  <2> QED
    BY <1>7, <2>1, EndType, MoveType DEF FlushPending, Ended
<1>8. ASSUME LookUpProfile(r) PROVE TypeOK'
  <2>1. PICK skill \in Due(r) :
          FlushPending(r, [tx[r] EXCEPT
            !.looked = @ \cup {skill},
            !.pending = IF profiles[skill] = NoSession THEN {skill} ELSE {}])
    BY <1>8 DEF LookUpProfile
  <2>2. skill \in Skills
    BY DEF Due, Transaction
  <2>3. [tx[r] EXCEPT
            !.looked = @ \cup {skill},
            !.pending = IF profiles[skill] = NoSession THEN {skill} ELSE {}] \in Transaction
    BY <2>2 DEF Transaction
  <2> QED
    BY <1>7, <2>1, <2>3
<1>9. ASSUME LookUpGamification(r) PROVE TypeOK'
  <2>1. [tx[r] EXCEPT !.stage = "finishing", !.pending = {}, !.first = ~gamification]
          \in Transaction
    BY DEF Transaction, Stages
  <2> QED
    BY <1>7, <1>9, <2>1 DEF LookUpGamification
<1>10. ASSUME Complete(r) PROVE TypeOK'
  <2>1. CASE tx[r].first /\ gamification
    BY <1>10, <2>1, EndType DEF Complete, Ended
  <2>2. CASE ~(tx[r].first /\ gamification)
    <3>1. [Blank EXCEPT !.stage = "completed"] \in Transaction
      BY BlankType DEF Ended
    <3>2. [submission |-> SubmissionOf[r], session |-> SessionOf[r], completing |-> TRUE]
            \in Answer
      BY DEF Answer
    <3>3. profiles' \in [Skills -> Sessions \cup {NoSession}]
      BY <1>10, <2>2 DEF Complete, SeededProfiles, TypeOK
    <3>4. tx[r].levels \in SUBSET Skills
      BY DEF Transaction
    <3>5. "completed" \in Statuses
      BY DEF Statuses
    <3> QED
      BY <1>10, <2>2, <3>1, <3>2, <3>3, <3>4, <3>5 DEF Complete, TypeOK
  <2> QED
    BY <2>1, <2>2
<1> QED
  BY <1>2, <1>3, <1>4, <1>5, <1>6, <1>8, <1>9, <1>10 DEF Step

\* Rows, answers and transactions keep their types: a placement session is never
\* in a status that belongs to another kind of session.
THEOREM TypeCorrect == Spec => []TypeOK
<1>1. Init => TypeOK
  <2>1. Blank \in Transaction
    BY DEF Blank, Transaction, Stages
  <2> QED
    BY <2>1 DEF Init, TypeOK, Statuses, NoResult
<1>2. TypeOK /\ [Next]_vars => TypeOK'
  <2> SUFFICES ASSUME TypeOK, [Next]_vars PROVE TypeOK'
    OBVIOUS
  <2>1. ASSUME NEW p \in Sessions, StartSession(p) PROVE TypeOK'
    BY <2>1 DEF StartSession, TypeOK, Statuses
  <2>2. ASSUME NEW r \in Requests, Fail(r) PROVE TypeOK'
    BY <2>2, EndType DEF Fail, Ended
  <2>3. CASE UNCHANGED vars
    BY <2>3 DEF TypeOK, vars
  <2> QED
    BY <2>1, <2>2, <2>3, StepType DEF Next
<1> QED
  BY <1>1, <1>2, PTL DEF Spec

-----------------------------------------------------------------------------
(* Completions.  Several may be open at once; what they hold between their *)
(* flushes and their commit keeps them apart.                              *)

\* An open completion is the only one of its session and of its submission,
\* neither of which is stored yet.
CompletionsAreExclusive ==
  \A r \in Requests : HoldsSession(r) =>
    /\ ~HasResult(r) /\ ~Recorded(r)
    /\ Required \subseteq tx[r].levels
    /\ SessionFree(r) /\ KeyFree(r)

\* The profiles it has inserted are its own, and not stored yet.
SeedsAreExclusive ==
  \A r \in Requests :
    /\ ~HoldsSession(r) => tx[r].looked = {} /\ tx[r].pending = {} /\ tx[r].seeded = {}
    /\ \A k \in tx[r].seeded : profiles[k] = NoSession
    /\ \A other \in Requests \ {r} : tx[r].seeded \cap tx[other].seeded = {}

\* Every skill it has looked up is stored, or it is about to be stored with it.
LookedAreSeeded ==
  \A r \in Requests :
    /\ \A k \in tx[r].looked :
         profiles[k] # NoSession \/ k \in tx[r].pending \cup tx[r].seeded
    /\ tx[r].stage = "finishing" => tx[r].levels \subseteq tx[r].looked /\ tx[r].pending = {}

\* Profiles come with the gamification profile.  Who found that one missing had
\* found no profile either, and inserted those of all required skills.
FirstSeedsRequired ==
  /\ \A k \in Skills : profiles[k] # NoSession => gamification
  /\ \A r \in Requests : tx[r].stage = "finishing" =>
       IF tx[r].first THEN ~gamification /\ Required \subseteq tx[r].seeded
       ELSE gamification

CompletingAnswers(p) == {a \in answers : a.session = p /\ a.completing}

\* CompletedOnce, without counting.
CompletionsAreStored ==
  \A p \in Sessions :
    /\ sessions[p] = "completed" <=> results[p] # NoResult
    /\ IF sessions[p] = "completed" THEN \E a \in answers : CompletingAnswers(p) = {a}
       ELSE CompletingAnswers(p) = {}

PlacementInv ==
  /\ CompletionsAreExclusive /\ SeedsAreExclusive /\ LookedAreSeeded
  /\ FirstSeedsRequired /\ CompletionsAreStored /\ ResultsAreSeeded

LEMMA Moved ==
  ASSUME TypeOK, NEW r \in Requests, NEW next, Moves(r, next)
  PROVE  /\ tx'[r] = next
         /\ \A other \in Requests \ {r} : tx'[other] = tx[other]
         /\ UNCHANGED database
BY DEF TypeOK, Moves

\* A step of a request that holds nothing after it.
LEMMA MoveOutside ==
  ASSUME TypeOK, PlacementInv, NEW r \in Requests, NEW next, Moves(r, next),
         next.stage \notin {"seeding", "finishing"},
         next.looked = {}, next.pending = {}, next.seeded = {}
  PROVE  PlacementInv'
<1>1. /\ tx'[r] = next /\ UNCHANGED <<sessions, answers, results, profiles, gamification>>
      /\ \A other \in Requests \ {r} : tx'[other] = tx[other]
  BY Moved DEF database
<1>2. /\ ~HoldsSession(r)'
      /\ \A other \in Requests \ {r} : HoldsSession(other)' <=> HoldsSession(other)
  BY <1>1 DEF HoldsSession
<1>3. CompletionsAreExclusive'
  <2> SUFFICES ASSUME NEW q \in Requests, HoldsSession(q)'
               PROVE  /\ ~HasResult(q)' /\ ~Recorded(q)'
                      /\ Required \subseteq tx'[q].levels
                      /\ SessionFree(q)' /\ KeyFree(q)'
    BY DEF CompletionsAreExclusive
  <2>1. q # r /\ HoldsSession(q) /\ tx'[q] = tx[q]
    BY <1>1, <1>2
  <2>2. /\ ~HasResult(q) /\ ~Recorded(q) /\ Required \subseteq tx[q].levels
        /\ SessionFree(q) /\ KeyFree(q)
    BY <2>1 DEF PlacementInv, CompletionsAreExclusive
  <2> QED
    BY <1>1, <1>2, <2>1, <2>2 DEF HasResult, Recorded, SessionFree, KeyFree
<1>4. SeedsAreExclusive'
  BY <1>1, <1>2 DEF PlacementInv, SeedsAreExclusive
<1>5. LookedAreSeeded'
  BY <1>1 DEF PlacementInv, LookedAreSeeded
<1>6. FirstSeedsRequired'
  BY <1>1 DEF PlacementInv, FirstSeedsRequired
<1>7. CompletionsAreStored' /\ ResultsAreSeeded'
  BY <1>1 DEF PlacementInv, CompletionsAreStored, CompletingAnswers, ResultsAreSeeded
<1> QED
  BY <1>3, <1>4, <1>5, <1>6, <1>7 DEF PlacementInv

LEMMA EndOutside ==
  ASSUME TypeOK, PlacementInv, NEW r \in Requests, NEW o \in Ended, End(r, o)
  PROVE  PlacementInv'
<1> DEFINE next == [Blank EXCEPT !.stage = o]
<1>1. /\ next.stage \notin {"seeding", "finishing"}
      /\ next.looked = {} /\ next.pending = {} /\ next.seeded = {}
  BY DEF Blank, Ended
<1>2. Moves(r, next)
  BY DEF End
<1> HIDE DEF next
<1> QED
  BY <1>1, <1>2, MoveOutside

\* The flush that opens a completion.
LEMMA FlushCompletionInv ==
  ASSUME TypeOK, PlacementInv, NEW r \in Requests, FlushCompletion(r)
  PROVE  PlacementInv'
<1> DEFINE next == [tx[r] EXCEPT !.stage = "seeding"]
<1>1. ASSUME NEW o \in Ended, End(r, o) PROVE PlacementInv'
  BY <1>1, EndOutside
<1>2. ASSUME Required \subseteq tx[r].levels, ~HasResult(r), ~Recorded(r), Moves(r, next)
      PROVE  PlacementInv'
  <2>1. tx[r] \in Transaction /\ ~HoldsSession(r) /\ SessionFree(r) /\ KeyFree(r)
    BY DEF FlushCompletion, HoldsSession, TypeOK
  <2>2. /\ next.stage = "seeding" /\ next.levels = tx[r].levels
        /\ next.looked = {} /\ next.pending = {} /\ next.seeded = {}
    BY <2>1 DEF Transaction, PlacementInv, SeedsAreExclusive
  <2>3. /\ tx'[r] = next /\ UNCHANGED <<sessions, answers, results, profiles, gamification>>
        /\ \A other \in Requests \ {r} : tx'[other] = tx[other]
    BY <1>2, Moved DEF database
  <2> HIDE DEF next
  <2>4. /\ HoldsSession(r)'
        /\ \A other \in Requests \ {r} : HoldsSession(other)' <=> HoldsSession(other)
    BY <2>2, <2>3 DEF HoldsSession
  <2>5. CompletionsAreExclusive'
    <3>1. /\ ~HasResult(r)' /\ ~Recorded(r)' /\ Required \subseteq tx'[r].levels
          /\ SessionFree(r)' /\ KeyFree(r)'
      BY <1>2, <2>1, <2>2, <2>3, <2>4 DEF HasResult, Recorded, SessionFree, KeyFree
    <3>2. ASSUME NEW q \in Requests \ {r}, HoldsSession(q)'
          PROVE  /\ ~HasResult(q)' /\ ~Recorded(q)' /\ Required \subseteq tx'[q].levels
                 /\ SessionFree(q)' /\ KeyFree(q)'
      <4>1. /\ ~HasResult(q) /\ ~Recorded(q) /\ Required \subseteq tx[q].levels
            /\ SessionFree(q) /\ KeyFree(q)
        BY <2>4, <3>2 DEF PlacementInv, CompletionsAreExclusive
      <4>2. SessionOf[q] # SessionOf[r] /\ SubmissionOf[q] # SubmissionOf[r]
        BY <2>1, <2>4, <3>2 DEF SessionFree, KeyFree
      <4> QED
        BY <2>3, <2>4, <4>1, <4>2 DEF HasResult, Recorded, SessionFree, KeyFree
    <3> QED
      BY <3>1, <3>2 DEF CompletionsAreExclusive
  <2>6. SeedsAreExclusive'
    BY <2>2, <2>3, <2>4 DEF PlacementInv, SeedsAreExclusive
  <2>7. LookedAreSeeded' /\ FirstSeedsRequired'
    BY <2>2, <2>3 DEF PlacementInv, LookedAreSeeded, FirstSeedsRequired
  <2>8. CompletionsAreStored' /\ ResultsAreSeeded'
    BY <2>3 DEF PlacementInv, CompletionsAreStored, CompletingAnswers, ResultsAreSeeded
  <2> QED
    BY <2>5, <2>6, <2>7, <2>8 DEF PlacementInv
<1> QED
  BY <1>1, <1>2 DEF FlushCompletion, Ended

\* The flush of a pending profile, with what the completion looks up next.
LEMMA FlushPendingInv ==
  ASSUME TypeOK, PlacementInv, NEW r \in Requests, tx[r].stage = "seeding",
         NEW next \in Transaction, FlushPending(r, next),
         next.levels = tx[r].levels, next.seeded = tx[r].seeded,
         \/ /\ next.stage = "seeding"
            /\ \A k \in next.looked :
                 k \in tx[r].looked \/ profiles[k] # NoSession \/ k \in next.pending
         \/ /\ next.stage = "finishing" /\ next.looked = tx[r].looked
            /\ tx[r].levels \subseteq tx[r].looked /\ next.pending = {}
            /\ next.first = ~gamification
  PROVE  PlacementInv'
<1> DEFINE flushed == [next EXCEPT !.seeded = @ \cup tx[r].pending]
<1>1. ASSUME End(r, "conflict") PROVE PlacementInv'
  BY <1>1, EndOutside DEF Ended
<1>2. ASSUME PendingFree(r), \A k \in tx[r].pending : profiles[k] = NoSession,
             Moves(r, flushed)
      PROVE  PlacementInv'
  <2>1. tx[r] \in Transaction
    BY DEF TypeOK
  <2>2. /\ flushed.stage = next.stage /\ flushed.levels = tx[r].levels
        /\ flushed.looked = next.looked /\ flushed.pending = next.pending
        /\ flushed.first = next.first
        /\ flushed.seeded = tx[r].seeded \cup tx[r].pending
    BY DEF Transaction
  <2>3. /\ tx'[r] = flushed /\ UNCHANGED <<sessions, answers, results, profiles, gamification>>
        /\ \A other \in Requests \ {r} : tx'[other] = tx[other]
    BY <1>2, Moved DEF database
  <2> HIDE DEF flushed
  <2>4. /\ HoldsSession(r) /\ \A q \in Requests : HoldsSession(q)' <=> HoldsSession(q)
    BY <2>2, <2>3 DEF HoldsSession
  <2>5. CompletionsAreExclusive'
    <3> SUFFICES ASSUME NEW q \in Requests, HoldsSession(q)'
                 PROVE  /\ ~HasResult(q)' /\ ~Recorded(q)'
                        /\ Required \subseteq tx'[q].levels
                        /\ SessionFree(q)' /\ KeyFree(q)'
      BY DEF CompletionsAreExclusive
    <3>1. /\ ~HasResult(q) /\ ~Recorded(q) /\ Required \subseteq tx[q].levels
          /\ SessionFree(q) /\ KeyFree(q)
      BY <2>4 DEF PlacementInv, CompletionsAreExclusive
    <3> QED
      BY <2>2, <2>3, <2>4, <3>1 DEF HasResult, Recorded, SessionFree, KeyFree
  <2>6. SeedsAreExclusive'
    <3>1. \A other \in Requests \ {r} : tx[r].pending \cap tx[other].seeded = {}
      BY <1>2 DEF PendingFree, HoldsProfile
    <3> QED
      BY <1>2, <2>2, <2>3, <2>4, <3>1 DEF PlacementInv, SeedsAreExclusive
  <2>7. LookedAreSeeded'
    <3>1. \A k \in tx[r].looked :
            profiles[k] # NoSession \/ k \in tx[r].pending \cup tx[r].seeded
      BY DEF PlacementInv, LookedAreSeeded
    <3>2. \A k \in next.looked :
            profiles[k] # NoSession \/ k \in next.pending \cup tx[r].seeded \cup tx[r].pending
      BY <3>1
    <3> QED
      BY <2>2, <2>3, <3>2 DEF PlacementInv, LookedAreSeeded
  <2>8. FirstSeedsRequired'
    <3>1. ASSUME next.stage = "finishing"
          PROVE  IF next.first THEN ~gamification /\ Required \subseteq flushed.seeded
                 ELSE gamification
      <4>1. /\ Required \subseteq tx[r].looked
            /\ \A k \in tx[r].looked :
                 profiles[k] # NoSession \/ k \in tx[r].pending \cup tx[r].seeded
        BY <2>4, <3>1 DEF PlacementInv, CompletionsAreExclusive, LookedAreSeeded
      <4>2. \A k \in Required : profiles[k] # NoSession => gamification
        BY PlacementAssumption DEF PlacementInv, FirstSeedsRequired
      <4> QED
        BY <2>2, <3>1, <4>1, <4>2
    <3> QED
      BY <2>2, <2>3, <3>1 DEF PlacementInv, FirstSeedsRequired
  <2>9. CompletionsAreStored' /\ ResultsAreSeeded'
    BY <2>3 DEF PlacementInv, CompletionsAreStored, CompletingAnswers, ResultsAreSeeded
  <2> QED
    BY <2>5, <2>6, <2>7, <2>8, <2>9 DEF PlacementInv
<1> QED
  BY <1>1, <1>2 DEF FlushPending

LEMMA ContinueInv ==
  ASSUME TypeOK, PlacementInv, NEW r \in Requests, Continue(r)
  PROVE  PlacementInv'
<1>1. CASE Recorded(r)
  BY <1>1, EndOutside DEF Continue, Ended
<1>2. CASE ~Recorded(r)
  <2> DEFINE answer == [submission |-> SubmissionOf[r], session |-> SessionOf[r],
                        completing |-> FALSE]
  <2>1. /\ answers' = answers \cup {answer}
        /\ \A other \in Requests \ {r} : tx'[other] = tx[other]
        /\ UNCHANGED <<sessions, results, profiles, gamification>>
    BY <1>2 DEF Continue, TypeOK
  <2>2. /\ tx'[r].stage = "continued"
        /\ tx'[r].looked = {} /\ tx'[r].pending = {} /\ tx'[r].seeded = {}
    BY <1>2 DEF Continue, TypeOK, Blank
  <2>3. answer.submission = SubmissionOf[r] /\ ~answer.completing
    OBVIOUS
  <2> HIDE DEF answer
  <2>4. /\ ~HoldsSession(r)'
        /\ \A other \in Requests \ {r} : HoldsSession(other)' <=> HoldsSession(other)
    BY <2>1, <2>2 DEF HoldsSession
  <2>5. CompletionsAreExclusive'
    <3> SUFFICES ASSUME NEW q \in Requests, HoldsSession(q)'
                 PROVE  /\ ~HasResult(q)' /\ ~Recorded(q)'
                        /\ Required \subseteq tx'[q].levels
                        /\ SessionFree(q)' /\ KeyFree(q)'
      BY DEF CompletionsAreExclusive
    <3>1. q # r /\ HoldsSession(q) /\ tx'[q] = tx[q]
      BY <2>1, <2>4
    <3>2. /\ ~HasResult(q) /\ ~Recorded(q) /\ Required \subseteq tx[q].levels
          /\ SessionFree(q) /\ KeyFree(q)
      BY <3>1 DEF PlacementInv, CompletionsAreExclusive
    <3>3. SubmissionOf[q] # SubmissionOf[r]
      BY <1>2, <3>1 DEF Continue, KeyFree
    <3>4. ~Recorded(q)'
      BY <2>1, <2>3, <3>2, <3>3 DEF Recorded
    <3> QED
      BY <2>1, <2>4, <3>1, <3>2, <3>4 DEF HasResult, SessionFree, KeyFree
  <2>6. SeedsAreExclusive' /\ LookedAreSeeded' /\ FirstSeedsRequired'
    BY <2>1, <2>2, <2>4 DEF PlacementInv, SeedsAreExclusive, LookedAreSeeded, FirstSeedsRequired
  <2>7. CompletionsAreStored'
    <3>1. \A p : CompletingAnswers(p)' = CompletingAnswers(p)
      BY <2>1, <2>3 DEF CompletingAnswers
    <3> QED
      BY <2>1, <3>1 DEF PlacementInv, CompletionsAreStored
  <2>8. ResultsAreSeeded'
    BY <2>1 DEF PlacementInv, ResultsAreSeeded
  <2> QED
    BY <2>5, <2>6, <2>7, <2>8 DEF PlacementInv
<1> QED
  BY <1>1, <1>2

LEMMA CompleteInv ==
  ASSUME TypeOK, PlacementInv, NEW r \in Requests, Complete(r)
  PROVE  PlacementInv'
<1>1. CASE tx[r].first /\ gamification
  BY <1>1, EndOutside DEF Complete, Ended
<1>2. CASE ~(tx[r].first /\ gamification)
  <2> DEFINE own == SessionOf[r]
             answer == [submission |-> SubmissionOf[r], session |-> own, completing |-> TRUE]
  <2>1. /\ sessions' = [sessions EXCEPT ![own] = "completed"]
        /\ answers' = answers \cup {answer}
        /\ results' = [results EXCEPT ![own] = tx[r].levels]
        /\ profiles' = SeededProfiles(r) /\ gamification'
        /\ \A other \in Requests \ {r} : tx'[other] = tx[other]
    BY <1>2 DEF Complete, TypeOK
  <2>2. /\ tx'[r].stage = "completed"
        /\ tx'[r].looked = {} /\ tx'[r].pending = {} /\ tx'[r].seeded = {}
    BY <1>2 DEF Complete, TypeOK, Blank
  <2>3. /\ answer.submission = SubmissionOf[r] /\ answer.session = own /\ answer.completing
    OBVIOUS
  <2> HIDE DEF answer
  <2>4. /\ own \in Sessions /\ own # NoSession /\ tx[r] \in Transaction
    BY PlacementAssumption DEF TypeOK
  <2>5. /\ HoldsSession(r) /\ ~HoldsSession(r)' /\ tx[r].stage = "finishing"
        /\ \A other \in Requests \ {r} : HoldsSession(other)' <=> HoldsSession(other)
    BY <2>1, <2>2 DEF HoldsSession, Complete
  <2>6. /\ ~HasResult(r) /\ ~Recorded(r) /\ SessionFree(r) /\ KeyFree(r)
        /\ Required \subseteq tx[r].levels
    BY <2>5 DEF PlacementInv, CompletionsAreExclusive
  <2>7. \A k \in Skills : profiles'[k] = IF k \in tx[r].seeded THEN own ELSE profiles[k]
    BY <2>1 DEF SeededProfiles
  <2>8. CompletionsAreExclusive'
    <3> SUFFICES ASSUME NEW q \in Requests, HoldsSession(q)'
                 PROVE  /\ ~HasResult(q)' /\ ~Recorded(q)'
                        /\ Required \subseteq tx'[q].levels
                        /\ SessionFree(q)' /\ KeyFree(q)'
      BY DEF CompletionsAreExclusive
    <3>1. q # r /\ HoldsSession(q) /\ tx'[q] = tx[q]
      BY <2>1, <2>5
    <3>2. /\ ~HasResult(q) /\ ~Recorded(q) /\ Required \subseteq tx[q].levels
          /\ SessionFree(q) /\ KeyFree(q)
      BY <3>1 DEF PlacementInv, CompletionsAreExclusive
    <3>3. SubmissionOf[q] # SubmissionOf[r] /\ SessionOf[q] # own
      BY <2>6, <3>1 DEF KeyFree, SessionFree
    <3>4. ~Recorded(q)'
      BY <2>1, <2>3, <3>2, <3>3 DEF Recorded
    <3>5. ~HasResult(q)'
      BY <2>1, <3>2, <3>3, PlacementAssumption DEF HasResult, TypeOK
    <3> QED
      BY <2>5, <3>1, <3>2, <3>4, <3>5 DEF SessionFree, KeyFree
  <2>9. SeedsAreExclusive'
    <3>1. ASSUME NEW q \in Requests \ {r}, NEW k \in tx[q].seeded PROVE profiles'[k] = NoSession
      <4>1. k \in Skills /\ k \notin tx[r].seeded /\ profiles[k] = NoSession
        BY DEF PlacementInv, SeedsAreExclusive, TypeOK, Transaction
      <4> QED
        BY <2>7, <4>1
    <3> QED
      BY <2>1, <2>2, <2>5, <3>1 DEF PlacementInv, SeedsAreExclusive
  <2>10. \A k \in Skills : profiles[k] # NoSession => profiles'[k] # NoSession
    BY <2>4, <2>7
  <2>11. LookedAreSeeded'
    <3> SUFFICES ASSUME NEW q \in Requests \ {r}
                 PROVE  /\ \A k \in tx[q].looked :
                             profiles'[k] # NoSession \/ k \in tx[q].pending \cup tx[q].seeded
                        /\ tx[q].stage = "finishing" =>
                             tx[q].levels \subseteq tx[q].looked /\ tx[q].pending = {}
      BY <2>1, <2>2 DEF LookedAreSeeded
    <3>1. tx[q].looked \subseteq Skills
      BY DEF TypeOK, Transaction
    <3> QED
      BY <2>10, <3>1 DEF PlacementInv, LookedAreSeeded
  <2>12. FirstSeedsRequired'
    <3>1. ASSUME NEW q \in Requests \ {r}, tx[q].stage = "finishing", tx[q].first PROVE FALSE
      <4>1. ~gamification /\ Required \subseteq tx[q].seeded
        BY <3>1 DEF PlacementInv, FirstSeedsRequired
      <4>2. Required \subseteq tx[r].seeded
        BY <2>5, <4>1 DEF PlacementInv, FirstSeedsRequired
      <4>3. tx[r].seeded \cap tx[q].seeded = {}
        BY DEF PlacementInv, SeedsAreExclusive
      <4> QED
        BY <4>1, <4>2, <4>3, PlacementAssumption
    <3> QED
      BY <2>1, <2>2, <3>1 DEF FirstSeedsRequired
  <2>13. CompletionsAreStored'
    <3> SUFFICES ASSUME NEW p \in Sessions
                 PROVE  /\ sessions'[p] = "completed" <=> results'[p] # NoResult
                        /\ IF sessions'[p] = "completed"
                           THEN \E a \in answers' : CompletingAnswers(p)' = {a}
                           ELSE CompletingAnswers(p)' = {}
      BY DEF CompletionsAreStored
    <3>1. /\ sessions[p] = "completed" <=> results[p] # NoResult
          /\ IF sessions[p] = "completed" THEN \E a \in answers : CompletingAnswers(p) = {a}
             ELSE CompletingAnswers(p) = {}
      BY DEF PlacementInv, CompletionsAreStored
    <3>2. CASE p = own
      <4>1. sessions'[p] = "completed" /\ results'[p] = tx[r].levels
        BY <2>1, <2>4, <3>2 DEF TypeOK
      <4>2. tx[r].levels # NoResult
        BY <2>6, PlacementAssumption DEF NoResult
      <4>3. CompletingAnswers(p) = {}
        BY <2>6, <3>1, <3>2 DEF HasResult
      <4>4. CompletingAnswers(p)' = {answer}
        BY <2>1, <2>3, <3>2, <4>3 DEF CompletingAnswers
      <4> QED
        BY <2>1, <4>1, <4>2, <4>4
    <3>3. CASE p # own
      <4>1. sessions'[p] = sessions[p] /\ results'[p] = results[p]
        BY <2>1, <3>3 DEF TypeOK
      <4>2. CompletingAnswers(p)' = CompletingAnswers(p)
        BY <2>1, <2>3, <3>3 DEF CompletingAnswers
      <4> QED
        BY <2>1, <3>1, <4>1, <4>2
    <3> QED
      BY <3>2, <3>3
  <2>14. ResultsAreSeeded'
    <3> SUFFICES ASSUME NEW p \in Sessions, results'[p] # NoResult, NEW k \in results'[p]
                 PROVE  profiles'[k] # NoSession
      BY <2>1 DEF ResultsAreSeeded
    <3>1. CASE p = own
      <4>1. results'[p] = tx[r].levels
        BY <2>1, <2>4, <3>1 DEF TypeOK
      <4>2. k \in tx[r].looked /\ tx[r].pending = {} /\ k \in Skills
        BY <2>4, <2>5, <4>1 DEF PlacementInv, LookedAreSeeded, Transaction
      <4>3. profiles[k] # NoSession \/ k \in tx[r].seeded
        BY <4>2 DEF PlacementInv, LookedAreSeeded
      <4> QED
        BY <2>4, <2>7, <4>2, <4>3
    <3>2. CASE p # own
      <4>1. results'[p] = results[p] /\ results[p] \subseteq Skills
        BY <2>1, <3>2 DEF TypeOK
      <4> QED
        BY <2>10, <4>1 DEF PlacementInv, ResultsAreSeeded
    <3> QED
      BY <3>1, <3>2
  <2> QED
    BY <2>8, <2>9, <2>11, <2>12, <2>13, <2>14 DEF PlacementInv
<1> QED
  BY <1>1, <1>2

LEMMA StepInv ==
  ASSUME TypeOK, PlacementInv, NEW r \in Requests, Step(r)
  PROVE  PlacementInv'
<1>1. tx[r] \in Transaction
  BY DEF TypeOK
<1> USE <1>1
<1>2. ASSUME tx[r].stage \notin {"seeding", "finishing"}
      PROVE  tx[r].looked = {} /\ tx[r].pending = {} /\ tx[r].seeded = {}
  BY <1>2 DEF PlacementInv, SeedsAreExclusive, HoldsSession
<1>3. ASSUME LoadSession(r) PROVE PlacementInv'
  <2> DEFINE next == [Blank EXCEPT !.stage = "loaded"]
  <2>1. /\ next.stage = "loaded" /\ next.looked = {} /\ next.pending = {} /\ next.seeded = {}
    BY DEF Blank
  <2>2. End(r, "not_found") \/ End(r, "refused") \/ Moves(r, next)
    BY <1>3 DEF LoadSession
  <2> HIDE DEF next
  <2> QED
    BY <2>1, <2>2, EndOutside, MoveOutside DEF Ended
<1>4. ASSUME CheckDuplicate(r) PROVE PlacementInv'
  <2> DEFINE next == [tx[r] EXCEPT !.stage = "checked"]
  <2>1. /\ next.stage = "checked" /\ next.looked = {} /\ next.pending = {} /\ next.seeded = {}
    BY <1>2, <1>4 DEF CheckDuplicate, Transaction
  <2>2. End(r, "replayed") \/ Moves(r, next)
    BY <1>4 DEF CheckDuplicate
  <2> HIDE DEF next
  <2> QED
    BY <2>1, <2>2, EndOutside, MoveOutside DEF Ended
<1>5. ASSUME AskAgent(r) PROVE PlacementInv'
  <2>1. tx[r].looked = {} /\ tx[r].pending = {} /\ tx[r].seeded = {}
    BY <1>2, <1>5 DEF AskAgent
  <2>2. CASE Moves(r, [tx[r] EXCEPT !.stage = "replying"])
    BY <2>1, <2>2, MoveOutside DEF Transaction
  <2>3. ASSUME NEW levels \in Signals,
               Moves(r, [tx[r] EXCEPT !.stage = "completing", !.levels = levels])
        PROVE  PlacementInv'
    BY <2>1, <2>3, MoveOutside DEF Transaction
  <2> QED
    BY <1>5, <2>2, <2>3 DEF AskAgent
<1>6. ASSUME LookUpProfile(r) PROVE PlacementInv'
  <2>1. PICK skill \in Due(r) :
          FlushPending(r, [tx[r] EXCEPT
            !.looked = @ \cup {skill},
            !.pending = IF profiles[skill] = NoSession THEN {skill} ELSE {}])
    BY <1>6 DEF LookUpProfile
  <2> DEFINE next == [tx[r] EXCEPT
            !.looked = @ \cup {skill},
            !.pending = IF profiles[skill] = NoSession THEN {skill} ELSE {}]
  <2>2. next \in Transaction /\ tx[r].stage = "seeding"
    BY <1>6 DEF LookUpProfile, Due, Transaction
  <2>3. /\ next.levels = tx[r].levels /\ next.seeded = tx[r].seeded /\ next.stage = "seeding"
        /\ \A k \in next.looked :
             k \in tx[r].looked \/ profiles[k] # NoSession \/ k \in next.pending
    BY <2>2 DEF Transaction
  <2> HIDE DEF next
  <2> QED
    BY <2>1, <2>2, <2>3, FlushPendingInv DEF next
<1>7. ASSUME LookUpGamification(r) PROVE PlacementInv'
  <2> DEFINE next == [tx[r] EXCEPT !.stage = "finishing", !.pending = {}, !.first = ~gamification]
  <2>1. next \in Transaction /\ tx[r].stage = "seeding" /\ FlushPending(r, next)
    BY <1>7 DEF LookUpGamification, Transaction, Stages
  <2>2. /\ next.levels = tx[r].levels /\ next.seeded = tx[r].seeded
        /\ next.stage = "finishing" /\ next.looked = tx[r].looked /\ next.pending = {}
        /\ next.first = ~gamification
    BY DEF Transaction
  <2>3. tx[r].levels \subseteq tx[r].looked
    BY <1>7 DEF LookUpGamification, Due
  <2> HIDE DEF next
  <2> QED
    BY <2>1, <2>2, <2>3, FlushPendingInv
<1> QED
  BY <1>3, <1>4, <1>5, <1>6, <1>7, ContinueInv, FlushCompletionInv, CompleteInv DEF Step

LEMMA InvAlways == Spec => []PlacementInv
<1>1. Init => PlacementInv
  <2> SUFFICES ASSUME Init PROVE PlacementInv
    OBVIOUS
  <2>1. \A r \in Requests :
          /\ tx[r].stage = "idle" /\ tx[r].looked = {} /\ tx[r].pending = {} /\ tx[r].seeded = {}
    BY DEF Init, Blank
  <2>2. CompletionsAreExclusive /\ SeedsAreExclusive /\ LookedAreSeeded
    BY <2>1 DEF CompletionsAreExclusive, SeedsAreExclusive, LookedAreSeeded, HoldsSession
  <2>3. FirstSeedsRequired /\ ResultsAreSeeded
    BY <2>1 DEF Init, FirstSeedsRequired, ResultsAreSeeded
  <2>4. CompletionsAreStored
    BY DEF Init, CompletionsAreStored, CompletingAnswers, NoSession
  <2> QED
    BY <2>2, <2>3, <2>4 DEF PlacementInv
<1>2. TypeOK /\ PlacementInv /\ [Next]_vars => PlacementInv'
  <2> SUFFICES ASSUME TypeOK, PlacementInv, [Next]_vars PROVE PlacementInv'
    OBVIOUS
  <2>1. ASSUME NEW p \in Sessions, StartSession(p) PROVE PlacementInv'
    <3>1. /\ UNCHANGED <<answers, results, profiles, gamification, tx>>
          /\ \A q \in Sessions : sessions'[q] = "completed" <=> sessions[q] = "completed"
      BY <2>1 DEF StartSession, TypeOK, NoSession
    <3>2. CompletionsAreStored'
      BY <3>1 DEF PlacementInv, CompletionsAreStored, CompletingAnswers
    <3>3. CompletionsAreExclusive' /\ SeedsAreExclusive' /\ LookedAreSeeded'
      BY <3>1 DEF PlacementInv, CompletionsAreExclusive, SeedsAreExclusive, LookedAreSeeded,
         HoldsSession, HasResult, Recorded, SessionFree, KeyFree
    <3>4. FirstSeedsRequired' /\ ResultsAreSeeded'
      BY <3>1 DEF PlacementInv, FirstSeedsRequired, ResultsAreSeeded
    <3> QED
      BY <3>2, <3>3, <3>4 DEF PlacementInv
  <2>2. ASSUME NEW r \in Requests, Fail(r) PROVE PlacementInv'
    BY <2>2, EndOutside DEF Fail, Ended
  <2>3. CASE UNCHANGED vars
    BY <2>3 DEF vars, PlacementInv, CompletionsAreExclusive, SeedsAreExclusive, LookedAreSeeded,
       FirstSeedsRequired, CompletionsAreStored, CompletingAnswers, ResultsAreSeeded,
       HoldsSession, HasResult, Recorded, SessionFree, KeyFree
  <2> QED
    BY <2>1, <2>2, <2>3, StepInv DEF Next
<1> QED
  BY <1>1, <1>2, TypeCorrect, PTL DEF Spec

-----------------------------------------------------------------------------
(* What follows from the invariant. *)

\* However many answers complete a session at once, one of them does, and a
\* session is completed exactly when it has its result (_complete_session).
THEOREM CompletedOnceAlways == Spec => []CompletedOnce
<1>1. PlacementInv => CompletedOnce
  <2> SUFFICES ASSUME PlacementInv, NEW p \in Sessions
               PROVE  /\ sessions[p] = "completed" <=> results[p] # NoResult
                      /\ Cardinality(CompletingAnswers(p)) =
                           IF sessions[p] = "completed" THEN 1 ELSE 0
    BY DEF CompletedOnce, CompletingAnswers
  <2>1. sessions[p] = "completed" <=> results[p] # NoResult
    BY DEF PlacementInv, CompletionsAreStored
  <2>2. CASE sessions[p] = "completed"
    <3>1. PICK a \in answers : CompletingAnswers(p) = {a}
      BY <2>2 DEF PlacementInv, CompletionsAreStored
    <3> QED
      BY <2>1, <2>2, <3>1, FS_Singleton
  <2>3. CASE sessions[p] # "completed"
    <3>1. CompletingAnswers(p) = {}
      BY <2>3 DEF PlacementInv, CompletionsAreStored
    <3> QED
      BY <2>1, <2>3, <3>1, FS_EmptySet
  <2> QED
    BY <2>2, <2>3
<1> QED
  BY <1>1, InvAlways, PTL

\* Whoever has a result has everything the learning loop asks for: a profile of
\* every skill the result levels, and the gamification profile.
THEOREM ResultsAreSeededAlways == Spec => []ResultsAreSeeded
<1>1. PlacementInv => ResultsAreSeeded
  BY DEF PlacementInv
<1> QED
  BY <1>1, InvAlways, PTL

\* The unlocked look-up of the gamification profile never ends in a collision:
\* the required skills' profiles let only one completion find it missing.
THEOREM GamificationNeverCollidesAlways == Spec => []GamificationNeverCollides
<1>1. PlacementInv => GamificationNeverCollides
  BY DEF PlacementInv, FirstSeedsRequired, GamificationNeverCollides
<1> QED
  BY <1>1, InvAlways, PTL

\* A seeded profile and a stored result are never written again by a placement.
THEOREM SeedsAndResultsStayAlways == Spec => SeedsAndResultsStay
<1> DEFINE Stay == /\ \A k \in Skills : profiles[k] # NoSession => profiles'[k] = profiles[k]
                   /\ \A p \in Sessions : results[p] # NoResult => results'[p] = results[p]
<1>1. TypeOK /\ PlacementInv /\ [Next]_vars => [Stay]_vars
  <2> SUFFICES ASSUME TypeOK, PlacementInv, Next PROVE Stay
    OBVIOUS
  <2>1. CASE UNCHANGED <<profiles, results>>
    BY <2>1
  <2>2. ASSUME NEW r \in Requests, Complete(r), ~(tx[r].first /\ gamification) PROVE Stay
    <3>1. HoldsSession(r)
      BY <2>2 DEF Complete, HoldsSession
    <3>2. results[SessionOf[r]] = NoResult
      BY <3>1 DEF PlacementInv, CompletionsAreExclusive, HasResult
    <3>3. \A k \in tx[r].seeded : profiles[k] = NoSession
      BY DEF PlacementInv, SeedsAreExclusive
    <3> QED
      BY <2>2, <3>2, <3>3 DEF Complete, SeededProfiles, TypeOK
  <2>3. ASSUME NEW r \in Requests, Step(r) \/ Fail(r),
               ~(Complete(r) /\ ~(tx[r].first /\ gamification))
        PROVE  UNCHANGED <<profiles, results>>
    BY <2>3 DEF Step, Fail, LoadSession, CheckDuplicate, AskAgent, Continue, FlushCompletion,
       LookUpProfile, LookUpGamification, FlushPending, Complete, End, Moves, database
  <2>4. ASSUME NEW p \in Sessions, StartSession(p) PROVE UNCHANGED <<profiles, results>>
    BY <2>4 DEF StartSession
  <2> QED
    BY <2>1, <2>2, <2>3, <2>4 DEF Next
<1> QED
  BY <1>1, TypeCorrect, InvAlways, PTL DEF Spec, SeedsAndResultsStay

-----------------------------------------------------------------------------
(* Nobody waits in a circle.  Completions of several sessions insert the   *)
(* same skills' profiles one by one and keep each until they commit; all of*)
(* them do so in the order of _RESULT_SKILL_FIELDS, whatever their results *)
(* level, so the one that is farthest waits for none of the others.        *)

\* Every nonempty set of natural numbers has a least one.
LEMMA LeastNumber ==
  ASSUME NEW S \in SUBSET Nat, S # {}
  PROVE  \E n \in S : \A m \in S : n <= m
<1> DEFINE Less == OpToRel(<, Nat)
<1>1. IsWellFoundedOn(Less, Nat)
  BY NatLessThanWellFounded
<1>2. \A m, n \in Nat : m < n => <<m, n>> \in Less
  BY DEF OpToRel
<1> HIDE DEF Less
<1>3. PICK n \in S : \A m \in S : ~(<<m, n>> \in Less)
  BY <1>1, WFMin
<1>4. \A m \in S : ~(m < n)
  BY <1>2, <1>3
<1> QED
  BY <1>4

\* A relation that a bounded rank ascends along has no cycle: every nonempty set
\* has a member that is related to no other.
LEMMA RankedHasNoCycle ==
  ASSUME NEW top \in Nat, NEW R, R # {}, NEW rank \in [R -> 0..top], NEW W,
         \A r, other \in R : <<r, other>> \in W => rank[r] < rank[other]
  PROVE  \E r \in R : \A other \in R : <<r, other>> \notin W
<1> DEFINE Below == {d \in 0..top : \E r \in R : rank[r] = top - d}
<1>1. Below \in SUBSET Nat
  OBVIOUS
<1>2. \A r \in R : top - rank[r] \in Below
  OBVIOUS
<1>3. Below # {}
  BY <1>2
<1> HIDE DEF Below
<1>4. PICK d \in Below : \A e \in Below : d <= e
  BY <1>1, <1>3, LeastNumber
<1>5. PICK r \in R : rank[r] = top - d
  BY <1>4 DEF Below
<1>6. d \in Nat
  BY <1>1, <1>4
<1>7. ASSUME NEW other \in R PROVE ~(rank[r] < rank[other])
  BY <1>2, <1>4, <1>5, <1>6
<1> QED
  BY <1>7
\* The request r cannot go on before other ends: it needs its session's row, its
\* submission's key or the key of the profile it is about to insert.
WaitsFor(r, other) ==
  /\ other # r
  /\ \/ /\ tx[r].stage = "completing"
        /\ HoldsSession(other) /\ SessionOf[other] = SessionOf[r]
     \/ /\ tx[r].stage \in {"replying", "completing"}
        /\ HoldsSession(other) /\ SubmissionOf[other] = SubmissionOf[r]
     \/ /\ tx[r].stage = "seeding"
        /\ \E k \in tx[r].pending : HoldsProfile(other, k)

NoCircularWait ==
  \A R \in SUBSET Requests :
    R # {} => \E r \in R : \A other \in R : ~WaitsFor(r, other)

\* Guards and waiting are the same thing: who waits for nobody is free to go on.
LEMMA WaitingIsBlocked ==
  ASSUME NEW r \in Requests
  PROVE  (\A other \in Requests : ~WaitsFor(r, other))
           <=> /\ tx[r].stage = "completing" => SessionFree(r)
               /\ tx[r].stage \in {"replying", "completing"} => KeyFree(r)
               /\ tx[r].stage = "seeding" => PendingFree(r)
BY DEF WaitsFor, SessionFree, KeyFree, PendingFree

\* Where _RESULT_SKILL_FIELDS lists a skill first.
Position(k) ==
  CHOOSE i \in DOMAIN SkillOrder :
    SkillOrder[i] = k /\ \A j \in DOMAIN SkillOrder : SkillOrder[j] = k => i <= j

LEMMA PositionType ==
  ASSUME NEW k \in Skills
  PROVE  /\ Position(k) \in DOMAIN SkillOrder /\ SkillOrder[Position(k)] = k
         /\ \A j \in DOMAIN SkillOrder : SkillOrder[j] = k => Position(k) <= j
<1> DEFINE Places == {i \in DOMAIN SkillOrder : SkillOrder[i] = k}
<1>1. Places \in SUBSET Nat /\ Places # {}
  BY PlacementAssumption DEF Skills
<1>2. PICK i \in Places : \A j \in Places : i <= j
  BY <1>1, LeastNumber
<1>3. \E j \in DOMAIN SkillOrder :
        SkillOrder[j] = k /\ \A m \in DOMAIN SkillOrder : SkillOrder[m] = k => j <= m
  BY <1>2
<1> QED
  BY <1>3 DEF Position

\* The next skill to look up comes before all the others that are due.
LEMMA NextIsFirst ==
  ASSUME TypeOK, NEW r \in Requests, NEW skill \in Due(r), IsNext(r, skill),
         NEW k \in Due(r), k # skill
  PROVE  Position(skill) < Position(k)
<1>1. skill \in Skills /\ k \in Skills
  BY DEF TypeOK, Due, Transaction
<1>2. PICK i \in DOMAIN SkillOrder :
        SkillOrder[i] = skill /\ \A j \in DOMAIN SkillOrder : j < i => SkillOrder[j] \notin Due(r)
  BY DEF IsNext
<1>3. Position(skill) <= i
  BY <1>1, <1>2, PositionType
<1>4. /\ Position(k) \in DOMAIN SkillOrder /\ SkillOrder[Position(k)] = k
      /\ Position(skill) \in DOMAIN SkillOrder
  BY <1>1, PositionType
<1>5. ~(Position(k) < i) /\ Position(k) # i
  BY <1>2, <1>4
<1>6. DOMAIN SkillOrder \subseteq Nat
  BY PlacementAssumption
<1> QED
  BY <1>2, <1>3, <1>4, <1>5, <1>6

\* What a transaction t has looked up, has inserted and is about to insert
\* follow each other in the order of the skills.
InOrder(t) ==
  /\ t.seeded \cup t.pending \subseteq t.looked
  /\ \A k \in t.looked, d \in t.levels \ t.looked : Position(k) < Position(d)
  /\ \A k \in t.seeded, d \in t.pending : Position(k) < Position(d)
  /\ \A k, d \in t.pending : k = d

LEMMA NothingInOrder ==
  ASSUME NEW t, t.looked = {}, t.pending = {}, t.seeded = {}
  PROVE  InOrder(t)
BY DEF InOrder

LEMMA EndInOrder ==
  ASSUME TypeOK, NEW r \in Requests, NEW o, tx' = [tx EXCEPT ![r] = [Blank EXCEPT !.stage = o]]
  PROVE  InOrder(tx'[r])
<1>1. tx'[r].looked = {} /\ tx'[r].pending = {} /\ tx'[r].seeded = {}
  BY DEF TypeOK, Blank
<1> QED
  BY <1>1, NothingInOrder

\* The flush of a pending profile, and the next skill after it.
LEMMA FlushInOrder ==
  ASSUME TypeOK, NEW r \in Requests, InOrder(tx[r]),
         NEW next \in Transaction, FlushPending(r, next),
         next.levels = tx[r].levels, next.seeded = tx[r].seeded,
         \/ next.looked = tx[r].looked /\ next.pending = {}
         \/ \E skill \in Due(r) :
              /\ IsNext(r, skill)
              /\ next.looked = tx[r].looked \cup {skill} /\ next.pending \subseteq {skill}
  PROVE  InOrder(tx'[r])
<1> DEFINE flushed == [next EXCEPT !.seeded = @ \cup tx[r].pending]
<1>1. CASE End(r, "conflict")
  BY <1>1, EndInOrder DEF End, Moves
<1>2. CASE Moves(r, flushed)
  <2>1. /\ flushed.levels = tx[r].levels /\ flushed.looked = next.looked
        /\ flushed.pending = next.pending /\ flushed.seeded = tx[r].seeded \cup tx[r].pending
    BY DEF Transaction
  <2>2. tx'[r] = flushed
    BY <1>2, Moved
  <2> HIDE DEF flushed
  <2>3. CASE next.looked = tx[r].looked /\ next.pending = {}
    BY <2>1, <2>2, <2>3 DEF InOrder
  <2>4. ASSUME NEW skill \in Due(r), IsNext(r, skill),
               next.looked = tx[r].looked \cup {skill}, next.pending \subseteq {skill}
        PROVE  InOrder(tx'[r])
    <3>1. \A k \in tx[r].looked : Position(k) < Position(skill)
      BY <2>4 DEF InOrder, Due
    <3>2. \A d \in tx[r].levels \ next.looked : Position(skill) < Position(d)
      BY <2>4, NextIsFirst DEF Due
    <3> QED
      BY <2>1, <2>2, <2>4, <3>1, <3>2 DEF InOrder
  <2> QED
    BY <2>3, <2>4
<1> QED
  BY <1>1, <1>2 DEF FlushPending

LEMMA StepInOrder ==
  ASSUME TypeOK, PlacementInv, NEW r \in Requests, InOrder(tx[r]), Step(r)
  PROVE  InOrder(tx'[r])
<1>1. tx[r] \in Transaction
  BY DEF TypeOK
<1> USE <1>1
<1>2. ASSUME tx[r].stage \notin {"seeding", "finishing"}
      PROVE  tx[r].looked = {} /\ tx[r].pending = {} /\ tx[r].seeded = {}
  BY <1>2 DEF PlacementInv, SeedsAreExclusive, HoldsSession
<1>3. ASSUME NEW o, End(r, o) PROVE InOrder(tx'[r])
  BY <1>3, EndInOrder DEF End, Moves
<1>4. ASSUME NEW next, Moves(r, next),
             next.looked = {}, next.pending = {}, next.seeded = {}
      PROVE  InOrder(tx'[r])
  BY <1>4, Moved, NothingInOrder
<1>5. ASSUME LoadSession(r) PROVE InOrder(tx'[r])
  <2>1. \/ End(r, "not_found") \/ End(r, "refused") \/ End(r, "loaded")
    BY <1>5 DEF LoadSession, End
  <2> QED
    BY <1>3, <2>1
<1>6. ASSUME CheckDuplicate(r) PROVE InOrder(tx'[r])
  BY <1>2, <1>3, <1>4, <1>6 DEF CheckDuplicate, Transaction
<1>7. ASSUME AskAgent(r) PROVE InOrder(tx'[r])
  BY <1>2, <1>4, <1>7 DEF AskAgent, Transaction
<1>8. ASSUME Continue(r) PROVE InOrder(tx'[r])
  <2>1. CASE End(r, "conflict")
    BY <1>3, <2>1
  <2>2. CASE tx' = [tx EXCEPT ![r] = [Blank EXCEPT !.stage = "continued"]]
    BY <2>2, EndInOrder
  <2> QED
    BY <1>8, <2>1, <2>2 DEF Continue
<1>9. ASSUME FlushCompletion(r) PROVE InOrder(tx'[r])
  BY <1>2, <1>3, <1>4, <1>9 DEF FlushCompletion, Transaction
<1>10. ASSUME LookUpProfile(r) PROVE InOrder(tx'[r])
  <2>1. PICK skill \in Due(r) :
          /\ IsNext(r, skill)
          /\ FlushPending(r, [tx[r] EXCEPT
               !.looked = @ \cup {skill},
               !.pending = IF profiles[skill] = NoSession THEN {skill} ELSE {}])
    BY <1>10 DEF LookUpProfile
  <2> DEFINE next == [tx[r] EXCEPT
               !.looked = @ \cup {skill},
               !.pending = IF profiles[skill] = NoSession THEN {skill} ELSE {}]
  <2>2. next \in Transaction
    BY DEF Due, Transaction
  <2>3. /\ next.levels = tx[r].levels /\ next.seeded = tx[r].seeded
        /\ next.looked = tx[r].looked \cup {skill} /\ next.pending \subseteq {skill}
    BY DEF Transaction
  <2>4. FlushPending(r, next)
    BY <2>1
  <2> HIDE DEF next
  <2> QED
    BY <2>1, <2>2, <2>3, <2>4, FlushInOrder
<1>11. ASSUME LookUpGamification(r) PROVE InOrder(tx'[r])
  <2> DEFINE next == [tx[r] EXCEPT !.stage = "finishing", !.pending = {}, !.first = ~gamification]
  <2>1. next \in Transaction /\ FlushPending(r, next)
    BY <1>11 DEF LookUpGamification, Transaction, Stages
  <2>2. /\ next.levels = tx[r].levels /\ next.seeded = tx[r].seeded
        /\ next.looked = tx[r].looked /\ next.pending = {}
    BY DEF Transaction
  <2> HIDE DEF next
  <2> QED
    BY <2>1, <2>2, FlushInOrder
<1>12. ASSUME Complete(r) PROVE InOrder(tx'[r])
  <2>1. CASE End(r, "conflict")
    BY <1>3, <2>1
  <2>2. CASE tx' = [tx EXCEPT ![r] = [Blank EXCEPT !.stage = "completed"]]
    BY <2>2, EndInOrder
  <2> QED
    BY <1>12, <2>1, <2>2 DEF Complete
<1> QED
  BY <1>5, <1>6, <1>7, <1>8, <1>9, <1>10, <1>11, <1>12 DEF Step

SeedsInOrder == \A r \in Requests : InOrder(tx[r])

LEMMA SeedsInOrderAlways == Spec => []SeedsInOrder
<1>1. Init => SeedsInOrder
  BY NothingInOrder DEF Init, SeedsInOrder, Blank
<1>2. TypeOK /\ PlacementInv /\ SeedsInOrder /\ [Next]_vars => SeedsInOrder'
  <2> SUFFICES ASSUME TypeOK, PlacementInv, SeedsInOrder, [Next]_vars,
                      NEW q \in Requests
               PROVE  InOrder(tx'[q])
    BY DEF SeedsInOrder
  <2>1. InOrder(tx[q])
    BY DEF SeedsInOrder
  <2>2. CASE tx'[q] = tx[q]
    BY <2>1, <2>2
  <2>3. ASSUME NEW r \in Requests, Step(r) \/ Fail(r), q # r PROVE tx'[q] = tx[q]
    BY <2>3 DEF TypeOK, Step, Fail, LoadSession, CheckDuplicate, AskAgent, Continue,
       FlushCompletion, LookUpProfile, LookUpGamification, FlushPending, Complete, End, Moves
  <2>4. CASE Fail(q)
    BY <2>4, EndInOrder DEF Fail, End, Moves
  <2>5. CASE Step(q)
    BY <2>1, <2>5, StepInOrder
  <2>6. ASSUME NEW p \in Sessions, StartSession(p) PROVE tx'[q] = tx[q]
    BY <2>6 DEF StartSession
  <2>7. CASE UNCHANGED vars
    BY <2>2, <2>7 DEF vars
  <2> QED
    BY <2>2, <2>3, <2>4, <2>5, <2>6, <2>7 DEF Next
<1> QED
  BY <1>1, <1>2, TypeCorrect, InvAlways, PTL DEF Spec

\* How far a request has come: nowhere, at the profile it is about to insert, or
\* past all it may have to wait for.
Rank(r) ==
  CASE ~HoldsSession(r)                                  -> 0
    [] tx[r].stage = "seeding" /\ tx[r].pending # {}     ->
         Position(CHOOSE k \in tx[r].pending : TRUE)
    [] OTHER                                             -> Len(SkillOrder) + 1

LEMMA RankOfPending ==
  ASSUME TypeOK, SeedsInOrder, NEW r \in Requests, NEW k \in tx[r].pending,
         tx[r].stage = "seeding"
  PROVE  Rank(r) = Position(k)
<1>1. (CHOOSE d \in tx[r].pending : TRUE) = k
  <2>1. (CHOOSE d \in tx[r].pending : TRUE) \in tx[r].pending
    OBVIOUS
  <2> QED
    BY <2>1 DEF SeedsInOrder, InOrder
<1>2. HoldsSession(r)
  BY DEF HoldsSession
<1> QED
  BY <1>1, <1>2 DEF Rank

LEMMA RankType ==
  ASSUME TypeOK, SeedsInOrder, NEW r \in Requests
  PROVE  /\ Rank(r) \in 0..Len(SkillOrder) + 1
         /\ HoldsSession(r) => Rank(r) > 0
<1>1. DOMAIN SkillOrder = 1..Len(SkillOrder) /\ Len(SkillOrder) \in Nat
  BY PlacementAssumption
<1>2. CASE ~HoldsSession(r)
  <2>1. Rank(r) = 0
    BY <1>2 DEF Rank, HoldsSession
  <2> QED
    BY <1>1, <1>2, <2>1
<1>3. CASE tx[r].stage = "seeding" /\ tx[r].pending # {}
  <2>1. PICK k \in tx[r].pending : TRUE
    BY <1>3
  <2>2. k \in Skills
    BY DEF TypeOK, Transaction
  <2> QED
    BY <1>1, <1>3, <2>2, PositionType, RankOfPending
<1>4. CASE HoldsSession(r) /\ ~(tx[r].stage = "seeding" /\ tx[r].pending # {})
  <2>1. Rank(r) = Len(SkillOrder) + 1
    BY <1>4 DEF Rank
  <2> QED
    BY <1>1, <2>1
<1> QED
  BY <1>2, <1>3, <1>4

LEMMA WaitsUpwards ==
  ASSUME TypeOK, PlacementInv, SeedsInOrder,
         NEW r \in Requests, NEW other \in Requests, WaitsFor(r, other)
  PROVE  Rank(r) < Rank(other)
<1>1. CASE tx[r].stage \in {"replying", "completing"} /\ HoldsSession(other)
  <2>1. Rank(r) = 0
    BY <1>1 DEF Rank, HoldsSession
  <2> QED
    BY <1>1, <2>1, RankType
<1>2. ASSUME tx[r].stage = "seeding", NEW k \in tx[r].pending, k \in tx[other].seeded
      PROVE  Rank(r) < Rank(other)
  <2>1. Rank(r) = Position(k) /\ HoldsSession(other)
    BY <1>2, RankOfPending DEF PlacementInv, SeedsAreExclusive
  <2>2. Position(k) \in 1..Len(SkillOrder)
    <3>1. k \in Skills
      BY <1>2 DEF TypeOK, Transaction
    <3> QED
      BY <3>1, PositionType, PlacementAssumption
  <2>3. ASSUME tx[other].stage = "seeding", NEW d \in tx[other].pending
        PROVE  Rank(r) < Rank(other)
    BY <1>2, <2>1, <2>3, RankOfPending DEF SeedsInOrder, InOrder
  <2>4. CASE ~(tx[other].stage = "seeding" /\ tx[other].pending # {})
    <3>1. Rank(other) = Len(SkillOrder) + 1
      BY <2>1, <2>4 DEF Rank
    <3> QED
      BY <2>1, <2>2, <3>1
  <2> QED
    BY <2>3, <2>4
<1> QED
  BY <1>1, <1>2 DEF WaitsFor, HoldsProfile

\* However many answers complete placements of a student at once, they never wait
\* for each other in a circle (_bootstrap_learner_skill_profiles).
THEOREM NoCircularWaitAlways == Spec => []NoCircularWait
<1>1. ASSUME TypeOK, PlacementInv, SeedsInOrder PROVE NoCircularWait
  <2> SUFFICES ASSUME NEW R \in SUBSET Requests, R # {}
               PROVE  \E r \in R : \A other \in R : ~WaitsFor(r, other)
    BY DEF NoCircularWait
  <2> DEFINE top == Len(SkillOrder) + 1
             rank == [r \in R |-> Rank(r)]
             W == {p \in R \X R : WaitsFor(p[1], p[2])}
  <2>1. rank \in [R -> 0..top]
    BY <1>1, RankType
  <2>2. \A r, other \in R : <<r, other>> \in W => rank[r] < rank[other]
    BY <1>1, WaitsUpwards
  <2>3. \A r, other \in R : WaitsFor(r, other) => <<r, other>> \in W
    OBVIOUS
  <2>4. top \in Nat
    BY PlacementAssumption
  <2> HIDE DEF top, rank, W
  <2>5. PICK r \in R : \A other \in R : <<r, other>> \notin W
    BY <2>1, <2>2, <2>4, RankedHasNoCycle, Zenon
  <2> QED
    BY <2>3, <2>5
<1>2. TypeOK /\ PlacementInv /\ SeedsInOrder => NoCircularWait
  BY <1>1
<1> QED
  BY <1>2, TypeCorrect, InvAlways, SeedsInOrderAlways, PTL

-----------------------------------------------------------------------------
(* The pages that lead a new student through a placement (Onboarding).     *)

\* The server starts the session the register page asks for.
StartsSession ==
  /\ step = "start"
  /\ Len(placements) < MaxSessions
  /\ NewSession
  /\ UNCHANGED <<account, placed>>

LEMMA AppendedSession ==
  ASSUME OnboardingTypeOK, NewSession
  PROVE  /\ placements' \in Seq(PlacementSession)
         /\ Len(placements') = Len(placements) + 1
         /\ \A i \in DOMAIN placements : placements'[i] = placements[i]
         /\ placements'[Len(placements')] = [answers |-> 0, completed |-> FALSE]
         /\ DOMAIN placements' = DOMAIN placements \cup {Len(placements')}
BY DEF OnboardingTypeOK, NewSession, PlacementSession

LEMMA StoredAnswer ==
  ASSUME OnboardingTypeOK, StoreAnswer
  PROVE  /\ shown \in DOMAIN placements /\ ~placements[shown].completed
         /\ placements[shown].answers \in Nat
         /\ placements' \in Seq(PlacementSession)
         /\ Len(placements') = Len(placements)
         /\ DOMAIN placements' = DOMAIN placements
         /\ \A i \in DOMAIN placements \ {shown} : placements'[i] = placements[i]
         /\ placements'[shown].answers = placements[shown].answers + 1
         /\ placements'[shown].completed <=> TurnCompletes(placements[shown].answers)
         /\ placed' <=> placed \/ TurnCompletes(placements[shown].answers)
         /\ placed' \in BOOLEAN
<1>1. shown \in DOMAIN placements
  BY DEF OnboardingTypeOK, StoreAnswer
<1>2. placements[shown] \in PlacementSession
  BY <1>1 DEF OnboardingTypeOK
<1>3. TurnCompletes(placements[shown].answers) \in BOOLEAN
  BY DEF TurnCompletes
<1>4. [answers |-> placements[shown].answers + 1,
       completed |-> TurnCompletes(placements[shown].answers)] \in PlacementSession
  BY <1>2, <1>3 DEF PlacementSession
<1>5. placements' = [placements EXCEPT ![shown] =
        [answers |-> placements[shown].answers + 1,
         completed |-> TurnCompletes(placements[shown].answers)]]
  BY DEF StoreAnswer
<1>6. /\ placements' \in Seq(PlacementSession)
      /\ Len(placements') = Len(placements)
      /\ DOMAIN placements' = DOMAIN placements
  BY <1>1, <1>4, <1>5 DEF OnboardingTypeOK
<1>7. /\ \A i \in DOMAIN placements \ {shown} : placements'[i] = placements[i]
      /\ placements'[shown] = [answers |-> placements[shown].answers + 1,
                               completed |-> TurnCompletes(placements[shown].answers)]
  BY <1>1, <1>5 DEF OnboardingTypeOK
<1>8. /\ ~placements[shown].completed
      /\ placed' <=> placed \/ TurnCompletes(placements[shown].answers)
      /\ placed' \in BOOLEAN
  BY DEF StoreAnswer
<1>9. placements[shown].answers \in Nat
  BY <1>2 DEF PlacementSession
<1> HIDE DEF TurnCompletes
<1> QED
  BY <1>1, <1>6, <1>7, <1>8, <1>9

\* The pages never show a placement or a result without a session, and no row of
\* the server loses its type, in whatever order the calls fail.
THEOREM OnboardingTypeCorrect == OnboardingSpec => []OnboardingTypeOK
<1>1. OnboardingInit => OnboardingTypeOK
  <2> SUFFICES ASSUME OnboardingInit PROVE OnboardingTypeOK
    OBVIOUS
  <2>1. /\ page = "home" /\ step = "form" /\ shown = 0 /\ Len(placements) = 0
        /\ placements \in Seq(PlacementSession)
        /\ mishaps = 0 /\ suffered = {}
    BY DEF OnboardingInit
  <2>2. seen \in BOOLEAN /\ signedIn \in BOOLEAN /\ account \in BOOLEAN /\ placed \in BOOLEAN
    BY DEF OnboardingInit
  <2> QED
    BY <2>1, <2>2, OnboardingAssumption DEF OnboardingTypeOK
<1>2. OnboardingTypeOK /\ [OnboardingNext]_onboardingVars => OnboardingTypeOK'
  <2> SUFFICES ASSUME OnboardingTypeOK, [OnboardingNext]_onboardingVars
               PROVE  OnboardingTypeOK'
    OBVIOUS
  <2> USE OnboardingAssumption
  <2>1. CASE Visit
    BY <2>1 DEF Visit, Smoothly, server, OnboardingTypeOK
  <2>2. CASE Register
    BY <2>2 DEF Register, Smoothly, OnboardingTypeOK
  <2>3. CASE RegisterUnheard
    BY <2>3 DEF RegisterUnheard, Mishap, Kinds, browser, OnboardingTypeOK
  <2>4. CASE AutoLogin
    BY <2>4 DEF AutoLogin, Smoothly, server, OnboardingTypeOK
  <2>5. CASE AutoLoginFails
    BY <2>5 DEF AutoLoginFails, Mishap, Kinds, server, OnboardingTypeOK
  <2>6. CASE StartPlacement
    BY <2>6, AppendedSession DEF StartPlacement, Smoothly, OnboardingTypeOK
  <2>7. CASE StartFails
    BY <2>7, AppendedSession DEF StartFails, Mishap, Kinds, OnboardingTypeOK
  <2>8. CASE SendAnswer
    BY <2>8, StoredAnswer DEF SendAnswer, StoreAnswer, Smoothly, OnboardingTypeOK
  <2>9. CASE AnswerUnheard
    BY <2>9, StoredAnswer DEF AnswerUnheard, Mishap, Kinds, browser, OnboardingTypeOK
  <2>10. CASE ShowResult
    BY <2>10 DEF ShowResult, Smoothly, server, OnboardingTypeOK
  <2>11. CASE GoPractise
    BY <2>11 DEF GoPractise, Smoothly, server, OnboardingTypeOK
  <2>12. CASE Login
    BY <2>12 DEF Login, Smoothly, server, OnboardingTypeOK
  <2>13. CASE LoginAgain
    BY <2>13 DEF LoginAgain, Smoothly, server, OnboardingTypeOK
  <2>14. CASE Expire
    <3>1. signedIn' \in BOOLEAN /\ UNCHANGED <<page, step, shown, seen, server>>
      BY <2>14 DEF Expire
    <3>2. mishaps' \in 0..MaxMishaps /\ suffered' \subseteq Kinds
      BY <2>14 DEF Expire, Mishap, Kinds, OnboardingTypeOK
    <3> QED
      BY <3>1, <3>2 DEF server, OnboardingTypeOK
  <2>15. CASE Leave
    BY <2>15 DEF Leave, Mishap, Kinds, server, OnboardingTypeOK
  <2>16. CASE ResultFails
    <3>1. /\ page = "result" /\ page' = "failed"
          /\ UNCHANGED <<step, shown, seen, signedIn, server>>
      BY <2>16 DEF ResultFails
    <3>2. Mishap("result") \/ Smoothly
      BY <2>16 DEF ResultFails
    <3>3. mishaps' \in 0..MaxMishaps /\ suffered' \subseteq Kinds
      <4>1. mishaps \in 0..MaxMishaps /\ suffered \subseteq Kinds
        BY DEF OnboardingTypeOK
      <4>2. CASE Mishap("result")
        BY <4>1, <4>2 DEF Mishap, Kinds
      <4>3. CASE Smoothly
        BY <4>1, <4>3 DEF Smoothly
      <4> QED
        BY <3>2, <4>2, <4>3
    <3> QED
      BY <3>1, <3>3 DEF server, OnboardingTypeOK
  <2>17. CASE UNCHANGED onboardingVars
    BY <2>17 DEF onboardingVars, browser, server, OnboardingTypeOK
  <2> QED
    BY <2>1, <2>2, <2>3, <2>4, <2>5, <2>6, <2>7, <2>8, <2>9, <2>10, <2>11, <2>12, <2>13,
       <2>14, <2>15, <2>16, <2>17 DEF OnboardingNext, Proceed
<1> QED
  BY <1>1, <1>2, PTL DEF OnboardingSpec

\* A session belongs to an account, and the register page that has one to start
\* has registered a student who has none yet.
StartsOnce ==
  /\ placements # <<>> => account
  /\ step # "form" => account /\ placements = <<>>

\* A student whose registration is interrupted anywhere between its three calls
\* never starts a second placement: the e-mail is taken by then (409).
THEOREM OneSessionPerStudentAlways == OnboardingSpec => []OneSessionPerStudent
<1>1. OnboardingInit => StartsOnce /\ OneSessionPerStudent
  BY DEF OnboardingInit, StartsOnce, OneSessionPerStudent
<1>2. /\ OnboardingTypeOK /\ StartsOnce /\ OneSessionPerStudent
      /\ [OnboardingNext]_onboardingVars
      => (StartsOnce /\ OneSessionPerStudent)'
  <2> SUFFICES ASSUME OnboardingTypeOK, StartsOnce, OneSessionPerStudent,
                      [OnboardingNext]_onboardingVars
               PROVE  (StartsOnce /\ OneSessionPerStudent)'
    OBVIOUS
  <2> USE DEF StartsOnce, OneSessionPerStudent
  <2>1. CASE Register \/ RegisterUnheard
    BY <2>1 DEF Register, RegisterUnheard, browser
  <2>2. CASE StartsSession /\ step' = "form"
    BY <2>2, AppendedSession DEF StartsSession
  <2>3. CASE StartPlacement \/ StartFails
    BY <2>2, <2>3 DEF StartPlacement, StartFails, StartsSession
  <2>4. CASE SendAnswer \/ AnswerUnheard
    <3>1. Len(placements') = Len(placements) /\ placements # <<>> /\ UNCHANGED <<account, step>>
      BY <2>4, StoredAnswer DEF SendAnswer, AnswerUnheard, browser
    <3> QED
      BY <3>1
  <2>5. CASE AutoLogin
    BY <2>5 DEF AutoLogin, server
  <2>6. CASE AutoLoginFails \/ Leave
    BY <2>6 DEF AutoLoginFails, Leave, server
  <2>7. CASE Visit \/ ShowResult \/ ResultFails \/ GoPractise \/ Login \/ LoginAgain \/ Expire
    BY <2>7 DEF Visit, ShowResult, ResultFails, GoPractise, Login, LoginAgain, Expire, server
  <2>8. CASE UNCHANGED onboardingVars
    BY <2>8 DEF onboardingVars, browser, server
  <2> QED
    BY <2>1, <2>3, <2>4, <2>5, <2>6, <2>7, <2>8 DEF OnboardingNext, Proceed
<1> QED
  BY <1>1, <1>2, OnboardingTypeCorrect, PTL DEF OnboardingSpec

\* No answer is stored after the one that completes the placement, though the
\* page may send more, and the student is placed by exactly that one
\* (LocalModelAdapter.process_turn, submit_answer).
THEOREM PlacedByAnswersAlways == OnboardingSpec => []PlacedByAnswers
<1>1. OnboardingInit => PlacedByAnswers
  BY DEF OnboardingInit, PlacedByAnswers
<1>2. OnboardingTypeOK /\ PlacedByAnswers /\ [OnboardingNext]_onboardingVars
      => PlacedByAnswers'
  <2> SUFFICES ASSUME OnboardingTypeOK, PlacedByAnswers, [OnboardingNext]_onboardingVars
               PROVE  PlacedByAnswers'
    OBVIOUS
  <2>1. CASE UNCHANGED <<placements, placed>>
    BY <2>1 DEF PlacedByAnswers
  <2>2. CASE NewSession /\ UNCHANGED placed
    BY <2>2, AppendedSession, OnboardingAssumption DEF PlacedByAnswers, OnboardingTypeOK
  <2>3. CASE StoreAnswer
    <3>1. TurnCompletes(placements[shown].answers)
            <=> placements[shown].answers + 1 = TurnsBeforeComplete
      BY <2>3, StoredAnswer, OnboardingAssumption DEF PlacedByAnswers, TurnCompletes
    <3>2. \A i \in DOMAIN placements' :
            /\ placements'[i].answers <= TurnsBeforeComplete
            /\ placements'[i].completed <=> placements'[i].answers = TurnsBeforeComplete
      BY <2>3, <3>1, StoredAnswer, OnboardingAssumption DEF PlacedByAnswers
    <3>3. placed' <=> \E i \in DOMAIN placements' : placements'[i].completed
      BY <2>3, StoredAnswer DEF PlacedByAnswers
    <3> QED
      BY <3>2, <3>3 DEF PlacedByAnswers
  <2>4. CASE StartPlacement \/ StartFails
    BY <2>1, <2>2, <2>4 DEF StartPlacement, StartFails
  <2>5. CASE SendAnswer \/ AnswerUnheard
    BY <2>3, <2>5 DEF SendAnswer, AnswerUnheard
  <2>6. CASE Visit \/ ShowResult \/ ResultFails \/ GoPractise \/ Login \/ LoginAgain
    BY <2>1, <2>6 DEF Visit, ShowResult, ResultFails, GoPractise, Login, LoginAgain, server
  <2>7. CASE \/ Register \/ RegisterUnheard \/ AutoLogin \/ AutoLoginFails
             \/ Expire \/ Leave
    BY <2>1, <2>7 DEF Register, RegisterUnheard, AutoLogin, AutoLoginFails, Expire, Leave, server
  <2>8. CASE UNCHANGED onboardingVars
    BY <2>1, <2>8 DEF onboardingVars, server
  <2> QED
    BY <2>4, <2>5, <2>6, <2>7, <2>8 DEF OnboardingNext, Proceed
<1> QED
  BY <1>1, <1>2, OnboardingTypeCorrect, PTL DEF OnboardingSpec

=============================================================================
