------------------------- MODULE LearningLoopProofs -------------------------
(***************************************************************************)
(* What every run of the learning loop keeps true, for any requests,       *)
(* submissions, sessions, skills, scores, thresholds and number of days;   *)
(* and what it keeps true besides when the requests are messages of one    *)
(* conversation, which implement the ledger, or score one skill only.      *)
(***************************************************************************)
EXTENDS LearningLoop, LevelAdvancementProofs, WellFoundedInduction

-----------------------------------------------------------------------------
(* Types. *)

\* Every outcome awards 1 to 10 XP, the worst score included (xp_rule.py's floor).
\* That is why the UPDATE of the gamification row is never empty, and why it
\* always takes the row before the badges are read.
THEOREM SomeXpIsAwarded ==
  ASSUME NEW type \in ActivityTypes, NEW score \in 0..100
  PROVE  CalculateXp(type, score) \in 1..10
<1> DEFINE num == BaseXp[type] * (IF score < ScoreFloor THEN ScoreFloor ELSE score)
<1>1. BaseXp[type] \in {5, 8, 10}
  BY DEF BaseXp
<1>2. num \in 125..1000
  BY <1>1 DEF ScoreFloor
<1> HIDE DEF num
<1>3. /\ num \div 100 \in 1..10
      /\ num \div 100 = 10 => num % 100 = 0
  BY <1>2
<1>4. RoundHalfEven(num, 100) \in 1..10
  BY <1>2, <1>3 DEF RoundHalfEven
<1> QED
  BY <1>4 DEF CalculateXp, num

LEMMA XpType ==
  ASSUME NEW type \in ActivityTypes, NEW score \in 0..100
  PROVE  CalculateXp(type, score) \in Nat
BY SomeXpIsAwarded

LEMMA StreakType ==
  ASSUME NEW streak \in Nat, NEW lastDay \in Nat, NEW day \in Nat
  PROVE  UpdateStreak(streak, lastDay, day) \in Nat
BY DEF UpdateStreak

LEMMA BlankType == Blank \in Transaction /\ \A o \in Ended : Finished(o) \in Transaction
<1>1. NewRow \in SkillRow
  BY RuleAssumption DEF NewRow, SkillRow, Levels, Windows
<1>2. NewProfile \in GamificationRow
  BY DEF NewProfile, GamificationRow, NoDay
<1>3. Blank \in Transaction
  BY <1>1, <1>2 DEF Blank, Transaction, Stages, NoDay
<1> QED
  BY <1>3 DEF Finished, Transaction, Stages

\* A step that only moves a transaction keeps every type.
LEMMA MoveType ==
  ASSUME TypeOK, NEW r \in Requests, NEW next \in Transaction, Moves(r, next),
         UNCHANGED history
  PROVE  TypeOK'
BY DEF TypeOK, Moves, database, history

LEMMA RollBackType ==
  ASSUME TypeOK, NEW r \in Requests, NEW o \in Ended, RollBack(r, o)
  PROVE  TypeOK'
BY BlankType, MoveType DEF RollBack

LEMMA StageType ==
  ASSUME NEW t \in Transaction, NEW stage \in Stages
  PROVE  [t EXCEPT !.stage = stage] \in Transaction
BY DEF Transaction

\* What a commit writes has the types of the tables.
LEMMA StoredTypes ==
  ASSUME TypeOK, NEW r \in Requests
  PROVE  /\ XpAwarded(r) \in Nat
         /\ StoredProfile(r) \in GamificationRow
         /\ tx[r].skill \in PlacedSkills => StoredRow(r) \in SkillRow
<1>1. tx[r] \in Transaction /\ gamification \in GamificationRow
  BY DEF TypeOK
<1>2. TypeOf(r) \in ActivityTypes
  BY LoopAssumption DEF TypeOf, IsExercise, ActivityTypes
<1>3. XpAwarded(r) \in Nat
  BY <1>1, <1>2, XpType DEF XpAwarded, Transaction
<1>4. NewStreak(r) \in Nat
  BY <1>1, StreakType DEF NewStreak, Transaction, GamificationRow
<1>5. StoredProfile(r) \in GamificationRow
  BY <1>1, <1>3, <1>4 DEF StoredProfile, Transaction, GamificationRow
<1>6. ASSUME tx[r].skill \in PlacedSkills PROVE StoredRow(r) \in SkillRow
  <2>1. skillRows[tx[r].skill] \in SkillRow
    BY <1>6 DEF TypeOK
  <2>2. ApplyScoredActivity(tx[r].read, tx[r].correct) \in SkillRow
    BY <1>1, AppliedType DEF Transaction
  <2> QED
    BY <2>1, <2>2 DEF StoredRow, SkillRow
<1> QED
  BY <1>3, <1>5, <1>6

LEMMA InitType == Init => TypeOK
<1> SUFFICES ASSUME Init PROVE TypeOK
  OBVIOUS
<1>1. skillRows \in [PlacedSkills -> SkillRow]
  BY LoopAssumption DEF Init
<1>2. gamification \in GamificationRow
  BY DEF Init, NewProfile, GamificationRow, NoDay
<1>3. tx \in [Requests -> Transaction]
  BY BlankType DEF Init
<1> QED
  BY <1>1, <1>2, <1>3, LoopAssumption DEF Init, TypeOK

LEMMA StepType ==
  ASSUME TypeOK, NEW r \in Requests, Step(r)
  PROVE  TypeOK'
<1>1. tx[r] \in Transaction
  BY DEF TypeOK
<1> USE <1>1
<1>2. ASSUME CheckDuplicate(r) PROVE TypeOK'
  BY <1>2, StageType, MoveType DEF CheckDuplicate, history, Stages, TypeOK
<1>3. ASSUME Replay(r) PROVE TypeOK'
  BY <1>3, RollBackType DEF Replay, Ended, TypeOK
<1>4. ASSUME JudgeAnswer(r) PROVE TypeOK'
  <2>1. PICK score \in Scores :
          Moves(r, [tx[r] EXCEPT !.stage = "judged", !.score = score, !.day = today,
                                 !.skill = ActivityOf[r].skill])
    BY <1>4 DEF JudgeAnswer
  <2>2. score \in 0..100 /\ today \in Nat /\ ActivityOf[r].skill \in Skills
    BY <1>4, LoopAssumption DEF JudgeAnswer, IsExercise, TypeOK
  <2>3. [tx[r] EXCEPT !.stage = "judged", !.score = score, !.day = today,
                      !.skill = ActivityOf[r].skill] \in Transaction
    BY <2>2 DEF Transaction, Stages
  <2> QED
    BY <1>4, <2>1, <2>3, MoveType DEF JudgeAnswer, TypeOK
<1>5. ASSUME AnswerMessage(r) PROVE TypeOK'
  <2>1. [tx[r] EXCEPT !.stage = "chatted"] \in Transaction
    BY StageType DEF Stages
  <2>2. \A score \in Scores, skill \in Skills \cup {NotASkill} :
          [tx[r] EXCEPT !.stage = "judged", !.score = score, !.skill = skill] \in Transaction
    BY LoopAssumption DEF Transaction, Stages
  <2> QED
    BY <1>5, <2>1, <2>2, MoveType DEF AnswerMessage, TypeOK
<1>6. ASSUME AgentFails(r) PROVE TypeOK'
  BY <1>6, RollBackType DEF AgentFails, Ended, TypeOK
<1>7. ASSUME HoldConversation(r) PROVE TypeOK'
  <2>1. [tx[r] EXCEPT !.stage = "held", !.firstTurn = turnEvents = {}] \in Transaction
    BY DEF Transaction, Stages
  <2> QED
    BY <1>7, <2>1, MoveType DEF HoldConversation, history, TypeOK
<1>8. ASSUME RejectSkill(r) PROVE TypeOK'
  BY <1>8, RollBackType DEF RejectSkill, Ended, TypeOK
<1>9. ASSUME LookUpEvent(r) PROVE TypeOK'
  <2>1. PICK stage \in {"ready", "answering", "skipped", "recording"} :
          Moves(r, [tx[r] EXCEPT !.stage = stage])
    BY <1>9, Zenon DEF LookUpEvent
  <2>2. [tx[r] EXCEPT !.stage = stage] \in Transaction
    BY StageType DEF Stages
  <2> QED
    BY <1>9, <2>1, <2>2, MoveType DEF LookUpEvent, history, TypeOK
<1>10. ASSUME InsertEvent(r) PROVE TypeOK'
  <2>1. [tx[r] EXCEPT !.stage = "ready", !.created = TRUE] \in Transaction
    BY DEF Transaction, Stages
  <2>2. [tx[r] EXCEPT !.stage = "recorded", !.created = TRUE, !.day = today] \in Transaction
    <3>1. today \in Nat
      BY LoopAssumption DEF TypeOK
    <3> QED
      BY <3>1 DEF Transaction, Stages
  <2> QED
    BY <1>10, <2>1, <2>2, MoveType DEF InsertEvent, history, TypeOK
<1>11. ASSUME DuplicateEvent(r) PROVE TypeOK'
  BY <1>11, RollBackType DEF DuplicateEvent, Ended, TypeOK
<1>12. ASSUME ReadSkillRow(r) PROVE TypeOK'
  <2>1. PICK stage \in {"skillRead", "skillFolded"} :
          Moves(r, [tx[r] EXCEPT !.stage = stage, !.correct = IsCorrect(tx[r].score),
                                 !.read = skillRows[tx[r].skill]])
    BY <1>12 DEF ReadSkillRow
  <2>2. skillRows[tx[r].skill] \in SkillRow
    BY <1>12 DEF ReadSkillRow, TypeOK
  <2>3. IsCorrect(tx[r].score) \in BOOLEAN
    BY DEF IsCorrect
  <2>4. [tx[r] EXCEPT !.stage = stage, !.correct = IsCorrect(tx[r].score),
                      !.read = skillRows[tx[r].skill]] \in Transaction
    BY <2>2, <2>3 DEF Transaction, Stages
  <2> QED
    BY <1>12, <2>1, <2>4, MoveType DEF ReadSkillRow, history, TypeOK
<1>13. ASSUME NoSkillRow(r) PROVE TypeOK'
  BY <1>13, RollBackType DEF NoSkillRow, Ended, TypeOK
<1>14. ASSUME LookForAdvancement(r) PROVE TypeOK'
  <2>1. [tx[r] EXCEPT !.stage = "skillFolded", !.firstLevel = levelEvents = 0] \in Transaction
    BY DEF Transaction, Stages
  <2> QED
    BY <1>14, <2>1, MoveType DEF LookForAdvancement, history, TypeOK
<1>15. ASSUME WriteSkillRow(r) PROVE TypeOK'
  BY <1>15, StageType, MoveType DEF WriteSkillRow, history, Stages, TypeOK
<1>16. ASSUME ReadProfile(r) PROVE TypeOK'
  <2>1. [tx[r] EXCEPT !.stage = "profileRead", !.profile = gamification] \in Transaction
    BY DEF Transaction, Stages, TypeOK
  <2> QED
    BY <1>16, <2>1, MoveType DEF ReadProfile, history, TypeOK
<1>17. ASSUME WriteProfile(r) PROVE TypeOK'
  <2> DEFINE given == Catalog \cap
               EvaluateBadges(awards, tx[r].firstTurn, NewStreak(r), tx[r].firstLevel)
  <2>1. given \in SUBSET Catalog
    BY Zenon
  <2> HIDE DEF given
  <2>2. [tx[r] EXCEPT !.stage = "profileWritten", !.badges = given] \in Transaction
    BY <2>1 DEF Transaction, Stages
  <2> QED
    BY <1>17, <2>2, MoveType DEF WriteProfile, given, history, TypeOK
<1>18. ASSUME GrantBadges(r) PROVE TypeOK'
  <2>1. [tx[r] EXCEPT !.stage = "granted"] \in Transaction
    BY StageType DEF Stages
  <2>2. Finished("conflict") \in Transaction
    BY BlankType DEF Ended
  <2> QED
    BY <1>18, <2>1, <2>2, MoveType DEF GrantBadges, history, TypeOK
<1>19. ASSUME CommitOutcome(r) PROVE TypeOK'
  <2>1. skillRows' \in [PlacedSkills -> SkillRow]
    BY <1>19, StoredTypes DEF CommitOutcome, TypeOK
  <2>2. gamification' \in GamificationRow
    BY <1>19, StoredTypes DEF CommitOutcome
  <2>3. awards' \subseteq Catalog
    BY <1>19 DEF CommitOutcome, TypeOK, Transaction
  <2>4. SubmissionOf[r] \in Submissions
    BY LoopAssumption
  <2>5. answerEvents' \subseteq Submissions /\ turnEvents' \subseteq Submissions
    BY <1>19, <2>4 DEF CommitOutcome, TypeOK
  <2>6. turns' \subseteq Requests /\ invocationLog' \subseteq Requests
    <3>1. turns' \subseteq turns \cup {r} /\ invocationLog' = invocationLog \cup {r}
      BY <1>19 DEF CommitOutcome
    <3> QED
      BY <3>1 DEF TypeOK
  <2>7. levelEvents' \in Nat
    BY <1>19 DEF CommitOutcome, TypeOK
  <2>8. tx' \in [Requests -> Transaction]
    BY <1>19, BlankType DEF CommitOutcome, TypeOK, Ended
  <2>9. counted' \in [Submissions -> Nat] /\ earned' \in Nat
    BY <1>19, <2>4, StoredTypes DEF CommitOutcome, TypeOK
  <2> QED
    BY <1>19, <2>1, <2>2, <2>3, <2>5, <2>6, <2>7, <2>8, <2>9 DEF CommitOutcome, TypeOK
<1>20. ASSUME CommitTurn(r) PROVE TypeOK'
  <2>1. tx' \in [Requests -> Transaction]
    BY <1>20, BlankType DEF CommitTurn, TypeOK, Ended
  <2> QED
    BY <1>20, <2>1 DEF CommitTurn, TypeOK, history
<1> QED
  BY <1>2, <1>3, <1>4, <1>5, <1>6, <1>7, <1>8, <1>9, <1>10, <1>11, <1>12, <1>13, <1>14,
     <1>15, <1>16, <1>17, <1>18, <1>19, <1>20 DEF Step

LEMMA NextType ==
  ASSUME TypeOK, [Next]_vars
  PROVE  TypeOK'
<1>1. ASSUME NEW r \in Requests, Crash(r) PROVE TypeOK'
  BY <1>1, RollBackType DEF Crash, Ended, TypeOK
<1>2. ASSUME Midnight PROVE TypeOK'
  BY <1>2, LoopAssumption DEF Midnight, TypeOK, database, history
<1>3. CASE UNCHANGED vars
  BY <1>3 DEF vars, database, history, TypeOK
<1> QED
  BY <1>1, <1>2, <1>3, StepType DEF Next

\* Every row, event set and transaction keeps its type, whatever interleaving,
\* failure or crash happens: no level above the ceiling, no window longer than
\* WindowMax, no mastery above 100, no badge outside the seeded catalog.
THEOREM TypeCorrect == Spec => []TypeOK
BY InitType, NextType, PTL DEF Spec

-----------------------------------------------------------------------------
(* The gamification row admits one request at a time, and the badges it    *)
(* read there are still free when it awards them.                          *)

\* What a step that only moves r does to the transactions and the database.
LEMMA Moved ==
  ASSUME TypeOK, NEW r \in Requests, NEW next, Moves(r, next)
  PROVE  /\ tx'[r] = next
         /\ \A other \in Requests \ {r} : tx'[other] = tx[other]
         /\ UNCHANGED database
BY DEF TypeOK, Moves

\* Exercises and messages pass through stages of their own.
StagesMatchKind ==
  \A r \in Requests :
    /\ tx[r].stage \in {"answering", "ready"} => IsExercise(r)
    /\ tx[r].stage \in {"chatted", "held", "skipped", "recording", "recorded"} => ~IsExercise(r)

AwardsInv == StagesMatchKind /\ AwardsNeverCollide

\* A step that leaves r without the gamification row disturbs nobody.
LEMMA OutsideProfile ==
  ASSUME TypeOK, AwardsInv, NEW r \in Requests, NEW next, Moves(r, next),
         next.stage \notin {"profileWritten", "granted", "answering", "ready"},
         next.stage \in {"chatted", "held", "skipped", "recording", "recorded"} => ~IsExercise(r)
  PROVE  AwardsInv'
<1>1. /\ tx'[r] = next /\ awards' = awards
      /\ \A other \in Requests \ {r} : tx'[other] = tx[other]
  BY Moved DEF database
<1>2. StagesMatchKind'
  BY <1>1 DEF AwardsInv, StagesMatchKind, IsExercise
<1>3. ~HoldsProfile(r)'
  BY <1>1 DEF HoldsProfile, HoldsAwards
<1>4. \A other \in Requests \ {r} : HoldsProfile(other)' <=> HoldsProfile(other)
  BY <1>1 DEF HoldsProfile, HoldsAwards
<1> QED
  BY <1>1, <1>2, <1>3, <1>4 DEF AwardsInv, AwardsNeverCollide

\* A step of the one that holds the row, with the badges it has read.
LEMMA InsideProfile ==
  ASSUME TypeOK, AwardsInv, NEW r \in Requests, NEW next, Moves(r, next),
         HoldsProfile(r),
         next.stage \in {"profileWritten", "granted", "answering", "ready"},
         next.stage \in {"answering", "ready"} => IsExercise(r),
         next.badges = tx[r].badges
  PROVE  AwardsInv'
<1>1. /\ tx'[r] = next /\ awards' = awards
      /\ \A other \in Requests \ {r} : tx'[other] = tx[other]
  BY Moved DEF database
<1>2. StagesMatchKind'
  BY <1>1 DEF AwardsInv, StagesMatchKind, IsExercise
<1>3. \A other \in Requests \ {r} : HoldsProfile(other)' <=> HoldsProfile(other)
  BY <1>1 DEF HoldsProfile, HoldsAwards
<1> QED
  BY <1>1, <1>2, <1>3 DEF AwardsInv, AwardsNeverCollide

LEMMA EndOutsideProfile ==
  ASSUME TypeOK, AwardsInv, NEW r \in Requests, NEW o \in Ended, RollBack(r, o)
  PROVE  AwardsInv'
<1>1. Finished(o).stage = o
  BY DEF Finished, Blank
<1> QED
  BY <1>1, OutsideProfile DEF RollBack, Ended

LEMMA StepAwards ==
  ASSUME TypeOK, AwardsInv, NEW r \in Requests, Step(r)
  PROVE  AwardsInv'
<1>1. tx[r] \in Transaction
  BY DEF TypeOK
<1> USE <1>1
<1>2. ASSUME CheckDuplicate(r) PROVE AwardsInv'
  BY <1>2, OutsideProfile DEF CheckDuplicate, Transaction
<1>3. ASSUME Replay(r) PROVE AwardsInv'
  BY <1>3, EndOutsideProfile DEF Replay, Ended
<1>4. ASSUME JudgeAnswer(r) PROVE AwardsInv'
  BY <1>4, OutsideProfile DEF JudgeAnswer, Transaction, history
<1>5. ASSUME AnswerMessage(r) PROVE AwardsInv'
  BY <1>5, OutsideProfile DEF AnswerMessage, Transaction, history
<1>6. ASSUME AgentFails(r) PROVE AwardsInv'
  BY <1>6, EndOutsideProfile DEF AgentFails, Ended
<1>7. ASSUME HoldConversation(r) PROVE AwardsInv'
  BY <1>7, OutsideProfile DEF HoldConversation, Transaction
<1>8. ASSUME RejectSkill(r) PROVE AwardsInv'
  BY <1>8, EndOutsideProfile DEF RejectSkill, Ended
<1>9. ASSUME LookUpEvent(r) PROVE AwardsInv'
  <2>1. CASE IsExercise(r)
    <3>1. PICK stage \in {"ready", "answering"} : Moves(r, [tx[r] EXCEPT !.stage = stage])
      BY <1>9, <2>1, Zenon DEF LookUpEvent
    <3>2. HoldsProfile(r)
      BY <1>9, <2>1 DEF LookUpEvent, AwardsInv, StagesMatchKind, HoldsProfile, HoldsAwards
    <3> QED
      BY <2>1, <3>1, <3>2, InsideProfile DEF Transaction
  <2>2. CASE ~IsExercise(r)
    <3>1. PICK stage \in {"skipped", "recording"} : Moves(r, [tx[r] EXCEPT !.stage = stage])
      BY <1>9, <2>2, Zenon DEF LookUpEvent
    <3> QED
      BY <2>2, <3>1, OutsideProfile DEF Transaction
  <2> QED
    BY <2>1, <2>2
<1>10. ASSUME InsertEvent(r) PROVE AwardsInv'
  <2>1. CASE IsExercise(r)
    <3>1. Moves(r, [tx[r] EXCEPT !.stage = "ready", !.created = TRUE])
      BY <1>10, <2>1 DEF InsertEvent
    <3>2. HoldsProfile(r)
      BY <1>10, <2>1 DEF InsertEvent, AwardsInv, StagesMatchKind, HoldsProfile, HoldsAwards
    <3> QED
      BY <2>1, <3>1, <3>2, InsideProfile DEF Transaction
  <2>2. CASE ~IsExercise(r)
    BY <1>10, <2>2, OutsideProfile DEF InsertEvent, Transaction
  <2> QED
    BY <2>1, <2>2
<1>11. ASSUME DuplicateEvent(r) PROVE AwardsInv'
  BY <1>11, EndOutsideProfile DEF DuplicateEvent, Ended
<1>12. ASSUME ReadSkillRow(r) PROVE AwardsInv'
  <2>1. PICK stage \in {"skillRead", "skillFolded"} :
          Moves(r, [tx[r] EXCEPT !.stage = stage, !.correct = IsCorrect(tx[r].score),
                                 !.read = skillRows[tx[r].skill]])
    BY <1>12, Zenon DEF ReadSkillRow
  <2> QED
    BY <2>1, OutsideProfile DEF Transaction
<1>13. ASSUME NoSkillRow(r) PROVE AwardsInv'
  BY <1>13, EndOutsideProfile DEF NoSkillRow, Ended
<1>14. ASSUME LookForAdvancement(r) PROVE AwardsInv'
  BY <1>14, OutsideProfile DEF LookForAdvancement, Transaction
<1>15. ASSUME WriteSkillRow(r) PROVE AwardsInv'
  BY <1>15, OutsideProfile DEF WriteSkillRow, Transaction
<1>16. ASSUME ReadProfile(r) PROVE AwardsInv'
  BY <1>16, OutsideProfile DEF ReadProfile, Transaction
<1>17. ASSUME WriteProfile(r) PROVE AwardsInv'
  <2> DEFINE given == Catalog \cap
               EvaluateBadges(awards, tx[r].firstTurn, NewStreak(r), tx[r].firstLevel)
             next == [tx[r] EXCEPT !.stage = "profileWritten", !.badges = given]
  <2>1. given \cap awards = {}
    BY DEF EvaluateBadges
  <2> HIDE DEF given
  <2>2. next.stage = "profileWritten" /\ next.badges = given
    BY DEF Transaction
  <2>3. Moves(r, next)
    BY <1>17 DEF WriteProfile, given
  <2> HIDE DEF next
  <2>4. /\ tx'[r] = next /\ awards' = awards
        /\ \A other \in Requests \ {r} : tx'[other] = tx[other]
    BY <2>3, Moved DEF database
  <2>5. StagesMatchKind'
    BY <2>2, <2>4 DEF AwardsInv, StagesMatchKind, IsExercise
  <2>6. \A other \in Requests \ {r} : ~HoldsProfile(other)'
    BY <1>17, <2>4 DEF WriteProfile, ProfileFree, HoldsProfile, HoldsAwards
  <2> QED
    BY <2>1, <2>2, <2>4, <2>5, <2>6 DEF AwardsInv, AwardsNeverCollide
<1>18. ASSUME GrantBadges(r) PROVE AwardsInv'
  <2>1. HoldsProfile(r)
    BY <1>18 DEF GrantBadges, HoldsProfile
  <2>2. ASSUME Moves(r, [tx[r] EXCEPT !.stage = "granted"]) PROVE AwardsInv'
    BY <2>1, <2>2, InsideProfile DEF Transaction
  <2>3. ASSUME Moves(r, Finished("conflict")) PROVE AwardsInv'
    BY <2>3, OutsideProfile DEF Finished, Blank
  <2> QED
    BY <1>18, <2>2, <2>3 DEF GrantBadges
<1>19. ASSUME CommitOutcome(r) PROVE AwardsInv'
  <2>1. /\ tx'[r].stage = "committed"
        /\ \A other \in Requests \ {r} : tx'[other] = tx[other]
    BY <1>19 DEF CommitOutcome, TypeOK, Finished, Blank
  <2>2. HoldsProfile(r)
    BY <1>19 DEF CommitOutcome, HoldsProfile, HoldsAwards
  <2>3. \A other \in Requests : ~HoldsProfile(other)'
    BY <2>1, <2>2 DEF AwardsInv, AwardsNeverCollide, HoldsProfile, HoldsAwards
  <2> QED
    BY <2>1, <2>3 DEF AwardsInv, AwardsNeverCollide, StagesMatchKind, IsExercise
<1>20. ASSUME CommitTurn(r) PROVE AwardsInv'
  <2>1. /\ tx'[r].stage = "committed" /\ awards' = awards
        /\ \A other \in Requests \ {r} : tx'[other] = tx[other]
    BY <1>20 DEF CommitTurn, TypeOK, Finished, Blank
  <2>2. \A other \in Requests \ {r} : HoldsProfile(other)' <=> HoldsProfile(other)
    BY <2>1 DEF HoldsProfile, HoldsAwards
  <2> QED
    BY <2>1, <2>2 DEF AwardsInv, AwardsNeverCollide, StagesMatchKind, IsExercise,
                      HoldsProfile, HoldsAwards
<1> QED
  BY <1>2, <1>3, <1>4, <1>5, <1>6, <1>7, <1>8, <1>9, <1>10, <1>11, <1>12, <1>13, <1>14,
     <1>15, <1>16, <1>17, <1>18, <1>19, <1>20 DEF Step

LEMMA AwardsAlways == Spec => []AwardsInv
<1>1. Init => AwardsInv
  BY DEF Init, AwardsInv, AwardsNeverCollide, StagesMatchKind, HoldsProfile, HoldsAwards, Blank
<1>2. TypeOK /\ AwardsInv /\ [Next]_vars => AwardsInv'
  <2> SUFFICES ASSUME TypeOK, AwardsInv, [Next]_vars PROVE AwardsInv'
    OBVIOUS
  <2>1. ASSUME NEW r \in Requests, Crash(r) PROVE AwardsInv'
    BY <2>1, EndOutsideProfile DEF Crash, Ended
  <2>2. CASE Midnight \/ UNCHANGED vars
    <3>1. UNCHANGED <<tx, awards>>
      BY <2>2 DEF Midnight, vars, database
    <3> QED
      BY <3>1 DEF AwardsInv, AwardsNeverCollide, StagesMatchKind, HoldsProfile, HoldsAwards,
                  IsExercise
  <2> QED
    BY <2>1, <2>2, StepAwards DEF Next
<1> QED
  BY <1>1, <1>2, TypeCorrect, PTL DEF Spec

\* A badge is inserted at most once and no request fails over a badge another
\* one unlocked, because evaluate_badges runs after the UPDATE of the
\* gamification row.
THEOREM AwardsNeverCollideAlways == Spec => []AwardsNeverCollide
<1>1. AwardsInv => AwardsNeverCollide
  BY DEF AwardsInv
<1> QED
  BY <1>1, AwardsAlways, PTL

-----------------------------------------------------------------------------
(* Submissions are counted exactly when they are recorded, and messages    *)
(* once.                                                                   *)

\* Stages of a message that follow the insertion of its event.
Applying ==
  {"recorded", "skillRead", "skillFolded", "skillWritten", "profileRead", "profileWritten",
   "granted"}

\* Only an open transaction has an event of its own, whose submission nobody
\* else has recorded or is recording.
KeysAreExclusive ==
  \A r \in Requests :
    tx[r].created =>
      /\ Active(r)
      /\ ~Recorded(r)
      /\ \A other \in Requests \ {r} :
           tx[other].created => SubmissionOf[other] # SubmissionOf[r]

\* An exercise commits its outcome with its event or after another request's;
\* a message only with its own.
OutcomesAreRecorded ==
  \A r \in Requests :
    /\ tx[r].stage = "ready" => tx[r].created \/ Recorded(r)
    /\ ~IsExercise(r) /\ tx[r].stage \in Applying => tx[r].created

EventsInv ==
  KeysAreExclusive /\ OutcomesAreRecorded /\ EffectsMatchEvents /\ TurnsCountOnce

\* A step that inserts no event and changes no table.
LEMMA OutsideEvents ==
  ASSUME TypeOK, EventsInv, NEW r \in Requests, NEW next, Moves(r, next),
         UNCHANGED counted,
         next.created => tx[r].created /\ next.stage \notin Ended \cup {"idle"},
         next.stage = "ready" => next.created \/ Recorded(r),
         ~IsExercise(r) /\ next.stage \in Applying => next.created
  PROVE  EventsInv'
<1>1. /\ tx'[r] = next
      /\ \A other \in Requests \ {r} : tx'[other] = tx[other]
      /\ answerEvents' = answerEvents /\ turnEvents' = turnEvents
      /\ invocationLog' = invocationLog
  BY Moved DEF database
<1>2. \A other \in Requests : Recorded(other)' <=> Recorded(other)
  BY <1>1 DEF Recorded
<1>3. KeysAreExclusive'
  BY <1>1, <1>2 DEF EventsInv, KeysAreExclusive, Active
<1>4. OutcomesAreRecorded'
  BY <1>1, <1>2 DEF EventsInv, OutcomesAreRecorded, IsExercise
<1>5. EffectsMatchEvents' /\ TurnsCountOnce'
  BY <1>1 DEF EventsInv, EffectsMatchEvents, TurnsCountOnce
<1> QED
  BY <1>3, <1>4, <1>5 DEF EventsInv

LEMMA EndOutsideEvents ==
  ASSUME TypeOK, EventsInv, NEW r \in Requests, NEW o \in Ended, RollBack(r, o)
  PROVE  EventsInv'
<1>1. Finished(o).stage = o /\ Finished(o).created = FALSE
  BY DEF Finished, Blank
<1>2. o # "ready" /\ o \notin Applying
  BY DEF Ended, Applying
<1> QED
  BY <1>1, <1>2, OutsideEvents DEF RollBack, history

\* The commit of an outcome: the only step that counts a submission.
LEMMA CommitEvents ==
  ASSUME TypeOK, EventsInv, NEW r \in Requests, CommitOutcome(r)
  PROVE  EventsInv'
<1> DEFINE own == SubmissionOf[r]
<1>1. /\ own \in Submissions
      /\ counted' = [counted EXCEPT ![own] = @ + 1]
      /\ counted \in [Submissions -> Nat]
  BY LoopAssumption DEF TypeOK, CommitOutcome
<1>2. /\ tx'[r].stage = "committed" /\ tx'[r].created = FALSE
      /\ \A other \in Requests \ {r} : tx'[other] = tx[other]
  BY DEF CommitOutcome, TypeOK, Finished, Blank
<1>3. tx[r].created \/ (IsExercise(r) /\ Recorded(r))
  BY DEF CommitOutcome, EventsInv, OutcomesAreRecorded, Applying
<1>4. answerEvents' \cup turnEvents' = answerEvents \cup turnEvents \cup {own}
  BY <1>3 DEF CommitOutcome, Recorded
<1> DEFINE events == answerEvents \cup turnEvents
<1>5. \A other \in Requests : Recorded(other)' <=> Recorded(other) \/ SubmissionOf[other] = own
  BY <1>4 DEF Recorded
<1>6. ASSUME NEW other \in Requests \ {r}, tx[other].created PROVE ~Recorded(other)'
  <2>1. ~Recorded(other) /\ (tx[r].created => SubmissionOf[other] # own)
    BY <1>6 DEF EventsInv, KeysAreExclusive
  <2>2. Recorded(r) => SubmissionOf[other] # own
    BY <2>1 DEF Recorded
  <2> QED
    BY <1>3, <1>5, <2>1, <2>2
<1>7. KeysAreExclusive'
  BY <1>2, <1>6 DEF EventsInv, KeysAreExclusive, Active
<1>8. OutcomesAreRecorded'
  BY <1>2, <1>5 DEF EventsInv, OutcomesAreRecorded, IsExercise, Applying
<1>9. EffectsMatchEvents'
  <2> SUFFICES ASSUME NEW s \in Submissions
               PROVE  /\ counted'[s] > 0 <=> s \in answerEvents' \cup turnEvents'
                      /\ counted'[s] > 0 => \E q \in invocationLog' : SubmissionOf[q] = s
    BY DEF EffectsMatchEvents
  <2>1. /\ counted[s] > 0 <=> s \in answerEvents \cup turnEvents
        /\ counted[s] > 0 => \E q \in invocationLog : SubmissionOf[q] = s
    BY DEF EventsInv, EffectsMatchEvents
  <2>2. invocationLog' = invocationLog \cup {r}
    BY DEF CommitOutcome
  <2>3. CASE s = own
    BY <1>1, <1>4, <2>2, <2>3
  <2>4. CASE s # own
    BY <1>1, <1>4, <2>1, <2>2, <2>4
  <2> QED
    BY <2>3, <2>4
<1>10. TurnsCountOnce'
  <2> SUFFICES ASSUME NEW s \in Submissions, \A e \in Exercises : SubmissionOf[e] # s
               PROVE  counted'[s] <= 1
    BY DEF TurnsCountOnce
  <2>1. counted[s] <= 1
    BY DEF EventsInv, TurnsCountOnce
  <2>2. CASE s = own
    <3>1. tx[r].created
      BY <1>3, <2>2 DEF IsExercise
    <3>2. ~(counted[s] > 0)
      BY <2>2, <3>1 DEF EventsInv, KeysAreExclusive, EffectsMatchEvents, Recorded
    <3> QED
      BY <1>1, <2>2, <3>2
  <2>3. CASE s # own
    BY <1>1, <2>1, <2>3
  <2> QED
    BY <2>2, <2>3
<1> QED
  BY <1>7, <1>8, <1>9, <1>10 DEF EventsInv

LEMMA StepEvents ==
  ASSUME TypeOK, StagesMatchKind, EventsInv, NEW r \in Requests, Step(r)
  PROVE  EventsInv'
<1>1. /\ tx[r] \in Transaction
      /\ tx[r].created => tx[r].stage \notin Ended \cup {"idle"}
  BY DEF TypeOK, EventsInv, KeysAreExclusive, Active
<1>2. ~IsExercise(r) /\ tx[r].stage \in Applying => tx[r].created
  BY DEF EventsInv, OutcomesAreRecorded
<1> USE <1>1, <1>2
<1>3. ASSUME CheckDuplicate(r) PROVE EventsInv'
  BY <1>3, OutsideEvents DEF CheckDuplicate, Transaction, history, Ended, Applying
<1>4. ASSUME JudgeAnswer(r) PROVE EventsInv'
  BY <1>4, OutsideEvents DEF JudgeAnswer, Transaction, history, Ended, Applying
<1>5. ASSUME AnswerMessage(r) PROVE EventsInv'
  BY <1>5, OutsideEvents DEF AnswerMessage, Transaction, history, Ended, Applying
<1>6. ASSUME HoldConversation(r) PROVE EventsInv'
  BY <1>6, OutsideEvents DEF HoldConversation, Transaction, history, Ended, Applying
<1>7. ASSUME LookUpEvent(r) PROVE EventsInv'
  <2>1. PICK stage \in {"ready", "answering", "skipped", "recording"} :
          /\ Moves(r, [tx[r] EXCEPT !.stage = stage])
          /\ stage = "ready" => Recorded(r)
    BY <1>7, Zenon DEF LookUpEvent
  <2> QED
    BY <1>7, <2>1, OutsideEvents DEF LookUpEvent, Transaction, history, Ended, Applying
<1>8. ASSUME InsertEvent(r) PROVE EventsInv'
  <2>1. PICK next :
          /\ Moves(r, next)
          /\ next.created
          /\ next.stage \in {"ready", "recorded"}
    <3> DEFINE answered == [tx[r] EXCEPT !.stage = "ready", !.created = TRUE]
               turned == [tx[r] EXCEPT !.stage = "recorded", !.created = TRUE, !.day = today]
    <3>1. answered.created /\ answered.stage = "ready"
      BY DEF Transaction
    <3>2. turned.created /\ turned.stage = "recorded"
      BY DEF Transaction
    <3>3. Moves(r, answered) \/ Moves(r, turned)
      BY <1>8 DEF InsertEvent
    <3> HIDE DEF answered, turned
    <3> QED
      BY <3>1, <3>2, <3>3
  <2>2. /\ tx'[r] = next
        /\ \A other \in Requests \ {r} : tx'[other] = tx[other]
        /\ answerEvents' = answerEvents /\ turnEvents' = turnEvents
        /\ invocationLog' = invocationLog
    BY <2>1, Moved DEF database
  <2>3. \A other \in Requests : Recorded(other)' <=> Recorded(other)
    BY <2>2 DEF Recorded
  <2>4. \A other \in Requests \ {r} : tx[other].created => SubmissionOf[other] # SubmissionOf[r]
    BY <1>8 DEF InsertEvent, KeyFree, HoldsKey, EventsInv, KeysAreExclusive
  <2>5. KeysAreExclusive'
    BY <1>8, <2>1, <2>2, <2>3, <2>4 DEF InsertEvent, EventsInv, KeysAreExclusive, Active, Ended
  <2>6. OutcomesAreRecorded'
    BY <2>1, <2>2, <2>3 DEF EventsInv, OutcomesAreRecorded, IsExercise
  <2>7. EffectsMatchEvents' /\ TurnsCountOnce'
    BY <1>8, <2>2 DEF InsertEvent, history, EventsInv, EffectsMatchEvents, TurnsCountOnce
  <2> QED
    BY <2>5, <2>6, <2>7 DEF EventsInv
<1>9. ASSUME ReadSkillRow(r) PROVE EventsInv'
  <2>1. PICK stage \in {"skillRead", "skillFolded"} :
          Moves(r, [tx[r] EXCEPT !.stage = stage, !.correct = IsCorrect(tx[r].score),
                                 !.read = skillRows[tx[r].skill]])
    BY <1>9, Zenon DEF ReadSkillRow
  <2>2. ~IsExercise(r) => tx[r].stage = "recorded"
    BY <1>9 DEF ReadSkillRow, DueForProgression
  <2> QED
    BY <1>9, <2>1, <2>2, OutsideEvents DEF ReadSkillRow, DueForProgression, Transaction,
       history, Ended, Applying
<1>10. ASSUME LookForAdvancement(r) PROVE EventsInv'
  BY <1>10, OutsideEvents DEF LookForAdvancement, Transaction, history, Ended, Applying
<1>11. ASSUME WriteSkillRow(r) PROVE EventsInv'
  BY <1>11, OutsideEvents DEF WriteSkillRow, Transaction, history, Ended, Applying
<1>12. ASSUME ReadProfile(r) PROVE EventsInv'
  BY <1>12, OutsideEvents DEF ReadProfile, Transaction, history, Ended, Applying
<1>13. ASSUME WriteProfile(r) PROVE EventsInv'
  <2> DEFINE given == Catalog \cap
               EvaluateBadges(awards, tx[r].firstTurn, NewStreak(r), tx[r].firstLevel)
  <2>1. Moves(r, [tx[r] EXCEPT !.stage = "profileWritten", !.badges = given])
    BY <1>13 DEF WriteProfile
  <2> HIDE DEF given
  <2> QED
    BY <1>13, <2>1, OutsideEvents DEF WriteProfile, Transaction, history, Ended, Applying
<1>14. ASSUME GrantBadges(r) PROVE EventsInv'
  <2>1. ASSUME Moves(r, [tx[r] EXCEPT !.stage = "granted"]) PROVE EventsInv'
    BY <1>14, <2>1, OutsideEvents DEF GrantBadges, Transaction, history, Ended, Applying
  <2>2. ASSUME Moves(r, Finished("conflict")) PROVE EventsInv'
    BY <1>14, <2>2, EndOutsideEvents DEF GrantBadges, RollBack, history, Ended
  <2> QED
    BY <1>14, <2>1, <2>2 DEF GrantBadges
<1>15. ASSUME CommitOutcome(r) PROVE EventsInv'
  BY <1>15, CommitEvents
<1>16. ASSUME CommitTurn(r) PROVE EventsInv'
  <2>1. /\ tx'[r].stage = "committed" /\ tx'[r].created = FALSE
        /\ \A other \in Requests \ {r} : tx'[other] = tx[other]
        /\ UNCHANGED <<answerEvents, turnEvents, counted>>
        /\ invocationLog \subseteq invocationLog'
    BY <1>16 DEF CommitTurn, history, TypeOK, Finished, Blank
  <2>2. \A other \in Requests : Recorded(other)' <=> Recorded(other)
    BY <2>1 DEF Recorded
  <2>3. KeysAreExclusive'
    BY <2>1, <2>2 DEF EventsInv, KeysAreExclusive, Active
  <2>4. OutcomesAreRecorded'
    BY <2>1, <2>2 DEF EventsInv, OutcomesAreRecorded, IsExercise, Applying
  <2> QED
    BY <2>1, <2>3, <2>4 DEF EventsInv, EffectsMatchEvents, TurnsCountOnce
<1>17. ASSUME Replay(r) \/ AgentFails(r) \/ RejectSkill(r) \/ DuplicateEvent(r) \/ NoSkillRow(r)
       PROVE  EventsInv'
  BY <1>17, EndOutsideEvents DEF Replay, AgentFails, RejectSkill, DuplicateEvent, NoSkillRow, Ended
<1> QED
  BY <1>3, <1>4, <1>5, <1>6, <1>7, <1>8, <1>9, <1>10, <1>11, <1>12, <1>13, <1>14, <1>15,
     <1>16, <1>17 DEF Step

\* Both properties rest on the same invariant: an open transaction's event is
\* exclusive, and every outcome is committed with an event.
LEMMA EventsAlways == Spec => []EventsInv
<1>1. Init => EventsInv
  <2> SUFFICES ASSUME Init PROVE EventsInv
    OBVIOUS
  <2>1. \A r \in Requests : tx[r].stage = "idle" /\ tx[r].created = FALSE
    BY DEF Init, Blank
  <2>2. \A s \in Submissions : counted[s] = 0
    BY DEF Init
  <2>3. KeysAreExclusive /\ OutcomesAreRecorded
    BY <2>1 DEF KeysAreExclusive, OutcomesAreRecorded, Applying
  <2>4. EffectsMatchEvents /\ TurnsCountOnce
    BY <2>2 DEF Init, EffectsMatchEvents, TurnsCountOnce
  <2> QED
    BY <2>3, <2>4 DEF EventsInv
<1>2. TypeOK /\ AwardsInv /\ EventsInv /\ [Next]_vars => EventsInv'
  <2> SUFFICES ASSUME TypeOK, AwardsInv, EventsInv, [Next]_vars PROVE EventsInv'
    OBVIOUS
  <2>1. ASSUME NEW r \in Requests, Crash(r) PROVE EventsInv'
    BY <2>1, EndOutsideEvents DEF Crash, Ended
  <2>2. ASSUME NEW r \in Requests, Step(r) PROVE EventsInv'
    BY <2>2, StepEvents DEF AwardsInv
  <2>3. CASE Midnight \/ UNCHANGED vars
    <3>1. UNCHANGED <<tx, answerEvents, turnEvents, invocationLog, counted>>
      BY <2>3 DEF Midnight, vars, database, history
    <3> QED
      BY <3>1 DEF EventsInv, KeysAreExclusive, OutcomesAreRecorded, EffectsMatchEvents,
                  TurnsCountOnce, Active, Recorded, IsExercise
  <2> QED
    BY <2>1, <2>2, <2>3 DEF Next
<1> QED
  BY <1>1, <1>2, TypeCorrect, AwardsAlways, PTL DEF Spec

\* Whatever fails, is repeated or overlaps, the outcome of a submission is on
\* the profiles exactly when its learning event is stored.
THEOREM EffectsMatchEventsAlways == Spec => []EffectsMatchEvents
<1>1. EventsInv => EffectsMatchEvents
  BY DEF EventsInv
<1> QED
  BY <1>1, EventsAlways, PTL

\* A message counts at most once, through any number of requests and sessions.
THEOREM TurnsCountOnceAlways == Spec => []TurnsCountOnce
<1>1. EventsInv => TurnsCountOnce
  BY DEF EventsInv
<1> QED
  BY <1>1, EventsAlways, PTL

-----------------------------------------------------------------------------
(* What double_send shows for an exercise sent twice cannot happen to one  *)
(* that is sent once.                                                      *)

\* No exercise's submission comes with another request: the page sends each
\* answer once, and nothing between it and the handler sends it again.
ExercisesSentOnce ==
  \A r \in Exercises, other \in Requests : SubmissionOf[r] = SubmissionOf[other] => r = other

SingleInv ==
  \A r \in Exercises :
    /\ counted[SubmissionOf[r]] <= 1
    /\ tx[r].stage \notin Ended => counted[SubmissionOf[r]] = 0

LEMMA StepSingle ==
  ASSUME TypeOK, ExercisesSentOnce, SingleInv,
         NEW r \in Requests, Step(r) \/ Crash(r)
  PROVE  SingleInv'
<1>1. tx[r].stage \notin Ended
  BY DEF Step, Crash, Active, CheckDuplicate, Replay, JudgeAnswer, AnswerMessage, AgentFails,
     HoldConversation, RejectSkill, LookUpEvent, InsertEvent, DuplicateEvent, ReadSkillRow,
     NoSkillRow, DueForProgression, LookForAdvancement, WriteSkillRow, ReadProfile,
     WriteProfile, GrantBadges, CommitOutcome, CommitTurn, Ended
<1>2. \A other \in Requests \ {r} : tx'[other] = tx[other]
  BY DEF TypeOK, Step, Crash, CheckDuplicate, Replay, JudgeAnswer, AnswerMessage, AgentFails,
     HoldConversation, RejectSkill, LookUpEvent, InsertEvent, DuplicateEvent, ReadSkillRow,
     NoSkillRow, LookForAdvancement, WriteSkillRow, ReadProfile, WriteProfile, GrantBadges,
     CommitOutcome, CommitTurn, RollBack, Moves
<1>3. CASE counted' = counted
  BY <1>1, <1>2, <1>3, LoopAssumption DEF SingleInv
<1>4. CASE CommitOutcome(r)
  <2>1. /\ tx'[r].stage \in Ended
        /\ counted' = [counted EXCEPT ![SubmissionOf[r]] = @ + 1]
    BY <1>4 DEF CommitOutcome, TypeOK, Finished, Blank, Ended
  <2>2. SubmissionOf[r] \in Submissions /\ counted \in [Submissions -> Nat]
    BY LoopAssumption DEF TypeOK
  <2>3. ASSUME NEW e \in Exercises
        PROVE  /\ counted'[SubmissionOf[e]] <= 1
               /\ tx'[e].stage \notin Ended => counted'[SubmissionOf[e]] = 0
    <3>1. e \in Requests /\ SubmissionOf[e] \in Submissions
      BY LoopAssumption
    <3>2. CASE e = r
      BY <1>1, <2>1, <2>2, <3>2 DEF SingleInv
    <3>3. CASE e # r
      <4>1. SubmissionOf[e] # SubmissionOf[r]
        BY <3>3 DEF ExercisesSentOnce
      <4> QED
        BY <1>2, <2>1, <2>2, <3>1, <3>3, <4>1 DEF SingleInv
    <3> QED
      BY <3>2, <3>3
  <2> QED
    BY <2>3 DEF SingleInv
<1>5. CommitOutcome(r) \/ counted' = counted
  BY DEF Step, Crash, CheckDuplicate, Replay, JudgeAnswer, AnswerMessage, AgentFails,
     HoldConversation, RejectSkill, LookUpEvent, InsertEvent, DuplicateEvent, ReadSkillRow,
     NoSkillRow, LookForAdvancement, WriteSkillRow, ReadProfile, WriteProfile, GrantBadges,
     CommitTurn, RollBack, history
<1> QED
  BY <1>3, <1>4, <1>5

\* When no exercise is sent twice, every submission counts at most once,
\* whatever overlaps and however often messages are sent (submit_answer,
\* send_message): the double send is the only way to be counted twice.
THEOREM CountedOnceWhenSentOnce ==
  ASSUME ExercisesSentOnce
  PROVE  Spec => []CountedOnce
<1>1. Init => SingleInv
  <2>1. \A r \in Exercises : SubmissionOf[r] \in Submissions
    BY LoopAssumption
  <2> QED
    BY <2>1 DEF Init, SingleInv
<1>2. TypeOK /\ SingleInv /\ [Next]_vars => SingleInv'
  <2> SUFFICES ASSUME TypeOK, SingleInv, [Next]_vars PROVE SingleInv'
    OBVIOUS
  <2>1. CASE Midnight \/ UNCHANGED vars
    <3>1. UNCHANGED <<tx, counted>>
      BY <2>1 DEF Midnight, vars, history
    <3> QED
      BY <3>1 DEF SingleInv
  <2> QED
    BY <2>1, StepSingle DEF Next
<1>3. SingleInv /\ TurnsCountOnce => CountedOnce
  BY DEF SingleInv, TurnsCountOnce, CountedOnce
<1> QED
  BY <1>1, <1>2, <1>3, TypeCorrect, TurnsCountOnceAlways, PTL DEF Spec

-----------------------------------------------------------------------------
(* The badges.                                                             *)

\* Stages of a message that has looked for an earlier scored turn.
HeldStages == {"held", "skipped", "recording"} \cup Applying

\* Stages of a request that has looked for an earlier advancement, if it needs to.
FoldedStages ==
  {"skillFolded", "skillWritten", "profileRead", "profileWritten", "granted", "answering",
   "ready"}

StreakOf(t) == UpdateStreak(t.profile.streak, t.profile.lastDay, t.day)

Granted(t) == Catalog \cap EvaluateBadges(awards, t.firstTurn, StreakOf(t), t.firstLevel)

\* What transaction t of request r remembers of a first turn and of a first
\* advancement: a flag once false stays right, since events are never removed,
\* and one that is true is still backed by what t itself will record.
BadgesFit(r, t) ==
  /\ t.firstTurn => ~IsExercise(r)
  /\ ~IsExercise(r) /\ t.stage \in HeldStages /\ ~t.firstTurn => turnEvents # {}
  /\ t.stage = "skillRead" => Advances(t.read, t.correct)
  /\ t.firstLevel => t.stage \in FoldedStages /\ Advances(t.read, t.correct)
  /\ t.stage \in FoldedStages /\ Advances(t.read, t.correct) /\ ~t.firstLevel =>
       levelEvents > 0
  /\ t.stage \in {"profileWritten", "granted", "answering", "ready"} => t.badges = Granted(t)

BadgesInv == BadgesMatchHistory /\ \A r \in Requests : BadgesFit(r, tx[r])

\* A step that changes no table.
LEMMA MoveBadges ==
  ASSUME TypeOK, BadgesInv, NEW r \in Requests, NEW next, Moves(r, next),
         BadgesFit(r, next)
  PROVE  BadgesInv'
<1>1. /\ tx'[r] = next
      /\ \A other \in Requests \ {r} : tx'[other] = tx[other]
      /\ UNCHANGED <<gamification, awards, turnEvents, levelEvents>>
  BY Moved DEF database
<1>2. BadgesMatchHistory'
  BY <1>1 DEF BadgesInv, BadgesMatchHistory
<1>3. \A other \in Requests : BadgesFit(other, tx[other])
  BY DEF BadgesInv
<1>4. \A other \in Requests : BadgesFit(other, tx[other])'
  BY <1>1, <1>3 DEF BadgesFit, Granted, StreakOf, IsExercise
<1> QED
  BY <1>2, <1>4 DEF BadgesInv

LEMMA EndBadges ==
  ASSUME TypeOK, BadgesInv, NEW r \in Requests, NEW o \in Ended, RollBack(r, o)
  PROVE  BadgesInv'
<1>1. BadgesFit(r, Finished(o))
  BY DEF BadgesFit, Finished, Blank, Ended, HeldStages, Applying, FoldedStages
<1> QED
  BY <1>1, MoveBadges DEF RollBack

\* The commit: what the flags said is still so, and the badges given are those
\* of the awards as they are.
LEMMA CommitBadges ==
  ASSUME TypeOK, AwardsInv, BadgesInv, NEW r \in Requests, CommitOutcome(r)
  PROVE  BadgesInv'
<1> DEFINE t == tx[r]
<1>1. /\ tx'[r].stage = "committed" /\ tx'[r].firstTurn = FALSE /\ tx'[r].firstLevel = FALSE
      /\ \A other \in Requests \ {r} : tx'[other] = tx[other]
  BY DEF CommitOutcome, TypeOK, Finished, Blank
<1>2. /\ t.stage \in {"granted", "ready"}
      /\ t.stage \in FoldedStages
      /\ ~IsExercise(r) => t.stage \in HeldStages
  BY DEF CommitOutcome, FoldedStages, HeldStages, Applying
<1>3. \A other \in Requests \ {r} :
        tx[other].stage \notin {"profileWritten", "granted", "answering", "ready"}
  BY <1>2 DEF AwardsInv, AwardsNeverCollide, HoldsProfile, HoldsAwards
<1>4. /\ awards' = awards \cup t.badges
      /\ t.badges = Granted(t)
  BY <1>2 DEF CommitOutcome, BadgesInv, BadgesFit
<1>5. /\ t.firstTurn => ~IsExercise(r)
      /\ ~IsExercise(r) /\ ~t.firstTurn => turnEvents # {}
      /\ t.firstLevel => LevelAdvanced(r)
      /\ LevelAdvanced(r) /\ ~t.firstLevel => levelEvents > 0
  BY <1>2 DEF BadgesInv, BadgesFit, LevelAdvanced
<1>6. /\ turnEvents' # {} <=> turnEvents # {} \/ ~IsExercise(r)
      /\ levelEvents' > 0 <=> levelEvents > 0 \/ LevelAdvanced(r)
      /\ turnEvents \subseteq turnEvents' /\ levelEvents' >= levelEvents
  BY DEF CommitOutcome, TypeOK
<1>7. ASSUME FirstConversation \in Catalog
      PROVE  FirstConversation \in awards' <=> turnEvents' # {}
  <2>1. FirstConversation \in awards <=> turnEvents # {}
    BY <1>7 DEF BadgesInv, BadgesMatchHistory
  <2>2. FirstConversation \in t.badges <=> FirstConversation \notin awards /\ t.firstTurn
    BY <1>4, <1>7 DEF Granted, EvaluateBadges, Badges, FirstConversation, StreakDays, FirstLevel
  <2> QED
    BY <1>4, <1>5, <1>6, <2>1, <2>2
<1>8. ASSUME FirstLevel \in Catalog
      PROVE  FirstLevel \in awards' <=> levelEvents' > 0
  <2>1. FirstLevel \in awards <=> levelEvents > 0
    BY <1>8 DEF BadgesInv, BadgesMatchHistory
  <2>2. FirstLevel \in t.badges <=> FirstLevel \notin awards /\ t.firstLevel
    BY <1>4, <1>8 DEF Granted, EvaluateBadges, Badges, FirstConversation, StreakDays, FirstLevel
  <2> QED
    BY <1>4, <1>5, <1>6, <2>1, <2>2
<1>9. ASSUME StreakDays \in Catalog, gamification'.streak >= StreakThreshold
      PROVE  StreakDays \in awards'
  <2>1. gamification'.streak \in {gamification.streak, NewStreak(r)}
    BY DEF CommitOutcome, StoredProfile
  <2>2. CASE gamification'.streak = gamification.streak
    BY <1>4, <1>9, <2>2 DEF BadgesInv, BadgesMatchHistory
  <2>3. CASE gamification'.streak = NewStreak(r)
    <3>1. NewStreak(r) = StreakOf(t)
      BY DEF NewStreak, StreakOf
    <3>2. StreakDays \in Granted(t) \/ StreakDays \in awards
      BY <1>9, <2>3, <3>1 DEF Granted, EvaluateBadges, Badges, FirstConversation, StreakDays,
         FirstLevel
    <3> QED
      BY <1>4, <3>2
  <2> QED
    BY <2>1, <2>2, <2>3
<1>10. BadgesMatchHistory'
  BY <1>7, <1>8, <1>9 DEF BadgesMatchHistory
<1>11. BadgesFit(r, tx[r])'
  BY <1>1 DEF BadgesFit, HeldStages, Applying, FoldedStages
<1>12. ASSUME NEW other \in Requests \ {r} PROVE BadgesFit(other, tx[other])'
  <2>1. BadgesFit(other, tx[other]) /\ tx'[other] = tx[other]
    BY <1>1 DEF BadgesInv
  <2> QED
    BY <1>3, <1>6, <2>1 DEF BadgesFit, IsExercise, TypeOK
<1> QED
  BY <1>10, <1>11, <1>12 DEF BadgesInv

LEMMA StepBadges ==
  ASSUME TypeOK, AwardsInv, BadgesInv, NEW r \in Requests, Step(r)
  PROVE  BadgesInv'
<1>1. tx[r] \in Transaction /\ BadgesFit(r, tx[r])
  BY DEF TypeOK, BadgesInv
<1> USE <1>1 DEF BadgesFit, StreakOf, Granted
<1>2. ASSUME CheckDuplicate(r) PROVE BadgesInv'
  BY <1>2, MoveBadges DEF CheckDuplicate, Transaction, HeldStages, Applying, FoldedStages
<1>3. ASSUME JudgeAnswer(r) PROVE BadgesInv'
  BY <1>3, MoveBadges DEF JudgeAnswer, Transaction, HeldStages, Applying, FoldedStages
<1>4. ASSUME AnswerMessage(r) PROVE BadgesInv'
  BY <1>4, MoveBadges DEF AnswerMessage, Transaction, HeldStages, Applying, FoldedStages
<1>5. ASSUME HoldConversation(r) PROVE BadgesInv'
  BY <1>5, MoveBadges DEF HoldConversation, Transaction, HeldStages, Applying, FoldedStages
<1>6. ASSUME LookUpEvent(r) PROVE BadgesInv'
  <2>1. CASE IsExercise(r)
    <3>1. PICK stage \in {"ready", "answering"} : Moves(r, [tx[r] EXCEPT !.stage = stage])
      BY <1>6, <2>1, Zenon DEF LookUpEvent
    <3>2. tx[r].stage = "granted"
      BY <1>6, <2>1 DEF LookUpEvent, AwardsInv, StagesMatchKind
    <3> QED
      BY <2>1, <3>1, <3>2, MoveBadges DEF Transaction, FoldedStages
  <2>2. CASE ~IsExercise(r)
    <3>1. PICK stage \in {"skipped", "recording"} : Moves(r, [tx[r] EXCEPT !.stage = stage])
      BY <1>6, <2>2, Zenon DEF LookUpEvent
    <3>2. tx[r].stage = "held"
      BY <1>6, <2>2 DEF LookUpEvent
    <3> QED
      BY <2>2, <3>1, <3>2, MoveBadges DEF Transaction, HeldStages, Applying, FoldedStages
  <2> QED
    BY <2>1, <2>2
<1>7. ASSUME InsertEvent(r) PROVE BadgesInv'
  <2>1. CASE IsExercise(r)
    <3>1. Moves(r, [tx[r] EXCEPT !.stage = "ready", !.created = TRUE])
      BY <1>7, <2>1 DEF InsertEvent
    <3>2. tx[r].stage = "answering"
      BY <1>7, <2>1 DEF InsertEvent, AwardsInv, StagesMatchKind
    <3> QED
      BY <2>1, <3>1, <3>2, MoveBadges DEF Transaction, FoldedStages
  <2>2. CASE ~IsExercise(r)
    <3>1. tx[r].stage = "recording"
      BY <1>7, <2>2 DEF InsertEvent, AwardsInv, StagesMatchKind
    <3> QED
      BY <1>7, <2>2, <3>1, MoveBadges DEF InsertEvent, Transaction, HeldStages, Applying,
         FoldedStages
  <2> QED
    BY <2>1, <2>2
<1>8. ASSUME ReadSkillRow(r) PROVE BadgesInv'
  <2> DEFINE correct == IsCorrect(tx[r].score)
             row == skillRows[tx[r].skill]
  <2>1. tx[r].stage \in {"judged", "recorded"} /\ (~IsExercise(r) => tx[r].stage = "recorded")
    BY <1>8 DEF ReadSkillRow, DueForProgression
  <2>2. CASE Advances(row, correct)
    <3>1. Moves(r, [tx[r] EXCEPT !.stage = "skillRead", !.correct = correct, !.read = row])
      BY <1>8, <2>2 DEF ReadSkillRow
    <3> HIDE DEF correct, row
    <3> QED
      BY <2>1, <2>2, <3>1, MoveBadges DEF Transaction, HeldStages, Applying, FoldedStages
  <2>3. CASE ~Advances(row, correct)
    <3>1. Moves(r, [tx[r] EXCEPT !.stage = "skillFolded", !.correct = correct, !.read = row])
      BY <1>8, <2>3 DEF ReadSkillRow
    <3> HIDE DEF correct, row
    <3> QED
      BY <2>1, <2>3, <3>1, MoveBadges DEF Transaction, HeldStages, Applying, FoldedStages
  <2> QED
    BY <2>2, <2>3
<1>9. ASSUME LookForAdvancement(r) PROVE BadgesInv'
  <2> DEFINE next == [tx[r] EXCEPT !.stage = "skillFolded", !.firstLevel = levelEvents = 0]
  <2>1. /\ next.stage = "skillFolded" /\ (~next.firstLevel => levelEvents # 0)
        /\ next.firstTurn = tx[r].firstTurn
        /\ next.read = tx[r].read /\ next.correct = tx[r].correct
    BY DEF Transaction
  <2>2. Moves(r, next) /\ tx[r].stage = "skillRead" /\ levelEvents \in Nat
    BY <1>9 DEF LookForAdvancement, TypeOK
  <2> HIDE DEF next
  <2>3. /\ next.firstTurn => ~IsExercise(r)
        /\ ~IsExercise(r) /\ ~next.firstTurn => turnEvents # {}
    BY <2>1, <2>2 DEF HeldStages, Applying
  <2>4. Advances(next.read, next.correct)
    BY <2>1, <2>2
  <2>5. ~next.firstLevel => levelEvents > 0
    BY <2>1, <2>2, \A n \in Nat : n # 0 => n > 0
  <2>6. BadgesFit(r, next)
    BY <2>1, <2>3, <2>4, <2>5 DEF FoldedStages
  <2> QED
    BY <2>2, <2>6, MoveBadges
<1>10. ASSUME WriteSkillRow(r) PROVE BadgesInv'
  BY <1>10, MoveBadges DEF WriteSkillRow, Transaction, HeldStages, Applying, FoldedStages
<1>11. ASSUME ReadProfile(r) PROVE BadgesInv'
  BY <1>11, MoveBadges DEF ReadProfile, Transaction, HeldStages, Applying, FoldedStages
<1>12. ASSUME WriteProfile(r) PROVE BadgesInv'
  <2> DEFINE given == Catalog \cap
               EvaluateBadges(awards, tx[r].firstTurn, NewStreak(r), tx[r].firstLevel)
             next == [tx[r] EXCEPT !.stage = "profileWritten", !.badges = given]
  <2>1. Moves(r, next)
    BY <1>12 DEF WriteProfile
  <2>2. given = Granted(tx[r])
    BY DEF NewStreak
  <2> HIDE DEF given
  <2>3. /\ next.stage = "profileWritten" /\ next.badges = given
        /\ next.firstTurn = tx[r].firstTurn /\ next.firstLevel = tx[r].firstLevel
        /\ next.read = tx[r].read /\ next.correct = tx[r].correct
        /\ next.profile = tx[r].profile /\ next.day = tx[r].day
    BY DEF Transaction
  <2> HIDE DEF next
  <2>4. BadgesFit(r, next)
    BY <1>12, <2>2, <2>3 DEF WriteProfile, HeldStages, Applying, FoldedStages
  <2> QED
    BY <2>1, <2>4, MoveBadges
<1>13. ASSUME GrantBadges(r) PROVE BadgesInv'
  <2>1. ASSUME Moves(r, [tx[r] EXCEPT !.stage = "granted"]) PROVE BadgesInv'
    BY <1>13, <2>1, MoveBadges DEF GrantBadges, Transaction, HeldStages, Applying, FoldedStages
  <2>2. ASSUME Moves(r, Finished("conflict")) PROVE BadgesInv'
    BY <1>13, <2>2, EndBadges DEF GrantBadges, RollBack, Ended
  <2> QED
    BY <1>13, <2>1, <2>2 DEF GrantBadges
<1>14. ASSUME CommitOutcome(r) PROVE BadgesInv'
  BY <1>14, CommitBadges
<1>15. ASSUME CommitTurn(r) PROVE BadgesInv'
  <2>1. /\ tx'[r].stage = "committed" /\ tx'[r].firstTurn = FALSE /\ tx'[r].firstLevel = FALSE
        /\ \A other \in Requests \ {r} : tx'[other] = tx[other]
        /\ UNCHANGED <<gamification, awards, turnEvents, levelEvents>>
    BY <1>15 DEF CommitTurn, TypeOK, Finished, Blank
  <2>2. BadgesFit(r, tx[r])'
    BY <2>1 DEF HeldStages, Applying, FoldedStages
  <2>3. \A other \in Requests \ {r} : BadgesFit(other, tx[other])'
    BY <2>1 DEF BadgesInv, IsExercise
  <2> QED
    BY <2>1, <2>2, <2>3 DEF BadgesInv, BadgesMatchHistory
<1>16. ASSUME Replay(r) \/ AgentFails(r) \/ RejectSkill(r) \/ DuplicateEvent(r) \/ NoSkillRow(r)
       PROVE  BadgesInv'
  BY <1>16, EndBadges DEF Replay, AgentFails, RejectSkill, DuplicateEvent, NoSkillRow, Ended
<1> QED
  BY <1>2, <1>3, <1>4, <1>5, <1>6, <1>7, <1>8, <1>9, <1>10, <1>11, <1>12, <1>13, <1>14,
     <1>15, <1>16 DEF Step

LEMMA BadgesAlways == Spec => []BadgesInv
<1>1. Init => BadgesInv
  <2> SUFFICES ASSUME Init PROVE BadgesInv
    OBVIOUS
  <2>1. BadgesMatchHistory
    BY StreakAssumption DEF Init, BadgesMatchHistory, NewProfile
  <2>2. \A r \in Requests : BadgesFit(r, tx[r])
    BY DEF Init, Blank, BadgesFit, HeldStages, Applying, FoldedStages
  <2> QED
    BY <2>1, <2>2 DEF BadgesInv
<1>2. TypeOK /\ AwardsInv /\ BadgesInv /\ [Next]_vars => BadgesInv'
  <2> SUFFICES ASSUME TypeOK, AwardsInv, BadgesInv, [Next]_vars PROVE BadgesInv'
    OBVIOUS
  <2>1. ASSUME NEW r \in Requests, Crash(r) PROVE BadgesInv'
    BY <2>1, EndBadges DEF Crash, Ended
  <2>2. CASE Midnight \/ UNCHANGED vars
    <3>1. UNCHANGED <<tx, gamification, awards, turnEvents, levelEvents>>
      BY <2>2 DEF Midnight, vars, database
    <3> QED
      BY <3>1 DEF BadgesInv, BadgesMatchHistory, BadgesFit, Granted, StreakOf, IsExercise
  <2> QED
    BY <2>1, <2>2, StepBadges DEF Next
<1> QED
  BY <1>1, <1>2, TypeCorrect, AwardsAlways, PTL DEF Spec

\* The badges say what the history says, for any requests, sessions, skills,
\* thresholds and seeded catalog: however stale a "first" flag is when its badge
\* is given, the gamification row was held when the badges were read.
THEOREM BadgesMatchHistoryAlways == Spec => []BadgesMatchHistory
<1>1. BadgesInv => BadgesMatchHistory
  BY DEF BadgesInv
<1> QED
  BY <1>1, BadgesAlways, PTL

-----------------------------------------------------------------------------
(* XP. *)

\* No transaction has read more XP than was ever earned.
XpInv == XpNeverExceedsEarned /\ \A r \in Requests : tx[r].profile.xp <= earned

\* A step that reads no more XP than there is.
LEMMA MoveXp ==
  ASSUME TypeOK, XpInv, NEW r \in Requests, NEW next, Moves(r, next), UNCHANGED earned,
         next.profile.xp \in {0, tx[r].profile.xp, gamification.xp}
  PROVE  XpInv'
<1>1. /\ tx'[r] = next /\ gamification' = gamification
      /\ \A other \in Requests \ {r} : tx'[other] = tx[other]
  BY Moved DEF database
<1>2. earned \in Nat
  BY DEF TypeOK
<1> QED
  BY <1>1, <1>2 DEF XpInv, XpNeverExceedsEarned

LEMMA EndXp ==
  ASSUME TypeOK, XpInv, NEW r \in Requests, NEW o \in Ended, RollBack(r, o)
  PROVE  XpInv'
<1>1. Finished(o).profile.xp = 0
  BY DEF Finished, Blank, NewProfile
<1> QED
  BY <1>1, MoveXp DEF RollBack, history

LEMMA StepXp ==
  ASSUME TypeOK, XpInv, NEW r \in Requests, Step(r)
  PROVE  XpInv'
<1>1. tx[r] \in Transaction
  BY DEF TypeOK
<1> USE <1>1
<1>2. ASSUME CheckDuplicate(r) PROVE XpInv'
  BY <1>2, MoveXp DEF CheckDuplicate, Transaction, history
<1>3. ASSUME JudgeAnswer(r) PROVE XpInv'
  BY <1>3, MoveXp DEF JudgeAnswer, Transaction, history
<1>4. ASSUME AnswerMessage(r) PROVE XpInv'
  BY <1>4, MoveXp DEF AnswerMessage, Transaction, history
<1>5. ASSUME HoldConversation(r) PROVE XpInv'
  BY <1>5, MoveXp DEF HoldConversation, Transaction, history
<1>6. ASSUME LookUpEvent(r) PROVE XpInv'
  <2>1. PICK stage : Moves(r, [tx[r] EXCEPT !.stage = stage])
    BY <1>6, Zenon DEF LookUpEvent
  <2> QED
    BY <1>6, <2>1, MoveXp DEF LookUpEvent, Transaction, history
<1>7. ASSUME InsertEvent(r) PROVE XpInv'
  BY <1>7, MoveXp DEF InsertEvent, Transaction, history
<1>8. ASSUME ReadSkillRow(r) PROVE XpInv'
  <2>1. PICK stage :
          Moves(r, [tx[r] EXCEPT !.stage = stage, !.correct = IsCorrect(tx[r].score),
                                 !.read = skillRows[tx[r].skill]])
    BY <1>8, Zenon DEF ReadSkillRow
  <2> QED
    BY <1>8, <2>1, MoveXp DEF ReadSkillRow, Transaction, history
<1>9. ASSUME LookForAdvancement(r) PROVE XpInv'
  BY <1>9, MoveXp DEF LookForAdvancement, Transaction, history
<1>10. ASSUME WriteSkillRow(r) PROVE XpInv'
  BY <1>10, MoveXp DEF WriteSkillRow, Transaction, history
<1>11. ASSUME ReadProfile(r) PROVE XpInv'
  BY <1>11, MoveXp DEF ReadProfile, Transaction, history
<1>12. ASSUME WriteProfile(r) PROVE XpInv'
  <2> DEFINE given == Catalog \cap
               EvaluateBadges(awards, tx[r].firstTurn, NewStreak(r), tx[r].firstLevel)
  <2>1. Moves(r, [tx[r] EXCEPT !.stage = "profileWritten", !.badges = given])
    BY <1>12 DEF WriteProfile
  <2> HIDE DEF given
  <2> QED
    BY <1>12, <2>1, MoveXp DEF WriteProfile, Transaction, history
<1>13. ASSUME GrantBadges(r) PROVE XpInv'
  <2>1. ASSUME Moves(r, [tx[r] EXCEPT !.stage = "granted"]) PROVE XpInv'
    BY <1>13, <2>1, MoveXp DEF GrantBadges, Transaction, history
  <2>2. ASSUME Moves(r, Finished("conflict")) PROVE XpInv'
    BY <1>13, <2>2, EndXp DEF GrantBadges, RollBack, history, Ended
  <2> QED
    BY <1>13, <2>1, <2>2 DEF GrantBadges
<1>14. ASSUME CommitOutcome(r) PROVE XpInv'
  <2>1. XpAwarded(r) \in Nat /\ earned \in Nat
    BY StoredTypes DEF TypeOK
  <2>2. /\ earned' = earned + XpAwarded(r)
        /\ gamification'.xp = tx[r].profile.xp + XpAwarded(r)
    BY <1>14 DEF CommitOutcome, StoredProfile
  <2>3. /\ tx'[r].profile.xp = 0
        /\ \A other \in Requests \ {r} : tx'[other] = tx[other]
    BY <1>14 DEF CommitOutcome, TypeOK, Finished, Blank, NewProfile
  <2>4. \A q \in Requests : tx[q].profile.xp \in Nat
    BY DEF TypeOK, Transaction, GamificationRow
  <2> QED
    BY <2>1, <2>2, <2>3, <2>4 DEF XpInv, XpNeverExceedsEarned
<1>15. ASSUME CommitTurn(r) PROVE XpInv'
  <2>1. /\ tx'[r].profile.xp = 0
        /\ \A other \in Requests \ {r} : tx'[other] = tx[other]
        /\ UNCHANGED <<gamification, earned>>
    BY <1>15 DEF CommitTurn, history, TypeOK, Finished, Blank, NewProfile
  <2> QED
    BY <2>1 DEF XpInv, XpNeverExceedsEarned, TypeOK
<1>16. ASSUME Replay(r) \/ AgentFails(r) \/ RejectSkill(r) \/ DuplicateEvent(r) \/ NoSkillRow(r)
       PROVE  XpInv'
  BY <1>16, EndXp DEF Replay, AgentFails, RejectSkill, DuplicateEvent, NoSkillRow, Ended
<1> QED
  BY <1>2, <1>3, <1>4, <1>5, <1>6, <1>7, <1>8, <1>9, <1>10, <1>11, <1>12, <1>13, <1>14,
     <1>15, <1>16 DEF Step

\* A lost update can only lose XP: whatever overlaps, a student never holds
\* more than the committed transactions awarded.
THEOREM XpNeverExceedsEarnedAlways == Spec => []XpNeverExceedsEarned
<1>1. Init => XpInv
  BY DEF Init, XpInv, XpNeverExceedsEarned, Blank, NewProfile
<1>2. TypeOK /\ XpInv /\ [Next]_vars => XpInv'
  <2> SUFFICES ASSUME TypeOK, XpInv, [Next]_vars PROVE XpInv'
    OBVIOUS
  <2>1. ASSUME NEW r \in Requests, Crash(r) PROVE XpInv'
    BY <2>1, EndXp DEF Crash, Ended
  <2>2. CASE Midnight \/ UNCHANGED vars
    <3>1. UNCHANGED <<tx, gamification, earned>>
      BY <2>2 DEF Midnight, vars, database, history
    <3> QED
      BY <3>1 DEF XpInv, XpNeverExceedsEarned
  <2> QED
    BY <2>1, <2>2, StepXp DEF Next
<1>3. XpInv => XpNeverExceedsEarned
  BY DEF XpInv
<1> QED
  BY <1>1, <1>2, <1>3, TypeCorrect, PTL DEF Spec

-----------------------------------------------------------------------------
(* Levels and mastery. *)

\* Stages of a request that has read its skill row.
RowRead == {"skillRead"} \cup FoldedStages

\* A level that some initial row and so many events explain.
Explained(level, events) == \E row \in InitialRows : level <= row.level + events

\* What transaction t has read, however stale, was an explained row.
ReadExplained(t) ==
  t.stage \in RowRead => t.skill \in PlacedSkills /\ Explained(t.read.level, levelEvents)

LevelsInv == AdvancesAreRecorded /\ \A r \in Requests : ReadExplained(tx[r])

LEMMA MoveLevels ==
  ASSUME TypeOK, LevelsInv, NEW r \in Requests, NEW next, Moves(r, next), ReadExplained(next)
  PROVE  LevelsInv'
<1>1. /\ tx'[r] = next
      /\ \A other \in Requests \ {r} : tx'[other] = tx[other]
      /\ UNCHANGED <<skillRows, levelEvents>>
  BY Moved DEF database
<1>2. AdvancesAreRecorded'
  BY <1>1 DEF LevelsInv, AdvancesAreRecorded
<1>3. \A q \in Requests : ReadExplained(tx[q])
  BY DEF LevelsInv
<1>4. \A q \in Requests : ReadExplained(tx[q])'
  BY <1>1, <1>3 DEF ReadExplained, Explained
<1> QED
  BY <1>2, <1>4 DEF LevelsInv

LEMMA EndLevels ==
  ASSUME TypeOK, LevelsInv, NEW r \in Requests, NEW o \in Ended, RollBack(r, o)
  PROVE  LevelsInv'
<1>1. Finished(o).stage \notin RowRead
  BY DEF Finished, Blank, Ended, RowRead, FoldedStages
<1> QED
  BY <1>1, MoveLevels DEF RollBack, ReadExplained

\* The commit of an outcome: a column that is written rose by an advance that is
\* recorded with it, one that is not keeps what the table says.
LEMMA CommitLevels ==
  ASSUME TypeOK, LevelsInv, NEW r \in Requests, CommitOutcome(r)
  PROVE  LevelsInv'
<1> DEFINE k == tx[r].skill
           folded == ApplyScoredActivity(tx[r].read, tx[r].correct)
<1>1. /\ tx[r].read \in SkillRow /\ tx[r].correct \in BOOLEAN
      /\ levelEvents \in Nat
      /\ skillRows \in [PlacedSkills -> SkillRow]
  BY DEF TypeOK, Transaction
<1>2. k \in PlacedSkills /\ Explained(tx[r].read.level, levelEvents)
  BY DEF CommitOutcome, LevelsInv, ReadExplained, RowRead, FoldedStages
<1>3. /\ skillRows' = [skillRows EXCEPT ![k] = StoredRow(r)]
      /\ levelEvents' = IF LevelAdvanced(r) THEN levelEvents + 1 ELSE levelEvents
      /\ tx'[r].stage = "committed"
      /\ \A other \in Requests \ {r} : tx'[other] = tx[other]
  BY DEF CommitOutcome, TypeOK, Finished, Blank
<1>4. levelEvents' \in Nat /\ levelEvents <= levelEvents'
  BY <1>1, <1>3
<1>5. \A row \in InitialRows : row.level \in Nat
  BY LoopAssumption, RuleAssumption DEF SkillRow, Levels
<1>6. ASSUME NEW level \in Nat, Explained(level, levelEvents)
      PROVE  Explained(level, levelEvents')
  BY <1>1, <1>4, <1>5, <1>6 DEF Explained
<1>7. \A q \in PlacedSkills :
        skillRows[q].level \in Nat /\ Explained(skillRows[q].level, levelEvents)
  BY <1>1, RuleAssumption DEF SkillRow, Levels, LevelsInv, AdvancesAreRecorded, Explained
<1>8. Explained(StoredRow(r).level, levelEvents')
  <2>1. tx[r].read.level \in Nat
    BY <1>1, RuleAssumption DEF SkillRow, Levels
  <2>2. CASE LevelAdvanced(r)
    <3>1. folded.level = tx[r].read.level + 1
      BY <2>2 DEF LevelAdvanced, ApplyScoredActivity
    <3>2. StoredRow(r).level = tx[r].read.level + 1
      BY <2>1, <3>1 DEF StoredRow
    <3>3. PICK row \in InitialRows : tx[r].read.level <= row.level + levelEvents
      BY <1>2 DEF Explained
    <3>4. tx[r].read.level + 1 <= row.level + levelEvents'
      BY <1>1, <1>3, <1>5, <2>1, <2>2, <3>3
    <3> QED
      BY <3>2, <3>4 DEF Explained
  <2>3. CASE ~LevelAdvanced(r)
    <3>1. folded.level = tx[r].read.level
      BY <2>3 DEF LevelAdvanced, ApplyScoredActivity
    <3>2. StoredRow(r).level = skillRows[k].level
      BY <3>1 DEF StoredRow
    <3> QED
      BY <1>2, <1>6, <1>7, <3>2
  <2> QED
    BY <2>2, <2>3
<1>9. \A q \in PlacedSkills : Explained(skillRows'[q].level, levelEvents')
  <2> SUFFICES ASSUME NEW q \in PlacedSkills PROVE Explained(skillRows'[q].level, levelEvents')
    OBVIOUS
  <2>1. CASE q = k
    BY <1>1, <1>3, <1>8, <2>1
  <2>2. CASE q # k
    BY <1>1, <1>3, <1>6, <1>7, <2>2
  <2> QED
    BY <2>1, <2>2
<1>10. \A other \in Requests : ReadExplained(tx[other])'
  <2> SUFFICES ASSUME NEW other \in Requests, tx'[other].stage \in RowRead
               PROVE  /\ tx'[other].skill \in PlacedSkills
                      /\ Explained(tx'[other].read.level, levelEvents')
    BY DEF ReadExplained
  <2>1. tx'[other] = tx[other]
    BY <1>3 DEF RowRead, FoldedStages
  <2>2. tx[other].skill \in PlacedSkills /\ Explained(tx[other].read.level, levelEvents)
    BY <2>1 DEF LevelsInv, ReadExplained
  <2>3. tx[other].read.level \in Nat
    BY RuleAssumption DEF TypeOK, Transaction, SkillRow, Levels
  <2> QED
    BY <1>6, <2>1, <2>2, <2>3
<1> QED
  BY <1>9, <1>10 DEF LevelsInv, AdvancesAreRecorded, Explained

LEMMA StepLevels ==
  ASSUME TypeOK, StagesMatchKind, LevelsInv, NEW r \in Requests, Step(r)
  PROVE  LevelsInv'
<1>1. tx[r] \in Transaction /\ ReadExplained(tx[r])
  BY DEF TypeOK, LevelsInv
<1> USE <1>1 DEF ReadExplained
<1>2. ASSUME CheckDuplicate(r) PROVE LevelsInv'
  BY <1>2, MoveLevels DEF CheckDuplicate, Transaction, RowRead, FoldedStages
<1>3. ASSUME JudgeAnswer(r) PROVE LevelsInv'
  BY <1>3, MoveLevels DEF JudgeAnswer, Transaction, RowRead, FoldedStages
<1>4. ASSUME AnswerMessage(r) PROVE LevelsInv'
  BY <1>4, MoveLevels DEF AnswerMessage, Transaction, RowRead, FoldedStages
<1>5. ASSUME HoldConversation(r) PROVE LevelsInv'
  BY <1>5, MoveLevels DEF HoldConversation, Transaction, RowRead, FoldedStages
<1>6. ASSUME LookUpEvent(r) PROVE LevelsInv'
  <2>1. PICK stage \in {"ready", "answering", "skipped", "recording"} :
          /\ Moves(r, [tx[r] EXCEPT !.stage = stage])
          /\ IsExercise(r) <=> stage \in {"ready", "answering"}
    BY <1>6, Zenon DEF LookUpEvent
  <2>2. IsExercise(r) => tx[r].stage = "granted"
    BY <1>6 DEF LookUpEvent, StagesMatchKind
  <2> QED
    BY <2>1, <2>2, MoveLevels DEF Transaction, RowRead, FoldedStages
<1>7. ASSUME InsertEvent(r) PROVE LevelsInv'
  <2>1. CASE IsExercise(r)
    <3>1. tx[r].stage = "answering"
      BY <1>7, <2>1 DEF InsertEvent, StagesMatchKind
    <3> QED
      BY <1>7, <2>1, <3>1, MoveLevels DEF InsertEvent, Transaction, RowRead, FoldedStages
  <2>2. CASE ~IsExercise(r)
    BY <1>7, <2>2, MoveLevels DEF InsertEvent, Transaction, RowRead, FoldedStages
  <2> QED
    BY <2>1, <2>2
<1>8. ASSUME ReadSkillRow(r) PROVE LevelsInv'
  <2>1. PICK stage \in {"skillRead", "skillFolded"} :
          Moves(r, [tx[r] EXCEPT !.stage = stage, !.correct = IsCorrect(tx[r].score),
                                 !.read = skillRows[tx[r].skill]])
    BY <1>8, Zenon DEF ReadSkillRow
  <2>2. tx[r].skill \in PlacedSkills /\ Explained(skillRows[tx[r].skill].level, levelEvents)
    BY <1>8 DEF ReadSkillRow, LevelsInv, AdvancesAreRecorded, Explained
  <2> QED
    BY <2>1, <2>2, MoveLevels DEF Transaction
<1>9. ASSUME LookForAdvancement(r) PROVE LevelsInv'
  BY <1>9, MoveLevels DEF LookForAdvancement, Transaction, RowRead, FoldedStages
<1>10. ASSUME WriteSkillRow(r) PROVE LevelsInv'
  BY <1>10, MoveLevels DEF WriteSkillRow, Transaction, RowRead, FoldedStages
<1>11. ASSUME ReadProfile(r) PROVE LevelsInv'
  BY <1>11, MoveLevels DEF ReadProfile, Transaction, RowRead, FoldedStages
<1>12. ASSUME WriteProfile(r) PROVE LevelsInv'
  <2> DEFINE given == Catalog \cap
               EvaluateBadges(awards, tx[r].firstTurn, NewStreak(r), tx[r].firstLevel)
  <2>1. Moves(r, [tx[r] EXCEPT !.stage = "profileWritten", !.badges = given])
    BY <1>12 DEF WriteProfile
  <2> HIDE DEF given
  <2> QED
    BY <1>12, <2>1, MoveLevels DEF WriteProfile, Transaction, RowRead, FoldedStages
<1>13. ASSUME GrantBadges(r) PROVE LevelsInv'
  <2>1. ASSUME Moves(r, [tx[r] EXCEPT !.stage = "granted"]) PROVE LevelsInv'
    BY <1>13, <2>1, MoveLevels DEF GrantBadges, Transaction, RowRead, FoldedStages
  <2>2. ASSUME Moves(r, Finished("conflict")) PROVE LevelsInv'
    BY <1>13, <2>2, EndLevels DEF GrantBadges, RollBack, Ended
  <2> QED
    BY <1>13, <2>1, <2>2 DEF GrantBadges
<1>14. ASSUME CommitOutcome(r) PROVE LevelsInv'
  BY <1>14, CommitLevels
<1>15. ASSUME CommitTurn(r) PROVE LevelsInv'
  <2>1. /\ tx'[r].stage \notin RowRead
        /\ \A other \in Requests \ {r} : tx'[other] = tx[other]
        /\ UNCHANGED <<skillRows, levelEvents>>
    BY <1>15 DEF CommitTurn, TypeOK, Finished, Blank, RowRead, FoldedStages
  <2>2. AdvancesAreRecorded'
    BY <2>1 DEF LevelsInv, AdvancesAreRecorded
  <2>3. \A q \in Requests : ReadExplained(tx[q])'
    BY <2>1 DEF LevelsInv, Explained
  <2> QED
    BY <2>2, <2>3 DEF LevelsInv
<1>16. ASSUME Replay(r) \/ AgentFails(r) \/ RejectSkill(r) \/ DuplicateEvent(r) \/ NoSkillRow(r)
       PROVE  LevelsInv'
  BY <1>16, EndLevels DEF Replay, AgentFails, RejectSkill, DuplicateEvent, NoSkillRow, Ended
<1> QED
  BY <1>2, <1>3, <1>4, <1>5, <1>6, <1>7, <1>8, <1>9, <1>10, <1>11, <1>12, <1>13, <1>14,
     <1>15, <1>16 DEF Step

LEMMA LevelsAlways == Spec => []LevelsInv
<1>1. Init => LevelsInv
  <2> SUFFICES ASSUME Init PROVE LevelsInv
    OBVIOUS
  <2>1. \A r \in Requests : tx[r].stage = "idle"
    BY DEF Init, Blank
  <2>2. ASSUME NEW k \in PlacedSkills
        PROVE  skillRows[k] \in InitialRows /\ skillRows[k].level \in Nat /\ levelEvents = 0
    BY <2>2, LoopAssumption, RuleAssumption DEF Init, SkillRow, Levels
  <2>3. AdvancesAreRecorded
    BY <2>2 DEF AdvancesAreRecorded
  <2> QED
    BY <2>1, <2>3 DEF LevelsInv, ReadExplained, RowRead, FoldedStages
<1>2. TypeOK /\ AwardsInv /\ LevelsInv /\ [Next]_vars => LevelsInv'
  <2> SUFFICES ASSUME TypeOK, AwardsInv, LevelsInv, [Next]_vars PROVE LevelsInv'
    OBVIOUS
  <2>1. ASSUME NEW r \in Requests, Crash(r) PROVE LevelsInv'
    BY <2>1, EndLevels DEF Crash, Ended
  <2>2. CASE Midnight \/ UNCHANGED vars
    <3>1. UNCHANGED <<tx, skillRows, levelEvents>>
      BY <2>2 DEF Midnight, vars, database
    <3> QED
      BY <3>1 DEF LevelsInv, AdvancesAreRecorded, ReadExplained, Explained
  <2> QED
    BY <2>1, <2>2, StepLevels DEF Next, AwardsInv
<1> QED
  BY <1>1, <1>2, TypeCorrect, AwardsAlways, PTL DEF Spec

\* No level is gained without a LEVEL_ADVANCED event, however many answers fold
\* their outcomes into rows that have changed since they read them.
THEOREM AdvancesAreRecordedAlways == Spec => []AdvancesAreRecorded
<1>1. LevelsInv => AdvancesAreRecorded
  BY DEF LevelsInv
<1> QED
  BY <1>1, LevelsAlways, PTL

\* An answer folded into the row as it stands leaves a settled row, even when
\* stale answers have left one whose mastery is not that of its window, or whose
\* window has earned an advance.
THEOREM FreshAnswersSettleAlways == Spec => FreshAnswersSettle
<1>1. ASSUME TypeOK, LevelsInv, NEW r \in Requests, CommitOutcome(r),
             tx[r].read = skillRows[tx[r].skill]
      PROVE  SettledRow(skillRows'[tx[r].skill])
  <2> DEFINE row == skillRows[tx[r].skill]
             folded == ApplyScoredActivity(row, tx[r].correct)
  <2>1. tx[r].skill \in PlacedSkills /\ tx[r].correct \in BOOLEAN
    BY <1>1 DEF CommitOutcome, LevelsInv, ReadExplained, RowRead, FoldedStages, TypeOK,
       Transaction
  <2>2. folded \in SkillRow
    <3>1. row \in SkillRow
      BY <1>1, <2>1 DEF TypeOK
    <3> QED
      BY <2>1, <3>1, AppliedType
  <2>3. StoredRow(r) = [level   |-> IF folded.level = row.level THEN row.level ELSE folded.level,
                        mastery |-> IF folded.mastery = row.mastery THEN row.mastery
                                    ELSE folded.mastery,
                        window  |-> folded.window]
    BY <1>1 DEF StoredRow
  <2>4. SettledRow(folded)
    BY AppliedSettled
  <2> HIDE DEF folded, row
  <2>5. StoredRow(r) = folded
    BY <2>2, <2>3 DEF SkillRow
  <2>6. skillRows'[tx[r].skill] = StoredRow(r)
    BY <1>1, <2>1 DEF CommitOutcome, TypeOK
  <2> QED
    BY <2>4, <2>5, <2>6
<1>2. TypeOK /\ LevelsInv /\ [Next]_vars =>
        [\A r \in Requests :
           CommitOutcome(r) /\ tx[r].read = skillRows[tx[r].skill] =>
             SettledRow(skillRows'[tx[r].skill])]_vars
  BY <1>1
<1> QED
  BY <1>2, TypeCorrect, LevelsAlways, PTL DEF Spec, FreshAnswersSettle

-----------------------------------------------------------------------------
(* Messages of one conversation.  The row of their session is held from     *)
(* before the first query whose answer the outcome depends on to the end of *)
(* the transaction, so whatever the holder has read is still so.            *)

OneConversation ==
  /\ Exercises = {}
  /\ \A r, other \in Requests : ConversationOf[r] = ConversationOf[other]
  /\ \A row \in InitialRows : SettledRow(row)

\* Stages of a message that has read its skill row.
Folding ==
  {"skillRead", "skillFolded", "skillWritten", "profileRead", "profileWritten", "granted"}

\* What transaction t has read is what the tables say.
UpToDate(t) ==
  /\ t.stage \in HeldStages \cup {"judged"} => t.score \in Scores
  /\ t.stage \in HeldStages /\ t.firstTurn => turnEvents = {}
  /\ t.stage \in Applying => t.day \in 1..today /\ gamification.lastDay <= t.day
  /\ t.stage \in Folding =>
       /\ t.skill \in PlacedSkills
       /\ t.correct = IsCorrect(t.score)
       /\ t.read = skillRows[t.skill]
  /\ t.stage \in FoldedStages /\ t.firstLevel => levelEvents = 0
  /\ t.stage \in {"profileRead", "profileWritten", "granted"} => t.profile = gamification

Serialised ==
  \A r, other \in Requests :
    tx[r].stage \in HeldStages /\ tx[other].stage \in HeldStages => r = other

\* Every row at rest is one the rule leaves.  Where reads may be stale this is
\* not so: see FreshAnswersSettle.
RowsSettled == \A k \in PlacedSkills : SettledRow(skillRows[k])

SerialInv ==
  /\ Serialised
  /\ \A r \in Requests : UpToDate(tx[r])
  /\ RowsSettled
  /\ XpIsEarned
  /\ answerEvents = {}
  /\ gamification.lastDay <= today

\* A message holds its conversation in exactly those stages.
LEMMA HeldHolds ==
  ASSUME TypeOK, StagesMatchKind, NEW r \in Requests, ~IsExercise(r)
  PROVE  HoldsConversation(r) <=> tx[r].stage \in HeldStages
<1>1. tx[r].stage \in Stages
  BY DEF TypeOK, Transaction
<1> QED
  BY <1>1 DEF StagesMatchKind, HoldsConversation, Active, HeldStages, Applying, Stages, Ended

\* A step that changes no table and takes no session.
LEMMA MoveSerial ==
  ASSUME TypeOK, SerialInv, NEW r \in Requests, NEW next, Moves(r, next), UNCHANGED history,
         UpToDate(next),
         next.stage \in HeldStages => \A other \in Requests \ {r} : tx[other].stage \notin HeldStages
  PROVE  SerialInv'
<1>1. /\ tx'[r] = next
      /\ \A other \in Requests \ {r} : tx'[other] = tx[other]
      /\ UNCHANGED <<skillRows, gamification, answerEvents, turnEvents, levelEvents, today, earned>>
  BY Moved DEF database, history, Moves
<1>2. Serialised'
  BY <1>1 DEF SerialInv, Serialised
<1>3. \A other \in Requests : UpToDate(tx[other])'
  BY <1>1 DEF SerialInv, UpToDate
<1> QED
  BY <1>1, <1>2, <1>3 DEF SerialInv, RowsSettled, XpIsEarned

LEMMA EndSerial ==
  ASSUME TypeOK, SerialInv, NEW r \in Requests, NEW o \in Ended, RollBack(r, o)
  PROVE  SerialInv'
<1>1. UpToDate(Finished(o)) /\ Finished(o).stage \notin HeldStages
  BY DEF UpToDate, Finished, Blank, Ended, HeldStages, Applying, FoldedStages, Folding
<1> QED
  BY <1>1, MoveSerial DEF RollBack

\* Columns computed from the rows as they are: the commit writes what the two
\* rules make of them.
LEMMA StoredIsFolded ==
  ASSUME TypeOK, SerialInv, NEW r \in Requests, tx[r].stage = "granted"
  PROVE  /\ tx[r].skill \in PlacedSkills /\ tx[r].score \in Scores
         /\ tx[r].correct = IsCorrect(tx[r].score)
         /\ StoredRow(r) = ApplyScoredActivity(skillRows[tx[r].skill], tx[r].correct)
         /\ LevelAdvanced(r) = Advances(skillRows[tx[r].skill], tx[r].correct)
         /\ NewStreak(r) = UpdateStreak(gamification.streak, gamification.lastDay, tx[r].day)
         /\ StoredProfile(r) = [xp |-> gamification.xp + XpAwarded(r), streak |-> NewStreak(r),
                                lastDay |-> tx[r].day]
<1> DEFINE row == skillRows[tx[r].skill]
           folded == ApplyScoredActivity(row, tx[r].correct)
<1>1. /\ tx[r].skill \in PlacedSkills /\ tx[r].score \in Scores
      /\ tx[r].correct = IsCorrect(tx[r].score)
      /\ tx[r].read = row /\ tx[r].profile = gamification
  BY DEF SerialInv, UpToDate, HeldStages, Applying, Folding
<1>2. row \in SkillRow /\ tx[r].correct \in BOOLEAN
  BY <1>1 DEF TypeOK, Transaction
<1>3. folded \in SkillRow
  BY <1>2, AppliedType
<1>4. StoredRow(r) = [level |-> folded.level, mastery |-> folded.mastery, window |-> folded.window]
  <2> HIDE DEF row
  <2>1. StoredRow(r) =
          [level   |-> IF folded.level = row.level THEN row.level ELSE folded.level,
           mastery |-> IF folded.mastery = row.mastery THEN row.mastery ELSE folded.mastery,
           window  |-> folded.window]
    BY <1>1 DEF StoredRow, row
  <2> HIDE DEF folded
  <2> QED
    BY <2>1
<1>5. StoredRow(r) = folded
  <2> HIDE DEF folded
  <2> QED
    BY <1>3, <1>4 DEF SkillRow
<1>6. NewStreak(r) = UpdateStreak(gamification.streak, gamification.lastDay, tx[r].day)
  BY <1>1 DEF NewStreak
<1>7. StoredProfile(r) = [xp |-> gamification.xp + XpAwarded(r), streak |-> NewStreak(r),
                          lastDay |-> tx[r].day]
  BY <1>1 DEF StoredProfile
<1> QED
  BY <1>1, <1>5, <1>6, <1>7 DEF LevelAdvanced

LEMMA CommitSerial ==
  ASSUME OneConversation, TypeOK, StagesMatchKind, SerialInv, NEW r \in Requests,
         CommitOutcome(r)
  PROVE  SerialInv'
<1>1. tx[r].stage = "granted" /\ ~IsExercise(r)
  BY DEF CommitOutcome, OneConversation, IsExercise
<1>2. /\ tx'[r].stage = "committed"
      /\ \A other \in Requests \ {r} : tx'[other] = tx[other]
      /\ today' = today /\ answerEvents' = answerEvents
      /\ skillRows' = [skillRows EXCEPT ![tx[r].skill] = StoredRow(r)]
      /\ gamification' = StoredProfile(r)
      /\ earned' = earned + XpAwarded(r)
  BY <1>1 DEF CommitOutcome, TypeOK, Finished, Blank
<1>3. \A other \in Requests \ {r} : tx[other].stage \notin HeldStages
  BY <1>1 DEF SerialInv, Serialised, HeldStages, Applying
<1>4. /\ Serialised'
      /\ \A other \in Requests \ {r} : UpToDate(tx[other])'
  <2>1. \A other \in Requests : tx'[other].stage \notin HeldStages
    BY <1>2, <1>3 DEF HeldStages, Applying
  <2>2. ASSUME NEW other \in Requests \ {r} PROVE UpToDate(tx[other])'
    <3>1. tx'[other] = tx[other] /\ UpToDate(tx[other]) /\ tx[other].stage \notin HeldStages
          /\ tx[other].stage \notin FoldedStages
      <4>1. tx[other].stage \notin {"answering", "ready"}
        BY DEF OneConversation, StagesMatchKind, IsExercise
      <4> QED
        BY <1>2, <1>3, <4>1 DEF SerialInv, HeldStages, Applying, FoldedStages
    <3> QED
      BY <3>1 DEF UpToDate, HeldStages, Applying, Folding
  <2> QED
    BY <2>1, <2>2 DEF Serialised
<1>5. UpToDate(tx[r])'
  BY <1>2 DEF UpToDate, HeldStages, Applying, Folding, FoldedStages
<1>6. RowsSettled'
  <2>1. SettledRow(StoredRow(r))
    BY <1>1, StoredIsFolded, AppliedSettled
  <2> QED
    BY <1>2, <2>1 DEF SerialInv, RowsSettled, TypeOK
<1>7. XpIsEarned' /\ gamification'.lastDay <= today'
  <2>1. gamification'.xp = gamification.xp + XpAwarded(r) /\ gamification'.lastDay = tx[r].day
    BY <1>1, <1>2, StoredIsFolded
  <2>2. tx[r].day \in 1..today /\ today \in Nat
    BY <1>1, LoopAssumption DEF SerialInv, UpToDate, Applying, TypeOK
  <2> QED
    BY <1>2, <2>1, <2>2 DEF SerialInv, XpIsEarned
<1> QED
  BY <1>2, <1>4, <1>5, <1>6, <1>7 DEF SerialInv

LEMMA StepSerial ==
  ASSUME OneConversation, TypeOK, AwardsInv, BadgesInv, SerialInv, NEW r \in Requests, Step(r)
  PROVE  SerialInv'
<1>1. /\ tx[r] \in Transaction /\ UpToDate(tx[r]) /\ ~IsExercise(r)
      /\ tx[r].stage \in HeldStages =>
           \A other \in Requests \ {r} : tx[other].stage \notin HeldStages
  BY DEF TypeOK, SerialInv, Serialised, OneConversation, IsExercise
<1>2. today \in Nat /\ today > 0
  BY LoopAssumption DEF TypeOK
<1> USE <1>1 DEF UpToDate
<1>3. ASSUME CheckDuplicate(r) PROVE SerialInv'
  BY <1>3, MoveSerial DEF CheckDuplicate, Transaction, HeldStages, Applying, FoldedStages, Folding
<1>4. ASSUME AnswerMessage(r) PROVE SerialInv'
  BY <1>4, MoveSerial DEF AnswerMessage, Transaction, HeldStages, Applying, FoldedStages, Folding
<1>5. ASSUME HoldConversation(r) PROVE SerialInv'
  <2>1. \A other \in Requests \ {r} : tx[other].stage \notin HeldStages
    <3>1. \A other \in Requests \ {r} : ~HoldsConversation(other)
      BY <1>5 DEF HoldConversation, ConversationFree, OneConversation
    <3> QED
      BY <3>1, HeldHolds DEF AwardsInv, OneConversation, IsExercise
  <2> QED
    BY <1>5, <2>1, MoveSerial DEF HoldConversation, Transaction, HeldStages, Applying,
       FoldedStages, Folding
<1>6. ASSUME LookUpEvent(r) PROVE SerialInv'
  <2>1. PICK stage \in {"skipped", "recording"} : Moves(r, [tx[r] EXCEPT !.stage = stage])
    BY <1>6, Zenon DEF LookUpEvent
  <2>2. tx[r].stage = "held"
    BY <1>6 DEF LookUpEvent
  <2> QED
    BY <1>6, <2>1, <2>2, MoveSerial DEF LookUpEvent, Transaction, HeldStages, Applying,
       FoldedStages, Folding
<1>7. ASSUME InsertEvent(r) PROVE SerialInv'
  <2>1. tx[r].stage = "recording" /\ gamification.lastDay <= today
    BY <1>7 DEF InsertEvent, AwardsInv, StagesMatchKind, SerialInv
  <2> DEFINE next == [tx[r] EXCEPT !.stage = "recorded", !.created = TRUE, !.day = today]
  <2>2. Moves(r, next) /\ UNCHANGED history
    BY <1>7 DEF InsertEvent
  <2>3. /\ next.stage = "recorded" /\ next.day = today
        /\ next.score = tx[r].score /\ next.firstTurn = tx[r].firstTurn
    BY DEF Transaction
  <2> HIDE DEF next
  <2>4. today \in 1..today
    BY <1>2
  <2>5. UpToDate(next)
    BY <2>1, <2>3, <2>4 DEF HeldStages, Applying, FoldedStages, Folding
  <2> QED
    BY <2>1, <2>2, <2>5, MoveSerial DEF HeldStages
<1>8. ASSUME ReadSkillRow(r) PROVE SerialInv'
  <2> DEFINE correct == IsCorrect(tx[r].score)
             row == skillRows[tx[r].skill]
  <2>1. tx[r].stage = "recorded" /\ tx[r].skill \in PlacedSkills
    BY <1>8 DEF ReadSkillRow, DueForProgression
  <2>2. ~tx[r].firstLevel
    BY <2>1 DEF BadgesInv, BadgesFit, FoldedStages
  <2>3. PICK stage \in {"skillRead", "skillFolded"} :
          Moves(r, [tx[r] EXCEPT !.stage = stage, !.correct = correct, !.read = row])
    BY <1>8, Zenon DEF ReadSkillRow
  <2> QED
    BY <1>8, <2>1, <2>2, <2>3, MoveSerial DEF ReadSkillRow, Transaction, HeldStages, Applying,
       FoldedStages, Folding
<1>9. ASSUME LookForAdvancement(r) PROVE SerialInv'
  BY <1>9, MoveSerial DEF LookForAdvancement, Transaction, HeldStages, Applying, FoldedStages,
     Folding
<1>10. ASSUME WriteSkillRow(r) PROVE SerialInv'
  BY <1>10, MoveSerial DEF WriteSkillRow, Transaction, HeldStages, Applying, FoldedStages, Folding
<1>11. ASSUME ReadProfile(r) PROVE SerialInv'
  BY <1>11, MoveSerial DEF ReadProfile, Transaction, HeldStages, Applying, FoldedStages, Folding
<1>12. ASSUME WriteProfile(r) PROVE SerialInv'
  <2> DEFINE given == Catalog \cap
               EvaluateBadges(awards, tx[r].firstTurn, NewStreak(r), tx[r].firstLevel)
  <2>1. Moves(r, [tx[r] EXCEPT !.stage = "profileWritten", !.badges = given])
    BY <1>12 DEF WriteProfile
  <2> HIDE DEF given
  <2> QED
    BY <1>12, <2>1, MoveSerial DEF WriteProfile, Transaction, HeldStages, Applying,
       FoldedStages, Folding
<1>13. ASSUME GrantBadges(r) PROVE SerialInv'
  <2>1. ASSUME Moves(r, [tx[r] EXCEPT !.stage = "granted"]) PROVE SerialInv'
    BY <1>13, <2>1, MoveSerial DEF GrantBadges, Transaction, HeldStages, Applying, FoldedStages,
       Folding
  <2>2. ASSUME Moves(r, Finished("conflict")) PROVE SerialInv'
    BY <1>13, <2>2, EndSerial DEF GrantBadges, RollBack, Ended
  <2> QED
    BY <1>13, <2>1, <2>2 DEF GrantBadges
<1>14. ASSUME CommitOutcome(r) PROVE SerialInv'
  BY <1>14, CommitSerial DEF AwardsInv
<1>15. ASSUME CommitTurn(r) PROVE SerialInv'
  <2>1. /\ tx'[r].stage = "committed"
        /\ \A other \in Requests \ {r} : tx'[other] = tx[other]
        /\ UNCHANGED <<skillRows, gamification, answerEvents, turnEvents, levelEvents, today, earned>>
    BY <1>15 DEF CommitTurn, TypeOK, Finished, Blank, history
  <2>2. Serialised'
    BY <2>1 DEF SerialInv, Serialised, HeldStages, Applying
  <2>3. \A other \in Requests : UpToDate(tx[other])'
    BY <2>1 DEF SerialInv, HeldStages, Applying, FoldedStages, Folding
  <2> QED
    BY <2>1, <2>2, <2>3 DEF SerialInv, RowsSettled, XpIsEarned
<1>16. ASSUME Replay(r) \/ AgentFails(r) \/ RejectSkill(r) \/ DuplicateEvent(r) \/ NoSkillRow(r)
       PROVE  SerialInv'
  BY <1>16, EndSerial DEF Replay, AgentFails, RejectSkill, DuplicateEvent, NoSkillRow, Ended
<1>17. ~JudgeAnswer(r)
  BY DEF JudgeAnswer
<1> QED
  BY <1>3, <1>4, <1>5, <1>6, <1>7, <1>8, <1>9, <1>10, <1>11, <1>12, <1>13, <1>14, <1>15,
     <1>16, <1>17 DEF Step

LEMMA SerialAlways ==
  ASSUME OneConversation
  PROVE  Spec => []SerialInv
<1>1. Init => SerialInv
  <2> SUFFICES ASSUME Init PROVE SerialInv
    OBVIOUS
  <2>1. \A r \in Requests : tx[r].stage = "idle"
    BY DEF Init, Blank
  <2>2. RowsSettled
    BY DEF Init, OneConversation, RowsSettled
  <2>3. XpIsEarned /\ gamification.lastDay <= today
    BY DEF Init, XpIsEarned, NewProfile, NoDay
  <2> QED
    BY <2>1, <2>2, <2>3 DEF Init, SerialInv, Serialised, UpToDate, HeldStages, Applying,
       FoldedStages, Folding
<1>2. TypeOK /\ AwardsInv /\ BadgesInv /\ SerialInv /\ [Next]_vars => SerialInv'
  <2> SUFFICES ASSUME TypeOK, AwardsInv, BadgesInv, SerialInv, [Next]_vars PROVE SerialInv'
    OBVIOUS
  <2>1. ASSUME NEW r \in Requests, Crash(r) PROVE SerialInv'
    BY <2>1, EndSerial DEF Crash, Ended
  <2>2. CASE Midnight \/ UNCHANGED vars
    <3>1. /\ UNCHANGED <<tx, skillRows, gamification, answerEvents, turnEvents, levelEvents, earned>>
          /\ today' \in {today, today + 1} /\ today \in Nat /\ gamification.lastDay \in Nat
      BY <2>2, LoopAssumption DEF Midnight, vars, database, history, TypeOK, GamificationRow
    <3>2. \A r \in Requests : UpToDate(tx[r])'
      BY <3>1 DEF SerialInv, UpToDate
    <3> QED
      BY <3>1, <3>2 DEF SerialInv, Serialised, RowsSettled, XpIsEarned
  <2> QED
    BY <2>1, <2>2, StepSerial DEF Next
<1> QED
  BY <1>1, <1>2, TypeCorrect, AwardsAlways, BadgesAlways, PTL DEF Spec

\* Messages of one conversation never leave a row the rule could not have left:
\* none of them folds its outcome into a row that has changed since.
THEOREM RowsSettledAlways ==
  ASSUME OneConversation
  PROVE  Spec => []RowsSettled
<1>1. SerialInv => RowsSettled
  BY DEF SerialInv
<1> QED
  BY <1>1, SerialAlways, PTL

-----------------------------------------------------------------------------
(* The ledger.                                                             *)

\* The ledger applies the same rules.
LEMMA SameRules ==
  /\ \A score : Ledger!IsCorrect(score) = IsCorrect(score)
  /\ \A row, correct : Ledger!Advances(row, correct) = Advances(row, correct)
  /\ \A row, correct :
       Ledger!ApplyScoredActivity(row, correct) = ApplyScoredActivity(row, correct)
  /\ \A type, score : Ledger!CalculateXp(type, score) = CalculateXp(type, score)
  /\ \A streak, lastDay, day :
       Ledger!UpdateStreak(streak, lastDay, day) = UpdateStreak(streak, lastDay, day)
  /\ \A held, firstTurn, streak, firstLevel :
       Ledger!EvaluateBadges(held, firstTurn, streak, firstLevel)
         = EvaluateBadges(held, firstTurn, streak, firstLevel)
<1>1. \A score : Ledger!IsCorrect(score) = IsCorrect(score)
  BY DEF IsCorrect, Ledger!IsCorrect
<1>2. \A window, correct : Ledger!Slide(window, correct) = Slide(window, correct)
  BY DEF Slide, Ledger!Slide
<1>3. \A window : Ledger!CorrectIn(window) = CorrectIn(window)
  BY Zenon DEF CorrectIn, Ledger!CorrectIn, Cardinality, Ledger!Cardinality
<1>4. \A num, den : Ledger!RoundHalfEven(num, den) = RoundHalfEven(num, den)
  BY DEF RoundHalfEven, Ledger!RoundHalfEven
<1>5. \A window : Ledger!Qualifies(window) = Qualifies(window)
  BY <1>3 DEF Qualifies, Ledger!Qualifies
<1>6. \A window : Ledger!MasteryOf(window) = MasteryOf(window)
  BY <1>3, <1>4 DEF MasteryOf, Ledger!MasteryOf
<1>7. \A row, correct : Ledger!Advances(row, correct) = Advances(row, correct)
  BY <1>2, <1>5 DEF Advances, Ledger!Advances
<1>8. \A row, correct :
        Ledger!ApplyScoredActivity(row, correct) = ApplyScoredActivity(row, correct)
  BY <1>2, <1>6, <1>7 DEF ApplyScoredActivity, Ledger!ApplyScoredActivity
<1>9. \A type, score : Ledger!CalculateXp(type, score) = CalculateXp(type, score)
  BY <1>4 DEF CalculateXp, Ledger!CalculateXp, BaseXp, Ledger!BaseXp, ScoreFloor,
     Ledger!ScoreFloor, ActivityTypes, Ledger!ActivityTypes
<1>10. \A streak, lastDay, day :
         Ledger!UpdateStreak(streak, lastDay, day) = UpdateStreak(streak, lastDay, day)
  BY DEF UpdateStreak, Ledger!UpdateStreak, NoDay, Ledger!NoDay
<1>11. \A held, firstTurn, streak, firstLevel :
         Ledger!EvaluateBadges(held, firstTurn, streak, firstLevel)
           = EvaluateBadges(held, firstTurn, streak, firstLevel)
  BY DEF EvaluateBadges, Ledger!EvaluateBadges, Badges, Ledger!Badges, FirstConversation,
     Ledger!FirstConversation, StreakDays, Ledger!StreakDays, FirstLevel, Ledger!FirstLevel
<1> QED
  BY <1>1, <1>7, <1>8, <1>9, <1>10, <1>11

LEMMA InitImplements == Init => Ledger!Init
BY DEF Init, Ledger!Init, NewProfile, NoDay, Ledger!NoDay

\* The commit of a message's outcome is the credit of its submission.
LEMMA CommitIsCredit ==
  ASSUME OneConversation, TypeOK, AwardsInv, EventsInv, BadgesInv, SerialInv,
         NEW r \in Requests, CommitOutcome(r)
  PROVE  Ledger!Next
<1> DEFINE t == tx[r]
           own == SubmissionOf[r]
           row == skillRows[t.skill]
           streak == UpdateStreak(gamification.streak, gamification.lastDay, t.day)
           advanced == Advances(row, t.correct)
           credited == answerEvents \cup turnEvents
<1>1. t.stage = "granted" /\ ~IsExercise(r)
  BY DEF CommitOutcome, OneConversation, IsExercise
<1>2. /\ t.skill \in PlacedSkills /\ t.score \in Scores
      /\ t.correct = IsCorrect(t.score)
      /\ StoredRow(r) = ApplyScoredActivity(row, t.correct)
      /\ LevelAdvanced(r) = advanced
      /\ NewStreak(r) = streak
      /\ StoredProfile(r) = [xp |-> gamification.xp + XpAwarded(r), streak |-> streak,
                             lastDay |-> t.day]
  BY <1>1, StoredIsFolded
<1>3. t.day \in 1..MaxDay /\ t.day >= gamification.lastDay
  <2>1. t.day \in 1..today /\ gamification.lastDay <= t.day /\ today \in 1..MaxDay
    BY <1>1 DEF SerialInv, UpToDate, Applying, TypeOK
  <2>2. gamification.lastDay \in Nat /\ MaxDay \in Nat
    BY LoopAssumption DEF TypeOK, GamificationRow
  <2> QED
    BY <2>1, <2>2
<1>4. own \in Submissions /\ own \notin credited
  BY <1>1, LoopAssumption DEF EventsInv, OutcomesAreRecorded, KeysAreExclusive, Recorded, Applying
<1>5. t.firstTurn <=> credited = {}
  <2>1. t.firstTurn <=> turnEvents = {}
    BY <1>1 DEF SerialInv, UpToDate, BadgesInv, BadgesFit, HeldStages, Applying
  <2> QED
    BY <2>1 DEF SerialInv
<1>6. t.firstLevel <=> advanced /\ levelEvents = 0
  <2>1. t.read = row /\ t.stage \in FoldedStages /\ levelEvents \in Nat
    BY <1>1 DEF SerialInv, UpToDate, Folding, FoldedStages, TypeOK
  <2> QED
    BY <2>1 DEF SerialInv, UpToDate, BadgesInv, BadgesFit
<1>7. t.badges = Catalog \cap
        EvaluateBadges(awards, credited = {}, streak, advanced /\ levelEvents = 0)
  <2>1. t.badges = Catalog \cap EvaluateBadges(awards, t.firstTurn, streak, t.firstLevel)
    BY <1>1, <1>2 DEF BadgesInv, BadgesFit, Granted, StreakOf, NewStreak
  <2> HIDE DEF advanced, credited, streak
  <2> QED
    BY <1>5, <1>6, <2>1 DEF EvaluateBadges
<1>8. /\ skillRows' = [skillRows EXCEPT ![t.skill] = ApplyScoredActivity(row, t.correct)]
      /\ gamification' = [xp |-> gamification.xp + CalculateXp(TypeOf(r), t.score),
                          streak |-> streak, lastDay |-> t.day]
      /\ awards' = awards \cup t.badges
      /\ levelEvents' = IF advanced THEN levelEvents + 1 ELSE levelEvents
      /\ (answerEvents \cup turnEvents)' = credited \cup {own}
  BY <1>1, <1>2 DEF CommitOutcome, XpAwarded
<1> HIDE DEF row, streak, advanced, credited
<1>9. Ledger!Credit(own, t.skill, TypeOf(r), t.score, t.day)
  BY <1>2, <1>3, <1>4, <1>7, <1>8, SameRules DEF Ledger!Credit, row, streak, advanced, credited
<1>10. TypeOf(r) \in {TypeOf(q) : q \in Requests}
  OBVIOUS
<1> QED
  BY <1>2, <1>3, <1>4, <1>9, <1>10 DEF Ledger!Next

\* Every other step leaves the ledger alone.
LEMMA StepImplements ==
  ASSUME OneConversation, TypeOK, AwardsInv, EventsInv, BadgesInv, SerialInv, [Next]_vars
  PROVE  Ledger!Next \/ UNCHANGED Ledger!ledger
<1>1. CASE \E r \in Requests : CommitOutcome(r)
  BY <1>1, CommitIsCredit
<1>2. CASE ~\E r \in Requests : CommitOutcome(r)
  <2>1. UNCHANGED <<skillRows, gamification, awards, levelEvents, answerEvents, turnEvents>>
    BY <1>2 DEF Next, Step, Midnight, Crash, CheckDuplicate, Replay, JudgeAnswer, AnswerMessage,
       AgentFails, HoldConversation, RejectSkill, LookUpEvent, InsertEvent, DuplicateEvent,
       ReadSkillRow, NoSkillRow, LookForAdvancement, WriteSkillRow, ReadProfile, WriteProfile,
       GrantBadges, CommitTurn, RollBack, Moves, database, vars
  <2> QED
    BY <2>1 DEF Ledger!ledger
<1> QED
  BY <1>1, <1>2

\* The refinement: whatever overlaps, fails or is sent again, the messages of
\* one conversation credit each submission at most once, each in one indivisible
\* step on the rows as they are at that moment.
THEOREM ImplementsLedgerAlways ==
  ASSUME OneConversation
  PROVE  Spec => ImplementsLedger
<1>1. TypeOK /\ AwardsInv /\ EventsInv /\ BadgesInv /\ SerialInv /\ [Next]_vars
        => [Ledger!Next]_(Ledger!ledger)
  BY StepImplements
<1> QED
  BY <1>1, InitImplements, TypeCorrect, AwardsAlways, EventsAlways, BadgesAlways, SerialAlways,
     PTL DEF Spec, ImplementsLedger, Ledger!Spec

\* The XP of messages of one conversation: nothing is lost.
THEOREM XpIsEarnedByMessages ==
  ASSUME OneConversation
  PROVE  Spec => []XpIsEarned
<1>1. SerialInv => XpIsEarned
  BY DEF SerialInv
<1> QED
  BY <1>1, SerialAlways, PTL

-----------------------------------------------------------------------------
(* Outcomes of one skill, from exercises or messages.  The row of the skill *)
(* is taken before the gamification row is read, so a profile once read     *)
(* stays as it was read.                                                    *)

\* The skills whose rows the requests can write: an exercise writes that of its
\* activity, a message that of whichever skill the agent names.
ScoredSkills ==
  {k \in PlacedSkills : Exercises = Requests => \E r \in Requests : ActivityOf[r].skill = k}

OneSkill == \A k, other \in ScoredSkills : k = other

\* Stages of a request that holds its skill's row, and of one that knows it.
RowHeld == {"skillWritten", "profileRead", "profileWritten", "granted", "answering", "ready"}
SkillKnown == {"skillRead", "skillFolded"} \cup RowHeld

ProfileFits(r, t) ==
  /\ IsExercise(r) /\ t.stage = "judged" => t.skill = ActivityOf[r].skill
  /\ t.stage \in SkillKnown => t.skill \in ScoredSkills
  /\ t.stage \in RowHeld \ {"skillWritten"} => t.profile = gamification

RowExclusive ==
  \A r, other \in Requests :
    tx[r].stage \in RowHeld /\ tx[other].stage \in RowHeld => r = other

SkillInv == XpIsEarned /\ RowExclusive /\ \A r \in Requests : ProfileFits(r, tx[r])

\* A step that changes no table and takes no row.
LEMMA MoveSkill ==
  ASSUME TypeOK, SkillInv, NEW r \in Requests, NEW next, Moves(r, next), UNCHANGED history,
         ProfileFits(r, next),
         next.stage \in RowHeld => \A other \in Requests \ {r} : tx[other].stage \notin RowHeld
  PROVE  SkillInv'
<1>1. /\ tx'[r] = next
      /\ \A other \in Requests \ {r} : tx'[other] = tx[other]
      /\ UNCHANGED <<gamification, earned>>
  BY Moved DEF database, history
<1>2. RowExclusive'
  BY <1>1 DEF SkillInv, RowExclusive
<1>3. \A other \in Requests : ProfileFits(other, tx[other])'
  BY <1>1 DEF SkillInv, ProfileFits, IsExercise
<1> QED
  BY <1>1, <1>2, <1>3 DEF SkillInv, XpIsEarned

LEMMA EndSkill ==
  ASSUME TypeOK, SkillInv, NEW r \in Requests, NEW o \in Ended, RollBack(r, o)
  PROVE  SkillInv'
<1>1. Finished(o).stage = o /\ o \notin SkillKnown
  BY DEF Finished, Blank, Ended, SkillKnown, RowHeld
<1> QED
  BY <1>1, MoveSkill DEF RollBack, ProfileFits, SkillKnown, Ended

LEMMA StepSkill ==
  ASSUME OneSkill, TypeOK, StagesMatchKind, SkillInv, NEW r \in Requests, Step(r)
  PROVE  SkillInv'
<1>1. /\ tx[r] \in Transaction /\ ProfileFits(r, tx[r])
      /\ tx[r].stage \in RowHeld =>
           \A other \in Requests \ {r} : tx[other].stage \notin RowHeld
  BY DEF TypeOK, SkillInv, RowExclusive
<1> USE <1>1 DEF ProfileFits
<1>2. ASSUME CheckDuplicate(r) PROVE SkillInv'
  BY <1>2, MoveSkill DEF CheckDuplicate, Transaction, SkillKnown, RowHeld
<1>3. ASSUME JudgeAnswer(r) PROVE SkillInv'
  BY <1>3, MoveSkill DEF JudgeAnswer, Transaction, SkillKnown, RowHeld
<1>4. ASSUME AnswerMessage(r) PROVE SkillInv'
  BY <1>4, MoveSkill DEF AnswerMessage, Transaction, SkillKnown, RowHeld
<1>5. ASSUME HoldConversation(r) PROVE SkillInv'
  BY <1>5, MoveSkill DEF HoldConversation, Transaction, SkillKnown, RowHeld
<1>6. ASSUME LookUpEvent(r) PROVE SkillInv'
  <2>1. PICK stage \in {"ready", "answering", "skipped", "recording"} :
          /\ Moves(r, [tx[r] EXCEPT !.stage = stage])
          /\ IsExercise(r) <=> stage \in {"ready", "answering"}
    BY <1>6, Zenon DEF LookUpEvent
  <2>2. IsExercise(r) => tx[r].stage = "granted"
    BY <1>6 DEF LookUpEvent, StagesMatchKind
  <2> QED
    BY <1>6, <2>1, <2>2, MoveSkill DEF LookUpEvent, Transaction, SkillKnown, RowHeld
<1>7. ASSUME InsertEvent(r) PROVE SkillInv'
  <2>1. CASE IsExercise(r)
    <3>1. Moves(r, [tx[r] EXCEPT !.stage = "ready", !.created = TRUE])
      BY <1>7, <2>1 DEF InsertEvent
    <3>2. tx[r].stage = "answering"
      BY <1>7, <2>1 DEF InsertEvent, StagesMatchKind
    <3> QED
      BY <1>7, <3>1, <3>2, MoveSkill DEF InsertEvent, Transaction, SkillKnown, RowHeld
  <2>2. CASE ~IsExercise(r)
    BY <1>7, <2>2, MoveSkill DEF InsertEvent, Transaction, SkillKnown, RowHeld
  <2> QED
    BY <2>1, <2>2
<1>8. ASSUME ReadSkillRow(r) PROVE SkillInv'
  <2>1. PICK stage \in {"skillRead", "skillFolded"} :
          Moves(r, [tx[r] EXCEPT !.stage = stage, !.correct = IsCorrect(tx[r].score),
                                 !.read = skillRows[tx[r].skill]])
    BY <1>8, Zenon DEF ReadSkillRow
  <2>2. tx[r].skill \in ScoredSkills
    <3>1. IsExercise(r) => tx[r].skill = ActivityOf[r].skill
      BY <1>8 DEF ReadSkillRow, DueForProgression, StagesMatchKind
    <3>2. tx[r].skill \in PlacedSkills
      BY <1>8 DEF ReadSkillRow
    <3> QED
      BY <3>1, <3>2 DEF ScoredSkills, IsExercise
  <2> QED
    BY <1>8, <2>1, <2>2, MoveSkill DEF ReadSkillRow, Transaction, SkillKnown, RowHeld
<1>9. ASSUME LookForAdvancement(r) PROVE SkillInv'
  BY <1>9, MoveSkill DEF LookForAdvancement, Transaction, SkillKnown, RowHeld
<1>10. ASSUME WriteSkillRow(r) PROVE SkillInv'
  <2>1. ASSUME NEW other \in Requests \ {r}, tx[other].stage \in RowHeld PROVE FALSE
    <3>1. HoldsSkillRow(other)
      BY <2>1 DEF RowHeld, HoldsSkillRow, HoldsProfile, HoldsAwards
    <3>2. tx[other].skill \in ScoredSkills
      BY <2>1 DEF SkillInv, SkillKnown
    <3>3. tx[r].skill \in ScoredSkills
      BY <1>10 DEF WriteSkillRow, SkillKnown
    <3> QED
      BY <1>10, <3>1, <3>2, <3>3 DEF WriteSkillRow, SkillRowFree, OneSkill
  <2> QED
    BY <1>10, <2>1, MoveSkill DEF WriteSkillRow, Transaction, SkillKnown, RowHeld
<1>11. ASSUME ReadProfile(r) PROVE SkillInv'
  BY <1>11, MoveSkill DEF ReadProfile, Transaction, SkillKnown, RowHeld
<1>12. ASSUME WriteProfile(r) PROVE SkillInv'
  <2> DEFINE given == Catalog \cap
               EvaluateBadges(awards, tx[r].firstTurn, NewStreak(r), tx[r].firstLevel)
  <2>1. Moves(r, [tx[r] EXCEPT !.stage = "profileWritten", !.badges = given])
    BY <1>12 DEF WriteProfile
  <2> HIDE DEF given
  <2> QED
    BY <1>12, <2>1, MoveSkill DEF WriteProfile, Transaction, SkillKnown, RowHeld
<1>13. ASSUME GrantBadges(r) PROVE SkillInv'
  <2>1. ASSUME Moves(r, [tx[r] EXCEPT !.stage = "granted"]) PROVE SkillInv'
    BY <1>13, <2>1, MoveSkill DEF GrantBadges, Transaction, SkillKnown, RowHeld
  <2>2. ASSUME Moves(r, Finished("conflict")) PROVE SkillInv'
    BY <1>13, <2>2, EndSkill DEF GrantBadges, RollBack, Ended
  <2> QED
    BY <1>13, <2>1, <2>2 DEF GrantBadges
<1>14. ASSUME CommitOutcome(r) PROVE SkillInv'
  <2>1. tx[r].stage \in {"ready", "granted"} /\ tx[r].profile = gamification
    BY <1>14 DEF CommitOutcome, RowHeld
  <2>2. /\ tx'[r].stage = "committed"
        /\ \A other \in Requests \ {r} : tx'[other] = tx[other]
        /\ earned' = earned + XpAwarded(r)
        /\ gamification'.xp = gamification.xp + XpAwarded(r)
    BY <1>14, <2>1 DEF CommitOutcome, StoredProfile, TypeOK, Finished, Blank
  <2>3. \A other \in Requests : tx'[other].stage \notin RowHeld
    BY <2>1, <2>2 DEF RowHeld
  <2>4. \A other \in Requests : ProfileFits(other, tx[other])'
    BY <2>2, <2>3 DEF SkillInv, SkillKnown, RowHeld, IsExercise
  <2> QED
    BY <2>2, <2>3, <2>4 DEF SkillInv, RowExclusive, XpIsEarned
<1>15. ASSUME CommitTurn(r) PROVE SkillInv'
  <2>1. /\ tx'[r].stage = "committed"
        /\ \A other \in Requests \ {r} : tx'[other] = tx[other]
        /\ UNCHANGED <<gamification, earned>>
    BY <1>15 DEF CommitTurn, history, TypeOK, Finished, Blank
  <2>2. RowExclusive'
    BY <2>1 DEF SkillInv, RowExclusive, RowHeld
  <2>3. \A q \in Requests : ProfileFits(q, tx[q])'
    BY <2>1 DEF SkillInv, SkillKnown, RowHeld, IsExercise
  <2> QED
    BY <2>1, <2>2, <2>3 DEF SkillInv, XpIsEarned
<1>16. ASSUME Replay(r) \/ AgentFails(r) \/ RejectSkill(r) \/ DuplicateEvent(r) \/ NoSkillRow(r)
       PROVE  SkillInv'
  BY <1>16, EndSkill DEF Replay, AgentFails, RejectSkill, DuplicateEvent, NoSkillRow, Ended
<1> QED
  BY <1>2, <1>3, <1>4, <1>5, <1>6, <1>7, <1>8, <1>9, <1>10, <1>11, <1>12, <1>13, <1>14,
     <1>15, <1>16 DEF Step

\* Outcomes of one skill, whether exercises or messages earned them, never lose
\* XP: each reads the profile as the one before it committed it, since it waits
\* for the row of the skill first.
THEOREM XpIsEarnedAlways ==
  ASSUME OneSkill
  PROVE  Spec => []XpIsEarned
<1>1. Init => SkillInv
  <2> SUFFICES ASSUME Init PROVE SkillInv
    OBVIOUS
  <2>1. \A r \in Requests : tx[r].stage = "idle"
    BY DEF Init, Blank
  <2>2. XpIsEarned
    BY DEF Init, XpIsEarned, NewProfile
  <2> QED
    BY <2>1, <2>2 DEF SkillInv, RowExclusive, ProfileFits, SkillKnown, RowHeld
<1>2. TypeOK /\ AwardsInv /\ SkillInv /\ [Next]_vars => SkillInv'
  <2> SUFFICES ASSUME TypeOK, AwardsInv, SkillInv, [Next]_vars PROVE SkillInv'
    OBVIOUS
  <2>1. ASSUME NEW r \in Requests, Crash(r) PROVE SkillInv'
    BY <2>1, EndSkill DEF Crash, Ended
  <2>2. CASE Midnight \/ UNCHANGED vars
    <3>1. UNCHANGED <<tx, gamification, earned>>
      BY <2>2 DEF Midnight, vars, database, history
    <3> QED
      BY <3>1 DEF SkillInv, RowExclusive, XpIsEarned, ProfileFits, IsExercise
  <2> QED
    BY <2>1, <2>2, StepSkill DEF Next, AwardsInv
<1>3. SkillInv => XpIsEarned
  BY DEF SkillInv
<1> QED
  BY <1>1, <1>2, <1>3, TypeCorrect, AwardsAlways, PTL DEF Spec

-----------------------------------------------------------------------------
(* Nobody waits in a circle.  A request that waits for a row or a key is at*)
(* an earlier stage than the one that holds it, so the longest-running of  *)
(* any number of waiting requests waits for none of them.                  *)

\* Every nonempty set of natural numbers has a least one.
LEMMA LeastNumber ==
  ASSUME NEW S \in SUBSET Nat, S # {}
  PROVE  \E n \in S : \A m \in S : n <= m
<1> DEFINE Less == OpToRel(<, Nat)
<1>1. IsWellFoundedOn(Less, Nat)
  BY NatLessThanWellFounded
<1>2. \A m, n \in Nat : m < n => <<m, n>> \in Less
  BY DEF OpToRel
<1> HIDE DEF Less
<1>3. PICK n \in S : \A m \in S : ~(<<m, n>> \in Less)
  BY <1>1, WFMin
<1>4. \A m \in S : ~(m < n)
  BY <1>2, <1>3
<1> QED
  BY <1>4

\* A relation that a bounded rank ascends along has no cycle: every nonempty set
\* has a member that is related to no other.
LEMMA RankedHasNoCycle ==
  ASSUME NEW top \in Nat, NEW R, R # {}, NEW rank \in [R -> 0..top], NEW W,
         \A r, other \in R : <<r, other>> \in W => rank[r] < rank[other]
  PROVE  \E r \in R : \A other \in R : <<r, other>> \notin W
<1> DEFINE Below == {d \in 0..top : \E r \in R : rank[r] = top - d}
<1>1. Below \in SUBSET Nat
  OBVIOUS
<1>2. \A r \in R : top - rank[r] \in Below
  OBVIOUS
<1>3. Below # {}
  BY <1>2
<1> HIDE DEF Below
<1>4. PICK d \in Below : \A e \in Below : d <= e
  BY <1>1, <1>3, LeastNumber
<1>5. PICK r \in R : rank[r] = top - d
  BY <1>4 DEF Below
<1>6. d \in Nat
  BY <1>1, <1>4
<1>7. ASSUME NEW other \in R PROVE ~(rank[r] < rank[other])
  BY <1>2, <1>4, <1>5, <1>6
<1> QED
  BY <1>7

\* The request r cannot go on before other ends: it needs its conversation's
\* row, its submission's key, its skill's row, the gamification row or a badge.
WaitsFor(r, other) ==
  /\ other # r
  /\ \/ /\ \/ tx[r].stage = "judged" /\ ~IsExercise(r)
           \/ tx[r].stage \in {"chatted", "skipped"}
        /\ HoldsConversation(other) /\ ConversationOf[other] = ConversationOf[r]
     \/ /\ tx[r].stage \in {"recording", "answering"}
        /\ HoldsKey(other) /\ SubmissionOf[other] = SubmissionOf[r]
     \/ tx[r].stage = "skillFolded" /\ HoldsSkillRow(other) /\ tx[other].skill = tx[r].skill
     \/ tx[r].stage = "profileRead" /\ HoldsProfile(other)
     \/ /\ tx[r].stage = "profileWritten"
        /\ HoldsAwards(other) /\ tx[other].badges \cap tx[r].badges # {}

NoCircularWait ==
  \A R \in SUBSET Requests :
    R # {} => \E r \in R : \A other \in R : ~WaitsFor(r, other)

\* Guards and waiting are the same thing: who waits for nobody is free to go on.
LEMMA WaitingIsBlocked ==
  ASSUME NEW r \in Requests
  PROVE  (\A other \in Requests : ~WaitsFor(r, other))
           <=> /\ \/ tx[r].stage = "judged" /\ ~IsExercise(r)
                  \/ tx[r].stage \in {"chatted", "skipped"}
                  => ConversationFree(r)
               /\ tx[r].stage \in {"recording", "answering"} => KeyFree(r)
               /\ tx[r].stage = "skillFolded" => SkillRowFree(r)
               /\ tx[r].stage = "profileRead" => ProfileFree(r)
               /\ tx[r].stage = "profileWritten" => AwardsFree(r)
BY DEF WaitsFor, ConversationFree, KeyFree, SkillRowFree, ProfileFree, AwardsFree

\* The pages draw the identifier of a message and of an exercise separately
\* (crypto.randomUUID in learn/page.tsx and learn/conversation/page.tsx).
\* An exercise takes its skill's row before its key and a message after it: the
\* two would wait for each other if they carried the same identifier.
SubmissionsAreOfOneKind ==
  \A r, other \in Requests :
    SubmissionOf[r] = SubmissionOf[other] => (IsExercise(r) <=> IsExercise(other))

\* A message takes its conversation's row alone, an exercise its key last.
OrderInv ==
  \A r \in Requests :
    /\ tx[r].created => tx[r].stage \in IF IsExercise(r) THEN {"ready"} ELSE Applying
    /\ HoldsConversation(r) => ConversationFree(r)

LEMMA MoveOrder ==
  ASSUME TypeOK, OrderInv, NEW r \in Requests, NEW next, Moves(r, next),
         next.created => next.stage \in IF IsExercise(r) THEN {"ready"} ELSE Applying,
         \/ IsExercise(r) \/ HoldsConversation(r) \/ ConversationFree(r)
         \/ next.stage \in Ended \cup {"idle", "checked", "judged", "chatted"}
  PROVE  OrderInv'
<1>1. /\ tx'[r] = next
      /\ \A other \in Requests \ {r} : tx'[other] = tx[other]
  BY Moved
<1>2. \A other \in Requests \ {r} : HoldsConversation(other)' <=> HoldsConversation(other)
  BY <1>1 DEF HoldsConversation, Active, IsExercise
<1>3. HoldsConversation(r)' => ConversationFree(r)
  BY <1>1 DEF HoldsConversation, Active, IsExercise, OrderInv
<1>4. \A q \in Requests : HoldsConversation(q)' => ConversationFree(q)'
  BY <1>2, <1>3 DEF OrderInv, ConversationFree
<1>5. \A q \in Requests :
        tx'[q].created => tx'[q].stage \in IF IsExercise(q) THEN {"ready"} ELSE Applying
  BY <1>1 DEF OrderInv
<1> QED
  BY <1>4, <1>5 DEF OrderInv, IsExercise

LEMMA EndOrder ==
  ASSUME TypeOK, OrderInv, NEW r \in Requests,
         tx' = [tx EXCEPT ![r] = Finished(tx'[r].stage)],
         tx'[r].stage \in Ended
  PROVE  OrderInv'
<1>1. /\ tx'[r].created = FALSE
      /\ \A other \in Requests \ {r} : tx'[other] = tx[other]
  BY DEF TypeOK, Finished, Blank
<1>2. \A other \in Requests \ {r} : HoldsConversation(other)' <=> HoldsConversation(other)
  BY <1>1 DEF HoldsConversation, Active, IsExercise
<1>3. ~HoldsConversation(r)'
  BY DEF HoldsConversation, Active
<1> QED
  BY <1>1, <1>2, <1>3 DEF OrderInv, ConversationFree, IsExercise

LEMMA RollBackOrder ==
  ASSUME TypeOK, OrderInv, NEW r \in Requests, NEW o \in Ended, RollBack(r, o)
  PROVE  OrderInv'
<1>1. Finished(o).stage = o /\ Finished(o).created = FALSE
  BY DEF Finished, Blank
<1> QED
  BY <1>1, MoveOrder DEF RollBack

LEMMA StepOrder ==
  ASSUME TypeOK, StagesMatchKind, OrderInv, NEW r \in Requests, Step(r)
  PROVE  OrderInv'
<1>1. /\ tx[r] \in Transaction
      /\ tx[r].created => tx[r].stage \in IF IsExercise(r) THEN {"ready"} ELSE Applying
  BY DEF TypeOK, OrderInv
<1>2. \/ IsExercise(r) \/ HoldsConversation(r)
      \/ tx[r].stage \in Ended \cup {"idle", "checked", "judged", "chatted"}
  BY DEF HoldsConversation, Active
<1> USE <1>1, <1>2
<1>3. ASSUME CheckDuplicate(r) PROVE OrderInv'
  BY <1>3, MoveOrder DEF CheckDuplicate, Transaction, Applying
<1>4. ASSUME JudgeAnswer(r) PROVE OrderInv'
  BY <1>4, MoveOrder DEF JudgeAnswer, Transaction, Applying
<1>5. ASSUME AnswerMessage(r) PROVE OrderInv'
  BY <1>5, MoveOrder DEF AnswerMessage, Transaction, Applying
<1>6. ASSUME HoldConversation(r) PROVE OrderInv'
  BY <1>6, MoveOrder DEF HoldConversation, Transaction, Applying
<1>7. ASSUME LookUpEvent(r) PROVE OrderInv'
  <2>1. PICK stage \in {"ready", "answering", "skipped", "recording"} :
          Moves(r, [tx[r] EXCEPT !.stage = stage])
    BY <1>7, Zenon DEF LookUpEvent
  <2>2. ~tx[r].created /\ (IsExercise(r) \/ HoldsConversation(r))
    BY <1>7 DEF LookUpEvent, Applying, Ended
  <2> QED
    BY <2>1, <2>2, MoveOrder DEF Transaction
<1>8. ASSUME InsertEvent(r) PROVE OrderInv'
  <2>1. CASE IsExercise(r)
    BY <1>8, <2>1, MoveOrder DEF InsertEvent, Transaction
  <2>2. CASE ~IsExercise(r)
    <3>1. HoldsConversation(r)
      BY <1>8, <2>2 DEF InsertEvent, Ended
    <3> QED
      BY <1>8, <2>2, <3>1, MoveOrder DEF InsertEvent, Transaction, Applying
  <2> QED
    BY <2>1, <2>2
<1>9. ASSUME ReadSkillRow(r) PROVE OrderInv'
  <2>1. PICK stage \in {"skillRead", "skillFolded"} :
          Moves(r, [tx[r] EXCEPT !.stage = stage, !.correct = IsCorrect(tx[r].score),
                                 !.read = skillRows[tx[r].skill]])
    BY <1>9, Zenon DEF ReadSkillRow
  <2>2. IsExercise(r) \/ HoldsConversation(r)
    BY <1>9 DEF ReadSkillRow, DueForProgression, Ended
  <2>3. IsExercise(r) => ~tx[r].created
    BY <1>9 DEF ReadSkillRow, DueForProgression
  <2> QED
    BY <2>1, <2>2, <2>3, MoveOrder DEF Transaction, Applying
<1>10. ASSUME LookForAdvancement(r) PROVE OrderInv'
  BY <1>10, MoveOrder DEF LookForAdvancement, Transaction, Applying, Ended
<1>11. ASSUME WriteSkillRow(r) PROVE OrderInv'
  BY <1>11, MoveOrder DEF WriteSkillRow, Transaction, Applying, Ended
<1>12. ASSUME ReadProfile(r) PROVE OrderInv'
  BY <1>12, MoveOrder DEF ReadProfile, Transaction, Applying, Ended
<1>13. ASSUME WriteProfile(r) PROVE OrderInv'
  <2> DEFINE given == Catalog \cap
               EvaluateBadges(awards, tx[r].firstTurn, NewStreak(r), tx[r].firstLevel)
  <2>1. Moves(r, [tx[r] EXCEPT !.stage = "profileWritten", !.badges = given])
    BY <1>13 DEF WriteProfile
  <2> HIDE DEF given
  <2> QED
    BY <1>13, <2>1, MoveOrder DEF WriteProfile, Transaction, Applying, Ended
<1>14. ASSUME GrantBadges(r) PROVE OrderInv'
  <2>1. ASSUME Moves(r, [tx[r] EXCEPT !.stage = "granted"]) PROVE OrderInv'
    BY <1>14, <2>1, MoveOrder DEF GrantBadges, Transaction, Applying, Ended
  <2>2. ASSUME Moves(r, Finished("conflict")) PROVE OrderInv'
    BY <1>14, <2>2, RollBackOrder DEF GrantBadges, RollBack, Ended
  <2> QED
    BY <1>14, <2>1, <2>2 DEF GrantBadges
<1>15. ASSUME CommitOutcome(r) \/ CommitTurn(r) PROVE OrderInv'
  <2>1. tx' = [tx EXCEPT ![r] = Finished("committed")]
    BY <1>15 DEF CommitOutcome, CommitTurn
  <2>2. tx'[r].stage = "committed"
    BY <2>1 DEF TypeOK, Finished, Blank
  <2> QED
    BY <2>1, <2>2, EndOrder DEF Ended
<1>16. ASSUME Replay(r) \/ AgentFails(r) \/ RejectSkill(r) \/ DuplicateEvent(r) \/ NoSkillRow(r)
       PROVE  OrderInv'
  BY <1>16, RollBackOrder DEF Replay, AgentFails, RejectSkill, DuplicateEvent, NoSkillRow, Ended
<1> QED
  BY <1>3, <1>4, <1>5, <1>6, <1>7, <1>8, <1>9, <1>10, <1>11, <1>12, <1>13, <1>14, <1>15,
     <1>16 DEF Step

LEMMA OrderAlways == Spec => []OrderInv
<1>1. Init => OrderInv
  BY DEF Init, OrderInv, Blank, HoldsConversation, Active
<1>2. TypeOK /\ AwardsInv /\ OrderInv /\ [Next]_vars => OrderInv'
  <2> SUFFICES ASSUME TypeOK, AwardsInv, OrderInv, [Next]_vars PROVE OrderInv'
    OBVIOUS
  <2>1. ASSUME NEW r \in Requests, Crash(r) PROVE OrderInv'
    BY <2>1, RollBackOrder DEF Crash, Ended
  <2>2. CASE Midnight \/ UNCHANGED vars
    <3>1. tx' = tx
      BY <2>2 DEF Midnight, vars
    <3> QED
      BY <3>1 DEF OrderInv, HoldsConversation, ConversationFree, Active, IsExercise
  <2> QED
    BY <2>1, <2>2, StepOrder DEF Next, AwardsInv
<1> QED
  BY <1>1, <1>2, TypeCorrect, AwardsAlways, PTL DEF Spec

\* The stages that wait, in the order of what they wait for; the last rank is
\* that of the stages that do not.
Rank(r) ==
  CASE tx[r].stage \in {"judged", "chatted"} -> 0
    [] tx[r].stage = "recording"             -> 1
    [] tx[r].stage = "skillFolded"           -> 2
    [] tx[r].stage = "profileRead"           -> 3
    [] tx[r].stage = "profileWritten"        -> 4
    [] tx[r].stage = "answering"             -> 5
    [] OTHER                                 -> 6

LEMMA WaitsUpwards ==
  ASSUME SubmissionsAreOfOneKind, StagesMatchKind, OrderInv,
         NEW r \in Requests, NEW other \in Requests, WaitsFor(r, other)
  PROVE  Rank(r) < Rank(other)
<1>1. CASE /\ tx[r].stage \in {"judged", "chatted", "skipped"}
           /\ HoldsConversation(other) /\ ConversationOf[other] = ConversationOf[r]
  <2>1. ~HoldsConversation(r)
    BY <1>1 DEF WaitsFor, OrderInv, ConversationFree
  <2>2. tx[r].stage # "skipped"
    BY <2>1 DEF HoldsConversation, Active, Ended, StagesMatchKind
  <2>3. tx[other].stage \notin {"judged", "chatted"}
    BY <1>1 DEF HoldsConversation
  <2> QED
    BY <1>1, <2>2, <2>3 DEF Rank
<1>2. CASE /\ tx[r].stage \in {"recording", "answering"}
           /\ HoldsKey(other) /\ SubmissionOf[other] = SubmissionOf[r]
  <2>1. IsExercise(r) <=> IsExercise(other)
    BY <1>2 DEF SubmissionsAreOfOneKind
  <2>2. IsExercise(r) <=> tx[r].stage = "answering"
    BY <1>2 DEF StagesMatchKind
  <2>3. tx[other].stage \in IF IsExercise(other) THEN {"ready"} ELSE Applying
    BY <1>2 DEF OrderInv, HoldsKey
  <2> QED
    BY <1>2, <2>1, <2>2, <2>3 DEF Rank, Applying
<1>3. CASE tx[r].stage = "skillFolded" /\ HoldsSkillRow(other)
  BY <1>3 DEF HoldsSkillRow, HoldsProfile, HoldsAwards, Rank
<1>4. CASE tx[r].stage = "profileRead" /\ HoldsProfile(other)
  BY <1>4 DEF HoldsProfile, HoldsAwards, Rank
<1>5. CASE tx[r].stage = "profileWritten" /\ HoldsAwards(other)
  BY <1>5 DEF HoldsAwards, Rank
<1> QED
  BY <1>1, <1>2, <1>3, <1>4, <1>5 DEF WaitsFor

\* Any number of requests, exercises and messages mixed, never wait for each
\* other in a circle: Postgres never has to break a deadlock between them
\* (submit_answer, send_message and the services they call).
THEOREM NoCircularWaitAlways ==
  ASSUME SubmissionsAreOfOneKind
  PROVE  Spec => []NoCircularWait
<1>1. ASSUME StagesMatchKind, OrderInv PROVE NoCircularWait
  <2> SUFFICES ASSUME NEW R \in SUBSET Requests, R # {}
               PROVE  \E r \in R : \A other \in R : ~WaitsFor(r, other)
    BY DEF NoCircularWait
  <2> DEFINE rank == [r \in R |-> Rank(r)]
             W == {p \in R \X R : WaitsFor(p[1], p[2])}
  <2>1. rank \in [R -> 0..6]
    BY DEF Rank
  <2>2. \A r, other \in R : <<r, other>> \in W => rank[r] < rank[other]
    BY <1>1, WaitsUpwards
  <2>3. \A r, other \in R : WaitsFor(r, other) => <<r, other>> \in W
    OBVIOUS
  <2> HIDE DEF rank, W
  <2>4. PICK r \in R : \A other \in R : <<r, other>> \notin W
    <3>1. 6 \in Nat
      OBVIOUS
    <3> QED
      BY <2>1, <2>2, <3>1, RankedHasNoCycle, Zenon
  <2> QED
    BY <2>3, <2>4
<1>2. AwardsInv /\ OrderInv => NoCircularWait
  BY <1>1 DEF AwardsInv
<1> QED
  BY <1>2, AwardsAlways, OrderAlways, PTL

=============================================================================
