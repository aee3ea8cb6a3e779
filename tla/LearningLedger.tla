--------------------------- MODULE LearningLedger ---------------------------
(***************************************************************************)
(* What the learning loop promises a student (data-model.md, LearningEvent *)
(* and its two projections): every submission is credited at most once,    *)
(* and crediting it is one indivisible step that folds one score into the  *)
(* skill's row, the XP, the streak and the badges as they are at that      *)
(* moment.  The calendar never runs backwards in the ledger.               *)
(***************************************************************************)
EXTENDS LevelAdvancementRule, GamificationRules

CONSTANTS
  Submissions, PlacedSkills, InitialRows, Scores, Catalog, MaxDay,
  Types       \* the types of the activities that may be credited

VARIABLES
  rows,       \* the row of each placed skill
  profile,    \* XP, streak and day of the last credit
  awards,     \* badges awarded
  advances,   \* number of level advancements
  credited    \* submissions credited

ledger == <<rows, profile, awards, advances, credited>>

Init ==
  /\ rows \in [PlacedSkills -> InitialRows]
  /\ profile = [xp |-> 0, streak |-> 0, lastDay |-> NoDay]
  /\ awards = {}
  /\ advances = 0
  /\ credited = {}

Credit(s, skill, type, score, day) ==
  LET correct  == IsCorrect(score)
      advanced == Advances(rows[skill], correct)
      streak   == UpdateStreak(profile.streak, profile.lastDay, day)
  IN /\ s \notin credited
     /\ day >= profile.lastDay
     /\ rows' = [rows EXCEPT ![skill] = ApplyScoredActivity(@, correct)]
     /\ profile' = [xp |-> profile.xp + CalculateXp(type, score),
                    streak |-> streak, lastDay |-> day]
     /\ awards' = awards \cup
          (Catalog \cap EvaluateBadges(awards, credited = {}, streak, advanced /\ advances = 0))
     /\ advances' = IF advanced THEN advances + 1 ELSE advances
     /\ credited' = credited \cup {s}

Next ==
  \E s \in Submissions, skill \in PlacedSkills, type \in Types,
     score \in Scores, day \in 1..MaxDay : Credit(s, skill, type, score, day)

Spec == Init /\ [][Next]_ledger

=============================================================================
