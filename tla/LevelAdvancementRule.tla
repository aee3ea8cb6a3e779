------------------------ MODULE LevelAdvancementRule ------------------------
(***************************************************************************)
(* progression/domain/level_advancement_rule.py: the pure rule that folds  *)
(* one scored activity into a learner's row for one skill.  A row is the   *)
(* part of LearnerSkillProfile the rule reads and writes.  A CEFR level is *)
(* its index in _LEVEL_ORDER, 0 for A1 up to TopLevel for C2.              *)
(***************************************************************************)
EXTENDS Rounding, Sequences, FiniteSets

CONSTANTS
  TopLevel,        \* index of the last level: 5 in the code
  WindowMax,       \* ACCURACY_WINDOW_MAX_SIZE: 10
  MinActivities,   \* MIN_ACTIVITIES_BEFORE_ADVANCE: 5
  AdvancePercent,  \* ADVANCEMENT_ACCURACY_THRESHOLD: 80
  CorrectPercent   \* CORRECT_SCORE_THRESHOLD: 60

\* One activity alone never advances a level (MinActivities is 5): an advance
\* therefore always empties a window that held something.
ASSUME RuleAssumption ==
  /\ TopLevel \in Nat
  /\ MinActivities \in Nat /\ MinActivities > 1
  /\ WindowMax \in Nat /\ WindowMax >= MinActivities
  /\ AdvancePercent \in 1..100
  /\ CorrectPercent \in 0..100

Levels == 0..TopLevel

\* accuracy_window without the entries' timestamps, oldest entry first.
Windows == {w \in Seq(BOOLEAN) : Len(w) <= WindowMax}

SkillRow == [level : Levels, mastery : 0..100, window : Windows]

IsCorrect(score) == score >= CorrectPercent

CorrectIn(window) == Cardinality({i \in DOMAIN window : window[i]})

\* round(accuracy * 100); _accuracy of an empty window is 0.0.
MasteryOf(window) ==
  IF window = <<>> THEN 0 ELSE RoundHalfEven(100 * CorrectIn(window), Len(window))

Minimum(m, n) == IF m < n THEN m ELSE n

\* Slide as it would be without its trim, or trimming the wrong end.
SlideUntrimmed(window, correct) == Append(window, correct)
SlideKeepingOldest(window, correct) ==
  SubSeq(Append(window, correct), 1, Minimum(Len(window) + 1, WindowMax))

\* The window with the new outcome, cut to its most recent WindowMax entries.
Slide(window, correct) ==
  LET grown == Append(window, correct)
  IN IF Len(grown) > WindowMax
     THEN SubSeq(grown, Len(grown) - WindowMax + 1, Len(grown))
     ELSE grown

\* Qualifies without its minimum number of activities.
QualifiesAtOnce(window) == 100 * CorrectIn(window) >= AdvancePercent * Len(window)

Qualifies(window) ==
  /\ Len(window) >= MinActivities
  /\ 100 * CorrectIn(window) >= AdvancePercent * Len(window)

\* Advances judged on the window before the new outcome enters it.
AdvancesBeforeFolding(row, correct) == Qualifies(row.window) /\ row.level < TopLevel

\* next_level(level) is None only at the ceiling.
Advances(row, correct) ==
  Qualifies(Slide(row.window, correct)) /\ row.level < TopLevel

ApplyScoredActivity(row, correct) ==
  IF Advances(row, correct)
  THEN [level |-> row.level + 1, mastery |-> 0, window |-> <<>>]
  ELSE LET window == Slide(row.window, correct)
       IN [level |-> row.level, mastery |-> MasteryOf(window), window |-> window]

\* What a row is at rest: its mastery is the accuracy of its window, and no
\* level below the ceiling sits on a window that has earned an advance.
SettledRow(row) ==
  /\ row.mastery = MasteryOf(row.window)
  /\ ~(Qualifies(row.window) /\ row.level < TopLevel)

=============================================================================
