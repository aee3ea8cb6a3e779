---------------------------- MODULE SkillProfile ----------------------------
(***************************************************************************)
(* One learner_skill_profiles row under the rule of                        *)
(* level_advancement_rule.py, scored activities arriving one at a time.    *)
(* attempts is the full history of the current level, from which the row   *)
(* must be reproducible ("replayed through the documented rule", Scenario  *)
(* 5 of quickstart.md and data-model.md).                                  *)
(***************************************************************************)
EXTENDS LevelAdvancementRule

CONSTANTS
  Scores,         \* performance scores, in hundredths
  MaxAttempts     \* bound on the attempts tracked within one level

ASSUME ScoresAssumption == Scores \subseteq 0..100 /\ MaxAttempts \in Nat

VARIABLES
  row,            \* level, mastery and window
  attempts        \* history: the outcomes scored at the current level

rowVars == <<row, attempts>>

RowTypeOK == row \in SkillRow /\ attempts \in Seq(BOOLEAN)

\* A row as the placement leaves it, at any level.
RowInit ==
  /\ row \in [level : Levels, mastery : {0}, window : {<<>>}]
  /\ attempts = <<>>

ScoreActivity(score) ==
  LET correct == IsCorrect(score)
  IN /\ Len(attempts) < MaxAttempts
     /\ row' = ApplyScoredActivity(row, correct)
     /\ attempts' = IF Advances(row, correct) THEN <<>> ELSE Append(attempts, correct)

RowNext == \E score \in Scores : ScoreActivity(score)

RowSpec == RowInit /\ [][RowNext]_rowVars

-----------------------------------------------------------------------------
\* The rule never waits an activity too long: between two activities the row is
\* what SettledRow says.
Settled == SettledRow(row)

\* How many of the last n attempts were correct.
CorrectAmongLast(n) ==
  Cardinality({i \in DOMAIN attempts : attempts[i] /\ i > Len(attempts) - n})

\* The row can be rebuilt from the history of its level: as many entries as
\* attempts, up to WindowMax, and the same number of correct ones.
RebuildsFromHistory ==
  /\ Len(row.window) = Minimum(Len(attempts), WindowMax)
  /\ CorrectIn(row.window) = CorrectAmongLast(WindowMax)

\* A level is never lost and never skipped, and it rises only by an activity
\* that brings the last WindowMax attempts, itself included, to the required
\* accuracy.  The activity itself may have been answered wrongly.
LevelIsEarned ==
  [][\A score \in Scores :
       LET considered == Minimum(Len(attempts) + 1, WindowMax)
           right == CorrectAmongLast(considered - 1) + (IF IsCorrect(score) THEN 1 ELSE 0)
       IN ScoreActivity(score) /\ row'.level # row.level =>
            /\ row'.level = row.level + 1
            /\ Len(attempts) + 1 >= MinActivities
            /\ 100 * right >= AdvancePercent * considered]_rowVars

=============================================================================
