------------------------- MODULE GamificationRules -------------------------
(***************************************************************************)
(* gamification/domain: the three pure rules applied to every scored       *)
(* outcome.  Scores are in hundredths, days are numbered in the learner's  *)
(* own time zone.                                                          *)
(***************************************************************************)
EXTENDS Rounding

CONSTANTS StreakThreshold   \* STREAK_BADGE_THRESHOLD: 7

ASSUME StreakAssumption == StreakThreshold \in Nat /\ StreakThreshold > 0

ActivityTypes ==
  {"conversation_prompt", "writing_exercise", "speaking_exercise", "listening_exercise"}

BaseXp ==
  [t \in ActivityTypes |-> CASE t = "conversation_prompt" -> 5
                             [] t = "listening_exercise"  -> 8
                             [] OTHER                     -> 10]

ScoreFloor == 25

CalculateXp(type, score) ==
  RoundHalfEven(BaseXp[type] * (IF score < ScoreFloor THEN ScoreFloor ELSE score), 100)

\* streak_last_activity_date IS NULL.
NoDay == 0

\* The same day keeps the count, the next day extends it; no earlier activity,
\* a longer gap and a day before the last one all start again at 1.
UpdateStreak(streak, lastDay, today) ==
  IF lastDay = today THEN streak
  ELSE IF lastDay # NoDay /\ lastDay = today - 1 THEN streak + 1
  ELSE 1

FirstConversation == "first_conversation_completed"
StreakDays        == "streak_7_days"
FirstLevel        == "first_level_advanced"

Badges == {FirstConversation, StreakDays, FirstLevel}

EvaluateBadges(held, firstTurn, streak, firstLevel) ==
  {badge \in Badges \ held :
     \/ badge = FirstConversation /\ firstTurn
     \/ badge = StreakDays /\ streak >= StreakThreshold
     \/ badge = FirstLevel /\ firstLevel}

=============================================================================
