CONSTANTS
  r1 = r1  r2 = r2  r3 = r3  r4 = r4
  s1 = s1  s2 = s2  s3 = s3
  c1 = c1  c2 = c2
  NotASkill = NotASkill
  Requests = {r1, r2, r3}
  Submissions = {s1, s2}
  SubmissionOf <- MCDoubleSend
  Exercises = {}
  ActivityOf <- MCOneSkill
  Conversations = {c1, c2}
  ConversationOf <- MCOneSession
  Skills <- MCSkills
  PlacedSkills = {"writing"}
  InitialRows <- MCRows
  Scores = {40, 85}
  Catalog = {"first_conversation_completed", "streak_7_days", "first_level_advanced"}
  MaxDay = 2
  TopLevel = 1
  WindowMax = 3
  MinActivities = 2
  AdvancePercent = 80
  CorrectPercent = 60
  StreakThreshold = 2
SPECIFICATION Spec
CHECK_DEADLOCK FALSE
PROPERTY ImplementsLedger
