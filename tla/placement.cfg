CONSTANTS
  r1 = r1  r2 = r2  r3 = r3  r4 = r4
  s1 = s1  s2 = s2  s3 = s3
  p1 = p1  p2 = p2
  Requests = {r1, r2, r3, r4}
  Submissions = {s1, s2, s3}
  SubmissionOf <- MCSubmissionOf
  Sessions = {p1, p2}
  SessionOf <- MCSessionOf
  SkillOrder <- MCSkillOrder
  Required <- MCRequired
  Signals <- MCSignals
SPECIFICATION FairSpec
INVARIANTS TypeOK CompletedOnce ResultsAreSeeded GamificationNeverCollides
PROPERTY SeedsAndResultsStay
CHECK_DEADLOCK FALSE
PROPERTY EveryAnswerEnds
