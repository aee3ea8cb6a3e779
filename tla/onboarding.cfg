SPECIFICATION FairOnboarding
CONSTANTS
  TurnsBeforeComplete = 3
  MaxSessions = 2
  MaxMishaps = 4
INVARIANTS OnboardingTypeOK OneSessionPerStudent PlacedByAnswers
PROPERTY GuidedToResult
CHECK_DEADLOCK FALSE
