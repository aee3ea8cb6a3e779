SPECIFICATION Spec
CONSTANTS
  Ana = Ana
  Bia = Bia
  AnaTab = AnaTab
  AnaTab2 = AnaTab2
  BiaTab = BiaTab
  Students = {Ana, Bia}
  Tabs = {AnaTab, AnaTab2, BiaTab}
  OwnerOf <- MCOwnerOf
  Skills = {reading, writing}
  NoSkill = conversation
  MaxSessions = 3
  MaxTurns = 3
INVARIANTS SecondSessionsAreRaces UnplacedNeverConverse EveryTurnIsScored
CHECK_DEADLOCK FALSE
