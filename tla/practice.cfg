SPECIFICATION Spec
CONSTANTS
  TopLevel = 1
  WindowMax = 3
  MinActivities = 2
  AdvancePercent = 80
  CorrectPercent = 60
  d1 = d1
  d2 = d2
  p1 = p1
  p2 = p2
  Seeders = {d1, d2}
  Pages = {p1, p2}
  Skills <- MCSkills
  ExerciseSkills <- MCTwoSkills
  SeedOrder <- MCSeedOrder
  PlacementLevels = {0}
  Efforts = {10, 20}
  MaxFaults = 1
SYMMETRY MCSymmetry
INVARIANTS ContentForEveryone FreshOffersFit
 
