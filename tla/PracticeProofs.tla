--------------------------- MODULE PracticeProofs ---------------------------
(***************************************************************************)
(* The seeds suffice for the selection, and the selection offers what the  *)
(* row calls for, for any number of seed scripts and pages, any levels and *)
(* any thresholds of the advancement rule; and the single row of           *)
(* SkillProfile says what its history says, under any such rule.           *)
(***************************************************************************)
EXTENDS Practice, SkillProfile, LevelAdvancementProofs

\* A script has added or found every path it has passed.
PassedPathsExist ==
  \A s \in Seeders : seeder[s].stage = "running" =>
    \A i \in DOMAIN SeedOrder : i < seeder[s].at =>
      paths[SeedOrder[i]] > 0 \/ SeedOrder[i] \in seeder[s].added

AllPathsStored == Seeded => \A pair \in Pairs : paths[pair] > 0

Inv == TypeOK /\ PassedPathsExist /\ AllPathsStored /\ FreshOffersFit

library == <<paths, seeder>>
learner == <<rows, page, faults, fresh>>

-----------------------------------------------------------------------------
(* The content.                                                            *)

LEMMA OrderedPairs == \A i \in DOMAIN SeedOrder : SeedOrder[i] \in Pairs
BY PracticeAssumption

LEMMA NoActivityIsNone == NoActivity \notin Activity
BY DEF NoActivity, Activity, Bands

\* A page that shows nothing, or an activity of a placed skill.
LEMMA ShownSkill ==
  ASSUME TypeOK, NEW p \in Pages, page[p].activity \in Activity
  PROVE  page[p].activity.skill \in DOMAIN rows
BY NoActivityIsNone DEF TypeOK

\* With its path stored, a skill has the activity of each band.
LEMMA BothBands ==
  ASSUME TypeOK, NEW k \in Practised, paths[<<k, rows[k].level>>] > 0,
         NEW band \in Bands
  PROVE  [skill |-> k, level |-> rows[k].level, band |-> band] \in Available(k)
<1>1. k \in Exercisable /\ rows[k].level \in Levels
  BY DEF TypeOK, Practised, SkillRow
<1> QED
  BY <1>1 DEF Available, Activity

\* The closest activity of a skill whose path is stored is in its target band.
LEMMA ClosestIsTarget ==
  ASSUME TypeOK, NEW k \in Practised, NEW a \in Closest(k)
  PROVE  a \in Activity /\ a.skill = k /\ a.level = rows[k].level
         /\ a.band = Target(rows[k].mastery)
<1> DEFINE target == Target(rows[k].mastery)
           best == [skill |-> k, level |-> rows[k].level, band |-> target]
<1>1. a \in Activity /\ a.skill = k /\ a.level = rows[k].level
      /\ paths[<<k, rows[k].level>>] > 0
  BY DEF Closest, Available
<1>2. target \in Bands /\ target \in Nat /\ a.band \in Nat
  BY <1>1 DEF Target, Bands, Activity
<1>3. best \in Available(k)
  BY <1>1, <1>2, BothBands
<1>4. Distance(a.band, target) <= Distance(best.band, target)
  BY <1>3 DEF Closest
<1>5. Distance(best.band, target) = 0
  BY <1>2 DEF Distance
<1>6. a.band = target
  BY <1>2, <1>4, <1>5 DEF Distance
<1> QED
  BY <1>1, <1>6

-----------------------------------------------------------------------------
LEMMA InitInv == Init => Inv
<1> SUFFICES ASSUME Init PROVE Inv
  OBVIOUS
<1>1. TypeOK
  <2>1. DOMAIN rows = {} /\ rows \in [DOMAIN rows -> SkillRow]
    BY DEF Init
  <2>2. page \in [Pages -> [stage : {"loading", "showing", "answered"},
                            activity : Activity \cup {NoActivity}, answers : Nat]]
    BY DEF Init, Opened
  <2>3. \A p \in Pages : page[p].activity = NoActivity
    BY DEF Init, Opened
  <2>4. faults \in 0..MaxFaults
    BY PracticeAssumption DEF Init
  <2>5. paths \in [Pairs -> Nat] /\ fresh \subseteq Pages
    BY DEF Init
  <2>6. seeder \in [Seeders -> [stage : {"running", "committed", "crashed"},
                                at : Nat \ {0}, added : SUBSET Pairs]]
    BY DEF Init
  <2> QED
    BY <2>1, <2>2, <2>3, <2>4, <2>5, <2>6 DEF TypeOK
<1>2. PassedPathsExist /\ AllPathsStored /\ FreshOffersFit
  BY PracticeAssumption DEF Init, PassedPathsExist, AllPathsStored, Seeded, FreshOffersFit
<1> QED
  BY <1>1, <1>2 DEF Inv

\* A step of a page or of the placement leaves the library alone.
LEMMA LibraryKept ==
  ASSUME Inv, UNCHANGED library
  PROVE  PassedPathsExist' /\ AllPathsStored'
BY DEF Inv, PassedPathsExist, AllPathsStored, Seeded, library

\* A script that crashes or goes on leaves the student alone.
LEMMA LearnerKept ==
  ASSUME Inv, UNCHANGED learner
  PROVE  FreshOffersFit'
BY DEF Inv, FreshOffersFit, learner

LEMMA SeedPathInv == ASSUME Inv, NEW s \in Seeders, SeedPath(s) PROVE Inv'
<1> DEFINE at == seeder[s].at
           pair == SeedOrder[at]
<1>1. at \in Nat \ {0} /\ at \in DOMAIN SeedOrder /\ pair \in Pairs
  BY OrderedPairs DEF Inv, TypeOK, SeedPath
<1>2. TypeOK'
  <2>1. seeder' \in [Seeders -> [stage : {"running", "committed", "crashed"},
                                 at : Nat \ {0}, added : SUBSET Pairs]]
    <3>1. seeder \in [Seeders -> [stage : {"running", "committed", "crashed"},
                                  at : Nat \ {0}, added : SUBSET Pairs]]
      BY DEF Inv, TypeOK
    <3>2. at + 1 \in Nat \ {0}
      BY <1>1
    <3>3. (IF paths[pair] = 0 THEN seeder[s].added \cup {pair} ELSE seeder[s].added)
            \in SUBSET Pairs
      BY <1>1, <3>1
    <3> QED
      BY <3>1, <3>2, <3>3 DEF SeedPath
  <2> QED
    BY <2>1 DEF Inv, TypeOK, SeedPath
<1>3. PassedPathsExist'
  <2> SUFFICES ASSUME NEW t \in Seeders, seeder'[t].stage = "running",
                      NEW i \in DOMAIN SeedOrder, i < seeder'[t].at
               PROVE  paths[SeedOrder[i]] > 0 \/ SeedOrder[i] \in seeder'[t].added
    BY DEF PassedPathsExist, SeedPath
  <2>1. CASE t # s
    BY <2>1 DEF Inv, TypeOK, PassedPathsExist, SeedPath
  <2>2. CASE t = s /\ i < at
    BY <2>2 DEF Inv, TypeOK, PassedPathsExist, SeedPath
  <2>3. CASE t = s /\ ~(i < at)
    <3>1. i \in Nat /\ seeder'[t].at = at + 1
      BY <2>3, PracticeAssumption DEF Inv, TypeOK, SeedPath
    <3>2. i = at
      BY <1>1, <2>3, <3>1
    <3>3. paths[pair] \in Nat
      BY <1>1 DEF Inv, TypeOK
    <3> QED
      BY <1>1, <2>3, <3>2, <3>3 DEF Inv, TypeOK, SeedPath
  <2> QED
    BY <2>1, <2>2, <2>3
<1>4. AllPathsStored'
  BY DEF Inv, TypeOK, AllPathsStored, Seeded, SeedPath
<1>5. FreshOffersFit'
  BY LearnerKept DEF SeedPath, learner
<1> QED
  BY <1>2, <1>3, <1>4, <1>5 DEF Inv

LEMMA SeedCommitInv == ASSUME Inv, NEW s \in Seeders, SeedCommit(s) PROVE Inv'
<1>1. TypeOK'
  BY DEF Inv, TypeOK, SeedCommit
<1>2. \A pair \in Pairs : /\ paths'[pair] >= paths[pair]
                          /\ pair \in seeder[s].added => paths'[pair] > 0
  BY DEF Inv, TypeOK, SeedCommit
<1>3. \A pair \in Pairs : paths[pair] \in Nat /\ paths'[pair] \in Nat
  BY <1>1 DEF Inv, TypeOK
<1>4. \A i \in DOMAIN SeedOrder : i < seeder[s].at
  <2>1. Len(SeedOrder) \in Nat /\ DOMAIN SeedOrder = 1..Len(SeedOrder)
    BY PracticeAssumption
  <2>2. seeder[s].at \in Nat \ {0} /\ seeder[s].at \notin DOMAIN SeedOrder
    BY DEF Inv, TypeOK, SeedCommit
  <2> QED
    BY <2>1, <2>2
<1>5. \A pair \in Pairs : paths'[pair] > 0
  <2> SUFFICES ASSUME NEW pair \in Pairs PROVE paths'[pair] > 0
    OBVIOUS
  <2>1. PICK i \in DOMAIN SeedOrder : SeedOrder[i] = pair
    BY PracticeAssumption
  <2>2. paths[pair] > 0 \/ pair \in seeder[s].added
    BY <1>4, <2>1 DEF Inv, PassedPathsExist, SeedCommit
  <2> QED
    BY <1>2, <1>3, <2>2
<1>6. PassedPathsExist' /\ AllPathsStored'
  BY <1>5, OrderedPairs DEF PassedPathsExist, AllPathsStored
<1>7. FreshOffersFit'
  BY LearnerKept DEF SeedCommit, learner
<1> QED
  BY <1>1, <1>6, <1>7 DEF Inv

LEMMA SeedCrashInv == ASSUME Inv, NEW s \in Seeders, SeedCrash(s) PROVE Inv'
<1>1. TypeOK'
  BY DEF Inv, TypeOK, SeedCrash
<1>2. PassedPathsExist' /\ AllPathsStored'
  BY DEF Inv, TypeOK, PassedPathsExist, AllPathsStored, Seeded, SeedCrash
<1>3. FreshOffersFit'
  BY LearnerKept DEF SeedCrash, learner
<1> QED
  BY <1>1, <1>2, <1>3 DEF Inv

LEMMA NewRowType == ASSUME NEW level \in Levels PROVE NewRow(level) \in SkillRow
BY RuleAssumption DEF NewRow, SkillRow, Windows

LEMMA PlaceInv == ASSUME Inv, Place PROVE Inv'
<1>1. PICK heard \in SUBSET (Skills \ {"reading", "writing"}) :
        \E level \in [{"reading", "writing"} \cup heard -> PlacementLevels] :
          rows' = [k \in {"reading", "writing"} \cup heard |-> NewRow(level[k])]
  BY DEF Place
<1>2. DOMAIN rows' \subseteq Skills /\ rows' \in [DOMAIN rows' -> SkillRow]
  BY <1>1, NewRowType, PracticeAssumption
<1>3. \A p \in Pages : page[p].activity \notin Activity
  BY ShownSkill DEF Place, Inv
<1>4. \A p \in Pages : page[p].activity = NoActivity
  BY <1>3 DEF Inv, TypeOK
<1>5. TypeOK'
  BY <1>2, <1>4 DEF Inv, TypeOK, Place
<1>6. fresh = {}
  BY <1>3 DEF Inv, TypeOK, FreshOffersFit
<1>7. FreshOffersFit'
  BY <1>6 DEF FreshOffersFit, Place
<1> QED
  BY <1>5, <1>7, LibraryKept DEF Inv, Place, library

LEMMA LoadOkInv == ASSUME Inv, NEW p \in Pages, LoadOk(p) PROVE Inv'
<1>1. PICK a \in Choices :
        page' = [page EXCEPT ![p] = [stage |-> "showing", activity |-> a, answers |-> 0]]
  BY DEF LoadOk
<1>2. PICK k \in Practised : a \in Closest(k)
  BY DEF Choices
<1>3. a \in Activity /\ a.skill = k /\ a.level = rows[k].level /\ a.band = Target(rows[k].mastery)
  BY <1>2, ClosestIsTarget DEF Inv
<1>4. k \in DOMAIN rows
  BY DEF Practised
<1>5. TypeOK'
  BY <1>1, <1>3, <1>4 DEF Inv, TypeOK, LoadOk
<1>6. FreshOffersFit'
  BY <1>1, <1>3 DEF Inv, TypeOK, FreshOffersFit, LoadOk
<1> QED
  BY <1>5, <1>6, LibraryKept DEF Inv, LoadOk, library

\* Steps that keep what the pages show.
LEMMA ShownKept ==
  ASSUME Inv, TypeOK', UNCHANGED <<library, rows>>, fresh' \subseteq fresh,
         \A q \in fresh' : page'[q].activity = page[q].activity
  PROVE  Inv'
<1>1. FreshOffersFit'
  BY DEF Inv, FreshOffersFit
<1> QED
  BY <1>1, LibraryKept DEF Inv

LEMMA KeepingInv ==
  ASSUME Inv, NEW p \in Pages,
         LoadNothing(p) \/ LoadFails(p) \/ AskNext(p) \/ Reload(p)
  PROVE  Inv'
<1>1. CASE LoadNothing(p)
  <2>1. TypeOK'
    BY <1>1 DEF Inv, TypeOK, LoadNothing, KeepShown
  <2>2. \A q \in fresh' : page'[q].activity = page[q].activity
    BY <1>1 DEF Inv, TypeOK, LoadNothing, KeepShown
  <2> QED
    BY <1>1, <2>1, <2>2, ShownKept DEF LoadNothing, library
<1>2. CASE LoadFails(p)
  <2>1. TypeOK'
    <3>1. faults' \in 0..MaxFaults
      BY <1>2, PracticeAssumption DEF Inv, TypeOK, LoadFails
    <3> QED
      BY <1>2, <3>1 DEF Inv, TypeOK, LoadFails, KeepShown
  <2>2. \A q \in fresh' : page'[q].activity = page[q].activity
    BY <1>2 DEF Inv, TypeOK, LoadFails, KeepShown
  <2> QED
    BY <1>2, <2>1, <2>2, ShownKept DEF LoadFails, library
<1>3. CASE AskNext(p)
  <2>1. TypeOK'
    BY <1>3 DEF Inv, TypeOK, AskNext
  <2>2. \A q \in fresh' : page'[q].activity = page[q].activity
    BY <1>3 DEF Inv, TypeOK, AskNext
  <2> QED
    BY <1>3, <2>1, <2>2, ShownKept DEF AskNext, library
<1>4. CASE Reload(p)
  <2>1. TypeOK'
    BY <1>4 DEF Inv, TypeOK, Reload, Opened
  <2>2. \A q \in fresh' : page'[q].activity = page[q].activity
    BY <1>4 DEF Inv, TypeOK, Reload
  <2> QED
    BY <1>4, <2>1, <2>2, ShownKept DEF Reload, library
<1> QED
  BY <1>1, <1>2, <1>3, <1>4

\* An answer changes one row and leaves no page fresh on it.
LEMMA CreditType ==
  ASSUME Inv, NEW p \in Pages, CanAnswer(p), NEW words \in Efforts, Credit(p, words)
  PROVE  /\ DOMAIN rows' = DOMAIN rows /\ rows' \in [DOMAIN rows' -> SkillRow]
         /\ fresh' \subseteq fresh
         /\ \A q \in fresh' : rows'[page[q].activity.skill] = rows[page[q].activity.skill]
<1> DEFINE a == page[p].activity
           correct == IsCorrect(LocalScore(words, a.band))
<1>1. a \in Activity /\ a.skill \in DOMAIN rows
  BY ShownSkill DEF Inv, TypeOK, CanAnswer
<1>2. rows[a.skill] \in SkillRow /\ correct \in BOOLEAN
  BY <1>1 DEF Inv, TypeOK, IsCorrect
<1>3. ApplyScoredActivity(rows[a.skill], correct) \in SkillRow
  BY <1>2, AppliedType
<1>4. rows' = [rows EXCEPT ![a.skill] = ApplyScoredActivity(rows[a.skill], correct)]
      /\ fresh' = {q \in fresh : page[q].activity.skill # a.skill}
  BY DEF Credit
<1>5. \A q \in fresh : page[q].activity.skill \in DOMAIN rows
  BY ShownSkill DEF Inv, TypeOK, FreshOffersFit
<1> QED
  BY <1>1, <1>3, <1>4, <1>5 DEF Inv, TypeOK

LEMMA AnswerInv ==
  ASSUME Inv, NEW p \in Pages, Answer(p) \/ AnswerUnheard(p) PROVE Inv'
<1>1. PICK words \in Efforts : Credit(p, words)
  BY DEF Answer, AnswerUnheard
<1>2. CanAnswer(p)
  BY DEF Answer, AnswerUnheard
<1>3. /\ DOMAIN rows' = DOMAIN rows /\ rows' \in [DOMAIN rows' -> SkillRow]
      /\ fresh' \subseteq fresh
      /\ \A q \in fresh' : rows'[page[q].activity.skill] = rows[page[q].activity.skill]
  BY <1>1, <1>2, CreditType
<1>4. faults' \in 0..MaxFaults
  BY PracticeAssumption DEF Inv, TypeOK, Answer, AnswerUnheard
<1>5. /\ page' \in [Pages -> [stage : {"loading", "showing", "answered"},
                              activity : Activity \cup {NoActivity}, answers : Nat]]
      /\ \A q \in Pages : page'[q].activity = page[q].activity
  <2>1. CASE Answer(p)
    BY <2>1 DEF Inv, TypeOK, Answer
  <2>2. CASE AnswerUnheard(p)
    BY <2>2 DEF Inv, TypeOK, AnswerUnheard
  <2> QED
    BY <2>1, <2>2
<1>6. UNCHANGED <<paths, seeder>>
  BY DEF Answer, AnswerUnheard
<1>7. TypeOK'
  BY <1>3, <1>4, <1>5, <1>6 DEF Inv, TypeOK
<1>8. FreshOffersFit'
  BY <1>3, <1>5 DEF Inv, TypeOK, FreshOffersFit
<1> QED
  BY <1>6, <1>7, <1>8, LibraryKept DEF Inv, library

-----------------------------------------------------------------------------
(* The theorems. *)

LEMMA NextInv == Inv /\ [Next]_vars => Inv'
<1> SUFFICES ASSUME Inv, [Next]_vars PROVE Inv'
  OBVIOUS
<1>1. ASSUME NEW s \in Seeders, SeedPath(s) \/ SeedCommit(s) \/ SeedCrash(s) PROVE Inv'
  BY <1>1, SeedPathInv, SeedCommitInv, SeedCrashInv
<1>2. CASE Place
  BY <1>2, PlaceInv
<1>3. ASSUME NEW p \in Pages, Work(p) \/ LoadFails(p) \/ AnswerUnheard(p) \/ Reload(p)
      PROVE  Inv'
  BY <1>3, LoadOkInv, KeepingInv, AnswerInv DEF Work
<1>4. CASE UNCHANGED vars
  BY <1>4 DEF Inv, TypeOK, PassedPathsExist, AllPathsStored, Seeded, FreshOffersFit, vars
<1> QED
  BY <1>1, <1>2, <1>3, <1>4 DEF Next

\* The inductive invariant: types, the paths every script has seen to, and what
\* the pages show.
THEOREM Invariance == Spec => []Inv
<1>1. Init => Inv
  BY InitInv
<1>2. Inv /\ [Next]_vars => Inv'
  BY NextInv
<1> QED
  BY <1>1, <1>2, PTL DEF Spec

\* Type correctness of the practice model.
THEOREM TypeCorrect == Spec => []TypeOK
<1>1. Inv => TypeOK
  BY DEF Inv
<1> QED
  BY <1>1, Invariance, PTL

\* However the scripts met and died, one that commits leaves content for every
\* level of every exercise skill.
THEOREM ContentForEveryoneAlways == Spec => []ContentForEveryone
<1>1. ASSUME Inv PROVE ContentForEveryone
  <2> SUFFICES ASSUME Seeded, NEW k \in Practised PROVE Closest(k) # {}
    BY DEF ContentForEveryone
  <2> DEFINE target == Target(rows[k].mastery)
             best == [skill |-> k, level |-> rows[k].level, band |-> target]
  <2>1. <<k, rows[k].level>> \in Pairs
    BY <1>1 DEF Inv, TypeOK, Practised, SkillRow, Pairs
  <2>2. target \in Bands /\ target \in Nat
    BY DEF Target, Bands
  <2>3. best \in Available(k)
    BY <1>1, <2>1, <2>2, BothBands DEF Inv, AllPathsStored
  <2>4. \A b \in Available(k) : Distance(best.band, target) <= Distance(b.band, target)
    BY <2>2 DEF Distance, Available, Activity, Bands
  <2> QED
    BY <2>3, <2>4 DEF Closest
<1> QED
  BY <1>1, Invariance, PTL

\* The pages offer what the row calls for.
THEOREM FreshOffersFitAlways == Spec => []FreshOffersFit
<1>1. Inv => FreshOffersFit
  BY DEF Inv
<1> QED
  BY <1>1, Invariance, PTL

-----------------------------------------------------------------------------
(* Levels are earned on the harder band.                                   *)

RowsAreSettled == \A k \in DOMAIN rows : SettledRow(rows[k])

LEMMA RowsAreSettledAlways == Spec => []RowsAreSettled
<1>1. Init => RowsAreSettled
  BY DEF Init, RowsAreSettled
<1>2. Inv /\ RowsAreSettled /\ [Next]_vars => RowsAreSettled'
  <2> SUFFICES ASSUME Inv, RowsAreSettled, [Next]_vars PROVE RowsAreSettled'
    OBVIOUS
  <2>1. CASE UNCHANGED rows
    BY <2>1 DEF RowsAreSettled
  <2>2. CASE Place
    <3>1. \A level : SettledRow(NewRow(level))
      BY EmptyNeverQualifies DEF SettledRow, NewRow, MasteryOf
    <3> QED
      BY <2>2, <3>1 DEF Place, RowsAreSettled
  <2>3. ASSUME NEW p \in Pages, CanAnswer(p), NEW words \in Efforts, Credit(p, words)
        PROVE  RowsAreSettled'
    <3> DEFINE a == page[p].activity
               folded == ApplyScoredActivity(rows[a.skill], IsCorrect(LocalScore(words, a.band)))
    <3>1. SettledRow(folded)
      BY AppliedSettled
    <3>2. rows' = [rows EXCEPT ![a.skill] = folded]
      BY <2>3 DEF Credit
    <3> HIDE DEF folded
    <3> QED
      BY <3>1, <3>2 DEF RowsAreSettled
  <2> QED
    BY <2>1, <2>2, <2>3 DEF Next, Work, SeedPath, SeedCommit, SeedCrash, LoadOk, LoadNothing,
       LoadFails, Answer, AnswerUnheard, AskNext, Reload, vars
<1> QED
  BY <1>1, <1>2, Invariance, PTL DEF Spec

\* An answer to an easy activity chosen on the row as it stands never advances
\* its skill, for every threshold above two thirds (the code's is 80): the easy
\* band is offered to a window less than half correct, which one more answer
\* leaves at two of three at best.
THEOREM EasyAnswersNeverAdvanceAlways ==
  ASSUME AdvancePercent > 66
  PROVE  Spec => EasyAnswersNeverAdvance
<1> DEFINE onHarder(p) ==
             page'[p].answers = page[p].answers + 1 /\ Advanced(page[p].activity.skill)
               => page[p].activity.band = 70
<1>1. ASSUME Inv, RowsAreSettled, Next, NEW p \in fresh PROVE onHarder(p)
  <2> SUFFICES ASSUME page'[p].answers = page[p].answers + 1,
                      Advanced(page[p].activity.skill)
               PROVE  page[p].activity.band = 70
    OBVIOUS
  <2> DEFINE a == page[p].activity
  <2>1. /\ p \in Pages /\ a \in Activity /\ a.band = Target(rows[a.skill].mastery)
        /\ a.skill \in DOMAIN rows /\ rows[a.skill] \in SkillRow
        /\ page[p].answers \in Nat
    BY <1>1, ShownSkill DEF Inv, TypeOK, FreshOffersFit
  <2>2. rows'[a.skill].level > rows[a.skill].level /\ rows[a.skill].level \in Nat
    BY <2>1, RuleAssumption DEF Advanced, SkillRow, Levels
  <2>3. rows' # rows
    BY <2>2
  <2>4. PICK q \in Pages : Answer(q) \/ AnswerUnheard(q)
    BY <1>1, <2>1, <2>3 DEF Next, Work, SeedPath, SeedCommit, SeedCrash, Place, LoadOk,
       LoadNothing, LoadFails, AskNext, Reload
  <2>5. q = p
    <3>1. \A other \in Pages \ {q} : page'[other] = page[other]
      BY <1>1, <2>4 DEF Answer, AnswerUnheard, Inv, TypeOK
    <3> QED
      BY <2>1, <3>1
  <2>6. PICK words \in Efforts : Credit(p, words)
    BY <2>4, <2>5 DEF Answer, AnswerUnheard
  <2> DEFINE correct == IsCorrect(LocalScore(words, a.band))
  <2>7. rows'[a.skill] = ApplyScoredActivity(rows[a.skill], correct)
    BY <2>1, <2>6 DEF Credit
  <2>8. correct \in BOOLEAN
    BY DEF IsCorrect
  <2> HIDE DEF correct
  <2>9. Advances(rows[a.skill], correct)
    BY <2>2, <2>7 DEF ApplyScoredActivity
  <2>10. ~(rows[a.skill].mastery < 50)
    BY <1>1, <2>1, <2>8, <2>9, LowMasteryNeverAdvances DEF RowsAreSettled, SettledRow
  <2> QED
    BY <2>1, <2>10 DEF Target
<1>2. Inv /\ RowsAreSettled /\ [Next]_vars => [\A p \in fresh : onHarder(p)]_vars
  BY <1>1
<1> QED
  BY <1>2, Invariance, RowsAreSettledAlways, PTL DEF Spec, EasyAnswersNeverAdvance

-----------------------------------------------------------------------------
(* The row of SkillProfile: what the rule keeps true of it, for every      *)
(* number of levels, window size, minimum and threshold.                   *)

\* The window of the row is the recent end of the history of its level.
WindowIsRecent ==
  /\ Len(row.window) = Minimum(Len(attempts), WindowMax)
  /\ EndsWith(attempts, row.window)

RowInv == RowTypeOK /\ Settled /\ WindowIsRecent

LEMMA RowInitInv == RowInit => RowInv
<1> SUFFICES ASSUME RowInit PROVE RowInv
  OBVIOUS
<1>1. row \in SkillRow /\ row.window = <<>> /\ row.mastery = 0
  <2>1. <<>> \in Windows
    BY RuleAssumption DEF Windows
  <2> QED
    BY <2>1 DEF RowInit, SkillRow
<1>2. RowTypeOK
  BY <1>1 DEF RowInit, RowTypeOK
<1>3. Settled
  BY <1>1, EmptyNeverQualifies DEF Settled, SettledRow, MasteryOf
<1>4. WindowIsRecent
  BY <1>1, RuleAssumption DEF RowInit, WindowIsRecent, EndsWith, Minimum
<1> QED
  BY <1>2, <1>3, <1>4 DEF RowInv

LEMMA ScoreActivityInv ==
  ASSUME RowInv, NEW score \in Scores, ScoreActivity(score)
  PROVE  RowInv'
<1> DEFINE correct == IsCorrect(score)
<1>1. row \in SkillRow /\ attempts \in Seq(BOOLEAN) /\ correct \in BOOLEAN
      /\ row.window \in Windows
  BY DEF RowInv, RowTypeOK, IsCorrect, SkillRow
<1>2. row' = ApplyScoredActivity(row, correct)
  BY DEF ScoreActivity
<1>3. row' \in SkillRow /\ Settled'
  BY <1>1, <1>2, AppliedType, AppliedSettled DEF Settled
<1>4. CASE Advances(row, correct)
  <2>1. row'.window = <<>> /\ attempts' = <<>>
    BY <1>2, <1>4 DEF ApplyScoredActivity, ScoreActivity
  <2>2. WindowIsRecent'
    BY <2>1, RuleAssumption DEF WindowIsRecent, EndsWith, Minimum
  <2> QED
    BY <1>3, <2>1, <2>2 DEF RowInv, RowTypeOK
<1>5. CASE ~Advances(row, correct)
  <2>1. row'.window = Slide(row.window, correct) /\ attempts' = Append(attempts, correct)
    BY <1>2, <1>5 DEF ApplyScoredActivity, ScoreActivity
  <2>2. attempts' \in Seq(BOOLEAN) /\ Len(attempts') = Len(attempts) + 1
    BY <1>1, <2>1, AppendProperties
  <2>3. WindowIsRecent'
    BY <1>1, <2>1, <2>2, SlideIsRecent DEF RowInv, WindowIsRecent
  <2> QED
    BY <1>3, <2>2, <2>3 DEF RowInv, RowTypeOK
<1> QED
  BY <1>4, <1>5

\* The inductive invariant of the row: its window is the recent end of the
\* history of its level, and the row is settled.
LEMMA RowInvAlways == RowSpec => []RowInv
<1>1. RowInv /\ [RowNext]_rowVars => RowInv'
  <2>1. ASSUME RowInv, UNCHANGED rowVars PROVE RowInv'
    BY <2>1 DEF RowInv, RowTypeOK, Settled, SettledRow, WindowIsRecent, EndsWith, rowVars
  <2> QED
    BY <2>1, ScoreActivityInv DEF RowNext
<1> QED
  BY <1>1, RowInitInv, PTL DEF RowSpec

\* The row and its history keep their types through every scored activity.
THEOREM RowTypeCorrect == RowSpec => []RowTypeOK
<1>1. RowInv => RowTypeOK
  BY DEF RowInv
<1> QED
  BY <1>1, RowInvAlways, PTL

\* The row is settled after every scored activity: its mastery is that of its
\* window, and no earned advance is ever left waiting (apply_scored_activity
\* evaluates the advance on every call).
THEOREM SettledAlways == RowSpec => []Settled
<1>1. RowInv => Settled
  BY DEF RowInv
<1> QED
  BY <1>1, RowInvAlways, PTL

\* The window kept in the row says of the last WindowMax attempts what the full
\* history says: how many there were and how many were correct.
THEOREM RebuildsFromHistoryAlways == RowSpec => []RebuildsFromHistory
<1>1. ASSUME RowInv PROVE RebuildsFromHistory
  <2>1. attempts \in Seq(BOOLEAN) /\ row.window \in Seq(BOOLEAN)
    BY <1>1 DEF RowInv, RowTypeOK, SkillRow, Windows
  <2>2. Len(row.window) = Minimum(Len(attempts), WindowMax) /\ EndsWith(attempts, row.window)
    BY <1>1 DEF RowInv, WindowIsRecent
  <2>3. {i \in DOMAIN attempts : attempts[i] /\ i > Len(attempts) - Len(row.window)}
          = {i \in DOMAIN attempts : attempts[i] /\ i > Len(attempts) - WindowMax}
    BY <2>1, <2>2, RuleAssumption DEF Minimum
  <2> QED
    BY <2>1, <2>2, <2>3, RecentCount DEF RebuildsFromHistory, CorrectAmongLast
<1> QED
  BY <1>1, RowInvAlways, PTL

\* The correct answers among an attempt and the n before it.
LEMMA OneMoreAttempt ==
  ASSUME attempts \in Seq(BOOLEAN), NEW correct \in BOOLEAN, NEW n \in Nat
  PROVE  Cardinality({i \in DOMAIN Append(attempts, correct) :
                        Append(attempts, correct)[i] /\ i > Len(attempts) - n})
           = CorrectAmongLast(n) + (IF correct THEN 1 ELSE 0)
<1> DEFINE last == Len(attempts) + 1
           longer == Append(attempts, correct)
           before == {i \in DOMAIN attempts : attempts[i] /\ i > Len(attempts) - n}
           all == {i \in DOMAIN longer : longer[i] /\ i > Len(attempts) - n}
<1>1. /\ Len(attempts) \in Nat /\ DOMAIN attempts = 1..Len(attempts)
      /\ DOMAIN longer = 1..last /\ longer[last] = correct
      /\ \A i \in 1..Len(attempts) : longer[i] = attempts[i]
  OBVIOUS
<1>2. IsFiniteSet(before) /\ Cardinality(before) \in Nat
  <2>1. IsFiniteSet(1..Len(attempts))
    BY <1>1, FS_Interval
  <2> QED
    BY <1>1, <2>1, FS_Subset, FS_CardinalityType
<1>3. last \notin before
  BY <1>1
<1>4. all = IF correct THEN before \cup {last} ELSE before
  BY <1>1
<1> HIDE DEF before, all
<1>5. Cardinality(all) = Cardinality(before) + (IF correct THEN 1 ELSE 0)
  <2>1. Cardinality(before \cup {last}) = Cardinality(before) + 1
    BY <1>2, <1>3, FS_AddElement
  <2> QED
    BY <1>2, <1>4, <2>1
<1> QED
  BY <1>5 DEF CorrectAmongLast, all, before

\* No level is lost, skipped or given away: an activity raises it by one, and
\* only when the last WindowMax attempts at the level, the activity included,
\* reach the minimum number and the required accuracy.
THEOREM LevelIsEarnedAlways == RowSpec => LevelIsEarned
<1> DEFINE considered == Minimum(Len(attempts) + 1, WindowMax)
           right(score) == CorrectAmongLast(considered - 1) + (IF IsCorrect(score) THEN 1 ELSE 0)
           earned(score) ==
             ScoreActivity(score) /\ row'.level # row.level =>
               /\ row'.level = row.level + 1
               /\ Len(attempts) + 1 >= MinActivities
               /\ 100 * right(score) >= AdvancePercent * considered
<1>1. ASSUME RowInv, NEW score \in Scores PROVE earned(score)
  <2> SUFFICES ASSUME ScoreActivity(score), row'.level # row.level
               PROVE  /\ row'.level = row.level + 1
                      /\ Len(attempts) + 1 >= MinActivities
                      /\ 100 * right(score) >= AdvancePercent * considered
    OBVIOUS
  <2> DEFINE correct == IsCorrect(score)
             slid == Slide(row.window, correct)
             longer == Append(attempts, correct)
  <2>1. row \in SkillRow /\ attempts \in Seq(BOOLEAN) /\ correct \in BOOLEAN
        /\ row.window \in Windows /\ WindowMax \in Nat \ {0} /\ MinActivities \in Nat
    BY <1>1, RuleAssumption DEF RowInv, RowTypeOK, IsCorrect, SkillRow
  <2>2. Advances(row, correct) /\ row'.level = row.level + 1
    BY <2>1 DEF ScoreActivity, ApplyScoredActivity
  <2>3. Len(slid) >= MinActivities /\ 100 * CorrectIn(slid) >= AdvancePercent * Len(slid)
    BY <2>2 DEF Advances, Qualifies
  <2>4. EndsWith(longer, slid) /\ Len(slid) = considered
    BY <1>1, <2>1, SlideIsRecent DEF RowInv, WindowIsRecent
  <2>5. longer \in Seq(BOOLEAN) /\ Len(longer) = Len(attempts) + 1 /\ slid \in Seq(BOOLEAN)
    BY <2>1, SlideType, AppendProperties DEF Windows
  <2>6. Len(attempts) \in Nat /\ considered \in Nat /\ considered > 0
        /\ considered <= Len(attempts) + 1
    BY <2>1 DEF Minimum
  <2> HIDE DEF considered
  <2>7. CorrectIn(slid) = Cardinality({i \in DOMAIN longer :
                                         longer[i] /\ i > Len(attempts) - (considered - 1)})
    <3>1. Len(longer) - Len(slid) = Len(attempts) - (considered - 1)
      BY <2>4, <2>5, <2>6
    <3> QED
      BY <2>4, <2>5, <3>1, RecentCount
  <2>8. CorrectIn(slid) = right(score)
    <3>1. considered - 1 \in Nat
      BY <2>6
    <3> QED
      BY <2>1, <2>7, <3>1, OneMoreAttempt
  <2> QED
    BY <2>1, <2>2, <2>3, <2>4, <2>6, <2>8
<1>2. RowInv /\ [RowNext]_rowVars => [\A score \in Scores : earned(score)]_rowVars
  BY <1>1
<1> QED
  BY <1>2, RowInvAlways, PTL DEF RowSpec, LevelIsEarned

=============================================================================
