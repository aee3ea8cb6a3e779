------------------------------ MODULE Practice ------------------------------
(***************************************************************************)
(* Exercises from their seeds to the learner's rows: the scripts that seed *)
(* learning paths and activities (learning_content/infrastructure/seed.py),*)
(* the choice of the next activity (activity_selection_service.py), the    *)
(* offline agent's judgement of an answer (local_model_adapter.evaluate),  *)
(* the fold of the outcome into the learner's row, and the practice pages  *)
(* one student has open (learn/page.tsx), whose calls may fail or be       *)
(* answered without the page hearing of it.                                *)
(*                                                                         *)
(* Answers are handled one at a time here; LearningLoop interleaves them.  *)
(***************************************************************************)
EXTENDS LevelAdvancementRule, Naturals

CONSTANTS
  Seeders,         \* runs of the seed script
  SeedOrder,       \* the (skill, level) pairs in the order the script visits them
  Pages,           \* practice pages, each in a tab of its own
  Skills,          \* the Skill enum
  ExerciseSkills,  \* _EXERCISE_SKILLS, in the order of their names
  PlacementLevels, \* levels the placement may find
  Efforts,         \* words the student may write in an answer
  MaxFaults        \* bound on the calls of the pages that fail or go unheard

Exercisable == {ExerciseSkills[i] : i \in DOMAIN ExerciseSkills}

Pairs == Exercisable \X Levels

ASSUME PracticeAssumption ==
  /\ ExerciseSkills \in Seq(Skills)
  /\ SeedOrder \in Seq(Pairs)
  /\ \A pair \in Pairs : \E i \in DOMAIN SeedOrder : SeedOrder[i] = pair
  /\ PlacementLevels \subseteq Levels
  /\ {"reading", "writing"} \subseteq Skills
  /\ Efforts \subseteq Nat
  /\ MaxFaults \in Nat

\* _DIFFICULTY_BANDS of the seeds.
Bands == {30, 70}

\* Copies of an activity differ in nothing the student or the rules can tell.
Activity == [skill : Exercisable, level : Levels, band : Bands]

NoActivity == [skill |-> "none", level |-> 0, band |-> 0]

VARIABLES
  paths,     \* learning_paths committed for each pair, with their activities
  seeder,    \* each run of the script
  rows,      \* the student's learner_skill_profiles, by skill
  page,      \* what each practice page shows
  faults,
  \* history, never read by the program
  fresh      \* pages whose activity was chosen on its skill's row as it stands

vars == <<paths, seeder, rows, page, faults, fresh>>

NewRow(level) == [level |-> level, mastery |-> 0, window |-> <<>>]

TypeOK ==
  /\ paths \in [Pairs -> Nat]
  /\ seeder \in [Seeders -> [stage : {"running", "committed", "crashed"}, at : Nat \ {0},
                             added : SUBSET Pairs]]
  /\ DOMAIN rows \subseteq Skills
  /\ rows \in [DOMAIN rows -> SkillRow]
  /\ page \in [Pages -> [stage : {"loading", "showing", "answered"},
                         activity : Activity \cup {NoActivity}, answers : Nat]]
  /\ \A p \in Pages : page[p].activity # NoActivity => page[p].activity.skill \in DOMAIN rows
  /\ faults \in 0..MaxFaults
  /\ fresh \subseteq Pages

Opened == [stage |-> "loading", activity |-> NoActivity, answers |-> 0]

Init ==
  /\ paths = [pair \in Pairs |-> 0]
  /\ seeder = [s \in Seeders |-> [stage |-> "running", at |-> 1, added |-> {}]]
  /\ rows = [k \in {} |-> NewRow(0)]
  /\ page = [p \in Pages |-> Opened]
  /\ faults = 0
  /\ fresh = {}

-----------------------------------------------------------------------------
(* The seeds: every path missing is added, all in one transaction.  No     *)
(* constraint keeps two scripts from adding the same path.                 *)

\* SeedPath that looks for a path of the skill and forgets the level.
SeedPathOfSkill(s) ==
  LET at == seeder[s].at
      pair == SeedOrder[at]
      known == {q \in Pairs : paths[q] > 0} \cup seeder[s].added
  IN /\ seeder[s].stage = "running" /\ at \in DOMAIN SeedOrder
     /\ seeder' = [seeder EXCEPT
          ![s].at = at + 1,
          ![s].added = IF \E q \in known : q[1] = pair[1] THEN @ ELSE @ \cup {pair}]
     /\ UNCHANGED <<paths, rows, page, faults, fresh>>

SeedPath(s) ==
  LET at == seeder[s].at
      pair == SeedOrder[at]
  IN /\ seeder[s].stage = "running" /\ at \in DOMAIN SeedOrder
     /\ seeder' = [seeder EXCEPT ![s].at = at + 1,
                                 ![s].added = IF paths[pair] = 0 THEN @ \cup {pair} ELSE @]
     /\ UNCHANGED <<paths, rows, page, faults, fresh>>

SeedCommit(s) ==
  /\ seeder[s].stage = "running" /\ seeder[s].at \notin DOMAIN SeedOrder
  /\ seeder' = [seeder EXCEPT ![s].stage = "committed"]
  /\ paths' = [pair \in Pairs |->
                 IF pair \in seeder[s].added THEN paths[pair] + 1 ELSE paths[pair]]
  /\ UNCHANGED <<rows, page, faults, fresh>>

\* Nothing of a script that dies is stored.
SeedCrash(s) ==
  /\ seeder[s].stage = "running"
  /\ seeder' = [seeder EXCEPT ![s].stage = "crashed"]
  /\ UNCHANGED <<paths, rows, page, faults, fresh>>

\* The placement gives a row to reading, writing and the skills it heard.
Place ==
  /\ DOMAIN rows = {}
  /\ \E heard \in SUBSET (Skills \ {"reading", "writing"}) :
     \E level \in [{"reading", "writing"} \cup heard -> PlacementLevels] :
       rows' = [k \in {"reading", "writing"} \cup heard |-> NewRow(level[k])]
  /\ UNCHANGED <<paths, seeder, page, faults, fresh>>

-----------------------------------------------------------------------------
(* The next activity. *)

Practised == DOMAIN rows \cap Exercisable

Before(j, k) ==
  \E m, n \in DOMAIN ExerciseSkills : ExerciseSkills[m] = j /\ ExerciseSkills[n] = k /\ m < n

\* The lowest mastery; the first name among equals.
IsWeakest(k) ==
  /\ k \in Practised
  /\ \A j \in Practised :
       \/ rows[k].mastery < rows[j].mastery
       \/ rows[k].mastery = rows[j].mastery /\ ~Before(j, k)

\* Target with the two bands exchanged.
TargetReversed(mastery) == IF mastery < 50 THEN 70 ELSE 30

Target(mastery) == IF mastery < 50 THEN 30 ELSE 70

Distance(m, n) == IF m < n THEN n - m ELSE m - n

\* Available when the level of the row is not looked at.
AvailableAtAnyLevel(k) ==
  {a \in Activity : a.skill = k /\ paths[<<a.skill, a.level>>] > 0}

\* The activities of the skill at the row's level.
Available(k) ==
  {a \in Activity : a.skill = k /\ a.level = rows[k].level /\ paths[<<a.skill, a.level>>] > 0}

Closest(k) ==
  {a \in Available(k) : \A b \in Available(k) :
     Distance(a.band, Target(rows[k].mastery)) <= Distance(b.band, Target(rows[k].mastery))}

\* What select_next_activity may answer; nothing is its 404.
Choices == UNION {Closest(k) : k \in {j \in Practised : IsWeakest(j)}}

-----------------------------------------------------------------------------
(* The judgement of an answer by the offline agent. *)

\* rubric.expected_min_words of a seeded activity.
ExpectedWords(band) == IF band >= 50 THEN 20 ELSE 10

\* Words written over words expected, in hundredths, at most 100.
LocalScore(words, band) ==
  LET ratio == (100 * words) \div ExpectedWords(band)
  IN IF ratio > 100 THEN 100 ELSE ratio

-----------------------------------------------------------------------------
(* The practice pages. *)

\* The activity arrives and replaces the one shown.
LoadOk(p) ==
  /\ page[p].stage = "loading"
  /\ \E a \in Choices :
       page' = [page EXCEPT ![p] = [stage |-> "showing", activity |-> a, answers |-> 0]]
  /\ fresh' = fresh \cup {p}
  /\ UNCHANGED <<paths, seeder, rows, faults>>

\* An error leaves the activity shown before, with its form open again.
KeepShown(p) == page' = [page EXCEPT ![p].stage = "showing"]

LoadNothing(p) ==
  /\ page[p].stage = "loading"
  /\ Choices = {}
  /\ KeepShown(p)
  /\ UNCHANGED <<paths, seeder, rows, faults, fresh>>

LoadFails(p) ==
  /\ page[p].stage = "loading" /\ faults < MaxFaults
  /\ KeepShown(p)
  /\ faults' = faults + 1
  /\ UNCHANGED <<paths, seeder, rows, fresh>>

CanAnswer(p) == page[p].stage = "showing" /\ page[p].activity # NoActivity

\* The server's part of an answer, under an identifier of its own; every page
\* showing an activity of the skill now shows one chosen on an older row.
Credit(p, words) ==
  LET a == page[p].activity
      correct == IsCorrect(LocalScore(words, a.band))
  IN /\ rows' = [rows EXCEPT ![a.skill] = ApplyScoredActivity(@, correct)]
     /\ fresh' = {q \in fresh : page[q].activity.skill # a.skill}

Answer(p) ==
  /\ CanAnswer(p)
  /\ \E words \in Efforts : Credit(p, words)
  /\ page' = [page EXCEPT ![p].stage = "answered", ![p].answers = @ + 1]
  /\ UNCHANGED <<paths, seeder, faults>>

\* Counted, but the page shows an error and its form again.
AnswerUnheard(p) ==
  /\ CanAnswer(p) /\ faults < MaxFaults
  /\ \E words \in Efforts : Credit(p, words)
  /\ page' = [page EXCEPT ![p].answers = @ + 1]
  /\ faults' = faults + 1
  /\ UNCHANGED <<paths, seeder>>

\* The button for the next activity; result is cleared before the call.
AskNext(p) ==
  /\ page[p].stage = "answered"
  /\ page' = [page EXCEPT ![p].stage = "loading"]
  /\ UNCHANGED <<paths, seeder, rows, faults, fresh>>

\* The page is opened anew.
Reload(p) ==
  /\ page[p].stage # "loading"
  /\ page' = [page EXCEPT ![p] = Opened]
  /\ fresh' = fresh \ {p}
  /\ UNCHANGED <<paths, seeder, rows, faults>>

Work(p) == LoadOk(p) \/ LoadNothing(p) \/ Answer(p) \/ AskNext(p)

Next ==
  \/ \E s \in Seeders : SeedPath(s) \/ SeedCommit(s) \/ SeedCrash(s)
  \/ Place
  \/ \E p \in Pages : Work(p) \/ LoadFails(p) \/ AnswerUnheard(p) \/ Reload(p)

Spec == Init /\ [][Next]_vars

-----------------------------------------------------------------------------
(* Properties. *)

Seeded == \E s \in Seeders : seeder[s].stage = "committed"

\* seed.py leaves "real content to select from at any cefr_level/mastery_score
\* combination": however many scripts ran, met or died, once one of them has
\* committed there is an activity to offer whichever exercise skill of the
\* student is the weakest, at whatever level.
ContentForEveryone == Seeded => \A k \in Practised : Closest(k) # {}

\* An activity chosen on its skill's row as it stands is of the row's level and
\* of the band its mastery calls for, whatever paths were stored twice.
FreshOffersFit ==
  \A p \in fresh :
    LET a == page[p].activity
    IN /\ a \in Activity
       /\ a.level = rows[a.skill].level
       /\ a.band = Target(rows[a.skill].mastery)

\* A level is earned on the harder band: an answer to an easy activity chosen
\* on the row as it stands never advances its skill.
Advanced(k) == k \in DOMAIN rows /\ rows'[k].level > rows[k].level

EasyAnswersNeverAdvance ==
  [][\A p \in fresh : page'[p].answers = page[p].answers + 1 /\ Advanced(page[p].activity.skill)
       => page[p].activity.band = 70]_vars

=============================================================================
