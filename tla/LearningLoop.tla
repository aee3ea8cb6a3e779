---------------------------- MODULE LearningLoop ----------------------------
(***************************************************************************)
(* The learning loop of one student: the concurrent HTTP requests that     *)
(* answer an exercise (activity_answer_service.submit_answer) or send a    *)
(* conversation message (conversation_service.send_message), each in one   *)
(* database transaction, down to the rows they read, lock and write.       *)
(*                                                                         *)
(* The database is Postgres at READ COMMITTED.  A SELECT sees what is      *)
(* committed; an UPDATE, which SQLAlchemy's autoflush emits before the     *)
(* next SELECT, holds its row until the transaction ends and waits while   *)
(* another one holds it; an INSERT of a unique key waits for an in-flight  *)
(* INSERT of that key and fails if the key is committed.  An UPDATE        *)
(* carries absolute values computed from the row as it was read, and only  *)
(* the columns whose value differs from it.                                *)
(*                                                                         *)
(* No row is shared between students, so one student is enough.            *)
(***************************************************************************)
EXTENDS LevelAdvancementRule, GamificationRules

CONSTANTS
  Requests,        \* HTTP requests, the duplicates and retries included
  Submissions,     \* client_submission_id values
  SubmissionOf,    \* the submission a request carries
  Exercises,       \* the requests to /activities/{id}/answers
  ActivityOf,      \* the skill and type of the activity they answer
  Conversations,   \* the student's conversation sessions
  ConversationOf,  \* the session each other request sends its message to
  PlacedSkills,    \* the skills the placement made a LearnerSkillProfile for
  InitialRows,     \* what those rows may hold when the behaviour starts
  Skills,          \* the Skill enum
  NotASkill,       \* a skill name of the agent outside the enum
  Scores,          \* performance scores, in hundredths
  Catalog,         \* the codes of the seeded badges
  MaxDay           \* bound on the calendar

ASSUME LoopAssumption ==
  /\ SubmissionOf \in [Requests -> Submissions]
  /\ Exercises \subseteq Requests
  /\ ActivityOf \in [Exercises -> [skill : Skills, type : ActivityTypes]]
  /\ ConversationOf \in [Requests \ Exercises -> Conversations]
  /\ PlacedSkills \subseteq Skills
  /\ InitialRows \subseteq SkillRow
  /\ NotASkill \notin Skills
  /\ Scores \subseteq 0..100
  /\ Catalog \subseteq Badges
  /\ MaxDay \in Nat \ {0}

VARIABLES
  skillRows,       \* learner_skill_profiles, by skill
  gamification,    \* the gamification_profiles row
  awards,          \* badge_awards; each has its BADGE_AWARDED event
  answerEvents,    \* submissions with an EXERCISE_ANSWER_SUBMITTED event
  turnEvents,      \* submissions with a CONVERSATION_TURN_COMPLETED event
  levelEvents,     \* how many LEVEL_ADVANCED events there are
  turns,           \* requests whose pair of messages is stored
  invocationLog,   \* requests whose agent_invocation_logs row is stored
  tx,              \* the transaction of each request
  today,           \* the student's calendar day
  \* history, never read by the program
  counted,         \* how often each submission's effects were committed
  earned           \* the sum of the XP committed transactions awarded

database ==
  <<skillRows, gamification, awards, answerEvents, turnEvents, levelEvents, turns,
    invocationLog>>
history == <<counted, earned>>
vars == <<database, tx, today, history>>

-----------------------------------------------------------------------------
(* Transactions. *)

GamificationRow == [xp : Nat, streak : Nat, lastDay : Nat]

Ended == {"committed", "replayed", "failed", "conflict"}

Stages ==
  {"idle", "checked", "judged", "chatted", "held", "skipped", "recording", "recorded",
   "skillRead", "skillFolded", "skillWritten", "profileRead", "profileWritten",
   "granted", "answering", "ready"} \cup Ended

\* What a transaction has read and computed so far.
Transaction ==
  [stage : Stages,
   score : 0..100,
   skill : Skills \cup {NotASkill},
   day : Nat,
   firstTurn : BOOLEAN,      \* is_first_conversation_turn
   created : BOOLEAN,        \* it has inserted its learning event
   read : SkillRow,          \* the skill row as read
   correct : BOOLEAN,
   firstLevel : BOOLEAN,     \* is_first_level_advancement
   profile : GamificationRow,
   badges : SUBSET Catalog]

NewRow == [level |-> 0, mastery |-> 0, window |-> <<>>]
NewProfile == [xp |-> 0, streak |-> 0, lastDay |-> NoDay]

Blank ==
  [stage |-> "idle", score |-> 0, skill |-> NotASkill, day |-> NoDay,
   firstTurn |-> FALSE, created |-> FALSE, read |-> NewRow, correct |-> FALSE,
   firstLevel |-> FALSE, profile |-> NewProfile, badges |-> {}]

Finished(outcome) == [Blank EXCEPT !.stage = outcome]

IsExercise(r) == r \in Exercises
Recorded(r) == SubmissionOf[r] \in answerEvents \cup turnEvents
Active(r) == tx[r].stage \notin Ended \cup {"idle"}

TypeOK ==
  /\ skillRows \in [PlacedSkills -> SkillRow]
  /\ gamification \in GamificationRow
  /\ awards \subseteq Catalog
  /\ answerEvents \subseteq Submissions
  /\ turnEvents \subseteq Submissions
  /\ levelEvents \in Nat
  /\ turns \subseteq Requests
  /\ invocationLog \subseteq Requests
  /\ tx \in [Requests -> Transaction]
  /\ today \in 1..MaxDay
  /\ counted \in [Submissions -> Nat]
  /\ earned \in Nat

Init ==
  /\ skillRows \in [PlacedSkills -> InitialRows]
  /\ gamification = NewProfile
  /\ awards = {}
  /\ answerEvents = {}
  /\ turnEvents = {}
  /\ levelEvents = 0
  /\ turns = {}
  /\ invocationLog = {}
  /\ tx = [r \in Requests |-> Blank]
  /\ today = 1
  /\ counted = [s \in Submissions |-> 0]
  /\ earned = 0

-----------------------------------------------------------------------------
(* What a transaction holds until it ends. *)

HoldsAwards(r) == tx[r].stage \in {"granted", "answering", "ready"}

\* HoldsProfile with gamification updated before progression.
HoldsProfileEarly(r) ==
  \/ HoldsAwards(r)
  \/ tx[r].stage = "profileWritten"
  \/ IsExercise(r) /\ tx[r].stage \in {"skillRead", "skillFolded"}

HoldsProfile(r) == HoldsAwards(r) \/ tx[r].stage = "profileWritten"

HoldsSkillRow(r) == HoldsProfile(r) \/ tx[r].stage \in {"skillWritten", "profileRead"}

\* last_message_at is flushed by the first query after the agent's reply.
HoldsConversation(r) ==
  /\ ~IsExercise(r)
  /\ Active(r)
  /\ tx[r].stage \notin {"checked", "judged", "chatted"}

\* The unique key of the learning event it has inserted.
HoldsKey(r) == Active(r) /\ tx[r].created

SkillRowFree(r) ==
  \A other \in Requests \ {r} : HoldsSkillRow(other) => tx[other].skill # tx[r].skill

ProfileFree(r) == \A other \in Requests \ {r} : ~HoldsProfile(other)

ConversationFree(r) ==
  \A other \in Requests \ {r} :
    HoldsConversation(other) =>
      ConversationOf[other] # ConversationOf[r]

KeyFree(r) ==
  \A other \in Requests \ {r} : HoldsKey(other) => SubmissionOf[other] # SubmissionOf[r]

AwardsFree(r) ==
  \A other \in Requests \ {r} : HoldsAwards(other) => tx[other].badges \cap tx[r].badges = {}

-----------------------------------------------------------------------------
(* The steps of a request.  Moves(r, next) is a step that only changes     *)
(* what the transaction has read or holds.                                 *)

Moves(r, next) == tx' = [tx EXCEPT ![r] = next] /\ UNCHANGED <<database, today>>

\* Any error leaves the handler, and the session closes without a commit.
RollBack(r, outcome) ==
  Moves(r, Finished(outcome)) /\ UNCHANGED history

\* The first query of both handlers: is this submission already recorded?
CheckDuplicate(r) ==
  /\ tx[r].stage = "idle"
  /\ ~Recorded(r)
  /\ Moves(r, [tx[r] EXCEPT !.stage = "checked"])
  /\ UNCHANGED history

\* It is: the stored payload is the answer.
Replay(r) ==
  /\ tx[r].stage = "idle"
  /\ Recorded(r)
  /\ RollBack(r, "replayed")

\* The agent judges an exercise; the activity fixes the skill.
JudgeAnswer(r) ==
  /\ tx[r].stage = "checked" /\ IsExercise(r)
  /\ \E score \in Scores :
       Moves(r, [tx[r] EXCEPT !.stage = "judged", !.score = score, !.day = today,
                              !.skill = ActivityOf[r].skill])
  /\ UNCHANGED history

\* The agent answers a message, and may score it for a skill it names.
AnswerMessage(r) ==
  /\ tx[r].stage = "checked" /\ ~IsExercise(r)
  /\ \/ Moves(r, [tx[r] EXCEPT !.stage = "chatted"])
     \/ \E score \in Scores, skill \in Skills \cup {NotASkill} :
          Moves(r, [tx[r] EXCEPT !.stage = "judged", !.score = score, !.skill = skill])
  /\ UNCHANGED history

\* The provider raises: the log row of the failed call was flushed into the
\* request's own transaction, and goes with it.
AgentFails(r) ==
  /\ tx[r].stage = "checked"
  /\ RollBack(r, "failed")

\* HoldConversation with a first turn looked for among all messages instead of
\* the scored ones.
HoldConversationAfterChat(r) ==
  /\ tx[r].stage = "judged" /\ ~IsExercise(r)
  /\ ConversationFree(r)
  /\ Moves(r, [tx[r] EXCEPT !.stage = "held", !.firstTurn = turns = {}])
  /\ UNCHANGED history

\* The first query after a scored reply flushes last_message_at, then looks
\* for an earlier scored turn.
HoldConversation(r) ==
  /\ tx[r].stage = "judged" /\ ~IsExercise(r)
  /\ ConversationFree(r)
  /\ Moves(r, [tx[r] EXCEPT !.stage = "held", !.firstTurn = turnEvents = {}])
  /\ UNCHANGED history

\* Skill(output.skill) raises a ValueError.
RejectSkill(r) ==
  /\ tx[r].stage = "held"
  /\ tx[r].skill \notin Skills
  /\ RollBack(r, "failed")

\* LookUpEvent for an exercise that never inserts its event.
LookUpEventOnly(r) ==
  /\ \/ tx[r].stage = "held" /\ tx[r].skill \in Skills
     \/ tx[r].stage = "granted" /\ IsExercise(r)
  /\ Moves(r, [tx[r] EXCEPT !.stage = IF IsExercise(r) THEN "ready"
                                     ELSE IF Recorded(r) THEN "skipped" ELSE "recording"])
  /\ UNCHANGED history

\* record_learning_event looks the submission up.  A conversation that finds it
\* skips the effects; an exercise has applied them already and goes on.
LookUpEvent(r) ==
  /\ \/ tx[r].stage = "held" /\ tx[r].skill \in Skills
     \/ tx[r].stage = "granted" /\ IsExercise(r)
  /\ LET found == Recorded(r)
         stage == IF IsExercise(r)
                  THEN IF found THEN "ready" ELSE "answering"
                  ELSE IF found THEN "skipped" ELSE "recording"
     IN Moves(r, [tx[r] EXCEPT !.stage = stage])
  /\ UNCHANGED history

\* InsertEvent without the unique constraint.
InsertEventWithoutKey(r) ==
  /\ tx[r].stage \in {"recording", "answering"}
  /\ Moves(r, IF IsExercise(r)
              THEN [tx[r] EXCEPT !.stage = "ready", !.created = TRUE]
              ELSE [tx[r] EXCEPT !.stage = "recorded", !.created = TRUE, !.day = today])
  /\ UNCHANGED history

\* ... and inserts it when it was not there.
InsertEvent(r) ==
  /\ tx[r].stage \in {"recording", "answering"}
  /\ KeyFree(r)
  /\ ~Recorded(r)
  /\ Moves(r, IF IsExercise(r)
              THEN [tx[r] EXCEPT !.stage = "ready", !.created = TRUE]
              ELSE [tx[r] EXCEPT !.stage = "recorded", !.created = TRUE, !.day = today])
  /\ UNCHANGED history

\* The unique constraint refuses the event: an IntegrityError nobody catches.
DuplicateEvent(r) ==
  /\ tx[r].stage \in {"recording", "answering"}
  /\ KeyFree(r)
  /\ Recorded(r)
  /\ RollBack(r, "conflict")

-----------------------------------------------------------------------------
(* progression: level_advancement_service.apply_scored_outcome             *)

DueForProgression(r) ==
  \/ tx[r].stage = "judged" /\ IsExercise(r)
  \/ tx[r].stage = "recorded"

ReadSkillRow(r) ==
  /\ DueForProgression(r)
  /\ tx[r].skill \in PlacedSkills
  /\ LET correct == IsCorrect(tx[r].score)
         stage == IF Advances(skillRows[tx[r].skill], correct)
                  THEN "skillRead" ELSE "skillFolded"
     IN Moves(r, [tx[r] EXCEPT !.stage = stage, !.correct = correct,
                               !.read = skillRows[tx[r].skill]])
  /\ UNCHANGED history

\* LearnerSkillProfileNotFoundError, which no route catches.
NoSkillRow(r) ==
  /\ DueForProgression(r)
  /\ tx[r].skill \notin PlacedSkills
  /\ RollBack(r, "failed")

\* An advance first asks whether any LEVEL_ADVANCED event exists.
LookForAdvancement(r) ==
  /\ tx[r].stage = "skillRead"
  /\ Moves(r, [tx[r] EXCEPT !.stage = "skillFolded", !.firstLevel = levelEvents = 0])
  /\ UNCHANGED history

\* WriteSkillRow without waiting for the row.
WriteSkillRowUnlocked(r) ==
  /\ tx[r].stage = "skillFolded"
  /\ Moves(r, [tx[r] EXCEPT !.stage = "skillWritten"])
  /\ UNCHANGED history

WriteSkillRow(r) ==
  /\ tx[r].stage = "skillFolded"
  /\ SkillRowFree(r)
  /\ Moves(r, [tx[r] EXCEPT !.stage = "skillWritten"])
  /\ UNCHANGED history

-----------------------------------------------------------------------------
(* gamification: gamification_service.apply_scored_outcome                 *)

ReadProfile(r) ==
  /\ tx[r].stage = "skillWritten"
  /\ Moves(r, [tx[r] EXCEPT !.stage = "profileRead", !.profile = gamification])
  /\ UNCHANGED history

TypeOf(r) ==
  IF IsExercise(r) THEN ActivityOf[r].type ELSE "conversation_prompt"

XpAwarded(r) == CalculateXp(TypeOf(r), tx[r].score)

NewStreak(r) == UpdateStreak(tx[r].profile.streak, tx[r].profile.lastDay, tx[r].day)

\* WriteProfile whose UPDATE comes after the badges are read.
WriteProfileUnlocked(r) ==
  /\ tx[r].stage = "profileRead"
  /\ Moves(r, [tx[r] EXCEPT
       !.stage = "profileWritten",
       !.badges = Catalog \cap
         EvaluateBadges(awards, tx[r].firstTurn, NewStreak(r), tx[r].firstLevel)])
  /\ UNCHANGED history

\* Some XP is always awarded, so the UPDATE is never empty and always takes the
\* row; the badges are read after it.
WriteProfile(r) ==
  /\ tx[r].stage = "profileRead"
  /\ ProfileFree(r)
  /\ Moves(r, [tx[r] EXCEPT
       !.stage = "profileWritten",
       !.badges = Catalog \cap
         EvaluateBadges(awards, tx[r].firstTurn, NewStreak(r), tx[r].firstLevel)])
  /\ UNCHANGED history

\* The awards are inserted; their unique constraint would refuse one that
\* another request committed since the badges were read.
GrantBadges(r) ==
  /\ tx[r].stage = "profileWritten"
  /\ AwardsFree(r)
  /\ Moves(r, IF tx[r].badges \cap awards = {}
              THEN [tx[r] EXCEPT !.stage = "granted"]
              ELSE Finished("conflict"))
  /\ UNCHANGED history

-----------------------------------------------------------------------------
(* The end of a request. *)

\* LevelAdvanced that records the first advance only.
LevelAdvancedFirst(r) == Advances(tx[r].read, tx[r].correct) /\ tx[r].firstLevel

LevelAdvanced(r) == Advances(tx[r].read, tx[r].correct)

\* StoredRow with a window changed in place, which SQLAlchemy does not notice.
StoredRowInPlace(r) ==
  LET row    == skillRows[tx[r].skill]
      folded == ApplyScoredActivity(tx[r].read, tx[r].correct)
  IN [folded EXCEPT !.window = row.window]

\* The columns of an UPDATE: those that differ from the row as it was read.
\* Entries of the window carry timestamps, so the window always differs.
StoredRow(r) ==
  LET row    == skillRows[tx[r].skill]
      read   == tx[r].read
      folded == ApplyScoredActivity(read, tx[r].correct)
  IN [level   |-> IF folded.level = read.level THEN row.level ELSE folded.level,
      mastery |-> IF folded.mastery = read.mastery THEN row.mastery ELSE folded.mastery,
      window  |-> folded.window]

\* StoredProfile with the XP added by the service and by its caller.
StoredProfileTwice(r) ==
  [xp |-> tx[r].profile.xp + 2 * XpAwarded(r), streak |-> NewStreak(r), lastDay |-> tx[r].day]

StoredProfile(r) ==
  LET read == tx[r].profile
  IN [xp      |-> read.xp + XpAwarded(r),
      streak  |-> IF NewStreak(r) = read.streak THEN gamification.streak ELSE NewStreak(r),
      lastDay |-> IF tx[r].day = read.lastDay THEN gamification.lastDay ELSE tx[r].day]

\* A transaction that applied its outcome.
CommitOutcome(r) ==
  /\ tx[r].stage = IF IsExercise(r) THEN "ready" ELSE "granted"
  /\ skillRows' = [skillRows EXCEPT ![tx[r].skill] = StoredRow(r)]
  /\ gamification' = StoredProfile(r)
  /\ awards' = awards \cup tx[r].badges
  /\ IF IsExercise(r)
     THEN /\ answerEvents' = IF tx[r].created THEN answerEvents \cup {SubmissionOf[r]}
                              ELSE answerEvents
          /\ UNCHANGED <<turnEvents, turns>>
     ELSE /\ turnEvents' = turnEvents \cup {SubmissionOf[r]}
          /\ turns' = turns \cup {r}
          /\ UNCHANGED answerEvents
  /\ levelEvents' = IF LevelAdvanced(r) THEN levelEvents + 1 ELSE levelEvents
  /\ invocationLog' = invocationLog \cup {r}
  /\ tx' = [tx EXCEPT ![r] = Finished("committed")]
  /\ counted' = [counted EXCEPT ![SubmissionOf[r]] = @ + 1]
  /\ earned' = earned + XpAwarded(r)
  /\ UNCHANGED today

\* An unscored turn, or a scored one recorded by an earlier request: only the
\* messages and the log row are stored.
CommitTurn(r) ==
  /\ tx[r].stage \in {"chatted", "skipped"}
  /\ ConversationFree(r)
  /\ turns' = turns \cup {r}
  /\ invocationLog' = invocationLog \cup {r}
  /\ tx' = [tx EXCEPT ![r] = Finished("committed")]
  /\ UNCHANGED <<skillRows, gamification, awards, answerEvents, turnEvents, levelEvents, today, history>>

\* The process dies or the connection breaks before the commit.
Crash(r) ==
  /\ Active(r)
  /\ RollBack(r, "failed")

\* Midnight in the student's time zone.
Midnight ==
  /\ today < MaxDay
  /\ today' = today + 1
  /\ UNCHANGED <<database, tx, history>>

Step(r) ==
  \/ CheckDuplicate(r) \/ Replay(r)
  \/ JudgeAnswer(r) \/ AnswerMessage(r) \/ AgentFails(r)
  \/ HoldConversation(r) \/ RejectSkill(r)
  \/ LookUpEvent(r) \/ InsertEvent(r) \/ DuplicateEvent(r)
  \/ ReadSkillRow(r) \/ NoSkillRow(r) \/ LookForAdvancement(r) \/ WriteSkillRow(r)
  \/ ReadProfile(r) \/ WriteProfile(r) \/ GrantBadges(r)
  \/ CommitOutcome(r) \/ CommitTurn(r)

Next == Midnight \/ \E r \in Requests : Step(r) \/ Crash(r)

Spec == Init /\ [][Next]_vars

-----------------------------------------------------------------------------
(* Fairness: the event loop runs every request to its end, Postgres grants  *)
(* a row lock once it is free, and the agent call returns or raises.  Weak  *)
(* fairness is enough, since only finitely many requests can take a lock.   *)

FairSpec == Spec /\ \A r \in Requests : WF_vars(Step(r))

\* Every request that was sent ends, whatever it waits for: the rows are taken
\* in an order that never closes a cycle (session, key, skill, profile, badges
\* for a message; skill, profile, badges, key for an exercise), as long as no
\* exercise carries the submission of a message.
EveryRequestEnds == \A r \in Requests : <>(tx[r].stage \in Ended)

-----------------------------------------------------------------------------
(* Safety. *)

\* A badge is inserted at most once, and no request ever fails because two of
\* them unlocked the same badge: the UPDATE of the gamification row, flushed
\* before the badges are read, admits one request at a time (badge_rule.py
\* expects the unique constraint to break such races).
AwardsNeverCollide ==
  \A r \in Requests :
    HoldsProfile(r) =>
      /\ tx[r].badges \cap awards = {}
      /\ \A other \in Requests \ {r} : ~HoldsProfile(other)

\* The badges say what the history says, though both "first" flags are read
\* long before the badge is given: a first conversation badge exactly when a
\* scored turn is recorded, a first level badge exactly when an advancement is,
\* and no streak of StreakThreshold days without its badge.
BadgesMatchHistory ==
  /\ FirstConversation \in Catalog =>
       (FirstConversation \in awards <=> turnEvents # {})
  /\ FirstLevel \in Catalog => (FirstLevel \in awards <=> levelEvents > 0)
  /\ StreakDays \in Catalog /\ gamification.streak >= StreakThreshold =>
       StreakDays \in awards

\* No effect without its event and no event without its effects, whatever
\* fails in between: the outcome of a submission is on the profiles exactly
\* when the submission is recorded, and then a call of the agent that judged it
\* is logged (NFR-4).
EffectsMatchEvents ==
  \A s \in Submissions :
    /\ counted[s] > 0 <=> s \in answerEvents \cup turnEvents
    /\ counted[s] > 0 => \E r \in invocationLog : SubmissionOf[r] = s

\* A message never counts twice, however often it is sent and through
\* whichever of the student's sessions: send_message records first and applies
\* the effects only if it created the event.
TurnsCountOnce ==
  \A s \in Submissions :
    (\A r \in Exercises : SubmissionOf[r] # s) => counted[s] <= 1

\* Stale writes can only lose XP, never invent it.
XpNeverExceedsEarned == gamification.xp <= earned

\* xp_total is the sum of all XP awarded (data-model.md, GamificationProfile).
XpIsEarned == gamification.xp = earned

\* A submission counts once (learning_event_recorder.py: the effects "must
\* never run twice for the same client submission").
CountedOnce == \A s \in Submissions : counted[s] <= 1

\* No level without its LEVEL_ADVANCED event, by which it can be audited
\* (quickstart.md, Scenario 5): answers that overlap on a stale row may record
\* an advance that gains no level, never the reverse.
AdvancesAreRecorded ==
  \A k \in PlacedSkills :
    \E row \in InitialRows : skillRows[k].level <= row.level + levelEvents

\* A stale answer may leave a row the rule never made: the level of one request
\* with the window of another, or a mastery that is not that of the window.
\* The damage does not outlast the next answer: one folded into the row as it
\* stands leaves a settled row, whatever mixture it found.
FreshAnswersSettle ==
  [][\A r \in Requests :
       CommitOutcome(r) /\ tx[r].read = skillRows[tx[r].skill] =>
         SettledRow(skillRows'[tx[r].skill])]_vars

-----------------------------------------------------------------------------
(* The ledger the loop is meant to be. *)

Ledger ==
  INSTANCE LearningLedger WITH
    rows <- skillRows, profile <- gamification, advances <- levelEvents,
    credited <- answerEvents \cup turnEvents,
    Types <- {TypeOf(r) : r \in Requests}

\* Messages of one conversation are serialised by the row of their session, so
\* concurrent and repeated messages still credit each submission in one
\* indivisible step.
ImplementsLedger == Ledger!Spec

=============================================================================
