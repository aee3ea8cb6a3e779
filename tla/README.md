# LingoAI: a verification development

LingoAI is a language-learning backend (FastAPI, SQLAlchemy, Postgres) with a
Next.js frontend. A student is placed by a conversation with an agent, then
learns in a loop of exercises and conversation messages; every scored outcome
moves the CEFR level of one skill and adds XP, a streak and badges.

This directory holds TLA+ models of the parts where the program's own logic
lives, TLC configurations that check them on small instances, and proofs checked
by TLAPS for every value of the constants. Paths below are relative to
`src/backend/src/` unless they start with `frontend/` or `specs/`.

## 1. The system

| Component | State | Operations | Talks to |
|---|---|---|---|
| Placement (`placement/`) | `placement_sessions`, `placement_results`; seeds `learner_skill_profiles` and `gamification_profiles` | `start_session`, `submit_answer` (and in it `_complete_session`) | assessment agent, `learning_events` |
| Exercise answers (`learning_content/application/activity_answer_service.py`) | none of its own | `submit_answer` | progression agent, progression, gamification, recorder |
| Conversation (`conversation/`) | `conversation_sessions`, `messages` | `start_or_resume_session`, `send_message` | conversation agent, recorder, progression, gamification |
| Progression (`progression/`) | `learner_skill_profiles` | `apply_scored_outcome` over the pure `level_advancement_rule`; `select_next_activity` and the history page read | called inside the requests above |
| Gamification (`gamification/`) | `gamification_profiles`, `badge_awards` | `apply_scored_outcome` over the pure XP, streak and badge rules | called inside the requests above |
| Recorder (`shared_kernel/application/learning_event_recorder.py`) | `learning_events`, unique on (user, submission) | `record_learning_event` | everyone |
| Agent invocation log (`ai_agents/observability/`) | `agent_invocation_logs` | `log_agent_invocation` around each call | shares the request's transaction |
| Activity selection (`progression/application/activity_selection_service.py`) | reads skill rows and activities | `select_next_activity` | practice page |
| Progression history (`progression/api/routes.py`) | reads skill rows and `learning_events` | `get_profile`, `get_skill_history` page by page | clients of the API |
| Identity (`identity/`) | `users`, `refresh_tokens` | register, login, refresh, the check of protected routes | every route |
| Rate limiter (`shared_kernel/infrastructure/rate_limiter.py`) | hits in memory | `enforce_rate_limit`, in threads | the auth routes |
| Agent adapters, adapter factory, audio | a cached adapter | stateless calls | external providers |
| Seeds (`*/infrastructure/seed.py`) | `learning_paths`, `units`, `activities`, badges | run by hand, any number of times | activity selection |
| Frontend and BFF (`frontend/`) | cookies, page state | register, placement, result, login, practice and conversation pages | backend API |
| Event bus | handlers | subscribe, publish | nothing in this code |

Components do not run by themselves: everything happens inside HTTP requests,
each with one database session and one transaction, interleaved at every
`await`. They interact through rows. What makes the system hard is therefore the
database: rows read without a lock and written back later, unique constraints
that arbitrate between requests, locks that an autoflush takes in the middle of
a handler, and failures that undo a transaction.

Properties that make each component correct:

- **Recorder and loop**: a submission's effects are applied once, and exactly
  when its event is stored.
- **Progression**: a row is what its history rebuilds; levels are earned, never
  skipped, never left waiting; none rises without its event, and what overlapping
  answers leave wrong in a row the next one puts right.
- **Gamification**: XP is the sum of what was awarded; badges say what the
  history says; a badge is given once and costs nobody an answer.
- **Placement**: a session is completed once; a result comes with the profiles
  the loop needs; a later placement takes nothing back.
- **Conversation**: a history consists of whole turns, so each is scored; a second
  active session comes from a race only; nobody converses before being placed.
- **Practice**: there is something to offer at every level; what is offered fits
  the row; an easy answer never earns a level.
- **Identity and limiter**: one user per e-mail, who may enter whatever the
  registration was answered; access goes back to a login and does not outlive its
  tokens by a second; the limit holds whatever order threads get
  the lock in, and nobody is refused who did not use it up.
- **History**: pages repeat nothing and miss nothing but ties, while events are
  being written.
- **Pages**: a student who registers is guided to a result, whatever answers go
  unheard on the way.
- **Everything**: requests that wait for each other all end.

`PROJECT.json` lists the hazards one by one, at the line where each bites, with
the properties that cover it.

## 2. How the database is modelled

One transaction per request at READ COMMITTED, the default the code keeps:

- a SELECT sees what is committed;
- SQLAlchemy emits pending writes before the next query (autoflush), so an
  UPDATE takes its row at the first query *after* the assignment, not at the
  commit, and keeps it until the transaction ends;
- an UPDATE carries absolute values computed from the row as it was read, and
  only the columns whose value differs from it;
- an INSERT of a unique key waits for an in-flight INSERT of the same key and
  fails if the key is committed; the session is then rolled back.

In the modules, tables hold only committed data. Each request has a record in
`tx`: the program point it has reached (`stage`) and what it has read or
computed. Locks are not variables: `HoldsProfile(r)` and its siblings say at
which stages a request holds a row, and `ProfileFree(r)` whether it may take
it. Commits write every table at once; a rollback only ends the request.

## 3. Modules

| Module | Models | Correspondence |
|---|---|---|
| `Rounding` | Python's `round` | half to even, on exact quotients: scores are in hundredths |
| `LevelAdvancementRule` | `progression/domain/level_advancement_rule.py` | one operator per step of `apply_scored_activity` |
| `SkillProfile` | one row under that rule | variables `row` and the history `attempts` of its level; action `ScoreActivity` |
| `GamificationRules` | `gamification/domain/` | `CalculateXp`, `UpdateStreak`, `EvaluateBadges` |
| `LearningLoop` | `submit_answer` of exercises, `send_message`, both `apply_scored_outcome`, `record_learning_event`, `log_agent_invocation` | one action per statement that reads, locks or writes |
| `LearningLedger` | what the loop promises | one action `Credit`: fold one score into everything, once per submission |
| `Placement` | `placement_service.py`, its entities and routes | one action per statement that reads, locks or writes |
| `Conversations` | `start_or_resume_session`, `_history`, `_learner_context`, the offline agent's scoring, several students and tabs | one action per statement that reads what others write; a turn's effects are one event |
| `Practice` | `seed.py`, `select_next_activity`, the offline agent's `evaluate`, the fold into the row, the practice page | seeds path by path, then pages that load, answer, retry and reload |
| `Access` | `auth_service.py`, `security.py`, the identity routes, `get_current_user_id` | one action per statement between two awaits; a request's `stage` ends as its answer |
| `RateLimiter` | `enforce_rate_limit` | `ReadClock` before the lock, `Admit` or `Refuse` under it |
| `History` | `get_profile`, `get_skill_history` | writers that begin and commit; a client that asks page after page |
| `Onboarding` | register, login, placement and result pages, session cookie, and the routes behind them | one action per call of a page, and one for each way it may go wrong |
| `MC*` | instances | values of the constants |
| `*Proofs` | theorems | section 6 |

`LearningLoop` composes the two rule modules and both of the handlers that call
them; `LearningLedger` is its abstraction, and `LearningLoop!ImplementsLedger`
is the refinement, with the tables mapped to the ledger and the transactions
hidden.

How an exercise passes through `LearningLoop`: `CheckDuplicate` or `Replay` →
`JudgeAnswer` or `AgentFails` → `ReadSkillRow` (→ `LookForAdvancement` when the
level rises) → `WriteSkillRow` → `ReadProfile` → `WriteProfile` → `GrantBadges`
→ `LookUpEvent` → `InsertEvent` or `DuplicateEvent` → `CommitOutcome`. A message
replaces the head by `AnswerMessage`, `HoldConversation`, `LookUpEvent`,
`InsertEvent` and only then applies its effects; `CommitTurn` ends one without
effects. `Crash` may end any of them; `Midnight` moves the day.

How the others fit: `Practice` extends the rule module and folds whole answers
at once, since `LearningLoop` already interleaves them; what it adds is where the
activity comes from and how old the row is on which it was chosen.
`Conversations` takes the effects of a turn for granted in the same way, and adds
who may send it and what the agent is given. `Onboarding` has one student and one
tab and lets the *network* and the *browser* interfere: a call may take effect
without the page hearing of it, the cookie may expire, the tab may be closed.
`Placement` has the database side of the same answers. `Access` and
`RateLimiter` have a clock of their own.

Facts of the code that the models made visible:

- *Where the locks fall.* The UPDATE of the gamification row always changes
  something (some XP is always awarded), and the query for awarded badges comes
  right after the assignment. So the row is taken before badges are read, and
  badges cannot collide. For the XP it comes too late: the row was *read* one
  statement earlier, without a lock.
- *What serialises what.* Exercises of one skill queue up at the skill row before
  they read the gamification row, and messages of one session at the session's
  row, whose `last_message_at` the first query after the reply flushes. Exercises
  of two skills share neither. The skill row itself is *read* before it is waited
  for, so what an exercise writes to it may be stale.
- *Time is the start of a transaction.* `created_at` is `now()`: both messages of a
  turn, and an outcome with the advance it caused, carry the same time. So
  `ORDER BY created_at` does not say which message of a turn comes first, nor how
  two turns that began at one instant are ordered, and the history's cursor may
  lose an outcome or its advance. `Conversations` models a history as a set of
  messages for that reason: the offline agent only counts them.
- *A JWT knows whole seconds.* Encoding cuts the expiry of an access token to its
  second and decoding cuts the time it is, so the token is good to the end of the
  second in which it expires. Refresh tokens, whose expiry is a column, are not.
- *A level may rise on a wrong answer.* The rule looks at the window, not at the
  answer that completes it: four right answers and a wrong one are five with
  80 %. `LevelIsEarned` therefore says what the window has earned.
- *Two orders of locks.* An exercise takes its skill's row before its event's key,
  a message after it. The two kinds would wait for each other if they carried one
  submission id; nothing but the pages, which draw an id per submit, keeps them
  from it.
- *A read clock is old by the time the lock is there.* The limiter is therefore
  exact only for a window shortened by the longest wait for the lock.

Operators named after another one with a suffix (`WriteSkillRowUnlocked`,
`SlideUntrimmed`, ...) stand right before it and are not part of any
specification: each is the definition with one plausible mistake, kept to show
that the property it is paired with in `PROJECT.json` would notice it.

## 4. Runs

| Run | Instance | What it shows |
|---|---|---|
| `level_rule` | real constants, 12 attempts per level | the row is rebuilt by its history; advances are earned by the window and prompt |
| `one_skill` | 1 exercise sent twice and 1 message sent through two sessions, all of one skill; 2 levels to gain | no XP is lost within a skill; effects, events and log rows go together; a message counts once; no level rises unrecorded; a fresh answer settles a mixed row |
| `conversation` | 3 messages of one session, two the same submission, 2 days | the loop implements the ledger |
| `mixed_requests` | 1 exercise and 2 messages of two sessions, each its own submission; every row one answer short of an advance; two placed skills, an unplaced and an unknown one; 2 days | badges match the history and never collide, XP is never invented, no deadlock, every request ends |
| `placement` | 4 answers, two the same submission, 2 sessions | one completion per session, seeded once and for good; every answer gets a response |
| `conversations` | 2 students in 3 tabs, 3 sessions, 3 turns | second sessions come from races; turns are all scored; unplaced students never converse |
| `practice` | 2 seed scripts, 2 pages, 2 exercise skills at 2 levels, good and half-good answers, 1 fault | content for everyone once seeded; offers fit; easy answers never advance |
| `access` | 4 registrations of one e-mail (two good passwords, one short, one long in bytes), 2 logins, 1 refresh, 2 calls, 7 ticks, 2 to the second | one user; access is earned; who is stored may enter |
| `history` | 3 writers of one or two events, limits from 0 to beyond the cap, 3 instants | no repeats; only ties are missed; the walk ends |
| `onboarding` | 3 answers to complete, up to 4 mishaps | one session per student; placed by exactly the answers asked for; guided to the result |
| `rate_limiter` | 4 calls of one host and 1 without an address, limit 2, window 3, wait 1, 7 ticks | the shortened window is respected; refusals are earned |
| `double_send` | 3 exercises of one skill | **violated**: an exercise sent twice counts twice |

*Bounds.* In the loop and in placement three requests are the fewest with two
copies of one submission and a third party, four for placement to add a second
session, and for `one_skill` to send two submissions twice; every race here is
between two requests, so a third already covers "someone else meanwhile".
Windows are cut to three entries and advances to two
(`WindowMax`, `MinActivities`), with one level to gain (two in `one_skill`, where a
stale advance may follow another), and streak badges to two days, so that every
branch of the rules is taken in a few requests; the rule itself is checked apart
with the real numbers, over scores just below and at the threshold. Initial rows
are one correct answer short of an advance, or, except in `mixed_requests`, a
full window that the next answer slides. In `mixed_requests` all three requests
may therefore advance, meet the first turn, the first level and the streak, and
reach for the same badge.
`MaxDay` bounds the calendar, `MaxAttempts` the history of a level.

`MaxSessions` and `MaxTurns` leave room in `conversations` for two sessions of
one student and, with its two tabs, for two turns that overlap in one and a third
that finds both. In `practice` an answer of
10 words is right in the easy band and wrong in the other, one of 20 right in
both; two scripts are enough to seed a path twice, two pages for one to answer
on a row the other has moved. `access` lets the clock pass the lives of a
refresh token (3) and an access token (2) one after the other, and the second
(2 ticks) by which the latter may last longer. In `history` two
transactions can share an instant while a third commits late, and pages of one
event end between any two. `MaxMishaps` is more than any shortest way to a
property of `onboarding` takes. `rate_limiter` can fill the limit, refuse, and
see the first hit leave the window.

*Deadlock* checking is off where all requests, calls or walks may be finished;
that nothing waits forever before is `EveryRequestEnds` and `EveryAnswerEnds`.

*Fairness.* In the loop and in placement: weak fairness of each request's steps,
and of nothing else. The event loop resumes every handler, an agent call returns
or raises (the provider clients have timeouts), and Postgres grants a lock once
it is free. Weak is enough: a request waiting for a row is enabled from the
moment the row is free unless another takes it, and only finitely many requests
can. Crashes, midnight and the start of a session are never forced. `History`:
weak fairness of `Read`, a client that has started goes on asking for the next
page; writers need not go on. `Onboarding`: weak fairness of `Proceed`, a
student goes on as long as the page offers a way; nothing that goes wrong is
ever forced, and `GuidedToResult` says of which mishaps it is true.

Operators named after another one with a suffix are described in section 3; each
property of a passing run is paired with one in `PROJECT.json`.

## 5. Where code and documents part

`double_send` is kept as a run, because it takes an interleaving to see and
because `XpNeverExceedsEarned` and `EffectsMatchEvents`, which do hold, are
easily mistaken for it. The following came up while modelling as well. Each is
stated next to the property that does hold, and each lasts a few steps once it
is known; none has a run of its own.

- *XP is lost between skills.* `gamification_service.py:72` adds to a value read
  without a lock; two outcomes of different skills both read the old total.
  `data-model.md:208` calls it the sum of all `xp_awarded`. What holds:
  `XpIsEarned` within one skill, `XpNeverExceedsEarned` everywhere.
- *A stale answer may leave a row the rule never made.* An exercise folds its
  answer into the row as it read it and writes the columns that changed
  (`level_advancement_service.py:91`). With windows of three, from level 0, mastery
  67 and the window wrong-right-right, a right answer commits an advance, and a wrong one that
  had read the row before changes the window only: level 1, mastery 0, and the
  window right-right-wrong, brought back from the old level. Against
  `data-model.md:108` (an advance clears the window) and `:110` (every outcome
  recomputes the mastery). What holds: `FreshAnswersSettle`, the next answer that
  is not stale repairs mastery and advance, and for the messages of one session
  `ImplementsLedger`, where it never happens (`RowsSettledAlways`).
- *A level may fall.* In the same way an advance that was read before two others
  writes its own level over theirs, against `data-model.md:109` ("never
  decreases"); with these windows it takes four exercises of one skill. What
  holds: `AdvancesAreRecorded`, the level is never above what the recorded
  advances explain.
- *A failed agent call leaves no log row.* It is only flushed into the caller's
  transaction (`agent_invocation_log.py:162`), against its lines 23-24.
- *A late placement answer is recorded.* The status is read once, before the
  agent call (`placement_service.py:153`), against `contracts/rest-api.md:39`.
  What holds: `CompletedOnce`, `SeedsAndResultsStay`.
- *The retry of the completing answer is refused*, since the terminal check comes
  before the look-up of the stored answer, against `placement_service.py:156`;
  the placement page then never leaves the finished placement, which is why
  `GuidedToResult` excludes a lost response to that answer.
- *The streak falls without a missed day* when an exercise of the evening commits
  after one of the next morning (`streak_rule.py:51`), against
  `data-model.md:214`. What holds: the day never runs backwards for messages of
  one session (`ImplementsLedger`).
- *The limiter admits more than its limit into a whole window*
  (`rate_limiter.py:40`). What holds: `WindowRespected`.
- *A taken e-mail may be answered 500* when two registrations overlap
  (`auth_service.py:72`), and *an accented password passes validation and
  cannot be hashed* (`security.py:48`): the model has both answers
  ("conflict", "unhashable"). *A 500 may come after the user was stored*, when
  reading the row back fails (`auth_service.py:74`); trying again is then told 409.
  What holds: `OneUserPerEmail`, and `RegisteredMayEnter`: whoever is stored may
  log in, and nobody is stored whose password cannot be checked.
- *An access token outlives its expiry* by less than a second
  (`security.py:81`, through `jwt.encode` and `jwt.decode`). What holds:
  `AccessIsEarned`, with that second.
- *The agent may be given a turn in either order*: `_history` sorts by `created_at`
  alone (`conversation_service.py:104`), which both messages of a turn share.
  The parity of the history, all the offline agent looks at, does not depend on
  it (`EveryTurnIsScored`).
- *The result page asks once*: when its call fails, or its cookie has expired, it
  shows the error and no link (`frontend/src/app/placement/result/page.tsx:38`).
  `Onboarding` has the step (`ResultFails`), `GuidedToResult` excludes it.
- *The history may lose an advance* that ties with the last event of a page
  (`progression/api/routes.py:111`). What holds: `OnlyTwinsAreMissed`.
- *A skill may be neglected*: levels are not compared
  (`activity_selection_service.py:65`).
- *An answer sent again by hand counts again*: the page draws a fresh identifier
  on every submit (`frontend/src/app/learn/page.tsx:49`).
- *A placement is lost with its tab*: its identifier was in the address only, and
  the login page leads to `/learn` (`frontend/src/app/(auth)/login/page.tsx:28`),
  also at a first login.
- *Two starts may leave two active sessions* (`conversation_service.py:81`). What
  holds: `SecondSessionsAreRaces`.
- *Every turn is scored*, not every second one (`local_model_adapter.py:132`).
  This one is a property: `EveryTurnIsScored`.

## 6. Proofs

`LevelAdvancementProofs` has the lemmas about the rule. Arithmetic: what `round`
returns is a nearest integer and the even one at a tie (`RoundsToNearest`), and
of a quotient of at most 100 at most 100. Windows: they never hold more correct
entries than entries, sliding keeps them within their size, and the slid window
of the recent attempts is the window of the recent attempts after one more
(`SlideIsRecent`); one more answer adds one correct entry at most (`SlideCount`).
Rows: folding an activity into a row makes a row, a settled one
(`AppliedSettled`), and no single answer advances a row with a mastery below 50
if advancing takes more than 66 % (`LowMasteryNeverAdvances`). Beyond that they
need `RuleAssumption` only.

`PracticeProofs` has, besides the practice page's (below), the theorems about one
row under the rule (`SkillProfile`). `RowTypeOK`, `Settled` and `WindowIsRecent`
(the window is the last `WindowMax` attempts of the level) are inductive
together: `Settled` because the rule re-evaluates the advance on every activity
and an empty window never qualifies, which is where `MinActivities > 0` enters.
From them follow `RebuildsFromHistoryAlways` (the row is a function of its
history) and `LevelIsEarnedAlways` (a level rises by one, exactly when the last
attempts earned it, whatever the answer that completed them).

`LearningLoopProofs`, for any number of requests, submissions, sessions and days:

- `TypeCorrect`: inductive by itself, from the rule's lemmas.
- `AwardsNeverCollideAlways`: the invariant says that whoever holds the
  gamification row holds it alone and its badges are still free. It is made
  inductive by `StagesMatchKind` (an exercise never reaches the stages of a
  message, and the reverse): without it a request could be "ready" without ever
  having taken the row.
- `EffectsMatchEventsAlways` (log rows included) and `TurnsCountOnceAlways` share
  `EventsInv`: an
  open transaction's event is exclusive (`KeysAreExclusive`), an exercise
  commits with its event or after somebody else's and a message only with its own
  (`OutcomesAreRecorded`). A message therefore finds its submission uncounted
  when it commits; an exercise need not, which is the finding of `double_send`.
- `CountedOnceWhenSentOnce`: the property `double_send` refutes does hold when no
  exercise's submission comes with a second request (`ExercisesSentOnce`): an
  exercise that is still open is uncounted (`SingleInv`), and the messages'
  half is `TurnsCountOnce`.
- `XpNeverExceedsEarnedAlways`: no transaction has read more XP than was ever
  earned.
- `AdvancesAreRecordedAlways` and `FreshAnswersSettleAlways`: what an open
  transaction has read, however old, was a row that the advances recorded by then
  explain (`LevelsInv`), and the transaction that raises a level records one more.
  The second needs no more of the row than its type: whatever columns met in it,
  folding it as it stands settles it (`AppliedSettled`), and the columns it leaves
  unwritten are those that already agree.
- `BadgesMatchHistoryAlways`: of the "first" flags an open transaction has read
  (`BadgesFit`), one that is false stays right, since events are never removed,
  and one that is true, however old, is backed by the event the transaction
  itself will store; whether the badge is still to be given is read later, under
  the gamification row, which is where `AwardsInv` comes in.
- `NoCircularWaitAlways`: `WaitsFor(r, other)` says that `r` needs what `other`
  holds (`WaitingIsBlocked`: it is the negation of the guards). A request that
  waits has a lower `Rank`, a number that depends on its stage, than the one it
  waits for, so among any set of requests one waits for none of them. The
  invariant is `OrderInv` (a conversation's row is held by one message; an
  exercise holds its key only when it is ready, a message from the insertion on).
  Hypothesis: `SubmissionsAreOfOneKind`, an exercise and a message never carry
  the same id. Without it TLC finds the circle on three requests.
- `SomeXpIsAwarded`: 1 to 10 XP for every activity type and score; the UPDATE of
  the gamification row is therefore never empty and always takes the row.

Some properties hold only where requests queue up, and the theorems say where:

- `OneConversation`: all requests are messages of one session, on skill rows that
  start settled. A message takes the session's row before it reads anything it
  will write, so what it has read is still what is stored (`UpToDate`, under
  `Serialised`: one message at a time is past that point). From this invariant
  (`SerialInv`) follow `RowsSettledAlways`, `XpIsEarnedByMessages` and
  **`ImplementsLedgerAlways`**, the refinement: `CommitOutcome` of a message is
  the ledger's `Credit` of its score, because its columns, computed from the rows
  as read, are those the ledger computes from the rows as stored
  (`StoredIsFolded`, `CommitIsCredit`); every other step is a stutter
  (`StepImplements`). `EventsInv` gives that its submission was not credited
  before, `BadgesInv` that the badges are the ledger's.
- `OneSkill`: the requests, exercises or messages, can be scored for one skill only:
  all exercises are of it, and it is the only one placed if there are messages.
  They wait for the skill's row before they read the gamification row and keep
  both until they commit (`RowExclusive`, `ProfileFits`); hence `XpIsEarnedAlways`.

Both are hypotheses about which requests are sent, stated next to the theorem;
the runs `conversation` and `one_skill` are instances of them, and
`mixed_requests`, which is not, does not check these properties.

`PlacementProofs`, for any answers, sessions, skills and agent results:

- `PlacementInv` carries `CompletedOnceAlways`, `ResultsAreSeededAlways`,
  `GamificationNeverCollidesAlways` and `SeedsAndResultsStayAlways`. Its parts: an
  open completion is the only one of its session and its submission, neither of
  them stored (`CompletionsAreExclusive`); profiles it has inserted are its own
  and not stored (`SeedsAreExclusive`); what it has looked up is stored or will be
  with it (`LookedAreSeeded`); and whoever found no gamification profile has
  inserted the profiles of all required skills (`FirstSeedsRequired`), which no
  two can do. The last is the reason the unlocked look-up is safe, and it needs
  `Required # {}`.
- `NoCircularWaitAlways`: completions of several sessions insert the same profiles
  one by one and keep them. All go through `SkillOrder`, so what a completion has
  inserted comes before what it waits for (`InOrder`), and the one that is
  farthest waits for nobody. Here `Rank` is a position in that order; no
  hypothesis is needed.
- The pages (`Onboarding`), for any number of answers and mishaps:
  `OnboardingTypeCorrect`; `OneSessionPerStudentAlways`, by `StartsOnce` (a session
  belongs to an account, and past its form the register page has an account
  without a session); `PlacedByAnswersAlways`, inductive by itself.

`ConversationsProofs`, for any students, tabs, sessions and turns: `NothingFound`
(what a start did not find is still not among the sessions it looked at) carries
`SecondSessionsAreRacesAlways`. The longest argument is about scoring: turns in flight
have numbers of their own (`TurnsAreDistinct`), so a reply adds exactly two
messages and every history, also one given to an agent long ago, has an even
number (`HistoriesArePaired`). Hence the offline agent scores every turn
(`EveryTurnIsScoredAlways`), a scored turn needs a skill, and only a placement
brings one (`UnplacedNeverConverseAlways`).

`PracticeProofs`, for any levels, thresholds, scripts and pages: a script that
has passed a pair knows a path for it, committed or its own (`PassedPathsExist`),
so whichever script commits leaves every pair with one (`AllPathsStored`,
`ContentForEveryoneAlways`). `FreshOffersFitAlways` rests on both bands being
there, so that the closest activity is the one of the target band.
`EasyAnswersNeverAdvanceAlways` has one hypothesis, `AdvancePercent > 66`, which
the code's 80 satisfies: an easy activity is offered for a mastery below 50, and
one more answer leaves a window that was less than half correct at two of three
at best.

`AccessProofs`, for any number of requests and any lives of tokens: issued
tokens go back to a verified login of a stored user (`LoginsKnown`,
`TokensIssued`), a refresh happened while the refresh token lived
(`RefreshedInTime`), and a time whose second is not after that of an expiry is
less than a second after it (`SameSecond`); from these `AccessIsEarnedAlways`.
`OneUserPerEmailAlways` rests on the unique index alone, and
`RegisteredMayEnterAlways` on it and on `PasswordsCheckable`: only a password that
was hashed is ever stored, and a login hashes the same one.

`RateLimiterProofs`, for any limit, window and wait: hits are admitted calls of
their own client (`HitsAdmitted`), a call that waits has read the clock no longer
ago than the wait (`ReadInTime`), and an admitted call that is no longer
remembered is a whole window old by the clock (`ForgottenLate`). So a call that
is decided still remembers everything admitted in the shortened window that ends
at its time, which gives `WindowIsRespected`, and whoever is refused faces hits
that were all admitted (`RefusalsAreEarnedAlways`).

`HistoryProofs`, for any writers and limits: what is listed lies at or above the
cursor (`ListedAboveCursor`), so nothing below it is listed twice, and whatever
was there from the beginning and lies at or above the cursor is listed or ties
with a listed event (`PassedUpToTwins`).

The assumptions are those named in the modules (`RuleAssumption`,
`StreakAssumption`, `LoopAssumption`, `ConversationsAssumption`, ...), all about
constants; TLC evaluates them in the runs.

*What TLC alone covers.* Liveness (`EveryRequestEnds`, `EveryAnswerEnds`,
`WalkEnds`, `GuidedToResult`): it needs fairness and ENABLED, which are out of
the prover's reach. The theorems come as close as safety does: nobody waits in a
circle, and who waits for nobody finds its guard true. `double_send` is a
counterexample and stays one; `CountedOnceWhenSentOnce` marks its border. Every
safety invariant and action property of the passing runs is a theorem. The other
way round, proved and left out of the runs: `RowsSettled` for the messages of one
session, which `ImplementsLedger` covers there, the type invariants of
`Conversations`, `Practice`, `Access` and `History`, and `NoCircularWait`, whose
small instances `EveryRequestEnds` and `EveryAnswerEnds` cover, since a circle
would never end.

## 7. Not modelled

Reads that change nothing (gamification API, progress page), 404 answers for ids
that do not exist, cursors that do not parse, payloads and wording, audio (the
only adapter returns nothing), forged tokens and hashes. Of the remote agents
only that they may answer anything their port allows, or raise. The adapter
factory reads an environment that no request changes, so its cached adapter and
the provider named in the log cannot disagree while a process runs. The event
bus has no subscriber. The badge catalogue's seed and the migrations run before
the server; rendering has no state. `reset_rate_limiter`,
`reset_agent_adapter_cache` and `PlacementSession.abandon` are called by tests
or by nothing.

An exercise and a message that carry the same submission id are not
instantiated: the pages draw ids per submit. In `LearningLoop`, `Placement`,
`Practice` and `History` students share no row, so one student is enough.
`Onboarding` has one tab; two tabs of one student are in `Conversations` and
`Practice`, concurrent placement answers in `Placement`. `RateLimiter` and
`Access` are apart: a refused request is one that `Access` never sees.

## 8. Plan

Done: the rules, the loop with its ledger, placement, conversations, practice,
identity, the limiter, the history, the way from the home page to the result;
and a theorem for every safety property the runs check.

1. Lemmas about `UpdateStreak` for all days (when a streak can fall), and about
   how often a placement or a session may be started.
2. Not planned: the refinement of the ledger for exercises of one skill. As the
   code is, an exercise reads its skill's row before it waits for it, and what it
   writes then is no credit of any score.
