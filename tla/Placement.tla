------------------------------ MODULE Placement ------------------------------
(***************************************************************************)
(* The placement conversation of one student: placement_service, the       *)
(* domain entities PlacementSession and PlacementResult, and the routes    *)
(* that call them, for concurrent requests over Postgres at READ COMMITTED *)
(* (see LearningLoop for what that means).  No service calls abandon(), so *)
(* a session is in progress until an answer completes it.                  *)
(***************************************************************************)
EXTENDS Naturals, FiniteSets, Sequences

CONSTANTS
  Requests,       \* POST /placement/sessions/{id}/answers, retries included
  Submissions,    \* client_submission_id values
  SubmissionOf,   \* the submission a request carries
  Sessions,       \* ids of the student's placement sessions
  SessionOf,      \* the session a request answers
  SkillOrder,     \* the skills a result may level, as _RESULT_SKILL_FIELDS lists them
  Required,       \* the NOT NULL levels of a result: reading and writing
  Signals         \* the sets of skills an agent may give a level for

Skills == {SkillOrder[i] : i \in DOMAIN SkillOrder}

NoSession == "no_session"     \* no row, or no session that made it

\* An id is a UUID, never the name that stands for its absence.
ASSUME PlacementAssumption ==
  /\ NoSession \notin Sessions
  /\ SubmissionOf \in [Requests -> Submissions]
  /\ SessionOf \in [Requests -> Sessions]
  /\ SkillOrder \in Seq(Skills)
  /\ Required \subseteq Skills /\ Required # {}
  /\ Signals \subseteq SUBSET Skills

VARIABLES
  sessions,       \* status of each placement_sessions row
  answers,        \* PLACEMENT_ANSWER_SUBMITTED events
  results,        \* placement_results: the skills each result levels
  profiles,       \* learner_skill_profiles: the session that seeded each skill
  gamification,   \* is there a gamification_profiles row?
  tx              \* the transaction of each request

vars == <<sessions, answers, results, profiles, gamification, tx>>
database == <<sessions, answers, results, profiles, gamification>>

NoResult == {}                \* every result levels the required skills
Statuses == {NoSession, "in_progress", "completed"}

\* agent_prompt is null in the payload of the answer that completes.
Answer == [submission : Submissions, session : Sessions, completing : BOOLEAN]

Ended ==
  {"replayed",    \* 200, the stored prompt
   "refused",     \* 409, the session is terminal
   "not_found",   \* 404
   "continued",   \* 200, with the next prompt
   "completed",   \* 200, the placement is over
   "conflict",    \* 500, a unique constraint
   "failed"}      \* 500, the agent, a NOT NULL constraint or a crash

Stages ==
  {"idle", "loaded", "checked", "replying", "completing", "seeding", "finishing"} \cup Ended

Transaction ==
  [stage : Stages,
   levels : SUBSET Skills,     \* the skills the agent gave a level for
   looked : SUBSET Skills,     \* those whose profile it has looked for
   pending : SUBSET Skills,    \* a missing profile not inserted yet
   seeded : SUBSET Skills,     \* the profiles it has inserted
   first : BOOLEAN]            \* it found no gamification profile

Blank ==
  [stage |-> "idle", levels |-> {}, looked |-> {}, pending |-> {}, seeded |-> {},
   first |-> FALSE]

TypeOK ==
  /\ sessions \in [Sessions -> Statuses]
  /\ answers \subseteq Answer
  /\ results \in [Sessions -> SUBSET Skills]
  /\ profiles \in [Skills -> Sessions \cup {NoSession}]
  /\ gamification \in BOOLEAN
  /\ tx \in [Requests -> Transaction]

Init ==
  /\ sessions = [p \in Sessions |-> NoSession]
  /\ answers = {}
  /\ results = [p \in Sessions |-> NoResult]
  /\ profiles = [k \in Skills |-> NoSession]
  /\ gamification = FALSE
  /\ tx = [r \in Requests |-> Blank]

-----------------------------------------------------------------------------
(* What a completing request holds between its flushes and its commit. *)

\* HoldsSession whose failed flush is never rolled back.
HoldsSessionAfterConflict(r) ==
  tx[r].stage \in {"seeding", "finishing", "conflict"}

HoldsSession(r) == tx[r].stage \in {"seeding", "finishing"}

HoldsProfile(r, k) == k \in tx[r].seeded

SessionFree(r) ==
  \A other \in Requests \ {r} : HoldsSession(other) => SessionOf[other] # SessionOf[r]

KeyFree(r) ==
  \A other \in Requests \ {r} : HoldsSession(other) => SubmissionOf[other] # SubmissionOf[r]

PendingFree(r) ==
  \A other \in Requests \ {r}, k \in tx[r].pending : ~HoldsProfile(other, k)

Recorded(r) == \E a \in answers : a.submission = SubmissionOf[r]

HasResult(r) == results[SessionOf[r]] # NoResult

Moves(r, next) == tx' = [tx EXCEPT ![r] = next] /\ UNCHANGED database

End(r, outcome) == Moves(r, [Blank EXCEPT !.stage = outcome])

-----------------------------------------------------------------------------
\* StartSession with the status of a conversation session.
StartActiveSession(p) ==
  /\ sessions[p] = NoSession
  /\ sessions' = [sessions EXCEPT ![p] = "active"]
  /\ UNCHANGED <<answers, results, profiles, gamification, tx>>

\* start_session: nothing looks for a session already in progress.
StartSession(p) ==
  /\ sessions[p] = NoSession
  /\ sessions' = [sessions EXCEPT ![p] = "in_progress"]
  /\ UNCHANGED <<answers, results, profiles, gamification, tx>>

\* The status is read here, without a lock, and never again.
LoadSession(r) ==
  /\ tx[r].stage = "idle"
  /\ CASE sessions[SessionOf[r]] = NoSession   -> End(r, "not_found")
       [] sessions[SessionOf[r]] = "completed" -> End(r, "refused")
       [] OTHER -> Moves(r, [Blank EXCEPT !.stage = "loaded"])

CheckDuplicate(r) ==
  /\ tx[r].stage = "loaded"
  /\ IF Recorded(r) THEN End(r, "replayed") ELSE Moves(r, [tx[r] EXCEPT !.stage = "checked"])

\* The agent asks on, or completes the placement with its levels.
AskAgent(r) ==
  /\ tx[r].stage = "checked"
  /\ \/ Moves(r, [tx[r] EXCEPT !.stage = "replying"])
     \/ \E levels \in Signals :
          Moves(r, [tx[r] EXCEPT !.stage = "completing", !.levels = levels])

\* The provider raises, the process dies or the connection breaks.
Fail(r) ==
  /\ tx[r].stage \notin Ended \cup {"idle"}
  /\ End(r, "failed")

\* The answer is recorded and the next prompt returned; the session row is
\* neither read again nor written.
Continue(r) ==
  /\ tx[r].stage = "replying"
  /\ KeyFree(r)
  /\ IF Recorded(r)
     THEN End(r, "conflict")
     ELSE /\ answers' = answers \cup {[submission |-> SubmissionOf[r],
                                       session |-> SessionOf[r], completing |-> FALSE]}
          /\ tx' = [tx EXCEPT ![r] = [Blank EXCEPT !.stage = "continued"]]
          /\ UNCHANGED <<sessions, results, profiles, gamification>>

\* FlushCompletion without the unique session of a result.
FlushSecondCompletion(r) ==
  /\ tx[r].stage = "completing"
  /\ SessionFree(r) /\ KeyFree(r)
  /\ IF ~(Required \subseteq tx[r].levels) THEN End(r, "failed")
     ELSE IF Recorded(r) THEN End(r, "conflict")
     ELSE Moves(r, [tx[r] EXCEPT !.stage = "seeding"])

\* _complete_session: the first look for a profile flushes the session's new
\* status, the result and the answer.
FlushCompletion(r) ==
  /\ tx[r].stage = "completing"
  /\ SessionFree(r) /\ KeyFree(r)
  /\ IF ~(Required \subseteq tx[r].levels) THEN End(r, "failed")
     ELSE IF HasResult(r) \/ Recorded(r) THEN End(r, "conflict")
     ELSE Moves(r, [tx[r] EXCEPT !.stage = "seeding"])

\* Due for the skills of a text answer only.
DueRequired(r) == (tx[r].levels \cap Required) \ tx[r].looked

\* The skills still to look up.
Due(r) == tx[r].levels \ tx[r].looked

\* ... in the order of _RESULT_SKILL_FIELDS.
IsNext(r, skill) ==
  \E i \in DOMAIN SkillOrder :
    SkillOrder[i] = skill /\ \A j \in DOMAIN SkillOrder : j < i => SkillOrder[j] \notin Due(r)

\* Flushing a pending profile as an insertion that ignores a row already there.
FlushIgnoring(r, next) ==
  Moves(r, [next EXCEPT !.seeded = @ \cup tx[r].pending])

\* Each query first inserts the profile found missing by the one before: refused
\* when another completion has inserted it since.
FlushPending(r, next) ==
  /\ PendingFree(r)
  /\ IF \A k \in tx[r].pending : profiles[k] = NoSession
     THEN Moves(r, [next EXCEPT !.seeded = @ \cup tx[r].pending])
     ELSE End(r, "conflict")

\* _bootstrap_learner_skill_profiles: is there a profile for the next skill?
LookUpProfile(r) ==
  /\ tx[r].stage = "seeding"
  /\ \E skill \in Due(r) :
       /\ IsNext(r, skill)
       /\ FlushPending(r, [tx[r] EXCEPT
            !.looked = @ \cup {skill},
            !.pending = IF profiles[skill] = NoSession THEN {skill} ELSE {}])

\* _bootstrap_gamification_profile
LookUpGamification(r) ==
  /\ tx[r].stage = "seeding"
  /\ Due(r) = {}
  /\ FlushPending(r, [tx[r] EXCEPT !.stage = "finishing", !.pending = {},
                                   !.first = ~gamification])

\* SeededProfiles as an upsert.
UpsertedProfiles(r) ==
  [k \in Skills |-> IF k \in tx[r].levels THEN SessionOf[r] ELSE profiles[k]]

SeededProfiles(r) ==
  [k \in Skills |-> IF k \in tx[r].seeded THEN SessionOf[r] ELSE profiles[k]]

Complete(r) ==
  /\ tx[r].stage = "finishing"
  /\ IF tx[r].first /\ gamification
     THEN End(r, "conflict")
     ELSE /\ sessions' = [sessions EXCEPT ![SessionOf[r]] = "completed"]
          /\ answers' = answers \cup {[submission |-> SubmissionOf[r],
                                       session |-> SessionOf[r], completing |-> TRUE]}
          /\ results' = [results EXCEPT ![SessionOf[r]] = tx[r].levels]
          /\ profiles' = SeededProfiles(r)
          /\ gamification' = TRUE
          /\ tx' = [tx EXCEPT ![r] = [Blank EXCEPT !.stage = "completed"]]

Step(r) ==
  \/ LoadSession(r) \/ CheckDuplicate(r) \/ AskAgent(r) \/ Continue(r)
  \/ FlushCompletion(r) \/ LookUpProfile(r) \/ LookUpGamification(r) \/ Complete(r)

Next ==
  \/ \E p \in Sessions : StartSession(p)
  \/ \E r \in Requests : Step(r) \/ Fail(r)

Spec == Init /\ [][Next]_vars

-----------------------------------------------------------------------------
(* The event loop runs every request on, Postgres grants a row once it is  *)
(* free, and the agent call returns or raises.                             *)

FairSpec == Spec /\ \A r \in Requests : WF_vars(Step(r))

\* Completions of several sessions wait for each other's rows and keys, and
\* still every answer gets a response.
EveryAnswerEnds == \A r \in Requests : <>(tx[r].stage \in Ended)

\* A session is completed exactly when it has a result, and then exactly one
\* answer completed it, though its status is read without a lock and written
\* much later: the unique result turns the second completion away.
CompletedOnce ==
  \A p \in Sessions :
    LET completing == {a \in answers : a.session = p /\ a.completing}
    IN /\ (sessions[p] = "completed") <=> (results[p] # NoResult)
       /\ Cardinality(completing) = IF sessions[p] = "completed" THEN 1 ELSE 0

\* A student with a result can enter the learning loop: every level of the
\* result has its profile and the student has a gamification profile.
ResultsAreSeeded ==
  \A p \in Sessions :
    results[p] # NoResult =>
      /\ gamification
      /\ \A k \in results[p] : profiles[k] # NoSession

\* The gamification profile is looked up and inserted without a lock, but two
\* completions can never both find it missing: the required skills' profiles,
\* seeded before, admit only one of them.
GamificationNeverCollides ==
  \A r \in Requests : tx[r].stage = "finishing" /\ tx[r].first => ~gamification

\* A later placement never takes a skill away from the one that seeded it, and
\* no result is ever replaced: what the student learned since then survives.
SeedsAndResultsStay ==
  [][/\ \A k \in Skills : profiles[k] # NoSession => profiles'[k] = profiles[k]
     /\ \A p \in Sessions : results[p] # NoResult => results'[p] = results[p]]_vars

=============================================================================
