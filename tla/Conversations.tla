---------------------------- MODULE Conversations ----------------------------
(***************************************************************************)
(* The practice conversations of several students: starting or resuming a  *)
(* session, and what a message finds and leaves in it.  Each request is a  *)
(* transaction at READ COMMITTED, sent by a browser tab that waits for its *)
(* answer.                                                                 *)
(*                                                                         *)
(* LearningLoop has the scored effects of a turn, row by row; here they    *)
(* are one event.  What the agent says is left out: a turn is its number.  *)
(* So is the order of a history: created_at is the start of a transaction, *)
(* the same for both messages of a turn, so ORDER BY created_at leaves it  *)
(* open which comes first.  The offline agent only counts the messages.    *)
(***************************************************************************)
EXTENDS Naturals, Sequences, FiniteSets

CONSTANTS
  Students,
  Tabs,          \* the browser tabs
  OwnerOf,       \* the student a tab belongs to
  Skills,        \* the skills a placement makes profiles for
  NoSkill,       \* "conversation", a name outside the Skill enum
  MaxSessions,   \* bound on the sessions
  MaxTurns       \* bound on the messages sent

ASSUME ConversationsAssumption ==
  /\ OwnerOf \in [Tabs -> Students]
  /\ NoSkill \notin Skills
  /\ MaxSessions \in Nat /\ MaxTurns \in Nat

VARIABLES
  sessions,  \* conversation_sessions in order of commit; none is ever ended
  messages,  \* messages
  events,    \* the CONVERSATION_TURN_COMPLETED events
  placed,    \* the students with learner_skill_profiles
  clock,     \* how many messages were sent, the number of the next turn
  tab        \* each tab and the request it waits for

vars == <<sessions, messages, events, placed, clock, tab>>

\* A session, and how many sessions its request could have found.
Session == [owner : Students, found : Nat]

Message == [session : 1..MaxSessions, turn : Nat, sender : {"student", "agent"}]

Event == [session : 1..MaxSessions, turn : Nat, skill : Skills]

Tab ==
  [stage : {"closed", "starting", "open", "sent", "asking"},
   session : 0..MaxSessions,
   found : Nat,               \* the sessions at its look-up
   turn : Nat,                \* the turn it sent last
   heard : SUBSET Message,    \* the history given to the agent
   skill : Skills \cup {NoSkill}]

ClosedTab ==
  [stage |-> "closed", session |-> 0, found |-> 0, turn |-> 0, heard |-> {}, skill |-> NoSkill]

TypeOK ==
  /\ sessions \in Seq(Session) /\ Len(sessions) <= MaxSessions
  /\ messages \subseteq Message
  /\ events \subseteq Event
  /\ placed \subseteq Students
  /\ clock \in 0..MaxTurns
  /\ tab \in [Tabs -> Tab]
  /\ \A t \in Tabs :
       tab[t].stage \in {"open", "sent", "asking"} =>
         /\ tab[t].session \in DOMAIN sessions
         /\ sessions[tab[t].session].owner = OwnerOf[t]

Init ==
  /\ sessions = <<>> /\ messages = {} /\ events = {} /\ placed = {} /\ clock = 0
  /\ tab = [t \in Tabs |-> ClosedTab]

-----------------------------------------------------------------------------
(* start_or_resume_session *)

Active(s) == {i \in DOMAIN sessions : sessions[i].owner = s}

\* Several active sessions: the query takes whichever row comes first.
Resume(t) ==
  /\ tab[t].stage = "closed"
  /\ \E i \in Active(OwnerOf[t]) :
       tab' = [tab EXCEPT ![t] = [ClosedTab EXCEPT !.stage = "open", !.session = i]]
  /\ UNCHANGED <<sessions, messages, events, placed, clock>>

\* Start anew without a look at the student's sessions.
FindNoneUnseen(t) ==
  /\ tab[t].stage = "closed"
  /\ tab' = [tab EXCEPT ![t] = [ClosedTab EXCEPT !.stage = "starting", !.found = Len(sessions)]]
  /\ UNCHANGED <<sessions, messages, events, placed, clock>>

FindNone(t) ==
  /\ tab[t].stage = "closed"
  /\ Active(OwnerOf[t]) = {}
  /\ tab' = [tab EXCEPT ![t] = [ClosedTab EXCEPT !.stage = "starting", !.found = Len(sessions)]]
  /\ UNCHANGED <<sessions, messages, events, placed, clock>>

Start(t) ==
  /\ tab[t].stage = "starting" /\ Len(sessions) < MaxSessions
  /\ sessions' = Append(sessions, [owner |-> OwnerOf[t], found |-> tab[t].found])
  /\ tab' = [tab EXCEPT ![t] = [ClosedTab EXCEPT !.stage = "open", !.session = Len(sessions) + 1]]
  /\ UNCHANGED <<messages, events, placed, clock>>

\* The tab is closed or reloaded; or its start fails, and the page says so.
Close(t) ==
  /\ tab[t].stage \in {"starting", "open"}
  /\ tab' = [tab EXCEPT ![t] = ClosedTab]
  /\ UNCHANGED <<sessions, messages, events, placed, clock>>

-----------------------------------------------------------------------------
(* send_message *)

Send(t) ==
  /\ tab[t].stage = "open" /\ clock < MaxTurns
  /\ clock' = clock + 1
  /\ tab' = [tab EXCEPT ![t] = [@ EXCEPT !.stage = "sent", !.turn = clock]]
  /\ UNCHANGED <<sessions, messages, events, placed>>

History(i) == {m \in messages : m.session = i}

\* The name of the first row of a query without an order.
FirstSkill(s) == IF s \in placed THEN Skills ELSE {NoSkill}

Read(t) ==
  /\ tab[t].stage = "sent"
  /\ \E k \in FirstSkill(OwnerOf[t]) :
       tab' = [tab EXCEPT ![t] = [@ EXCEPT !.stage = "asking", !.skill = k,
                                           !.heard = History(tab[t].session)]]
  /\ UNCHANGED <<sessions, messages, events, placed, clock>>

\* The parity when the student's new message is in the history already.
IsScoredWithMessage(t) == (Cardinality(tab[t].heard) + 1) % 2 = 0

\* The offline agent: the parity of the history it is given.
IsScored(t) == Cardinality(tab[t].heard) % 2 = 0

MessageOf(t, sender) ==
  [session |-> tab[t].session, turn |-> tab[t].turn, sender |-> sender]

Idle(t) == [ClosedTab EXCEPT !.stage = "open", !.session = tab[t].session]

\* Take a skill outside the enum for an unscored turn.
ReplyAnyway(t) ==
  /\ tab[t].stage = "asking"
  /\ messages' = messages \cup {MessageOf(t, "student"), MessageOf(t, "agent")}
  /\ events' = events \cup
       {[session |-> tab[t].session, turn |-> tab[t].turn, skill |-> k] :
          k \in Skills \cap {tab[t].skill}}
  /\ tab' = [tab EXCEPT ![t] = Idle(t)]
  /\ UNCHANGED <<sessions, placed, clock>>

\* Both messages, the event and its effects are committed together.
Reply(t) ==
  /\ tab[t].stage = "asking"
  /\ IsScored(t) => tab[t].skill \in Skills
  /\ messages' = messages \cup {MessageOf(t, "student"), MessageOf(t, "agent")}
  /\ events' = IF IsScored(t)
               THEN events \cup {[session |-> tab[t].session, turn |-> tab[t].turn,
                                  skill |-> tab[t].skill]}
               ELSE events
  /\ tab' = [tab EXCEPT ![t] = Idle(t)]
  /\ UNCHANGED <<sessions, placed, clock>>

\* The agent fails, or Skill(output.skill) raises: the request is answered with
\* 500 and its transaction is rolled back.  The first may happen to any turn.
Fail(t) ==
  /\ tab[t].stage = "asking"
  /\ tab' = [tab EXCEPT ![t] = Idle(t)]
  /\ UNCHANGED <<sessions, messages, events, placed, clock>>

-----------------------------------------------------------------------------
\* A placement of the student is completed meanwhile.
Place(s) ==
  /\ s \notin placed
  /\ placed' = placed \cup {s}
  /\ UNCHANGED <<sessions, messages, events, clock, tab>>

Next ==
  \/ \E t \in Tabs :
       \/ Resume(t) \/ FindNone(t) \/ Start(t) \/ Close(t)
       \/ Send(t) \/ Read(t) \/ Reply(t) \/ Fail(t)
  \/ \E s \in Students : Place(s)

Spec == Init /\ [][Next]_vars

-----------------------------------------------------------------------------
(* Properties. *)

\* A student may get a second active session, but only by two starts that
\* overlap: no request that looks after the first one's commit adds another.
SecondSessionsAreRaces ==
  \A i, j \in DOMAIN sessions :
    i < j /\ sessions[i].owner = sessions[j].owner => i > sessions[j].found

\* spec.md, Edge Cases: with the offline agent a student who is not placed gets
\* nowhere by going straight to the conversation: no message of such a student
\* is ever stored, and none changes a skill.
UnplacedNeverConverse ==
  \A m \in messages : m.session \in DOMAIN sessions /\ sessions[m.session].owner \in placed

\* The offline agent scores by the parity of the history: as histories consist
\* of whole turns, and turns that overlap are given whole turns only, every
\* stored turn has its event, and none goes unscored.
EveryTurnIsScored ==
  \A m \in messages : \E e \in events : e.session = m.session /\ e.turn = m.turn

=============================================================================
