------------------------- MODULE ConversationsProofs -------------------------
(***************************************************************************)
(* Sessions and messages for any number of students, tabs and turns: only  *)
(* races double a session, histories consist of whole turns, and nobody    *)
(* converses before being placed.                                          *)
(***************************************************************************)
EXTENDS Conversations, FiniteSetTheorems, TLAPS

\* What a start did not find is still not among the sessions it looked at.
NothingFound ==
  \A t \in Tabs : tab[t].stage = "starting" =>
    /\ tab[t].found <= Len(sessions)
    /\ \A i \in 1..tab[t].found : sessions[i].owner # OwnerOf[t]

InFlight(t) == tab[t].stage \in {"sent", "asking"}

\* A turn in flight has a number of its own and no messages yet.
TurnsAreDistinct ==
  /\ \A m \in messages : m.turn < clock
  /\ \A t \in Tabs : InFlight(t) =>
       /\ tab[t].turn < clock
       /\ \A m \in messages : m.turn # tab[t].turn
       /\ \A u \in Tabs : InFlight(u) /\ u # t => tab[u].turn # tab[t].turn

IsPaired(h) == IsFiniteSet(h) /\ \E k \in Nat : Cardinality(h) = 2 * k

\* Histories are finite and have an even number of messages.
HistoriesArePaired ==
  /\ \A i \in 1..MaxSessions : IsPaired(History(i))
  /\ \A t \in Tabs : tab[t].stage = "asking" => IsPaired(tab[t].heard)

SkillsArePlaced ==
  \A t \in Tabs : tab[t].stage = "asking" /\ tab[t].skill \in Skills => OwnerOf[t] \in placed

SessionInv == SecondSessionsAreRaces /\ NothingFound
PairInv == TurnsAreDistinct /\ HistoriesArePaired
PlacedInv == UnplacedNeverConverse /\ SkillsArePlaced /\ EveryTurnIsScored

-----------------------------------------------------------------------------
LEMMA InitType == Init => TypeOK
BY ConversationsAssumption DEF Init, TypeOK, ClosedTab, Tab

\* The rows the actions put in place of a tab.
Opened(i) == [ClosedTab EXCEPT !.stage = "open", !.session = i]
Starting == [ClosedTab EXCEPT !.stage = "starting", !.found = Len(sessions)]
Sent(t) == [tab[t] EXCEPT !.stage = "sent", !.turn = clock]
Asking(t, k) == [tab[t] EXCEPT !.stage = "asking", !.skill = k, !.heard = History(tab[t].session)]

LEMMA OpenedType ==
  ASSUME NEW i \in 0..MaxSessions
  PROVE  Opened(i) \in Tab /\ Opened(i).stage = "open" /\ Opened(i).session = i
BY DEF Opened, ClosedTab, Tab

LEMMA ClosedType == ClosedTab \in Tab /\ ClosedTab.stage = "closed"
BY ConversationsAssumption DEF ClosedTab, Tab

LEMMA StartingType ==
  ASSUME TypeOK
  PROVE  Starting \in Tab /\ Starting.stage = "starting" /\ Starting.found = Len(sessions)
<1>1. Len(sessions) \in Nat
  BY DEF TypeOK
<1> QED
  BY <1>1, ClosedType DEF Starting, Tab

LEMMA SentType ==
  ASSUME TypeOK, NEW t \in Tabs
  PROVE  /\ Sent(t) \in Tab /\ Sent(t).stage = "sent"
         /\ Sent(t).session = tab[t].session /\ Sent(t).turn = clock
<1>1. tab[t] \in Tab /\ clock \in Nat
  BY DEF TypeOK
<1> QED
  BY <1>1 DEF Sent, Tab

LEMMA AskingType ==
  ASSUME TypeOK, NEW t \in Tabs, NEW k \in Skills \cup {NoSkill}
  PROVE  /\ Asking(t, k) \in Tab /\ Asking(t, k).stage = "asking"
         /\ Asking(t, k).session = tab[t].session /\ Asking(t, k).turn = tab[t].turn
         /\ Asking(t, k).skill = k /\ Asking(t, k).heard = History(tab[t].session)
<1>1. tab[t] \in Tab /\ History(tab[t].session) \subseteq Message
  BY DEF TypeOK, History
<1> QED
  BY <1>1 DEF Asking, Tab

\* What each action does to the tabs, in these terms.
LEMMA Shapes ==
  ASSUME TypeOK, NEW t \in Tabs
  PROVE  /\ Resume(t) => \E i \in Active(OwnerOf[t]) : tab' = [tab EXCEPT ![t] = Opened(i)]
         /\ FindNone(t) => tab' = [tab EXCEPT ![t] = Starting]
         /\ Start(t) => tab' = [tab EXCEPT ![t] = Opened(Len(sessions) + 1)]
         /\ Send(t) => tab' = [tab EXCEPT ![t] = Sent(t)]
         /\ Read(t) => \E k \in FirstSkill(OwnerOf[t]) : tab' = [tab EXCEPT ![t] = Asking(t, k)]
         /\ Reply(t) \/ Fail(t) => tab' = [tab EXCEPT ![t] = Opened(tab[t].session)]
BY DEF TypeOK, Resume, FindNone, Start, Send, Read, Reply, Fail, Idle,
       Opened, Starting, Sent, Asking

LEMMA MessageType ==
  ASSUME TypeOK, NEW t \in Tabs, tab[t].stage = "asking"
  PROVE  /\ tab[t].session \in 1..MaxSessions /\ tab[t].turn \in Nat
         /\ MessageOf(t, "student") \in Message
         /\ MessageOf(t, "agent") \in Message
<1>1. tab[t] \in Tab /\ tab[t].session \in DOMAIN sessions
  BY DEF TypeOK
<1>2. tab[t].session \in 1..MaxSessions
  BY <1>1, ConversationsAssumption DEF TypeOK
<1> QED
  BY <1>1, <1>2 DEF MessageOf, Message, Tab

\* A step that changes one tab only.
LEMMA TabType ==
  ASSUME TypeOK, NEW t \in Tabs, NEW r \in Tab, tab' = [tab EXCEPT ![t] = r],
         UNCHANGED sessions,
         r.stage \in {"open", "sent", "asking"} =>
           r.session \in DOMAIN sessions /\ sessions[r.session].owner = OwnerOf[t]
  PROVE  /\ tab' \in [Tabs -> Tab]
         /\ \A u \in Tabs :
              tab'[u].stage \in {"open", "sent", "asking"} =>
                /\ tab'[u].session \in DOMAIN sessions'
                /\ sessions'[tab'[u].session].owner = OwnerOf[u]
BY DEF TypeOK

LEMMA NextType == ASSUME TypeOK, [Next]_vars PROVE TypeOK'
<1> USE ConversationsAssumption
<1>1. ASSUME NEW t \in Tabs, Resume(t) PROVE TypeOK'
  <2>1. PICK i \in Active(OwnerOf[t]) : tab' = [tab EXCEPT ![t] = Opened(i)]
    BY <1>1, Shapes
  <2>2. i \in DOMAIN sessions /\ sessions[i].owner = OwnerOf[t] /\ i \in 0..MaxSessions
    BY DEF Active, TypeOK
  <2> QED
    BY <1>1, <2>1, <2>2, OpenedType, TabType DEF TypeOK, Resume
<1>2. ASSUME NEW t \in Tabs, FindNone(t) PROVE TypeOK'
  BY <1>2, Shapes, StartingType, TabType DEF TypeOK, FindNone
<1>3. ASSUME NEW t \in Tabs, Start(t) PROVE TypeOK'
  <2>1. [owner |-> OwnerOf[t], found |-> tab[t].found] \in Session
    BY DEF TypeOK, Session, Tab
  <2>2. /\ sessions' \in Seq(Session) /\ Len(sessions') = Len(sessions) + 1
        /\ \A i \in DOMAIN sessions : i \in DOMAIN sessions' /\ sessions'[i] = sessions[i]
        /\ sessions'[Len(sessions) + 1].owner = OwnerOf[t]
        /\ Len(sessions) + 1 \in DOMAIN sessions'
    BY <1>3, <2>1 DEF TypeOK, Start
  <2>3. Len(sessions) + 1 \in 0..MaxSessions /\ Len(sessions') <= MaxSessions
    BY <1>3, <2>2 DEF TypeOK, Start
  <2>4. tab' = [tab EXCEPT ![t] = Opened(Len(sessions) + 1)]
    BY <1>3, Shapes
  <2>5. Opened(Len(sessions) + 1) \in Tab /\ Opened(Len(sessions) + 1).session = Len(sessions) + 1
    BY <2>3, OpenedType
  <2>6. \A u \in Tabs :
          tab'[u].stage \in {"open", "sent", "asking"} =>
            /\ tab'[u].session \in DOMAIN sessions'
            /\ sessions'[tab'[u].session].owner = OwnerOf[u]
    BY <2>2, <2>4, <2>5 DEF TypeOK
  <2> QED
    BY <1>3, <2>2, <2>3, <2>4, <2>5, <2>6 DEF TypeOK, Start
<1>4. ASSUME NEW t \in Tabs, Close(t) PROVE TypeOK'
  BY <1>4, ClosedType, TabType DEF TypeOK, Close
<1>5. ASSUME NEW t \in Tabs, Send(t) PROVE TypeOK'
  <2>1. tab' = [tab EXCEPT ![t] = Sent(t)] /\ Sent(t) \in Tab /\ Sent(t).session = tab[t].session
    BY <1>5, Shapes, SentType
  <2>2. tab[t].session \in DOMAIN sessions /\ sessions[tab[t].session].owner = OwnerOf[t]
    BY <1>5 DEF TypeOK, Send
  <2>3. UNCHANGED sessions /\ clock' \in 0..MaxTurns
    BY <1>5 DEF TypeOK, Send
  <2> QED
    BY <1>5, <2>1, <2>2, <2>3, TabType DEF TypeOK, Send
<1>6. ASSUME NEW t \in Tabs, Read(t) PROVE TypeOK'
  <2>1. PICK k \in FirstSkill(OwnerOf[t]) : tab' = [tab EXCEPT ![t] = Asking(t, k)]
    BY <1>6, Shapes
  <2>2. k \in Skills \cup {NoSkill}
    BY DEF FirstSkill
  <2> QED
    BY <1>6, <2>1, <2>2, AskingType, TabType DEF TypeOK, Read
<1>7. ASSUME NEW t \in Tabs, Reply(t) PROVE TypeOK'
  <2>1. tab[t].stage = "asking" /\ (IsScored(t) => tab[t].skill \in Skills)
    BY <1>7 DEF Reply
  <2>2. messages' \subseteq Message
    BY <1>7, <2>1, MessageType DEF TypeOK, Reply
  <2>3. events' \subseteq Event
    BY <1>7, <2>1, MessageType DEF TypeOK, Reply, Event
  <2>4. /\ tab' = [tab EXCEPT ![t] = Opened(tab[t].session)]
        /\ Opened(tab[t].session) \in Tab /\ Opened(tab[t].session).session = tab[t].session
    BY <1>7, <2>1, MessageType, Shapes, OpenedType
  <2>5. tab[t].session \in DOMAIN sessions /\ sessions[tab[t].session].owner = OwnerOf[t]
    BY <2>1 DEF TypeOK
  <2>6. UNCHANGED <<sessions, placed, clock>>
    BY <1>7 DEF Reply
  <2> QED
    BY <2>2, <2>3, <2>4, <2>5, <2>6, TabType DEF TypeOK
<1>8. ASSUME NEW t \in Tabs, Fail(t) PROVE TypeOK'
  <2>1. tab[t].stage = "asking" /\ UNCHANGED <<sessions, messages, events, placed, clock>>
    BY <1>8 DEF Fail
  <2>2. /\ tab' = [tab EXCEPT ![t] = Opened(tab[t].session)]
        /\ Opened(tab[t].session) \in Tab /\ Opened(tab[t].session).session = tab[t].session
    BY <1>8, <2>1, MessageType, Shapes, OpenedType
  <2>3. tab[t].session \in DOMAIN sessions /\ sessions[tab[t].session].owner = OwnerOf[t]
    BY <2>1 DEF TypeOK
  <2> QED
    BY <2>1, <2>2, <2>3, TabType DEF TypeOK
<1>9. ASSUME NEW s \in Students, Place(s) PROVE TypeOK'
  BY <1>9 DEF TypeOK, Place
<1>10. CASE UNCHANGED vars
  BY <1>10 DEF TypeOK, vars
<1> QED
  BY <1>1, <1>2, <1>3, <1>4, <1>5, <1>6, <1>7, <1>8, <1>9, <1>10 DEF Next

-----------------------------------------------------------------------------
(* What the actions do to their own tab; the others stay as they are. *)

OthersStay(t) == \A u \in Tabs : u # t => tab'[u] = tab[u]

LEMMA OneTab ==
  ASSUME TypeOK, NEW t \in Tabs, NEW r, tab' = [tab EXCEPT ![t] = r]
  PROVE  tab'[t] = r /\ OthersStay(t)
BY DEF TypeOK, OthersStay

LEMMA Settles ==
  ASSUME TypeOK, NEW t \in Tabs, Resume(t) \/ Start(t) \/ Close(t) \/ Reply(t) \/ Fail(t)
  PROVE  tab'[t].stage \in {"open", "closed"} /\ OthersStay(t)
<1>1. CASE Resume(t)
  <2>1. PICK i \in Active(OwnerOf[t]) : tab' = [tab EXCEPT ![t] = Opened(i)]
    BY <1>1, Shapes
  <2>2. i \in 0..MaxSessions
    BY ConversationsAssumption DEF Active, TypeOK
  <2>3. tab'[t] = Opened(i) /\ OthersStay(t)
    BY <2>1, OneTab
  <2> QED
    BY <2>2, <2>3, OpenedType
<1>2. CASE Start(t)
  <2>1. Len(sessions) + 1 \in 0..MaxSessions
    BY <1>2, ConversationsAssumption DEF Start, TypeOK
  <2>2. tab' = [tab EXCEPT ![t] = Opened(Len(sessions) + 1)]
    BY <1>2, Shapes
  <2>3. tab'[t] = Opened(Len(sessions) + 1) /\ OthersStay(t)
    BY <2>2, OneTab
  <2> QED
    BY <2>1, <2>3, OpenedType
<1>3. CASE Close(t)
  <2>1. tab' = [tab EXCEPT ![t] = ClosedTab]
    BY <1>3 DEF Close
  <2> QED
    BY <2>1, ClosedType, OneTab
<1>4. CASE Reply(t) \/ Fail(t)
  <2>1. tab[t].stage = "asking"
    BY <1>4 DEF Reply, Fail
  <2>2. tab[t].session \in 0..MaxSessions
    BY <2>1, MessageType
  <2>3. tab' = [tab EXCEPT ![t] = Opened(tab[t].session)]
    BY <1>4, Shapes
  <2>4. tab'[t] = Opened(tab[t].session) /\ OthersStay(t)
    BY <2>3, OneTab
  <2> QED
    BY <2>2, <2>4, OpenedType
<1> QED
  BY <1>1, <1>2, <1>3, <1>4

LEMMA Looks ==
  ASSUME TypeOK, NEW t \in Tabs, FindNone(t)
  PROVE  tab'[t].stage = "starting" /\ tab'[t].found = Len(sessions) /\ OthersStay(t)
<1>1. tab' = [tab EXCEPT ![t] = Starting]
  BY Shapes
<1>2. tab'[t] = Starting /\ OthersStay(t)
  BY <1>1, OneTab
<1> QED
  BY <1>2, StartingType

LEMMA Sends ==
  ASSUME TypeOK, NEW t \in Tabs, Send(t)
  PROVE  tab'[t].stage = "sent" /\ tab'[t].turn = clock /\ OthersStay(t)
<1>1. tab' = [tab EXCEPT ![t] = Sent(t)]
  BY Shapes
<1>2. tab'[t] = Sent(t) /\ OthersStay(t)
  BY <1>1, OneTab
<1> QED
  BY <1>2, SentType

LEMMA Asks ==
  ASSUME TypeOK, NEW t \in Tabs, Read(t)
  PROVE  /\ tab'[t].stage = "asking" /\ tab'[t].turn = tab[t].turn
         /\ tab'[t].heard = History(tab[t].session) /\ tab'[t].skill \in FirstSkill(OwnerOf[t])
         /\ OthersStay(t)
<1>1. PICK k \in FirstSkill(OwnerOf[t]) : tab' = [tab EXCEPT ![t] = Asking(t, k)]
  BY Shapes
<1>2. k \in Skills \cup {NoSkill}
  BY DEF FirstSkill
<1>3. tab'[t] = Asking(t, k) /\ OthersStay(t)
  BY <1>1, OneTab
<1> QED
  BY <1>2, <1>3, AskingType

-----------------------------------------------------------------------------
\* A step that neither adds a session nor looks for one.
LEMMA OtherSession ==
  ASSUME TypeOK, SessionInv, UNCHANGED sessions,
         \A t \in Tabs : tab'[t].stage = "starting" => tab'[t] = tab[t]
  PROVE  SessionInv'
BY DEF SessionInv, SecondSessionsAreRaces, NothingFound

LEMMA NextSession == ASSUME TypeOK, SessionInv, [Next]_vars PROVE SessionInv'
<1>1. ASSUME NEW t \in Tabs, FindNone(t) PROVE SessionInv'
  <2>1. tab'[t].found = Len(sessions) /\ OthersStay(t) /\ UNCHANGED sessions
    BY <1>1, Looks DEF FindNone
  <2>2. Len(sessions) \in Nat /\ \A i \in 1..Len(sessions) : sessions[i].owner # OwnerOf[t]
    BY <1>1 DEF FindNone, Active, TypeOK
  <2>3. NothingFound'
    BY <2>1, <2>2 DEF SessionInv, NothingFound, OthersStay
  <2> QED
    BY <2>1, <2>3 DEF SessionInv, SecondSessionsAreRaces
<1>2. ASSUME NEW t \in Tabs, Start(t) PROVE SessionInv'
  <2>1. /\ Len(sessions') = Len(sessions) + 1
        /\ \A i \in DOMAIN sessions : sessions'[i] = sessions[i]
        /\ sessions'[Len(sessions) + 1] = [owner |-> OwnerOf[t], found |-> tab[t].found]
        /\ Len(sessions) \in Nat
        /\ DOMAIN sessions = 1..Len(sessions) /\ DOMAIN sessions' = 1..Len(sessions')
    BY <1>2 DEF TypeOK, Start
  <2>2. SecondSessionsAreRaces'
    <3> SUFFICES ASSUME NEW i \in DOMAIN sessions', NEW j \in DOMAIN sessions', i < j,
                        sessions'[i].owner = sessions'[j].owner
                 PROVE  i > sessions'[j].found
      BY DEF SecondSessionsAreRaces
    <3>1. i \in DOMAIN sessions /\ sessions'[i] = sessions[i]
      BY <2>1
    <3>2. CASE j \in DOMAIN sessions
      BY <2>1, <3>1, <3>2 DEF SessionInv, SecondSessionsAreRaces
    <3>3. CASE j = Len(sessions) + 1
      <4>1. sessions[i].owner = OwnerOf[t] /\ sessions'[j].found = tab[t].found
        BY <2>1, <3>1, <3>3
      <4>2. tab[t].found \in Nat /\ i \in Nat /\ i >= 1
        BY <2>1, <3>1 DEF TypeOK, Tab
      <4>3. \A k \in 1..tab[t].found : sessions[k].owner # OwnerOf[t]
        BY <1>2 DEF Start, SessionInv, NothingFound
      <4> QED
        BY <4>1, <4>2, <4>3
    <3> QED
      BY <2>1, <3>2, <3>3
  <2>3. NothingFound'
    <3> SUFFICES ASSUME NEW u \in Tabs, tab'[u].stage = "starting"
                 PROVE  /\ tab'[u].found <= Len(sessions')
                        /\ \A i \in 1..tab'[u].found : sessions'[i].owner # OwnerOf[u]
      BY DEF NothingFound
    <3>1. tab'[u] = tab[u]
      BY <1>2, Settles DEF OthersStay
    <3>2. tab[u].found \in Nat
      BY DEF TypeOK, Tab
    <3>3. tab[u].found <= Len(sessions) /\ \A i \in 1..tab[u].found : sessions[i].owner # OwnerOf[u]
      BY <3>1 DEF SessionInv, NothingFound
    <3> QED
      BY <2>1, <3>1, <3>2, <3>3
  <2> QED
    BY <2>2, <2>3 DEF SessionInv
<1>3. ASSUME NEW t \in Tabs, Resume(t) \/ Close(t) \/ Reply(t) \/ Fail(t) PROVE SessionInv'
  <2>1. UNCHANGED sessions
    BY <1>3 DEF Resume, Close, Reply, Fail
  <2> QED
    BY <1>3, <2>1, Settles, OtherSession DEF OthersStay
<1>4. ASSUME NEW t \in Tabs, Send(t) \/ Read(t) PROVE SessionInv'
  <2>1. UNCHANGED sessions
    BY <1>4 DEF Send, Read
  <2> QED
    BY <1>4, <2>1, Sends, Asks, OtherSession DEF OthersStay
<1>5. CASE UNCHANGED <<sessions, tab>>
  BY <1>5, OtherSession
<1> QED
  BY <1>1, <1>2, <1>3, <1>4, <1>5 DEF Next, Place, vars

-----------------------------------------------------------------------------
LEMMA PairedIsEven == ASSUME NEW h, IsPaired(h) PROVE Cardinality(h) % 2 = 0
BY DEF IsPaired

\* Two more messages keep a history paired.
LEMMA PairUp ==
  ASSUME NEW h, IsPaired(h), NEW x, NEW y, x \notin h, y \notin h, x # y
  PROVE  IsPaired(h \cup {x, y})
<1>1. PICK k \in Nat : Cardinality(h) = 2 * k
  BY DEF IsPaired
<1>2. IsFiniteSet(h \cup {x}) /\ Cardinality(h \cup {x}) = 2 * k + 1
  BY <1>1, FS_AddElement DEF IsPaired
<1>3. (h \cup {x}) \cup {y} = h \cup {x, y} /\ y \notin h \cup {x}
  OBVIOUS
<1>4. IsFiniteSet((h \cup {x}) \cup {y}) /\ Cardinality((h \cup {x}) \cup {y}) = 2 * k + 1 + 1
  BY <1>2, <1>3, FS_AddElement
<1>5. 2 * k + 1 + 1 = 2 * (k + 1) /\ k + 1 \in Nat
  OBVIOUS
<1> QED
  BY <1>3, <1>4, <1>5 DEF IsPaired

\* A step that stores no message and asks no agent.
LEMMA OtherPair ==
  ASSUME TypeOK, PairInv, UNCHANGED <<messages, clock>>,
         \A t \in Tabs : InFlight(t)' =>
           /\ InFlight(t) /\ tab'[t].turn = tab[t].turn
           /\ tab'[t].stage = "asking" => tab'[t] = tab[t]
  PROVE  PairInv'
BY DEF PairInv, TurnsAreDistinct, HistoriesArePaired, InFlight, History

LEMMA NextPair == ASSUME TypeOK, PairInv, [Next]_vars PROVE PairInv'
<1>1. ASSUME NEW t \in Tabs, Resume(t) \/ Start(t) \/ Close(t) \/ Fail(t) PROVE PairInv'
  <2>1. UNCHANGED <<messages, clock>>
    BY <1>1 DEF Resume, Start, Close, Fail
  <2> QED
    BY <1>1, <2>1, Settles, OtherPair DEF OthersStay, InFlight
<1>2. ASSUME NEW t \in Tabs, FindNone(t) PROVE PairInv'
  <2>1. UNCHANGED <<messages, clock>>
    BY <1>2 DEF FindNone
  <2> QED
    BY <1>2, <2>1, Looks, OtherPair DEF OthersStay, InFlight
<1>3. ASSUME NEW t \in Tabs, Send(t) PROVE PairInv'
  <2>1. UNCHANGED messages /\ clock' = clock + 1 /\ clock \in Nat
    BY <1>3 DEF Send, TypeOK
  <2>2. \A u \in Tabs : u # t => tab'[u] = tab[u]
    BY <1>3, Sends DEF OthersStay
  <2>3. tab'[t].stage = "sent" /\ tab'[t].turn = clock
    BY <1>3, Sends
  <2>4. \A m \in messages : m.turn \in Nat
    BY DEF TypeOK, Message
  <2>5. \A u \in Tabs : tab[u].turn \in Nat
    BY DEF TypeOK, Tab
  <2>6. TurnsAreDistinct'
    BY <2>1, <2>2, <2>3, <2>4, <2>5 DEF PairInv, TurnsAreDistinct, InFlight
  <2>7. HistoriesArePaired'
    BY <2>1, <2>2, <2>3 DEF PairInv, HistoriesArePaired, History
  <2> QED
    BY <2>6, <2>7 DEF PairInv
<1>4. ASSUME NEW t \in Tabs, Read(t) PROVE PairInv'
  <2>3. /\ tab'[t].stage = "asking" /\ tab'[t].turn = tab[t].turn
        /\ tab'[t].heard = History(tab[t].session)
    BY <1>4, Asks
  <2>4. \A u \in Tabs : u # t => tab'[u] = tab[u]
    BY <1>4, Asks DEF OthersStay
  <2>5. tab[t].stage = "sent" /\ UNCHANGED <<messages, clock>>
    BY <1>4 DEF Read
  <2>6. tab[t].session \in 1..MaxSessions
    BY <2>5, ConversationsAssumption DEF TypeOK
  <2>7. TurnsAreDistinct'
    BY <2>3, <2>4, <2>5 DEF PairInv, TurnsAreDistinct, InFlight
  <2>8. HistoriesArePaired'
    BY <2>3, <2>4, <2>5, <2>6 DEF PairInv, HistoriesArePaired, History
  <2> QED
    BY <2>7, <2>8 DEF PairInv
<1>5. ASSUME NEW t \in Tabs, Reply(t) PROVE PairInv'
  <2> DEFINE x == MessageOf(t, "student")
             y == MessageOf(t, "agent")
  <2>1. tab[t].stage = "asking" /\ messages' = messages \cup {x, y} /\ UNCHANGED clock
    BY <1>5 DEF Reply
  <2>2. /\ x.session = tab[t].session /\ y.session = tab[t].session
        /\ x.turn = tab[t].turn /\ y.turn = tab[t].turn /\ x # y
    BY DEF MessageOf
  <2> HIDE DEF x, y
  <2>3. x \notin messages /\ y \notin messages
    BY <2>1, <2>2 DEF PairInv, TurnsAreDistinct, InFlight
  <2>5. tab'[t].stage \in {"open", "closed"} /\ \A u \in Tabs : u # t => tab'[u] = tab[u]
    BY <1>5, Settles DEF OthersStay
  <2>6. TurnsAreDistinct'
    BY <2>1, <2>2, <2>5 DEF PairInv, TurnsAreDistinct, InFlight
  <2>7. ASSUME NEW i \in 1..MaxSessions PROVE IsPaired(History(i)')
    <3>1. CASE i = tab[t].session
      <4>1. History(i)' = History(i) \cup {x, y}
        BY <2>1, <2>2, <3>1 DEF History
      <4>2. x \notin History(i) /\ y \notin History(i) /\ IsPaired(History(i))
        BY <2>3 DEF History, PairInv, HistoriesArePaired
      <4> QED
        BY <2>2, <4>1, <4>2, PairUp
    <3>2. CASE i # tab[t].session
      <4>1. History(i)' = History(i)
        BY <2>1, <2>2, <3>2 DEF History
      <4> QED
        BY <4>1 DEF PairInv, HistoriesArePaired
    <3> QED
      BY <3>1, <3>2
  <2>8. HistoriesArePaired'
    BY <2>5, <2>7 DEF PairInv, HistoriesArePaired
  <2> QED
    BY <2>6, <2>8 DEF PairInv
<1>6. CASE UNCHANGED <<messages, clock, tab>>
  BY <1>6, OtherPair DEF InFlight
<1> QED
  BY <1>1, <1>2, <1>3, <1>4, <1>5, <1>6 DEF Next, Place, vars

-----------------------------------------------------------------------------
\* A scored turn needs a skill, which only a placement brings; and every turn
\* is scored.
LEMMA NextPlaced ==
  ASSUME TypeOK, PairInv, PlacedInv, [Next]_vars
  PROVE  PlacedInv'
<1>1. ASSUME UNCHANGED <<messages, events, placed>>,
             \A i \in DOMAIN sessions : i \in DOMAIN sessions' /\ sessions'[i] = sessions[i],
             \A t \in Tabs : tab'[t].stage = "asking" => tab'[t] = tab[t]
      PROVE  PlacedInv'
  BY <1>1 DEF PlacedInv, UnplacedNeverConverse, SkillsArePlaced, EveryTurnIsScored
<1>2. ASSUME NEW t \in Tabs, Resume(t) \/ FindNone(t) \/ Close(t) \/ Send(t) \/ Fail(t)
      PROVE  PlacedInv'
  <2>1. UNCHANGED <<sessions, messages, events, placed>>
    BY <1>2 DEF Resume, FindNone, Close, Send, Fail
  <2> QED
    BY <1>1, <1>2, <2>1, Settles, Looks, Sends DEF OthersStay
<1>3. ASSUME NEW t \in Tabs, Start(t) PROVE PlacedInv'
  <2>1. \A i \in DOMAIN sessions : i \in DOMAIN sessions' /\ sessions'[i] = sessions[i]
    BY <1>3 DEF Start, TypeOK
  <2>2. UNCHANGED <<messages, events, placed>>
    BY <1>3 DEF Start
  <2> QED
    BY <1>1, <1>3, <2>1, <2>2, Settles DEF OthersStay
<1>4. ASSUME NEW t \in Tabs, Read(t) PROVE PlacedInv'
  <2>1. \A k \in FirstSkill(OwnerOf[t]) : k \in Skills => OwnerOf[t] \in placed
    BY ConversationsAssumption DEF FirstSkill
  <2>2. UNCHANGED <<sessions, messages, events, placed>>
    BY <1>4 DEF Read
  <2> QED
    BY <1>4, <2>1, <2>2, Asks DEF PlacedInv, UnplacedNeverConverse, SkillsArePlaced,
        EveryTurnIsScored, OthersStay
<1>5. ASSUME NEW t \in Tabs, Reply(t) PROVE PlacedInv'
  <2>1. /\ tab[t].stage = "asking" /\ (IsScored(t) => tab[t].skill \in Skills)
        /\ messages' = messages \cup {MessageOf(t, "student"), MessageOf(t, "agent")}
        /\ UNCHANGED <<sessions, placed>>
    BY <1>5 DEF Reply
  <2>2. IsScored(t)
    BY <2>1, PairedIsEven DEF IsScored, PairInv, HistoriesArePaired
  <2>3. OwnerOf[t] \in placed
    BY <2>1, <2>2 DEF PlacedInv, SkillsArePlaced
  <2>4. tab[t].session \in DOMAIN sessions /\ sessions[tab[t].session].owner = OwnerOf[t]
    BY <2>1 DEF TypeOK
  <2>5. \A p \in {"student", "agent"} : MessageOf(t, p).session = tab[t].session
    BY DEF MessageOf
  <2>6. UnplacedNeverConverse'
    BY <2>1, <2>3, <2>4, <2>5 DEF PlacedInv, UnplacedNeverConverse
  <2>7. \A u \in Tabs : tab'[u].stage = "asking" => tab'[u] = tab[u]
    BY <1>5, Settles DEF OthersStay
  <2>8. SkillsArePlaced'
    BY <2>1, <2>7 DEF PlacedInv, SkillsArePlaced
  <2> DEFINE event == [session |-> tab[t].session, turn |-> tab[t].turn, skill |-> tab[t].skill]
  <2>9. event \in events' /\ events \subseteq events'
    BY <1>5, <2>2 DEF Reply
  <2>10. event.session = tab[t].session /\ event.turn = tab[t].turn
    OBVIOUS
  <2>11. \A p \in {"student", "agent"} : MessageOf(t, p).turn = tab[t].turn
    BY DEF MessageOf
  <2> HIDE DEF event
  <2>12. EveryTurnIsScored'
    BY <2>1, <2>5, <2>9, <2>10, <2>11 DEF PlacedInv, EveryTurnIsScored
  <2> QED
    BY <2>6, <2>8, <2>12 DEF PlacedInv
<1>6. ASSUME NEW s \in Students, Place(s) PROVE PlacedInv'
  BY <1>6 DEF Place, PlacedInv, UnplacedNeverConverse, SkillsArePlaced, EveryTurnIsScored
<1>7. CASE UNCHANGED vars
  BY <1>1, <1>7 DEF vars
<1> QED
  BY <1>2, <1>3, <1>4, <1>5, <1>6, <1>7 DEF Next

-----------------------------------------------------------------------------
Inv == TypeOK /\ SessionInv /\ PairInv /\ PlacedInv

LEMMA InitInv == Init => Inv
<1> SUFFICES ASSUME Init PROVE Inv
  OBVIOUS
<1>1. \A t \in Tabs : tab[t] = ClosedTab /\ tab[t].stage = "closed"
  BY ClosedType DEF Init
<1>2. SessionInv
  BY <1>1 DEF Init, SessionInv, SecondSessionsAreRaces, NothingFound
<1>3. IsPaired({})
  BY FS_EmptySet DEF IsPaired
<1>4. \A i \in 1..MaxSessions : History(i) = {}
  BY DEF Init, History
<1>5. PairInv
  BY <1>1, <1>3, <1>4 DEF Init, PairInv, TurnsAreDistinct, HistoriesArePaired, InFlight
<1>6. PlacedInv
  BY <1>1 DEF Init, PlacedInv, UnplacedNeverConverse, SkillsArePlaced, EveryTurnIsScored
<1> QED
  BY <1>2, <1>5, <1>6, InitType DEF Inv

\* The inductive invariant of sessions, turns and histories.
THEOREM Invariance == Spec => []Inv
<1>1. Inv /\ [Next]_vars => Inv'
  BY NextType, NextSession, NextPair, NextPlaced DEF Inv
<1> QED
  BY <1>1, InitInv, PTL DEF Spec

\* Every variable keeps its type, and an open tab shows a session of its owner.
THEOREM TypeCorrect == Spec => []TypeOK
BY Invariance, PTL DEF Inv

\* A student's second active session always comes from overlapping starts.
THEOREM SecondSessionsAreRacesAlways == Spec => []SecondSessionsAreRaces
BY Invariance, PTL DEF Inv, SessionInv

\* Nobody converses with the offline agent before being placed.
THEOREM UnplacedNeverConverseAlways == Spec => []UnplacedNeverConverse
BY Invariance, PTL DEF Inv, PlacedInv

\* The parity of the history never leaves a turn unscored.
THEOREM EveryTurnIsScoredAlways == Spec => []EveryTurnIsScored
BY Invariance, PTL DEF Inv, PlacedInv

=============================================================================
