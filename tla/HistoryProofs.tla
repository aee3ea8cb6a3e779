---------------------------- MODULE HistoryProofs ----------------------------
(***************************************************************************)
(* What a client that follows next_cursor sees, for any number of writers, *)
(* any limits and any interleaving of pages and commits.                   *)
(***************************************************************************)
EXTENDS History, TLAPS

\* Only committed events are listed, and those before the cursor not yet.
ListedAboveCursor ==
  \A e \in Events :
    listed[e] > 0 => e \in rows /\ (walk = "reading" => CreatedAt(e) >= cursor)

NothingListedYet ==
  walk = "idle" => cursor = MaxTime + 1 /\ \A e \in Events : listed[e] = 0

\* What the walk has passed it has listed, up to a twin.
PassedUpToTwins ==
  walk = "reading" =>
    \A e \in shown :
      CreatedAt(e) >= cursor => \E f \in Listed : CreatedAt(f) = CreatedAt(e)

Inv ==
  /\ TypeOK /\ ListedAboveCursor /\ NothingListedYet /\ PassedUpToTwins
  /\ NoRepeats /\ OnlyTwinsAreMissed

-----------------------------------------------------------------------------
LEMMA InitInv == Init => Inv
BY HistoryAssumption
   DEF Init, Inv, TypeOK, ListedAboveCursor, NothingListedYet, PassedUpToTwins, NoRepeats,
       OnlyTwinsAreMissed, Events

LEMMA Times == ASSUME TypeOK, NEW e \in Events PROVE CreatedAt(e) \in 0..MaxTime
BY DEF TypeOK, Events, CreatedAt

\* A writer's step moves no event that is visible already.
LEMMA WriterStep ==
  ASSUME Inv, TypeOK', UNCHANGED reading, rows \subseteq rows',
         \A e \in rows : begun'[e.writer] = begun[e.writer]
  PROVE  Inv'
<1> USE DEF Inv, reading
<1>1. Listed' = Listed
  BY DEF Listed
<1>2. \A e \in rows : CreatedAt(e)' = CreatedAt(e)
  BY DEF CreatedAt
<1>3. Listed \subseteq rows /\ shown \subseteq rows
  BY DEF Listed, ListedAboveCursor, TypeOK
<1>4. ListedAboveCursor' /\ NothingListedYet' /\ NoRepeats'
  BY <1>2 DEF ListedAboveCursor, NothingListedYet, NoRepeats
<1>5. PassedUpToTwins' /\ OnlyTwinsAreMissed'
  BY <1>1, <1>2, <1>3 DEF PassedUpToTwins, OnlyTwinsAreMissed
<1> QED
  BY <1>4, <1>5

LEMMA TickInv == ASSUME Inv, Tick PROVE Inv'
<1>1. TypeOK'
  BY HistoryAssumption DEF Inv, TypeOK, Tick, reading
<1> QED
  BY <1>1, WriterStep DEF Tick

LEMMA BeginInv == ASSUME Inv, NEW w \in Writers, Begin(w) PROVE Inv'
<1>1. \A e \in rows : e.writer # w
  BY DEF Inv, TypeOK, Begin
<1>2. TypeOK'
  BY <1>1 DEF Inv, TypeOK, Begin, reading, Events
<1>3. \A e \in rows : begun'[e.writer] = begun[e.writer]
  BY <1>1 DEF Inv, TypeOK, Begin, Events
<1> QED
  BY <1>2, <1>3, WriterStep DEF Begin

LEMMA AbortInv == ASSUME Inv, NEW w \in Writers, Abort(w) PROVE Inv'
<1>1. \A e \in rows : e.writer # w
  BY DEF Inv, TypeOK, Abort
<1>2. TypeOK'
  BY <1>1 DEF Inv, TypeOK, Abort, reading, Events
<1> QED
  BY <1>2, WriterStep DEF Abort

LEMMA RecordInv ==
  ASSUME Inv, NEW w \in Writers, NEW kinds \in SUBSET {"outcome", "advance"}, Record(w, kinds)
  PROVE  Inv'
<1>1. [writer : {w}, kind : kinds] \subseteq Events
  BY DEF Events
<1>2. \A e \in [writer : {w}, kind : kinds] : e.writer = w
  OBVIOUS
<1>3. TypeOK'
  BY <1>1, <1>2 DEF Inv, TypeOK, Record, reading, Events
<1> QED
  BY <1>3, WriterStep DEF Record

LEMMA ReadProfileInv ==
  ASSUME Inv, ReadProfile PROVE Inv'
<1> USE DEF Inv, ReadProfile, writing
<1>1. TypeOK'
  BY DEF TypeOK
<1>2. \A e \in Events : CreatedAt(e)' = CreatedAt(e) /\ listed'[e] = 0
  BY DEF CreatedAt, NothingListedYet
<1>3. ListedAboveCursor' /\ NothingListedYet' /\ NoRepeats' /\ OnlyTwinsAreMissed'
  BY <1>2 DEF ListedAboveCursor, NothingListedYet, NoRepeats, OnlyTwinsAreMissed
<1>4. PassedUpToTwins'
  <2>1. \A e \in rows : ~(CreatedAt(e) >= MaxTime + 1)
    BY Times, HistoryAssumption DEF TypeOK
  <2> QED
    BY <1>2, <2>1 DEF PassedUpToTwins, NothingListedYet, TypeOK
<1> QED
  BY <1>1, <1>3, <1>4

\* Listing events the walk has not reached lists each of them once.
LEMMA Listing ==
  ASSUME Inv, walk = "reading", NEW page \in SUBSET Older, List(page)
  PROVE  /\ listed' \in [Events -> 0..2]
         /\ \A e \in Events : listed'[e] <= 1
         /\ \A e \in Events : (listed'[e] > 0) <=> (e \in page \/ listed[e] > 0)
         /\ Listed' = Listed \cup page
<1>1. page \subseteq Events
  BY DEF Older, Inv, TypeOK
<1>2. \A e \in page : listed[e] = 0
  <2> SUFFICES ASSUME NEW e \in page PROVE listed[e] = 0
    OBVIOUS
  <2>1. CreatedAt(e) < cursor /\ CreatedAt(e) \in 0..MaxTime /\ cursor \in 0..(MaxTime + 1)
    BY <1>1, Times DEF Older, Inv, TypeOK
  <2>2. ~(CreatedAt(e) >= cursor)
    BY <2>1, HistoryAssumption
  <2>3. listed[e] \in 0..2
    BY <1>1 DEF Inv, TypeOK
  <2> QED
    BY <1>1, <2>2, <2>3 DEF Inv, ListedAboveCursor
<1>3. \A e \in Events : listed[e] \in 0..2 /\ listed[e] <= 1
  BY DEF Inv, TypeOK, NoRepeats
<1>4. \A e \in Events : listed'[e] = IF e \in page THEN 1 ELSE listed[e]
  BY <1>1, <1>2 DEF List
<1>5. listed' \in [Events -> 0..2]
  BY <1>3, <1>4 DEF List
<1> QED
  BY <1>1, <1>3, <1>4, <1>5 DEF Listed

LEMMA ReadLastPageInv ==
  ASSUME Inv, NEW limit \in Limits, ReadLastPage(limit) PROVE Inv'
<1> USE DEF ReadLastPage, writing
<1>1. /\ listed' \in [Events -> 0..2]
      /\ \A e \in Events : listed'[e] <= 1
      /\ \A e \in Events : (listed'[e] > 0) <=> (e \in Older \/ listed[e] > 0)
      /\ Listed' = Listed \cup Older
  BY Listing
<1>2. TypeOK' /\ NoRepeats' /\ NothingListedYet' /\ PassedUpToTwins'
  BY <1>1 DEF Inv, TypeOK, NoRepeats, NothingListedYet, PassedUpToTwins
<1>3. ListedAboveCursor'
  BY <1>1 DEF Inv, ListedAboveCursor, Older
<1>4. OnlyTwinsAreMissed'
  <2> SUFFICES ASSUME NEW e \in shown
               PROVE  \E f \in Listed' : CreatedAt(f) = CreatedAt(e)
    BY DEF OnlyTwinsAreMissed, CreatedAt
  <2>1. e \in rows /\ CreatedAt(e) \in Int /\ cursor \in Int
    BY Times, HistoryAssumption DEF Inv, TypeOK
  <2>2. CASE CreatedAt(e) < cursor
    BY <1>1, <2>1, <2>2 DEF Older
  <2>3. CASE CreatedAt(e) >= cursor
    BY <1>1, <2>3 DEF Inv, PassedUpToTwins
  <2> QED
    BY <2>1, <2>2, <2>3
<1> QED
  BY <1>2, <1>3, <1>4 DEF Inv

LEMMA ReadPageInv ==
  ASSUME Inv, NEW limit \in Limits, ReadPage(limit) PROVE Inv'
<1> USE DEF ReadPage, writing
<1>1. PICK page \in SUBSET Older :
        /\ \A e \in page, rest \in Older \ page : CreatedAt(e) >= CreatedAt(rest)
        /\ List(page)
        /\ \E last \in page :
             /\ \A e \in page : CreatedAt(e) >= CreatedAt(last)
             /\ cursor' = CreatedAt(last)
  OBVIOUS
<1>2. PICK last \in page :
        (\A e \in page : CreatedAt(e) >= CreatedAt(last)) /\ cursor' = CreatedAt(last)
  BY <1>1
<1>3. /\ listed' \in [Events -> 0..2]
      /\ \A e \in Events : listed'[e] <= 1
      /\ \A e \in Events : (listed'[e] > 0) <=> (e \in page \/ listed[e] > 0)
      /\ Listed' = Listed \cup page
  BY <1>1, Listing
<1>4. /\ last \in rows /\ CreatedAt(last) < cursor
      /\ page \subseteq rows
      /\ \A e \in rows : e \in Events /\ CreatedAt(e) \in 0..MaxTime
      /\ cursor \in 0..(MaxTime + 1)
  BY Times DEF Older, Inv, TypeOK
<1>5. \A e \in Events : CreatedAt(e)' = CreatedAt(e)
  BY DEF CreatedAt
<1>6. TypeOK'
  BY <1>2, <1>3, <1>4, HistoryAssumption DEF Inv, TypeOK
<1>7. NoRepeats' /\ NothingListedYet' /\ OnlyTwinsAreMissed'
  BY <1>3 DEF NoRepeats, NothingListedYet, OnlyTwinsAreMissed
<1>8. ListedAboveCursor'
  <2> SUFFICES ASSUME NEW e \in Events, listed'[e] > 0
               PROVE  e \in rows /\ CreatedAt(e) >= cursor'
    BY <1>5 DEF ListedAboveCursor
  <2>1. CASE e \in page
    BY <1>2, <1>4, <2>1
  <2>2. CASE e \notin page
    <3>1. e \in rows /\ CreatedAt(e) >= cursor
      BY <1>3, <2>2 DEF Inv, ListedAboveCursor
    <3> QED
      BY <1>2, <1>4, <3>1, HistoryAssumption
  <2> QED
    BY <2>1, <2>2
<1>9. PassedUpToTwins'
  <2> SUFFICES ASSUME NEW e \in shown, CreatedAt(e) >= CreatedAt(last)
               PROVE  \E f \in Listed' : CreatedAt(f) = CreatedAt(e)
    BY <1>2, <1>5 DEF PassedUpToTwins, CreatedAt
  <2>1. e \in rows
    BY DEF Inv, TypeOK
  <2>2. CASE CreatedAt(e) >= cursor
    BY <1>3, <2>2 DEF Inv, PassedUpToTwins
  <2>3. CASE e \in page
    BY <1>3, <2>3
  <2>4. CASE ~(CreatedAt(e) >= cursor) /\ e \notin page
    <3>1. e \in Older \ page
      BY <1>4, <2>1, <2>4, HistoryAssumption DEF Older
    <3>2. CreatedAt(last) >= CreatedAt(e)
      BY <1>1, <1>2, <3>1
    <3>3. CreatedAt(last) = CreatedAt(e)
      BY <1>4, <2>1, <3>2, HistoryAssumption
    <3> QED
      BY <1>2, <1>3, <3>3
  <2> QED
    BY <2>2, <2>3, <2>4
<1> QED
  BY <1>6, <1>7, <1>8, <1>9 DEF Inv

LEMMA Unchanged == ASSUME Inv, UNCHANGED vars PROVE Inv'
<1>1. TypeOK'
  BY DEF vars, Inv, TypeOK
<1> QED
  BY <1>1, WriterStep DEF vars, reading

-----------------------------------------------------------------------------
THEOREM Invariance == Spec => []Inv
<1>1. ASSUME Inv, [Next]_vars PROVE Inv'
  <2>1. \A kinds \in {{"outcome"}, {"outcome", "advance"}} :
          kinds \in SUBSET {"outcome", "advance"}
    OBVIOUS
  <2> QED
    BY <1>1, <2>1, TickInv, BeginInv, AbortInv, RecordInv, ReadProfileInv, ReadPageInv,
       ReadLastPageInv, Unchanged DEF Next, Read
<1> QED
  BY InitInv, <1>1, PTL DEF Spec

\* The type invariant: what a client has been shown is committed.
THEOREM TypeCorrect == Spec => []TypeOK
BY Invariance, PTL DEF Inv

\* No event is listed twice in a walk.
THEOREM NoRepeatsAlways == Spec => []NoRepeats
BY Invariance, PTL DEF Inv

\* A finished walk missed nothing but events that tie with a listed one.
THEOREM OnlyTwinsAreMissedAlways == Spec => []OnlyTwinsAreMissed
BY Invariance, PTL DEF Inv

=============================================================================
