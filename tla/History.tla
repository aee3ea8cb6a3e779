------------------------------ MODULE History ------------------------------
(***************************************************************************)
(* The two read routes of progression/api/routes.py, called while requests *)
(* of the same student record learning events of the skill.                *)
(*                                                                         *)
(* created_at is now(), the time the recording transaction began, so the   *)
(* events of one transaction share it, and an event may become visible     *)
(* after younger ones.  A badge's event names no skill and is not listed.  *)
(***************************************************************************)
EXTENDS Integers, FiniteSets

CONSTANTS
  Writers,      \* transactions that record an outcome of the skill
  Limits,       \* the limits a client asks for
  MaxLimit,     \* _MAX_PAGE_LIMIT
  MaxTime       \* bound on the clock

ASSUME HistoryAssumption ==
  /\ IsFiniteSet(Writers)
  /\ Limits \subseteq Int
  /\ MaxLimit \in Nat \ {0}
  /\ MaxTime \in Nat

VARIABLES
  clock,
  begun,    \* when each writer's transaction began
  state,    \* of each writer's transaction
  rows,     \* the committed learning events
  walk,     \* where the client is in its reading
  cursor,   \* only older events follow; MaxTime + 1 before the first page
  listed,   \* how often each event has been listed, counted up to twice
  shown     \* history: the events committed when the level was shown

vars == <<clock, begun, state, rows, walk, cursor, listed, shown>>
writing == <<clock, begun, state, rows>>
reading == <<walk, cursor, listed, shown>>

\* The event of the outcome, and LEVEL_ADVANCED when it advances the level.
Events == [writer : Writers, kind : {"outcome", "advance"}]

CreatedAt(e) == begun[e.writer]

Listed == {e \in Events : listed[e] > 0}

TypeOK ==
  /\ clock \in 0..MaxTime
  /\ begun \in [Writers -> 0..MaxTime]
  /\ state \in [Writers -> {"idle", "open", "committed", "aborted"}]
  /\ rows \subseteq Events
  /\ walk \in {"idle", "reading", "done"}
  /\ cursor \in 0..(MaxTime + 1)
  /\ listed \in [Events -> 0..2]
  /\ shown \subseteq rows
  /\ \A e \in rows : state[e.writer] = "committed"

Init ==
  /\ clock = 0
  /\ begun = [w \in Writers |-> 0]
  /\ state = [w \in Writers |-> "idle"]
  /\ rows = {}
  /\ walk = "idle"
  /\ cursor = MaxTime + 1
  /\ listed = [e \in Events |-> 0]
  /\ shown = {}

-----------------------------------------------------------------------------
(* The writers. *)

Tick == clock < MaxTime /\ clock' = clock + 1 /\ UNCHANGED <<begun, state, rows, reading>>

Begin(w) ==
  /\ state[w] = "idle"
  /\ state' = [state EXCEPT ![w] = "open"]
  /\ begun' = [begun EXCEPT ![w] = clock]
  /\ UNCHANGED <<clock, rows, reading>>

\* The commit makes the events of the transaction visible.
Record(w, kinds) ==
  /\ state[w] = "open"
  /\ state' = [state EXCEPT ![w] = "committed"]
  /\ rows' = rows \cup [writer : {w}, kind : kinds]
  /\ UNCHANGED <<clock, begun, reading>>

Abort(w) ==
  /\ state[w] = "open"
  /\ state' = [state EXCEPT ![w] = "aborted"]
  /\ UNCHANGED <<clock, begun, rows, reading>>

-----------------------------------------------------------------------------
(* The client: the profile first, then the history page by page. *)

\* get_profile.  The row's level and the events that advanced it are committed
\* together.
ReadProfile ==
  /\ walk = "idle"
  /\ walk' = "reading"
  /\ shown' = rows
  /\ UNCHANGED <<writing, cursor, listed>>

PageLimit(limit) ==
  IF limit < 1 THEN 1 ELSE IF limit > MaxLimit THEN MaxLimit ELSE limit

\* Older with the events at the cursor.
OlderOrEqual == {e \in rows : CreatedAt(e) <= cursor}

Older == {e \in rows : CreatedAt(e) < cursor}

List(page) ==
  listed' = [e \in Events |-> IF e \in page /\ listed[e] < 2 THEN listed[e] + 1 ELSE listed[e]]

\* No event beyond this page: next_cursor is null.
ReadLastPage(limit) ==
  /\ walk = "reading"
  /\ Cardinality(Older) <= PageLimit(limit)
  /\ List(Older)
  /\ walk' = "done"
  /\ UNCHANGED <<writing, cursor, shown>>

\* ReadPage in no particular order.
ReadPageUnordered(limit) ==
  /\ walk = "reading"
  /\ Cardinality(Older) > PageLimit(limit)
  /\ \E page \in SUBSET Older :
       /\ Cardinality(page) = PageLimit(limit)
       /\ List(page)
       /\ \E last \in page : cursor' = CreatedAt(last)
  /\ UNCHANGED <<writing, walk, shown>>

\* The youngest events, in either order when they tie, and the time of the last.
ReadPage(limit) ==
  /\ walk = "reading"
  /\ Cardinality(Older) > PageLimit(limit)
  /\ \E page \in SUBSET Older :
       /\ Cardinality(page) = PageLimit(limit)
       /\ \A e \in page, rest \in Older \ page : CreatedAt(e) >= CreatedAt(rest)
       /\ List(page)
       /\ \E last \in page :
            /\ \A e \in page : CreatedAt(e) >= CreatedAt(last)
            /\ cursor' = CreatedAt(last)
  /\ UNCHANGED <<writing, walk, shown>>

Read == \E limit \in Limits : ReadPage(limit) \/ ReadLastPage(limit)

Next ==
  \/ Tick
  \/ \E w \in Writers :
       Begin(w) \/ Abort(w) \/ Record(w, {"outcome"}) \/ Record(w, {"outcome", "advance"})
  \/ ReadProfile
  \/ Read

Spec == Init /\ [][Next]_vars

\* A client that has started reads on until there is no next page.
FairSpec == Spec /\ WF_vars(Read)

-----------------------------------------------------------------------------
\* However pages and commits interleave, no event is listed twice.
NoRepeats == \A e \in Events : listed[e] <= 1

\* An event that was there when the client began is missed only if a page ended
\* between it and another event of the same time.
OnlyTwinsAreMissed ==
  walk = "done" =>
    \A e \in shown : \E f \in Listed : CreatedAt(f) = CreatedAt(e)

\* Every walk reaches its last page, though events keep coming.
WalkEnds == (walk = "reading") ~> (walk = "done")

=============================================================================
