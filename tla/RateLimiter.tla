----------------------------- MODULE RateLimiter -----------------------------
(***************************************************************************)
(* enforce_rate_limit, the dependency of the /auth routes.  It is a plain  *)
(* function, so FastAPI runs each call in a thread of its own: a call      *)
(* reads the clock first and takes the lock later, and another call may    *)
(* read and decide in between.  _hits lives in memory, one list per client *)
(* host; nothing depends on the order of a list, so it is a set of calls.  *)
(***************************************************************************)
EXTENDS Naturals, FiniteSets

CONSTANTS
  Calls,       \* calls of the dependency
  HostOf,      \* request.client.host of a call, or NoClient
  NoClient,    \* request.client is None
  Unknown,     \* the key of those calls
  Limit,       \* MAX_REQUESTS_PER_WINDOW
  Window,      \* WINDOW_SECONDS
  MaxDelay,    \* bound on the time between reading the clock and the lock
  MaxTime      \* bound on the clock

ASSUME RateLimiterAssumption ==
  /\ IsFiniteSet(Calls)
  /\ Limit \in Nat \ {0}
  /\ Window \in Nat \ {0}
  /\ MaxDelay \in 0..(Window - 1)
  /\ MaxTime \in Nat

ClientKey(c) == IF HostOf[c] = NoClient THEN Unknown ELSE HostOf[c]

Keys == {ClientKey(c) : c \in Calls}

VARIABLES
  clock,    \* time.monotonic()
  stage,    \* of each call
  now,      \* the time each call has read
  hits      \* _hits: the calls remembered for each key

vars == <<clock, stage, now, hits>>

\* Also, _hits stays bounded: no key ever holds more than Limit hits.
TypeOK ==
  /\ clock \in 0..MaxTime
  /\ stage \in [Calls -> {"idle", "waiting", "admitted", "refused"}]
  /\ now \in [Calls -> 0..MaxTime]
  /\ hits \in [Keys -> SUBSET Calls]
  /\ \A k \in Keys : Cardinality(hits[k]) <= Limit

Init ==
  /\ clock = 0
  /\ stage = [c \in Calls |-> "idle"]
  /\ now = [c \in Calls |-> 0]
  /\ hits = [k \in Keys |-> {}]

-----------------------------------------------------------------------------
ReadClock(c) ==
  /\ stage[c] = "idle"
  /\ stage' = [stage EXCEPT ![c] = "waiting"]
  /\ now' = [now EXCEPT ![c] = clock]
  /\ UNCHANGED <<clock, hits>>

\* Recent with a cutoff one too late.
RecentShort(c) == {h \in hits[ClientKey(c)] : now[h] + Window > now[c] + 1}

\* The hits after the cutoff, which is reckoned from the time read earlier.
Recent(c) == {h \in hits[ClientKey(c)] : now[h] + Window > now[c]}

Remember(c, kept) == hits' = [hits EXCEPT ![ClientKey(c)] = kept]

\* Admit with room for one too many.
AdmitBeyond(c) ==
  /\ stage[c] = "waiting"
  /\ Cardinality(Recent(c)) <= Limit
  /\ stage' = [stage EXCEPT ![c] = "admitted"]
  /\ Remember(c, Recent(c) \cup {c})
  /\ UNCHANGED <<clock, now>>

\* Under the lock: room for one more.
Admit(c) ==
  /\ stage[c] = "waiting"
  /\ Cardinality(Recent(c)) < Limit
  /\ stage' = [stage EXCEPT ![c] = "admitted"]
  /\ Remember(c, Recent(c) \cup {c})
  /\ UNCHANGED <<clock, now>>

\* Refuse that counts the attempt.
RefuseCounting(c) ==
  /\ stage[c] = "waiting"
  /\ Cardinality(Recent(c)) >= Limit
  /\ stage' = [stage EXCEPT ![c] = "refused"]
  /\ Remember(c, Recent(c) \cup {c})
  /\ UNCHANGED <<clock, now>>

\* 429; the pruned list is stored all the same.
Refuse(c) ==
  /\ stage[c] = "waiting"
  /\ Cardinality(Recent(c)) >= Limit
  /\ stage' = [stage EXCEPT ![c] = "refused"]
  /\ Remember(c, Recent(c))
  /\ UNCHANGED <<clock, now>>

Tick ==
  /\ clock < MaxTime
  /\ \A c \in Calls : stage[c] = "waiting" => clock < now[c] + MaxDelay
  /\ clock' = clock + 1
  /\ UNCHANGED <<stage, now, hits>>

Next ==
  \/ Tick
  \/ \E c \in Calls : ReadClock(c) \/ Admit(c) \/ Refuse(c)

Spec == Init /\ [][Next]_vars

-----------------------------------------------------------------------------
Admitted(k) == {c \in Calls : stage[c] = "admitted" /\ ClientKey(c) = k}

\* The calls of a key admitted with a time of the given length that ends at t.
AdmittedWithin(k, length, t) ==
  {c \in Admitted(k) : now[c] <= t /\ t < now[c] + length}

\* A call decided late prunes less than it should and one decided early more,
\* and still no client gets more than Limit calls into a window shortened by the
\* longest wait for the lock.
WindowRespected ==
  \A k \in Keys, t \in 0..MaxTime :
    Cardinality(AdmittedWithin(k, Window - MaxDelay, t)) <= Limit

\* Nobody is locked out by attempts that were refused, nor by another client: a
\* refused call finds Limit calls of its own client admitted less than a window
\* before it.
RefusalsAreEarned ==
  \A c \in Calls :
    stage[c] = "refused" =>
      Cardinality({a \in Admitted(ClientKey(c)) :
                     now[a] + Window > now[c] /\ now[a] <= now[c] + MaxDelay}) >= Limit

=============================================================================
