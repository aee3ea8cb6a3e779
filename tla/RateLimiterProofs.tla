-------------------------- MODULE RateLimiterProofs --------------------------
(***************************************************************************)
(* What the rate limiter guarantees, for any number of calls, any limit,   *)
(* any window and any wait for the lock shorter than the window.           *)
(***************************************************************************)
EXTENDS RateLimiter, FiniteSetTheorems, TLAPS

\* Only admitted calls are remembered.
HitsAdmitted == \A k \in Keys : hits[k] \subseteq Admitted(k)

\* Nobody has read a time still to come, and nobody waits longer than MaxDelay.
ReadInTime ==
  \A c \in Calls :
    /\ stage[c] # "idle" => now[c] <= clock
    /\ stage[c] = "waiting" => clock <= now[c] + MaxDelay

\* An admitted call is forgotten only when a whole window has passed since.
ForgottenLate ==
  \A k \in Keys : \A a \in Admitted(k) \ hits[k] : now[a] + Window <= clock

Inv ==
  /\ TypeOK /\ HitsAdmitted /\ ReadInTime /\ ForgottenLate
  /\ WindowRespected /\ RefusalsAreEarned

-----------------------------------------------------------------------------
(* A set of calls is finite, so a subset of it has no more elements. *)
LEMMA Counting ==
  ASSUME NEW S \in SUBSET Calls, NEW T \in SUBSET S
  PROVE  /\ IsFiniteSet(S)
         /\ Cardinality(S) \in Nat
         /\ Cardinality(T) \in Nat
         /\ Cardinality(T) <= Cardinality(S)
<1>1. IsFiniteSet(S)
  BY RateLimiterAssumption, FS_Subset
<1> QED
  BY <1>1, FS_Subset, FS_CardinalityType

LEMMA InitInv == Init => Inv
<1> SUFFICES ASSUME Init PROVE Inv
  OBVIOUS
<1>1. \A k \in Keys : Cardinality(hits[k]) <= Limit
  BY FS_EmptySet, RateLimiterAssumption DEF Init
<1>2. TypeOK
  BY <1>1, RateLimiterAssumption DEF Init, TypeOK
<1>3. HitsAdmitted /\ ReadInTime /\ ForgottenLate /\ RefusalsAreEarned
  BY DEF Init, HitsAdmitted, ReadInTime, ForgottenLate, RefusalsAreEarned, Admitted
<1>4. WindowRespected
  <2> SUFFICES ASSUME NEW k \in Keys, NEW t \in 0..MaxTime
               PROVE  Cardinality(AdmittedWithin(k, Window - MaxDelay, t)) <= Limit
    BY DEF WindowRespected
  <2>1. AdmittedWithin(k, Window - MaxDelay, t) = {}
    BY DEF AdmittedWithin, Admitted, Init
  <2> QED
    BY <2>1, FS_EmptySet, RateLimiterAssumption
<1> QED
  BY <1>2, <1>3, <1>4 DEF Inv

LEMMA ReadClockInv == ASSUME Inv, NEW c \in Calls, ReadClock(c) PROVE Inv'
<1> USE DEF Inv, ReadClock
<1>1. TypeOK'
  BY DEF TypeOK
<1>2. \A k : Admitted(k)' = Admitted(k)
  BY DEF TypeOK, Admitted
<1>3. \A d \in Calls : stage[d] # "idle" => now'[d] = now[d]
  BY DEF TypeOK
<1>4. HitsAdmitted'
  BY <1>2 DEF HitsAdmitted
<1>5. ReadInTime'
  <2> SUFFICES ASSUME NEW d \in Calls
               PROVE  /\ stage'[d] # "idle" => now'[d] <= clock'
                      /\ stage'[d] = "waiting" => clock' <= now'[d] + MaxDelay
    BY DEF ReadInTime
  <2>1. CASE d = c
    BY <2>1, RateLimiterAssumption DEF TypeOK
  <2>2. CASE d # c
    BY <2>2 DEF TypeOK, ReadInTime
  <2> QED
    BY <2>1, <2>2
<1>6. ForgottenLate'
  BY <1>2, <1>3 DEF ForgottenLate, Admitted
<1>7. WindowRespected'
  <2>1. \A k, length, t : AdmittedWithin(k, length, t)' = AdmittedWithin(k, length, t)
    BY <1>2, <1>3 DEF AdmittedWithin, Admitted
  <2> QED
    BY <2>1 DEF WindowRespected
<1>8. RefusalsAreEarned'
  <2> SUFFICES ASSUME NEW d \in Calls, stage'[d] = "refused"
               PROVE  Cardinality({a \in Admitted(ClientKey(d))' :
                        now'[a] + Window > now'[d] /\ now'[a] <= now'[d] + MaxDelay}) >= Limit
    BY DEF RefusalsAreEarned
  <2>1. stage[d] = "refused"
    BY DEF TypeOK
  <2>2. {a \in Admitted(ClientKey(d))' :
           now'[a] + Window > now'[d] /\ now'[a] <= now'[d] + MaxDelay}
        = {a \in Admitted(ClientKey(d)) :
             now[a] + Window > now[d] /\ now[a] <= now[d] + MaxDelay}
    BY <1>2, <1>3, <2>1 DEF Admitted
  <2> QED
    BY <2>1, <2>2 DEF RefusalsAreEarned
<1> QED
  BY <1>1, <1>4, <1>5, <1>6, <1>7, <1>8

LEMMA TickInv == ASSUME Inv, Tick PROVE Inv'
<1> USE DEF Inv, Tick
<1>1. TypeOK'
  BY RateLimiterAssumption DEF TypeOK
<1>2. \A k : Admitted(k)' = Admitted(k)
  BY DEF Admitted
<1>3. HitsAdmitted'
  BY <1>2 DEF HitsAdmitted
<1>4. ReadInTime'
  <2> SUFFICES ASSUME NEW d \in Calls
               PROVE  /\ stage'[d] # "idle" => now'[d] <= clock'
                      /\ stage'[d] = "waiting" => clock' <= now'[d] + MaxDelay
    BY DEF ReadInTime
  <2>1. now[d] \in Nat /\ clock \in Nat /\ MaxDelay \in Nat
    BY RateLimiterAssumption DEF TypeOK
  <2> QED
    BY <2>1 DEF ReadInTime
<1>5. ForgottenLate'
  <2> SUFFICES ASSUME NEW k \in Keys, NEW a \in Admitted(k) \ hits[k]
               PROVE  now[a] + Window <= clock + 1
    BY <1>2 DEF ForgottenLate
  <2>1. now[a] + Window <= clock
    BY DEF ForgottenLate
  <2>2. now[a] \in Nat /\ clock \in Nat /\ Window \in Nat
    BY RateLimiterAssumption DEF TypeOK, Admitted
  <2> QED
    BY <2>1, <2>2
<1>6. WindowRespected' /\ RefusalsAreEarned'
  BY <1>2 DEF WindowRespected, AdmittedWithin, RefusalsAreEarned
<1> QED
  BY <1>1, <1>3, <1>4, <1>5, <1>6

\* Both decisions prune the hits a whole window older than the time read.
LEMMA Pruning ==
  ASSUME Inv, NEW c \in Calls, stage[c] = "waiting"
  PROVE  /\ ClientKey(c) \in Keys
         /\ Recent(c) \subseteq hits[ClientKey(c)]
         /\ Recent(c) \subseteq Admitted(ClientKey(c))
         /\ Cardinality(Recent(c)) \in Nat
         /\ Cardinality(Recent(c)) <= Limit
         /\ \A a \in Admitted(ClientKey(c)) \ Recent(c) : now[a] + Window <= clock
<1> DEFINE k == ClientKey(c)
<1>1. k \in Keys
  BY DEF Keys
<1>2. hits[k] \in SUBSET Calls /\ Cardinality(hits[k]) <= Limit /\ hits[k] \subseteq Admitted(k)
  BY <1>1 DEF Inv, TypeOK, HitsAdmitted
<1>3. Recent(c) \subseteq hits[k]
  BY DEF Recent
<1>4. /\ Cardinality(Recent(c)) \in Nat
      /\ Cardinality(hits[k]) \in Nat
      /\ Cardinality(Recent(c)) <= Cardinality(hits[k])
  <2> HIDE DEF k
  <2> QED
    BY <1>2, <1>3, Counting
<1>5. ASSUME NEW a \in Admitted(k) \ Recent(c) PROVE now[a] + Window <= clock
  <2>1. now[a] \in Nat /\ now[c] \in Nat /\ clock \in Nat /\ Window \in Nat /\ now[c] <= clock
    BY RateLimiterAssumption DEF Inv, TypeOK, Admitted, ReadInTime
  <2>2. CASE a \in hits[k]
    BY <2>1, <2>2 DEF Recent
  <2>3. CASE a \notin hits[k]
    BY <1>1, <2>3 DEF Inv, ForgottenLate
  <2> QED
    BY <2>2, <2>3
<1> QED
  BY <1>1, <1>2, <1>3, <1>4, <1>5, RateLimiterAssumption

\* Why a refused call has been earned: the hits it found.
LEMMA FoundFull ==
  ASSUME Inv, NEW c \in Calls, stage[c] = "waiting", Cardinality(Recent(c)) >= Limit
  PROVE  Cardinality({a \in Admitted(ClientKey(c)) :
                       now[a] + Window > now[c] /\ now[a] <= now[c] + MaxDelay}) >= Limit
<1> DEFINE found == {a \in Admitted(ClientKey(c)) :
                       now[a] + Window > now[c] /\ now[a] <= now[c] + MaxDelay}
<1>1. ASSUME NEW a \in Recent(c) PROVE a \in found
  <2>1. a \in Admitted(ClientKey(c)) /\ now[a] + Window > now[c]
    BY Pruning DEF Recent
  <2>2. now[a] <= clock /\ clock <= now[c] + MaxDelay
    BY <2>1 DEF Inv, ReadInTime, Admitted
  <2>3. now[a] \in Nat /\ now[c] \in Nat /\ clock \in Nat /\ MaxDelay \in Nat
    BY <2>1, RateLimiterAssumption DEF Inv, TypeOK, Admitted
  <2> QED
    BY <2>1, <2>2, <2>3
<1>2. Recent(c) \in SUBSET found /\ found \in SUBSET Calls
  BY <1>1 DEF Admitted
<1>3. Cardinality(found) \in Nat /\ Cardinality(Recent(c)) <= Cardinality(found)
  <2> HIDE DEF found
  <2> QED
    BY <1>2, Counting
<1> QED
  BY <1>3, Pruning, RateLimiterAssumption

LEMMA RefuseInv == ASSUME Inv, NEW c \in Calls, Refuse(c) PROVE Inv'
<1> DEFINE k == ClientKey(c)
<1> USE DEF Refuse, Remember
<1>1. k \in Keys /\ Recent(c) \subseteq hits[k] /\ Cardinality(Recent(c)) <= Limit
  BY Pruning
<1>2. TypeOK'
  BY <1>1 DEF Inv, TypeOK
<1>3. \A j : Admitted(j)' = Admitted(j)
  BY DEF Inv, TypeOK, Admitted
<1>4. \A j \in Keys : hits'[j] = IF j = k THEN Recent(c) ELSE hits[j]
  BY DEF Inv, TypeOK
<1>5. HitsAdmitted'
  BY <1>1, <1>3, <1>4 DEF Inv, HitsAdmitted
<1>6. ReadInTime'
  BY DEF Inv, TypeOK, ReadInTime
<1>7. ForgottenLate'
  BY <1>3, <1>4, Pruning DEF Inv, ForgottenLate
<1>8. WindowRespected'
  BY <1>3 DEF Inv, WindowRespected, AdmittedWithin
<1>9. RefusalsAreEarned'
  <2> SUFFICES ASSUME NEW d \in Calls, stage'[d] = "refused"
               PROVE  Cardinality({a \in Admitted(ClientKey(d)) :
                        now[a] + Window > now[d] /\ now[a] <= now[d] + MaxDelay}) >= Limit
    BY <1>3 DEF RefusalsAreEarned
  <2>1. CASE d = c
    BY <2>1, FoundFull
  <2>2. CASE d # c
    BY <2>2 DEF Inv, TypeOK, RefusalsAreEarned
  <2> QED
    BY <2>1, <2>2
<1> QED
  BY <1>2, <1>5, <1>6, <1>7, <1>8, <1>9 DEF Inv

\* A window that holds the new call starts after everything forgotten.
LEMMA AdmittedWindow ==
  ASSUME Inv, NEW c \in Calls, Admit(c), NEW t \in 0..MaxTime,
         c \in AdmittedWithin(ClientKey(c), Window - MaxDelay, t)'
  PROVE  AdmittedWithin(ClientKey(c), Window - MaxDelay, t)' \subseteq Recent(c) \cup {c}
<1> DEFINE k == ClientKey(c)
<1> SUFFICES ASSUME NEW a \in AdmittedWithin(k, Window - MaxDelay, t)', a # c
             PROVE  a \in Recent(c)
  OBVIOUS
<1>1. a \in Admitted(k) /\ t < now[a] + (Window - MaxDelay) /\ now[c] <= t
  BY DEF Admit, AdmittedWithin, Admitted, Inv, TypeOK
<1>2. clock <= now[c] + MaxDelay
  BY DEF Inv, ReadInTime, Admit
<1>3. now[a] \in Nat /\ now[c] \in Nat /\ clock \in Nat /\ Window \in Nat /\ MaxDelay \in Nat
  BY <1>1, RateLimiterAssumption DEF Inv, TypeOK, Admitted
<1>4. ~(now[a] + Window <= clock)
  BY <1>1, <1>2, <1>3
<1> QED
  BY <1>1, <1>4, Pruning DEF Admit

LEMMA AdmitInv == ASSUME Inv, NEW c \in Calls, Admit(c) PROVE Inv'
<1> DEFINE k == ClientKey(c)
<1> USE DEF Admit, Remember
<1>1. /\ k \in Keys
      /\ Recent(c) \in SUBSET Calls
      /\ Recent(c) \subseteq Admitted(k)
      /\ Cardinality(Recent(c)) \in Nat
  BY Pruning DEF Admitted
<1>2. /\ IsFiniteSet(Recent(c) \cup {c})
      /\ Cardinality(Recent(c) \cup {c}) \in Nat
      /\ Cardinality(Recent(c) \cup {c}) <= Limit
  <2> DEFINE kept == Recent(c)
  <2>1. IsFiniteSet(kept) /\ Cardinality(kept) \in Nat /\ Cardinality(kept) < Limit
    BY <1>1, Counting
  <2> HIDE DEF kept
  <2>2. /\ IsFiniteSet(kept \cup {c})
        /\ \/ Cardinality(kept \cup {c}) = Cardinality(kept)
           \/ Cardinality(kept \cup {c}) = Cardinality(kept) + 1
    BY <2>1, FS_AddElement
  <2>3. Cardinality(kept \cup {c}) \in Nat /\ Cardinality(kept \cup {c}) <= Limit
    BY <2>1, <2>2, RateLimiterAssumption
  <2> QED
    BY <2>2, <2>3 DEF kept
<1>3. TypeOK'
  BY <1>1, <1>2 DEF Inv, TypeOK
<1>4. \A j : Admitted(j)' = Admitted(j) \cup (IF j = k THEN {c} ELSE {})
  BY DEF Inv, TypeOK, Admitted
<1>5. \A j \in Keys : hits'[j] = IF j = k THEN Recent(c) \cup {c} ELSE hits[j]
  BY DEF Inv, TypeOK
<1>6. HitsAdmitted'
  BY <1>1, <1>4, <1>5 DEF Inv, HitsAdmitted
<1>7. ReadInTime'
  BY DEF Inv, TypeOK, ReadInTime
<1>8. ForgottenLate'
  BY <1>4, <1>5, Pruning DEF Inv, ForgottenLate
<1>9. WindowRespected'
  <2> SUFFICES ASSUME NEW j \in Keys, NEW t \in 0..MaxTime
               PROVE  Cardinality(AdmittedWithin(j, Window - MaxDelay, t)') <= Limit
    BY DEF WindowRespected
  <2>1. CASE j = k /\ c \in AdmittedWithin(j, Window - MaxDelay, t)'
    <3>1. AdmittedWithin(j, Window - MaxDelay, t)' \subseteq Recent(c) \cup {c}
      BY <2>1, AdmittedWindow
    <3>2. Recent(c) \cup {c} \in SUBSET Calls
      BY <1>1
    <3>3. /\ Cardinality(AdmittedWithin(j, Window - MaxDelay, t)') \in Nat
          /\ Cardinality(AdmittedWithin(j, Window - MaxDelay, t)')
               <= Cardinality(Recent(c) \cup {c})
      BY <3>1, <3>2, Counting
    <3> QED
      BY <3>3, <1>2, RateLimiterAssumption
  <2>2. CASE ~(j = k /\ c \in AdmittedWithin(j, Window - MaxDelay, t)')
    <3>1. AdmittedWithin(j, Window - MaxDelay, t)' = AdmittedWithin(j, Window - MaxDelay, t)
      BY <1>4, <2>2 DEF AdmittedWithin, Inv, TypeOK, Admitted
    <3> QED
      BY <3>1 DEF Inv, WindowRespected
  <2> QED
    BY <2>1, <2>2
<1>10. RefusalsAreEarned'
  <2> SUFFICES ASSUME NEW d \in Calls, stage'[d] = "refused"
               PROVE  Cardinality({a \in Admitted(ClientKey(d))' :
                        now[a] + Window > now[d] /\ now[a] <= now[d] + MaxDelay}) >= Limit
    BY DEF RefusalsAreEarned
  <2> DEFINE earned == {a \in Admitted(ClientKey(d)) :
                          now[a] + Window > now[d] /\ now[a] <= now[d] + MaxDelay}
             earnedNow == {a \in Admitted(ClientKey(d))' :
                             now[a] + Window > now[d] /\ now[a] <= now[d] + MaxDelay}
  <2>1. Cardinality(earned) >= Limit
    BY DEF Inv, TypeOK, RefusalsAreEarned
  <2>2. earned \in SUBSET earnedNow /\ earnedNow \in SUBSET Calls
    BY <1>4 DEF Admitted
  <2>3. /\ Cardinality(earned) \in Nat /\ Cardinality(earnedNow) \in Nat
        /\ Cardinality(earned) <= Cardinality(earnedNow)
    <3> HIDE DEF earned, earnedNow
    <3> QED
      BY <2>2, Counting
  <2> QED
    BY <2>1, <2>3, RateLimiterAssumption
<1> QED
  BY <1>3, <1>6, <1>7, <1>8, <1>9, <1>10 DEF Inv

-----------------------------------------------------------------------------
LEMMA Unchanged == ASSUME Inv, UNCHANGED vars PROVE Inv'
BY DEF Inv, vars, TypeOK, HitsAdmitted, ReadInTime, ForgottenLate, WindowRespected,
       RefusalsAreEarned, AdmittedWithin, Admitted

THEOREM Invariance == Spec => []Inv
<1>1. ASSUME Inv, [Next]_vars PROVE Inv'
  BY <1>1, ReadClockInv, TickInv, RefuseInv, AdmitInv, Unchanged DEF Next
<1> QED
  BY InitInv, <1>1, PTL DEF Spec

\* The type invariant; _hits never grows beyond the limit for any client.
THEOREM TypeCorrect == Spec => []TypeOK
BY Invariance, PTL DEF Inv

\* No client is admitted more often than the limit within a window shortened by
\* the longest wait for the lock, whatever the order of the calls.
THEOREM WindowIsRespected == Spec => []WindowRespected
BY Invariance, PTL DEF Inv

\* Only calls admitted to the same client lead to a refusal.
THEOREM RefusalsAreEarnedAlways == Spec => []RefusalsAreEarned
BY Invariance, PTL DEF Inv

=============================================================================
