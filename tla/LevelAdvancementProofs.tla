----------------------- MODULE LevelAdvancementProofs -----------------------
(***************************************************************************)
(* Lemmas about the level advancement rule, for every number of levels,    *)
(* window size, minimum and threshold.                                     *)
(***************************************************************************)
EXTENDS LevelAdvancementRule, FiniteSetTheorems, SequenceTheorems, TLAPS

-----------------------------------------------------------------------------
(* The arithmetic of round().                                              *)

LEMMA Quotient ==
  ASSUME NEW num \in Nat, NEW den \in Nat, den > 0
  PROVE  /\ num \div den \in Nat /\ num % den \in Nat /\ num % den < den
         /\ num = den * (num \div den) + (num % den)
<1> DEFINE q == num \div den
           m == num % den
<1>1. q \in Nat /\ m \in Nat /\ m < den /\ num = den * q + m
  OBVIOUS
<1> QED
  BY <1>1

\* round() returns a nearest integer, and the even one of two that are equally
\* near: what a mastery says of its window is off by half a percent at most.
THEOREM RoundsToNearest ==
  ASSUME NEW num \in Nat, NEW den \in Nat, den > 0
  PROVE  /\ RoundHalfEven(num, den) \in Nat
         /\ 2 * (den * RoundHalfEven(num, den) - num) <= den
         /\ 2 * (num - den * RoundHalfEven(num, den)) <= den
         /\ \/ 2 * (den * RoundHalfEven(num, den) - num) = den
            \/ 2 * (num - den * RoundHalfEven(num, den)) = den
            => RoundHalfEven(num, den) % 2 = 0
<1> DEFINE q == num \div den
           m == num % den
<1>1. q \in Nat /\ m \in Nat /\ m < den /\ num = den * q + m
  BY Quotient
<1>2. /\ RoundHalfEven(num, den) \in {q, q + 1}
      /\ RoundHalfEven(num, den) = q <=> (2 * m < den \/ (2 * m = den /\ q % 2 = 0))
  BY <1>1 DEF RoundHalfEven
<1> HIDE DEF q, m
<1>3. den * (q + 1) = den * q + den
  BY <1>1
<1>4. CASE RoundHalfEven(num, den) = q
  <2> DEFINE x == den * q
  <2>1. x \in Nat /\ num = x + m
    BY <1>1
  <2> HIDE DEF x
  <2>2. /\ 2 * (x - num) <= den /\ 2 * (num - x) <= den
        /\ 2 * (x - num) # den
        /\ 2 * (num - x) = den => q % 2 = 0
    BY <1>1, <1>2, <1>4, <2>1
  <2> QED
    BY <1>1, <1>4, <2>2 DEF x
<1>5. CASE RoundHalfEven(num, den) = q + 1 /\ RoundHalfEven(num, den) # q
  <2> DEFINE x == den * q
  <2>1. x \in Nat /\ num = x + m /\ den * (q + 1) = x + den
    BY <1>1, <1>3
  <2> HIDE DEF x
  <2>2. 2 * m >= den /\ (2 * m = den => q % 2 = 1)
    BY <1>1, <1>2, <1>5
  <2>3. /\ 2 * ((x + den) - num) <= den /\ 2 * (num - (x + den)) <= den
        /\ 2 * (num - (x + den)) # den
        /\ 2 * ((x + den) - num) = den => (q + 1) % 2 = 0
    BY <1>1, <2>1, <2>2
  <2> QED
    BY <1>1, <1>5, <2>1, <2>3
<1> QED
  BY <1>2, <1>4, <1>5

\* A quotient of at most 100 is rounded to at most 100.
LEMMA RoundedPercent ==
  ASSUME NEW num \in Nat, NEW den \in Nat, den > 0, num <= 100 * den
  PROVE  RoundHalfEven(num, den) \in 0..100
<1> DEFINE q == num \div den
           m == num % den
<1>1. q \in Nat /\ m \in Nat /\ m < den /\ num = den * q + m
  BY Quotient
<1>2. q <= 100
  <2>1. SUFFICES ASSUME q >= 101 PROVE FALSE
    BY <1>1
  <2>2. den * q >= den * 101
    BY <1>1, <2>1
  <2> QED
    BY <1>1, <2>2
<1>3. CASE q = 100
  <2>1. m = 0
    BY <1>1, <1>3
  <2> QED
    BY <1>3, <2>1 DEF RoundHalfEven
<1>4. CASE q < 100
  BY <1>1, <1>4 DEF RoundHalfEven
<1> QED
  BY <1>1, <1>2, <1>3, <1>4

-----------------------------------------------------------------------------
(* Windows. *)

\* A window never holds more correct entries than entries.
LEMMA CorrectInWindow ==
  ASSUME NEW window \in Seq(BOOLEAN)
  PROVE  CorrectIn(window) \in 0..Len(window)
<1>1. IsFiniteSet(1..Len(window)) /\ Cardinality(1..Len(window)) = Len(window)
  <2>1. Len(window) \in Nat /\ 1 \in Int /\ Len(window) \in Int
    OBVIOUS
  <2>2. Cardinality(1..Len(window)) = IF 1 > Len(window) THEN 0 ELSE Len(window) - 1 + 1
    BY <2>1, FS_Interval
  <2> QED
    BY <2>1, <2>2, FS_Interval
<1>2. {i \in DOMAIN window : window[i]} \subseteq 1..Len(window)
  OBVIOUS
<1> QED
  BY <1>1, <1>2, FS_Subset, FS_CardinalityType DEF CorrectIn

\* The mastery the rule computes is always a percentage.
LEMMA MasteryType ==
  ASSUME NEW window \in Seq(BOOLEAN)
  PROVE  MasteryOf(window) \in 0..100
<1>1. CASE window = <<>>
  BY <1>1 DEF MasteryOf
<1>2. CASE window # <<>>
  <2>1. Len(window) \in Nat /\ Len(window) > 0
    BY <1>2
  <2>2. CorrectIn(window) \in Nat /\ CorrectIn(window) <= Len(window)
    BY CorrectInWindow, <2>1
  <2>3. 100 * CorrectIn(window) \in Nat /\ 100 * CorrectIn(window) <= 100 * Len(window)
    BY <2>1, <2>2
  <2> QED
    BY <1>2, <2>1, <2>3, RoundedPercent DEF MasteryOf
<1> QED
  BY <1>1, <1>2

\* Sliding keeps a window within its bound and never empties it.
LEMMA SlideType ==
  ASSUME NEW window \in Windows, NEW correct \in BOOLEAN
  PROVE  Slide(window, correct) \in Windows /\ Slide(window, correct) # <<>>
<1> DEFINE grown == Append(window, correct)
<1>1. /\ window \in Seq(BOOLEAN) /\ Len(window) \in Nat /\ Len(window) <= WindowMax
      /\ WindowMax \in Nat /\ WindowMax > 0
  BY RuleAssumption DEF Windows
<1>2. grown \in Seq(BOOLEAN) /\ Len(grown) = Len(window) + 1
  BY <1>1
<1>3. CASE Len(grown) > WindowMax
  <2>1. Len(grown) - WindowMax + 1 \in 1..Len(grown)
    BY <1>1, <1>2, <1>3
  <2>2. /\ SubSeq(grown, Len(grown) - WindowMax + 1, Len(grown)) \in Seq(BOOLEAN)
        /\ Len(SubSeq(grown, Len(grown) - WindowMax + 1, Len(grown))) = WindowMax
    BY <1>1, <1>2, <2>1
  <2> QED
    BY <1>1, <1>3, <2>2 DEF Slide, Windows
<1>4. CASE ~(Len(grown) > WindowMax)
  BY <1>1, <1>2, <1>4 DEF Slide, Windows
<1> QED
  BY <1>3, <1>4

\* Folding an activity into a row of the table makes a row of the table.
LEMMA AppliedType ==
  ASSUME NEW r \in SkillRow, NEW correct \in BOOLEAN
  PROVE  ApplyScoredActivity(r, correct) \in SkillRow
<1>1. r.level \in Levels /\ r.window \in Windows
  BY DEF SkillRow
<1>2. Slide(r.window, correct) \in Windows
  BY <1>1, SlideType
<1>3. MasteryOf(Slide(r.window, correct)) \in 0..100
  BY <1>2, MasteryType DEF Windows
<1>4. CASE Advances(r, correct)
  <2>1. r.level + 1 \in Levels
    BY <1>1, <1>4, RuleAssumption DEF Advances, Levels
  <2>2. <<>> \in Windows
    BY RuleAssumption DEF Windows
  <2> QED
    BY <1>4, <2>1, <2>2 DEF ApplyScoredActivity, SkillRow
<1>5. CASE ~Advances(r, correct)
  BY <1>1, <1>2, <1>3, <1>5 DEF ApplyScoredActivity, SkillRow
<1> QED
  BY <1>4, <1>5

\* An empty window earns no advance, whatever the thresholds.
LEMMA EmptyNeverQualifies == ~Qualifies(<<>>)
  BY RuleAssumption DEF Qualifies

\* Whatever row it starts from, the rule leaves a settled one: the advance is
\* evaluated on the window the row is left with, and an advance empties it.
LEMMA AppliedSettled ==
  ASSUME NEW r, NEW correct
  PROVE  SettledRow(ApplyScoredActivity(r, correct))
<1>1. CASE Advances(r, correct)
  BY <1>1, EmptyNeverQualifies DEF ApplyScoredActivity, SettledRow, MasteryOf
<1>2. CASE ~Advances(r, correct)
  BY <1>2 DEF ApplyScoredActivity, SettledRow, Advances
<1> QED
  BY <1>1, <1>2

-----------------------------------------------------------------------------
(* Windows as the recent end of a longer history.                          *)

\* window is made of the last entries of outcomes.
EndsWith(outcomes, window) ==
  /\ Len(window) <= Len(outcomes)
  /\ \A i \in 1..Len(window) : window[i] = outcomes[Len(outcomes) - Len(window) + i]

\* The correct entries of a recent end, counted in the whole.
LEMMA RecentCount ==
  ASSUME NEW outcomes \in Seq(BOOLEAN), NEW window \in Seq(BOOLEAN),
         EndsWith(outcomes, window)
  PROVE  CorrectIn(window) =
           Cardinality({i \in DOMAIN outcomes :
                          outcomes[i] /\ i > Len(outcomes) - Len(window)})
<1> DEFINE n == Len(outcomes)
           m == Len(window)
           inWindow == {i \in DOMAIN window : window[i]}
           recent == {i \in DOMAIN outcomes : outcomes[i] /\ i > n - m}
           f == [i \in inWindow |-> n - m + i]
<1>1. n \in Nat /\ m \in Nat /\ m <= n /\ DOMAIN window = 1..m /\ DOMAIN outcomes = 1..n
  BY DEF EndsWith
<1>2. \A i \in 1..m : window[i] = outcomes[n - m + i]
  BY DEF EndsWith
<1>3. f \in [inWindow -> recent]
  <2> SUFFICES ASSUME NEW i \in inWindow PROVE n - m + i \in recent
    OBVIOUS
  <2>1. i \in 1..m /\ window[i]
    BY <1>1
  <2>2. n - m + i \in 1..n /\ n - m + i > n - m
    BY <1>1, <2>1
  <2> QED
    BY <1>1, <1>2, <2>1, <2>2
<1>4. \A i, j \in inWindow : f[i] = f[j] => i = j
  BY <1>1
<1>5. ASSUME NEW k \in recent PROVE \E i \in inWindow : f[i] = k
  <2>1. k \in 1..n /\ outcomes[k] /\ k > n - m
    BY <1>1
  <2> DEFINE i == k - (n - m)
  <2>2. i \in 1..m /\ n - m + i = k
    BY <1>1, <2>1
  <2>3. window[i]
    BY <1>2, <2>1, <2>2
  <2>4. i \in inWindow
    BY <1>1, <2>2, <2>3
  <2> QED
    BY <2>2, <2>4
<1>6. f \in Bijection(inWindow, recent)
  <2> HIDE DEF f, inWindow, recent
  <2>1. f \in Injection(inWindow, recent)
    BY <1>3, <1>4 DEF Injection, IsInjective
  <2>2. f \in Surjection(inWindow, recent)
    BY <1>3, <1>5 DEF Surjection
  <2> QED
    BY <2>1, <2>2 DEF Bijection
<1>7. IsFiniteSet(inWindow)
  <2>1. IsFiniteSet(1..m)
    BY <1>1, FS_Interval
  <2> QED
    BY <1>1, <2>1, FS_Subset
<1> HIDE DEF f
<1>8. Cardinality(inWindow) = Cardinality(recent)
  BY <1>6, <1>7, FS_Bijection DEF ExistsBijection
<1> QED
  BY <1>8 DEF CorrectIn

\* Sliding a recent window keeps it recent.
LEMMA SlideIsRecent ==
  ASSUME NEW outcomes \in Seq(BOOLEAN), NEW window \in Windows, NEW correct \in BOOLEAN,
         EndsWith(outcomes, window), Len(window) = Minimum(Len(outcomes), WindowMax)
  PROVE  /\ EndsWith(Append(outcomes, correct), Slide(window, correct))
         /\ Len(Slide(window, correct)) = Minimum(Len(outcomes) + 1, WindowMax)
<1> DEFINE n == Len(outcomes)
           m == Len(window)
           longer == Append(outcomes, correct)
           grown == Append(window, correct)
<1>1. /\ n \in Nat /\ m \in Nat /\ window \in Seq(BOOLEAN)
      /\ WindowMax \in Nat /\ WindowMax > 0
  BY RuleAssumption DEF Windows
<1>2. /\ Len(longer) = n + 1 /\ longer[n + 1] = correct
      /\ \A i \in 1..n : longer[i] = outcomes[i]
  OBVIOUS
<1>3. /\ grown \in Seq(BOOLEAN) /\ Len(grown) = m + 1 /\ grown[m + 1] = correct
      /\ \A i \in 1..m : grown[i] = window[i]
  BY <1>1
<1>4. EndsWith(longer, grown)
  <2>1. m <= n /\ \A i \in 1..m : window[i] = outcomes[n - m + i]
    BY DEF EndsWith
  <2> SUFFICES ASSUME NEW i \in 1..(m + 1) PROVE grown[i] = longer[n + 1 - (m + 1) + i]
    BY <1>1, <1>2, <1>3, <2>1 DEF EndsWith
  <2>2. CASE i \in 1..m
    <3>1. n - m + i \in 1..n /\ n + 1 - (m + 1) + i = n - m + i
      BY <1>1, <2>1, <2>2
    <3> QED
      BY <1>2, <1>3, <2>1, <2>2, <3>1
  <2>3. CASE i = m + 1
    <3>1. n + 1 - (m + 1) + i = n + 1
      BY <1>1, <2>3
    <3> QED
      BY <1>2, <1>3, <2>3, <3>1
  <2>4. i \in 1..m \/ i = m + 1
    BY <1>1
  <2> QED
    BY <2>2, <2>3, <2>4
<1>5. CASE m + 1 <= WindowMax
  <2>1. Slide(window, correct) = grown
    BY <1>1, <1>3, <1>5 DEF Slide
  <2>2. m + 1 = Minimum(n + 1, WindowMax)
    BY <1>1, <1>5 DEF Minimum, EndsWith
  <2> QED
    BY <1>3, <1>4, <2>1, <2>2
<1>6. CASE ~(m + 1 <= WindowMax)
  <2>1. m = WindowMax /\ n >= m
    BY <1>1, <1>6 DEF Minimum
  <2>2. Slide(window, correct) = SubSeq(grown, 2, m + 1)
    BY <1>1, <1>3, <2>1 DEF Slide
  <2>3. /\ Len(SubSeq(grown, 2, m + 1)) = m
        /\ \A i \in 1..m : SubSeq(grown, 2, m + 1)[i] = grown[i + 1]
    BY <1>1, <1>3
  <2>4. \A i \in 1..m : grown[i + 1] = longer[n + 1 - m + i]
    <3> SUFFICES ASSUME NEW i \in 1..m PROVE grown[i + 1] = longer[n + 1 - m + i]
      OBVIOUS
    <3>1. i + 1 \in 1..(m + 1) /\ n + 1 - (m + 1) + (i + 1) = n + 1 - m + i
      BY <1>1
    <3>2. grown[i + 1] = longer[Len(longer) - Len(grown) + (i + 1)]
      <4>1. i + 1 \in 1..Len(grown)
        BY <1>3, <3>1
      <4> QED
        BY <1>4, <4>1 DEF EndsWith
    <3>3. Len(longer) - Len(grown) + (i + 1) = n + 1 - m + i
      BY <1>1, <1>2, <1>3
    <3> HIDE DEF longer, grown
    <3> QED
      BY <3>2, <3>3
  <2>5. EndsWith(longer, SubSeq(grown, 2, m + 1))
    BY <1>1, <1>2, <2>1, <2>3, <2>4 DEF EndsWith
  <2>6. m = Minimum(n + 1, WindowMax)
    BY <1>1, <2>1 DEF Minimum
  <2> QED
    BY <2>2, <2>3, <2>5, <2>6
<1> QED
  BY <1>5, <1>6

\* One activity adds at most one correct entry, also to a full window.
LEMMA SlideCount ==
  ASSUME NEW window \in Windows, NEW correct \in BOOLEAN
  PROVE  /\ CorrectIn(Slide(window, correct)) <= CorrectIn(window) + 1
         /\ Len(Slide(window, correct)) = Minimum(Len(window) + 1, WindowMax)
<1> DEFINE n == Len(window)
           grown == Append(window, correct)
           slid == Slide(window, correct)
           all == {i \in DOMAIN grown : grown[i]}
           before == {i \in DOMAIN window : window[i]}
           kept == {i \in DOMAIN grown : grown[i] /\ i > Len(grown) - Len(slid)}
<1>1. /\ window \in Seq(BOOLEAN) /\ n \in Nat /\ n <= WindowMax /\ WindowMax \in Nat
      /\ DOMAIN window = 1..n
  BY RuleAssumption DEF Windows
<1>2. /\ grown \in Seq(BOOLEAN) /\ DOMAIN grown = 1..(n + 1)
      /\ \A i \in 1..n : grown[i] = window[i]
  BY <1>1
<1>3. EndsWith(window, window) /\ n = Minimum(n, WindowMax)
  <2>1. \A i \in 1..n : n - n + i = i
    BY <1>1
  <2>2. EndsWith(window, window)
    BY <1>1, <2>1 DEF EndsWith
  <2>3. n = Minimum(n, WindowMax)
    <3>1. n \in Nat /\ WindowMax \in Nat /\ n <= WindowMax
      BY <1>1
    <3> HIDE DEF n
    <3> QED
      BY <3>1 DEF Minimum
  <2> QED
    BY <2>2, <2>3
<1>4. EndsWith(grown, slid) /\ Len(slid) = Minimum(n + 1, WindowMax) /\ slid \in Seq(BOOLEAN)
  BY <1>1, <1>3, SlideIsRecent, SlideType DEF Windows
<1>5. CorrectIn(slid) = Cardinality(kept)
  BY <1>2, <1>4, RecentCount
<1>6. IsFiniteSet(before) /\ IsFiniteSet(all)
  <2>1. IsFiniteSet(1..n) /\ IsFiniteSet(1..(n + 1))
    BY <1>1, FS_Interval
  <2>2. before \subseteq 1..n /\ all \subseteq 1..(n + 1)
    BY <1>1, <1>2
  <2> QED
    BY <2>1, <2>2, FS_Subset
<1>7. kept \subseteq before \cup {n + 1}
  BY <1>1, <1>2
<1> HIDE DEF kept, before, all
<1>8. IsFiniteSet(before \cup {n + 1}) /\ Cardinality(before \cup {n + 1}) <= Cardinality(before) + 1
  <2>1. Cardinality(before) \in Nat
    BY <1>6, FS_CardinalityType
  <2>2. CASE n + 1 \in before
    <3>1. before \cup {n + 1} = before
      BY <2>2
    <3>2. Cardinality(before) <= Cardinality(before) + 1
      BY <2>1
    <3> QED
      BY <1>6, <3>1, <3>2, Zenon
  <2>3. CASE n + 1 \notin before
    <3>1. Cardinality(before \cup {n + 1}) = Cardinality(before) + 1
          /\ IsFiniteSet(before \cup {n + 1})
      BY <1>6, <2>3, FS_AddElement
    <3> QED
      BY <2>1, <3>1
  <2> QED
    BY <2>2, <2>3
<1>9. Cardinality(kept) <= Cardinality(before \cup {n + 1}) /\ Cardinality(kept) \in Nat
      /\ Cardinality(before \cup {n + 1}) \in Nat /\ Cardinality(before) \in Nat
  BY <1>6, <1>7, <1>8, FS_Subset, FS_CardinalityType
<1>10. CorrectIn(window) = Cardinality(before)
  BY DEF CorrectIn, before
<1> QED
  BY <1>4, <1>5, <1>8, <1>9, <1>10

\* A mastery below 50 says that less than half of the window is correct.
LEMMA LowMastery ==
  ASSUME NEW window \in Seq(BOOLEAN), window # <<>>, MasteryOf(window) < 50
  PROVE  2 * CorrectIn(window) < Len(window)
<1> DEFINE num == 100 * CorrectIn(window)
           den == Len(window)
           q == num \div den
           m == num % den
<1>1. CorrectIn(window) \in Nat /\ den \in Nat /\ den > 0
  BY CorrectInWindow
<1>2. num \in Nat
  BY <1>1
<1>3. q \in Nat /\ m \in Nat /\ m < den /\ num = den * q + m
  <2> HIDE DEF num, den
  <2> QED
    BY <1>1, <1>2, Quotient
<1>4. RoundHalfEven(num, den) < 50
  BY DEF MasteryOf
<1>5. q < 50
  BY <1>3, <1>4 DEF RoundHalfEven
<1>6. den * q <= den * 49
  BY <1>1, <1>3, <1>5
<1>7. num < 50 * den
  <2> HIDE DEF num, den, q, m
  <2> QED
    BY <1>1, <1>2, <1>3, <1>6
<1> QED
  BY <1>1, <1>7

\* Below half of the window, one activity is never enough to advance: it can
\* bring at most two entries of three to be correct.
LEMMA LowMasteryNeverAdvances ==
  ASSUME NEW r \in SkillRow, r.mastery = MasteryOf(r.window), r.mastery < 50,
         AdvancePercent > 66, NEW correct \in BOOLEAN
  PROVE  ~Advances(r, correct)
<1> DEFINE window == r.window
           slid == Slide(window, correct)
           k == CorrectIn(window)
           n == Len(window)
<1>1. /\ window \in Windows /\ window \in Seq(BOOLEAN) /\ n \in Nat /\ n <= WindowMax
      /\ WindowMax \in Nat /\ MinActivities \in Nat /\ MinActivities > 1
      /\ WindowMax >= MinActivities /\ AdvancePercent \in Nat
  BY RuleAssumption DEF SkillRow, Windows
<1>2. k \in Nat /\ (n > 0 => 2 * k < n) /\ (n = 0 => k = 0)
  BY <1>1, CorrectInWindow, LowMastery
<1>3. CorrectIn(slid) <= k + 1 /\ Len(slid) = Minimum(n + 1, WindowMax)
      /\ CorrectIn(slid) \in Nat
  <2>1. slid \in Seq(BOOLEAN)
    BY <1>1, SlideType DEF Windows
  <2> QED
    BY <1>1, <2>1, SlideCount, CorrectInWindow
<1> SUFFICES ASSUME Qualifies(slid) PROVE FALSE
  BY DEF Advances
<1>4. Len(slid) >= MinActivities /\ 100 * CorrectIn(slid) >= AdvancePercent * Len(slid)
  BY DEF Qualifies
<1> DEFINE size == Len(slid)
           right == CorrectIn(slid)
<1> HIDE DEF size, right, k, n, window
<1>5. size \in Nat /\ size > 1 /\ (size = n + 1 \/ (size = n /\ n = WindowMax)) /\ n > 0
  BY <1>1, <1>3, <1>4 DEF Minimum, size
<1>6. 67 * size <= AdvancePercent * size
  BY <1>1, <1>5
<1>7. 100 * right >= 67 * size /\ right \in Nat /\ right <= k + 1
  BY <1>1, <1>3, <1>4, <1>5, <1>6 DEF size, right
<1>8. 2 * right <= n + 1
  BY <1>1, <1>2, <1>5, <1>7
<1> QED
  BY <1>1, <1>2, <1>5, <1>7, <1>8

=============================================================================
