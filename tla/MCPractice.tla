----------------------------- MODULE MCPractice -----------------------------
(***************************************************************************)
(* Instances of Practice.  Efforts of 5, 10 and 20 words are wrong in both *)
(* bands, right in the easy one only, and right in both.                   *)
(***************************************************************************)
EXTENDS Practice, TLC

MCSkills == {"reading"} \cup {ExerciseSkills[i] : i \in DOMAIN ExerciseSkills}

MCExerciseSkills == <<"listening", "speaking", "writing">>
MCTwoSkills == <<"listening", "writing">>
\* The order of the dictionary of seed.py.
MCSeedSkills == <<"writing", "speaking", "listening">>

MCSeedOrder ==
  LET taught == SelectSeq(MCSeedSkills, LAMBDA k : k \in Exercisable)
      count == TopLevel + 1
  IN [i \in 1..(Len(taught) * count) |->
        <<taught[(i - 1) \div count + 1], (i - 1) % count>>]


CONSTANTS d1, d2, p1, p2

MCSymmetry == Permutations({d1, d2}) \cup Permutations({p1, p2})

=============================================================================
