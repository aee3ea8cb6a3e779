----------------------------- MODULE MCPlacement -----------------------------
(***************************************************************************)
(* Two placement sessions of one student; r1 and r2 carry the same         *)
(* submission.                                                             *)
(***************************************************************************)
EXTENDS Placement

CONSTANTS r1, r2, r3, r4, s1, s2, s3, p1, p2

MCSubmissionOf ==
  [r \in Requests |-> CASE r \in {r1, r2} -> s1 [] r = r3 -> s2 [] OTHER -> s3]

MCSessionOf == [r \in Requests |-> IF r = r4 THEN p2 ELSE p1]

MCSkillOrder == <<"reading", "writing", "speaking">>

MCRequired == {"reading", "writing"}

\* Text only, with audio, and a result the database refuses.
MCSignals == {{"reading", "writing"}, {"reading", "writing", "speaking"}, {"reading"}}

=============================================================================
