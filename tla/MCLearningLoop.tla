--------------------------- MODULE MCLearningLoop ---------------------------
(***************************************************************************)
(* Instances of LearningLoop.  Windows are cut to three entries, of which  *)
(* two are enough to advance, and a streak badge takes two days: every     *)
(* branch of the rules is a few requests away.                             *)
(***************************************************************************)
EXTENDS LearningLoop

CONSTANTS r1, r2, r3, r4, s1, s2, s3, c1, c2

MCSkills == {"writing", "speaking", "listening"}

\* One correct answer short of an advance.
MCAlmostThere == {[level |-> 0, mastery |-> 100, window |-> <<TRUE>>]}

\* That, and a row that slides a full window.
MCRows ==
  MCAlmostThere \cup {[level |-> 0, mastery |-> 67, window |-> <<FALSE, TRUE, TRUE>>]}

\* r1 and r2 carry the same submission: a double send, or a retry.
MCDoubleSend == [r \in Requests |-> IF r = r3 THEN s2 ELSE s1]

\* One exercise and one message, each sent by two requests.
MCAllTwice == [r \in Requests |-> IF r \in Exercises THEN s1 ELSE s2]

MCEachItsOwn ==
  [r \in Requests |-> CASE r = r1 -> s1 [] r = r2 -> s2 [] OTHER -> s3]

Writing == [skill |-> "writing", type |-> "writing_exercise"]

\* Every exercise is of one skill.
MCOneSkill == [r \in Exercises |-> Writing]

MCOneSession == [r \in Requests \ Exercises |-> c1]

MCTwoSessions == [r \in Requests \ Exercises |-> IF r = r3 THEN c1 ELSE c2]

=============================================================================
