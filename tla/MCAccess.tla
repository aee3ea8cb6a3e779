------------------------------ MODULE MCAccess ------------------------------
(***************************************************************************)
(* Four registrations of one e-mail: two with passwords of their own, and  *)
(* a login with each, one with a password too short and one with a         *)
(* password short enough in characters only.  One call presents the token  *)
(* of the first login, the other one a token refreshed from it.            *)
(***************************************************************************)
EXTENDS Access

CONSTANTS g1, g2, g3, g4, l1, l2, f1, c1, c2, p1, p2, short, accented

MCEmailOf == [r \in Registrations \cup Logins |-> "student"]

MCPasswordOf ==
  [r \in Registrations \cup Logins |->
     CASE r \in {g1, l1} -> p1
       [] r \in {g2, l2} -> p2
       [] r = g3         -> short
       [] r = g4         -> accented]

MCChars == [p \in {p1, p2, short, accented} |-> IF p = short THEN 7 ELSE 10]

MCBytes == [p \in {p1, p2, short, accented} |-> IF p = accented THEN 20 ELSE 10]

MCLoginOf == [f \in Refreshes |-> l1]

MCSourceOf == [c \in Calls |-> IF c = c1 THEN l1 ELSE f1]

=============================================================================
