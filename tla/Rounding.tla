------------------------------ MODULE Rounding ------------------------------
(***************************************************************************)
(* Python's built-in round on the quotients this program rounds: the       *)
(* nearest integer, and the even one of two neighbours that are equally    *)
(* near.  level_advancement_rule.py rounds accuracy * 100 with it and      *)
(* xp_rule.py rounds base_xp * score.  Scores are in hundredths, so both   *)
(* arguments are exact: the floats of the code that fall on a half are     *)
(* dyadic and therefore exact too.                                         *)
(***************************************************************************)
EXTENDS Integers

RoundHalfEven(num, den) ==
  LET quotient  == num \div den
      remainder == num % den
      roundsDown == \/ 2 * remainder < den
                    \/ 2 * remainder = den /\ quotient % 2 = 0
  IN IF roundsDown THEN quotient ELSE quotient + 1

=============================================================================
