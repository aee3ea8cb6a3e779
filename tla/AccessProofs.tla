---------------------------- MODULE AccessProofs ----------------------------
(***************************************************************************)
(* One user per e-mail, and access only for those who logged in as one,    *)
(* for any number of requests and any lifetimes of the tokens.             *)
(***************************************************************************)
EXTENDS Access, TLAPS

\* A login goes on only for a registered user, which is never deleted.
LoginsKnown ==
  \A l \in Logins :
    stage[l] \in {"verified", "issued"} => \E u \in users : SameCredentials(u, l)

\* A refresh token belongs to a login that has ended, so its time stays.
TokensIssued == \A l \in tokens : stage[l] = "issued"

\* A refresh fell into the life of the token it was given.
RefreshedInTime ==
  \A f \in Refreshes :
    stage[f] = "issued" =>
      /\ LoginOf[f] \in tokens
      /\ at[LoginOf[f]] <= at[f]
      /\ at[f] < at[LoginOf[f]] + RefreshTTL

NeverAhead == \A r \in Requests : at[r] <= clock

\* A call let in presented a token that had been issued.
CallsBacked ==
  \A c \in Calls : stage[c] = "accepted" => stage[SourceOf[c]] = "issued"

\* Only a password that was hashed is stored, and it can be checked again.
PasswordsCheckable ==
  \A g \in Registrations :
    g \in users \/ stage[g] = "hashed" => ValidPassword(g) /\ Hashable(g)

Inv ==
  /\ PasswordsCheckable
  /\ TypeOK /\ LoginsKnown /\ TokensIssued /\ RefreshedInTime /\ NeverAhead
  /\ CallsBacked /\ OneUserPerEmail /\ AccessIsEarned

-----------------------------------------------------------------------------
\* A whole second and the ticks after it.
LEMMA SecondOf ==
  ASSUME NEW time \in Nat
  PROVE  /\ WholeSecond(time) \in Nat
         /\ Second * WholeSecond(time) <= time
         /\ time < Second * WholeSecond(time) + Second
<1> DEFINE q == time \div Second
           m == time % Second
<1>1. q \in Nat /\ m \in Nat /\ m < Second /\ time = Second * q + m
  BY AccessAssumption
<1> HIDE DEF q, m
<1>2. Second * q \in Nat
  BY <1>1, AccessAssumption
<1>3. Second * q <= time /\ time < Second * q + Second
  BY <1>1, <1>2, AccessAssumption
<1> QED
  BY <1>1, <1>3 DEF q, WholeSecond

\* A time whose second is not after that of another is less than a second later.
LEMMA SameSecond ==
  ASSUME NEW time \in Nat, NEW expiry \in Nat, WholeSecond(time) <= WholeSecond(expiry)
  PROVE  time < expiry + Second
<1> DEFINE early == WholeSecond(time)
           late == WholeSecond(expiry)
<1>1. /\ early \in Nat /\ late \in Nat /\ early <= late
      /\ time < Second * early + Second /\ Second * late <= expiry
  BY SecondOf
<1>2. Second \in Nat
  BY AccessAssumption
<1> HIDE DEF early, late
<1>3. Second * early <= Second * late
  BY <1>1, <1>2
<1>4. Second * early \in Nat /\ Second * late \in Nat
  BY <1>1, <1>2
<1> QED
  BY <1>1, <1>2, <1>3, <1>4

LEMMA Sources ==
  ASSUME NEW c \in Calls
  PROVE  /\ SourceOf[c] \in Requests
         /\ LoginBehind(c) \in Logins
         /\ LoginBehind(c) \in Requests
         /\ c \in Requests
         /\ c \notin Registrations \cup Logins \cup Refreshes
         /\ SourceOf[c] \in Logins => LoginBehind(c) = SourceOf[c]
         /\ SourceOf[c] \notin Logins =>
              SourceOf[c] \in Refreshes /\ LoginBehind(c) = LoginOf[SourceOf[c]]
BY AccessAssumption DEF Requests, LoginBehind

LEMMA InitInv == Init => Inv
BY AccessAssumption
   DEF Init, Inv, TypeOK, Answers, Requests, LoginsKnown, TokensIssued, RefreshedInTime,
       NeverAhead, CallsBacked, OneUserPerEmail, AccessIsEarned, PasswordsCheckable

\* The request of a registration or login changes; no clock, no issued token.
LEMMA PlainStep ==
  ASSUME Inv, NEW r \in Registrations \cup Logins,
         UNCHANGED <<clock, tokens, at>>, users \subseteq users',
         users' \subseteq Registrations, OneUserPerEmail',
         stage[r] # "issued",
         NEW answer \in {"hashed", "verified"} \cup Answers, answer # "issued",
         stage' = [stage EXCEPT ![r] = answer],
         users' \subseteq users \cup {r},
         r \in Registrations /\ (r \in users' \/ answer = "hashed") =>
           r \in users \/ (ValidPassword(r) /\ Hashable(r)),
         r \in Registrations /\ answer = "created" => r \in users',
         r \in Logins /\ answer = "verified" => \E u \in users : SameCredentials(u, r)
  PROVE  Inv'
<1> USE DEF Inv
<1>1. r \in Requests /\ r \notin Refreshes \cup Calls
  BY AccessAssumption DEF Requests
<1>2. \A q \in Requests : q # r => stage'[q] = stage[q]
  BY DEF TypeOK
<1>3. stage'[r] = answer
  BY <1>1 DEF TypeOK
<1>4. TypeOK'
  BY <1>1, <1>2, <1>3 DEF TypeOK, Requests
<1>5. LoginsKnown'
  BY <1>2, <1>3 DEF LoginsKnown, Requests
<1>6. TokensIssued'
  BY <1>2 DEF TokensIssued, TypeOK, Requests
<1>7. RefreshedInTime' /\ NeverAhead'
  BY <1>1, <1>2 DEF RefreshedInTime, NeverAhead, Requests
<1>8. CallsBacked'
  BY <1>1, <1>2, Sources DEF CallsBacked
<1>9. AccessIsEarned'
  <2> SUFFICES ASSUME NEW c \in Calls, stage'[c] = "accepted"
               PROVE  /\ \E u \in users' : SameCredentials(u, LoginBehind(c))
                      /\ at[LoginBehind(c)] <= at[c]
                      /\ at[c] < at[LoginBehind(c)] + RefreshTTL + AccessTTL + Second
    BY DEF AccessIsEarned
  <2> QED
    BY <1>1, <1>2, Sources DEF AccessIsEarned
<1>10. PasswordsCheckable'
  <2> SUFFICES ASSUME NEW g \in Registrations, g \in users' \/ stage'[g] = "hashed"
               PROVE  ValidPassword(g) /\ Hashable(g)
    BY DEF PasswordsCheckable, ValidPassword, Hashable
  <2>1. CASE g = r
    BY <1>3, <2>1 DEF PasswordsCheckable
  <2>2. CASE g # r
    BY <1>2, <2>2 DEF PasswordsCheckable, Requests
  <2> QED
    BY <2>1, <2>2
<1> QED
  BY <1>4, <1>5, <1>6, <1>7, <1>8, <1>9, <1>10

LEMMA LookUpEmailInv ==
  ASSUME Inv, NEW g \in Registrations, LookUpEmail(g) PROVE Inv'
<1>1. PICK answer \in {"invalid", "taken", "unhashable", "hashed"} :
        /\ stage' = [stage EXCEPT ![g] = answer]
        /\ answer = "hashed" => ValidPassword(g) /\ Hashable(g)
  BY DEF LookUpEmail, Answer
<1>2. OneUserPerEmail' /\ users' = users
  BY DEF Inv, OneUserPerEmail, LookUpEmail
<1>3. answer \in {"hashed", "verified"} \cup Answers /\ answer # "issued"
  BY DEF Answers
<1>4. /\ UNCHANGED <<clock, tokens, at>>
      /\ users \subseteq users' /\ users' \subseteq users \cup {g} /\ users' \subseteq Registrations
  BY <1>2 DEF LookUpEmail, Inv, TypeOK
<1>5. g \in Registrations \cup Logins /\ g \notin Logins /\ stage[g] # "issued"
  BY AccessAssumption DEF LookUpEmail
<1> QED
  BY <1>1, <1>2, <1>3, <1>4, <1>5, PlainStep

LEMMA InsertUserInv ==
  ASSUME Inv, NEW g \in Registrations, InsertUser(g) PROVE Inv'
<1>1. PICK answer \in {"conflict", "created", "failed"} :
        /\ stage' = [stage EXCEPT ![g] = answer]
        /\ answer = "created" => g \in users'
  BY DEF InsertUser, Answer
<1>2. users \subseteq users' /\ users' \subseteq users \cup {g} /\ users' \subseteq Registrations
  BY DEF InsertUser, Inv, TypeOK
<1>3. ValidPassword(g) /\ Hashable(g)
  BY DEF InsertUser, Inv, PasswordsCheckable
<1>4. OneUserPerEmail'
  BY DEF InsertUser, RowsFor, Inv, OneUserPerEmail
<1> QED
  BY <1>1, <1>2, <1>3, <1>4, PlainStep, AccessAssumption DEF InsertUser, Answers

LEMMA CheckPasswordInv ==
  ASSUME Inv, NEW l \in Logins, CheckPassword(l) PROVE Inv'
<1>1. PICK answer \in {"invalid", "refused", "unhashable", "verified"} :
        /\ stage' = [stage EXCEPT ![l] = answer]
        /\ answer = "verified" => \E u \in users : SameCredentials(u, l)
  BY DEF CheckPassword, Answer, RowsFor, SameCredentials
<1>2. OneUserPerEmail' /\ users' = users
  BY DEF Inv, OneUserPerEmail, CheckPassword
<1> QED
  BY <1>1, <1>2, PlainStep DEF CheckPassword, Answers, Inv, TypeOK

LEMMA FailInv ==
  ASSUME Inv, NEW r \in Registrations \cup Logins, Fail(r) PROVE Inv'
<1>1. OneUserPerEmail' /\ users' = users
  BY DEF Inv, OneUserPerEmail, Fail
<1> QED
  BY <1>1, PlainStep DEF Fail, Answer, Answers, Inv, TypeOK

LEMMA IssueTokensInv ==
  ASSUME Inv, NEW l \in Logins, IssueTokens(l) PROVE Inv'
<1> USE DEF Inv, IssueTokens, Answer
<1>1. l \in Requests /\ l \notin Registrations \cup Refreshes \cup Calls
  BY AccessAssumption DEF Requests
<1>2. \A q \in Requests : q # l => stage'[q] = stage[q] /\ at'[q] = at[q]
  BY DEF TypeOK
<1>3. stage'[l] = "issued" /\ at'[l] = clock /\ l \notin tokens
  BY <1>1 DEF TypeOK, TokensIssued
<1>4. TypeOK'
  BY <1>1, <1>2, <1>3 DEF TypeOK, Answers, Requests
<1>5. LoginsKnown' /\ TokensIssued'
  BY <1>2, <1>3 DEF LoginsKnown, TokensIssued, TypeOK, Requests
<1>6. NeverAhead'
  BY <1>2, <1>3 DEF NeverAhead, TypeOK
<1>7. RefreshedInTime'
  <2> SUFFICES ASSUME NEW f \in Refreshes, stage'[f] = "issued"
               PROVE  /\ LoginOf[f] \in tokens'
                      /\ at'[LoginOf[f]] <= at'[f]
                      /\ at'[f] < at'[LoginOf[f]] + RefreshTTL
    BY DEF RefreshedInTime
  <2>1. LoginOf[f] \in tokens /\ LoginOf[f] # l /\ f # l
    BY <1>1, <1>2, <1>3 DEF RefreshedInTime, Requests
  <2>2. at'[LoginOf[f]] = at[LoginOf[f]] /\ at'[f] = at[f]
    BY <1>2, <2>1, AccessAssumption DEF Requests
  <2> QED
    BY <1>1, <1>2, <2>1, <2>2 DEF RefreshedInTime, Requests
<1>8. CallsBacked'
  BY <1>1, <1>2, <1>3, Sources DEF CallsBacked
<1>9. OneUserPerEmail' /\ PasswordsCheckable'
  BY <1>1, <1>2 DEF OneUserPerEmail, PasswordsCheckable, ValidPassword, Hashable, Requests
<1>10. AccessIsEarned'
  <2> SUFFICES ASSUME NEW c \in Calls, stage'[c] = "accepted"
               PROVE  /\ \E u \in users : SameCredentials(u, LoginBehind(c))
                      /\ at'[LoginBehind(c)] <= at'[c]
                      /\ at'[c] < at'[LoginBehind(c)] + RefreshTTL + AccessTTL + Second
    BY DEF AccessIsEarned
  <2>1. stage[c] = "accepted" /\ at'[c] = at[c]
    BY <1>1, <1>2, Sources
  <2>2. stage[SourceOf[c]] = "issued"
    BY <2>1 DEF CallsBacked
  <2>3. LoginBehind(c) # l
    BY <1>3, <2>2, Sources DEF RefreshedInTime
  <2> QED
    BY <1>2, <2>1, <2>3, Sources DEF AccessIsEarned
<1> QED
  BY <1>4, <1>5, <1>6, <1>7, <1>8, <1>9, <1>10

LEMMA RefreshInv ==
  ASSUME Inv, NEW f \in Refreshes, Refresh(f) PROVE Inv'
<1> USE DEF Inv, Refresh, Answer
<1>1. f \in Requests /\ f \notin Registrations \cup Logins \cup Calls
  BY AccessAssumption DEF Requests
<1>2. \A q \in Requests : q # f => stage'[q] = stage[q] /\ at'[q] = at[q]
  BY DEF TypeOK
<1>3. \/ stage'[f] = "issued" /\ at'[f] = clock /\ RefreshLives(LoginOf[f])
      \/ stage'[f] = "refused" /\ at'[f] = at[f]
  BY <1>1 DEF TypeOK
<1>4. LoginOf[f] \in Logins /\ LoginOf[f] \in Requests /\ LoginOf[f] # f
  BY <1>1, AccessAssumption DEF Requests
<1>5. TypeOK'
  BY <1>1, <1>2, <1>3 DEF TypeOK, Answers, Requests
<1>6. LoginsKnown' /\ TokensIssued' /\ OneUserPerEmail' /\ PasswordsCheckable'
  BY <1>1, <1>2 DEF LoginsKnown, TokensIssued, OneUserPerEmail, PasswordsCheckable,
     ValidPassword, Hashable, TypeOK, Requests
<1>7. NeverAhead'
  BY <1>2, <1>3 DEF NeverAhead, TypeOK
<1>8. RefreshedInTime'
  <2> SUFFICES ASSUME NEW e \in Refreshes, stage'[e] = "issued"
               PROVE  /\ LoginOf[e] \in tokens
                      /\ at'[LoginOf[e]] <= at'[e]
                      /\ at'[e] < at'[LoginOf[e]] + RefreshTTL
    BY DEF RefreshedInTime
  <2>1. LoginOf[e] \in Requests /\ LoginOf[e] # f /\ e \in Requests
    BY <1>1, AccessAssumption DEF Requests
  <2>2. CASE e = f
    BY <1>2, <1>3, <1>4, <2>2 DEF RefreshLives, NeverAhead
  <2>3. CASE e # f
    BY <1>2, <2>1, <2>3 DEF RefreshedInTime
  <2> QED
    BY <2>2, <2>3
<1>9. CallsBacked'
  BY <1>1, <1>2, Sources DEF CallsBacked, TypeOK
<1>10. AccessIsEarned'
  <2> SUFFICES ASSUME NEW c \in Calls, stage'[c] = "accepted"
               PROVE  /\ \E u \in users : SameCredentials(u, LoginBehind(c))
                      /\ at'[LoginBehind(c)] <= at'[c]
                      /\ at'[c] < at'[LoginBehind(c)] + RefreshTTL + AccessTTL + Second
    BY DEF AccessIsEarned
  <2>1. LoginBehind(c) # f /\ c # f
    BY <1>1, Sources
  <2> QED
    BY <1>2, <2>1, Sources DEF AccessIsEarned
<1> QED
  BY <1>5, <1>6, <1>7, <1>8, <1>9, <1>10

LEMMA CallRouteInv ==
  ASSUME Inv, NEW c \in Calls, CallRoute(c) PROVE Inv'
<1> USE DEF Inv, CallRoute, Answer
<1>1. c \in Requests /\ c \notin Registrations \cup Logins \cup Refreshes
  BY Sources
<1>2. \A q \in Requests : q # c => stage'[q] = stage[q] /\ at'[q] = at[q]
  BY DEF TypeOK
<1>3. \/ stage'[c] = "accepted" /\ at'[c] = clock /\ AccessLives(SourceOf[c])
      \/ stage'[c] = "refused" /\ at'[c] = at[c]
  BY <1>1 DEF TypeOK
<1>4. TypeOK'
  BY <1>1, <1>2, <1>3 DEF TypeOK, Answers, Requests
<1>5. LoginsKnown' /\ TokensIssued' /\ OneUserPerEmail' /\ PasswordsCheckable'
  BY <1>1, <1>2 DEF LoginsKnown, TokensIssued, OneUserPerEmail, PasswordsCheckable,
     ValidPassword, Hashable, TypeOK, Requests
<1>6. NeverAhead'
  BY <1>2, <1>3 DEF NeverAhead, TypeOK
<1>7. RefreshedInTime'
  BY <1>1, <1>2, AccessAssumption DEF RefreshedInTime, Requests
<1>8. CallsBacked'
  BY <1>1, <1>2, <1>3, Sources DEF CallsBacked, AccessLives
<1>9. AccessIsEarned'
  <2> SUFFICES ASSUME NEW d \in Calls, stage'[d] = "accepted"
               PROVE  /\ \E u \in users : SameCredentials(u, LoginBehind(d))
                      /\ at'[LoginBehind(d)] <= at'[d]
                      /\ at'[d] < at'[LoginBehind(d)] + RefreshTTL + AccessTTL + Second
    BY DEF AccessIsEarned
  <2> DEFINE login == LoginBehind(d)
  <2>1. at'[login] = at[login] /\ login \in Logins /\ login \in Requests
    BY <1>1, <1>2, Sources
  <2>2. CASE d # c
    BY <1>2, <2>1, <2>2, Sources DEF AccessIsEarned
  <2>3. CASE d = c
    <3>1. /\ at'[d] = clock /\ stage[SourceOf[d]] = "issued"
          /\ clock < at[SourceOf[d]] + AccessTTL + Second
      <4>1. AccessLives(SourceOf[d]) /\ at'[d] = clock
        BY <1>3, <2>3
      <4>2. at[SourceOf[d]] + AccessTTL \in Nat /\ clock \in Nat
        BY Sources, AccessAssumption DEF TypeOK
      <4>3. clock < (at[SourceOf[d]] + AccessTTL) + Second
        BY <4>1, <4>2, SameSecond DEF AccessLives
      <4>4. (at[SourceOf[d]] + AccessTTL) + Second = at[SourceOf[d]] + AccessTTL + Second
        OBVIOUS
      <4> QED
        BY <4>1, <4>3, <4>4 DEF AccessLives
    <3>2. \E u \in users : SameCredentials(u, login)
      BY <3>1, Sources DEF LoginsKnown, RefreshedInTime, TokensIssued
    <3>3. at[login] <= clock
      BY <2>1 DEF NeverAhead
    <3>4. at[SourceOf[d]] < at[login] + RefreshTTL
      <4>1. at[login] \in Nat /\ RefreshTTL \in Nat \ {0}
        BY <2>1, AccessAssumption DEF TypeOK
      <4> QED
        BY <3>1, <4>1, Sources DEF RefreshedInTime
    <3>5. /\ at[SourceOf[d]] \in Nat /\ at[login] \in Nat /\ clock \in Nat
          /\ RefreshTTL \in Nat /\ AccessTTL \in Nat /\ Second \in Nat
      BY <2>1, Sources, AccessAssumption DEF TypeOK
    <3> HIDE DEF login
    <3>6. clock < at[login] + RefreshTTL + AccessTTL + Second
      BY <3>1, <3>4, <3>5
    <3> QED
      BY <2>1, <3>1, <3>2, <3>3, <3>6 DEF login
  <2> QED
    BY <2>2, <2>3
<1> QED
  BY <1>4, <1>5, <1>6, <1>7, <1>8, <1>9

LEMMA TickInv == ASSUME Inv, Tick PROVE Inv'
<1> USE DEF Inv, Tick
<1>1. TypeOK'
  BY AccessAssumption DEF TypeOK
<1>2. NeverAhead'
  BY DEF NeverAhead, TypeOK
<1>3. /\ LoginsKnown' /\ TokensIssued' /\ RefreshedInTime' /\ CallsBacked'
      /\ OneUserPerEmail' /\ PasswordsCheckable'
  BY DEF LoginsKnown, TokensIssued, RefreshedInTime, CallsBacked, OneUserPerEmail,
     PasswordsCheckable, ValidPassword, Hashable
<1>4. AccessIsEarned'
  BY DEF AccessIsEarned
<1> QED
  BY <1>1, <1>2, <1>3, <1>4

LEMMA Unchanged == ASSUME Inv, UNCHANGED vars PROVE Inv'
BY DEF vars, Inv, TypeOK, LoginsKnown, TokensIssued, RefreshedInTime, NeverAhead,
       CallsBacked, OneUserPerEmail, AccessIsEarned, PasswordsCheckable, ValidPassword, Hashable

-----------------------------------------------------------------------------
THEOREM Invariance == Spec => []Inv
<1>1. ASSUME Inv, [Next]_vars PROVE Inv'
  BY <1>1, LookUpEmailInv, InsertUserInv, CheckPasswordInv, IssueTokensInv, FailInv,
     RefreshInv, CallRouteInv, TickInv, Unchanged DEF Next
<1> QED
  BY InitInv, <1>1, PTL DEF Spec

\* The type invariant: a login that answered has stored its refresh token.
THEOREM TypeCorrect == Spec => []TypeOK
BY Invariance, PTL DEF Inv

\* However registrations of one e-mail overlap, one user row comes of them.
THEOREM OneUserPerEmailAlways == Spec => []OneUserPerEmail
BY Invariance, PTL DEF Inv

\* Every call let in goes back to a login of a registered user, less than the
\* lives of a refresh and an access token, and a second, ago.
THEOREM AccessIsEarnedAlways == Spec => []AccessIsEarned
BY Invariance, PTL DEF Inv

\* A student whose row is stored passes the password check: the row found for
\* the e-mail is its own, and its password is one that can be checked.
THEOREM RegisteredMayEnterAlways == Spec => RegisteredMayEnter
<1> DEFINE NotTurnedAway ==
             \A l \in Logins :
               stage[l] = "idle" /\ stage'[l] \in {"invalid", "refused", "unhashable"} =>
                 \A g \in users : ~SameCredentials(g, l)
<1>1. ASSUME Inv, [Next]_vars PROVE NotTurnedAway
  <2> SUFFICES ASSUME NEW l \in Logins, stage[l] = "idle",
                      stage'[l] \in {"invalid", "refused", "unhashable"},
                      NEW g \in users, SameCredentials(g, l)
               PROVE  FALSE
    OBVIOUS
  <2>1. l \in Requests /\ l \notin Registrations \cup Refreshes \cup Calls
    BY AccessAssumption DEF Requests
  <2>2. CheckPassword(l)
    BY <1>1, <2>1
       DEF Next, vars, Tick, LookUpEmail, InsertUser, Fail, CheckPassword, IssueTokens,
           Refresh, CallRoute, Answer, Inv, TypeOK
  <2>3. ValidPassword(l) /\ Hashable(l)
    <3>1. g \in Registrations /\ PasswordOf[g] = PasswordOf[l]
      BY <1>1 DEF Inv, TypeOK, SameCredentials
    <3> QED
      BY <1>1, <3>1 DEF Inv, PasswordsCheckable, ValidPassword, Hashable
  <2>4. g \in RowsFor(l)
    BY DEF RowsFor, SameCredentials
  <2>5. PICK u \in RowsFor(l) : PasswordOf[u] # PasswordOf[l]
    <3>1. \A answer : Answer(l, answer) => stage'[l] = answer
      BY <1>1, <2>1 DEF Answer, Inv, TypeOK
    <3> QED
      BY <2>2, <2>3, <2>4, <3>1 DEF CheckPassword
  <2>6. g = u
    BY <1>1, <2>4, <2>5 DEF RowsFor, Inv, OneUserPerEmail
  <2> QED
    BY <2>5, <2>6 DEF SameCredentials
<1>2. Inv /\ [Next]_vars => [NotTurnedAway]_vars
  BY <1>1
<1> QED
  BY <1>2, Invariance, PTL DEF Spec, RegisteredMayEnter

=============================================================================
