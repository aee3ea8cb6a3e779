------------------------------- MODULE Access -------------------------------
(***************************************************************************)
(* Registration, login, refresh and the check of every protected route     *)
(* (identity): what the handlers read and write in Postgres, for           *)
(* concurrent requests, and what their tokens are good for as time passes. *)
(*                                                                         *)
(* Nothing writes revoked_at, changes a password or deletes a user.        *)
(* Time is in ticks, of which a second has several: an expiry stored in    *)
(* Postgres keeps its microseconds, one in a JWT is a whole second.        *)
(***************************************************************************)
EXTENDS Naturals

CONSTANTS
  Registrations,  \* POST /auth/register
  Logins,         \* POST /auth/login
  Refreshes,      \* POST /auth/refresh
  Calls,          \* requests to a protected route
  EmailOf,        \* of a registration or login
  PasswordOf,     \* of a registration or login
  Chars,          \* length of a password in characters
  Bytes,          \* length of a password in UTF-8
  LoginOf,        \* the login whose refresh token a Refresh presents
  SourceOf,       \* the login or refresh whose access token a call presents
  MinPassword,    \* 8
  MaxPassword,    \* MAX_PASSWORD_BYTES
  AccessTTL,      \* JWT_ACCESS_TOKEN_EXPIRE_MINUTES
  RefreshTTL,     \* JWT_REFRESH_TOKEN_EXPIRE_DAYS
  Second,         \* ticks in a second
  MaxTime         \* bound on the clock

Requests == Registrations \cup Logins \cup Refreshes \cup Calls

ASSUME AccessAssumption ==
  /\ Registrations \cap Logins = {} /\ Refreshes \cap Calls = {}
  /\ (Registrations \cup Logins) \cap (Refreshes \cup Calls) = {}
  /\ LoginOf \in [Refreshes -> Logins]
  /\ SourceOf \in [Calls -> Logins \cup Refreshes]
  /\ AccessTTL \in Nat /\ RefreshTTL \in Nat \ {0} /\ MaxTime \in Nat
  /\ Second \in Nat \ {0}

VARIABLES
  clock,    \* datetime.now(UTC)
  stage,    \* of each request; the last one is its answer
  users,    \* the registrations whose users row is committed
  tokens,   \* the logins whose refresh_tokens row is committed
  at        \* when a login or refresh issued its tokens, a call was let in

vars == <<clock, stage, users, tokens, at>>

Answers ==
  {"invalid",      \* 422
   "taken",        \* 409, EmailAlreadyRegisteredError
   "created",      \* 201
   "refused",      \* 401
   "issued",       \* 200, with an access token
   "accepted",     \* a protected route runs
   "conflict",     \* 500, an uncaught IntegrityError
   "unhashable",   \* 500, bcrypt raises on more than MaxPassword bytes
   "failed"}       \* 500, the database

\* Also, an answer promises what is committed already.
TypeOK ==
  /\ clock \in 0..MaxTime
  /\ stage \in [Requests -> {"idle", "hashed", "verified"} \cup Answers]
  /\ users \subseteq Registrations
  /\ tokens \subseteq Logins
  /\ at \in [Requests -> 0..MaxTime]
  /\ \A g \in Registrations : stage[g] = "created" => g \in users
  /\ \A l \in Logins : stage[l] = "issued" => l \in tokens

Init ==
  /\ clock = 0
  /\ stage = [r \in Requests |-> "idle"]
  /\ users = {}
  /\ tokens = {}
  /\ at = [r \in Requests |-> 0]

-----------------------------------------------------------------------------
ValidPassword(r) == Chars[PasswordOf[r]] \in MinPassword..MaxPassword

Hashable(r) == Bytes[PasswordOf[r]] <= MaxPassword

RowsFor(r) == {u \in users : EmailOf[u] = EmailOf[r]}

Answer(r, answer) == stage' = [stage EXCEPT ![r] = answer]

\* register_user, up to the hash.
LookUpEmail(g) ==
  /\ stage[g] = "idle"
  /\ Answer(g, IF ~ValidPassword(g) THEN "invalid"
               ELSE IF RowsFor(g) # {} THEN "taken"
               ELSE IF ~Hashable(g) THEN "unhashable"
               ELSE "hashed")
  /\ UNCHANGED <<clock, users, tokens, at>>

\* InsertUser without the unique index on email.
InsertAnyUser(g) ==
  /\ stage[g] = "hashed"
  /\ users' = users \cup {g}
  /\ \E answer \in {"created", "failed"} : Answer(g, answer)
  /\ UNCHANGED <<clock, tokens, at>>

\* The commit inserts the row, or meets the unique index; reading the row back
\* may fail once it is committed.
InsertUser(g) ==
  /\ stage[g] = "hashed"
  /\ IF RowsFor(g) # {}
     THEN Answer(g, "conflict") /\ users' = users
     ELSE /\ users' = users \cup {g}
          /\ \E answer \in {"created", "failed"} : Answer(g, answer)
  /\ UNCHANGED <<clock, tokens, at>>

\* login, up to verify_password.  The query returns one row of those it finds.
CheckPassword(l) ==
  /\ stage[l] = "idle"
  /\ IF ~ValidPassword(l) THEN Answer(l, "invalid")
     ELSE IF RowsFor(l) = {} THEN Answer(l, "refused")
     ELSE IF ~Hashable(l) THEN Answer(l, "unhashable")
     ELSE \E u \in RowsFor(l) :
            Answer(l, IF PasswordOf[u] = PasswordOf[l] THEN "verified" ELSE "refused")
  /\ UNCHANGED <<clock, users, tokens, at>>

\* _issue_tokens_for
IssueTokens(l) ==
  /\ stage[l] = "verified"
  /\ tokens' = tokens \cup {l}
  /\ at' = [at EXCEPT ![l] = clock]
  /\ Answer(l, "issued")
  /\ UNCHANGED <<clock, users>>

\* The connection breaks, or the process dies, before a commit.
Fail(r) ==
  /\ stage[r] \in {"hashed", "verified"}
  /\ Answer(r, "failed")
  /\ UNCHANGED <<clock, users, tokens, at>>

\* RefreshLives without a look at expires_at.
RefreshLivesOn(l) == l \in tokens

RefreshLives(l) == l \in tokens /\ clock < at[l] + RefreshTTL

\* refresh_access_token; a token that was never issued is not found.
Refresh(f) ==
  /\ stage[f] = "idle"
  /\ IF RefreshLives(LoginOf[f])
     THEN Answer(f, "issued") /\ at' = [at EXCEPT ![f] = clock]
     ELSE Answer(f, "refused") /\ at' = at
  /\ UNCHANGED <<clock, users, tokens>>

WholeSecond(time) == time \div Second

\* jwt.encode cuts the expiry to its second; jwt.decode cuts the time it is and
\* accepts the second of the expiry too.
AccessLives(s) ==
  stage[s] = "issued" /\ WholeSecond(clock) <= WholeSecond(at[s] + AccessTTL)

\* get_current_user_id: no table is read.
CallRoute(c) ==
  /\ stage[c] = "idle"
  /\ IF AccessLives(SourceOf[c])
     THEN Answer(c, "accepted") /\ at' = [at EXCEPT ![c] = clock]
     ELSE Answer(c, "refused") /\ at' = at
  /\ UNCHANGED <<clock, users, tokens>>

Tick ==
  /\ clock < MaxTime
  /\ clock' = clock + 1
  /\ UNCHANGED <<stage, users, tokens, at>>

Next ==
  \/ Tick
  \/ \E g \in Registrations : LookUpEmail(g) \/ InsertUser(g) \/ Fail(g)
  \/ \E l \in Logins : CheckPassword(l) \/ IssueTokens(l) \/ Fail(l)
  \/ \E f \in Refreshes : Refresh(f)
  \/ \E c \in Calls : CallRoute(c)

Spec == Init /\ [][Next]_vars

-----------------------------------------------------------------------------
LoginBehind(c) == IF SourceOf[c] \in Logins THEN SourceOf[c] ELSE LoginOf[SourceOf[c]]

SameCredentials(r, other) ==
  EmailOf[r] = EmailOf[other] /\ PasswordOf[r] = PasswordOf[other]

\* Registrations of one e-mail race between look-up and insertion, and only one
\* user row comes of it.
OneUserPerEmail ==
  \A u, v \in users : EmailOf[u] = EmailOf[v] => u = v

\* Whoever is let in once logged in with the credentials of a registered user,
\* and no chain of refreshes carries that login beyond the life of its refresh
\* token and of the last access token it was exchanged for, which lasts less
\* than a second longer than its minutes.
AccessIsEarned ==
  \A c \in Calls :
    stage[c] = "accepted" =>
      /\ \E u \in users : SameCredentials(u, LoginBehind(c))
      /\ at[LoginBehind(c)] <= at[c]
      /\ at[c] < at[LoginBehind(c)] + RefreshTTL + AccessTTL + Second

\* A student whose row is stored is never turned away with its credentials,
\* whatever the registration was answered (a 500 may follow the commit), though
\* another registration of the e-mail was under way; and no row is stored whose
\* password a login could not even check.
RegisteredMayEnter ==
  [][\A l \in Logins :
       stage[l] = "idle" /\ stage'[l] \in {"invalid", "refused", "unhashable"} =>
         \A g \in users : ~SameCredentials(g, l)]_vars

=============================================================================
