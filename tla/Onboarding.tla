----------------------------- MODULE Onboarding -----------------------------
(***************************************************************************)
(* A new student's way to the learning loop: the register, login, placement*)
(* and result pages (frontend/src/app), the session cookie kept by their   *)
(* route handlers, and behind them registration, login and the placement   *)
(* conversation with the offline agent, which ends after a fixed number of *)
(* answers.  One student, one browser tab; the student uses what the pages *)
(* offer.  A call may take effect without the page hearing of it, the tab  *)
(* may be closed and the access token may expire.                          *)
(*                                                                         *)
(* A call of a form that fails without effect leaves the form open again,  *)
(* and is a stutter here unless the page loses its place.  The result page *)
(* has no form: it asks once, and a failure is all it ever shows.          *)
(***************************************************************************)
EXTENDS Naturals, Sequences

CONSTANTS
  TurnsBeforeComplete,  \* ASSESSMENT_TURNS_BEFORE_COMPLETE: 3
  MaxSessions,          \* bound on the placement sessions of the student
  MaxMishaps            \* bound on what goes wrong

ASSUME OnboardingAssumption ==
  /\ TurnsBeforeComplete \in Nat \ {0}
  /\ MaxSessions \in Nat \ {0}
  /\ MaxMishaps \in Nat

VARIABLES
  page,       \* the page shown
  step,       \* the call the register page is at
  shown,      \* the sessionId in the address of the page, 0 for none
  seen,       \* the result page has shown its result
  signedIn,   \* the cookie holds a valid access token
  account,    \* the user is stored
  placements, \* placement_sessions, with the number of their stored answers
  placed,     \* the learner_skill_profiles are stored
  mishaps,    \* how many things went wrong
  \* history, never read by the program
  suffered    \* the kinds of mishap so far

browser == <<page, step, shown, seen, signedIn>>
server == <<account, placements, placed>>
onboardingVars == <<browser, server, mishaps, suffered>>

PlacementSession == [answers : Nat, completed : BOOLEAN]

Kinds == {"registration", "login", "start", "answer", "completion", "result", "expiry", "leave"}

OnboardingTypeOK ==
  /\ page \in {"home", "register", "login", "placement", "result", "failed", "learn"}
  /\ step \in {"form", "login", "start"}
  /\ shown \in 0..Len(placements)
  /\ page \in {"placement", "result", "failed"} => shown > 0
  /\ placements \in Seq(PlacementSession) /\ Len(placements) <= MaxSessions
  /\ seen \in BOOLEAN /\ signedIn \in BOOLEAN
  /\ account \in BOOLEAN /\ placed \in BOOLEAN
  /\ mishaps \in 0..MaxMishaps
  /\ suffered \subseteq Kinds

OnboardingInit ==
  /\ page = "home" /\ step = "form" /\ shown = 0 /\ seen = FALSE /\ signedIn = FALSE
  /\ account = FALSE /\ placements = <<>> /\ placed = FALSE
  /\ mishaps = 0 /\ suffered = {}

Smoothly == UNCHANGED <<mishaps, suffered>>

Mishap(kind) ==
  /\ mishaps < MaxMishaps
  /\ mishaps' = mishaps + 1
  /\ suffered' = suffered \cup {kind}

-----------------------------------------------------------------------------
(* The register page: three calls in a row, started over by its form.      *)

\* The two links of the home page; the login page's link for who has no
\* account, and the way back for who is told that there is one.
Visit ==
  /\ \/ page = "home" /\ page' \in {"register", "login"}
     \/ page = "login" /\ ~account /\ page' = "register"
     \/ page = "register" /\ step = "form" /\ account /\ page' = "login"
  /\ Smoothly /\ UNCHANGED <<step, shown, seen, signedIn, server>>

\* Register by a form that goes on when the e-mail is taken already.
RegisterOrGoOn ==
  /\ page = "register" /\ step = "form"
  /\ account' = TRUE /\ step' = "login"
  /\ Smoothly /\ UNCHANGED <<page, shown, seen, signedIn, placements, placed>>

\* A taken e-mail is refused with 409.
Register ==
  /\ page = "register" /\ step = "form" /\ ~account
  /\ account' = TRUE /\ step' = "login"
  /\ Smoothly /\ UNCHANGED <<page, shown, seen, signedIn, placements, placed>>

RegisterUnheard ==
  /\ page = "register" /\ step = "form" /\ ~account
  /\ account' = TRUE
  /\ Mishap("registration") /\ UNCHANGED <<browser, placements, placed>>

AutoLogin ==
  /\ page = "register" /\ step = "login"
  /\ signedIn' = TRUE /\ step' = "start"
  /\ Smoothly /\ UNCHANGED <<page, shown, seen, server>>

AutoLoginFails ==
  /\ page = "register" /\ step = "login"
  /\ step' = "form"
  /\ Mishap("login") /\ UNCHANGED <<page, shown, seen, signedIn, server>>

NewSession == placements' = Append(placements, [answers |-> 0, completed |-> FALSE])

\* Open the placement page without the identifier of the new session.
StartPlacementUnnamed ==
  /\ page = "register" /\ step = "start" /\ signedIn /\ Len(placements) < MaxSessions
  /\ NewSession
  /\ page' = "placement" /\ step' = "form" /\ shown' = 0
  /\ Smoothly /\ UNCHANGED <<seen, signedIn, account, placed>>

StartPlacement ==
  /\ page = "register" /\ step = "start" /\ signedIn /\ Len(placements) < MaxSessions
  /\ NewSession
  /\ page' = "placement" /\ step' = "form" /\ shown' = Len(placements')
  /\ Smoothly /\ UNCHANGED <<seen, signedIn, account, placed>>

\* The session is stored, or not: its identifier is lost to the page.
StartFails ==
  /\ page = "register" /\ step = "start" /\ Len(placements) < MaxSessions
  /\ (signedIn /\ NewSession) \/ UNCHANGED placements
  /\ step' = "form"
  /\ Mishap("start") /\ UNCHANGED <<page, shown, seen, signedIn, account, placed>>

-----------------------------------------------------------------------------
(* The placement conversation. *)

\* TurnCompletes counting the stored answers only.
StoredTurnsComplete(stored) == stored >= TurnsBeforeComplete

\* The offline agent counts the stored answers and the one it is given.
TurnCompletes(stored) == stored + 1 >= TurnsBeforeComplete

\* The server's part of an answer; a completed session refuses it with 409.
StoreAnswer ==
  LET stored == placements[shown].answers
  IN /\ page = "placement" /\ signedIn /\ ~placements[shown].completed
     /\ placements' = [placements EXCEPT ![shown] =
          [answers |-> stored + 1, completed |-> TurnCompletes(stored)]]
     /\ placed' = (placed \/ TurnCompletes(stored))

\* Wait for a next prompt after the last answer too.
AnswerAndWait ==
  /\ StoreAnswer
  /\ page' = page
  /\ Smoothly /\ UNCHANGED <<step, shown, seen, signedIn, account>>

\* The completed session leads to its result.
SendAnswer ==
  /\ StoreAnswer
  /\ page' = IF placements'[shown].completed THEN "result" ELSE page
  /\ Smoothly /\ UNCHANGED <<step, shown, seen, signedIn, account>>

AnswerUnheard ==
  /\ StoreAnswer
  /\ Mishap(IF placements'[shown].completed THEN "completion" ELSE "answer")
  /\ UNCHANGED <<browser, account>>

\* 409 before the completion.
ResultAvailable == placements[shown].completed

\* The result page asks once, when it is opened...
ShowResult ==
  /\ page = "result" /\ ~seen /\ signedIn
  /\ ResultAvailable
  /\ seen' = TRUE
  /\ Smoothly /\ UNCHANGED <<page, step, shown, signedIn, server>>

\* ... and shows the error for good, without a link, when the answer is lost or
\* the call refused.
ResultFails ==
  /\ page = "result" /\ ~seen
  /\ IF signedIn /\ ResultAvailable THEN Mishap("result") ELSE Smoothly
  /\ page' = "failed"
  /\ UNCHANGED <<step, shown, seen, signedIn, server>>

GoPractise ==
  /\ page = "result" /\ seen
  /\ page' = "learn" /\ shown' = 0
  /\ Smoothly /\ UNCHANGED <<step, seen, signedIn, server>>

-----------------------------------------------------------------------------
(* Returning students. *)

\* The login page leads to the practice page, whoever logs in.
Login ==
  /\ page = "login" /\ account
  /\ signedIn' = TRUE /\ page' = "learn"
  /\ Smoothly /\ UNCHANGED <<step, shown, seen, server>>

\* Fifteen minutes after the login, so not between the calls of the register
\* page; no page asks for a refresh.
Expire ==
  /\ signedIn /\ step = "form"
  /\ signedIn' = FALSE
  /\ Mishap("expiry") /\ UNCHANGED <<page, step, shown, seen, server>>

\* A page whose calls are refused with 401 is left for the login page.
LoginAgain ==
  /\ page \in {"placement", "failed", "learn"} /\ ~signedIn
  /\ page' = "login" /\ shown' = 0
  /\ Smoothly /\ UNCHANGED <<step, seen, signedIn, server>>

\* The tab is closed, and LingoAI opened again later.
Leave ==
  /\ page # "home"
  /\ page' = "home" /\ step' = "form" /\ shown' = 0
  /\ Mishap("leave") /\ UNCHANGED <<seen, signedIn, server>>

Proceed ==
  \/ Visit \/ Register \/ AutoLogin \/ StartPlacement
  \/ SendAnswer \/ ShowResult \/ GoPractise
  \/ Login \/ LoginAgain

OnboardingNext ==
  \/ Proceed
  \/ RegisterUnheard \/ AutoLoginFails \/ StartFails \/ AnswerUnheard \/ ResultFails
  \/ Expire \/ Leave

OnboardingSpec == OnboardingInit /\ [][OnboardingNext]_onboardingVars

\* The student goes on, as long as the page shown offers a way.
FairOnboarding == OnboardingSpec /\ WF_onboardingVars(Proceed)

-----------------------------------------------------------------------------
(* Properties. *)

\* However registration is interrupted and tried again, a student has at most
\* one placement session: no form starts a second one.
OneSessionPerStudent == Len(placements) <= 1

\* The student is placed exactly when a session is completed, and that takes
\* exactly the answers the agent asks for: none is added after it, though the
\* page may send more because it never heard of the completion.
PlacedByAnswers ==
  /\ placed <=> \E i \in DOMAIN placements : placements[i].completed
  /\ \A i \in DOMAIN placements :
       /\ placements[i].answers <= TurnsBeforeComplete
       /\ placements[i].completed <=> placements[i].answers = TurnsBeforeComplete

\* AC-1: a registered student is guided to a result, whatever answers go
\* unheard on the way, as long as the one that completes the placement does
\* not, and nothing else goes wrong: not even the one call of the result page.
GuidedToResult == [](suffered \subseteq {"answer"}) => (account ~> seen)

=============================================================================
