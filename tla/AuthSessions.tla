---------------------------- MODULE AuthSessions ----------------------------
(***************************************************************************)
(* The owner account and the session of one browser (auth/router.py,       *)
(* auth/service.py): handlers check first and write later, under the lock  *)
(* of the service.  All tabs of the browser share the cookie.  Passwords   *)
(* and the attempt limit are nondeterministic refusals.                    *)
(***************************************************************************)
EXTENDS Integers, FiniteSets

CONSTANT MaxCalls
ASSUME MaxCallsAssumption == MaxCalls \in Nat

VARIABLES
  required,  \* security.auth_required
  owners,    \* rows of the table accounts
  cookie,    \* this browser's session: "none", "open", or "over" when revoked or expired
  calls      \* requests of the tab on their way

serverVars == <<required, owners, cookie, calls>>

AuthInit == required \in BOOLEAN /\ owners = 0 /\ cookie = "none" /\ calls = {}

SetupRequired == required /\ owners = 0
Authenticated == required /\ cookie = "open"
Status == [required |-> required, setup |-> SetupRequired, authenticated |-> Authenticated]

Send(op) == /\ Cardinality(calls) < MaxCalls
            /\ calls' = calls \cup {[op |-> op, st |-> "sent", held |-> TRUE]}
Reply(c, st) == calls' = (calls \ {c}) \cup {[c EXCEPT !.st = st]}
Sent(c, op) == c.op = op /\ c.st = "sent"
Checked(c, op) == c.op = op /\ c.st = "checked"

\* Refused by the server, or the request was lost.
Refuse(c) == c.st \in {"sent", "checked"} /\ Reply(c, "refused") /\ UNCHANGED <<required, owners, cookie>>

\* A new session: its cookie reaches the browser with the answer, or the answer is lost.
Opened(c) == \/ cookie' = "open" /\ Reply(c, "answered")
             \/ UNCHANGED cookie /\ Reply(c, "refused")

\* setup_owner() looks for an account, and create_owner() looks again under the lock.
CheckSetup(c) == /\ Sent(c, "setup") /\ SetupRequired
                 /\ Reply(c, "checked") /\ UNCHANGED <<required, owners, cookie>>
NotLooking == TRUE
StillNone == owners = 0
CreateOwner(c) == /\ Checked(c, "setup") /\ StillNone
                  /\ owners' = owners + 1
                  /\ Opened(c) /\ UNCHANGED required

\* login() verifies the password and opens a session later.
VerifyLogin(c) == /\ Sent(c, "login") /\ required /\ owners > 0
                  /\ Reply(c, "checked") /\ UNCHANGED <<required, owners, cookie>>
OpenSession(c) == Checked(c, "login") /\ Opened(c) /\ UNCHANGED <<required, owners>>

\* logout() revokes the session; without the answer the browser keeps its cookie.
Logout(c) == /\ Sent(c, "logout")
             /\ \/ cookie' = "none" /\ Reply(c, "answered")
                \/ cookie' = (IF cookie = "open" THEN "over" ELSE cookie) /\ Reply(c, "refused")
             /\ UNCHANGED <<required, owners>>

\* change_password() ends every other session, and this one stays.
ChangePassword(c) == /\ Sent(c, "password") /\ Authenticated
                     /\ Reply(c, "answered") /\ UNCHANGED <<required, owners, cookie>>

\* What happens elsewhere: another browser sets the owner up, or ends this session by a new
\* password; it expires; another tab signs in or out; the server restarts with other settings.
Elsewhere ==
  /\ \/ SetupRequired /\ owners' = 1 /\ UNCHANGED <<required, cookie>>
     \/ cookie = "open" /\ cookie' = "over" /\ UNCHANGED <<required, owners>>
     \/ cookie = "open" /\ cookie' = "none" /\ UNCHANGED <<required, owners>>
     \/ required /\ owners > 0 /\ cookie' = "open" /\ UNCHANGED <<required, owners>>
     \/ required' = ~required /\ UNCHANGED <<owners, cookie>>
  /\ UNCHANGED calls

AuthSteps == \/ \E c \in calls : \/ Refuse(c) \/ CheckSetup(c) \/ CreateOwner(c) \/ VerifyLogin(c)
                                 \/ OpenSession(c) \/ Logout(c) \/ ChangePassword(c)
             \/ Elsewhere

-----------------------------------------------------------------------------
\* The workspace has one owner, however many browsers set it up at once.
OneOwner == owners <= 1
=============================================================================
