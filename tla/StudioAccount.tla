---------------------------- MODULE StudioAccount ----------------------------
(***************************************************************************)
(* One tab of the Studio and its two credentials (lib/api.ts, AuthGate,    *)
(* AuthPage, the account and security parts of SettingsView): the owner's  *)
(* session, and an API key that is kept in memory or for the tab.  Every   *)
(* change of address is a full page load, which forgets what is in memory. *)
(* Keys are numbered in the order they are entered.                        *)
(***************************************************************************)
EXTENDS AuthSessions, QueryCache

CONSTANT MaxKeys
ASSUME MaxKeysAssumption == MaxKeys \in Nat

VARIABLES
  page,      \* "login", "setup", and behind the gate "studio", "settings"
  status,    \* the query ['auth-status']
  failed,    \* its last fetch failed
  stray,     \* a fetch of it that was dropped and still runs: "none", "asked", "in", "out"
  active,    \* ownerSessionActive
  key,       \* browserApiKey, 0 for none
  kept,      \* browserApiKeyPersistence
  stored,    \* the key in sessionStorage
  form,      \* Settings: apiKeySaved and persistApiKeyForSession
  entered,   \* keys entered so far
  heard,     \* what the tab last heard of the session since the load: for the properties only
  forgotten  \* the last key entered before a sign-out: for the properties only

keyVars == <<key, kept, stored, form, entered, forgotten>>
tabVars == <<page, status, failed, stray, active, heard, keyVars>>
vars    == <<serverVars, tabVars>>

Gated == page \in {"studio", "settings"}
Known == status.data # NoData
\* AuthGate shows its children.
WhileLoading(s, f) == ~f /\ (s.data # NoData => (s.data.required => s.data.authenticated))
GateOpen(s, f) == ~f /\ s.data # NoData /\ (s.data.required => s.data.authenticated)
Mounted == Gated /\ GateOpen(status, failed)
InSettings == page = "settings" /\ Mounted

\* getRequestApiKey()
RequestKey == IF active THEN 0 ELSE key

\* The form of Settings when it is mounted.
FormOf(k, p) == [saved |-> k # 0, persist |-> p = "session"]

TabInit == /\ page = "studio" /\ status = Fetched(NoQuery) /\ failed = FALSE /\ stray = "none"
           /\ active = FALSE /\ heard = "nothing"
           /\ key = 0 /\ kept = "none" /\ stored = 0 /\ form = FormOf(0, "none")
           /\ entered = 0 /\ forgotten = 0

-----------------------------------------------------------------------------
\* A page load: initializeBrowserApiKey() takes the key of the tab.  Requests run on for
\* nobody.
Loads(p, k) == /\ page' = p
               /\ key' = k /\ stored' = k
               /\ kept' = (IF k # 0 THEN "session" ELSE "none") /\ form' = FormOf(k, kept')
               /\ active' = FALSE /\ heard' = "nothing"
               /\ status' = Fetched(NoQuery) /\ failed' = FALSE /\ stray' = "none"
Orphaned(cs) == {[c EXCEPT !.held = FALSE] : c \in cs}

Load(p) == /\ Loads(p, stored) /\ calls' = Orphaned(calls)
           /\ UNCHANGED <<required, owners, cookie, entered, forgotten>>

OpenSettings == /\ page = "studio" /\ Mounted /\ page' = "settings"
                /\ form' = FormOf(key, kept)
                /\ status' \in {status, Fetched(status)}
                /\ UNCHANGED <<serverVars, failed, stray, active, heard, key, kept, stored, entered,
                               forgotten>>
CloseSettings == /\ InSettings /\ page' = "studio"
                 /\ UNCHANGED <<serverVars, status, failed, stray, active, heard, keyVars>>

-----------------------------------------------------------------------------
\* The status of the session.

Asks(guard) == /\ guard /\ status.fetch = "idle" /\ status' = Fetched(status)
               /\ UNCHANGED <<serverVars, page, failed, stray, active, heard, keyVars>>
PollStatus  == Asks(InSettings)                 \* refetchInterval
FocusStatus == Asks(Gated)                      \* refetchOnWindowFocus
RetryStatus == Asks(failed)

AnswerStatus == /\ status.fetch = "asked" /\ status' = AnsweredWith(status, Status)
                /\ UNCHANGED <<serverVars, page, failed, stray, active, heard, keyVars>>
FailStatus == /\ status.fetch \in {"asked", "answered"} /\ status' = Failed(status)
              /\ failed' = TRUE
              /\ UNCHANGED <<serverVars, page, stray, active, heard, keyVars>>

\* Where the effects of AuthGate and AuthPage send the tab.
StaysSignedOut(p, s) == IF s.required /\ s.setup THEN "setup" ELSE p
Behind(p, s) == CASE s.required /\ s.setup          -> "setup"
                  [] s.required /\ ~s.authenticated -> "login"
                  [] OTHER                          -> p
Before(p, s) == CASE ~s.required                    -> "studio"
                  [] s.setup                        -> "setup"
                  [] ~s.setup /\ s.authenticated    -> "studio"
                  [] OTHER                          -> "login"
Destination(p, s) == IF Gated THEN Behind(p, s) ELSE Before(p, s)

Active(s) == s.required /\ s.authenticated
Said(on) == IF on THEN "in" ELSE "out"
LandStatus ==
  /\ status.fetch = "answered"
  /\ LET s == status.answer
         to == Destination(page, s)
     IN IF to = page
        THEN /\ status' = Landed(status) /\ failed' = FALSE
             /\ active' = Active(s) /\ heard' = Said(Active(s))
             /\ form' = (IF failed THEN FormOf(key, kept) ELSE form)   \* Settings is mounted anew
             /\ UNCHANGED <<page, stray, key, kept, stored, calls>>
        ELSE Loads(to, stored) /\ calls' = Orphaned(calls)
  /\ UNCHANGED <<required, owners, cookie, entered, forgotten>>

\* A dropped fetch still sets ownerSessionActive.
AnswerStray == /\ stray = "asked" /\ stray' = Said(Authenticated)
               /\ UNCHANGED <<serverVars, page, status, failed, active, heard, keyVars>>
LandStray == /\ stray \in {"in", "out"} /\ stray' = "none"
             /\ active' = (stray = "in") /\ heard' = stray
             /\ UNCHANGED <<serverVars, page, status, failed, keyVars>>

-----------------------------------------------------------------------------
\* The key.

KeyOnly == UNCHANGED <<serverVars, page, status, failed, stray, active, heard>>

\* setBrowserApiKey() and setBrowserApiKeyPersistence(): the tab's storage may refuse, and
\* then keeps nothing.
Keep(k, persist) == \E written \in BOOLEAN :
  /\ key' = k
  /\ kept' = IF k = 0 THEN "none" ELSE IF persist /\ written THEN "session" ELSE "memory"
  /\ stored' = IF kept' = "session" THEN k ELSE 0
Forget(left) == key' = 0 /\ kept' = "none" /\ stored' = left

SaveKey == /\ InSettings /\ entered < MaxKeys /\ entered' = entered + 1
           /\ Keep(entered', form.persist)
           /\ form' = [saved |-> TRUE, persist |-> kept' = "session"]
           /\ KeyOnly /\ UNCHANGED forgotten
ChangePersistence(persist) ==
  /\ InSettings /\ persist # form.persist
  /\ IF form.saved THEN Keep(key, persist) /\ form' = [form EXCEPT !.persist = kept' = "session"]
     ELSE form' = [form EXCEPT !.persist = persist] /\ UNCHANGED <<key, kept, stored>>
  /\ KeyOnly /\ UNCHANGED <<entered, forgotten>>
ClearKey == /\ InSettings /\ form.saved
            /\ Forget(0) /\ form' = FormOf(0, "none")
            /\ KeyOnly /\ UNCHANGED <<entered, forgotten>>

-----------------------------------------------------------------------------
\* Signing in and out.

Waiting(op) == \E c \in calls : c.op = op /\ c.held
SendOnly == UNCHANGED <<required, owners, cookie, tabVars>>

\* AuthPage's form: canSubmit.
Submit == /\ page \in {"setup", "login"} /\ Known /\ ~failed /\ ~Waiting(page)
          /\ Send(page) /\ SendOnly
SignOut == /\ Mounted /\ Known /\ status.data.required /\ ~Waiting("logout")
           /\ Send("logout") /\ SendOnly
SubmitPassword == /\ InSettings /\ Known /\ status.data.required /\ ~Waiting("password")
                  /\ Send("password") /\ SendOnly

Done(c) == c \in calls /\ calls' = calls \ {c}
Succeeds(c, op) == c.op = op /\ c.held /\ c.st = "answered"
SignedIn(c) == /\ Succeeds(c, page) /\ page \in {"setup", "login"}
               /\ Loads("studio", stored)
               /\ calls' = Orphaned(calls \ {c})
               /\ UNCHANGED <<required, owners, cookie, entered, forgotten>>

\* authLogout() forgets the key of the tab whether or not the server has answered.
KeptInTab == stored
LeftInTab == 0
SignedOut(c) == /\ Succeeds(c, "logout") /\ Loads("login", LeftInTab)
                /\ calls' = Orphaned(calls \ {c}) /\ forgotten' = entered
                /\ UNCHANGED <<required, owners, cookie, entered>>
SignOutFailed(c) == /\ c.op = "logout" /\ c.held /\ c.st = "refused" /\ Done(c)
                    /\ Forget(LeftInTab) /\ forgotten' = entered
                    /\ active' = FALSE /\ heard' = "out"
                    /\ UNCHANGED <<required, owners, cookie, page, status, failed, stray, form, entered>>

PasswordChanged(c) == /\ Succeeds(c, "password") /\ Done(c)
                      /\ status' = Invalidated(status)
                      /\ stray' = CASE status.fetch = "asked" -> "asked"
                                    [] status.fetch = "answered" -> Said(Active(status.answer))
                                    [] OTHER -> stray
                      /\ UNCHANGED <<required, owners, cookie, page, failed, active, heard, keyVars>>
\* The form shows the error; a call of an earlier page load is answered to nobody.
CallEnds(c) == /\ \/ c.held /\ c.op # "logout" /\ c.st = "refused"
                  \/ ~c.held /\ c.st \in {"refused", "answered"}
               /\ Done(c) /\ SendOnly

TabSteps == \/ \E p \in {"studio", "login", "setup"} : Load(p)
            \/ OpenSettings \/ CloseSettings
            \/ PollStatus \/ FocusStatus \/ RetryStatus
            \/ AnswerStatus \/ FailStatus \/ LandStatus \/ AnswerStray \/ LandStray
            \/ SaveKey \/ (\E b \in BOOLEAN : ChangePersistence(b)) \/ ClearKey
            \/ Submit \/ SignOut \/ SubmitPassword
            \/ \E c \in calls : \/ SignedIn(c) \/ SignedOut(c) \/ SignOutFailed(c)
                                \/ PasswordChanged(c) \/ CallEnds(c)

AccountNext == TabSteps \/ (AuthSteps /\ UNCHANGED tabVars)

AccountInit == AuthInit /\ TabInit
Spec == AccountInit /\ [][AccountNext]_vars

\* The interval of Settings fires, and a server that is asked again and again answers some time.
FairSpec == /\ Spec /\ WF_vars(PollStatus) /\ SF_vars(AnswerStatus) /\ SF_vars(LandStatus)

-----------------------------------------------------------------------------
\* A key entered before a sign-out is gone for good, from memory and from the tab, although the
\* sign-out may have failed, Settings may still show it as saved, and the page may be reloaded.
KeyStaysForgotten == (key # 0 => key > forgotten) /\ (stored # 0 => stored > forgotten)

\* A page of the Studio sends its requests with the key only when the tab has heard that there
\* is no owner session, never before it has heard, in whatever order answers arrive.
OwnerSuppressesKey == (Mounted /\ RequestKey # 0) => heard = "out"

\* Settings is left for the sign-in page some time after the session is over.
SessionEndLeaves ==
  (InSettings /\ required /\ cookie # "open")
    ~> (page \in {"setup", "login", "studio"} \/ failed \/ cookie = "open" \/ ~required)
=============================================================================
