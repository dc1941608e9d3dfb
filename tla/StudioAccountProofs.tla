------------------------- MODULE StudioAccountProofs -------------------------
(***************************************************************************)
(* Theorems about StudioAccount, for any number of requests and keys: one  *)
(* owner, keys forgotten at sign-out, and no key sent before the tab has   *)
(* heard that there is no owner session.                                   *)
(***************************************************************************)
EXTENDS StudioAccount, TLAPS

-----------------------------------------------------------------------------
\* The owner.

\* A step of the tab leaves the server alone; one of the server adds an owner to none.
LEMMA OwnersMove ==
  ASSUME [AccountNext]_vars
  PROVE  owners' = owners \/ (owners = 0 /\ owners' = owners + 1)
  <1>1. CASE AuthSteps
    <2>1. ASSUME NEW c, Refuse(c) \/ CheckSetup(c) \/ VerifyLogin(c) \/ OpenSession(c) \/ ChangePassword(c)
          PROVE  owners' = owners
      BY <2>1 DEF Refuse, CheckSetup, VerifyLogin, OpenSession, ChangePassword
    <2>2. ASSUME NEW c, Logout(c) PROVE owners' = owners
      BY <2>2 DEF Logout
    <2>3. ASSUME NEW c, CreateOwner(c) PROVE owners = 0 /\ owners' = owners + 1
      BY <2>3 DEF CreateOwner, StillNone
    <2>4. ASSUME Elsewhere PROVE owners' = owners \/ (owners = 0 /\ owners' = owners + 1)
      BY <2>4 DEF Elsewhere, SetupRequired
    <2>5. QED BY <1>1, <2>1, <2>2, <2>3, <2>4 DEF AuthSteps
  <1>2. CASE TabSteps
    <2>1. ASSUME NEW p, Load(p) PROVE owners' = owners
      BY <2>1 DEF Load
    <2>2. CASE OpenSettings \/ CloseSettings \/ FailStatus \/ AnswerStatus \/ AnswerStray \/ LandStray
      BY <2>2 DEF OpenSettings, CloseSettings, FailStatus, AnswerStatus, AnswerStray, LandStray, serverVars
    <2>3. CASE PollStatus \/ FocusStatus \/ RetryStatus
      BY <2>3 DEF PollStatus, FocusStatus, RetryStatus, Asks, serverVars
    <2>4. CASE LandStatus
      BY <2>4 DEF LandStatus
    <2>5. CASE SaveKey \/ ClearKey \/ \E b \in BOOLEAN : ChangePersistence(b)
      BY <2>5 DEF SaveKey, ClearKey, ChangePersistence, KeyOnly, serverVars
    <2>6. CASE Submit \/ SignOut \/ SubmitPassword
      BY <2>6 DEF Submit, SignOut, SubmitPassword, SendOnly
    <2>7. ASSUME NEW c, \/ SignedIn(c) \/ SignedOut(c) \/ SignOutFailed(c)
                        \/ PasswordChanged(c) \/ CallEnds(c)
          PROVE  owners' = owners
      BY <2>7 DEF SignedIn, SignedOut, SignOutFailed, PasswordChanged, CallEnds, SendOnly
    <2>8. QED BY <1>2, <2>1, <2>2, <2>3, <2>4, <2>5, <2>6, <2>7 DEF TabSteps
  <1>3. QED
    BY <1>1, <1>2 DEF AccountNext, vars, serverVars

\* The workspace has one owner, however many browsers set it up at once.
THEOREM OwnerAlone == Spec => []OneOwner
  <1> DEFINE I == owners \in Nat /\ OneOwner
  <1>1. AccountInit => I
    BY DEF AccountInit, AuthInit, OneOwner
  <1>2. I /\ [AccountNext]_vars => I'
    BY OwnersMove DEF OneOwner
  <1>3. QED
    BY <1>1, <1>2, PTL DEF Spec

-----------------------------------------------------------------------------
\* The key.

KeyInv == /\ entered \in Nat /\ forgotten \in Nat /\ key \in Nat /\ stored \in Nat
          /\ forgotten <= entered /\ KeyStaysForgotten

\* What a step makes of the keys: nothing, take the tab's, keep the one there is or a new one,
\* or forget.
KeyMoves == \/ UNCHANGED <<key, stored, entered, forgotten>>
            \/ key' = stored /\ UNCHANGED <<stored, entered, forgotten>>
            \/ /\ \/ key' = key /\ entered' = entered
                  \/ key' = entered + 1 /\ entered' = entered + 1
               /\ stored' \in {key', 0} /\ UNCHANGED forgotten
            \/ /\ key' = 0 /\ stored' = 0 /\ entered' = entered
               /\ forgotten' \in {forgotten, entered}

LEMMA KeyMovesOnly ==
  ASSUME [AccountNext]_vars
  PROVE  KeyMoves
  <1>1. CASE AuthSteps /\ UNCHANGED tabVars
    BY <1>1 DEF tabVars, keyVars, KeyMoves
  <1>2. CASE TabSteps
    <2>1. ASSUME NEW p, Load(p) PROVE KeyMoves
      BY <2>1 DEF Load, Loads, KeyMoves
    <2>2. CASE OpenSettings \/ CloseSettings
      BY <2>2 DEF OpenSettings, CloseSettings, keyVars, KeyMoves
    <2>3. CASE \/ PollStatus \/ FocusStatus \/ RetryStatus
               \/ AnswerStatus \/ FailStatus \/ AnswerStray \/ LandStray
      BY <2>3 DEF PollStatus, FocusStatus, RetryStatus, Asks, AnswerStatus, FailStatus, AnswerStray,
         LandStray, keyVars, KeyMoves
    <2>4. CASE LandStatus
      BY <2>4 DEF LandStatus, Loads, KeyMoves
    <2>5. CASE SaveKey
      BY <2>5 DEF SaveKey, Keep, KeyMoves
    <2>6. ASSUME NEW b, ChangePersistence(b) PROVE KeyMoves
      BY <2>6 DEF ChangePersistence, Keep, KeyMoves
    <2>7. CASE ClearKey
      BY <2>7 DEF ClearKey, Forget, KeyMoves
    <2>8. CASE Submit \/ SignOut \/ SubmitPassword
      BY <2>8 DEF Submit, SignOut, SubmitPassword, SendOnly, tabVars, keyVars, KeyMoves
    <2>9. ASSUME NEW c, \/ SignedIn(c) \/ SignedOut(c) \/ SignOutFailed(c)
                        \/ PasswordChanged(c) \/ CallEnds(c)
          PROVE  KeyMoves
      <3>1. CASE SignedIn(c)
        BY <3>1 DEF SignedIn, Loads, KeyMoves
      <3>2. CASE SignedOut(c)
        BY <3>2 DEF SignedOut, Loads, LeftInTab, KeyMoves
      <3>3. CASE SignOutFailed(c)
        BY <3>3 DEF SignOutFailed, Forget, LeftInTab, KeyMoves
      <3>4. CASE PasswordChanged(c) \/ CallEnds(c)
        BY <3>4 DEF PasswordChanged, CallEnds, SendOnly, tabVars, keyVars, KeyMoves
      <3>5. QED BY <2>9, <3>1, <3>2, <3>3, <3>4
    <2>10. QED
      BY <1>2, <2>1, <2>2, <2>3, <2>4, <2>5, <2>6, <2>7, <2>8, <2>9 DEF TabSteps
  <1>3. CASE UNCHANGED vars
    BY <1>3 DEF vars, tabVars, keyVars, KeyMoves
  <1>4. QED BY <1>1, <1>2, <1>3 DEF AccountNext

\* A key entered before a sign-out is gone for good.
THEOREM KeysForgotten == Spec => []KeyStaysForgotten
  <1>1. AccountInit => KeyInv
    BY DEF AccountInit, TabInit, KeyInv, KeyStaysForgotten
  <1>2. KeyInv /\ [AccountNext]_vars => KeyInv'
    <2>1. KeyInv /\ KeyMoves => KeyInv'
      BY DEF KeyInv, KeyStaysForgotten, KeyMoves
    <2>2. QED BY <2>1, KeyMovesOnly
  <1>3. KeyInv => KeyStaysForgotten
    BY DEF KeyInv
  <1>4. QED
    BY <1>1, <1>2, <1>3, PTL DEF Spec

-----------------------------------------------------------------------------
\* What the tab has heard: ownerSessionActive is what was heard last, and there is no data
\* while nothing was heard.

Queries(S) == [data : S, fetch : S, answer : S]
IsQuery(q) == \E S : q \in Queries(S)
HeardInv == /\ IsQuery(status)
            /\ heard \in {"nothing", "in", "out"}
            /\ active \in BOOLEAN /\ (active <=> heard = "in")
            /\ heard = "nothing" => ~Known

\* q changes and brings no data.
Kept(q, r) == IsQuery(r) /\ r.data = q.data

LEMMA QueriesKept ==
  ASSUME NEW q, IsQuery(q), NEW v
  PROVE  /\ Kept(q, q) /\ Kept(q, Fetched(q)) /\ Kept(q, Failed(q)) /\ Kept(q, AnsweredWith(q, v))
         /\ Kept(q, Invalidated(q)) /\ IsQuery(Landed(q))
  <1>1. PICK S : q \in Queries(S)
    BY DEF IsQuery
  <1> DEFINE T == S \cup {"idle", "asked", "answered", NoData, v}
  <1>2. /\ q \in Queries(T) /\ Landed(q) \in Queries(T)
        /\ Failed(q) \in Queries(T) /\ Failed(q).data = q.data
        /\ AnsweredWith(q, v) \in Queries(T) /\ AnsweredWith(q, v).data = q.data
    BY <1>1 DEF Queries, Landed, Failed, AnsweredWith
  <1>3. Fetched(q) \in Queries(T) /\ Fetched(q).data = q.data
    BY <1>1 DEF Queries, Fetched
  <1>4. Invalidated(q) \in Queries(T) /\ Invalidated(q).data = q.data
    BY <1>1, <1>3 DEF Queries, Invalidated
  <1> HIDE DEF T
  <1>5. QED BY <1>2, <1>3, <1>4 DEF Kept, IsQuery

LEMMA FreshQuery == IsQuery(Fetched(NoQuery)) /\ Fetched(NoQuery).data = NoData
  <1> DEFINE T == {"idle", "asked", NoData}
  <1>1. Fetched(NoQuery) \in Queries(T) /\ Fetched(NoQuery).data = NoData
    BY DEF Queries, Fetched, NoQuery
  <1>2. QED BY <1>1 DEF IsQuery

\* A step brings nothing, or loads the page, or brings news.
Nothing == UNCHANGED <<active, heard>> /\ Kept(status, status')
Loaded  == active' = FALSE /\ heard' = "nothing" /\ status' = Fetched(NoQuery)
News    == IsQuery(status') /\ active' \in BOOLEAN /\ heard' = Said(active')
HeardMoves == Nothing \/ Loaded \/ News

LEMMA HeardMovesOnly ==
  ASSUME IsQuery(status), [AccountNext]_vars
  PROVE  HeardMoves
  <1>0. ASSUME UNCHANGED <<active, heard, status>> PROVE HeardMoves
    BY <1>0, QueriesKept DEF HeardMoves, Nothing
  <1>1. CASE AuthSteps /\ UNCHANGED tabVars
    BY <1>1, <1>0 DEF tabVars
  <1>2. CASE TabSteps
    <2>1. ASSUME NEW p, Load(p) PROVE HeardMoves
      BY <2>1 DEF Load, Loads, HeardMoves, Loaded
    <2>2. CASE OpenSettings
      BY <2>2, QueriesKept DEF OpenSettings, HeardMoves, Nothing
    <2>3. CASE CloseSettings \/ AnswerStray
      BY <2>3, <1>0 DEF CloseSettings, AnswerStray
    <2>4. CASE PollStatus \/ FocusStatus \/ RetryStatus
      BY <2>4, QueriesKept DEF PollStatus, FocusStatus, RetryStatus, Asks, HeardMoves, Nothing
    <2>5. CASE AnswerStatus \/ FailStatus
      BY <2>5, QueriesKept DEF AnswerStatus, FailStatus, HeardMoves, Nothing
    <2>6. CASE LandStray
      BY <2>6, QueriesKept DEF LandStray, Kept, HeardMoves, News, Said
    <2>7. CASE LandStatus
      <3>1. ASSUME NEW p, Loads(p, stored) PROVE HeardMoves
        BY <3>1 DEF Loads, HeardMoves, Loaded
      <3>2. CASE /\ status' = Landed(status) /\ active' = Active(status.answer)
                 /\ heard' = Said(Active(status.answer))
        BY <3>2, QueriesKept DEF HeardMoves, News, Active
      <3>3. QED BY <2>7, <3>1, <3>2 DEF LandStatus
    <2>8. CASE SaveKey \/ ClearKey \/ \E b \in BOOLEAN : ChangePersistence(b)
      BY <2>8, <1>0 DEF SaveKey, ClearKey, ChangePersistence, KeyOnly
    <2>9. CASE Submit \/ SignOut \/ SubmitPassword
      BY <2>9, <1>0 DEF Submit, SignOut, SubmitPassword, SendOnly, tabVars
    <2>10. ASSUME NEW c, SignedIn(c) \/ SignedOut(c) PROVE HeardMoves
      BY <2>10 DEF SignedIn, SignedOut, Loads, HeardMoves, Loaded
    <2>11. ASSUME NEW c, SignOutFailed(c) PROVE HeardMoves
      BY <2>11, QueriesKept DEF SignOutFailed, Kept, HeardMoves, News, Said
    <2>12. ASSUME NEW c, PasswordChanged(c) PROVE HeardMoves
      BY <2>12, QueriesKept DEF PasswordChanged, HeardMoves, Nothing
    <2>13. ASSUME NEW c, CallEnds(c) PROVE HeardMoves
      BY <2>13, <1>0 DEF CallEnds, SendOnly, tabVars
    <2>14. QED
      BY <1>2, <2>1, <2>2, <2>3, <2>4, <2>5, <2>6, <2>7, <2>8, <2>9, <2>10, <2>11, <2>12, <2>13
         DEF TabSteps
  <1>3. CASE UNCHANGED vars
    BY <1>3, <1>0 DEF vars, tabVars
  <1>4. QED BY <1>1, <1>2, <1>3 DEF AccountNext

\* No page sends the key before the tab has heard that there is no owner session.
THEOREM KeyWaits == Spec => []OwnerSuppressesKey
  <1>1. AccountInit => HeardInv
    BY FreshQuery DEF AccountInit, TabInit, HeardInv, Known
  <1>2. HeardInv /\ [AccountNext]_vars => HeardInv'
    <2>1. HeardInv /\ Nothing => HeardInv'
      BY DEF HeardInv, Nothing, Kept, Known
    <2>2. Loaded => HeardInv'
      BY FreshQuery DEF HeardInv, Loaded, Known
    <2>3. News => HeardInv'
      BY DEF HeardInv, News, Said
    <2>4. QED BY <2>1, <2>2, <2>3, HeardMovesOnly DEF HeardMoves, HeardInv
  <1>3. HeardInv => OwnerSuppressesKey
    BY DEF HeardInv, OwnerSuppressesKey, Mounted, GateOpen, Known, RequestKey
  <1>4. QED
    BY <1>1, <1>2, <1>3, PTL DEF Spec
=============================================================================
