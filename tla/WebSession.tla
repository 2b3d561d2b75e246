----------------------------- MODULE WebSession -----------------------------
(***************************************************************************)
(* The session of the web client (web/src/lib/auth/context.tsx): the tabs  *)
(* of one browser share the tokens in localStorage, each tab has an        *)
(* ApiClient with a token of its own and shows a user.  Every await is a   *)
(* point where another flow, of this tab or of another, may go on.  A flow *)
(* outlives the AuthProvider that started it: each of the two layouts      *)
(* mounts a provider of its own.                                           *)
(*                                                                         *)
(* A pair is an access and a refresh token, numbered as they are issued;   *)
(* 0 is no token.                                                          *)
(***************************************************************************)
EXTENDS Integers

CONSTANTS
    Tabs,
    People,
    Flows,      \* async calls that may be in flight: hydrateSession, login, logout
    MaxPairs,   \* bound on the pairs the server issues
    Nobody

ASSUME WebAssumption == MaxPairs \in Nat /\ Nobody \notin People \union Tabs

VARIABLES
    owner,      \* server: whom each pair was issued to
    live,       \* server: refresh tokens that can still be exchanged
    storage,    \* localStorage: thittam_access_token and thittam_refresh_token
    tab,        \* per tab: ApiClient.token, and the provider's user
    flow,       \* the calls in flight; mine: their provider is still mounted
    troubled,   \* history: calls overlapped, a request failed, or the server ended a session
    muddled,    \* history: tabs with overlapping calls, or a login cut off half way
    kicked,     \* history: hydrateSession has signed a tab out
    signedOut   \* history: the last logout overlapped no other call, and no login followed

webVars == <<owner, live, storage, tab, flow, troubled, muddled, kicked, signedOut>>

Pairs == 1 .. MaxPairs
Issued == {p \in Pairs : owner[p] # Nobody}
NoTokens == [access |-> 0, refresh |-> 0]
NoFlow == [at |-> "none", tab |-> Nobody, pair |-> 0, who |-> Nobody, mine |-> FALSE]

Flow == [at: {"none", "me", "refresh", "granted", "me2", "refused",
              "login", "loggedIn", "loginMe", "logout", "loggedOut"},
         tab: Tabs \union {Nobody}, pair: {0} \union Issued, who: People \union {Nobody}, mine: BOOLEAN]

\* Tokens are ones the server issued, and a flow is at one of its awaits.
WebTypeOK ==
    /\ owner \in [Pairs -> People \union {Nobody}]
    /\ live \subseteq Issued
    /\ storage \in [access: {0} \union Issued, refresh: {0} \union Issued]
    /\ tab \in [Tabs -> [token: {0} \union Issued, user: People \union {Nobody}]]
    /\ flow \in [Flows -> Flow]
    /\ troubled \in BOOLEAN /\ kicked \in BOOLEAN /\ signedOut \in BOOLEAN
    /\ muddled \subseteq Tabs

WebInit ==
    /\ owner = [p \in Pairs |-> Nobody] /\ live = {}
    /\ storage = NoTokens
    /\ tab = [t \in Tabs |-> [token |-> 0, user |-> Nobody]]
    /\ flow = [f \in Flows |-> NoFlow]
    /\ troubled = FALSE /\ muddled = {} /\ kicked = FALSE /\ signedOut = FALSE

-----------------------------------------------------------------------------
(* What the handlers are made of                                           *)

serverVars == <<owner, live>>
historyVars == <<troubled, muddled, kicked, signedOut>>

Busy == {f \in Flows : flow[f] # NoFlow}
BusyIn(t) == {f \in Busy : flow[f].tab = t}

\* A flow that starts while others are in flight.
NoteOverlap(t) ==
    /\ troubled' = (troubled \/ Busy # {})
    /\ muddled' = IF BusyIn(t) # {} THEN muddled \union {t} ELSE muddled

Step(f, at, pair) == flow' = [flow EXCEPT ![f] = [flow[f] EXCEPT !.at = at, !.pair = pair]]
Ends(f) == flow' = [flow EXCEPT ![f] = NoFlow]

storeTokens(p) == storage' = [access |-> p, refresh |-> p]

\* setUser, which has no effect once the provider is unmounted.
Shown(f, user) == IF flow[f].mine THEN user ELSE tab[flow[f].tab].user

\* clearAuth, of the flow's tab.
clearAuth(f) ==
    /\ storage' = NoTokens
    /\ tab' = [tab EXCEPT ![flow[f].tab] = [token |-> 0, user |-> Shown(f, Nobody)]]

\* The server issues a pair to u.
Issue(u, p) ==
    /\ p \in Pairs \ Issued /\ \A q \in Pairs : q < p => q \in Issued
    /\ owner' = [owner EXCEPT ![p] = u]

-----------------------------------------------------------------------------
(* Mounting: the effect of AuthProvider and hydrateSession                 *)

\* A provider mounts in tab t.  A page load ends what the tab had in flight; a
\* change of layout leaves it running.
Mount(t, f, load) ==
    /\ flow[f] = NoFlow
    /\ LET kept == [g \in Flows |->
                      IF flow[g].tab # t THEN flow[g]
                      ELSE IF load THEN NoFlow ELSE [flow[g] EXCEPT !.mine = FALSE]]
       IN  IF storage.access = 0
           THEN /\ flow' = kept
                /\ tab' = [tab EXCEPT ![t] = [token |-> IF load THEN 0 ELSE tab[t].token, user |-> Nobody]]
           ELSE /\ flow' = [kept EXCEPT ![f] = [at |-> "me", tab |-> t, pair |-> storage.access,
                                                who |-> Nobody, mine |-> TRUE]]
                /\ tab' = [tab EXCEPT ![t] = [token |-> storage.access, user |-> Nobody]]
    /\ NoteOverlap(t)
    /\ UNCHANGED <<serverVars, storage, kicked, signedOut>>

\* GET /api/v1/auth/me answers with the owner of the access token it was sent.
MeAnswers(f) ==
    /\ flow[f].at \in {"me", "me2", "loginMe"}
    /\ tab' = [tab EXCEPT ![flow[f].tab].user = Shown(f, owner[flow[f].pair])]
    /\ Ends(f)
    /\ UNCHANGED <<serverVars, storage, historyVars>>

\* The access token has expired, or the request fails for another reason: the
\* refresh token is read from localStorage now.
MeFails(f) ==
    /\ flow[f].at = "me"
    /\ IF storage.refresh # 0
       THEN Step(f, "refresh", storage.refresh) /\ UNCHANGED <<storage, tab, kicked>>
       ELSE clearAuth(f) /\ Ends(f) /\ kicked' = TRUE
    /\ UNCHANGED <<serverVars, troubled, muddled, signedOut>>

\* The server exchanges a refresh token once, for a pair of the same user.
RefreshServed(f, p) ==
    /\ flow[f].at = "refresh" /\ flow[f].pair \in live
    /\ Issue(owner[flow[f].pair], p)
    /\ live' = (live \ {flow[f].pair}) \union {p}
    /\ Step(f, "granted", p)
    /\ UNCHANGED <<storage, tab, historyVars>>

\* A token that was exchanged before, or whose session has run out or been revoked.
RefreshRefused(f) ==
    /\ flow[f].at = "refresh"
    /\ live' = live \ {flow[f].pair}
    /\ troubled' = (troubled \/ flow[f].pair \in live)
    /\ Step(f, "refused", flow[f].pair)
    /\ UNCHANGED <<owner, storage, tab, muddled, kicked, signedOut>>

\* The request or its answer is lost, in the second case after the exchange.
RefreshLost(f) ==
    /\ flow[f].at \in {"refresh", "granted"}
    /\ Step(f, "refused", flow[f].pair)
    /\ troubled' = TRUE
    /\ UNCHANGED <<serverVars, storage, tab, muddled, kicked, signedOut>>

RefreshReturns(f) ==
    /\ flow[f].at = "granted"
    /\ storeTokens(flow[f].pair)
    /\ tab' = [tab EXCEPT ![flow[f].tab].token = flow[f].pair]
    /\ Step(f, "me2", flow[f].pair)
    /\ UNCHANGED <<serverVars, historyVars>>

\* The inner catch of hydrateSession.
HydrateGivesUp(f) ==
    /\ flow[f].at \in {"refused", "me2"}
    /\ clearAuth(f) /\ Ends(f)
    /\ kicked' = TRUE
    /\ troubled' = (troubled \/ flow[f].at = "me2")
    /\ UNCHANGED <<serverVars, muddled, signedOut>>

-----------------------------------------------------------------------------
(* login and logout                                                        *)

\* The form cannot be submitted while its login is in flight.
login(t, f, u) ==
    /\ flow[f] = NoFlow
    /\ ~\E g \in BusyIn(t) : flow[g].mine /\ flow[g].at \in {"login", "loggedIn", "loginMe"}
    /\ flow' = [flow EXCEPT ![f] = [at |-> "login", tab |-> t, pair |-> 0, who |-> u, mine |-> TRUE]]
    /\ NoteOverlap(t)
    /\ signedOut' = FALSE
    /\ UNCHANGED <<serverVars, storage, tab, kicked>>

LoginServed(f, p) ==
    /\ flow[f].at = "login"
    /\ Issue(flow[f].who, p)
    /\ live' = live \union {p}
    /\ Step(f, "loggedIn", p)
    /\ UNCHANGED <<storage, tab, historyVars>>

\* Mutant: the tokens are stored, and the client goes on with the token it had.
LoginKeepsToken(f) ==
    /\ flow[f].at = "loggedIn"
    /\ storeTokens(flow[f].pair)
    /\ Step(f, "loginMe", flow[f].pair)
    /\ UNCHANGED <<serverVars, tab, historyVars>>

LoginReturns(f) ==
    /\ flow[f].at = "loggedIn"
    /\ storeTokens(flow[f].pair)
    /\ tab' = [tab EXCEPT ![flow[f].tab].token = flow[f].pair]
    /\ Step(f, "loginMe", flow[f].pair)
    /\ UNCHANGED <<serverVars, historyVars>>

\* A wrong password or a lost request changes nothing; a failing second request
\* leaves the tokens stored and the user as it was.
LoginFails(f) ==
    /\ flow[f].at \in {"login", "loggedIn", "loginMe"}
    /\ Ends(f)
    /\ troubled' = TRUE
    /\ muddled' = IF flow[f].at = "loginMe" THEN muddled \union {flow[f].tab} ELSE muddled
    /\ UNCHANGED <<serverVars, storage, tab, kicked, signedOut>>

\* The finally block of logout.
LogoutReturns(f) ==
    /\ flow[f].at = "loggedOut"
    /\ clearAuth(f) /\ Ends(f)
    /\ signedOut' = (Busy = {f})
    /\ UNCHANGED <<serverVars, troubled, muddled, kicked>>

\* The button is there while a user is shown.  Without a refresh token there is
\* nothing to wait for.
logout(t, f) ==
    /\ flow[f] = NoFlow /\ tab[t].user # Nobody
    /\ NoteOverlap(t)
    /\ IF storage.refresh # 0
       THEN /\ flow' = [flow EXCEPT ![f] = [at |-> "logout", tab |-> t, pair |-> storage.refresh,
                                            who |-> Nobody, mine |-> TRUE]]
            /\ UNCHANGED <<storage, tab, signedOut>>
       ELSE /\ storage' = NoTokens
            /\ tab' = [tab EXCEPT ![t] = [token |-> 0, user |-> Nobody]]
            /\ signedOut' = (Busy = {})
            /\ UNCHANGED flow
    /\ UNCHANGED <<serverVars, kicked>>

LogoutServed(f) ==
    /\ flow[f].at = "logout"
    /\ live' = live \ {flow[f].pair}
    /\ Step(f, "loggedOut", flow[f].pair)
    /\ UNCHANGED <<owner, storage, tab, historyVars>>

\* "Best-effort server-side logout": the request is lost.
LogoutLost(f) ==
    /\ flow[f].at = "logout"
    /\ Step(f, "loggedOut", flow[f].pair)
    /\ troubled' = TRUE
    /\ UNCHANGED <<serverVars, storage, tab, muddled, kicked, signedOut>>

FlowStep(f) ==
    \/ MeAnswers(f) \/ MeFails(f)
    \/ \E p \in Pairs : RefreshServed(f, p) \/ LoginServed(f, p)
    \/ RefreshRefused(f) \/ RefreshLost(f) \/ RefreshReturns(f) \/ HydrateGivesUp(f)
    \/ LoginReturns(f) \/ LoginFails(f)
    \/ LogoutServed(f) \/ LogoutLost(f) \/ LogoutReturns(f)

WebNext ==
    \/ \E t \in Tabs, f \in Flows :
          \/ \E load \in BOOLEAN : Mount(t, f, load)
          \/ \E u \in People : login(t, f, u)
          \/ logout(t, f)
    \/ \E f \in Flows : FlowStep(f)

WebSpec == WebInit /\ [][WebNext]_webVars

-----------------------------------------------------------------------------
(* Properties                                                              *)

\* The user a tab shows is the one its requests are made for, whatever other tabs
\* log in, refresh or clear in the localStorage they share.  A tab in which two
\* calls of its own overlapped, or whose login failed after storing the tokens
\* (login has no catch), is excepted.
ShownOwnsToken ==
    \A t \in Tabs \ muddled :
        tab[t].user # Nobody /\ ~(\E f \in BusyIn(t) : flow[f].at = "loginMe") =>
            tab[t].token # 0 /\ owner[tab[t].token] = tab[t].user

\* hydrateSession signs a tab out only if something went wrong: as long as calls do
\* not overlap, requests are answered and the server ends no session, an expired
\* access token is always replaced, in whichever tab and however often.
SessionSurvives == kicked => troubled

\* After a logout that no other call overlapped, nothing brings tokens back into
\* localStorage but a login, whatever tokens other tabs still hold.
LogoutSticks == signedOut => storage = NoTokens
=============================================================================
