---------------------------- MODULE AdminSession ----------------------------
(***************************************************************************)
(* The administrator's browser session: the OAuth login, the two auth      *)
(* cookies shared by every tab of the browser, the console's refresh of an *)
(* expired access token after a 401, and logout.                           *)
(*                                                                         *)
(* Herald, the external identity service, keeps token families: a refresh  *)
(* rotates both tokens, and a refresh token presented after its rotation   *)
(* revokes the family.  The tokens of one answer are one value here, a     *)
(* family and a generation.  The backend keeps no state of its own: it     *)
(* turns cookies into calls to Herald and answers into cookies.            *)
(***************************************************************************)
EXTENDS Naturals

CONSTANTS Tab,        \* browser tabs
          Call,       \* slots for the API calls of a tab
          MaxFamily,  \* bound: token families ever issued
          MaxGen,     \* bound: rotations of a family
          MaxLogin    \* bound: logins ever started

ASSUME SessionAssumption ==
    MaxFamily \in Nat /\ MaxGen \in Nat \ {0} /\ MaxLogin \in Nat

Token == (1..MaxFamily) \X (1..MaxGen)
None  == <<0, 0>>

VARIABLES families, gen, live,  \* Herald: families issued, current generation, not revoked
          expired,              \* access tokens past their 900 seconds
          access, refresh,      \* cookies X-Auth and X-Auth-Refresh
          oauth,                \* state in cookie RMQTT_OAUTH, 0 if there is none
          logins,               \* logins started
          page, flow,           \* what a tab shows; the OAuth state of its login
          call, callToken,      \* API calls of a tab and the cookie each was sent with
          inflight, carried, answer,  \* inflightRefresh: request and answer
          leaving, leavingToken,      \* the logout call of a tab
          lost, reused, ended   \* history: see the properties

heraldVars  == <<families, gen, live, expired>>
cookieVars  == <<access, refresh>>
loginVars   == <<oauth, logins, flow>>
callVars    == <<call, callToken>>
refreshVars == <<inflight, carried, answer>>
logoutVars  == <<leaving, leavingToken>>
history     == <<lost, reused, ended>>
vars == <<families, gen, live, expired, access, refresh, oauth, logins, page, flow,
          call, callToken, inflight, carried, answer, leaving, leavingToken,
          lost, reused, ended>>

TypeOK ==
    /\ families \in 0..MaxFamily
    /\ gen \in [1..MaxFamily -> 0..MaxGen]
    /\ live \in [1..MaxFamily -> BOOLEAN]
    /\ expired \subseteq Token
    /\ access \in Token \cup {None} /\ refresh \in Token \cup {None}
    /\ oauth \in 0..MaxLogin /\ logins \in 0..MaxLogin
    /\ page \in [Tab -> {"console", "login"}]
    /\ flow \in [Tab -> 0..MaxLogin]
    /\ call \in [Tab -> [Call -> {"idle", "sent", "unauthorized", "waiting", "replayed"}]]
    /\ callToken \in [Tab -> [Call -> Token \cup {None}]]
    /\ inflight \in [Tab -> {"none", "sent", "answered"}]
    /\ carried \in [Tab -> Token \cup {None}] /\ answer \in [Tab -> Token \cup {None}]
    /\ leaving \in [Tab -> {"none", "sent", "revoked", "kept", "leave"}]
    /\ leavingToken \in [Tab -> Token \cup {None}]
    /\ lost \in BOOLEAN /\ reused \in BOOLEAN /\ ended \in BOOLEAN

Init ==
    /\ families = 0
    /\ gen = [f \in 1..MaxFamily |-> 0]
    /\ live = [f \in 1..MaxFamily |-> FALSE]
    /\ expired = {}
    /\ access = None /\ refresh = None
    /\ oauth = 0 /\ logins = 0
    /\ page = [t \in Tab |-> "login"]
    /\ flow = [t \in Tab |-> 0]
    /\ call = [t \in Tab |-> [c \in Call |-> "idle"]]
    /\ callToken = [t \in Tab |-> [c \in Call |-> None]]
    /\ inflight = [t \in Tab |-> "none"]
    /\ carried = [t \in Tab |-> None] /\ answer = [t \in Tab |-> None]
    /\ leaving = [t \in Tab |-> "none"]
    /\ leavingToken = [t \in Tab |-> None]
    /\ lost = FALSE /\ reused = FALSE /\ ended = FALSE

Live(k) == k # None /\ live[k[1]]

\* A tab loads another page: whatever it was doing is aborted.
Load(t, p) ==
    /\ page' = [page EXCEPT ![t] = p]
    /\ call' = [call EXCEPT ![t] = [c \in Call |-> "idle"]]
    /\ callToken' = [callToken EXCEPT ![t] = [c \in Call |-> None]]
    /\ inflight' = [inflight EXCEPT ![t] = "none"]
    /\ carried' = [carried EXCEPT ![t] = None]
    /\ answer' = [answer EXCEPT ![t] = None]
    /\ leaving' = [leaving EXCEPT ![t] = "none"]
    /\ leavingToken' = [leavingToken EXCEPT ![t] = None]

-----------------------------------------------------------------------------
(***************************************************************************)
(* Login.                                                                  *)
(***************************************************************************)

\* oauth_start: a fresh state (and PKCE verifier) in the cookie and in the URL.
OauthStart(t) ==
    /\ page[t] = "login"
    /\ logins < MaxLogin
    /\ logins' = logins + 1
    /\ oauth' = logins + 1
    /\ flow' = [flow EXCEPT ![t] = logins + 1]
    /\ UNCHANGED <<heraldVars, cookieVars, page, callVars, refreshVars, logoutVars, history>>

\* oauth_callback: the states agree, and Herald takes the code and the verifier.
OauthCallback(t) ==
    /\ flow[t] # 0 /\ oauth = flow[t]
    /\ families < MaxFamily
    /\ LET f == families + 1 IN
         /\ families' = f
         /\ gen' = [gen EXCEPT ![f] = 1]
         /\ live' = [live EXCEPT ![f] = TRUE]
         /\ access' = <<f, 1>> /\ refresh' = <<f, 1>>
    /\ oauth' = 0
    /\ flow' = [flow EXCEPT ![t] = 0]
    /\ ended' = FALSE
    /\ Load(t, "console")
    /\ UNCHANGED <<expired, logins, lost, reused>>

\* No cookie (another tab's login used it, or it expired), another state, or
\* Herald does not take the code.
OauthCallbackRefused(t) ==
    /\ flow[t] # 0
    /\ flow' = [flow EXCEPT ![t] = 0]
    /\ UNCHANGED <<heraldVars, cookieVars, oauth, logins, page, callVars, refreshVars,
                   logoutVars, history>>

\* The console is opened, or reloaded, with the cookies that there are; a refresh
\* whose answer the old page would have received is lost.
OpenConsole(t) ==
    /\ Load(t, "console")
    /\ flow' = [flow EXCEPT ![t] = 0]
    /\ lost' = (lost \/ inflight[t] # "none")
    /\ UNCHANGED <<heraldVars, cookieVars, oauth, logins, reused, ended>>

-----------------------------------------------------------------------------
(***************************************************************************)
(* API calls and the 401 interceptor.                                      *)
(***************************************************************************)

SendCall(t, c) ==
    /\ page[t] = "console"
    /\ call[t][c] = "idle"
    /\ call' = [call EXCEPT ![t][c] = "sent"]
    /\ callToken' = [callToken EXCEPT ![t][c] = access]
    /\ UNCHANGED <<heraldVars, cookieVars, loginVars, page, refreshVars, logoutVars, history>>

\* What Herald says of a token.
Authorized(k) == Live(k) /\ k \notin expired

\* herald_auth_middleware: no token, or one Herald does not take, is a 401.  The SDK
\* may repeat an answer up to five minutes old instead of asking, so that a token is
\* still served for a while after it was revoked or ran out.
ServeCall(t, c) ==
    /\ call[t][c] = "sent"
    /\ \/ /\ callToken[t][c] # None
          /\ call' = [call EXCEPT ![t][c] = "idle"]
       \/ /\ ~Authorized(callToken[t][c])
          /\ call' = [call EXCEPT ![t][c] = "unauthorized"]
    /\ callToken' = [callToken EXCEPT ![t][c] = None]
    /\ UNCHANGED <<heraldVars, cookieVars, loginVars, page, refreshVars, logoutVars, history>>

\* Herald cannot be asked (503), or the call fails on its way: the caller is told.
CallFails(t, c) ==
    /\ call[t][c] \in {"sent", "replayed"}
    /\ call' = [call EXCEPT ![t][c] = "idle"]
    /\ callToken' = [callToken EXCEPT ![t][c] = None]
    /\ UNCHANGED <<heraldVars, cookieVars, loginVars, page, refreshVars, logoutVars, history>>

\* refreshAccessToken: start a refresh, or wait for the one that is in flight.
On401Alone(t, c) ==  \* mutant: every 401 starts its own refresh
    /\ call[t][c] = "unauthorized"
    /\ call' = [call EXCEPT ![t][c] = "waiting"]
    /\ inflight' = [inflight EXCEPT ![t] = "sent"]
    /\ carried' = [carried EXCEPT ![t] = refresh]
    /\ UNCHANGED <<heraldVars, cookieVars, loginVars, page, callToken, answer, logoutVars,
                   history>>

On401(t, c) ==
    /\ call[t][c] = "unauthorized"
    /\ call' = [call EXCEPT ![t][c] = "waiting"]
    /\ IF inflight[t] = "none"
         THEN /\ inflight' = [inflight EXCEPT ![t] = "sent"]
              /\ carried' = [carried EXCEPT ![t] = refresh]
         ELSE UNCHANGED <<inflight, carried>>
    /\ UNCHANGED <<heraldVars, cookieVars, loginVars, page, callToken, answer, logoutVars,
                   history>>

\* The replay is a plain fetch: its answer, 401 or not, goes to the caller.
ServeReplay(t, c) ==
    /\ call[t][c] = "replayed"
    /\ call' = [call EXCEPT ![t][c] = "idle"]
    /\ callToken' = [callToken EXCEPT ![t][c] = None]
    /\ UNCHANGED <<heraldVars, cookieVars, loginVars, page, refreshVars, logoutVars, history>>

-----------------------------------------------------------------------------
(***************************************************************************)
(* The refresh_token handler and Herald's rotation.                        *)
(***************************************************************************)

Answer(t, k) ==
    /\ inflight' = [inflight EXCEPT ![t] = "answered"]
    /\ answer' = [answer EXCEPT ![t] = k]
    /\ carried' = [carried EXCEPT ![t] = None]

RefreshRotates(t) ==
    /\ inflight[t] = "sent"
    /\ Live(carried[t])
    /\ LET f == carried[t][1] IN
         /\ carried[t][2] = gen[f] /\ gen[f] < MaxGen
         /\ gen' = [gen EXCEPT ![f] = @ + 1]
         /\ Answer(t, <<f, gen[f] + 1>>)
    /\ UNCHANGED <<families, live, expired, cookieVars, loginVars, page, callVars,
                   logoutVars, history>>

\* A token that was rotated already: the whole family is revoked.
RefreshReused(t) ==
    /\ inflight[t] = "sent"
    /\ Live(carried[t]) /\ carried[t][2] < gen[carried[t][1]]
    /\ live' = [live EXCEPT ![carried[t][1]] = FALSE]
    /\ reused' = TRUE
    /\ Answer(t, None)
    /\ UNCHANGED <<families, gen, expired, cookieVars, loginVars, page, callVars,
                   logoutVars, lost, ended>>

\* No cookie, a revoked family (401), or Herald cannot be reached (503).
RefreshFails(t) ==
    /\ inflight[t] = "sent"
    /\ Answer(t, None)
    /\ UNCHANGED <<heraldVars, cookieVars, loginVars, page, callVars, logoutVars, history>>

\* Herald rotated, and its answer or the backend's does not arrive.
RefreshLost(t) ==
    /\ inflight[t] = "answered" /\ answer[t] # None
    /\ answer' = [answer EXCEPT ![t] = None]
    /\ lost' = TRUE
    /\ UNCHANGED <<heraldVars, cookieVars, loginVars, page, callVars, inflight, carried,
                   logoutVars, reused, ended>>

\* The cookies are set, and every waiting call is replayed with them.
RefreshDone(t) ==
    /\ inflight[t] = "answered" /\ answer[t] # None
    /\ access' = answer[t] /\ refresh' = answer[t]
    /\ call' = [call EXCEPT ![t] = [c \in Call |-> IF @[c] = "waiting" THEN "replayed" ELSE @[c]]]
    /\ inflight' = [inflight EXCEPT ![t] = "none"]
    /\ answer' = [answer EXCEPT ![t] = None]
    /\ UNCHANGED <<heraldVars, loginVars, page, callToken, carried, logoutVars, history>>

\* handle401: to the login page, without another try.
RefreshRejectedWaits(t) ==  \* mutant: the interceptor takes the refresh's own 401
    /\ inflight[t] = "answered" /\ answer[t] = None
    /\ UNCHANGED vars

RefreshRejected(t) ==
    /\ inflight[t] = "answered" /\ answer[t] = None
    /\ Load(t, "login")
    /\ UNCHANGED <<heraldVars, cookieVars, loginVars, history>>

-----------------------------------------------------------------------------
(***************************************************************************)
(* Logout.                                                                 *)
(***************************************************************************)

SendLogout(t) ==
    /\ page[t] = "console" /\ leaving[t] = "none"
    /\ leaving' = [leaving EXCEPT ![t] = "sent"]
    /\ leavingToken' = [leavingToken EXCEPT ![t] = access]
    /\ UNCHANGED <<heraldVars, cookieVars, loginVars, page, callVars, refreshVars, history>>

\* herald_logout, if the request carried an access token: Herald revokes the family.
LogoutSkipsHerald(t) ==  \* mutant: only the cookies are cleared
    /\ leaving[t] = "sent"
    /\ Authorized(leavingToken[t])
    /\ leaving' = [leaving EXCEPT ![t] = "revoked"]
    /\ leavingToken' = [leavingToken EXCEPT ![t] = None]
    /\ UNCHANGED <<heraldVars, cookieVars, loginVars, page, callVars, refreshVars, history>>

LogoutRevokes(t) ==
    /\ leaving[t] = "sent"
    /\ Authorized(leavingToken[t])
    /\ live' = [live EXCEPT ![leavingToken[t][1]] = FALSE]
    /\ leaving' = [leaving EXCEPT ![t] = "revoked"]
    /\ leavingToken' = [leavingToken EXCEPT ![t] = None]
    /\ UNCHANGED <<families, gen, expired, cookieVars, loginVars, page, callVars,
                   refreshVars, history>>

\* No access cookie, or Herald's answer does not matter: best effort.
LogoutUnrevoked(t) ==
    /\ leaving[t] = "sent"
    /\ leaving' = [leaving EXCEPT ![t] = "kept"]
    /\ leavingToken' = [leavingToken EXCEPT ![t] = None]
    /\ UNCHANGED <<heraldVars, cookieVars, loginVars, page, callVars, refreshVars, history>>

\* Both cookies are cleared either way.
LogoutDone(t) ==
    /\ leaving[t] \in {"revoked", "kept"}
    /\ access' = None /\ refresh' = None
    /\ ended' = (leaving[t] = "revoked")
    /\ leaving' = [leaving EXCEPT ![t] = "leave"]
    /\ UNCHANGED <<heraldVars, loginVars, page, callVars, refreshVars, leavingToken,
                   lost, reused>>

\* The call fails on its way: the console ignores that.
LogoutLost(t) ==
    /\ leaving[t] \in {"sent", "revoked", "kept"}
    /\ leaving' = [leaving EXCEPT ![t] = "leave"]
    /\ leavingToken' = [leavingToken EXCEPT ![t] = None]
    /\ UNCHANGED <<heraldVars, cookieVars, loginVars, page, callVars, refreshVars, history>>

\* handleLogout drops the cached configuration before it asks for the login URL,
\* and without one that is "/": the console is loaded again in any case, with the
\* cookies that are left.
Leave(t) ==
    /\ leaving[t] = "leave"
    /\ OpenConsole(t)

-----------------------------------------------------------------------------
\* The browser drops a cookie at its Max-Age, when Herald lets the token expire.
ExpireAccess ==
    /\ access # None
    /\ expired' = expired \cup {access}
    /\ access' = None
    /\ UNCHANGED <<families, gen, live, refresh, loginVars, page, callVars, refreshVars,
                   logoutVars, history>>

ExpireOauth ==
    /\ oauth # 0
    /\ oauth' = 0
    /\ UNCHANGED <<heraldVars, cookieVars, logins, flow, page, callVars, refreshVars,
                   logoutVars, history>>

Interceptor(t) ==
    \/ RefreshRotates(t) \/ RefreshReused(t) \/ RefreshFails(t)
    \/ RefreshDone(t) \/ RefreshRejected(t)

CallStep(t, c) ==
    ServeCall(t, c) \/ CallFails(t, c) \/ On401(t, c) \/ ServeReplay(t, c)

Next ==
    \/ \E t \in Tab :
         \/ OauthStart(t) \/ OauthCallback(t) \/ OauthCallbackRefused(t) \/ OpenConsole(t)
         \/ \E c \in Call : SendCall(t, c) \/ CallStep(t, c)
         \/ Interceptor(t) \/ RefreshLost(t)
         \/ SendLogout(t) \/ LogoutRevokes(t) \/ LogoutUnrevoked(t) \/ LogoutDone(t)
         \/ LogoutLost(t) \/ Leave(t)
    \/ ExpireAccess \/ ExpireOauth

Spec == Init /\ [][Next]_vars

\* A browser and a server that stay up answer every call.
Fairness == \A t \in Tab : /\ WF_vars(Interceptor(t))
                           /\ \A c \in Call : WF_vars(CallStep(t, c))

FairSpec == Spec /\ Fairness

-----------------------------------------------------------------------------
(***************************************************************************)
(* Properties.                                                             *)
(***************************************************************************)

\* However many calls of one tab fail with 401 in one expiry, no rotated refresh
\* token is presented, unless the answer of an earlier refresh was lost: calls
\* that come too late for a refresh start another one with the new cookie.
ReuseOnlyAfterLoss == reused => lost

\* After a logout that reached Herald, and until the next login, no cookie of a
\* family that is still alive comes back, not even from a refresh that was in
\* flight when the cookies were cleared.
LoggedOutStays == ended => ~Live(access) /\ ~Live(refresh)

\* No call of the console hangs: a call that waits for a refresh is replayed, or
\* the tab goes to the login page.
CallsEnd == \A t \in Tab, c \in Call : call[t][c] # "idle" ~> call[t][c] = "idle"
=============================================================================
