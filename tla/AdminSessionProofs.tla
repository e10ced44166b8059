-------------------------- MODULE AdminSessionProofs --------------------------
(***************************************************************************)
(* Proofs about AdminSession, for any number of tabs, calls, logins and    *)
(* rotations: when a refresh token is presented twice, and what a logout   *)
(* ends.                                                                   *)
(***************************************************************************)
EXTENDS AdminSession, TLAPS

LEMMA Tokens ==
    /\ None \notin Token
    /\ \A k \in Token : k[1] \in 1..MaxFamily /\ k[2] \in 1..MaxGen
    /\ \A f \in 1..MaxFamily, g \in 1..MaxGen :
          <<f, g>> \in Token /\ <<f, g>>[1] = f /\ <<f, g>>[2] = g
BY DEF None, Token

-----------------------------------------------------------------------------
(***************************************************************************)
(* Types.                                                                  *)
(***************************************************************************)

LEMMA TypesInit == Init => TypeOK
<1> SUFFICES ASSUME Init PROVE TypeOK OBVIOUS
<1>1. live \in [1..MaxFamily -> BOOLEAN] /\ lost \in BOOLEAN /\ reused \in BOOLEAN
      /\ ended \in BOOLEAN
  BY Zenon DEF Init
<1>2. /\ families \in 0..MaxFamily /\ gen \in [1..MaxFamily -> 0..MaxGen]
      /\ oauth \in 0..MaxLogin /\ logins \in 0..MaxLogin /\ flow \in [Tab -> 0..MaxLogin]
  BY SessionAssumption DEF Init
<1>3. /\ call \in [Tab -> [Call -> {"idle", "sent", "unauthorized", "waiting", "replayed"}]]
      /\ callToken \in [Tab -> [Call -> Token \cup {None}]]
  BY DEF Init
<1>4. expired \subseteq Token /\ access \in Token \cup {None} /\ refresh \in Token \cup {None}
  BY DEF Init
<1>5. /\ page \in [Tab -> {"console", "login"}]
      /\ inflight \in [Tab -> {"none", "sent", "answered"}]
      /\ carried \in [Tab -> Token \cup {None}] /\ answer \in [Tab -> Token \cup {None}]
      /\ leaving \in [Tab -> {"none", "sent", "revoked", "kept", "leave"}]
      /\ leavingToken \in [Tab -> Token \cup {None}]
  BY DEF Init
<1> QED BY <1>1, <1>2, <1>3, <1>4, <1>5 DEF TypeOK

\* The parts of TypeOK: Herald and the cookies, the tabs, the history.
StoreTypes ==
    /\ families \in 0..MaxFamily
    /\ gen \in [1..MaxFamily -> 0..MaxGen]
    /\ expired \subseteq Token
    /\ access \in Token \cup {None} /\ refresh \in Token \cup {None}
    /\ oauth \in 0..MaxLogin /\ logins \in 0..MaxLogin

FlagTypes ==
    /\ live \in [1..MaxFamily -> BOOLEAN]
    /\ lost \in BOOLEAN /\ reused \in BOOLEAN /\ ended \in BOOLEAN

PageTypes ==
    /\ page \in [Tab -> {"console", "login"}]
    /\ flow \in [Tab -> 0..MaxLogin]
    /\ inflight \in [Tab -> {"none", "sent", "answered"}]
    /\ carried \in [Tab -> Token \cup {None}] /\ answer \in [Tab -> Token \cup {None}]
    /\ leaving \in [Tab -> {"none", "sent", "revoked", "kept", "leave"}]
    /\ leavingToken \in [Tab -> Token \cup {None}]

CallTypes ==
    /\ call \in [Tab -> [Call -> {"idle", "sent", "unauthorized", "waiting", "replayed"}]]
    /\ callToken \in [Tab -> [Call -> Token \cup {None}]]

LEMMA TypeParts == TypeOK <=> StoreTypes /\ FlagTypes /\ PageTypes /\ CallTypes
BY DEF TypeOK, StoreTypes, FlagTypes, PageTypes, CallTypes

LEMMA LoadTypes ==
    ASSUME PageTypes, CallTypes, NEW t \in Tab, NEW p \in {"console", "login"}, Load(t, p)
    PROVE  /\ CallTypes'
           /\ flow' \in [Tab -> 0..MaxLogin] => PageTypes'
BY DEF Load, PageTypes, CallTypes

\* A call of the console: only the refresh that a 401 starts is seen elsewhere.
CallsOnly(t, c) == SendCall(t, c) \/ ServeCall(t, c) \/ CallFails(t, c) \/ ServeReplay(t, c)

LEMMA StepCases ==
    ASSUME [Next]_vars
    PROVE  \/ \E t \in Tab, c \in Call : CallsOnly(t, c) \/ On401(t, c)
           \/ \E t \in Tab : \/ OauthStart(t) \/ OauthCallback(t) \/ OauthCallbackRefused(t)
                             \/ OpenConsole(t)
           \/ \E t \in Tab : \/ RefreshRotates(t) \/ RefreshReused(t) \/ RefreshFails(t)
                             \/ RefreshDone(t) \/ RefreshRejected(t) \/ RefreshLost(t)
           \/ \E t \in Tab : \/ SendLogout(t) \/ LogoutRevokes(t) \/ LogoutUnrevoked(t)
                             \/ LogoutDone(t) \/ LogoutLost(t)
           \/ ExpireAccess \/ ExpireOauth \/ UNCHANGED vars
BY DEF Next, CallStep, Interceptor, CallsOnly, Leave

LEMMA TypesNext == TypeOK /\ [Next]_vars => TypeOK'
<1> SUFFICES ASSUME TypeOK, [Next]_vars PROVE TypeOK' OBVIOUS
<1> USE DEF heraldVars, cookieVars, loginVars, callVars, refreshVars, logoutVars, history
<1>0. StoreTypes /\ FlagTypes /\ PageTypes /\ CallTypes BY TypeParts
<1>a. TypeOK' <=> StoreTypes' /\ FlagTypes' /\ PageTypes' /\ CallTypes'
  BY DEF TypeOK, StoreTypes, FlagTypes, PageTypes, CallTypes
<1>1. ASSUME NEW t \in Tab, NEW c \in Call, CallsOnly(t, c) \/ On401(t, c) PROVE TypeOK'
  <2> USE <1>1 DEF CallsOnly, SendCall, ServeCall, CallFails, ServeReplay, On401
  <2>1. StoreTypes' BY <1>0 DEF StoreTypes
  <2>2. FlagTypes' BY <1>0 DEF FlagTypes
  <2>3. PageTypes' BY <1>0 DEF PageTypes, StoreTypes
  <2>4. PICK l \in {"idle", "sent", "unauthorized", "waiting", "replayed"},
             k \in Token \cup {None} :
               /\ call' = [call EXCEPT ![t][c] = l]
               /\ callToken' = callToken \/ callToken' = [callToken EXCEPT ![t][c] = k]
    BY <1>0 DEF StoreTypes
  <2>5. /\ [call[t] EXCEPT ![c] = l]
             \in [Call -> {"idle", "sent", "unauthorized", "waiting", "replayed"}]
        /\ [callToken[t] EXCEPT ![c] = k] \in [Call -> Token \cup {None}]
    BY <1>0, <2>4 DEF CallTypes
  <2>6. /\ call' = [call EXCEPT ![t] = [call[t] EXCEPT ![c] = l]]
        /\ \/ callToken' = callToken
           \/ callToken' = [callToken EXCEPT ![t] = [callToken[t] EXCEPT ![c] = k]]
    BY <2>4
  <2>7. CallTypes' BY ONLY <1>0, <2>5, <2>6 DEF CallTypes
  <2> QED BY <1>a, <2>1, <2>2, <2>3, <2>7
<1>2. ASSUME NEW t \in Tab, OauthStart(t) \/ OauthCallbackRefused(t) PROVE TypeOK'
  <2> USE <1>2 DEF OauthStart, OauthCallbackRefused
  <2>1. StoreTypes' BY <1>0, SessionAssumption DEF StoreTypes
  <2>2. FlagTypes' BY <1>0 DEF FlagTypes
  <2>3. PICK n \in 0..MaxLogin : flow' = [flow EXCEPT ![t] = n]
    BY <1>0, SessionAssumption DEF StoreTypes
  <2>5. UNCHANGED <<page, refreshVars, logoutVars>> OBVIOUS
  <2>6. PageTypes' BY ONLY <1>0, <2>3, <2>5 DEF PageTypes, refreshVars, logoutVars
  <2>4. CallTypes' BY <1>0 DEF CallTypes
  <2> QED BY <1>a, <2>1, <2>2, <2>4, <2>6
<1>3. ASSUME NEW t \in Tab, OauthCallback(t) PROVE TypeOK'
  <2> USE <1>3 DEF OauthCallback
  <2>1. StoreTypes' BY <1>0, SessionAssumption DEF StoreTypes, Token
  <2>2. FlagTypes'
    <3>1. live' = [live EXCEPT ![families + 1] = TRUE] /\ ended' = FALSE
          /\ lost' = lost /\ reused' = reused
      BY Zenon
    <3> QED BY <1>0, <3>1, Zenon DEF FlagTypes
  <2>3. flow' \in [Tab -> 0..MaxLogin] BY <1>0, SessionAssumption DEF PageTypes
  <2>4. PageTypes' /\ CallTypes' BY <1>0, <2>3, LoadTypes
  <2> QED BY <1>a, <2>1, <2>2, <2>4
<1>4. ASSUME NEW t \in Tab, OpenConsole(t) PROVE TypeOK'
  <2> USE <1>4 DEF OpenConsole
  <2>1. StoreTypes' BY <1>0 DEF StoreTypes
  <2>2. FlagTypes' BY <1>0, Zenon DEF FlagTypes
  <2>3. flow' \in [Tab -> 0..MaxLogin] BY <1>0, SessionAssumption DEF PageTypes
  <2>4. PageTypes' /\ CallTypes' BY <1>0, <2>3, LoadTypes
  <2> QED BY <1>a, <2>1, <2>2, <2>4
<1>5. ASSUME NEW t \in Tab, RefreshRotates(t) \/ RefreshReused(t) \/ RefreshFails(t)
      PROVE  TypeOK'
  <2> USE <1>5 DEF RefreshRotates, RefreshReused, RefreshFails, Answer
  <2>1. StoreTypes' BY <1>0, SessionAssumption DEF StoreTypes
  <2>2. FlagTypes'
    <3>1. /\ live' = live \/ live' = [live EXCEPT ![carried[t][1]] = FALSE]
          /\ lost' = lost /\ ended' = ended /\ (reused' = reused \/ reused' = TRUE)
      BY Zenon
    <3> QED BY <1>0, <3>1, Zenon DEF FlagTypes
  <2>3. PageTypes'
    <3>1. PICK k \in Token \cup {None} : Answer(t, k)
      <4>1. ASSUME RefreshRotates(t)
            PROVE  <<carried[t][1], gen[carried[t][1]] + 1>> \in Token
        <5>1. carried[t] \in Token BY <1>0, <4>1 DEF PageTypes, Live
        <5>2. carried[t][1] \in 1..MaxFamily BY <5>1, Tokens
        <5>3. gen[carried[t][1]] + 1 \in 1..MaxGen
          BY <1>0, <4>1, <5>2, SessionAssumption DEF StoreTypes
        <5> QED BY <5>2, <5>3, Tokens
      <4> QED BY <4>1
    <3>2. UNCHANGED <<page, flow, logoutVars>> OBVIOUS
    <3> QED BY ONLY <1>0, <3>1, <3>2 DEF PageTypes, Answer, logoutVars
  <2>4. CallTypes' BY <1>0 DEF CallTypes
  <2> QED BY <1>a, <2>1, <2>2, <2>3, <2>4
<1>6. ASSUME NEW t \in Tab, RefreshDone(t) \/ RefreshLost(t) PROVE TypeOK'
  <2> USE <1>6 DEF RefreshDone, RefreshLost
  <2>1. StoreTypes' BY <1>0 DEF StoreTypes, PageTypes
  <2>2. FlagTypes'
    <3>1. live' = live /\ reused' = reused /\ ended' = ended /\ (lost' = lost \/ lost' = TRUE)
      BY Zenon
    <3> QED BY <1>0, <3>1, Zenon DEF FlagTypes
  <2>3. PageTypes' BY <1>0 DEF PageTypes
  <2>4. CallTypes' BY <1>0 DEF CallTypes
  <2> QED BY <1>a, <2>1, <2>2, <2>3, <2>4
<1>7. ASSUME NEW t \in Tab, RefreshRejected(t) PROVE TypeOK'
  <2> USE <1>7 DEF RefreshRejected
  <2>1. StoreTypes' BY <1>0 DEF StoreTypes
  <2>2. FlagTypes' BY <1>0 DEF FlagTypes
  <2>3. flow' = flow /\ Load(t, "login") OBVIOUS
  <2>4. PageTypes' /\ CallTypes' BY <1>0, <2>3, LoadTypes DEF PageTypes
  <2> QED BY <1>a, <2>1, <2>2, <2>4
<1>8. ASSUME NEW t \in Tab,
             SendLogout(t) \/ LogoutRevokes(t) \/ LogoutUnrevoked(t) \/ LogoutDone(t)
               \/ LogoutLost(t)
      PROVE  TypeOK'
  <2> USE <1>8 DEF SendLogout, LogoutRevokes, LogoutUnrevoked, LogoutDone, LogoutLost
  <2>1. StoreTypes' BY <1>0 DEF StoreTypes
  <2>2. FlagTypes'
    <3>1. /\ live' = live \/ live' = [live EXCEPT ![leavingToken[t][1]] = FALSE]
          /\ lost' = lost /\ reused' = reused
          /\ ended' = ended \/ ended' = (leaving[t] = "revoked")
      BY Zenon
    <3> QED BY <1>0, <3>1, Zenon DEF FlagTypes
  <2>3. PageTypes'
    <3>1. PICK l \in {"none", "sent", "revoked", "kept", "leave"}, k \in Token \cup {None} :
            /\ leaving' = [leaving EXCEPT ![t] = l]
            /\ leavingToken' = leavingToken \/ leavingToken' = [leavingToken EXCEPT ![t] = k]
      BY <1>0 DEF StoreTypes
    <3>2. UNCHANGED <<page, flow, refreshVars>> OBVIOUS
    <3> QED BY ONLY <1>0, <3>1, <3>2 DEF PageTypes, refreshVars
  <2>4. CallTypes' BY <1>0 DEF CallTypes
  <2> QED BY <1>a, <2>1, <2>2, <2>3, <2>4
<1>9. CASE ExpireAccess \/ ExpireOauth \/ UNCHANGED vars
  <2> USE <1>9 DEF ExpireAccess, ExpireOauth, vars
  <2>1. StoreTypes' BY <1>0, SessionAssumption DEF StoreTypes
  <2>2. FlagTypes' BY <1>0 DEF FlagTypes
  <2>3. PageTypes' BY <1>0 DEF PageTypes
  <2>4. CallTypes' BY <1>0 DEF CallTypes
  <2> QED BY <1>a, <2>1, <2>2, <2>3, <2>4
<1> QED BY <1>1, <1>2, <1>3, <1>4, <1>5, <1>6, <1>7, <1>8, <1>9, StepCases

\* The cookies, what Herald keeps and what the tabs remember keep their types, for
\* any number of tabs, calls and logins.
THEOREM SessionTypes == Spec => []TypeOK
BY TypesInit, TypesNext, PTL DEF Spec

-----------------------------------------------------------------------------
(***************************************************************************)
(* The tabs share the cookies and nothing else: no tab knows of another's  *)
(* refresh.  What holds of one tab holds of several as long as they do not *)
(* get in each other's way.                                                *)
(***************************************************************************)

\* One tab at a time has a refresh in flight.
RefreshAlone == \A s, t \in Tab : inflight[s] # "none" /\ inflight[t] # "none" => s = t

\* A login completes while no tab has a refresh or a logout in flight.
LoginAlone ==
    families' # families =>
        \A t \in Tab : inflight[t] = "none" /\ leaving[t] \in {"none", "leave"}

\* The parts of the inductive invariant.  Every token about is of the newest family:
Newest(k) == k # None => k[1] = families

OneFamily ==
    /\ Newest(access) /\ Newest(refresh)
    /\ \A t \in Tab : /\ inflight[t] = "sent" => Newest(carried[t])
                      /\ inflight[t] = "answered" => Newest(answer[t])
                      /\ leaving[t] = "sent" => Newest(leavingToken[t])

\* ... which a logout that reached Herald has revoked.
Revoked == families # 0 /\ live[families] = FALSE

LogoutRevoked ==
    /\ ended = TRUE => Revoked
    /\ \A t \in Tab : leaving[t] = "revoked" => Revoked

\* The newest token of a family is in the cookie, or on its way there.
Current(k) == k # None => k[2] = gen[k[1]]

Arriving == \E t \in Tab : inflight[t] = "answered" /\ answer[t] # None

Rotation ==
    lost = FALSE =>
        /\ reused = FALSE
        /\ \A t \in Tab :
              /\ inflight[t] = "sent" => Current(carried[t]) /\ refresh \in {None, carried[t]}
              /\ inflight[t] = "answered" => Current(answer[t])
        /\ ~Arriving => Current(refresh)

SessionInv == TypeOK /\ OneFamily /\ LogoutRevoked

\* What every step does, if a login finds no refresh or logout in flight.
KeepsSession ==
    /\ SessionInv'
    /\ RefreshAlone /\ RefreshAlone' /\ Rotation => Rotation'

LEMMA SessionInit == Init => SessionInv /\ Rotation
<1> SUFFICES ASSUME Init PROVE SessionInv /\ Rotation OBVIOUS
<1>1. OneFamily BY DEF Init, OneFamily, Newest
<1>2. LogoutRevoked BY DEF Init, LogoutRevoked
<1>3. Rotation BY DEF Init, Rotation, Current
<1> QED BY <1>1, <1>2, <1>3, TypesInit DEF SessionInv

\* Steps that no other tab, nor Herald, can see.
Unseen == UNCHANGED <<families, gen, live, refresh, refreshVars, history>>
          /\ access' \in {access, None}

LEMMA UnseenInv ==
    ASSUME SessionInv, TypeOK', Unseen, UNCHANGED logoutVars
    PROVE  KeepsSession
<1> USE DEF Unseen, refreshVars, history, logoutVars
<1>1. OneFamily' BY DEF SessionInv, OneFamily, Newest
<1>2. LogoutRevoked' BY DEF SessionInv, LogoutRevoked, Revoked
<1>3. Rotation => Rotation' BY DEF Rotation, Current, Arriving
<1> QED BY <1>1, <1>2, <1>3 DEF SessionInv, KeepsSession

\* A tab that loads a page drops what it held; a refresh it had in flight is lost.
LEMMA LoadInv ==
    ASSUME SessionInv, TypeOK', NEW t \in Tab, NEW p, Load(t, p),
           UNCHANGED <<families, gen, live, refresh, access, reused, ended>>,
           lost' = lost \/ lost' = TRUE,
           lost' = FALSE => inflight[t] = "none" \/ answer[t] = None
    PROVE  KeepsSession
<1>0. /\ inflight'[t] = "none" /\ leaving'[t] = "none"
      /\ \A s \in Tab \ {t} : /\ inflight'[s] = inflight[s] /\ carried'[s] = carried[s]
                              /\ answer'[s] = answer[s] /\ leaving'[s] = leaving[s]
                              /\ leavingToken'[s] = leavingToken[s]
  BY DEF Load, SessionInv, TypeOK
<1>1. OneFamily' BY <1>0 DEF SessionInv, OneFamily, Newest
<1>2. LogoutRevoked' BY <1>0 DEF SessionInv, LogoutRevoked, Revoked
<1>3. Rotation => Rotation'
  <2> SUFFICES ASSUME Rotation, lost' = FALSE PROVE Rotation' BY DEF Rotation
  <2>1. lost = FALSE /\ (inflight[t] = "none" \/ answer[t] = None)
    BY DEF SessionInv, TypeOK
  <2>2. Arriving => Arriving' BY <1>0, <2>1 DEF Arriving
  <2> QED BY <1>0, <2>1, <2>2 DEF Rotation, Current
<1> QED BY <1>1, <1>2, <1>3 DEF SessionInv, KeepsSession

\* A 401 starts a refresh with the cookie, when no other refresh can overtake it.
LEMMA On401Inv ==
    ASSUME SessionInv, TypeOK', NEW t \in Tab, NEW c \in Call, On401(t, c)
    PROVE  KeepsSession
<1> USE DEF On401, heraldVars, cookieVars, logoutVars, history
<1>1. CASE inflight[t] # "none"
  BY <1>1, UnseenInv DEF Unseen, refreshVars
<1>2. CASE inflight[t] = "none"
  <2>1. /\ inflight'[t] = "sent" /\ carried'[t] = refresh
        /\ \A s \in Tab \ {t} : inflight'[s] = inflight[s] /\ carried'[s] = carried[s]
        /\ answer' = answer
    BY <1>2 DEF SessionInv, TypeOK
  <2>2. OneFamily' BY <2>1 DEF SessionInv, OneFamily, Newest
  <2>3. LogoutRevoked' BY DEF SessionInv, LogoutRevoked, Revoked
  <2>4. ASSUME RefreshAlone', Rotation PROVE Rotation'
    <3>1. \A s \in Tab \ {t} : inflight[s] = "none" BY <2>1, <2>4 DEF RefreshAlone
    <3>2. ~Arriving BY <1>2, <3>1 DEF Arriving
    <3> QED BY <2>1, <2>4, <3>1, <3>2 DEF Rotation, Current
  <2> QED BY <2>2, <2>3, <2>4 DEF SessionInv, KeepsSession
<1> QED BY <1>1, <1>2

\* Herald rotates: the tab's answer is the newest token, the cookie no longer.
LEMMA RotateInv ==
    ASSUME SessionInv, TypeOK', NEW t \in Tab, RefreshRotates(t)
    PROVE  KeepsSession
<1> DEFINE f == carried[t][1]
<1> USE DEF RefreshRotates, Answer, cookieVars, logoutVars, history
<1>1. carried[t] \in Token /\ f \in 1..MaxFamily /\ Newest(carried[t])
  BY Tokens DEF SessionInv, TypeOK, Live, OneFamily
<1>2. /\ inflight'[t] = "answered" /\ answer'[t] = <<f, gen[f] + 1>>
      /\ \A s \in Tab \ {t} : /\ inflight'[s] = inflight[s] /\ carried'[s] = carried[s]
                              /\ answer'[s] = answer[s]
  BY DEF SessionInv, TypeOK
<1>3. f = families /\ gen'[f] = gen[f] + 1 /\ answer'[t] # None
  <2>1. f = families BY <1>1, Tokens DEF Newest
  <2>2. gen'[f] = gen[f] + 1 BY <1>1 DEF SessionInv, TypeOK
  <2>3. answer'[t][1] = f /\ f # 0 BY <1>1, <1>2
  <2> QED BY <2>1, <2>2, <2>3 DEF None
<1>4. OneFamily' BY <1>2, <1>3 DEF SessionInv, OneFamily, Newest
<1>5. LogoutRevoked' BY DEF SessionInv, LogoutRevoked, Revoked
<1>6. Arriving' BY <1>2, <1>3 DEF Arriving
<1>7. ASSUME RefreshAlone, Rotation PROVE Rotation'
  <2>1. \A s \in Tab \ {t} : inflight'[s] = "none" BY <1>2, <1>7 DEF RefreshAlone
  <2> QED BY <1>2, <1>3, <1>6, <1>7, <2>1 DEF Rotation, Current
<1> QED BY <1>4, <1>5, <1>7 DEF SessionInv, KeepsSession

\* A token is presented again only if one was lost.
LEMMA ReusedInv ==
    ASSUME SessionInv, TypeOK', NEW t \in Tab, RefreshReused(t)
    PROVE  KeepsSession
<1> USE DEF RefreshReused, Answer, cookieVars, logoutVars, history
<1>1. carried[t] \in Token /\ carried[t][1] \in 1..MaxFamily
      /\ gen[carried[t][1]] \in Nat /\ carried[t][2] \in Nat
  <2>1. carried[t] \in Token BY DEF SessionInv, TypeOK, Live
  <2>2. carried[t][1] \in 1..MaxFamily /\ carried[t][2] \in Nat
    BY <2>1, Tokens, SessionAssumption
  <2> QED BY <2>1, <2>2, SessionAssumption DEF SessionInv, TypeOK
<1>2. Rotation => lost # FALSE
  <2>1. carried[t] # None /\ carried[t][2] # gen[carried[t][1]] BY <1>1, Tokens
  <2>2. ~Current(carried[t]) BY <2>1 DEF Current
  <2> QED BY <2>2 DEF Rotation
<1>3. \A s \in Tab \ {t} : inflight'[s] = inflight[s] /\ carried'[s] = carried[s]
                           /\ answer'[s] = answer[s]
  BY DEF SessionInv, TypeOK
<1>4. inflight'[t] = "answered" /\ answer'[t] = None BY DEF SessionInv, TypeOK
<1>5. OneFamily' BY <1>3, <1>4 DEF SessionInv, OneFamily, Newest
<1>6. \A g \in 1..MaxFamily : live[g] = FALSE => live'[g] = FALSE
  BY DEF SessionInv, TypeOK
<1>7. families # 0 => families \in 1..MaxFamily
  BY SessionAssumption DEF SessionInv, TypeOK
<1>8. LogoutRevoked' BY <1>6, <1>7 DEF SessionInv, LogoutRevoked, Revoked
<1>9. Rotation => Rotation' BY <1>2 DEF Rotation
<1> QED BY <1>5, <1>8, <1>9 DEF SessionInv, KeepsSession

\* A refusal, or an answer that is lost, puts no token in the tab's hands.
LEMMA EmptyAnswerInv ==
    ASSUME SessionInv, TypeOK', NEW t \in Tab, RefreshFails(t) \/ RefreshLost(t)
    PROVE  KeepsSession
<1> USE DEF RefreshFails, RefreshLost, Answer, heraldVars, cookieVars, logoutVars, history
<1>1. /\ inflight'[t] = "answered" /\ answer'[t] = None
      /\ \A s \in Tab \ {t} : inflight'[s] = inflight[s] /\ carried'[s] = carried[s]
                              /\ answer'[s] = answer[s]
  BY DEF SessionInv, TypeOK
<1>2. OneFamily' BY <1>1 DEF SessionInv, OneFamily, Newest
<1>3. LogoutRevoked' BY DEF SessionInv, LogoutRevoked, Revoked
<1>4. CASE RefreshLost(t)
  <2>1. lost' = TRUE BY <1>4
  <2> QED BY <1>2, <1>3, <2>1 DEF SessionInv, KeepsSession, Rotation
<1>5. CASE RefreshFails(t)
  <2>1. inflight[t] = "sent" /\ lost' = lost BY <1>5
  <2>2. Arriving' <=> Arriving BY <1>1, <2>1 DEF Arriving
  <2>3. Rotation => Rotation' BY <1>1, <1>5, <2>1, <2>2 DEF Rotation, Current
  <2> QED BY <1>2, <1>3, <2>3 DEF SessionInv, KeepsSession
<1> QED BY <1>4, <1>5

\* The newest token reaches the cookie.
LEMMA RefreshDoneInv ==
    ASSUME SessionInv, TypeOK', NEW t \in Tab, RefreshDone(t)
    PROVE  KeepsSession
<1> USE DEF RefreshDone, heraldVars, logoutVars, history
<1>1. /\ inflight'[t] = "none"
      /\ \A s \in Tab \ {t} : inflight'[s] = inflight[s] /\ answer'[s] = answer[s]
  BY DEF SessionInv, TypeOK
<1>2. OneFamily' BY <1>1 DEF SessionInv, OneFamily, Newest
<1>3. LogoutRevoked' BY DEF SessionInv, LogoutRevoked, Revoked
<1>4. ASSUME RefreshAlone, Rotation PROVE Rotation'
  <2>1. \A s \in Tab : inflight'[s] = "none" BY <1>1, <1>4 DEF RefreshAlone
  <2> QED BY <1>4, <2>1 DEF Rotation, Current
<1> QED BY <1>2, <1>3, <1>4 DEF SessionInv, KeepsSession

\* A login starts a family, and nothing of an older one is on its way.
LEMMA LoginInv ==
    ASSUME SessionInv, TypeOK', LoginAlone, NEW t \in Tab, OauthCallback(t)
    PROVE  KeepsSession
<1> USE DEF OauthCallback
<1>0. families \in Nat /\ families' = families + 1 /\ families + 1 \in 1..MaxFamily
  BY SessionAssumption DEF SessionInv, TypeOK
<1>1. \A s \in Tab : inflight[s] = "none" /\ leaving[s] \in {"none", "leave"}
  BY <1>0 DEF LoginAlone
<1>2. \A s \in Tab : inflight'[s] = "none" /\ leaving'[s] \in {"none", "leave"}
  BY <1>1 DEF Load, SessionInv, TypeOK
<1>3. OneFamily' BY <1>0, <1>2 DEF OneFamily, Newest
<1>4. LogoutRevoked' BY <1>2 DEF LogoutRevoked
<1>5. gen'[families + 1] = 1 BY <1>0 DEF SessionInv, TypeOK
<1>6. Rotation => Rotation' BY <1>2, <1>5 DEF Rotation, Current
<1> QED BY <1>3, <1>4, <1>6 DEF SessionInv, KeepsSession

\* A logout carries a token of the only family there is.
LEMMA LogoutInv ==
    ASSUME SessionInv, TypeOK', NEW t \in Tab,
           SendLogout(t) \/ LogoutRevokes(t) \/ LogoutUnrevoked(t) \/ LogoutDone(t)
             \/ LogoutLost(t)
    PROVE  KeepsSession
<1> USE DEF SendLogout, LogoutRevokes, LogoutUnrevoked, LogoutDone, LogoutLost,
            heraldVars, cookieVars, refreshVars, history
<1>1. \A s \in Tab \ {t} : leaving'[s] = leaving[s] /\ leavingToken'[s] = leavingToken[s]
  BY DEF SessionInv, TypeOK
<1>2. leaving'[t] = "sent" => leavingToken'[t] = access
  BY DEF SessionInv, TypeOK
<1>3. OneFamily' BY <1>1, <1>2 DEF SessionInv, OneFamily, Newest
<1>4. Rotation => Rotation' BY DEF Rotation, Current, Arriving
<1>5. LogoutRevoked'
  <2>1. CASE LogoutRevokes(t)
    <3>1. leavingToken[t] \in Token /\ leavingToken[t][1] = families
      BY <2>1 DEF Authorized, Live, SessionInv, TypeOK, OneFamily, Newest
    <3>2. families # 0 /\ families \in 1..MaxFamily
      BY <3>1, Tokens, SessionAssumption DEF SessionInv, TypeOK
    <3>3. live'[families] = FALSE BY <2>1, <3>1, <3>2 DEF SessionInv, TypeOK
    <3>4. Revoked' BY <2>1, <3>2, <3>3 DEF Revoked
    <3> QED BY <3>4 DEF LogoutRevoked
  <2>2. CASE LogoutDone(t)
    <3>1. ended' = TRUE => leaving[t] = "revoked" BY <2>2
    <3>2. leaving'[t] = "leave" BY <2>2 DEF SessionInv, TypeOK
    <3>3. Revoked' <=> Revoked BY <2>2 DEF Revoked
    <3> QED BY <1>1, <3>1, <3>2, <3>3 DEF SessionInv, LogoutRevoked
  <2>3. CASE SendLogout(t) \/ LogoutUnrevoked(t) \/ LogoutLost(t)
    <3>1. leaving'[t] # "revoked" BY <2>3 DEF SessionInv, TypeOK
    <3>2. UNCHANGED <<families, live, ended>> BY <2>3
    <3> QED BY <1>1, <3>1, <3>2 DEF SessionInv, LogoutRevoked, Revoked
  <2> QED BY <2>1, <2>2, <2>3
<1> QED BY <1>3, <1>4, <1>5 DEF SessionInv, KeepsSession

LEMMA SessionNext ==
    SessionInv /\ [Next]_vars /\ [LoginAlone]_vars => KeepsSession
<1> SUFFICES ASSUME SessionInv, [Next]_vars, [LoginAlone]_vars
             PROVE  KeepsSession
  OBVIOUS
<1>0. TypeOK' BY TypesNext DEF SessionInv
<1> USE DEF heraldVars, cookieVars, loginVars, callVars, refreshVars, logoutVars, history
<1>1. ASSUME NEW t \in Tab, NEW c \in Call, CallsOnly(t, c) \/ On401(t, c) PROVE KeepsSession
  <2>1. CASE CallsOnly(t, c)
    BY <1>0, <2>1, UnseenInv
       DEF CallsOnly, SendCall, ServeCall, CallFails, ServeReplay, Unseen
  <2> QED BY <1>0, <1>1, <2>1, On401Inv
<1>2. ASSUME NEW t \in Tab, OauthStart(t) \/ OauthCallbackRefused(t) PROVE KeepsSession
  BY <1>0, <1>2, UnseenInv DEF OauthStart, OauthCallbackRefused, Unseen
<1>3. ASSUME NEW t \in Tab, OauthCallback(t) PROVE KeepsSession
  <2>1. families' # families
    BY <1>3, SessionAssumption DEF OauthCallback, SessionInv, TypeOK
  <2>2. LoginAlone BY <2>1 DEF vars
  <2> QED BY <1>0, <1>3, <2>2, LoginInv
<1>4. ASSUME NEW t \in Tab, OpenConsole(t) \/ RefreshRejected(t)
      PROVE  KeepsSession
  <2>1. \E p \in {"console", "login"} : Load(t, p)
    BY <1>4 DEF OpenConsole, RefreshRejected
  <2>2. UNCHANGED <<families, gen, live, refresh, access, reused, ended>>
    BY <1>4 DEF OpenConsole, RefreshRejected
  <2>3. lost \in BOOLEAN BY DEF SessionInv, TypeOK
  <2>4. \/ lost' = lost /\ answer[t] = None
        \/ lost' = (lost \/ inflight[t] # "none")
    BY <1>4 DEF OpenConsole, RefreshRejected
  <2>5. (lost' = lost \/ lost' = TRUE)
        /\ (lost' = FALSE => inflight[t] = "none" \/ answer[t] = None)
    BY <2>3, <2>4, Zenon
  <2> QED BY <1>0, <2>1, <2>2, <2>5, LoadInv
<1>5. ASSUME NEW t \in Tab,
             \/ RefreshRotates(t) \/ RefreshReused(t) \/ RefreshFails(t)
             \/ RefreshDone(t) \/ RefreshLost(t)
      PROVE  KeepsSession
  BY <1>0, <1>5, RotateInv, ReusedInv, EmptyAnswerInv, RefreshDoneInv
<1>6. ASSUME NEW t \in Tab,
             \/ SendLogout(t) \/ LogoutRevokes(t) \/ LogoutUnrevoked(t)
             \/ LogoutDone(t) \/ LogoutLost(t)
      PROVE  KeepsSession
  BY <1>0, <1>6, LogoutInv
<1>7. CASE ExpireAccess \/ ExpireOauth \/ UNCHANGED vars
  BY <1>0, <1>7, UnseenInv DEF ExpireAccess, ExpireOauth, vars, Unseen
<1> QED BY <1>1, <1>2, <1>3, <1>4, <1>5, <1>6, <1>7, StepCases

-----------------------------------------------------------------------------
\* If one tab at a time refreshes and no login overtakes a refresh or a logout, a
\* rotated refresh token is presented only after the answer of an earlier refresh was
\* lost.  Nothing in the code keeps two tabs from refreshing at once; one tab meets
\* both assumptions, see SingleTabAlone.
LEMMA TokensUsedOnce ==
    Spec /\ []RefreshAlone /\ [][LoginAlone]_vars => []ReuseOnlyAfterLoss
<1>1. SessionInv /\ Rotation => ReuseOnlyAfterLoss
  <2> SUFFICES ASSUME SessionInv, Rotation, lost # TRUE PROVE reused # TRUE
    BY DEF SessionInv, TypeOK, ReuseOnlyAfterLoss
  <2>1. lost = FALSE BY Zenon DEF SessionInv, TypeOK
  <2> QED BY <2>1 DEF Rotation
<1>2. SessionInv /\ Rotation /\ [Next]_vars /\ RefreshAlone /\ RefreshAlone' /\ [LoginAlone]_vars
        => SessionInv' /\ Rotation'
  BY SessionNext DEF KeepsSession
<1> QED BY <1>1, <1>2, SessionInit, PTL DEF Spec

\* Any number of tabs, calls and rotations: if no login overtakes a refresh or a logout,
\* a logout that reached Herald leaves no live token in the cookies until the next login,
\* whatever refreshes were in flight.
THEOREM LogoutIsFinal ==
    Spec /\ [][LoginAlone]_vars => []LoggedOutStays
<1>1. SessionInv => LoggedOutStays
  <2> SUFFICES ASSUME SessionInv, ended = TRUE PROVE ~Live(access) /\ ~Live(refresh)
    BY DEF SessionInv, TypeOK, LoggedOutStays
  <2>1. live[families] = FALSE BY DEF SessionInv, LogoutRevoked, Revoked
  <2> QED BY <2>1 DEF SessionInv, OneFamily, Newest, Live
<1>2. SessionInv /\ [Next]_vars /\ [LoginAlone]_vars => SessionInv'
  BY SessionNext DEF KeepsSession
<1> QED BY <1>1, <1>2, SessionInit, PTL DEF Spec

-----------------------------------------------------------------------------
(***************************************************************************)
(* One tab: the interceptor shares its refresh among the calls, and the    *)
(* login page has none, so the assumptions hold by themselves.             *)
(***************************************************************************)

SingleTab == \A s, t \in Tab : s = t

\* A login goes on in a page that does nothing else.
Quiet(t) == inflight[t] = "none" /\ leaving[t] = "none" /\ \A c \in Call : call[t][c] = "idle"

LoginPage ==
    \A t \in Tab : (flow[t] # 0 => page[t] = "login") /\ (page[t] = "login" => Quiet(t))

LEMMA LoginPageNext == TypeOK /\ LoginPage /\ [Next]_vars => LoginPage'
<1> SUFFICES ASSUME TypeOK, LoginPage, [Next]_vars PROVE LoginPage' OBVIOUS
<1> USE DEF heraldVars, cookieVars, loginVars, callVars, refreshVars, logoutVars, history
\* A tab that steps on the console page leaves it or stays; the others do nothing.
<1>0. ASSUME NEW t \in Tab, page[t] = "console",
             \A s \in Tab \ {t} : /\ page'[s] = page[s] /\ flow'[s] = flow[s]
                                  /\ inflight'[s] = inflight[s] /\ leaving'[s] = leaving[s]
                                  /\ call'[s] = call[s],
             flow' = flow, page' = page
      PROVE  LoginPage'
  BY <1>0 DEF LoginPage, Quiet
<1>1. ASSUME NEW t \in Tab, NEW c \in Call, CallsOnly(t, c) \/ On401(t, c) PROVE LoginPage'
  <2> USE <1>1 DEF CallsOnly, SendCall, ServeCall, CallFails, ServeReplay, On401
  <2>1. page[t] = "console" BY DEF LoginPage, Quiet, TypeOK
  <2>2. \A s \in Tab \ {t} : inflight'[s] = inflight[s] /\ leaving'[s] = leaving[s]
                             /\ call'[s] = call[s]
    BY DEF TypeOK
  <2>3. page' = page /\ flow' = flow OBVIOUS
  <2> QED BY <1>0, <2>1, <2>2, <2>3
<1>2. ASSUME NEW t \in Tab, OauthStart(t) \/ OauthCallbackRefused(t) PROVE LoginPage'
  <2>1. UNCHANGED <<page, call, inflight, leaving>>
    BY <1>2 DEF OauthStart, OauthCallbackRefused
  <2>2. \A s \in Tab : flow'[s] # 0 => flow[s] # 0 \/ page[s] = "login"
    BY <1>2 DEF OauthStart, OauthCallbackRefused, TypeOK
  <2> QED BY <2>1, <2>2 DEF LoginPage, Quiet
<1>3. ASSUME NEW t \in Tab, NEW p \in {"console", "login"}, Load(t, p),
             p = "console" => flow' = [flow EXCEPT ![t] = 0],
             p = "login" => flow' = flow
      PROVE  LoginPage'
  <2>1. /\ inflight'[t] = "none" /\ leaving'[t] = "none" /\ page'[t] = p
        /\ \A c \in Call : call'[t][c] = "idle"
    BY <1>3 DEF Load, TypeOK
  <2>2. \A s \in Tab \ {t} : /\ inflight'[s] = inflight[s] /\ leaving'[s] = leaving[s]
                             /\ call'[s] = call[s] /\ page'[s] = page[s] /\ flow'[s] = flow[s]
    BY <1>3 DEF Load, TypeOK
  <2>3. p = "console" => flow'[t] = 0 BY <1>3 DEF TypeOK
  <2> QED BY <2>1, <2>2, <2>3 DEF LoginPage, Quiet
<1>4. ASSUME NEW t \in Tab,
             OauthCallback(t) \/ OpenConsole(t) \/ RefreshRejected(t)
      PROVE  LoginPage'
  BY <1>3, <1>4 DEF OauthCallback, OpenConsole, RefreshRejected
<1>5. ASSUME NEW t \in Tab,
             \/ RefreshRotates(t) \/ RefreshReused(t) \/ RefreshFails(t)
             \/ RefreshDone(t) \/ RefreshLost(t)
             \/ SendLogout(t) \/ LogoutRevokes(t) \/ LogoutUnrevoked(t)
             \/ LogoutDone(t) \/ LogoutLost(t)
      PROVE  LoginPage'
  <2> USE <1>5 DEF RefreshRotates, RefreshReused, RefreshFails, RefreshDone, RefreshLost,
                   Answer, SendLogout, LogoutRevokes, LogoutUnrevoked, LogoutDone, LogoutLost
  <2>1. page[t] = "console" BY DEF LoginPage, Quiet, TypeOK
  <2>2. \A s \in Tab \ {t} : inflight'[s] = inflight[s] /\ leaving'[s] = leaving[s]
                             /\ call'[s] = call[s]
    BY DEF TypeOK
  <2>3. page' = page /\ flow' = flow OBVIOUS
  <2> QED BY <1>0, <2>1, <2>2, <2>3
<1>6. CASE ExpireAccess \/ ExpireOauth \/ UNCHANGED vars
  <2>1. UNCHANGED <<page, flow, call, inflight, leaving>>
    BY <1>6 DEF ExpireAccess, ExpireOauth, vars
  <2> QED BY <2>1 DEF LoginPage, Quiet
<1> QED BY <1>1, <1>2, <1>4, <1>5, <1>6, StepCases

LEMMA SingleTabAlone ==
    ASSUME SingleTab
    PROVE  Spec => []RefreshAlone /\ [][LoginAlone]_vars
<1>1. Init => LoginPage
  <2> SUFFICES ASSUME Init, NEW t \in Tab PROVE flow[t] = 0 /\ Quiet(t)
    BY DEF LoginPage
  <2>1. flow[t] = 0 /\ inflight[t] = "none" /\ leaving[t] = "none" BY DEF Init
  <2>2. \A c \in Call : call[t][c] = "idle" BY DEF Init
  <2> QED BY <2>1, <2>2 DEF Quiet
<1>2. RefreshAlone BY DEF SingleTab, RefreshAlone
<1>3. TypeOK /\ LoginPage /\ [Next]_vars => [LoginAlone]_vars
  <2> SUFFICES ASSUME TypeOK, LoginPage, [Next]_vars, families' # families, NEW s \in Tab
               PROVE  inflight[s] = "none" /\ leaving[s] \in {"none", "leave"}
    BY DEF LoginAlone
  <2>1. PICK t \in Tab : OauthCallback(t)
    <3>1. ASSUME NEW t \in Tab, NEW c \in Call, SendCall(t, c) \/ CallStep(t, c)
          PROVE  families' = families
      BY <3>1 DEF CallStep, SendCall, ServeCall, CallFails, On401, ServeReplay, heraldVars
    <3>2. ASSUME NEW t \in Tab, Interceptor(t) \/ RefreshLost(t)
          PROVE  families' = families
      BY <3>2 DEF Interceptor, RefreshRotates, RefreshReused, RefreshFails, RefreshDone,
                  RefreshRejected, RefreshLost, heraldVars
    <3>3. ASSUME NEW t \in Tab,
                 \/ SendLogout(t) \/ LogoutRevokes(t) \/ LogoutUnrevoked(t)
                 \/ LogoutDone(t) \/ LogoutLost(t) \/ Leave(t)
          PROVE  families' = families
      BY <3>3 DEF SendLogout, LogoutRevokes, LogoutUnrevoked, LogoutDone, LogoutLost, Leave,
                  OpenConsole, heraldVars
    <3>4. ASSUME NEW t \in Tab, OauthStart(t) \/ OauthCallbackRefused(t) \/ OpenConsole(t)
          PROVE  families' = families
      BY <3>4 DEF OauthStart, OauthCallbackRefused, OpenConsole, heraldVars
    <3>5. ExpireAccess \/ ExpireOauth \/ UNCHANGED vars => families' = families
      BY DEF ExpireAccess, ExpireOauth, vars, heraldVars
    <3> QED BY <3>1, <3>2, <3>3, <3>4, <3>5 DEF Next
  <2>2. s = t BY DEF SingleTab
  <2> QED BY <2>1, <2>2 DEF OauthCallback, LoginPage, Quiet
<1> QED BY <1>1, <1>2, <1>3, LoginPageNext, SessionTypes, PTL DEF Spec

\* However many calls of a tab meet an expired access token at once, no rotated refresh
\* token is presented unless an answer was lost.
THEOREM TabUsesTokensOnce ==
    ASSUME SingleTab
    PROVE  Spec => []ReuseOnlyAfterLoss
BY TokensUsedOnce, SingleTabAlone, PTL

\* A logout of the tab is final until its next login, whatever it had in flight.
THEOREM TabStaysLoggedOut ==
    ASSUME SingleTab
    PROVE  Spec => []LoggedOutStays
BY LogoutIsFinal, SingleTabAlone, PTL

-----------------------------------------------------------------------------
(***************************************************************************)
(* No lost wake-up.                                                        *)
(***************************************************************************)

\* A call waits only while a refresh of its own tab is under way, and so is woken or
\* given up with it: refreshAccessToken takes the promise and drops it in one turn.
WaitersWoken == \A t \in Tab, c \in Call : call[t][c] = "waiting" => inflight[t] # "none"

LEMMA WaitersNext == TypeOK /\ WaitersWoken /\ [Next]_vars => WaitersWoken'
<1> SUFFICES ASSUME TypeOK, WaitersWoken, [Next]_vars PROVE WaitersWoken' OBVIOUS
<1> USE DEF heraldVars, cookieVars, loginVars, callVars, refreshVars, logoutVars, history
\* One tab steps, and none of its calls waits without a refresh afterwards.
<1>0. ASSUME NEW t \in Tab,
             \A s \in Tab \ {t} : inflight'[s] = inflight[s] /\ call'[s] = call[s],
             \A c \in Call : call'[t][c] = "waiting" => inflight'[t] # "none"
      PROVE  WaitersWoken'
  BY <1>0 DEF WaitersWoken
<1>1. ASSUME NEW t \in Tab, NEW c \in Call, CallsOnly(t, c) PROVE WaitersWoken'
  <2> USE <1>1 DEF CallsOnly, SendCall, ServeCall, CallFails, ServeReplay
  <2>1. inflight' = inflight OBVIOUS
  <2>2. \A s \in Tab \ {t} : call'[s] = call[s] BY DEF TypeOK
  <2>3. \A d \in Call : call'[t][d] = "waiting" => call[t][d] = "waiting" BY DEF TypeOK
  <2> QED BY <1>0, <2>1, <2>2, <2>3 DEF WaitersWoken
<1>2. ASSUME NEW t \in Tab, NEW c \in Call, On401(t, c) PROVE WaitersWoken'
  <2>1. \A s \in Tab \ {t} : inflight'[s] = inflight[s] /\ call'[s] = call[s]
    BY <1>2 DEF On401, TypeOK
  <2>2. inflight'[t] # "none" BY <1>2 DEF On401, TypeOK
  <2> QED BY <1>0, <2>1, <2>2
<1>3. ASSUME NEW t \in Tab, NEW p \in {"console", "login"}, Load(t, p) PROVE WaitersWoken'
  <2>1. \A c \in Call : call'[t][c] = "idle" BY <1>3 DEF Load, TypeOK
  <2>2. \A s \in Tab \ {t} : inflight'[s] = inflight[s] /\ call'[s] = call[s]
    BY <1>3 DEF Load, TypeOK
  <2> QED BY <1>0, <2>1, <2>2
<1>4. ASSUME NEW t \in Tab,
             OauthCallback(t) \/ OpenConsole(t) \/ RefreshRejected(t)
      PROVE  WaitersWoken'
  BY <1>3, <1>4 DEF OauthCallback, OpenConsole, RefreshRejected
<1>5. ASSUME NEW t \in Tab, RefreshDone(t) PROVE WaitersWoken'
  <2>1. \A c \in Call : call'[t][c] # "waiting" BY <1>5 DEF RefreshDone, TypeOK
  <2>2. \A s \in Tab \ {t} : inflight'[s] = inflight[s] /\ call'[s] = call[s]
    BY <1>5 DEF RefreshDone, TypeOK
  <2> QED BY <1>0, <2>1, <2>2
<1>6. ASSUME NEW t \in Tab,
             \/ RefreshRotates(t) \/ RefreshReused(t) \/ RefreshFails(t) \/ RefreshLost(t)
      PROVE  WaitersWoken'
  <2>1. call' = call
    BY <1>6 DEF RefreshRotates, RefreshReused, RefreshFails, RefreshLost
  <2>2. inflight'[t] # "none" /\ \A s \in Tab \ {t} : inflight'[s] = inflight[s]
    BY <1>6 DEF RefreshRotates, RefreshReused, RefreshFails, RefreshLost, Answer, TypeOK
  <2> QED BY <1>0, <2>1, <2>2
<1>7. ASSUME UNCHANGED <<call, inflight>> PROVE WaitersWoken'
  BY <1>7 DEF WaitersWoken
<1>8. ASSUME NEW t \in Tab,
             \/ OauthStart(t) \/ OauthCallbackRefused(t)
             \/ SendLogout(t) \/ LogoutRevokes(t) \/ LogoutUnrevoked(t)
             \/ LogoutDone(t) \/ LogoutLost(t)
      PROVE  WaitersWoken'
  BY <1>7, <1>8 DEF OauthStart, OauthCallbackRefused, SendLogout, LogoutRevokes,
     LogoutUnrevoked, LogoutDone, LogoutLost
<1>9. CASE ExpireAccess \/ ExpireOauth \/ UNCHANGED vars
  BY <1>7, <1>9 DEF ExpireAccess, ExpireOauth, vars
<1> QED BY <1>1, <1>2, <1>4, <1>5, <1>6, <1>8, <1>9, StepCases

\* However many calls of however many tabs meet a 401, none is left waiting for a refresh
\* that is over.
THEOREM NoWaiterForgotten == Spec => []WaitersWoken
<1>1. Init => WaitersWoken BY DEF Init, WaitersWoken
<1> QED BY <1>1, WaitersNext, SessionTypes, PTL DEF Spec
=============================================================================
