----------------------------- MODULE BrowserSession -----------------------------
(***************************************************************************)
(* The tabs of one browser (frontend/src/api/client.js) and the cookie     *)
(* routes of backend/src/auth/routes.js, composed with RefreshTokens.      *)
(*                                                                         *)
(* The tabs share one cookie jar.  A call reads the jar when it is sent,   *)
(* the server answers calls in any order, and the jar is written when an   *)
(* answer arrives, again in any order.  A call can be lost on its way, its *)
(* answer can be lost, and a page can be reloaded with a call under way,   *)
(* which the server then still serves.  The csrf cookie is set and cleared *)
(* together with the refresh cookie and the header is read from it in the  *)
(* same instant, so requireCsrf refuses exactly the calls without cookie.  *)
(*                                                                         *)
(* Rate limits are left out: they refuse before a handler runs.            *)
(***************************************************************************)
EXTENDS RefreshTokens, Naturals, FiniteSets

CONSTANTS
    Tabs,
    Slots,      \* names for calls under way; their number bounds how many there are
    user,       \* the one user of this browser
    Reloads     \* whether pages may be reloaded and messages lost

VARIABLES
    cookie,     \* the refresh_token cookie of the shared jar, or None
    access,     \* access[t]: tab t has an access token in memory
    shows,      \* shows[t]: what AuthProvider of tab t has the page show
    call,       \* call[s]: a request under way, or None
    hurt,       \* history: families with a call lost, abandoned or cut by a crash,
                \*   or whose cookie was overwritten by a call of another family
    raced,      \* history: families that two calls under way at once were about
    tabRaced,   \* history: likewise, two calls of one tab
    loggedOut   \* history: families a logout was sent for

tabVars == <<access, shows>>
history == <<hurt, raced, tabRaced, loggedOut>>
browserVars == <<vars, cookie, tabVars, call, history>>

Kinds == {"login", "refresh", "logout"}
NoChange == "no change"
Clear == "clear"

(* page: the request still has a page waiting for it.                      *)
Call == [tab : Tabs, kind : Kinds, token : Tokens \cup {None},
         stage : {"sent", "rotating", "answered"}, page : BOOLEAN,
         sets : Tokens \cup {None, NoChange, Clear}]

ASSUME OneBrowser ==
    /\ user \in Users /\ Reloads \in BOOLEAN
    /\ None \notin Call
    /\ {NoChange, Clear} \cap (Tokens \cup {None}) = {}

BrowserTypeOK ==
    /\ TypeOK
    /\ cookie \in Tokens \cup {None}
    /\ access \in [Tabs -> BOOLEAN]
    /\ shows \in [Tabs -> {"loading", "login", "console"}]
    /\ call \in [Slots -> Call \cup {None}]
    /\ hurt \subseteq Families
    /\ raced \subseteq Families
    /\ tabRaced \subseteq Families
    /\ loggedOut \subseteq Families

BrowserInit ==
    /\ Init
    /\ cookie = None
    /\ access = [t \in Tabs |-> FALSE]
    /\ shows = [t \in Tabs |-> "loading"]
    /\ call = [s \in Slots |-> None]
    /\ hurt = {}
    /\ raced = {}
    /\ tabRaced = {}
    /\ loggedOut = {}

UnderWay == {s \in Slots : call[s] # None}
FamilyOf(j) == IF j \in Tokens THEN {row[j].family} ELSE {}
Waiting(t, kinds) == \E s \in UnderWay : call[s].page /\ call[s].tab = t /\ call[s].kind \in kinds
Unissued == Tokens \ Issued

(* The token pool is finite: a call is sent only while every call that is  *)
(* not yet answered, and this one, could still be given a new token.       *)
PoolSuffices ==
    Cardinality(Unissued) > Cardinality({s \in UnderWay : call[s].stage # "answered"})

(* The families a call, or any of a set of calls, is about.                *)
Concerns(s) == FamilyOf(call[s].token) \cup FamilyOf(call[s].sets)
ConcernsOf(S) == UNION {Concerns(s) : s \in S}

(* rawFetch: a request leaves with the cookie of this moment.              *)
Send(t, kind, token) ==
    /\ PoolSuffices
    /\ \E s \in Slots \ UnderWay :
         call' = [call EXCEPT ![s] = [tab |-> t, kind |-> kind, token |-> token,
                                      stage |-> "sent", page |-> TRUE, sets |-> None]]
    /\ raced' = raced \cup (FamilyOf(token) \cap ConcernsOf(UnderWay))
    /\ tabRaced' = tabRaced \cup
          (FamilyOf(token) \cap ConcernsOf({s \in UnderWay : call[s].tab = t}))
    /\ UNCHANGED <<vars, cookie, tabVars, hurt>>

--------------------------------------------------------------------------------
(* The last call of a login, from the login form.                          *)
SendLogin(t) ==
    /\ shows[t] = "login"
    /\ ~Waiting(t, {"login"})
    /\ Send(t, "login", None)
    /\ UNCHANGED loggedOut

(* refreshSession: once when the page loads, and whenever a request of a   *)
(* tab that holds an access token is answered 401.  Callers in one tab     *)
(* share the request that is already in flight.                            *)
SendRefreshUnshared(t) ==
    /\ shows[t] = "loading" \/ access[t]
    /\ Send(t, "refresh", cookie)
    /\ UNCHANGED loggedOut

SendRefresh(t) ==
    /\ shows[t] = "loading" \/ access[t]
    /\ ~Waiting(t, {"refresh"})
    /\ Send(t, "refresh", cookie)
    /\ UNCHANGED loggedOut

(* The log-out button.  It is not held back by a refresh in flight.        *)
SendLogout(t) ==
    /\ shows[t] = "console"
    /\ ~Waiting(t, {"logout"})
    /\ Send(t, "logout", cookie)
    /\ loggedOut' = loggedOut \cup FamilyOf(cookie)

--------------------------------------------------------------------------------
Answer(s, cookieChange) ==
    call' = [call EXCEPT ![s].stage = "answered", ![s].sets = cookieChange]

(* issueSessionForUser                                                     *)
ServeLogin(s) ==
    /\ call[s].kind = "login" /\ call[s].stage = "sent"
    /\ \E j \in Tokens, f \in Families : IssueRefreshToken(j, user, f) /\ Answer(s, j)
    /\ UNCHANGED <<cookie, tabVars, history>>

(* POST /refresh without cookie: requireCsrf answers 403, no cookie header *)
(* either way.                                                             *)
RefuseCsrf(s) ==
    /\ call[s].kind \in {"refresh", "logout"} /\ call[s].stage = "sent"
    /\ call[s].token = None
    /\ Idle
    /\ Answer(s, NoChange)
    /\ UNCHANGED <<vars, cookie, tabVars, history>>

(* POST /refresh, a good token: rotateRefreshToken up to its UPDATE.       *)
ServeRefresh(s) ==
    /\ call[s].kind = "refresh" /\ call[s].stage = "sent"
    /\ call[s].token # None
    /\ RotateRevoke(call[s].token)
    /\ call' = [call EXCEPT ![s].stage = "rotating"]
    /\ UNCHANGED <<cookie, tabVars, history>>

(* ... the INSERT, and the answer that carries the new cookie.             *)
FinishRefresh(s) ==
    /\ call[s].stage = "rotating"
    /\ \E j \in Tokens : RotateInsert(j) /\ Answer(s, j)
    /\ UNCHANGED <<cookie, tabVars, history>>

(* POST /refresh, a revoked token: the family ends, the cookie is cleared. *)
RefuseReused(s) ==
    /\ call[s].kind = "refresh" /\ call[s].stage = "sent"
    /\ call[s].token # None
    /\ RotateReused(call[s].token)
    /\ Answer(s, Clear)
    /\ UNCHANGED <<cookie, tabVars, history>>

(* POST /refresh, an expired token: the cookie is cleared, no row changes. *)
RefuseExpired(s) ==
    /\ call[s].kind = "refresh" /\ call[s].stage = "sent"
    /\ call[s].token \in expired
    /\ Idle
    /\ Answer(s, Clear)
    /\ UNCHANGED <<vars, cookie, tabVars, history>>

(* POST /logout with a cookie.                                             *)
ServeLogoutCookieOnly(s) ==
    /\ call[s].kind = "logout" /\ call[s].stage = "sent"
    /\ call[s].token # None
    /\ Idle
    /\ Answer(s, Clear)
    /\ UNCHANGED <<vars, cookie, tabVars, history>>

ServeLogout(s) ==
    /\ call[s].kind = "logout" /\ call[s].stage = "sent"
    /\ call[s].token # None
    /\ RevokeRefreshToken(call[s].token)
    /\ Answer(s, Clear)
    /\ UNCHANGED <<cookie, tabVars, history>>

Serve(s) ==
    \/ ServeLogin(s)
    \/ RefuseCsrf(s)
    \/ ServeRefresh(s)
    \/ FinishRefresh(s)
    \/ RefuseReused(s)
    \/ RefuseExpired(s)
    \/ ServeLogout(s)

--------------------------------------------------------------------------------
(* fetch rejects.  AuthProvider takes a failed first refresh for "not      *)
(* logged in", a failed log-out still ends the tab's session, and any      *)
(* other caller just reports the error.                                    *)
FetchFails(s) ==
    LET t == call[s].tab
        over == \/ call[s].kind = "logout"
                \/ call[s].kind = "refresh" /\ shows[t] = "loading"
    IN  IF call[s].page /\ over
        THEN /\ access' = [access EXCEPT ![t] = FALSE]
             /\ shows' = [shows EXCEPT ![t] = "login"]
        ELSE UNCHANGED tabVars

(* The process dies in the middle of a rotation and is restarted; the      *)
(* connection of that refresh breaks.                                      *)
CrashLeavesCallHanging ==
    \E s \in UnderWay :
        /\ call[s].stage = "rotating"
        /\ Crash
        /\ UNCHANGED <<cookie, tabVars, call, history>>

CrashDuringRotation ==
    \E s \in UnderWay :
        /\ call[s].stage = "rotating"
        /\ Crash
        /\ FetchFails(s)
        /\ call' = [call EXCEPT ![s] = None]
        /\ hurt' = hurt \cup Concerns(s)
        /\ UNCHANGED <<cookie, raced, tabRaced, loggedOut>>

(* An answer arrives: the browser applies Set-Cookie, then the tab runs.   *)
Succeeded(s) == call[s].sets \in Tokens
CookieAfter(s) ==
    CASE call[s].sets = NoChange -> cookie
      [] call[s].sets = Clear -> None
      [] OTHER -> call[s].sets

(* The family whose cookie goes with that although the call was not of it. *)
Overwritten(s) == IF CookieAfter(s) = cookie THEN {} ELSE FamilyOf(cookie) \ Concerns(s)

DeliverLoginCookieOnly(s) ==
    /\ call[s].stage = "answered" /\ call[s].page
    /\ cookie' = CASE call[s].sets = Clear -> None
                   [] call[s].kind = "login" -> call[s].sets
                   [] OTHER -> cookie
    /\ access' = [access EXCEPT ![call[s].tab] = Succeeded(s)]
    /\ shows' = [shows EXCEPT ![call[s].tab] = IF Succeeded(s) THEN "console" ELSE "login"]
    /\ call' = [call EXCEPT ![s] = None]
    /\ UNCHANGED <<vars, history>>

DeliverRawCookie(s) ==
    /\ call[s].stage = "answered" /\ call[s].page
    /\ cookie' = call[s].sets
    /\ access' = [access EXCEPT ![call[s].tab] = Succeeded(s)]
    /\ call' = [call EXCEPT ![s] = None]
    /\ UNCHANGED <<vars, shows, history>>

Deliver(s) ==
    /\ call[s].stage = "answered" /\ call[s].page
    /\ cookie' = CookieAfter(s)
    /\ access' = [access EXCEPT ![call[s].tab] = Succeeded(s)]
    /\ shows' = [shows EXCEPT ![call[s].tab] =
                    CASE ~Succeeded(s) -> "login"
                      [] Succeeded(s) /\ @ = "login" /\ call[s].kind = "refresh" -> "login"
                      [] OTHER -> "console"]
    /\ hurt' = hurt \cup Overwritten(s)
    /\ call' = [call EXCEPT ![s] = None]
    /\ UNCHANGED <<vars, raced, tabRaced, loggedOut>>

(* A request or its answer is lost.                                        *)
Lose(s) ==
    /\ Reloads
    /\ call[s].stage \in {"sent", "answered"}
    /\ FetchFails(s)
    /\ call' = [call EXCEPT ![s] = None]
    /\ hurt' = hurt \cup Concerns(s)
    /\ UNCHANGED <<vars, cookie, raced, tabRaced, loggedOut>>

(* The answer to a page that is gone.  The browser has cancelled the call, *)
(* or is still in time to apply its Set-Cookie.                            *)
Discard(s) ==
    /\ call[s].stage = "answered" /\ ~call[s].page
    /\ cookie' \in {cookie, CookieAfter(s)}
    /\ hurt' = hurt \cup Concerns(s) \cup Overwritten(s)
    /\ call' = [call EXCEPT ![s] = None]
    /\ UNCHANGED <<vars, tabVars, raced, tabRaced, loggedOut>>

(* The page of a tab is reloaded.  Its memory is gone, and with it the     *)
(* memory of a refresh in flight; the server still serves what was sent.   *)
Reload(t) ==
    /\ Reloads
    /\ access' = [access EXCEPT ![t] = FALSE]
    /\ shows' = [shows EXCEPT ![t] = "loading"]
    /\ LET mine == {s \in UnderWay : call[s].tab = t} IN
         /\ call' = [s \in Slots |-> IF s \in mine THEN [call[s] EXCEPT !.page = FALSE]
                                                   ELSE call[s]]
         /\ hurt' = hurt \cup ConcernsOf(mine)
    /\ UNCHANGED <<vars, cookie, raced, tabRaced, loggedOut>>

TokenExpires(j) ==
    /\ Expire(j)
    /\ UNCHANGED <<cookie, tabVars, call, history>>

BrowserNext ==
    \/ \E t \in Tabs : SendLogin(t)
    \/ \E t \in Tabs : SendRefresh(t)
    \/ \E t \in Tabs : SendLogout(t)
    \/ \E s \in UnderWay : Serve(s)
    \/ \E s \in UnderWay : Deliver(s)
    \/ \E s \in UnderWay : Lose(s)
    \/ \E s \in UnderWay : Discard(s)
    \/ \E t \in Tabs : Reload(t)
    \/ \E j \in Tokens : TokenExpires(j)
    \/ CrashDuringRotation

BrowserSpec == BrowserInit /\ [][BrowserNext]_browserVars

(* Node serves every request that reached it and the network brings every  *)
(* answer or fails; neither lets one request wait for ever.                *)
FairSpec ==
    /\ BrowserSpec
    /\ \A s \in Slots : SF_browserVars(s \in UnderWay /\ Serve(s))
    /\ \A s \in Slots : WF_browserVars(s \in UnderWay /\ (Deliver(s) \/ Discard(s)))

--------------------------------------------------------------------------------
(* Reuse detection never fires on a family of its own accord: either two   *)
(* calls were under way with its cookie, or a rotation's answer did not    *)
(* reach the jar.  (jwt.js:59-66 takes reuse for a compromise signal; this *)
(* is the list of innocent causes.)                                        *)
ReuseHasACause == reused \subseteq hurt \cup raced

(* Within a tab, sharing the refresh in flight (client.js:43-52) leaves    *)
(* logging out during a refresh as the only race.                          *)
TabRacesOnlyWhenLoggingOut == tabRaced \subseteq hurt \cup loggedOut

(* The jar holds the token the server accepts next, or a call is on its    *)
(* way that will put it there: rotation (jwt.js:71-77) and the shared jar  *)
(* stay in step unless a call of the family was lost or raced.             *)
CookieIsCurrent ==
    \A j \in Tokens \cap {cookie} :
        \/ row[j].family \in hurt \cup raced
        \/ j \in Live
        \/ \E s \in UnderWay :
              /\ call[s].token = j
              /\ \/ call[s].stage = "rotating" /\ rotating = j
                 \/ call[s].sets = Clear
                 \/ call[s].sets \in Live /\ parent[call[s].sets] = j

(* No session stays usable on the server without a browser that can use it *)
(* or log it out, unless a call of it was lost, raced or overwritten.      *)
NoStrandedSession ==
    \A j \in Live \ expired :
        \/ row[j].family \in hurt \cup raced
        \/ cookie = j
        \/ \E s \in UnderWay : call[s].sets = j

(* After its logout was served (routes.js:233-239 revokes the presented    *)
(* token only) a session is over, unless another call of it was under way  *)
(* or its last token never reached the jar.                                *)
LogoutEndsSession ==
    \A f \in loggedOut \ (hurt \cup raced) :
        \/ StatusOf(f) = "ended"
        \/ \E s \in UnderWay : /\ call[s].kind = "logout" /\ call[s].stage = "sent"
                              /\ f \in Concerns(s)

(* refreshInFlight is always reset (client.js:64-66): a tab that waits for *)
(* a refresh stops waiting, also when the server dies under it.            *)
RefreshSettles ==
    \A t \in Tabs : Waiting(t, {"refresh"}) ~> ~Waiting(t, {"refresh"})
================================================================================
