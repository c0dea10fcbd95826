----------------------------- MODULE BrowserTabs -----------------------------
(***************************************************************************)
(* The sign-in of a browser: the tabs of the web app share one refresh     *)
(* cookie, and each keeps its access token in the memory of its auth       *)
(* store.  A store has one refresh at a time; a login or a logout may be   *)
(* under way beside it.                                                    *)
(***************************************************************************)
EXTENDS RefreshSessions

CONSTANTS Tabs,
          Refresher, Gate,  \* the senders of a tab: its refresh, its login or logout
          Losses            \* may an answer be lost?

ASSUME TabsAssumption ==
  /\ \A t \in Tabs : {Refresher[t], Gate[t]} \subseteq Senders
  /\ \A t, u \in Tabs : Refresher[t] # Gate[u] /\ (t # u => Refresher[t] # Refresher[u])

VARIABLES cookie,   \* orchestwin_refresh in the jar of the browser
          access,   \* accessToken of each tab, 0 when there is none
          left,     \* families their user has signed out of
          mishaps   \* what may cost a browser its sign-in

browser == <<cookie, access, left, mishaps>>

BrowserInit ==
  /\ cookie = 0
  /\ access = [t \in Tabs |-> 0]
  /\ left = {}
  /\ mishaps = {}

Clear(t) == access' = [access EXCEPT ![t] = 0]

InFlight(s) == tx[s].phase # "none"

(* applyAuthentication, after the browser has stored the cookie.           *)
Apply(t, s) ==
  /\ cookie' = tx[s].fresh
  /\ access' = [access EXCEPT ![t] = tx[s].fresh]

Abandoned(s) == {rows[r].family : r \in {q \in {tx[s].token} \ {0} : tx[s].op = "logout"}}

(* login and register: the router has waited for the refresh of bootstrap. *)
LogIn(t) ==
  /\ access[t] = 0
  /\ ~ InFlight(Refresher[t])
  /\ Send(Gate[t], "login", 0)
  /\ UNCHANGED browser

(* refresh, from bootstrap, or from withAccessToken without a token or     *)
(* after a 401, which clears the token first.  A refresh in flight is      *)
(* shared.                                                                 *)
Refresh(t) ==
  /\ ~ InFlight(Refresher[t])
  /\ Send(Refresher[t], "refresh", cookie)
  /\ Clear(t)
  /\ mishaps' = mishaps
       \union {"tabs" : u \in {v \in Tabs \ {t} : InFlight(Refresher[v])}}
       \union {"late" : u \in {v \in Tabs : InFlight(Gate[v]) /\ tx[Gate[v]].op = "logout"}}
  /\ UNCHANGED <<cookie, left>>

LogOut(t) ==
  /\ access[t] # 0
  /\ Send(Gate[t], "logout", cookie)
  /\ mishaps' = mishaps \union {"late" : u \in {v \in Tabs : InFlight(Refresher[v])}}
  /\ UNCHANGED <<cookie, access, left>>

Got(s, answer) == tx[s].phase = "answered" /\ tx[s].answer = answer /\ Taken(s)

Refreshed(t) ==
  /\ Got(Refresher[t], "ok")
  /\ Apply(t, Refresher[t])
  /\ UNCHANGED <<left, mishaps>>

(* invalid_refresh_response deletes the cookie.                            *)
RefreshRefused(t) ==
  /\ Got(Refresher[t], "refused")
  /\ cookie' = 0
  /\ Clear(t)
  /\ UNCHANGED <<left, mishaps>>

(* clearAuthentication; the cookie stays.                                  *)
RefreshFailed(t) ==
  /\ Got(Refresher[t], "failed")
  /\ Clear(t)
  /\ UNCHANGED <<cookie, left, mishaps>>

LoggedIn(t) ==
  /\ tx[Gate[t]].op = "login"
  /\ Got(Gate[t], "ok")
  /\ Apply(t, Gate[t])
  /\ UNCHANGED <<left, mishaps>>

LoggedOut(t) ==
  /\ tx[Gate[t]].op = "logout"
  /\ Got(Gate[t], "ok")
  /\ cookie' = 0
  /\ Clear(t)
  /\ left' = left \union Abandoned(Gate[t])
  /\ UNCHANGED mishaps

(* A login, or a logout, that the Studio could not serve: both clear the   *)
(* store, and the cookie stays.                                            *)
GateFailed(t) ==
  /\ Got(Gate[t], "failed")
  /\ Clear(t)
  /\ left' = left \union Abandoned(Gate[t])
  /\ mishaps' = mishaps \union {"lost" : r \in Abandoned(Gate[t])}
  /\ UNCHANGED cookie

(* An answer is lost once the Studio has committed, or the request was     *)
(* never served: both clear the store (logout in its finally).             *)
Lost(t) ==
  /\ Losses
  /\ \E s \in {Refresher[t], Gate[t]} :
       /\ tx[s].phase \in {"sent", "answered"}
       /\ Taken(s)
       /\ left' = left \union Abandoned(s)
  /\ Clear(t)
  /\ mishaps' = mishaps \union {"lost"}
  /\ UNCHANGED cookie

Tab(t) ==
  \/ LogIn(t) \/ Refresh(t) \/ LogOut(t)
  \/ Refreshed(t) \/ RefreshRefused(t) \/ RefreshFailed(t) \/ LoggedIn(t) \/ LoggedOut(t)
  \/ GateFailed(t) \/ Lost(t)
=============================================================================
