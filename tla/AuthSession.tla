---------------------------- MODULE AuthSession ----------------------------
(***************************************************************************)
(* A signed-in browser: the tabs that call the API through                 *)
(* frontend/src/lib/api.ts, the cookie jar and the localStorage flag they  *)
(* share, and the token endpoints of backend/app/api/auth.py with the      *)
(* refresh_tokens table.                                                   *)
(*                                                                         *)
(* A request takes the cookies when it is sent and sets them when its      *)
(* answer arrives.  The refresh handler reads the row of its token in one  *)
(* statement and commits the rotation later: the UPDATE names the row's    *)
(* id, not its is_valid, and no row is locked.  Tokens are numbered in the *)
(* order in which they are issued; a family is named by its first token.   *)
(***************************************************************************)
EXTENDS Naturals, FiniteSets

CONSTANTS
  Tab,        \* browser tabs, or requests that one page has in flight
  MaxLogins,  \* bound on sign-ins
  MaxCalls,   \* bound on API calls
  MaxFailures \* bound on lost requests and answers, and on refreshes and
              \* sign-outs that are answered 429 or 500

ASSUME BoundsAssumption ==
  IsFiniteSet(Tab) /\ MaxLogins \in Nat /\ MaxCalls \in Nat /\ MaxFailures \in Nat

(* A sign-in issues one token and a call refreshes at most once.           *)
Token == 1 .. (MaxLogins + MaxCalls)
NoToken == 0

ProgramCounter ==
  {"idle",
   "keying",        \* POST /auth/token sent
   "granted",       \* its row is committed, the answer is under way
   "fetching",      \* an API call sent with an access token
   "bare",          \* an API call sent without one
   "unauthorized",  \* it was answered 401
   "refreshing",    \* POST /auth/refresh sent
   "rotating",      \* the handler read a valid row and will commit
   "revoking",      \* the handler read an invalid row and will revoke
   "rotated",       \* committed, the new cookies are under way
   "refused",       \* a 401 is under way
   "retrying",      \* the API call sent again
   "leaving",       \* POST /auth/logout sent
   "left"}          \* committed, the deletion of the cookies is under way

VARIABLES
  issued,    \* refresh_tokens rows so far
  family,    \* refresh_tokens.family_id
  valid,     \* rows with is_valid
  expired,   \* rows with expires_at in the past
  jar,       \* the cookie eventflow_refresh
  access,    \* is there an unexpired cookie eventflow_jwt?
  status,    \* localStorage eventflow_auth_status
  at,        \* the page each tab shows
  pc,        \* what each tab waits for
  held,      \* the token a request carries or an answer brings
  overlap,   \* did two requests that use the refresh cookie ever overlap?
  signedOut, \* did anybody ever sign out?
  raced,     \* was a refresh ever sent while another one was in flight?
  dropped,   \* was a tab ever sent to the login page by a failed refresh?
  logins, calls, failures

table == <<issued, family, valid, expired>>
browser == <<jar, access, status, at>>
causes == <<signedOut, raced>>
history == <<overlap, causes, dropped>>
bounds == <<logins, calls, failures>>
vars == <<table, browser, pc, held, history, bounds>>

Init ==
  /\ issued = 0
  /\ family = [t \in Token |-> NoToken]
  /\ valid = {}
  /\ expired = {}
  /\ jar = NoToken /\ access = FALSE /\ status = FALSE
  /\ at = [c \in Tab |-> "login"]
  /\ pc = [c \in Tab |-> "idle"]
  /\ held = [c \in Tab |-> NoToken]
  /\ overlap = FALSE /\ signedOut = FALSE /\ raced = FALSE /\ dropped = FALSE
  /\ logins = 0 /\ calls = 0 /\ failures = 0

FamilyOf(t) == {u \in Token : u <= issued /\ family[u] = family[t]}

(* A request that uses or replaces the refresh cookie is in flight.        *)
SessionRequest == {"keying", "granted", "refreshing", "rotating", "revoking", "rotated",
                   "refused", "leaving", "left"}

RefreshInFlight == {"refreshing", "rotating", "revoking", "rotated", "refused"}

Enters(c, to) ==
  /\ pc' = [pc EXCEPT ![c] = to]
  /\ overlap' = (overlap \/ (to \in SessionRequest /\
                             \E d \in Tab \ {c} : pc[d] \in SessionRequest))

-----------------------------------------------------------------------------
(* Signing in (api.login, login_for_access_token).                         *)

LoginSend(c) ==
  /\ pc[c] = "idle" /\ at[c] = "login"
  /\ logins < MaxLogins
  /\ logins' = logins + 1
  /\ Enters(c, "keying")
  /\ UNCHANGED <<table, browser, held, causes, dropped, calls, failures>>

(* The key is found, last_used_at is set, and a token of a new family is   *)
(* inserted.                                                               *)
LoginCommit(c) ==
  /\ pc[c] = "keying"
  /\ issued' = issued + 1
  /\ family' = [family EXCEPT ![issued + 1] = issued + 1]
  /\ valid' = valid \cup {issued + 1}
  /\ held' = [held EXCEPT ![c] = issued + 1]
  /\ Enters(c, "granted")
  /\ UNCHANGED <<expired, browser, causes, dropped, bounds>>

(* The key is unknown or inactive, its lookup failed, or the limiter       *)
(* refused.                                                                *)
LoginRefused(c) ==
  /\ pc[c] = "keying"
  /\ Enters(c, "idle")
  /\ UNCHANGED <<table, browser, held, causes, dropped, bounds>>

LoginArrives(c) ==
  /\ pc[c] = "granted"
  /\ jar' = held[c] /\ access' = TRUE /\ status' = TRUE
  /\ at' = [at EXCEPT ![c] = "dashboard"]
  /\ held' = [held EXCEPT ![c] = NoToken]
  /\ Enters(c, "idle")
  /\ UNCHANGED <<table, causes, dropped, bounds>>

(* The login page goes to the dashboard when the flag is set, and the      *)
(* dashboard layout goes to the login page when it is not.                 *)
Open(c) ==
  /\ pc[c] = "idle"
  /\ at' = [at EXCEPT ![c] = IF status THEN "dashboard" ELSE "login"]
  /\ UNCHANGED <<table, jar, access, status, pc, held, history, bounds>>

-----------------------------------------------------------------------------
(* An API call (request in api.ts) and the check of its access token       *)
(* (get_current_principal_from_token).                                     *)

CallSend(c) ==
  /\ pc[c] = "idle" /\ at[c] = "dashboard"
  /\ calls < MaxCalls
  /\ calls' = calls + 1
  /\ Enters(c, IF access THEN "fetching" ELSE "bare")
  /\ UNCHANGED <<table, browser, held, causes, dropped, logins, failures>>

(* The access token is checked by itself: signing out does not revoke it,  *)
(* but it may expire on the way.  Without one the call may still be        *)
(* answered 429 by the limiter, which comes first.                         *)
CallAnswered(c) ==
  /\ pc[c] \in {"fetching", "bare"}
  /\ Enters(c, "idle") \/ Enters(c, "unauthorized")
  /\ UNCHANGED <<table, browser, held, causes, dropped, bounds>>

(* refreshAccessToken: every call that was answered 401 refreshes, whether *)
(* or not another one is doing so.                                         *)
RefreshSend(c) ==
  /\ pc[c] = "unauthorized"
  /\ held' = [held EXCEPT ![c] = jar]
  /\ raced' = (raced \/ \E d \in Tab \ {c} : pc[d] \in RefreshInFlight)
  /\ Enters(c, "refreshing")
  /\ UNCHANGED <<table, browser, signedOut, dropped, bounds>>

(* Mutant: is_valid is not looked at.                                      *)
RefreshReadAnyRow(c) ==
  /\ pc[c] = "refreshing"
  /\ Enters(c, CASE held[c] = NoToken -> "refused"
                 [] held[c] # NoToken /\ held[c] \in expired -> "refused"
                 [] OTHER -> "rotating")
  /\ UNCHANGED <<table, browser, held, causes, dropped, bounds>>

(* refresh_access_token reads the row of the token it was sent.            *)
RefreshRead(c) ==
  /\ pc[c] = "refreshing"
  /\ Enters(c, CASE held[c] = NoToken -> "refused"
                 [] held[c] # NoToken /\ held[c] \notin valid -> "revoking"
                 [] held[c] \in valid /\ held[c] \in expired -> "refused"
                 [] OTHER -> "rotating")
  /\ UNCHANGED <<table, browser, held, causes, dropped, bounds>>

(* The refresh is refused for a reason that is not its token: the limiter  *)
(* answers 429 before the handler runs, or the handler raises before its   *)
(* commit, 500.                                                            *)
RefreshRejected(c) ==
  /\ failures < MaxFailures /\ failures' = failures + 1
  /\ pc[c] \in {"refreshing", "rotating", "revoking"}
  /\ Enters(c, "refused")
  /\ UNCHANGED <<table, browser, held, causes, dropped, logins, calls>>

(* A token that was used before: every token of its family is revoked.     *)
RevokeFamily(c) ==
  /\ pc[c] = "revoking"
  /\ valid' = valid \ FamilyOf(held[c])
  /\ Enters(c, "refused")
  /\ UNCHANGED <<issued, family, expired, browser, held, causes, dropped, bounds>>

(* Mutant: the token that was used stays valid.                            *)
RotateKeeping(c) ==
  /\ pc[c] = "rotating"
  /\ issued' = issued + 1
  /\ family' = [family EXCEPT ![issued + 1] = family[held[c]]]
  /\ valid' = valid \cup {issued + 1}
  /\ held' = [held EXCEPT ![c] = issued + 1]
  /\ Enters(c, "rotated")
  /\ UNCHANGED <<expired, browser, causes, dropped, bounds>>

(* The rotation: the row read as valid becomes invalid and a new token of  *)
(* the same family is inserted.                                            *)
Rotate(c) ==
  /\ pc[c] = "rotating"
  /\ issued' = issued + 1
  /\ family' = [family EXCEPT ![issued + 1] = family[held[c]]]
  /\ valid' = (valid \ {held[c]}) \cup {issued + 1}
  /\ held' = [held EXCEPT ![c] = issued + 1]
  /\ Enters(c, "rotated")
  /\ UNCHANGED <<expired, browser, causes, dropped, bounds>>

(* Mutant: the answer sets the access cookie only.                         *)
RefreshArrivesHalf(c) ==
  /\ pc[c] = "rotated"
  /\ access' = TRUE
  /\ held' = [held EXCEPT ![c] = NoToken]
  /\ Enters(c, "retrying")
  /\ UNCHANGED <<table, jar, status, at, causes, dropped, bounds>>

RefreshArrives(c) ==
  /\ pc[c] = "rotated"
  /\ jar' = held[c] /\ access' = TRUE
  /\ held' = [held EXCEPT ![c] = NoToken]
  /\ Enters(c, "retrying")
  /\ UNCHANGED <<table, status, at, causes, dropped, bounds>>

(* Mutant: a failed refresh is tried again.                                *)
RefreshFailsRetry(c) ==
  /\ pc[c] = "refused"
  /\ held' = [held EXCEPT ![c] = NoToken]
  /\ Enters(c, "unauthorized")
  /\ UNCHANGED <<table, browser, causes, dropped, bounds>>

(* The flag is removed and the tab goes to the login page.                 *)
RefreshFails(c) ==
  /\ pc[c] = "refused"
  /\ status' = FALSE /\ at' = [at EXCEPT ![c] = "login"]
  /\ dropped' = TRUE
  /\ held' = [held EXCEPT ![c] = NoToken]
  /\ Enters(c, "idle")
  /\ UNCHANGED <<table, jar, access, causes, bounds>>

(* The call is repeated once; its answer is final, whatever it is.         *)
RetryAnswered(c) ==
  /\ pc[c] = "retrying"
  /\ Enters(c, "idle")
  /\ UNCHANGED <<table, browser, held, causes, dropped, bounds>>

-----------------------------------------------------------------------------
(* Signing out (api.logout, logout).                                       *)

LogoutSend(c) ==
  /\ pc[c] = "idle" /\ at[c] = "dashboard"
  /\ held' = [held EXCEPT ![c] = jar]
  /\ signedOut' = TRUE
  /\ Enters(c, "leaving")
  /\ UNCHANGED <<table, browser, raced, dropped, bounds>>

LogoutCommit(c) ==
  /\ pc[c] = "leaving"
  /\ valid' = valid \ {held[c]}
  /\ Enters(c, "left")
  /\ UNCHANGED <<issued, family, expired, browser, held, causes, dropped, bounds>>

LogoutArrives(c) ==
  /\ pc[c] = "left"
  /\ jar' = NoToken /\ access' = FALSE /\ status' = FALSE
  /\ at' = [at EXCEPT ![c] = "login"]
  /\ held' = [held EXCEPT ![c] = NoToken]
  /\ Enters(c, "idle")
  /\ UNCHANGED <<table, causes, dropped, bounds>>

(* Signing out is answered 429 or 500: api.logout does not look at the     *)
(* answer, and the token and the cookies stay.                             *)
LogoutRejected(c) ==
  /\ failures < MaxFailures /\ failures' = failures + 1
  /\ pc[c] = "leaving"
  /\ status' = FALSE /\ at' = [at EXCEPT ![c] = "login"]
  /\ held' = [held EXCEPT ![c] = NoToken]
  /\ Enters(c, "idle")
  /\ UNCHANGED <<table, jar, access, causes, dropped, logins, calls>>

-----------------------------------------------------------------------------
(* The environment.                                                        *)

(* A request or an answer is lost and fetch rejects: a sign-in and a call  *)
(* end with an error, a refresh counts as failed, and signing out goes on  *)
(* in the browser.                                                         *)
Lose(c) ==
  /\ failures < MaxFailures /\ failures' = failures + 1
  /\ pc[c] \notin {"idle", "unauthorized", "rotating", "revoking"}
  /\ IF pc[c] \in {"refreshing", "rotated", "refused", "leaving", "left"}
     THEN status' = FALSE /\ at' = [at EXCEPT ![c] = "login"]
     ELSE UNCHANGED <<status, at>>
  /\ dropped' = (dropped \/ pc[c] \in RefreshInFlight)
  /\ held' = [held EXCEPT ![c] = NoToken]
  /\ Enters(c, "idle")
  /\ UNCHANGED <<table, jar, access, causes, logins, calls>>

(* The access token expires, and with it its cookie.                       *)
AccessExpires ==
  /\ access /\ access' = FALSE
  /\ UNCHANGED <<table, jar, status, at, pc, held, history, bounds>>

(* The refresh tokens expire, the oldest first.                            *)
RefreshExpires ==
  \E t \in 1 .. issued :
    /\ expired = 1 .. t - 1
    /\ expired' = expired \cup {t}
    /\ UNCHANGED <<issued, family, valid, browser, pc, held, history, bounds>>

(* What goes on by itself once a request is sent.                          *)
InFlight(c) ==
  \/ LoginCommit(c) \/ LoginRefused(c) \/ LoginArrives(c)
  \/ CallAnswered(c) \/ RefreshSend(c) \/ RefreshRead(c) \/ RevokeFamily(c) \/ Rotate(c)
  \/ RefreshArrives(c) \/ RefreshFails(c) \/ RetryAnswered(c)
  \/ LogoutCommit(c) \/ LogoutArrives(c)

Next ==
  \/ \E c \in Tab : InFlight(c)
  \/ \E c \in Tab : LoginSend(c) \/ Open(c) \/ CallSend(c) \/ LogoutSend(c)
  \/ \E c \in Tab : Lose(c) \/ RefreshRejected(c) \/ LogoutRejected(c)
  \/ AccessExpires
  \/ RefreshExpires

(* The server answers what it is sent and the browser runs what arrives.   *)
Spec == Init /\ [][Next]_vars /\ \A c \in Tab : WF_vars(InFlight(c))

-----------------------------------------------------------------------------
(* Properties.                                                             *)

TypeOK ==
  /\ issued \in 0 .. MaxLogins + MaxCalls
  /\ family \in [Token -> Token \cup {NoToken}]
  /\ valid \subseteq 1 .. issued /\ expired \subseteq 1 .. issued
  /\ jar \in 0 .. issued
  /\ access \in BOOLEAN /\ status \in BOOLEAN
  /\ at \in [Tab -> {"login", "dashboard"}]
  /\ pc \in [Tab -> ProgramCounter]
  /\ held \in [Tab -> 0 .. issued]
  /\ overlap \in BOOLEAN /\ signedOut \in BOOLEAN /\ raced \in BOOLEAN
  /\ dropped \in BOOLEAN
  /\ logins \in 0 .. MaxLogins /\ calls \in 0 .. MaxCalls /\ failures \in 0 .. MaxFailures

(* Rotation never signs a user out by itself: refreshAccessToken fails     *)
(* only after a sign-out, a lost request, the expiry of a refresh token, a *)
(* refresh that was answered 429 or 500, or two refreshes in flight at     *)
(* once (two calls answered 401 both refresh, and the second one is taken  *)
(* for the reuse of a token).  Sign-ins and calls beside a single refresh  *)
(* do no harm.                                                             *)
SessionLostForAReason ==
  dropped => signedOut \/ failures > 0 \/ expired # {} \/ raced

(* As long as session requests do not overlap, a family has at most one    *)
(* valid token, whatever answers are lost: rotation replaces, it does not  *)
(* add.                                                                    *)
SingleLiveToken ==
  ~overlap => \A t, u \in valid : family[t] = family[u] => t = u

(* A family without a valid token and without a rotation in flight never   *)
(* has a valid token again: signing out and the detection of a reused      *)
(* token are final for every request that has not read its row yet.        *)
Dead(f) ==
  /\ \A t \in valid : family[t] # f
  /\ \A c \in Tab : pc[c] = "rotating" => family[held[c]] # f

DeadFamilyStaysDead == [][\A t \in 1 .. issued : Dead(family[t]) => Dead(family[t])']_vars

(* Every call ends, with a result, an error or the login page: one refresh *)
(* and one repetition at most, however tokens expire and refreshes fail.   *)
CallEnds == \A c \in Tab : pc[c] \in {"fetching", "bare"} ~> pc[c] = "idle"

=============================================================================
