------------------------------ MODULE Sessions -------------------------------
(***************************************************************************)
(* Sessions between the console and the API: rotating refresh tokens       *)
(* (modules/identity/auth.service.ts), what ends the sessions of a user    *)
(* (users.service.ts), and the token store of the console with its single  *)
(* refresh in flight (apps/web/lib/api.ts, auth-context.tsx).              *)
(*                                                                         *)
(* A sign-in is read, verify, reset and issue, and a refresh is read,      *)
(* issue and revoke, statements with no transaction around them; an end of *)
(* sessions may come between any two.                                      *)
(* The access token is abstracted to the user it stands for: it may expire *)
(* at any time, upon which some request of the tab is answered 401.        *)
(***************************************************************************)
EXTENDS FiniteSets, Naturals

CONSTANTS
  Users,
  Tabs,          \* pages of the console, each with its own sessionStorage
  Tokens,        \* refresh_tokens rows, in use or not yet created
  Calls,         \* POST auth/refresh requests being served
  MaxFailed,     \* auth.maxFailedAttempts
  MaxReloads,    \* bound on the page reloads explored
  None

ASSUME SessionsAssumption ==
  /\ MaxFailed \in Nat \ {0} /\ MaxReloads \in Nat
  /\ None \notin Users \cup Tokens \cup Calls

VARIABLES
  user,      \* users: status, failedLoginAttempts, whether locked
  token,     \* refresh_tokens: user, family, revokedReason
  login,     \* what the sign-in of each tab has read and does next
  call,      \* what each refresh request has read and does next
  tab,       \* tokenStore, the user on the screen, refreshInFlight
  reloads,
  forked,    \* history: families in which two refreshes may each leave a live token
  ended,     \* history: families whose sessions were ended
  excused    \* history: those with a refresh past its check at that moment

vars == <<user, token, login, call, tab, reloads, forked, ended, excused>>

Absent == [user |-> None, family |-> None, revoked |-> "ABSENT"]
Live == "NO"
Reason == {"ROTATED", "REUSE_DETECTED", "USER_INACTIVE", "LOGOUT", "ENDED"}
Idle == [at |-> "idle", token |-> None, fresh |-> None]
NoLogin == [at |-> "idle", user |-> None, fails |-> 0]
SignedOut == [access |-> None, refresh |-> None, shown |-> None, flight |-> None]

TypeOK ==
  /\ user \in [Users -> [active : BOOLEAN, fails : 0..MaxFailed, locked : BOOLEAN]]
  /\ token \in [Tokens -> [user : Users \cup {None}, family : Tokens \cup {None},
                           revoked : Reason \cup {Live, "ABSENT"}]]
  /\ login \in [Tabs -> {NoLogin} \cup [at : {"wrong", "right", "known"}, user : Users,
                                       fails : 0..MaxFailed]]
  /\ call \in [Calls -> [at : {"idle", "sent", "checked", "issued", "ok", "refused"},
                         token : Tokens \cup {None}, fresh : Tokens \cup {None}]]
  /\ tab \in [Tabs -> [access : Users \cup {None}, refresh : Tokens \cup {None},
                       shown : Users \cup {None}, flight : Calls \cup {None}]]
  /\ reloads \in 0..MaxReloads
  /\ forked \subseteq Tokens /\ ended \subseteq Tokens /\ excused \subseteq Tokens

Init ==
  /\ user = [u \in Users |-> [active |-> TRUE, fails |-> 0, locked |-> FALSE]]
  /\ token = [t \in Tokens |-> Absent]
  /\ login = [b \in Tabs |-> NoLogin]
  /\ call = [c \in Calls |-> Idle]
  /\ tab = [b \in Tabs |-> SignedOut]
  /\ reloads = 0
  /\ forked = {} /\ ended = {} /\ excused = {}

------------------------------------------------------------------------------
(* Signing in                                                              *)

(* login: the account is read, and what was read decides.  A right         *)
(* password for an account that is not active changes nothing.             *)
Submit(b, u, right) ==
  /\ tab[b].shown = None /\ login[b] = NoLogin
  /\ ~user[u].locked /\ (right => user[u].active)
  /\ login' = [login EXCEPT ![b] =
                 IF right THEN [at |-> "right", user |-> u, fails |-> 0]
                          ELSE [at |-> "wrong", user |-> u, fails |-> user[u].fails]]
  /\ UNCHANGED <<user, token, call, tab, reloads, forked, ended, excused>>

(* registerFailure counts on from what was read; the lock is a moment in   *)
(* time, and passes, while the count stays.                                *)
BadPassword(b) ==
  /\ login[b].at = "wrong"
  /\ LET u == login[b].user
         n == IF login[b].fails < MaxFailed THEN login[b].fails + 1 ELSE MaxFailed
     IN user' = [user EXCEPT ![u].fails = n, ![u].locked = @ \/ n >= MaxFailed]
  /\ login' = [login EXCEPT ![b] = NoLogin]
  /\ UNCHANGED <<token, call, tab, reloads, forked, ended, excused>>

(* A right password sets the count back, by the row that was read.         *)
Recognise(b) ==
  /\ login[b].at = "right"
  /\ user' = [user EXCEPT ![login[b].user].fails = 0, ![login[b].user].locked = FALSE]
  /\ login' = [login EXCEPT ![b].at = "known"]
  /\ UNCHANGED <<token, call, tab, reloads, forked, ended, excused>>

(* issueTokens and signIn: a new family, whatever became of the account    *)
(* since.  refreshInFlight is the page's, and outlives the session it was  *)
(* started for.                                                            *)
SignIn(b, t) ==
  /\ login[b].at = "known"
  /\ token[t] = Absent
  /\ LET u == login[b].user IN
       /\ token' = [token EXCEPT ![t] = [user |-> u, family |-> t, revoked |-> Live]]
       /\ tab' = [tab EXCEPT ![b] = [@ EXCEPT !.access = u, !.refresh = t, !.shown = u]]
  /\ login' = [login EXCEPT ![b] = NoLogin]
  /\ UNCHANGED <<user, call, reloads, forked, ended, excused>>

LockPasses(u) ==
  /\ user[u].locked
  /\ user' = [user EXCEPT ![u].locked = FALSE]
  /\ UNCHANGED <<token, login, call, tab, reloads, forked, ended, excused>>

------------------------------------------------------------------------------
(* Ending sessions                                                         *)

(* Revocation touches only what is not revoked already.                    *)
Revoked(ts, reason) ==
  [t \in Tokens |-> IF t \in ts /\ token[t].revoked = Live
                    THEN [token[t] EXCEPT !.revoked = reason] ELSE token[t]]

Family_Presented(t) == {t}     \* mutant: revokes the one token

Family(t) == {s \in Tokens : token[s].family = token[t].family}

(* Refreshes whose check has passed will still issue a token.              *)
Passed(families) ==
  {f \in families : \E c \in Calls :
     call[c].at = "checked" /\ token[call[c].token].family = f}

End(families) ==
  /\ ended' = ended \cup families
  /\ excused' = excused \cup Passed(families)

SessionsOf(u) == {t \in Tokens : token[t].user = u}

(* setRoles, resetPassword, changePassword and logout without a token end  *)
(* every session of the user, ...                                          *)
EndAll(u) ==
  /\ \E t \in SessionsOf(u) : token[t].revoked = Live
  /\ token' = Revoked(SessionsOf(u), "ENDED")
  /\ End({token[t].family : t \in SessionsOf(u)})
  /\ \/ user' = [user EXCEPT ![u].fails = 0, ![u].locked = FALSE]    \* resetPassword
     \/ UNCHANGED user
  /\ UNCHANGED <<login, call, tab, reloads, forked>>

(* ... and so does setStatus, which also bars the account.                 *)
Suspend(u) ==
  /\ user[u].active
  /\ user' = [user EXCEPT ![u].active = FALSE]
  /\ token' = Revoked(SessionsOf(u), "ENDED")
  /\ End({token[t].family : t \in SessionsOf(u)})
  /\ UNCHANGED <<login, call, tab, reloads, forked>>

Activate(u) ==
  /\ ~user[u].active
  /\ user' = [user EXCEPT ![u] = [active |-> TRUE, fails |-> 0, locked |-> FALSE]]
  /\ UNCHANGED <<token, login, call, tab, reloads, forked, ended, excused>>

(* signOut: the call may be lost; the page forgets the session anyway.     *)
SignOut(b) ==
  /\ tab[b].shown # None
  /\ tab' = [tab EXCEPT ![b] = [SignedOut EXCEPT !.flight = tab[b].flight]]
  /\ IF tab[b].refresh = None
     THEN UNCHANGED <<token, ended, excused>>
     ELSE \/ /\ token' = Revoked(Family(tab[b].refresh), "LOGOUT")
             /\ End({token[tab[b].refresh].family})
          \/ UNCHANGED <<token, ended, excused>>
  /\ UNCHANGED <<user, login, call, reloads, forked>>

------------------------------------------------------------------------------
(* Refreshing                                                              *)

MayRefresh_Each(b) == TRUE      \* mutant: every 401 refreshes for itself

(* refreshOnce: a refresh in flight is shared.                             *)
MayRefresh(b) == tab[b].flight = None

(* A request of the tab is answered 401, and the refresh token is sent.    *)
Unauthorized(b, c) ==
  /\ tab[b].refresh # None
  /\ MayRefresh(b)
  /\ call[c] = Idle
  /\ call' = [call EXCEPT ![c] = [Idle EXCEPT !.at = "sent", !.token = tab[b].refresh]]
  /\ tab' = [tab EXCEPT ![b].flight = c]
  /\ UNCHANGED <<user, token, login, reloads, forked, ended, excused>>

(* The refreshes of a family that will still issue a token or revoke one.  *)
PastCheck(f) == {c \in Calls : /\ call[c].at \in {"checked", "issued"}
                               /\ token[call[c].token].family = f}

(* refresh: a revoked token ends its family, and so does a barred account. *)
(* Nothing holds the token that was found valid: another refresh may have  *)
(* found the same.                                                         *)
Check(c) ==
  /\ call[c].at = "sent"
  /\ LET t == call[c].token IN
       IF token[t].revoked = Live /\ user[token[t].user].active
       THEN /\ call' = [call EXCEPT ![c].at = "checked"]
            /\ forked' = IF PastCheck(token[t].family) = {} THEN forked
                         ELSE forked \cup {token[t].family}
            /\ UNCHANGED <<token, ended, excused>>
       ELSE /\ call' = [call EXCEPT ![c].at = "refused"]
            /\ token' = Revoked(Family(t), IF token[t].revoked = Live
                                           THEN "USER_INACTIVE" ELSE "REUSE_DETECTED")
            /\ End({token[t].family})
            /\ UNCHANGED forked
  /\ UNCHANGED <<user, login, tab, reloads>>

(* issueTokens in the same family, ...                                     *)
Issue(c, t) ==
  /\ call[c].at = "checked"
  /\ token[t] = Absent
  /\ token' = [token EXCEPT ![t] = [token[call[c].token] EXCEPT !.revoked = Live]]
  /\ call' = [call EXCEPT ![c].at = "issued", ![c].fresh = t]
  /\ UNCHANGED <<user, login, tab, reloads, forked, ended, excused>>

(* ... then the presented token is revoked, whatever became of it since.   *)
Retired_Not(t) == token          \* mutant: the presented token stays valid

Retired(t) == [token EXCEPT ![t].revoked = "ROTATED"]

Rotate(c) ==
  /\ call[c].at = "issued"
  /\ token' = Retired(call[c].token)
  /\ call' = [call EXCEPT ![c].at = "ok"]
  /\ UNCHANGED <<user, login, tab, reloads, forked, ended, excused>>

(* performRefresh stores the new tokens, ...                               *)
Renewed(b) ==
  /\ tab[b].flight # None /\ call[tab[b].flight].at = "ok"
  /\ LET t == call[tab[b].flight].fresh IN
       tab' = [tab EXCEPT ![b] = [@ EXCEPT !.access = token[t].user, !.refresh = t,
                                           !.flight = None]]
  /\ call' = [call EXCEPT ![tab[b].flight] = Idle]
  /\ UNCHANGED <<user, token, login, reloads, forked, ended, excused>>

(* ... or, refused or without an answer, clears the store, and the page    *)
(* is told that its session has expired.  The server may go on.            *)
Expired(b) ==
  /\ tab[b].flight # None
  /\ call' = [call EXCEPT ![tab[b].flight] =
                IF @.at \in {"refused", "ok", "idle"} THEN Idle ELSE @]
  /\ tab' = [tab EXCEPT ![b] = SignedOut]
  /\ UNCHANGED <<user, token, login, reloads, forked, ended, excused>>

(* A request that nobody waits for any more ends.                          *)
Unheard(c) ==
  /\ call[c].at \in {"ok", "refused"}
  /\ \A b \in Tabs : tab[b].flight # c
  /\ call' = [call EXCEPT ![c] = Idle]
  /\ UNCHANGED <<user, token, login, tab, reloads, forked, ended, excused>>

(* The page is loaded again: what was in flight is forgotten, the store is *)
(* read back from sessionStorage and the user fetched (restore).  Bound:   *)
(* not while a sign-in is under way.                                       *)
Reload(b) ==
  /\ reloads < MaxReloads /\ login[b] = NoLogin
  /\ reloads' = reloads + 1
  /\ tab' = [tab EXCEPT ![b] = [@ EXCEPT !.flight = None, !.shown = tab[b].access]]
  /\ UNCHANGED <<user, token, login, call, forked, ended, excused>>

(* The API process dies between two statements.                            *)
Crash(c) ==
  /\ call[c].at \in {"checked", "issued"}
  /\ forked' = IF call[c].at = "checked" THEN forked
               ELSE forked \cup {token[call[c].token].family}
  /\ call' = [call EXCEPT ![c] = [Idle EXCEPT !.at = "refused"]]
  /\ UNCHANGED <<user, token, login, tab, reloads, ended, excused>>

------------------------------------------------------------------------------
Next ==
  \/ \E b \in Tabs, u \in Users, right \in BOOLEAN : Submit(b, u, right)
  \/ \E b \in Tabs : BadPassword(b) \/ Recognise(b)
  \/ \E b \in Tabs, t \in Tokens : SignIn(b, t)
  \/ \E u \in Users : LockPasses(u) \/ EndAll(u) \/ Suspend(u) \/ Activate(u)
  \/ \E b \in Tabs : SignOut(b) \/ Renewed(b) \/ Expired(b) \/ Reload(b)
  \/ \E b \in Tabs, c \in Calls : Unauthorized(b, c)
  \/ \E c \in Calls : Check(c) \/ Rotate(c) \/ Unheard(c) \/ Crash(c)
  \/ \E c \in Calls, t \in Tokens : Issue(c, t)

Spec == Init /\ [][Next]_vars

------------------------------------------------------------------------------
(* A console that is not reloaded never presents a token that it has       *)
(* already exchanged, so rotation is not taken for theft, however many     *)
(* requests find the session expired at once (refreshOnce).                *)
NeverSpentTwice ==
  reloads = 0 => \A c \in Calls :
    call[c].at = "sent" => token[call[c].token].revoked # "ROTATED"

(* A family has one token that can still be exchanged, but for the moment  *)
(* between issuing the next and revoking the last (refresh); unless two of *)
(* its refreshes were past their checks at once, or one died in that very  *)
(* moment.  Page loads, lost answers, other crashes, and the end of the   *)
(* sessions while a refresh is under way leave no second one.              *)
LiveIn(f) == {t \in Tokens : token[t].family = f /\ token[t].revoked = Live}

OneLiveToken ==
  \A f \in Tokens \ forked :
    Cardinality(LiveIn(f)) <=
      1 + Cardinality({c \in Calls : call[c].at = "issued" /\ token[call[c].token].family = f})

(* A session that was ended - signed out, password or roles changed,       *)
(* account suspended, a token presented twice - has no live token left,    *)
(* unless a refresh was past its check at that very moment                 *)
(* (revokeFamily, changePassword, setRoles, setStatus, resetPassword).     *)
EndedStaysEnded ==
  \A t \in Tokens : token[t].revoked = Live /\ token[t].family \in ended
                      => token[t].family \in excused
===============================================================================
