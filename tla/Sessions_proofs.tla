--------------------------- MODULE Sessions_proofs ----------------------------
(***************************************************************************)
(* Theorems about Sessions, for every set of users, tabs, tokens and       *)
(* refresh requests, and every bound.                                      *)
(***************************************************************************)
EXTENDS Sessions, FiniteSetTheorems, TLAPS

------------------------------------------------------------------------------
(* Types, and what refers to what                                          *)

UserRow == [active : BOOLEAN, fails : 0..MaxFailed, locked : BOOLEAN]
TokenRow == [user : Users \cup {None}, family : Tokens \cup {None},
             revoked : Reason \cup {Live, "ABSENT"}]
CallRow == [at : {"idle", "sent", "checked", "issued", "ok", "refused"},
            token : Tokens \cup {None}, fresh : Tokens \cup {None}]
TabRow == [access : Users \cup {None}, refresh : Tokens \cup {None},
           shown : Users \cup {None}, flight : Calls \cup {None}]

LoginRow == {NoLogin} \cup [at : {"wrong", "right", "known"}, user : Users, fails : 0..MaxFailed]

Exists(t) == t \in Tokens /\ token[t] # Absent
Fam(t) == token[t].family

(* A token belongs to the user whose sign-in began its family. *)
RowRefs(t) ==
  token[t] # Absent =>
    /\ token[t].revoked # "ABSENT"
    /\ token[t].user \in Users
    /\ Exists(Fam(t)) /\ token[Fam(t)].user = token[t].user

(* A refresh request works on a token that exists, and issues another one  *)
(* of the same family.                                                     *)
CallRefs(c) ==
  /\ call[c].at \in {"sent", "checked", "issued", "ok"} => Exists(call[c].token)
  /\ call[c].at \in {"issued", "ok"} =>
       /\ Exists(call[c].fresh) /\ call[c].fresh # call[c].token
       /\ Fam(call[c].fresh) = Fam(call[c].token)

TabRefs(b) == tab[b].refresh # None => Exists(tab[b].refresh)

Refs ==
  /\ \A t \in Tokens : RowRefs(t)
  /\ \A c \in Calls : CallRefs(c)
  /\ \A b \in Tabs : TabRefs(b)

Sound == TypeOK /\ Refs

LEMMA Types ==
  ASSUME Sound
  PROVE  /\ user \in [Users -> UserRow] /\ token \in [Tokens -> TokenRow]
         /\ call \in [Calls -> CallRow] /\ tab \in [Tabs -> TabRow]
         /\ login \in [Tabs -> LoginRow]
         /\ reloads \in Nat /\ forked \subseteq Tokens
         /\ ended \subseteq Tokens /\ excused \subseteq Tokens
  BY SessionsAssumption DEF Sound, TypeOK, UserRow, TokenRow, CallRow, TabRow, LoginRow

(* Tokens are issued and revoked, never deleted. *)
Keeps ==
  \A t \in Tokens : token[t] # Absent =>
    /\ token'[t] # Absent /\ token'[t].revoked # "ABSENT"
    /\ token'[t].user = token[t].user /\ token'[t].family = token[t].family

(* Nothing becomes live but what a step issues. *)
NoneLive == \A t \in Tokens : token'[t].revoked = Live => token'[t] = token[t]

LEMMA RevokedKeeps ==
  ASSUME Sound, NEW ts, NEW reason \in Reason, token' = Revoked(ts, reason)
  PROVE  /\ token' \in [Tokens -> TokenRow] /\ Keeps /\ NoneLive
         /\ \A t \in Tokens : token[t] = Absent => token'[t] = Absent
         /\ \A t \in Tokens : token'[t].revoked = "ROTATED" /\ reason # "ROTATED"
                                => token[t].revoked = "ROTATED"
         /\ \A t \in Tokens : t \in ts => token'[t].revoked # Live
<1> USE DEF TokenRow, Reason, Live
<1>1. \A t \in Tokens : token[t] \in TokenRow /\ token'[t] \in TokenRow
  BY Types DEF Revoked
<1>2. \A t \in Tokens : token'[t] = token[t] \/
        (token[t].revoked = Live /\ token'[t] = [token[t] EXCEPT !.revoked = reason])
  BY DEF Revoked
<1>3. \A t \in Tokens : token[t] # Absent => token[t].revoked # "ABSENT"
  BY DEF Sound, Refs, RowRefs
<1>4. token' \in [Tokens -> TokenRow]
  BY <1>1 DEF Revoked
<1>5. Keeps
  <2> SUFFICES ASSUME NEW t \in Tokens, token[t] # Absent
               PROVE  /\ token'[t] # Absent /\ token'[t].revoked # "ABSENT"
                      /\ token'[t].user = token[t].user /\ token'[t].family = token[t].family
    BY DEF Keeps
  <2>1. /\ token'[t].revoked # "ABSENT"
        /\ token'[t].user = token[t].user /\ token'[t].family = token[t].family
    BY <1>1, <1>2, <1>3
  <2> QED BY <2>1 DEF Absent
<1>6. NoneLive
  BY <1>1, <1>2 DEF NoneLive
<1>7. \A t \in Tokens : token[t] = Absent => token'[t] = Absent
  <2>1. Absent.revoked # Live
    BY DEF Absent
  <2> QED BY <1>2, <2>1
<1>8. \A t \in Tokens : token'[t].revoked = "ROTATED" /\ reason # "ROTATED"
                          => token[t].revoked = "ROTATED"
  BY <1>1, <1>2
<1>9. \A t \in Tokens : t \in ts => token'[t].revoked # Live
  BY <1>1 DEF Revoked
<1> QED BY <1>4, <1>5, <1>6, <1>7, <1>8, <1>9

(* A step on kept tokens, which may add one. *)
LEMMA SoundStep ==
  ASSUME Sound, Keeps,
         user' \in [Users -> UserRow], token' \in [Tokens -> TokenRow],
         call' \in [Calls -> CallRow], tab' \in [Tabs -> TabRow], login' \in [Tabs -> LoginRow],
         reloads' \in 0..MaxReloads, forked' \subseteq Tokens,
         ended' \subseteq Tokens, excused' \subseteq Tokens,
         \A t \in Tokens : token[t] = Absent => RowRefs(t)',
         \A c \in Calls : call'[c] = call[c] \/ CallRefs(c)',
         \A b \in Tabs : tab'[b].refresh = tab[b].refresh \/ TabRefs(b)'
  PROVE  Sound'
<1>1. TypeOK'
  BY DEF TypeOK, UserRow, TokenRow, CallRow, TabRow, LoginRow
<1>2. \A t : Exists(t) => Exists(t)' /\ Fam(t)' = Fam(t)
  BY DEF Exists, Keeps, Fam, Absent
<1>3. \A t \in Tokens : RowRefs(t)'
  <2> SUFFICES ASSUME NEW t \in Tokens, token[t] # Absent PROVE RowRefs(t)'
    OBVIOUS
  <2>1. RowRefs(t)
    BY DEF Sound, Refs
  <2>2. Exists(t) /\ Exists(Fam(t))
    BY <2>1 DEF RowRefs, Exists
  <2> QED BY <1>2, <2>1, <2>2 DEF RowRefs, Keeps, Exists
<1>4. \A c \in Calls : CallRefs(c)'
  <2> SUFFICES ASSUME NEW c \in Calls, call'[c] = call[c] PROVE CallRefs(c)'
    OBVIOUS
  <2>1. CallRefs(c)
    BY DEF Sound, Refs
  <2> QED BY <1>2, <2>1 DEF CallRefs
<1>5. \A b \in Tabs : TabRefs(b)'
  <2> SUFFICES ASSUME NEW b \in Tabs, tab'[b].refresh = tab[b].refresh PROVE TabRefs(b)'
    OBVIOUS
  <2>1. TabRefs(b)
    BY DEF Sound, Refs
  <2> QED BY <1>2, <2>1 DEF TabRefs
<1> QED BY <1>1, <1>3, <1>4, <1>5 DEF Sound, Refs

(* ... and one that adds no token and leaves the histories alone. *)
LEMMA QuietStep ==
  ASSUME Sound, UNCHANGED <<token, ended, excused>>,
         user' \in [Users -> UserRow],
         call' \in [Calls -> CallRow], tab' \in [Tabs -> TabRow], login' \in [Tabs -> LoginRow],
         reloads' \in 0..MaxReloads, forked' \subseteq Tokens,
         \A c \in Calls : call'[c] = call[c] \/ CallRefs(c)',
         \A b \in Tabs : tab'[b].refresh = tab[b].refresh \/ TabRefs(b)'
  PROVE  Sound'
<1>1. Keeps
  BY DEF Keeps, Sound, Refs, RowRefs
<1>2. \A t \in Tokens : token[t] = Absent => RowRefs(t)'
  BY DEF RowRefs
<1> QED BY <1>1, <1>2, Types, SoundStep

(* Ending families is well typed, too. *)
LEMMA EndTypes ==
  ASSUME Sound, NEW families \in SUBSET Tokens, End(families)
  PROVE  ended' \subseteq Tokens /\ excused' \subseteq Tokens
  BY Types DEF End, Passed

LEMMA RevokingStep ==
  ASSUME Sound, NEW ts, NEW reason \in Reason, token' = Revoked(ts, reason),
         user' \in [Users -> UserRow],
         call' \in [Calls -> CallRow], tab' \in [Tabs -> TabRow], login' \in [Tabs -> LoginRow],
         UNCHANGED <<reloads, forked>>,
         ended' \subseteq Tokens, excused' \subseteq Tokens,
         \A c \in Calls : call'[c] = call[c] \/ CallRefs(c)',
         \A b \in Tabs : tab'[b].refresh = tab[b].refresh \/ TabRefs(b)'
  PROVE  Sound'
<1>1. token' \in [Tokens -> TokenRow] /\ Keeps
  BY RevokedKeeps
<1>2. \A t \in Tokens : token[t] = Absent => RowRefs(t)'
  BY RevokedKeeps DEF RowRefs, Absent
<1>3. reloads' \in 0..MaxReloads /\ forked' \subseteq Tokens
  BY DEF Sound, TypeOK
<1> QED BY <1>1, <1>2, <1>3, SoundStep

(* The sessions of a user are rows that exist, all of whole families. *)
LEMMA WholeFamilies ==
  ASSUME Sound, NEW u \in Users
  PROVE  /\ \A s \in SessionsOf(u) : Exists(s) /\ Exists(Fam(s))
         /\ \A s \in SessionsOf(u), t \in Tokens :
              token[t] # Absent /\ Fam(t) = Fam(s) => t \in SessionsOf(u)
<1>1. \A s \in SessionsOf(u) : s \in Tokens /\ token[s].user = u /\ token[s] # Absent
  BY SessionsAssumption DEF SessionsOf, Absent
<1>2. \A s \in SessionsOf(u) : Exists(s) /\ Exists(Fam(s)) /\ token[Fam(s)].user = u
  BY <1>1 DEF Sound, Refs, RowRefs, Exists
<1>3. ASSUME NEW s \in SessionsOf(u), NEW t \in Tokens, token[t] # Absent, Fam(t) = Fam(s)
      PROVE  t \in SessionsOf(u)
  <2>1. token[Fam(t)].user = token[t].user
    BY <1>3 DEF Sound, Refs, RowRefs
  <2> QED BY <1>2, <1>3, <2>1 DEF SessionsOf
<1> QED BY <1>2, <1>3

------------------------------------------------------------------------------
(* Types and references, one action at a time                              *)

(* What a sign-in under way has read. *)
LEMMA LoginTypes ==
  ASSUME Sound, NEW b \in Tabs, login[b].at # "idle"
  PROVE  login[b].user \in Users /\ login[b].fails \in 0..MaxFailed
<1>1. login[b] \in LoginRow
  BY Types
<1> QED BY <1>1 DEF LoginRow, NoLogin

LEMMA SignInSound ==
  ASSUME Sound, NEW b \in Tabs, NEW t \in Tokens, SignIn(b, t)
  PROVE  Sound'
<1>0. PICK u : u = login[b].user
  OBVIOUS
<1> DEFINE row == [user |-> u, family |-> t, revoked |-> Live]
<1>1. user' \in [Users -> UserRow] /\ login' \in [Tabs -> LoginRow]
  BY Types DEF SignIn, LoginRow
<1>2. row \in TokenRow /\ row # Absent /\ token[t] = Absent /\ u \in Users
  BY <1>0, LoginTypes DEF SignIn, TokenRow, Live, Absent
<1>3. token' = [token EXCEPT ![t] = row]
  BY <1>0 DEF SignIn
<1>4. token' \in [Tokens -> TokenRow] /\ token'[t] = row
      /\ \A s \in Tokens : s # t => token'[s] = token[s]
  <2> HIDE DEF row
  <2> QED BY Types, <1>2, <1>3
<1>5. tab' \in [Tabs -> TabRow] /\ \A d \in Tabs : tab'[d].refresh \in {tab[d].refresh, t}
  <2>1. [tab[b] EXCEPT !.access = u, !.refresh = t, !.shown = u] \in TabRow
        /\ [tab[b] EXCEPT !.access = u, !.refresh = t, !.shown = u].refresh = t
    <3>1. tab[b] \in TabRow
      BY Types
    <3> QED BY <1>2, <3>1 DEF TabRow
  <2>2. tab' = [tab EXCEPT ![b] = [tab[b] EXCEPT !.access = u, !.refresh = t, !.shown = u]]
    BY <1>0 DEF SignIn
  <2> QED BY <2>1, <2>2, Types
<1>6. Keeps
  BY <1>2, <1>4 DEF Keeps, Sound, Refs, RowRefs
<1>7. \A s \in Tokens : token[s] = Absent => RowRefs(s)'
  BY <1>2, <1>4 DEF RowRefs, Exists, Fam, Live
<1>8. \A d \in Tabs : tab'[d].refresh = tab[d].refresh \/ TabRefs(d)'
  BY <1>2, <1>4, <1>5 DEF TabRefs, Exists
<1>9. /\ call' \in [Calls -> CallRow] /\ \A c \in Calls : call'[c] = call[c]
      /\ reloads' \in 0..MaxReloads /\ forked' \subseteq Tokens
      /\ ended' \subseteq Tokens /\ excused' \subseteq Tokens
  BY Types DEF SignIn, Sound, TypeOK
<1> QED
  <2> HIDE DEF row
  <2> QED BY <1>1, <1>4, <1>5, <1>6, <1>7, <1>8, <1>9, SoundStep

(* The steps that only concern an account and who is signing in to it. *)
AccountStep ==
  \/ \E b \in Tabs, u \in Users, right \in BOOLEAN : Submit(b, u, right)
  \/ \E b \in Tabs : BadPassword(b) \/ Recognise(b)
  \/ \E u \in Users : LockPasses(u) \/ Activate(u)

LEMMA AccountSound ==
  ASSUME Sound, AccountStep
  PROVE  Sound'
<1>1. user' \in [Users -> UserRow] /\ login' \in [Tabs -> LoginRow]
  <2>1. ASSUME NEW b \in Tabs, BadPassword(b)
        PROVE  user' \in [Users -> UserRow] /\ login' \in [Tabs -> LoginRow]
    <3> DEFINE u == login[b].user
               n == IF login[b].fails < MaxFailed THEN login[b].fails + 1 ELSE MaxFailed
               barred == user[u].locked \/ n >= MaxFailed
    <3>1. u \in Users /\ login[b].fails \in 0..MaxFailed
      BY <2>1, LoginTypes DEF BadPassword
    <3>2. user[u] \in UserRow /\ n \in 0..MaxFailed
      BY <3>1, Types, SessionsAssumption
    <3>3. [user[u] EXCEPT !.fails = n, !.locked = barred] \in UserRow
      <4>1. barred \in BOOLEAN
        OBVIOUS
      <4> HIDE DEF n, u, barred
      <4> QED BY <3>2, <4>1 DEF UserRow
    <3>4. user' = [user EXCEPT ![u] = [user[u] EXCEPT !.fails = n, !.locked = barred]]
      BY <2>1, <3>1, Types DEF BadPassword
    <3>5. login' = [login EXCEPT ![b] = NoLogin]
      BY <2>1 DEF BadPassword
    <3> HIDE DEF n, u, barred
    <3> QED BY <3>3, <3>4, <3>5, Types DEF LoginRow
  <2>2. ASSUME NEW b \in Tabs, Recognise(b)
        PROVE  user' \in [Users -> UserRow] /\ login' \in [Tabs -> LoginRow]
    <3> DEFINE u == login[b].user
    <3>1. u \in Users /\ login[b] \in LoginRow \ {NoLogin}
      BY <2>2, Types, LoginTypes DEF Recognise, NoLogin
    <3>2. [login[b] EXCEPT !.at = "known"] \in LoginRow
      BY <3>1 DEF LoginRow
    <3>3. login' = [login EXCEPT ![b] = [login[b] EXCEPT !.at = "known"]]
      BY <2>2, Types DEF Recognise
    <3>4. [user[u] EXCEPT !.fails = 0, !.locked = FALSE] \in UserRow
      <4>1. user[u] \in UserRow /\ 0 \in 0..MaxFailed
        BY <3>1, Types, SessionsAssumption
      <4> QED BY <4>1 DEF UserRow
    <3>5. user' = [user EXCEPT ![u] = [user[u] EXCEPT !.fails = 0, !.locked = FALSE]]
      BY <2>2, <3>1, Types DEF Recognise
    <3> HIDE DEF u
    <3> QED BY <3>2, <3>3, <3>4, <3>5, Types
  <2>3. ASSUME NEW u \in Users, LockPasses(u) \/ Activate(u)
        PROVE  user' \in [Users -> UserRow] /\ login' \in [Tabs -> LoginRow]
    <3>1. user[u] \in UserRow /\ 0 \in 0..MaxFailed
      BY Types, SessionsAssumption
    <3>2. [active |-> TRUE, fails |-> 0, locked |-> FALSE] \in UserRow
          /\ [user[u] EXCEPT !.locked = FALSE] \in UserRow
      BY <3>1 DEF UserRow
    <3>3. user' = [user EXCEPT ![u] = [user[u] EXCEPT !.locked = FALSE]]
          \/ user' = [user EXCEPT ![u] = [active |-> TRUE, fails |-> 0, locked |-> FALSE]]
      BY <2>3, Types DEF LockPasses, Activate
    <3>4. UNCHANGED login
      BY <2>3 DEF LockPasses, Activate
    <3> QED BY <3>2, <3>3, <3>4, Types
  <2>4. ASSUME NEW b \in Tabs, NEW u \in Users, NEW right \in BOOLEAN, Submit(b, u, right)
        PROVE  user' \in [Users -> UserRow] /\ login' \in [Tabs -> LoginRow]
    <3> DEFINE row == IF right THEN [at |-> "right", user |-> u, fails |-> 0]
                               ELSE [at |-> "wrong", user |-> u, fails |-> user[u].fails]
    <3>1. user[u].fails \in 0..MaxFailed /\ 0 \in 0..MaxFailed
      BY Types, SessionsAssumption DEF UserRow
    <3>2. row \in LoginRow
      BY <3>1 DEF LoginRow
    <3>3. login' = [login EXCEPT ![b] = row] /\ UNCHANGED user
      BY <2>4 DEF Submit
    <3> HIDE DEF row
    <3> QED BY <3>2, <3>3, Types
  <2> QED BY <2>1, <2>2, <2>3, <2>4 DEF AccountStep
<1>2. UNCHANGED <<token, call, tab, reloads, forked, ended, excused>>
  BY DEF AccountStep, Submit, BadPassword, Recognise, LockPasses, Activate
<1>3. /\ call' \in [Calls -> CallRow] /\ tab' \in [Tabs -> TabRow]
      /\ reloads' \in 0..MaxReloads /\ forked' \subseteq Tokens
      /\ \A c \in Calls : call'[c] = call[c] /\ \A b \in Tabs : tab'[b].refresh = tab[b].refresh
  BY <1>2, Types DEF Sound, TypeOK
<1> QED BY <1>1, <1>2, <1>3, QuietStep

(* EndAll and Suspend end the families of the sessions of one user. *)
LEMMA UserEndSound ==
  ASSUME Sound, NEW u \in Users, EndAll(u) \/ Suspend(u)
  PROVE  Sound'
<1>20. login' \in [Tabs -> LoginRow]
  BY Types DEF EndAll, Suspend
<1>1. user' \in [Users -> UserRow]
  <2>1. [user[u] EXCEPT !.fails = 0, !.locked = FALSE] \in UserRow
    <3>1. user[u] \in UserRow /\ 0 \in 0..MaxFailed
      BY Types, SessionsAssumption
    <3> QED BY <3>1 DEF UserRow
  <2>2. user' = [user EXCEPT ![u] = [user[u] EXCEPT !.fails = 0, !.locked = FALSE]]
        \/ user' = user \/ user' = [user EXCEPT ![u].active = FALSE]
    BY Types DEF EndAll, Suspend
  <2>3. [user EXCEPT ![u].active = FALSE] \in [Users -> UserRow]
    BY Types DEF UserRow
  <2> QED BY <2>1, <2>2, <2>3, Types
<1>2. {token[t].family : t \in SessionsOf(u)} \in SUBSET Tokens
  BY WholeFamilies DEF Exists, Fam
<1>3. End({token[t].family : t \in SessionsOf(u)}) /\ token' = Revoked(SessionsOf(u), "ENDED")
      /\ UNCHANGED <<call, tab, reloads, forked>>
  BY DEF EndAll, Suspend
<1>4. ended' \subseteq Tokens /\ excused' \subseteq Tokens
  BY <1>2, <1>3, EndTypes
<1>5. /\ call' \in [Calls -> CallRow] /\ tab' \in [Tabs -> TabRow] /\ "ENDED" \in Reason
      /\ \A c \in Calls : call'[c] = call[c] /\ \A b \in Tabs : tab'[b].refresh = tab[b].refresh
  BY <1>3, Types DEF Reason
<1> QED BY <1>1, <1>3, <1>4, <1>5, <1>20, RevokingStep

LEMMA SignOutSound ==
  ASSUME Sound, NEW b \in Tabs, SignOut(b)
  PROVE  Sound'
<1>20. login' \in [Tabs -> LoginRow]
  BY Types DEF SignOut
<1>1. UNCHANGED <<user, call, reloads, forked>>
  BY DEF SignOut
<1>2. /\ user' \in [Users -> UserRow] /\ call' \in [Calls -> CallRow] /\ tab' \in [Tabs -> TabRow]
      /\ reloads' \in 0..MaxReloads /\ forked' \subseteq Tokens
      /\ \A c \in Calls : call'[c] = call[c]
  BY <1>1, Types DEF Sound, TypeOK, SignOut, SignedOut, TabRow
<1>3. \A d \in Tabs : tab'[d].refresh = tab[d].refresh \/ TabRefs(d)'
  BY Types DEF SignOut, SignedOut, TabRefs
<1>4. CASE UNCHANGED <<token, ended, excused>>
  BY <1>2, <1>3, <1>4, <1>20, QuietStep
<1>5. CASE /\ tab[b].refresh # None
           /\ token' = Revoked(Family(tab[b].refresh), "LOGOUT")
           /\ End({token[tab[b].refresh].family})
  <2>1. {token[tab[b].refresh].family} \in SUBSET Tokens
    BY <1>5 DEF Sound, Refs, TabRefs, RowRefs, Exists, Fam
  <2>2. ended' \subseteq Tokens /\ excused' \subseteq Tokens
    BY <1>5, <2>1, EndTypes
  <2> QED BY <1>1, <1>2, <1>3, <1>5, <2>2, <1>20, RevokingStep DEF Reason
<1> QED BY <1>4, <1>5 DEF SignOut

LEMMA UnauthorizedSound ==
  ASSUME Sound, NEW b \in Tabs, NEW c \in Calls, Unauthorized(b, c)
  PROVE  Sound'
<1>20. login' \in [Tabs -> LoginRow]
  BY Types DEF Unauthorized
<1>1. tab[b].refresh \in Tokens /\ Exists(tab[b].refresh)
  BY DEF Unauthorized, Sound, Refs, TabRefs, Exists
<1>2. call' = [call EXCEPT ![c] = [Idle EXCEPT !.at = "sent", !.token = tab[b].refresh]]
      /\ tab' = [tab EXCEPT ![b].flight = c] /\ UNCHANGED <<user, token, reloads, forked, ended, excused>>
  BY DEF Unauthorized
<1>3. [Idle EXCEPT !.at = "sent", !.token = tab[b].refresh] \in CallRow
  BY <1>1 DEF Idle, CallRow
<1>4. call' \in [Calls -> CallRow]
  BY <1>2, <1>3, Types
<1>5. \A d \in Calls : call'[d] = call[d] \/ CallRefs(d)'
  <2>1. call'[c].at = "sent" /\ call'[c].token = tab[b].refresh
    BY <1>2, Types DEF Idle
  <2>2. CallRefs(c)'
    BY <1>1, <1>2, <2>1 DEF CallRefs, Exists
  <2> QED BY <1>2, <2>2, Types
<1>6. tab' \in [Tabs -> TabRow] /\ \A d \in Tabs : tab'[d].refresh = tab[d].refresh
  BY <1>2, Types DEF TabRow
<1>7. user' \in [Users -> UserRow] /\ reloads' \in 0..MaxReloads /\ forked' \subseteq Tokens
  BY <1>2, Types DEF Sound, TypeOK
<1> QED BY <1>2, <1>4, <1>5, <1>6, <1>7, <1>20, QuietStep

LEMMA CheckSound ==
  ASSUME Sound, NEW c \in Calls, Check(c)
  PROVE  Sound'
<1>20. login' \in [Tabs -> LoginRow]
  BY Types DEF Check
<1> DEFINE t == call[c].token
<1>1. Exists(t) /\ Exists(Fam(t))
  BY DEF Check, Sound, Refs, CallRefs, RowRefs, Exists
<1>2. /\ call' \in [Calls -> CallRow]
      /\ \A d \in Calls : d # c => call'[d] = call[d]
      /\ call'[c].token = t /\ call'[c].at \in {"checked", "refused"}
  BY Types DEF Check, CallRow
<1>3. UNCHANGED <<user, tab, reloads>>
  BY DEF Check
<1>4. /\ user' \in [Users -> UserRow] /\ tab' \in [Tabs -> TabRow]
      /\ reloads' \in 0..MaxReloads
      /\ \A b \in Tabs : tab'[b].refresh = tab[b].refresh
  BY <1>3, Types DEF Sound, TypeOK
<1>7. forked' \subseteq Tokens
  <2>1. forked' = forked \/ forked' = forked \cup {Fam(t)}
    BY DEF Check, Fam
  <2> QED BY <1>1, <2>1, Types DEF Exists
<1>5. CASE UNCHANGED <<token, ended, excused>>
  <2>1. \A d \in Calls : call'[d] = call[d] \/ CallRefs(d)'
    BY <1>1, <1>2, <1>5 DEF CallRefs, Exists
  <2> QED BY <1>2, <1>4, <1>5, <1>7, <2>1, <1>20, QuietStep
<1>6. ASSUME NEW reason \in Reason, token' = Revoked(Family(t), reason), End({token[t].family}),
             UNCHANGED forked
      PROVE  Sound'
  <2>1. {token[t].family} \in SUBSET Tokens
    BY <1>1 DEF Exists, Fam
  <2>2. ended' \subseteq Tokens /\ excused' \subseteq Tokens
    <3> HIDE DEF t
    <3> QED BY <1>6, <2>1, EndTypes
  <2>3. Keeps
    BY <1>6, RevokedKeeps
  <2>4. \A d \in Calls : call'[d] = call[d] \/ CallRefs(d)'
    BY <1>1, <1>2, <2>3 DEF CallRefs, Exists, Keeps
  <2> QED
    <3> HIDE DEF t
    <3> QED BY <1>3, <1>2, <1>4, <1>6, <2>2, <2>4, <1>20, RevokingStep
<1> QED
  <2>1. CASE token[t].revoked = Live /\ user[token[t].user].active
    BY <1>5, <2>1 DEF Check
  <2>2. CASE ~(token[t].revoked = Live /\ user[token[t].user].active)
    <3>1. /\ token' = Revoked(Family(t), IF token[t].revoked = Live
                                         THEN "USER_INACTIVE" ELSE "REUSE_DETECTED")
          /\ End({token[t].family}) /\ UNCHANGED forked
      BY <2>2 DEF Check
    <3>2. (IF token[t].revoked = Live THEN "USER_INACTIVE" ELSE "REUSE_DETECTED") \in Reason
      BY DEF Reason
    <3> HIDE DEF t
    <3> QED BY <1>6, <3>1, <3>2
  <2> QED BY <2>1, <2>2

LEMMA IssueSound ==
  ASSUME Sound, NEW c \in Calls, NEW t \in Tokens, Issue(c, t)
  PROVE  Sound'
<1>20. login' \in [Tabs -> LoginRow]
  BY Types DEF Issue
<1>0. PICK old : old = call[c].token
  OBVIOUS
<1> DEFINE row == [token[old] EXCEPT !.revoked = Live]
<1>1. Exists(old) /\ token[t] = Absent /\ t # old /\ RowRefs(old)
  BY <1>0 DEF Issue, Sound, Refs, CallRefs, Exists
<1>2. token[old] \in TokenRow /\ Exists(Fam(old)) /\ Fam(old) # t
  BY <1>1, Types DEF RowRefs, Exists
<1>3. row \in TokenRow /\ row.revoked = Live /\ row.user = token[old].user
      /\ row.family = Fam(old) /\ row # Absent
  BY <1>2 DEF TokenRow, Fam, Absent, Live
<1>4. token' = [token EXCEPT ![t] = row]
      /\ call' = [call EXCEPT ![c] = [call[c] EXCEPT !.at = "issued", !.fresh = t]]
      /\ UNCHANGED <<user, tab, reloads, forked, ended, excused>>
  BY <1>0, Types DEF Issue
<1>5. token' \in [Tokens -> TokenRow] /\ token'[t] = row
      /\ \A s \in Tokens : s # t => token'[s] = token[s]
  <2> HIDE DEF row
  <2> QED BY Types, <1>3, <1>4
<1>6. Keeps
  BY <1>1, <1>5 DEF Keeps, Sound, Refs, RowRefs
<1>7. RowRefs(t)'
  <2>1. Exists(Fam(old))' /\ token'[Fam(old)].user = token[old].user
    BY <1>1, <1>2, <1>5 DEF Exists, RowRefs, Fam
  <2>2. token'[t].user \in Users
    BY <1>1, <1>3, <1>5 DEF RowRefs, Exists
  <2>3. token'[t].revoked # "ABSENT"
    BY <1>3, <1>5 DEF Live
  <2>4. Fam(t)' = Fam(old) /\ token'[t].user = token[old].user
    BY <1>3, <1>5 DEF Fam
  <2>5. token'[old] = token[old]
    BY <1>1, <1>5 DEF Exists
  <2> HIDE DEF row
  <2> QED BY <2>1, <2>2, <2>3, <2>4, <2>5 DEF RowRefs, Fam, Exists
<1>8. \A s \in Tokens : token[s] = Absent => RowRefs(s)'
  <2> SUFFICES ASSUME NEW s \in Tokens, token[s] = Absent, s # t PROVE RowRefs(s)'
    BY <1>7
  <2> QED BY <1>5 DEF RowRefs
<1>9. call' \in [Calls -> CallRow] /\ call'[c].token = old /\ call'[c].fresh = t
      /\ call'[c].at = "issued" /\ \A d \in Calls : d # c => call'[d] = call[d]
  <2>1. call[c] \in CallRow
    BY Types
  <2>2. [call[c] EXCEPT !.at = "issued", !.fresh = t] \in CallRow
    BY <2>1 DEF CallRow
  <2> QED BY <1>0, <1>4, <2>1, <2>2, Types DEF CallRow
<1>10. \A d \in Calls : call'[d] = call[d] \/ CallRefs(d)'
  <2>1. CallRefs(c)'
    <3>1. Exists(old)' /\ Exists(t)' /\ t # old /\ Fam(t)' = Fam(old)'
      BY <1>1, <1>3, <1>5 DEF Exists, Fam
    <3> QED BY <1>9, <3>1 DEF CallRefs
  <2> QED BY <1>9, <2>1
<1>11. /\ user' \in [Users -> UserRow] /\ tab' \in [Tabs -> TabRow]
       /\ reloads' \in 0..MaxReloads /\ forked' \subseteq Tokens
       /\ ended' \subseteq Tokens /\ excused' \subseteq Tokens
       /\ \A b \in Tabs : tab'[b].refresh = tab[b].refresh
  BY <1>4, Types DEF Sound, TypeOK
<1> QED BY <1>5, <1>6, <1>8, <1>9, <1>10, <1>11, <1>20, SoundStep

LEMMA RotateSound ==
  ASSUME Sound, NEW c \in Calls, Rotate(c)
  PROVE  Sound'
<1>20. login' \in [Tabs -> LoginRow]
  BY Types DEF Rotate
<1>0. PICK t : t = call[c].token
  OBVIOUS
<1>1. CallRefs(c) /\ call[c].at = "issued" /\ Exists(t)
  BY <1>0 DEF Rotate, Sound, Refs, CallRefs
<1>2. token' = [token EXCEPT ![t].revoked = "ROTATED"] /\ call' = [call EXCEPT ![c].at = "ok"]
      /\ UNCHANGED <<user, tab, reloads, forked, ended, excused>>
  BY <1>0 DEF Rotate, Retired
<1>3. token' \in [Tokens -> TokenRow]
      /\ token'[t].revoked = "ROTATED" /\ token'[t].user = token[t].user
      /\ token'[t].family = token[t].family /\ \A s \in Tokens : s # t => token'[s] = token[s]
  BY <1>1, <1>2, Types DEF TokenRow, Exists, Reason
<1>4. token'[t] # Absent
  BY <1>3 DEF Absent
<1>5. Keeps
  BY <1>3, <1>4 DEF Keeps, Sound, Refs, RowRefs
<1>6. \A s \in Tokens : token[s] = Absent => RowRefs(s)'
  <2>1. \A s \in Tokens : token[s] = Absent => token'[s] = Absent
    BY <1>1, <1>3 DEF Exists
  <2> QED BY <2>1 DEF RowRefs
<1>7. call' \in [Calls -> CallRow] /\ call'[c].token = t /\ call'[c].fresh = call[c].fresh
      /\ \A d \in Calls : d # c => call'[d] = call[d]
  BY <1>0, <1>2, Types DEF CallRow
<1>8. \A d \in Calls : call'[d] = call[d] \/ CallRefs(d)'
  <2>1. CallRefs(c)'
    <3>1. PICK n : n = call[c].fresh
      OBVIOUS
    <3>2. Exists(t)' /\ Exists(n)' /\ Fam(n)' = Fam(t)' /\ n # t
      BY <1>0, <1>1, <1>5, <3>1 DEF CallRefs, Exists, Keeps, Fam
    <3> QED BY <1>7, <3>1, <3>2 DEF CallRefs
  <2> QED BY <1>7, <2>1
<1>9. /\ user' \in [Users -> UserRow] /\ tab' \in [Tabs -> TabRow]
      /\ reloads' \in 0..MaxReloads /\ forked' \subseteq Tokens
      /\ ended' \subseteq Tokens /\ excused' \subseteq Tokens
      /\ \A b \in Tabs : tab'[b].refresh = tab[b].refresh
  BY <1>2, Types DEF Sound, TypeOK
<1> QED BY <1>3, <1>5, <1>6, <1>7, <1>8, <1>9, <1>20, SoundStep

LEMMA RenewedSound ==
  ASSUME Sound, NEW b \in Tabs, Renewed(b)
  PROVE  Sound'
<1>20. login' \in [Tabs -> LoginRow]
  BY Types DEF Renewed
<1> DEFINE c == tab[b].flight
           t == call[c].fresh
           row == [tab[b] EXCEPT !.access = token[t].user, !.refresh = t, !.flight = None]
<1>1. c \in Calls /\ call[c].at = "ok"
  BY Types DEF Renewed, TabRow
<1>2. Exists(t) /\ token[t].user \in Users
  BY <1>1 DEF Sound, Refs, CallRefs, RowRefs, Exists
<1>3. row \in TabRow /\ row.refresh = t
  <2>1. tab[b] \in TabRow
    BY Types
  <2> QED BY <1>2, <2>1 DEF TabRow, Exists
<1>4. tab' = [tab EXCEPT ![b] = row] /\ call' = [call EXCEPT ![c] = Idle]
      /\ UNCHANGED <<user, token, reloads, forked, ended, excused>>
  BY DEF Renewed
<1>5. tab' \in [Tabs -> TabRow] /\ \A d \in Tabs : tab'[d] = IF d = b THEN row ELSE tab[d]
  <2> HIDE DEF row
  <2> QED BY <1>3, <1>4, Types
<1>6. \A d \in Tabs : tab'[d].refresh = tab[d].refresh \/ TabRefs(d)'
  BY <1>2, <1>3, <1>4, <1>5 DEF TabRefs, Exists
<1>7. Idle \in CallRow /\ Idle.at = "idle"
  BY DEF Idle, CallRow
<1>8. call' \in [Calls -> CallRow] /\ \A d \in Calls : call'[d] = call[d] \/ CallRefs(d)'
  BY <1>1, <1>4, <1>7, Types DEF CallRefs
<1>9. user' \in [Users -> UserRow] /\ reloads' \in 0..MaxReloads /\ forked' \subseteq Tokens
  BY <1>4, Types DEF Sound, TypeOK
<1> QED
  <2> HIDE DEF row, t, c
  <2> QED BY <1>4, <1>5, <1>6, <1>8, <1>9, <1>20, QuietStep

(* What is left only ends requests, or clears the store of a tab. *)
LEMMA QuietSound ==
  ASSUME Sound,
         \/ \E b \in Tabs : Expired(b) \/ Reload(b)
         \/ \E c \in Calls : Unheard(c) \/ Crash(c)
  PROVE  Sound'
<1>20. login' \in [Tabs -> LoginRow]
  BY Types DEF Expired, Reload, Unheard, Crash
<1>1. UNCHANGED <<user, token, ended, excused>>
  BY DEF Expired, Reload, Unheard, Crash
<1>2. Idle \in CallRow /\ Idle.at = "idle" /\ [Idle EXCEPT !.at = "refused"] \in CallRow
      /\ [Idle EXCEPT !.at = "refused"].at = "refused"
  BY DEF Idle, CallRow
<1>3. call' \in [Calls -> CallRow] /\ \A d \in Calls : call'[d] = call[d] \/ CallRefs(d)'
  <2>1. ASSUME NEW c, NEW row \in CallRow, row.at \in {"idle", "refused"} \/ row = call[c],
               call' = [call EXCEPT ![c] = row]
        PROVE  call' \in [Calls -> CallRow] /\ \A d \in Calls : call'[d] = call[d] \/ CallRefs(d)'
    BY <2>1, Types DEF CallRefs
  <2>2. ASSUME NEW b \in Tabs, Expired(b)
        PROVE  call' \in [Calls -> CallRow] /\ \A d \in Calls : call'[d] = call[d] \/ CallRefs(d)'
    <3> DEFINE c == tab[b].flight
               row == IF call[c].at \in {"refused", "ok", "idle"} THEN Idle ELSE call[c]
    <3>1. c \in Calls
      BY <2>2, Types DEF Expired, TabRow
    <3>2. row \in CallRow /\ (row.at \in {"idle", "refused"} \/ row = call[c])
      BY <3>1, <1>2, Types
    <3>3. call' = [call EXCEPT ![c] = row]
      BY <2>2 DEF Expired
    <3> HIDE DEF row, c
    <3> QED BY <2>1, <3>2, <3>3
  <2>3. ASSUME NEW c \in Calls, Unheard(c) \/ Crash(c)
        PROVE  call' \in [Calls -> CallRow] /\ \A d \in Calls : call'[d] = call[d] \/ CallRefs(d)'
    <3>1. call' = [call EXCEPT ![c] = Idle] \/ call' = [call EXCEPT ![c] = [Idle EXCEPT !.at = "refused"]]
      BY <2>3 DEF Unheard, Crash
    <3> QED BY <1>2, <2>1, <3>1
  <2>4. ASSUME NEW b \in Tabs, Reload(b)
        PROVE  call' \in [Calls -> CallRow] /\ \A d \in Calls : call'[d] = call[d] \/ CallRefs(d)'
    BY <2>4, Types DEF Reload
  <2> QED BY <2>2, <2>3, <2>4
<1>4. tab' \in [Tabs -> TabRow] /\ \A d \in Tabs : tab'[d].refresh = tab[d].refresh \/ TabRefs(d)'
  <2>1. ASSUME NEW b \in Tabs, Expired(b)
        PROVE  tab' \in [Tabs -> TabRow] /\ \A d \in Tabs : tab'[d].refresh = tab[d].refresh \/ TabRefs(d)'
    <3>1. SignedOut \in TabRow /\ SignedOut.refresh = None
      BY DEF SignedOut, TabRow
    <3> QED BY <2>1, <3>1, Types DEF Expired, TabRefs
  <2>2. ASSUME NEW b \in Tabs, Reload(b)
        PROVE  tab' \in [Tabs -> TabRow] /\ \A d \in Tabs : tab'[d].refresh = tab[d].refresh \/ TabRefs(d)'
    <3>1. tab[b] \in TabRow
      BY Types
    <3>2. [tab[b] EXCEPT !.flight = None, !.shown = tab[b].access] \in TabRow
          /\ [tab[b] EXCEPT !.flight = None, !.shown = tab[b].access].refresh = tab[b].refresh
      BY <3>1 DEF TabRow
    <3>3. tab' = [tab EXCEPT ![b] = [tab[b] EXCEPT !.flight = None, !.shown = tab[b].access]]
      BY <2>2 DEF Reload
    <3> QED BY <3>2, <3>3, Types
  <2>3. ASSUME NEW c \in Calls, Unheard(c) \/ Crash(c)
        PROVE  tab' = tab
    BY <2>3 DEF Unheard, Crash
  <2> QED BY <2>1, <2>2, <2>3, Types
<1>5. reloads' \in 0..MaxReloads /\ forked' \subseteq Tokens
  <2>1. reloads \in 0..MaxReloads /\ forked \subseteq Tokens
    BY DEF Sound, TypeOK
  <2>2. reloads' = reloads \/ (reloads < MaxReloads /\ reloads' = reloads + 1)
    BY DEF Expired, Reload, Unheard, Crash
  <2>3. UNCHANGED forked \/ \E c \in Calls : Crash(c)
    BY DEF Expired, Reload, Unheard
  <2>4. ASSUME NEW c \in Calls, Crash(c) PROVE forked' \subseteq Tokens
    <3>1. Exists(call[c].token) /\ Exists(Fam(call[c].token))
      BY <2>4 DEF Crash, Sound, Refs, CallRefs, RowRefs, Exists
    <3> QED BY <2>1, <2>4, <3>1 DEF Crash, Exists, Fam
  <2> QED BY <2>1, <2>2, <2>3, <2>4, SessionsAssumption
<1>6. user' \in [Users -> UserRow]
  BY <1>1, Types
<1> QED BY <1>1, <1>3, <1>4, <1>5, <1>6, <1>20, QuietStep

LEMMA StepSound ==
  ASSUME Sound, [Next]_vars
  PROVE  Sound'
<1>1. CASE UNCHANGED vars
  BY <1>1 DEF vars, Sound, TypeOK, Refs, RowRefs, CallRefs, TabRefs, Exists, Fam
<1>2. CASE Next
  BY <1>2, SignInSound, AccountSound, UserEndSound, SignOutSound, UnauthorizedSound,
     CheckSound, IssueSound, RotateSound, RenewedSound, QuietSound DEF Next, AccountStep
<1> QED BY <1>1, <1>2

(* TypeOK holds, and no row refers to a token that does not exist: the     *)
(* tables and the stores of auth.service.ts and lib/api.ts, and the single *)
(* user behind every family.                                               *)
THEOREM TypeCorrect == Spec => []Sound
<1>1. Init => Sound
  <2> SUFFICES ASSUME Init PROVE Sound
    OBVIOUS
  <2>1. TypeOK
    BY SessionsAssumption DEF Init, TypeOK, Absent, Idle, SignedOut, NoLogin
  <2>2. Refs
    <3>1. \A c \in Calls : call[c].at = "idle"
      BY DEF Init, Idle
    <3>2. \A b \in Tabs : tab[b].refresh = None
      BY DEF Init, SignedOut
    <3>3. \A t \in Tokens : token[t] = Absent
      BY DEF Init
    <3> QED BY <3>1, <3>2, <3>3 DEF Refs, RowRefs, CallRefs, TabRefs
  <2> QED BY <2>1, <2>2 DEF Sound
<1>2. Sound /\ [Next]_vars => Sound'
  BY StepSound
<1> QED BY <1>1, <1>2, PTL DEF Spec

------------------------------------------------------------------------------
(* An ended session stays ended                                            *)

(* EndedStaysEnded is not inductive: a refresh past its check will issue a *)
(* live token, and a token row not yet used may be given to any family.    *)
CheckedExcused ==
  \A c \in Calls : call[c].at = "checked" /\ Fam(call[c].token) \in ended
                      => Fam(call[c].token) \in excused

EndedInv == CheckedExcused /\ (\A f \in ended : Exists(f)) /\ EndedStaysEnded

(* Whole families are ended, and no refresh passes its check meanwhile. *)
LEMMA EndingKeepsEnded ==
  ASSUME Sound, EndedInv, NEW families \in SUBSET Tokens, End(families),
         NEW ts, NEW reason \in Reason, token' = Revoked(ts, reason),
         \A f \in families : Exists(f),
         \A t \in Tokens : token[t] # Absent /\ Fam(t) \in families => t \in ts,
         \A c \in Calls : call'[c].at = "checked" => call'[c] = call[c]
  PROVE  EndedInv'
<1>1. Keeps /\ NoneLive /\ \A t \in Tokens : t \in ts => token'[t].revoked # Live
  BY RevokedKeeps
<1>2. ended' = ended \cup families /\ excused' = excused \cup Passed(families)
  BY DEF End
<1>3. CheckedExcused'
  <2> SUFFICES ASSUME NEW c \in Calls, call'[c].at = "checked",
                      token'[call'[c].token].family \in ended'
               PROVE  token'[call'[c].token].family \in excused'
    BY DEF CheckedExcused, Fam
  <2>1. call'[c] = call[c] /\ call[c].at = "checked" /\ Exists(call[c].token)
    BY DEF Sound, Refs, CallRefs
  <2>2. token'[call'[c].token].family = Fam(call[c].token)
    BY <1>1, <2>1 DEF Keeps, Exists, Fam
  <2>3. Fam(call[c].token) \in families => Fam(call[c].token) \in Passed(families)
    BY <2>1 DEF Passed, Fam
  <2> QED BY <1>2, <2>1, <2>2, <2>3 DEF EndedInv, CheckedExcused
<1>4. \A f \in ended' : Exists(f)'
  BY <1>1, <1>2 DEF EndedInv, Exists, Keeps
<1>5. EndedStaysEnded'
  <2> SUFFICES ASSUME NEW t \in Tokens, token'[t].revoked = Live, token'[t].family \in ended'
               PROVE  token'[t].family \in excused'
    BY DEF EndedStaysEnded
  <2>1. token'[t] = token[t] /\ t \notin ts /\ token[t].revoked = Live
    BY <1>1 DEF NoneLive
  <2>2. token[t] # Absent
    BY <2>1 DEF Absent, Live
  <2>3. Fam(t) \notin families
    BY <2>1, <2>2
  <2> QED BY <1>2, <2>1, <2>3 DEF EndedInv, EndedStaysEnded, Fam
<1> QED BY <1>3, <1>4, <1>5 DEF EndedInv

(* No family is ended: what becomes live is of no ended family, or of an   *)
(* excused one, and what passes its check is live.                         *)
LEMMA OtherKeepsEnded ==
  ASSUME Sound, EndedInv, Keeps, UNCHANGED <<ended, excused>>,
         \A t \in Tokens : token'[t].revoked = Live =>
           \/ token'[t] = token[t]
           \/ token'[t].family \notin ended
           \/ token'[t].family \in excused,
         \A c \in Calls : call'[c].at = "checked" =>
           /\ call'[c].token = call[c].token
           /\ \/ call[c].at = "checked"
              \/ call[c].at = "sent" /\ token[call[c].token].revoked = Live
  PROVE  EndedInv'
<1>1. CheckedExcused'
  <2> SUFFICES ASSUME NEW c \in Calls, call'[c].at = "checked",
                      token'[call'[c].token].family \in ended
               PROVE  token'[call'[c].token].family \in excused
    BY DEF CheckedExcused, Fam
  <2>1. Exists(call[c].token) /\ call'[c].token = call[c].token
    BY DEF Sound, Refs, CallRefs
  <2>2. token'[call'[c].token].family = Fam(call[c].token)
    BY <2>1 DEF Keeps, Exists, Fam
  <2>3. CASE call[c].at = "checked"
    BY <2>2, <2>3 DEF EndedInv, CheckedExcused
  <2>4. CASE token[call[c].token].revoked = Live
    BY <2>1, <2>2, <2>4 DEF EndedInv, EndedStaysEnded, Exists, Fam
  <2> QED BY <2>3, <2>4
<1>2. \A f \in ended' : Exists(f)'
  BY DEF EndedInv, Exists, Keeps
<1>3. EndedStaysEnded'
  BY DEF EndedInv, EndedStaysEnded
<1> QED BY <1>1, <1>2, <1>3 DEF EndedInv

LEMMA KeepsRows ==
  ASSUME Sound, UNCHANGED token PROVE Keeps
  BY DEF Keeps, Sound, Refs, RowRefs

(* What SignIn and Issue do to the table, and what Rotate does. *)
LEMMA SignInRows ==
  ASSUME Sound, NEW b \in Tabs, NEW t \in Tokens, SignIn(b, t)
  PROVE  /\ Keeps /\ token[t] = Absent
         /\ token'[t].family = t /\ token'[t].revoked = Live
         /\ \A s \in Tokens : s # t => token'[s] = token[s]
         /\ \A s \in Tokens : token[s] # Absent => Fam(s) # t /\ s # t
<1>1. token[t] = Absent
  BY DEF SignIn
<1>2. token' = [token EXCEPT ![t] = [user |-> login[b].user, family |-> t, revoked |-> Live]]
  BY DEF SignIn
<1>3. token'[t].family = t /\ token'[t].revoked = Live /\ \A s \in Tokens : s # t => token'[s] = token[s]
  BY <1>2, Types
<1> QED BY <1>1, <1>3 DEF Keeps, Sound, Refs, RowRefs, Exists

LEMMA IssueRows ==
  ASSUME Sound, NEW c \in Calls, NEW t \in Tokens, Issue(c, t)
  PROVE  /\ Keeps /\ token[t] = Absent
         /\ token'[t].family = Fam(call[c].token) /\ token'[t].revoked = Live
         /\ \A s \in Tokens : s # t => token'[s] = token[s]
         /\ \A s \in Tokens : token[s] # Absent => s # t
         /\ call[c].at = "checked" /\ Exists(call[c].token)
<1>1. token[t] = Absent /\ call[c].at = "checked" /\ Exists(call[c].token)
  BY DEF Issue, Sound, Refs, CallRefs
<1>2. token' = [token EXCEPT ![t] = [token[call[c].token] EXCEPT !.revoked = Live]]
  BY DEF Issue
<1>3. token'[t] = [token[call[c].token] EXCEPT !.revoked = Live]
      /\ \A s \in Tokens : s # t => token'[s] = token[s]
  BY <1>2, Types
<1>4. token'[t].family = Fam(call[c].token) /\ token'[t].revoked = Live
  <2>1. token[call[c].token] \in TokenRow
    BY <1>1, Types DEF Exists
  <2> QED BY <1>3, <2>1 DEF TokenRow, Fam
<1> QED BY <1>1, <1>3, <1>4 DEF Keeps, Sound, Refs, RowRefs, Exists

LEMMA RotateRows ==
  ASSUME Sound, NEW c \in Calls, Rotate(c)
  PROVE  /\ Keeps /\ NoneLive
         /\ call[c].at = "issued" /\ Exists(call[c].token) /\ Exists(call[c].fresh)
         /\ call[c].fresh # call[c].token /\ Fam(call[c].fresh) = Fam(call[c].token)
         /\ token'[call[c].token].revoked = "ROTATED"
         /\ \A s \in Tokens : s # call[c].token => token'[s] = token[s]
<1>0. PICK t : t = call[c].token
  OBVIOUS
<1>1. CallRefs(c) /\ call[c].at = "issued" /\ Exists(t)
  BY <1>0 DEF Rotate, Sound, Refs, CallRefs
<1>2. token' = [token EXCEPT ![t].revoked = "ROTATED"]
  BY <1>0 DEF Rotate, Retired
<1>3. token'[t].revoked = "ROTATED" /\ token'[t].user = token[t].user
      /\ token'[t].family = token[t].family /\ \A s \in Tokens : s # t => token'[s] = token[s]
  BY <1>1, <1>2, Types DEF TokenRow, Exists
<1>4. token'[t] # Absent
  BY <1>3 DEF Absent
<1>5. Keeps
  BY <1>3, <1>4 DEF Keeps, Sound, Refs, RowRefs
<1>6. NoneLive
  BY <1>3 DEF NoneLive, Live
<1> QED BY <1>0, <1>1, <1>3, <1>5, <1>6 DEF CallRefs

LEMMA StepKeepsEnded ==
  ASSUME Sound, EndedInv, [Next]_vars
  PROVE  EndedInv'
<1>1. ASSUME NEW b \in Tabs, NEW t \in Tokens, SignIn(b, t)
      PROVE  EndedInv'
  <2>1. UNCHANGED <<call, ended, excused>>
    BY <1>1 DEF SignIn
  <2>2. t \notin ended
    BY <1>1, SignInRows DEF EndedInv, Exists
  <2>3. Keeps /\ \A s \in Tokens : token'[s].revoked = Live => token'[s] = token[s] \/ token'[s].family \notin ended
    BY <1>1, <2>2, SignInRows
  <2> QED BY <2>1, <2>3, OtherKeepsEnded
<1>2. ASSUME NEW u \in Users, EndAll(u) \/ Suspend(u)
      PROVE  EndedInv'
  <2> DEFINE families == {token[t].family : t \in SessionsOf(u)}
  <2>1. End(families) /\ token' = Revoked(SessionsOf(u), "ENDED") /\ UNCHANGED call
    BY <1>2 DEF EndAll, Suspend
  <2>2. families \in SUBSET Tokens /\ \A f \in families : Exists(f)
    BY WholeFamilies DEF Exists, Fam
  <2>3. \A t \in Tokens : token[t] # Absent /\ Fam(t) \in families => t \in SessionsOf(u)
    BY WholeFamilies DEF Fam
  <2> HIDE DEF families
  <2> QED BY <2>1, <2>2, <2>3, EndingKeepsEnded DEF Reason
<1>3. ASSUME NEW b \in Tabs, SignOut(b)
      PROVE  EndedInv'
  <2>1. UNCHANGED call
    BY <1>3 DEF SignOut
  <2>2. CASE UNCHANGED <<token, ended, excused>>
    BY <2>1, <2>2, OtherKeepsEnded, KeepsRows
  <2>3. CASE /\ tab[b].refresh # None
             /\ token' = Revoked(Family(tab[b].refresh), "LOGOUT")
             /\ End({token[tab[b].refresh].family})
    <3>1. PICK t : t = tab[b].refresh
      OBVIOUS
    <3>2. Exists(t) /\ Exists(Fam(t))
      BY <2>3, <3>1 DEF Sound, Refs, TabRefs, RowRefs, Exists
    <3>3. {Fam(t)} \in SUBSET Tokens /\ \A f \in {Fam(t)} : Exists(f)
      BY <3>2 DEF Exists
    <3>4. \A s \in Tokens : token[s] # Absent /\ Fam(s) \in {Fam(t)} => s \in Family(t)
      BY DEF Family, Fam
    <3>5. token' = Revoked(Family(t), "LOGOUT") /\ End({Fam(t)})
      BY <2>3, <3>1 DEF Fam
    <3> QED BY <2>1, <3>3, <3>4, <3>5, EndingKeepsEnded DEF Reason
  <2> QED BY <1>3, <2>2, <2>3 DEF SignOut
<1>4. ASSUME NEW c \in Calls, Check(c)
      PROVE  EndedInv'
  <2>1. PICK t : t = call[c].token
    OBVIOUS
  <2>2. call[c].at = "sent" /\ Exists(t) /\ Exists(Fam(t))
    BY <1>4, <2>1 DEF Check, Sound, Refs, CallRefs, RowRefs, Exists
  <2>3. CASE token[t].revoked = Live /\ user[token[t].user].active
    <3>1. call' = [call EXCEPT ![c].at = "checked"] /\ UNCHANGED <<token, ended, excused>>
      BY <1>4, <2>1, <2>3 DEF Check
    <3>2. \A d \in Calls : call'[d].token = call[d].token /\ (d # c => call'[d] = call[d])
      BY <3>1, Types DEF CallRow
    <3> QED BY <2>1, <2>2, <2>3, <3>1, <3>2, OtherKeepsEnded, KeepsRows
  <2>4. CASE ~(token[t].revoked = Live /\ user[token[t].user].active)
    <3>1. PICK reason \in Reason : token' = Revoked(Family(t), reason)
      <4>1. (IF token[t].revoked = Live THEN "USER_INACTIVE" ELSE "REUSE_DETECTED") \in Reason
        BY DEF Reason
      <4> QED BY <1>4, <2>1, <2>4, <4>1 DEF Check
    <3>2. End({Fam(t)}) /\ call' = [call EXCEPT ![c].at = "refused"]
      BY <1>4, <2>1, <2>4 DEF Check, Fam
    <3>3. {Fam(t)} \in SUBSET Tokens /\ \A f \in {Fam(t)} : Exists(f)
      BY <2>2 DEF Exists
    <3>4. \A s \in Tokens : token[s] # Absent /\ Fam(s) \in {Fam(t)} => s \in Family(t)
      BY DEF Family, Fam
    <3>5. \A d \in Calls : call'[d].at = "checked" => call'[d] = call[d]
      BY <3>2, Types DEF CallRow
    <3> QED BY <3>1, <3>2, <3>3, <3>4, <3>5, EndingKeepsEnded
  <2> QED BY <2>3, <2>4
<1>5. ASSUME NEW c \in Calls, NEW t \in Tokens, Issue(c, t)
      PROVE  EndedInv'
  <2>1. UNCHANGED <<ended, excused>> /\ call' = [call EXCEPT ![c].at = "issued", ![c].fresh = t]
    BY <1>5 DEF Issue
  <2>2. \A d \in Calls : call'[d].at = "checked" => call'[d] = call[d]
    BY <2>1, Types DEF CallRow
  <2>3. token'[t].family \in ended => token'[t].family \in excused
    BY <1>5, IssueRows DEF EndedInv, CheckedExcused
  <2>4. Keeps /\ \A s \in Tokens : token'[s].revoked = Live =>
           token'[s] = token[s] \/ token'[s].family \notin ended \/ token'[s].family \in excused
    BY <1>5, <2>3, IssueRows
  <2> QED BY <2>1, <2>2, <2>4, OtherKeepsEnded
<1>6. ASSUME NEW c \in Calls, Rotate(c)
      PROVE  EndedInv'
  <2>1. UNCHANGED <<ended, excused>> /\ call' = [call EXCEPT ![c].at = "ok"]
    BY <1>6 DEF Rotate
  <2>2. \A d \in Calls : call'[d].at = "checked" => call'[d] = call[d]
    BY <2>1, Types DEF CallRow
  <2>3. Keeps /\ NoneLive
    BY <1>6, RotateRows
  <2> QED BY <2>1, <2>2, <2>3, OtherKeepsEnded DEF NoneLive
<1>7. ASSUME UNCHANGED <<token, ended, excused>>,
             \A c \in Calls : call'[c].at = "checked" => call'[c] = call[c]
      PROVE  EndedInv'
  BY <1>7, OtherKeepsEnded, KeepsRows
<1>8. ASSUME \/ UNCHANGED vars
             \/ AccountStep
             \/ \E b \in Tabs : Reload(b)
      PROVE  EndedInv'
  BY <1>7, <1>8 DEF vars, AccountStep, Submit, BadPassword, Recognise, LockPasses, Activate, Reload
<1>9. ASSUME NEW b \in Tabs, NEW c \in Calls, Unauthorized(b, c)
      PROVE  EndedInv'
  <2>1. [Idle EXCEPT !.at = "sent", !.token = tab[b].refresh].at = "sent"
    BY DEF Idle
  <2>2. call' = [call EXCEPT ![c] = [Idle EXCEPT !.at = "sent", !.token = tab[b].refresh]]
        /\ UNCHANGED <<token, ended, excused>>
    BY <1>9 DEF Unauthorized
  <2> QED BY <1>7, <2>1, <2>2, Types
<1>10. ASSUME \/ \E b \in Tabs : Renewed(b) \/ Expired(b)
              \/ \E c \in Calls : Unheard(c) \/ Crash(c)
      PROVE  EndedInv'
  <2>1. Idle.at # "checked" /\ [Idle EXCEPT !.at = "refused"].at # "checked"
    BY DEF Idle
  <2>2. \A c \in Calls : call'[c] \in {call[c], Idle, [Idle EXCEPT !.at = "refused"]}
    <3>1. ASSUME NEW b \in Tabs, Renewed(b) \/ Expired(b)
          PROVE  \A c \in Calls : call'[c] \in {call[c], Idle, [Idle EXCEPT !.at = "refused"]}
      <4>1. PICK d : d = tab[b].flight
        OBVIOUS
      <4>2. call' = [call EXCEPT ![d] = Idle] \/ call' = [call EXCEPT ![d] = call[d]]
        BY <3>1, <4>1 DEF Renewed, Expired
      <4> QED BY <4>2, Types
    <3>2. ASSUME NEW d \in Calls, Unheard(d) \/ Crash(d)
          PROVE  \A c \in Calls : call'[c] \in {call[c], Idle, [Idle EXCEPT !.at = "refused"]}
      <4>1. call' = [call EXCEPT ![d] = Idle] \/ call' = [call EXCEPT ![d] = [Idle EXCEPT !.at = "refused"]]
        BY <3>2 DEF Unheard, Crash
      <4> QED BY <4>1, Types
    <3> QED BY <1>10, <3>1, <3>2
  <2>3. UNCHANGED <<token, ended, excused>>
    BY <1>10 DEF Renewed, Expired, Unheard, Crash
  <2> QED BY <1>7, <2>1, <2>2, <2>3
<1> QED BY <1>1, <1>2, <1>3, <1>4, <1>5, <1>6, <1>8, <1>9, <1>10 DEF Next, AccountStep

(* A session that was ended has no live token left, unless a refresh was   *)
(* past its check at that moment (revokeFamily, changePassword, setRoles,  *)
(* setStatus, resetPassword).                                              *)
THEOREM EndedForGood == Spec => []EndedStaysEnded
<1>1. Init => EndedInv
  <2>1. Init => \A t \in Tokens : token[t].revoked # Live
    BY DEF Init, Absent, Live
  <2> QED BY <2>1 DEF Init, EndedInv, CheckedExcused, EndedStaysEnded
<1>2. Sound /\ EndedInv /\ [Next]_vars => EndedInv'
  BY StepKeepsEnded
<1>3. EndedInv => EndedStaysEnded
  BY DEF EndedInv
<1> QED BY <1>1, <1>2, <1>3, TypeCorrect, PTL DEF Spec

------------------------------------------------------------------------------
(* One thread of refreshes per family                                      *)

(* While no page is reloaded, a family is in the hands of one tab or of    *)
(* one refresh, and what a tab may still send has not been exchanged.      *)
Carries(c) == call[c].at \in {"sent", "checked", "issued", "ok"}
FamOf(c) == token[call[c].token].family

OneFlightEach ==
  \A a, b \in Tabs : tab[a].flight # None /\ tab[a].flight = tab[b].flight => a = b
FlightsGoOn == \A b \in Tabs : tab[b].flight # None => call[tab[b].flight].at # "idle"
OneCarrier ==
  \A c, d \in Calls : Carries(c) /\ Carries(d) /\ FamOf(c) = FamOf(d) => c = d
TabAwaits ==
  \A b \in Tabs, c \in Calls :
    Carries(c) /\ tab[b].refresh # None /\ Fam(tab[b].refresh) = FamOf(c) => tab[b].flight = c
OneTabEach ==
  \A a, b \in Tabs : tab[a].refresh # None /\ tab[b].refresh # None
                        /\ Fam(tab[a].refresh) = Fam(tab[b].refresh) => a = b
SentUnspent ==
  \A c \in Calls : call[c].at = "sent" => token[call[c].token].revoked # "ROTATED"
StoredUnspent ==
  \A b \in Tabs : tab[b].refresh # None /\ tab[b].flight = None
                    => token[tab[b].refresh].revoked # "ROTATED"
FreshUnspent ==
  \A c \in Calls : call[c].at \in {"issued", "ok"} => token[call[c].fresh].revoked # "ROTATED"

Threaded ==
  /\ OneFlightEach /\ FlightsGoOn /\ OneCarrier /\ TabAwaits /\ OneTabEach
  /\ SentUnspent /\ StoredUnspent /\ FreshUnspent

(* Families of what exists stay what they are. *)
LEMMA SameFamilies ==
  ASSUME Sound, Keeps
  PROVE  /\ \A t : Exists(t) => token'[t].family = Fam(t)
         /\ \A c \in Calls : Carries(c) => token'[call[c].token].family = FamOf(c)
         /\ \A b \in Tabs : tab[b].refresh # None => token'[tab[b].refresh].family = Fam(tab[b].refresh)
<1>1. \A t : Exists(t) => token'[t].family = Fam(t)
  BY DEF Keeps, Exists, Fam
<1> QED BY <1>1 DEF Sound, Refs, CallRefs, TabRefs, Carries, FamOf, Fam

(* A step that hands nothing on: requests and tabs go on, or give up. *)
GoesOn(c) ==
  \/ call'[c] = call[c]
  \/ /\ call[c].at = "sent" /\ call'[c].at = "checked"
     /\ call'[c].token = call[c].token /\ call'[c].fresh = call[c].fresh
GivesUp(c) ==
  \/ call'[c].at = "refused"
  \/ call'[c].at = "idle" /\ \A b \in Tabs : tab'[b].flight # c
StaysOrLeaves(b) ==
  \/ tab'[b].refresh = tab[b].refresh /\ tab'[b].flight = tab[b].flight
  \/ tab'[b].refresh = None /\ tab'[b].flight \in {tab[b].flight, None}

HandsNothingOn ==
  /\ Keeps /\ NoneLive
  /\ \A t \in Tokens : token'[t].revoked = "ROTATED" => token[t].revoked = "ROTATED"
  /\ \A c \in Calls : GoesOn(c) \/ GivesUp(c)
  /\ \A b \in Tabs : StaysOrLeaves(b)

LEMMA NothingOnThreaded ==
  ASSUME Sound, Sound', Threaded, HandsNothingOn
  PROVE  Threaded'
<1>1. \A c \in Calls : Carries(c)' =>
        /\ Carries(c) /\ GoesOn(c) /\ call'[c].token = call[c].token /\ call'[c].fresh = call[c].fresh
        /\ FamOf(c)' = FamOf(c) /\ Exists(call[c].token)
  <2> SUFFICES ASSUME NEW c \in Calls, Carries(c)'
               PROVE  /\ Carries(c) /\ GoesOn(c) /\ call'[c].token = call[c].token
                      /\ call'[c].fresh = call[c].fresh
                      /\ FamOf(c)' = FamOf(c) /\ Exists(call[c].token)
    OBVIOUS
  <2>1. GoesOn(c)
    BY DEF HandsNothingOn, GivesUp, Carries
  <2>2. Carries(c) /\ call'[c].token = call[c].token /\ call'[c].fresh = call[c].fresh
    BY <2>1 DEF GoesOn, Carries
  <2>3. Exists(call[c].token)
    BY <2>2 DEF Carries, Sound, Refs, CallRefs
  <2>4. FamOf(c)' = FamOf(c)
    BY <2>2, SameFamilies DEF HandsNothingOn, FamOf
  <2> QED BY <2>1, <2>2, <2>3, <2>4
<1>2. \A b \in Tabs : tab'[b].refresh # None =>
        /\ tab'[b].refresh = tab[b].refresh /\ tab'[b].flight = tab[b].flight
        /\ Exists(tab[b].refresh)
        /\ token'[tab'[b].refresh].family = Fam(tab[b].refresh)
  BY SameFamilies DEF HandsNothingOn, StaysOrLeaves, Sound, Refs, TabRefs
<1>3. \A b \in Tabs : tab'[b].flight \in {tab[b].flight, None}
  BY DEF HandsNothingOn, StaysOrLeaves
<1>4. OneFlightEach'
  BY <1>3 DEF Threaded, OneFlightEach
<1>5. FlightsGoOn'
  <2> SUFFICES ASSUME NEW b \in Tabs, tab'[b].flight # None, call'[tab'[b].flight].at = "idle"
               PROVE  FALSE
    BY DEF FlightsGoOn
  <2>1. PICK c \in Calls : c = tab'[b].flight
    BY Types DEF Sound, TypeOK
  <2>2. tab[b].flight = c /\ call[c].at # "idle"
    BY <1>3, <2>1 DEF Threaded, FlightsGoOn
  <2>3. GoesOn(c) \/ GivesUp(c)
    BY DEF HandsNothingOn
  <2> QED BY <2>1, <2>2, <2>3 DEF GoesOn, GivesUp
<1>6. OneCarrier'
  BY <1>1 DEF Threaded, OneCarrier
<1>7. TabAwaits'
  BY <1>1, <1>2 DEF Threaded, TabAwaits, Fam
<1>8. OneTabEach'
  BY <1>2 DEF Threaded, OneTabEach, Fam
<1>9. SentUnspent'
  <2> SUFFICES ASSUME NEW c \in Calls, call'[c].at = "sent"
               PROVE  token'[call'[c].token].revoked # "ROTATED"
    BY DEF SentUnspent
  <2>1. call[c].at = "sent" /\ call'[c].token = call[c].token /\ call[c].token \in Tokens
    BY <1>1 DEF Carries, GoesOn, Exists
  <2> QED BY <2>1 DEF Threaded, SentUnspent, HandsNothingOn
<1>10. StoredUnspent'
  BY <1>2 DEF Threaded, StoredUnspent, HandsNothingOn, Exists
<1>11. FreshUnspent'
  <2> SUFFICES ASSUME NEW c \in Calls, call'[c].at \in {"issued", "ok"}
               PROVE  token'[call'[c].fresh].revoked # "ROTATED"
    BY DEF FreshUnspent
  <2>1. call[c].at \in {"issued", "ok"} /\ call'[c].fresh = call[c].fresh
    BY <1>1 DEF Carries, GoesOn
  <2>2. call[c].fresh \in Tokens
    BY <2>1 DEF Sound, Refs, CallRefs, Exists
  <2> QED BY <2>1, <2>2 DEF Threaded, FreshUnspent, HandsNothingOn
<1> QED BY <1>4, <1>5, <1>6, <1>7, <1>8, <1>9, <1>10, <1>11 DEF Threaded

(* The steps that hand nothing on, each for its own reason. *)
LEMMA HandingNothingOn ==
  ASSUME Sound, Threaded,
         \/ UNCHANGED vars
         \/ AccountStep \/ \E u \in Users : EndAll(u) \/ Suspend(u)
         \/ \E b \in Tabs : SignOut(b) \/ Expired(b)
         \/ \E c \in Calls : Check(c) \/ Unheard(c) \/ Crash(c)
  PROVE  HandsNothingOn
<1>1. ASSUME UNCHANGED token \/ \E reason \in Reason \ {"ROTATED"}, ts \in SUBSET Tokens : token' = Revoked(ts, reason)
      PROVE  /\ Keeps /\ NoneLive
             /\ \A t \in Tokens : token'[t].revoked = "ROTATED" => token[t].revoked = "ROTATED"
  <2>1. CASE UNCHANGED token
    BY <2>1, KeepsRows DEF NoneLive
  <2>2. ASSUME NEW reason \in Reason \ {"ROTATED"}, NEW ts \in SUBSET Tokens, token' = Revoked(ts, reason)
        PROVE  /\ Keeps /\ NoneLive
               /\ \A t \in Tokens : token'[t].revoked = "ROTATED" => token[t].revoked = "ROTATED"
    BY <2>2, RevokedKeeps
  <2> QED BY <1>1, <2>1, <2>2
<1>2. UNCHANGED token \/ \E reason \in Reason \ {"ROTATED"}, ts \in SUBSET Tokens : token' = Revoked(ts, reason)
  <2> DEFINE Revokes == \E reason \in Reason \ {"ROTATED"}, ts \in SUBSET Tokens : token' = Revoked(ts, reason)
  <2>1. ASSUME NEW reason, reason \in {"ENDED", "LOGOUT", "USER_INACTIVE", "REUSE_DETECTED"},
               NEW ts, ts \in SUBSET Tokens, token' = Revoked(ts, reason)
        PROVE  Revokes
    BY <2>1 DEF Reason
  <2> HIDE DEF Revokes
  <2>2. ASSUME NEW u \in Users, EndAll(u) \/ Suspend(u) PROVE Revokes
    <3>1. SessionsOf(u) \in SUBSET Tokens
      BY DEF SessionsOf
    <3> QED BY <2>1, <2>2, <3>1 DEF EndAll, Suspend
  <2>3. ASSUME NEW b \in Tabs, SignOut(b) PROVE UNCHANGED token \/ Revokes
    <3>1. Family(tab[b].refresh) \in SUBSET Tokens
      BY DEF Family
    <3> QED BY <2>1, <2>3, <3>1 DEF SignOut
  <2>4. ASSUME NEW c \in Calls, Check(c) PROVE UNCHANGED token \/ Revokes
    <3>1. Family(call[c].token) \in SUBSET Tokens
      BY DEF Family
    <3>2. UNCHANGED token
          \/ token' = Revoked(Family(call[c].token), IF token[call[c].token].revoked = Live
                                           THEN "USER_INACTIVE" ELSE "REUSE_DETECTED")
      BY <2>4 DEF Check
    <3>3. (IF token[call[c].token].revoked = Live THEN "USER_INACTIVE" ELSE "REUSE_DETECTED")
            \in {"ENDED", "LOGOUT", "USER_INACTIVE", "REUSE_DETECTED"}
      OBVIOUS
    <3> QED BY <2>1, <3>1, <3>2, <3>3
  <2>5. UNCHANGED token \/ Revokes
    BY <2>2, <2>3, <2>4 DEF vars, AccountStep, Submit, BadPassword, Recognise, LockPasses, Activate, Expired, Unheard, Crash
  <2> QED BY <2>5 DEF Revokes
<1>3. \A b \in Tabs : StaysOrLeaves(b)
  <2>1. ASSUME NEW b \in Tabs, SignOut(b) PROVE \A d \in Tabs : StaysOrLeaves(d)
    <3>1. [SignedOut EXCEPT !.flight = tab[b].flight].refresh = None
          /\ [SignedOut EXCEPT !.flight = tab[b].flight].flight = tab[b].flight
      BY DEF SignedOut
    <3>2. tab' = [tab EXCEPT ![b] = [SignedOut EXCEPT !.flight = tab[b].flight]]
      BY <2>1 DEF SignOut
    <3> QED BY <3>1, <3>2, Types DEF StaysOrLeaves
  <2>2. ASSUME NEW b \in Tabs, Expired(b) PROVE \A d \in Tabs : StaysOrLeaves(d)
    BY <2>2, Types DEF Expired, SignedOut, StaysOrLeaves
  <2>3. tab' = tab => \A d \in Tabs : StaysOrLeaves(d)
    BY DEF StaysOrLeaves
  <2>4. tab' = tab \/ \E b \in Tabs : SignOut(b) \/ Expired(b)
    BY DEF vars, AccountStep, Submit, BadPassword, Recognise, LockPasses, Activate, EndAll, Suspend, Check, Unheard, Crash
  <2> QED BY <2>1, <2>2, <2>3, <2>4
<1>4. \A c \in Calls : GoesOn(c) \/ GivesUp(c)
  <2>1. UNCHANGED call => \A c \in Calls : GoesOn(c)
    BY DEF GoesOn
  <2>2. ASSUME NEW d \in Calls, Check(d) PROVE \A c \in Calls : GoesOn(c) \/ GivesUp(c)
    <3>1. call[d].at = "sent"
      BY <2>2 DEF Check
    <3>2. call' = [call EXCEPT ![d].at = "checked"] \/ call' = [call EXCEPT ![d].at = "refused"]
      BY <2>2 DEF Check
    <3> QED BY <3>1, <3>2, Types DEF GoesOn, GivesUp, CallRow
  <2>3. Idle.at = "idle" /\ [Idle EXCEPT !.at = "refused"].at = "refused"
    BY DEF Idle
  <2>4. ASSUME NEW d \in Calls, Unheard(d) PROVE \A c \in Calls : GoesOn(c) \/ GivesUp(c)
    <3>1. call' = [call EXCEPT ![d] = Idle] /\ tab' = tab
          /\ \A b \in Tabs : tab[b].flight # d
      BY <2>4 DEF Unheard
    <3> QED BY <2>3, <3>1, Types DEF GoesOn, GivesUp
  <2>5. ASSUME NEW d \in Calls, Crash(d) PROVE \A c \in Calls : GoesOn(c) \/ GivesUp(c)
    <3>1. call' = [call EXCEPT ![d] = [Idle EXCEPT !.at = "refused"]]
      BY <2>5 DEF Crash
    <3> QED BY <2>3, <3>1, Types DEF GoesOn, GivesUp
  <2>6. ASSUME NEW b \in Tabs, Expired(b) PROVE \A c \in Calls : GoesOn(c) \/ GivesUp(c)
    <3>1. PICK d : d = tab[b].flight
      OBVIOUS
    <3>2. d # None /\ d \in Calls
      BY <2>6, <3>1, Types DEF Expired, TabRow
    <3>3. tab' = [tab EXCEPT ![b] = SignedOut] /\ SignedOut.flight = None
      BY <2>6 DEF Expired, SignedOut
    <3>4. \A e \in Tabs : tab'[e].flight # d
      BY <3>1, <3>2, <3>3, Types DEF Threaded, OneFlightEach
    <3>5. \/ call' = [call EXCEPT ![d] = Idle]
          \/ call' = [call EXCEPT ![d] = call[d]]
      BY <2>6, <3>1 DEF Expired
    <3> QED BY <2>3, <3>2, <3>4, <3>5, Types DEF GoesOn, GivesUp
  <2>7. UNCHANGED call \/ (\E b \in Tabs : Expired(b)) \/ (\E c \in Calls : Check(c) \/ Unheard(c) \/ Crash(c))
    BY DEF vars, AccountStep, Submit, BadPassword, Recognise, LockPasses, Activate, EndAll, Suspend, SignOut
  <2> QED BY <2>1, <2>2, <2>4, <2>5, <2>6, <2>7
<1> QED BY <1>1, <1>2, <1>3, <1>4 DEF HandsNothingOn

(* Signing in begins a family of its own. *)
LEMMA SignInThreaded ==
  ASSUME Sound, Threaded, NEW b \in Tabs, NEW t \in Tokens, SignIn(b, t)
  PROVE  Threaded'
<1>1. /\ Keeps /\ token'[t].family = t /\ token'[t].revoked = Live
      /\ \A s \in Tokens : s # t => token'[s] = token[s]
      /\ \A s \in Tokens : token[s] # Absent => Fam(s) # t /\ s # t
      /\ token[t] = Absent
  BY SignInRows
<1>2. call' = call
  BY DEF SignIn
<1>3. tab'[b].refresh = t /\ tab'[b].flight = tab[b].flight /\ \A d \in Tabs : d # b => tab'[d] = tab[d]
  <2>1. tab[b] \in TabRow
    BY Types
  <2>2. PICK u : tab' = [tab EXCEPT ![b] = [tab[b] EXCEPT !.access = u, !.refresh = t, !.shown = u]]
    BY DEF SignIn
  <2> QED BY <2>1, <2>2, Types DEF TabRow
<1>4. \A c \in Calls : Carries(c) => Exists(call[c].token) /\ FamOf(c) # t /\ token'[call[c].token] = token[call[c].token]
  BY <1>1 DEF Carries, Sound, Refs, CallRefs, FamOf, Fam, Exists
<1>5. \A d \in Tabs : tab[d].refresh # None => Exists(tab[d].refresh) /\ Fam(tab[d].refresh) # t
                                              /\ token'[tab[d].refresh] = token[tab[d].refresh]
  BY <1>1 DEF Sound, Refs, TabRefs, Exists
<1>6. \A c \in Calls : call[c].at \in {"issued", "ok"} => token'[call[c].fresh] = token[call[c].fresh]
  BY <1>1 DEF Sound, Refs, CallRefs, Exists
<1>7. Live # "ROTATED"
  BY DEF Live
<1>8. OneFlightEach' /\ FlightsGoOn'
  BY <1>2, <1>3 DEF Threaded, OneFlightEach, FlightsGoOn
<1>9. OneCarrier'
  BY <1>2, <1>4 DEF Threaded, OneCarrier, Carries, FamOf
<1>10. TabAwaits'
  <2> SUFFICES ASSUME NEW d \in Tabs, NEW c \in Calls, Carries(c), tab'[d].refresh # None,
                      token'[tab'[d].refresh].family = token'[call[c].token].family
               PROVE  tab'[d].flight = c
    BY <1>2 DEF TabAwaits, Carries, FamOf, Fam
  <2>1. d # b
    BY <1>1, <1>3, <1>4 DEF FamOf
  <2> QED BY <2>1, <1>3, <1>4, <1>5 DEF Threaded, TabAwaits, FamOf, Fam
<1>11. OneTabEach'
  <2> SUFFICES ASSUME NEW d \in Tabs, NEW e \in Tabs, tab'[d].refresh # None, tab'[e].refresh # None,
                      token'[tab'[d].refresh].family = token'[tab'[e].refresh].family
               PROVE  d = e
    BY DEF OneTabEach, Fam
  <2>1. CASE d # b /\ e # b
    BY <2>1, <1>3, <1>5 DEF Threaded, OneTabEach, Fam
  <2>2. CASE d = b /\ e # b
    BY <2>2, <1>1, <1>3, <1>5 DEF Fam
  <2>3. CASE d # b /\ e = b
    BY <2>3, <1>1, <1>3, <1>5 DEF Fam
  <2> QED BY <2>1, <2>2, <2>3
<1>12. SentUnspent'
  BY <1>2, <1>4 DEF Threaded, SentUnspent, Carries
<1>13. StoredUnspent'
  BY <1>1, <1>3, <1>5, <1>7 DEF Threaded, StoredUnspent
<1>14. FreshUnspent'
  BY <1>2, <1>6 DEF Threaded, FreshUnspent
<1> QED BY <1>8, <1>9, <1>10, <1>11, <1>12, <1>13, <1>14 DEF Threaded

(* The tab that finds its session expired hands its family to a request. *)
LEMMA UnauthorizedThreaded ==
  ASSUME Sound, Threaded, NEW b \in Tabs, NEW c \in Calls, Unauthorized(b, c)
  PROVE  Threaded'
<1>1. PICK r : r = tab[b].refresh
  OBVIOUS
<1>2. r # None /\ Exists(r) /\ tab[b].flight = None /\ call[c].at = "idle" /\ token' = token
  BY <1>1 DEF Unauthorized, MayRefresh, Idle, Sound, Refs, TabRefs
<1>3. call'[c].at = "sent" /\ call'[c].token = r /\ \A d \in Calls : d # c => call'[d] = call[d]
  <2>1. call' = [call EXCEPT ![c] = [Idle EXCEPT !.at = "sent", !.token = r]]
    BY <1>1 DEF Unauthorized
  <2> QED BY <2>1, Types DEF Idle
<1>4. tab'[b].flight = c /\ tab'[b].refresh = r /\ \A d \in Tabs : d # b => tab'[d] = tab[d]
  <2>1. tab' = [tab EXCEPT ![b].flight = c]
    BY DEF Unauthorized
  <2> QED BY <1>1, <2>1, Types DEF TabRow
<1>5. c # None /\ \A d \in Tabs : tab[d].flight # c
  <2>1. c # None
    BY SessionsAssumption
  <2> QED BY <1>2, <2>1 DEF Threaded, FlightsGoOn
<1>6. \A d \in Calls : Carries(d) => FamOf(d) # Fam(r)
  <2>1. \A d \in Calls : d # None
    BY SessionsAssumption
  <2> QED BY <1>1, <1>2, <2>1 DEF Threaded, TabAwaits
<1>7. \A d \in Calls : d # c => Carries(d)' = Carries(d) /\ FamOf(d)' = FamOf(d)
  BY <1>2, <1>3 DEF Carries, FamOf
<1>8. Carries(c)' /\ FamOf(c)' = Fam(r) /\ ~Carries(c)
  BY <1>2, <1>3 DEF Carries, FamOf, Fam
<1>9. \A d \in Tabs : tab'[d].refresh = tab[d].refresh
  BY <1>1, <1>4
<1>10. OneFlightEach' /\ FlightsGoOn'
  <2>1. OneFlightEach'
    BY <1>4, <1>5 DEF Threaded, OneFlightEach
  <2>2. FlightsGoOn'
    <3>1. \A d \in Tabs : tab[d].flight \in Calls \cup {None}
      BY Types DEF TabRow
    <3> QED BY <1>3, <1>4, <1>5, <3>1 DEF Threaded, FlightsGoOn
  <2> QED BY <2>1, <2>2
<1>11. OneCarrier'
  BY <1>6, <1>7, <1>8 DEF Threaded, OneCarrier
<1>12. TabAwaits'
  <2> SUFFICES ASSUME NEW d \in Tabs, NEW e \in Calls, Carries(e)', tab[d].refresh # None,
                      Fam(tab[d].refresh) = FamOf(e)'
               PROVE  tab'[d].flight = e
    BY <1>2, <1>9 DEF TabAwaits, Fam
  <2>1. CASE e = c
    BY <1>1, <1>2, <1>4, <1>8, <2>1 DEF Threaded, OneTabEach
  <2>2. CASE e # c
    <3>1. tab[d].flight = e /\ d # b
      BY <1>1, <1>6, <1>7, <2>2 DEF Threaded, TabAwaits
    <3> QED BY <1>4, <3>1
  <2> QED BY <2>1, <2>2
<1>13. OneTabEach'
  BY <1>2, <1>9 DEF Threaded, OneTabEach, Fam
<1>14. SentUnspent'
  <2>1. token[r].revoked # "ROTATED"
    BY <1>1, <1>2 DEF Threaded, StoredUnspent
  <2> QED BY <1>2, <1>3, <2>1 DEF Threaded, SentUnspent
<1>15. StoredUnspent'
  BY <1>2, <1>4, <1>5 DEF Threaded, StoredUnspent
<1>16. FreshUnspent'
  BY <1>2, <1>3 DEF Threaded, FreshUnspent
<1> QED BY <1>10, <1>11, <1>12, <1>13, <1>14, <1>15, <1>16 DEF Threaded

(* The next token joins the family of its request. *)
LEMMA IssueThreaded ==
  ASSUME Sound, Threaded, NEW c \in Calls, NEW t \in Tokens, Issue(c, t)
  PROVE  Threaded'
<1>1. /\ Keeps /\ token'[t].family = FamOf(c) /\ token'[t].revoked = Live
      /\ \A s \in Tokens : s # t => token'[s] = token[s]
      /\ \A s \in Tokens : token[s] # Absent => s # t
      /\ call[c].at = "checked" /\ Carries(c)
  BY IssueRows DEF Carries, FamOf, Fam
<1>2. /\ call'[c].at = "issued" /\ call'[c].token = call[c].token /\ call'[c].fresh = t
      /\ \A d \in Calls : d # c => call'[d] = call[d]
  <2>1. call[c] \in CallRow
    BY Types
  <2>2. call' = [call EXCEPT ![c] = [call[c] EXCEPT !.at = "issued", !.fresh = t]]
    BY Types DEF Issue
  <2> QED BY <2>1, <2>2, Types DEF CallRow
<1>3. tab' = tab
  BY DEF Issue
<1>4. \A d \in Calls : /\ Carries(d)' <=> Carries(d)
                       /\ call'[d].token = call[d].token
                       /\ Carries(d) => /\ token'[call[d].token] = token[call[d].token]
                                        /\ FamOf(d)' = FamOf(d)
  <2>1. \A d \in Calls : (Carries(d)' <=> Carries(d)) /\ call'[d].token = call[d].token
    BY <1>1, <1>2 DEF Carries
  <2>2. \A d \in Calls : Carries(d) => token'[call[d].token] = token[call[d].token]
    BY <1>1 DEF Carries, Sound, Refs, CallRefs, Exists
  <2> QED BY <2>1, <2>2 DEF FamOf
<1>5. \A d \in Tabs : tab[d].refresh # None => token'[tab[d].refresh] = token[tab[d].refresh]
  BY <1>1 DEF Sound, Refs, TabRefs, Exists
<1>6. \A d \in Calls : call[d].at \in {"issued", "ok"} => token'[call[d].fresh] = token[call[d].fresh]
  BY <1>1 DEF Sound, Refs, CallRefs, Exists
<1>7. Live # "ROTATED" /\ c # None
  BY SessionsAssumption DEF Live
<1>8. OneFlightEach' /\ FlightsGoOn'
  <2>1. \A d \in Tabs : tab[d].flight \in Calls \cup {None}
    BY Types DEF TabRow
  <2> QED BY <1>1, <1>2, <1>3, <2>1 DEF Threaded, OneFlightEach, FlightsGoOn
<1>9. OneCarrier'
  BY <1>4 DEF Threaded, OneCarrier
<1>10. TabAwaits'
  BY <1>3, <1>4, <1>5 DEF Threaded, TabAwaits, Fam
<1>11. OneTabEach'
  BY <1>3, <1>5 DEF Threaded, OneTabEach, Fam
<1>12. SentUnspent'
  BY <1>2, <1>4 DEF Threaded, SentUnspent, Carries
<1>13. StoredUnspent'
  BY <1>3, <1>5 DEF Threaded, StoredUnspent
<1>14. FreshUnspent'
  BY <1>1, <1>2, <1>6, <1>7 DEF Threaded, FreshUnspent
<1> QED BY <1>8, <1>9, <1>10, <1>11, <1>12, <1>13, <1>14 DEF Threaded

(* The presented token leaves the family, the fresh one stays. *)
LEMMA RotateThreaded ==
  ASSUME Sound, Threaded, NEW c \in Calls, Rotate(c)
  PROVE  Threaded'
<1>1. PICK t : t = call[c].token
  OBVIOUS
<1>2. PICK n : n = call[c].fresh
  OBVIOUS
<1>3. /\ Keeps /\ NoneLive /\ call[c].at = "issued" /\ Carries(c) /\ Exists(t) /\ Exists(n)
      /\ n # t /\ Fam(n) = FamOf(c) /\ Fam(t) = FamOf(c)
      /\ token'[t].revoked = "ROTATED"
      /\ \A s \in Tokens : s # t => token'[s] = token[s]
  BY <1>1, <1>2, RotateRows DEF Carries, FamOf, Fam
<1>4. /\ call'[c].at = "ok" /\ call'[c].token = t /\ call'[c].fresh = n
      /\ \A d \in Calls : d # c => call'[d] = call[d]
  <2>1. call' = [call EXCEPT ![c].at = "ok"]
    BY DEF Rotate
  <2> QED BY <1>1, <1>2, <2>1, Types DEF CallRow
<1>5. tab' = tab
  BY DEF Rotate
<1>6. \A s : Exists(s) => token'[s].family = Fam(s)
  BY <1>3, SameFamilies
<1>7. \A d \in Calls : /\ Carries(d)' <=> Carries(d)
                       /\ call'[d].token = call[d].token
                       /\ call'[d].fresh = call[d].fresh
                       /\ Carries(d) => FamOf(d)' = FamOf(d) /\ Exists(call[d].token)
  <2>1. \A d \in Calls : (Carries(d)' <=> Carries(d)) /\ call'[d].token = call[d].token
                        /\ call'[d].fresh = call[d].fresh
    BY <1>1, <1>2, <1>3, <1>4 DEF Carries
  <2>2. \A d \in Calls : Carries(d) => Exists(call[d].token)
    BY DEF Carries, Sound, Refs, CallRefs
  <2> QED BY <1>6, <2>1, <2>2 DEF FamOf, Fam
<1>8. \A d \in Tabs : tab[d].refresh # None => Exists(tab[d].refresh)
                        /\ token'[tab[d].refresh].family = Fam(tab[d].refresh)
  BY <1>6 DEF Sound, Refs, TabRefs
<1>10. c # None
  BY SessionsAssumption
<1>11. OneFlightEach' /\ FlightsGoOn'
  <2>1. \A d \in Tabs : tab[d].flight \in Calls \cup {None}
    BY Types DEF TabRow
  <2> QED BY <1>4, <1>5, <2>1 DEF Threaded, OneFlightEach, FlightsGoOn
<1>12. OneCarrier'
  BY <1>7 DEF Threaded, OneCarrier
<1>13. TabAwaits'
  BY <1>5, <1>7, <1>8 DEF Threaded, TabAwaits, Fam
<1>14. OneTabEach'
  BY <1>5, <1>8 DEF Threaded, OneTabEach, Fam
<1>15. SentUnspent'
  <2> SUFFICES ASSUME NEW d \in Calls, call'[d].at = "sent"
               PROVE  token'[call'[d].token].revoked # "ROTATED"
    BY DEF SentUnspent
  <2>1. d # c /\ call[d].at = "sent" /\ Carries(d)
    BY <1>4 DEF Carries
  <2>2. call[d].token # t
    BY <1>1, <1>3, <2>1 DEF Threaded, OneCarrier, FamOf
  <2> QED BY <1>3, <1>7, <2>1, <2>2 DEF Threaded, SentUnspent, Exists
<1>16. StoredUnspent'
  <2> SUFFICES ASSUME NEW d \in Tabs, tab[d].refresh # None, tab[d].flight = None
               PROVE  token'[tab[d].refresh].revoked # "ROTATED"
    BY <1>5 DEF StoredUnspent
  <2>1. tab[d].refresh # t
    BY <1>3, <1>10 DEF Threaded, TabAwaits
  <2> QED BY <1>3, <1>8, <2>1 DEF Threaded, StoredUnspent, Exists
<1>17. FreshUnspent'
  <2> SUFFICES ASSUME NEW d \in Calls, call'[d].at \in {"issued", "ok"}
               PROVE  token'[call'[d].fresh].revoked # "ROTATED"
    BY DEF FreshUnspent
  <2>1. Carries(d) /\ call[d].at \in {"issued", "ok"}
    BY <1>3, <1>4 DEF Carries
  <2>2. Exists(call[d].fresh) /\ Fam(call[d].fresh) = FamOf(d)
    BY <2>1 DEF Sound, Refs, CallRefs, FamOf, Fam
  <2>3. call[d].fresh # t
    BY <1>2, <1>3, <2>1, <2>2 DEF Threaded, OneCarrier
  <2> QED BY <1>3, <1>7, <2>1, <2>2, <2>3 DEF Threaded, FreshUnspent, Exists
<1> QED BY <1>11, <1>12, <1>13, <1>14, <1>15, <1>16, <1>17 DEF Threaded

(* The tab that awaited the request takes the family back. *)
LEMMA RenewedThreaded ==
  ASSUME Sound, Threaded, NEW b \in Tabs, Renewed(b)
  PROVE  Threaded'
<1>1. PICK c : c = tab[b].flight
  OBVIOUS
<1>2. PICK n : n = call[c].fresh
  OBVIOUS
<1>3. c \in Calls /\ c # None /\ call[c].at = "ok" /\ token' = token
  BY <1>1, Types DEF Renewed, TabRow
<1>4. Carries(c) /\ Exists(n) /\ Fam(n) = FamOf(c)
  BY <1>2, <1>3 DEF Carries, Sound, Refs, CallRefs, FamOf, Fam
<1>5. call'[c].at = "idle" /\ \A d \in Calls : d # c => call'[d] = call[d]
  <2>1. call' = [call EXCEPT ![c] = Idle]
    BY <1>1 DEF Renewed
  <2> QED BY <1>3, <2>1, Types DEF Idle
<1>6. tab'[b].refresh = n /\ tab'[b].flight = None /\ \A d \in Tabs : d # b => tab'[d] = tab[d]
  <2>1. tab[b] \in TabRow
    BY Types
  <2>2. tab' = [tab EXCEPT ![b] = [tab[b] EXCEPT !.access = token[n].user, !.refresh = n, !.flight = None]]
    BY <1>1, <1>2 DEF Renewed
  <2> QED BY <2>1, <2>2, Types DEF TabRow
<1>7. \A d \in Calls : Carries(d)' <=> Carries(d) /\ d # c
  BY <1>5 DEF Carries
<1>8. \A d \in Calls : d # c /\ Carries(d) => FamOf(d)' = FamOf(d) /\ FamOf(d) # Fam(n)
  BY <1>3, <1>4, <1>5 DEF Threaded, OneCarrier, FamOf
<1>9. \A d \in Tabs : d # b => tab[d].flight # c
  BY <1>1, <1>3 DEF Threaded, OneFlightEach
<1>10. \A d \in Tabs : d # b /\ tab[d].refresh # None => Fam(tab[d].refresh) # Fam(n)
  BY <1>3, <1>4, <1>9 DEF Threaded, TabAwaits
<1>11. OneFlightEach'
  BY <1>6 DEF Threaded, OneFlightEach
<1>12. FlightsGoOn'
  <2>1. \A d \in Tabs : tab[d].flight \in Calls \cup {None}
    BY Types DEF TabRow
  <2> QED BY <1>5, <1>6, <1>9, <2>1 DEF Threaded, FlightsGoOn
<1>13. OneCarrier'
  BY <1>7, <1>8 DEF Threaded, OneCarrier
<1>14. TabAwaits'
  <2> SUFFICES ASSUME NEW d \in Tabs, NEW e \in Calls, Carries(e), e # c, tab'[d].refresh # None,
                      Fam(tab'[d].refresh) = FamOf(e)
               PROVE  tab'[d].flight = e
    BY <1>3, <1>7, <1>8 DEF TabAwaits, Fam
  <2>1. d # b
    BY <1>6, <1>8
  <2> QED BY <1>6, <2>1 DEF Threaded, TabAwaits
<1>15. OneTabEach'
  BY <1>3, <1>6, <1>10 DEF Threaded, OneTabEach, Fam
<1>16. SentUnspent'
  BY <1>3, <1>5 DEF Threaded, SentUnspent
<1>17. StoredUnspent'
  <2>1. token[n].revoked # "ROTATED"
    BY <1>2, <1>3 DEF Threaded, FreshUnspent
  <2> QED BY <1>3, <1>6, <2>1 DEF Threaded, StoredUnspent
<1>18. FreshUnspent'
  BY <1>3, <1>5 DEF Threaded, FreshUnspent
<1> QED BY <1>11, <1>12, <1>13, <1>14, <1>15, <1>16, <1>17, <1>18 DEF Threaded

ThreadInv == reloads = 0 => Threaded

LEMMA StepKeepsThreads ==
  ASSUME Sound, Sound', ThreadInv, [Next]_vars
  PROVE  ThreadInv'
<1>1. reloads' = 0 => reloads = 0
  <2>1. reloads' = reloads \/ reloads' = reloads + 1
    BY Zenon DEF Next, vars, SignIn, Submit, BadPassword, Recognise, LockPasses, EndAll, Suspend, Activate, SignOut,
       Renewed, Expired, Reload, Unauthorized, Check, Rotate, Unheard, Crash, Issue
  <2> QED BY <2>1, Types
<1> SUFFICES ASSUME reloads' = 0
             PROVE  Threaded'
  BY DEF ThreadInv
<1>2. Threaded
  BY <1>1 DEF ThreadInv
<1>3. ASSUME \/ UNCHANGED vars
             \/ AccountStep \/ \E u \in Users : EndAll(u) \/ Suspend(u)
             \/ \E b \in Tabs : SignOut(b) \/ Expired(b)
             \/ \E c \in Calls : Check(c) \/ Unheard(c) \/ Crash(c)
      PROVE  Threaded'
  BY <1>2, <1>3, HandingNothingOn, NothingOnThreaded
<1>4. ASSUME NEW b \in Tabs, Reload(b) PROVE FALSE
  BY <1>4, Types DEF Reload
<1>5. ASSUME \/ \E b \in Tabs, t \in Tokens : SignIn(b, t)
             \/ \E b \in Tabs, c \in Calls : Unauthorized(b, c)
             \/ \E c \in Calls, t \in Tokens : Issue(c, t)
             \/ \E c \in Calls : Rotate(c)
             \/ \E b \in Tabs : Renewed(b)
      PROVE  Threaded'
  BY <1>2, <1>5, SignInThreaded, UnauthorizedThreaded, IssueThreaded, RotateThreaded, RenewedThreaded
<1>6. \/ UNCHANGED vars
      \/ AccountStep \/ \E u \in Users : EndAll(u) \/ Suspend(u)
      \/ \E b \in Tabs : SignOut(b) \/ Expired(b)
      \/ \E c \in Calls : Check(c) \/ Unheard(c) \/ Crash(c)
      \/ \E b \in Tabs : Reload(b)
      \/ \E b \in Tabs, t \in Tokens : SignIn(b, t)
      \/ \E b \in Tabs, c \in Calls : Unauthorized(b, c)
      \/ \E c \in Calls, t \in Tokens : Issue(c, t)
      \/ \E c \in Calls : Rotate(c)
      \/ \E b \in Tabs : Renewed(b)
  BY DEF Next, AccountStep
<1> QED BY <1>3, <1>4, <1>5, <1>6

LEMMA AlwaysThreads == Spec => []ThreadInv
<1>1. Init => ThreadInv
  <2> SUFFICES ASSUME Init PROVE Threaded
    BY DEF ThreadInv
  <2>1. /\ \A c \in Calls : call[c].at = "idle"
        /\ \A b \in Tabs : tab[b].refresh = None /\ tab[b].flight = None
        /\ \A t \in Tokens : token[t].revoked # Live
    BY DEF Init, Idle, SignedOut, Absent, Live
  <2> QED BY <2>1 DEF Threaded, OneFlightEach, FlightsGoOn, OneCarrier, TabAwaits, OneTabEach,
       SentUnspent, StoredUnspent, FreshUnspent, Carries
<1>2. Sound /\ Sound' /\ ThreadInv /\ [Next]_vars => ThreadInv'
  BY StepKeepsThreads
<1> QED BY <1>1, <1>2, TypeCorrect, PTL DEF Spec

(* No token is presented twice by a console that is not reloaded, so that  *)
(* rotation is never taken for theft (refreshOnce).                        *)
THEOREM SpentOnce == Spec => []NeverSpentTwice
<1>1. ThreadInv => NeverSpentTwice
  BY DEF ThreadInv, Threaded, SentUnspent, NeverSpentTwice
<1> QED BY <1>1, AlwaysThreads, PTL

------------------------------------------------------------------------------
(* One live token per family, whatever the console does                    *)

(* OneLiveToken is not inductive: a refresh past its check will issue a    *)
(* live token, and must find no other live one than the one it exchanges.  *)
OneEach ==
  \A f \in Tokens \ forked :
    /\ \A c, d \in PastCheck(f) : c = d
    /\ \A c \in PastCheck(f), s \in LiveIn(f) :
         s = call[c].token \/ (call[c].at = "issued" /\ s = call[c].fresh)
    /\ PastCheck(f) = {} => \A s, t \in LiveIn(f) : s = t

(* No token becomes live and no refresh passes its check; one that ends    *)
(* between issuing and revoking leaves a single token, or is in forked.    *)
CalmFor(c) ==
  \/ call'[c] = call[c]
  \/ /\ call'[c].at \notin {"checked", "issued"}
     /\ call[c].at = "issued" => \/ Fam(call[c].token) \in forked'
                                 \/ token'[call[c].token].revoked # Live

LEMMA CalmStep ==
  ASSUME Sound, OneEach, Keeps, NoneLive, forked \subseteq forked',
         \A c \in Calls : CalmFor(c)
  PROVE  OneEach'
<1> SUFFICES ASSUME NEW f \in Tokens, f \notin forked'
             PROVE  /\ \A c, d \in PastCheck(f)' : c = d
                    /\ \A c \in PastCheck(f)', s \in LiveIn(f)' :
                         s = call'[c].token \/ (call'[c].at = "issued" /\ s = call'[c].fresh)
                    /\ PastCheck(f)' = {} => \A s, t \in LiveIn(f)' : s = t
  BY DEF OneEach
<1>1. f \in Tokens \ forked
  OBVIOUS
<1>2. LiveIn(f)' \subseteq LiveIn(f) /\ \A s \in LiveIn(f)' : token'[s].revoked = Live
  BY DEF NoneLive, LiveIn
<1>3. \A c \in PastCheck(f)' : c \in PastCheck(f) /\ call'[c] = call[c]
  <2> SUFFICES ASSUME NEW c \in PastCheck(f)' PROVE c \in PastCheck(f) /\ call'[c] = call[c]
    OBVIOUS
  <2>1. c \in Calls /\ call'[c].at \in {"checked", "issued"} /\ token'[call'[c].token].family = f
    BY DEF PastCheck
  <2>2. call'[c] = call[c]
    BY <2>1 DEF CalmFor
  <2>3. Exists(call[c].token)
    BY <2>1, <2>2 DEF Sound, Refs, CallRefs
  <2>4. token[call[c].token].family = f
    BY <2>1, <2>2, <2>3 DEF Keeps, Exists
  <2> QED BY <2>1, <2>2, <2>4 DEF PastCheck
<1>4. ASSUME PastCheck(f)' = {}, NEW s \in LiveIn(f)', NEW t \in LiveIn(f)' PROVE s = t
  <2>1. CASE PastCheck(f) = {}
    BY <1>1, <1>2, <2>1 DEF OneEach
  <2>2. ASSUME NEW c \in PastCheck(f) PROVE s = t
    <3>1. /\ c \in Calls /\ call[c].at \in {"checked", "issued"}
          /\ Fam(call[c].token) = f /\ Exists(call[c].token)
      BY DEF PastCheck, Sound, Refs, CallRefs, Fam
    <3>2. call'[c] # call[c]
      <4> SUFFICES ASSUME call'[c] = call[c] PROVE FALSE
        OBVIOUS
      <4>1. token'[call[c].token].family = f
        BY <3>1 DEF Keeps, Exists, Fam
      <4> QED BY <1>4, <3>1, <4>1 DEF PastCheck
    <3>3. call[c].at = "issued" => token'[call[c].token].revoked # Live
      BY <3>1, <3>2 DEF CalmFor
    <3>4. \A r \in LiveIn(f)' : r = call[c].token \/ (call[c].at = "issued" /\ r = call[c].fresh)
      BY <1>1, <1>2 DEF OneEach
    <3> QED BY <1>2, <3>3, <3>4
  <2> QED BY <2>1, <2>2
<1> QED
  <2>1. \A c, d \in PastCheck(f)' : c = d
    BY <1>1, <1>3 DEF OneEach
  <2>2. \A c \in PastCheck(f)', s \in LiveIn(f)' :
          s = call'[c].token \/ (call'[c].at = "issued" /\ s = call'[c].fresh)
    BY <1>1, <1>2, <1>3 DEF OneEach
  <2> QED BY <1>4, <2>1, <2>2

(* A family begins with one live token, and nobody refreshes it yet. *)
LEMMA SignInOneEach ==
  ASSUME Sound, OneEach, NEW b \in Tabs, NEW t \in Tokens, SignIn(b, t)
  PROVE  OneEach'
<1>1. /\ token[t] = Absent /\ token'[t].family = t
      /\ \A s \in Tokens : s # t => token'[s] = token[s]
      /\ \A s \in Tokens : token[s] # Absent => Fam(s) # t /\ s # t
  BY SignInRows
<1>2. call' = call /\ forked' = forked
  BY DEF SignIn
<1>3. \A f \in Tokens : PastCheck(f)' = PastCheck(f)
  <2>1. \A c \in Calls : call[c].at \in {"checked", "issued"} =>
           call[c].token \in Tokens /\ call[c].token # t
    BY <1>1 DEF Sound, Refs, CallRefs, Exists
  <2> QED BY <1>1, <1>2, <2>1 DEF PastCheck
<1>4. \A f \in Tokens : f # t => LiveIn(f)' = LiveIn(f)
  <2>1. t \notin {s \in Tokens : token[s].revoked = Live}
    BY <1>1 DEF Absent, Live
  <2> QED BY <1>1, <2>1 DEF LiveIn
<1>5. LiveIn(t)' \subseteq {t}
  <2> SUFFICES ASSUME NEW s \in Tokens, s # t, token[s].revoked = Live, token[s].family = t
               PROVE  FALSE
    BY <1>1 DEF LiveIn
  <2>1. token[s] # Absent
    BY DEF Absent, Live
  <2> QED BY <1>1, <2>1 DEF Fam
<1>6. PastCheck(t) = {}
  <2> SUFFICES ASSUME NEW c \in PastCheck(t) PROVE FALSE
    OBVIOUS
  <2>1. Exists(call[c].token) /\ Fam(call[c].token) = t
    BY DEF PastCheck, Sound, Refs, CallRefs, Fam
  <2> QED BY <1>1, <2>1 DEF Exists
<1> QED
  <2> SUFFICES ASSUME NEW f \in Tokens, f \notin forked
               PROVE  /\ \A c, d \in PastCheck(f) : c = d
                      /\ \A c \in PastCheck(f), s \in LiveIn(f)' :
                           s = call[c].token \/ (call[c].at = "issued" /\ s = call[c].fresh)
                      /\ PastCheck(f) = {} => \A s, r \in LiveIn(f)' : s = r
    BY <1>2, <1>3 DEF OneEach
  <2>1. CASE f = t
    BY <1>5, <1>6, <2>1
  <2>2. CASE f # t
    BY <1>4, <2>2 DEF OneEach
  <2> QED BY <2>1, <2>2

(* The first refresh past its check finds only the token it presents; a    *)
(* second one puts the family into forked.                                 *)
LEMMA CheckOneEach ==
  ASSUME Sound, OneEach, NEW c \in Calls, Check(c),
         token[call[c].token].revoked = Live, user[token[call[c].token].user].active
  PROVE  OneEach'
<1>1. PICK t : t = call[c].token
  OBVIOUS
<1>2. call[c].at = "sent" /\ Exists(t)
  BY <1>1 DEF Check, Sound, Refs, CallRefs
<1>3. /\ token' = token /\ call' = [call EXCEPT ![c].at = "checked"]
      /\ forked' = IF PastCheck(Fam(t)) = {} THEN forked ELSE forked \cup {Fam(t)}
  BY <1>1 DEF Check, Fam
<1>4. /\ call'[c].at = "checked" /\ call'[c].token = t
      /\ \A d \in Calls : d # c => call'[d] = call[d]
  BY <1>1, <1>3, Types DEF CallRow
<1>5. \A f : PastCheck(f)' = IF f = Fam(t) THEN PastCheck(f) \cup {c} ELSE PastCheck(f)
  <2> SUFFICES ASSUME NEW f, NEW d \in Calls
               PROVE  d \in PastCheck(f)' <=> d \in PastCheck(f) \/ (f = Fam(t) /\ d = c)
    BY DEF PastCheck
  <2>1. CASE d = c
    BY <1>2, <1>3, <1>4, <2>1 DEF PastCheck, Fam
  <2>2. CASE d # c
    BY <1>3, <1>4, <2>2 DEF PastCheck
  <2> QED BY <2>1, <2>2
<1>6. \A f : LiveIn(f)' = LiveIn(f)
  BY <1>3 DEF LiveIn
<1>7. c \notin PastCheck(Fam(t))
  BY <1>2 DEF PastCheck
<1> SUFFICES ASSUME NEW f \in Tokens, f \notin forked'
             PROVE  /\ \A d, e \in PastCheck(f)' : d = e
                    /\ \A d \in PastCheck(f)', s \in LiveIn(f) :
                         s = call'[d].token \/ (call'[d].at = "issued" /\ s = call'[d].fresh)
                    /\ PastCheck(f)' = {} => \A s, r \in LiveIn(f) : s = r
  BY <1>6 DEF OneEach
<1>8. f \in Tokens \ forked
  BY <1>3
<1>9. CASE f = Fam(t)
  <2>1. PastCheck(f) = {} /\ PastCheck(f)' = {c}
    BY <1>3, <1>5, <1>9
  <2>2. t \in LiveIn(f)
    BY <1>1, <1>2, <1>9 DEF LiveIn, Exists, Fam
  <2>3. \A s \in LiveIn(f) : s = t
    BY <1>8, <2>1, <2>2 DEF OneEach
  <2> QED BY <1>4, <2>1, <2>3
<1>10. CASE f # Fam(t)
  <2>1. PastCheck(f)' = PastCheck(f)
    BY <1>5, <1>10
  <2>2. \A d \in PastCheck(f) : call'[d] = call[d]
    <3>1. c \notin PastCheck(f)
      BY <1>2 DEF PastCheck
    <3> QED BY <1>4, <3>1 DEF PastCheck
  <2> QED BY <1>8, <2>1, <2>2 DEF OneEach
<1> QED BY <1>9, <1>10

(* The token issued is the second live one at most. *)
LEMMA IssueOneEach ==
  ASSUME Sound, OneEach, NEW c \in Calls, NEW t \in Tokens, Issue(c, t)
  PROVE  OneEach'
<1>1. PICK g : g = Fam(call[c].token)
  OBVIOUS
<1>2. /\ Keeps /\ token'[t].family = g
      /\ \A s \in Tokens : s # t => token'[s] = token[s]
      /\ \A s \in Tokens : token[s] # Absent => s # t
      /\ token[t] = Absent /\ call[c].at = "checked" /\ Exists(call[c].token)
  BY <1>1, IssueRows
<1>3. /\ call'[c].at = "issued" /\ call'[c].token = call[c].token /\ call'[c].fresh = t
      /\ \A d \in Calls : d # c => call'[d] = call[d]
  <2>1. call[c] \in CallRow
    BY Types
  <2>2. call' = [call EXCEPT ![c] = [call[c] EXCEPT !.at = "issued", !.fresh = t]]
    BY Types DEF Issue
  <2> QED BY <2>1, <2>2, Types DEF CallRow
<1>4. forked' = forked
  BY DEF Issue
<1>5. \A f : PastCheck(f)' = PastCheck(f)
  <2> SUFFICES ASSUME NEW f, NEW d \in Calls
               PROVE  d \in PastCheck(f)' <=> d \in PastCheck(f)
    BY DEF PastCheck
  <2>1. call[d].at \in {"checked", "issued"} <=> call'[d].at \in {"checked", "issued"}
    BY <1>2, <1>3
  <2>2. call'[d].token = call[d].token
    BY <1>3
  <2>3. call[d].at \in {"checked", "issued"} => token'[call[d].token] = token[call[d].token]
    BY <1>2 DEF Sound, Refs, CallRefs, Exists
  <2> QED BY <2>1, <2>2, <2>3 DEF PastCheck
<1>6. \A f : LiveIn(f)' \subseteq LiveIn(f) \cup {t}
  BY <1>2 DEF LiveIn
<1>7. \A f : f # g => LiveIn(f)' \subseteq LiveIn(f)
  BY <1>2 DEF LiveIn
<1>8. c \in PastCheck(g)
  BY <1>1, <1>2 DEF PastCheck, Fam
<1> SUFFICES ASSUME NEW f \in Tokens \ forked
             PROVE  /\ \A d, e \in PastCheck(f) : d = e
                    /\ \A d \in PastCheck(f), s \in LiveIn(f)' :
                         s = call'[d].token \/ (call'[d].at = "issued" /\ s = call'[d].fresh)
                    /\ PastCheck(f) = {} => \A s, r \in LiveIn(f)' : s = r
  BY <1>4, <1>5 DEF OneEach
<1>9. CASE f = g
  <2>1. \A d \in PastCheck(f) : d = c
    BY <1>8, <1>9 DEF OneEach
  <2>2. \A s \in LiveIn(f) : s = call[c].token
    BY <1>2, <1>8, <1>9 DEF OneEach
  <2> QED BY <1>3, <1>6, <1>8, <1>9, <2>1, <2>2
<1>10. CASE f # g
  <2>1. c \notin PastCheck(f)
    BY <1>1, <1>10 DEF PastCheck, Fam
  <2>2. \A d \in PastCheck(f) : call'[d] = call[d]
    BY <1>3, <2>1 DEF PastCheck
  <2> QED BY <1>7, <1>10, <2>2 DEF OneEach
<1> QED BY <1>9, <1>10

LEMMA StepKeepsOneEach ==
  ASSUME Sound, OneEach, [Next]_vars
  PROVE  OneEach'
<1>1. ASSUME NEW ts, NEW reason \in Reason, token' = Revoked(ts, reason)
      PROVE  Keeps /\ NoneLive
  BY <1>1, RevokedKeeps
<1>2. ASSUME UNCHANGED token PROVE Keeps /\ NoneLive
  BY <1>2, KeepsRows DEF NoneLive
<1>3. ASSUME \/ \E u \in Users : EndAll(u) \/ Suspend(u)
             \/ \E b \in Tabs : SignOut(b)
      PROVE  OneEach'
  <2>1. UNCHANGED <<call, forked>>
    BY <1>3 DEF EndAll, Suspend, SignOut
  <2>2. "ENDED" \in Reason /\ "LOGOUT" \in Reason
    BY DEF Reason
  <2>3. UNCHANGED token \/ \E ts, reason : reason \in Reason /\ token' = Revoked(ts, reason)
    BY <1>3, <2>2 DEF EndAll, Suspend, SignOut
  <2> QED BY <1>1, <1>2, <2>1, <2>3, CalmStep DEF CalmFor
<1>4. ASSUME \/ UNCHANGED vars
             \/ AccountStep
             \/ \E b \in Tabs : Reload(b)
      PROVE  OneEach'
  <2>1. UNCHANGED <<token, call, forked>>
    BY <1>4 DEF vars, AccountStep, Submit, BadPassword, Recognise, LockPasses, Activate, Reload
  <2> QED BY <1>2, <2>1, CalmStep DEF CalmFor
<1>5. Idle.at = "idle" /\ [Idle EXCEPT !.at = "refused"].at = "refused"
      /\ \A t : [Idle EXCEPT !.at = "sent", !.token = t].at = "sent"
  BY DEF Idle
<1>6. ASSUME NEW b \in Tabs, NEW c \in Calls, Unauthorized(b, c)
      PROVE  OneEach'
  <2>1. call' = [call EXCEPT ![c] = [Idle EXCEPT !.at = "sent", !.token = tab[b].refresh]]
        /\ call[c].at = "idle" /\ UNCHANGED <<token, forked>>
    BY <1>5, <1>6 DEF Unauthorized
  <2>2. \A d \in Calls : CalmFor(d)
    BY <1>5, <2>1, Types DEF CalmFor
  <2> QED BY <1>2, <2>1, <2>2, CalmStep
<1>7. ASSUME NEW c \in Calls, Check(c)
      PROVE  OneEach'
  <2>1. CASE token[call[c].token].revoked = Live /\ user[token[call[c].token].user].active
    BY <1>7, <2>1, CheckOneEach
  <2>2. CASE ~(token[call[c].token].revoked = Live /\ user[token[call[c].token].user].active)
    <3>1. call' = [call EXCEPT ![c].at = "refused"] /\ call[c].at = "sent" /\ UNCHANGED forked
      BY <1>7, <2>2 DEF Check
    <3>2. \A d \in Calls : CalmFor(d)
      BY <3>1, Types DEF CalmFor, CallRow
    <3>3. PICK reason \in Reason : token' = Revoked(Family(call[c].token), reason)
      <4>1. (IF token[call[c].token].revoked = Live
             THEN "USER_INACTIVE" ELSE "REUSE_DETECTED") \in Reason
        BY DEF Reason
      <4> QED BY <1>7, <2>2, <4>1 DEF Check
    <3> QED BY <1>1, <3>1, <3>2, <3>3, CalmStep
  <2> QED BY <2>1, <2>2
<1>8. ASSUME NEW c \in Calls, Rotate(c)
      PROVE  OneEach'
  <2>1. call' = [call EXCEPT ![c].at = "ok"] /\ UNCHANGED forked
    BY <1>8 DEF Rotate
  <2>2. Keeps /\ NoneLive /\ token'[call[c].token].revoked # Live
    BY <1>8, RotateRows DEF Live
  <2>3. \A d \in Calls : CalmFor(d)
    BY <2>1, <2>2, Types DEF CalmFor, CallRow
  <2> QED BY <2>1, <2>2, <2>3, CalmStep
<1>9. ASSUME NEW c \in Calls, Crash(c)
      PROVE  OneEach'
  <2>1. /\ call' = [call EXCEPT ![c] = [Idle EXCEPT !.at = "refused"]] /\ UNCHANGED token
        /\ forked' = IF call[c].at = "checked" THEN forked ELSE forked \cup {Fam(call[c].token)}
    BY <1>9 DEF Crash, Fam
  <2>2. \A d \in Calls : CalmFor(d)
    BY <1>5, <2>1, Types DEF CalmFor
  <2> QED BY <1>2, <2>1, <2>2, CalmStep
<1>10. ASSUME NEW c, call[c].at \notin {"checked", "issued"}, call' = [call EXCEPT ![c] = Idle],
              UNCHANGED <<token, forked>>
       PROVE  OneEach'
  <2>1. \A d \in Calls : CalmFor(d)
    BY <1>5, <1>10, Types DEF CalmFor
  <2> QED BY <1>2, <1>10, <2>1, CalmStep
<1>11. ASSUME \/ \E b \in Tabs : Renewed(b) \/ Expired(b)
              \/ \E c \in Calls : Unheard(c)
       PROVE  OneEach'
  <2>1. ASSUME NEW b \in Tabs, Renewed(b) PROVE OneEach'
    BY <1>10, <2>1 DEF Renewed
  <2>2. ASSUME NEW c \in Calls, Unheard(c) PROVE OneEach'
    BY <1>10, <2>2 DEF Unheard
  <2>3. ASSUME NEW b \in Tabs, Expired(b) PROVE OneEach'
    <3>1. PICK c : c = tab[b].flight
      OBVIOUS
    <3>2. UNCHANGED <<token, forked>>
          /\ call' = [call EXCEPT ![c] = IF @.at \in {"refused", "ok", "idle"} THEN Idle ELSE @]
      BY <2>3, <3>1 DEF Expired
    <3>3. CASE call[c].at \in {"refused", "ok", "idle"}
      BY <1>10, <3>2, <3>3
    <3>4. CASE call[c].at \notin {"refused", "ok", "idle"}
      <4>1. \A d \in Calls : CalmFor(d)
        BY <3>2, <3>4, Types DEF CalmFor
      <4> QED BY <1>2, <3>2, <4>1, CalmStep
    <3> QED BY <3>3, <3>4
  <2> QED BY <1>11, <2>1, <2>2, <2>3
<1> QED BY <1>3, <1>4, <1>6, <1>7, <1>8, <1>9, <1>11, SignInOneEach, IssueOneEach
        DEF Next, AccountStep

(* A family has one live token, and a second one only between issuing the  *)
(* next and revoking the last, unless two of its refreshes were past their *)
(* checks at once or one died in between (refresh).                        *)
THEOREM LiveOnce == Spec => []OneLiveToken
<1>1. Init => OneEach
  <2>1. Init => \A c \in Calls : call[c].at = "idle"
    BY DEF Init, Idle
  <2>2. Init => \A t \in Tokens : token[t].revoked # Live
    BY DEF Init, Absent, Live
  <2> QED BY <2>1, <2>2 DEF OneEach, PastCheck, LiveIn
<1>2. Sound /\ OneEach /\ [Next]_vars => OneEach'
  BY StepKeepsOneEach
<1>3. ASSUME OneEach PROVE OneLiveToken
  <2> SUFFICES ASSUME NEW f \in Tokens \ forked
               PROVE  Cardinality(LiveIn(f)) <= 1 + Cardinality(
                        {c \in Calls : call[c].at = "issued" /\ token[call[c].token].family = f})
    BY DEF OneLiveToken
  <2> DEFINE issued == {c \in Calls : call[c].at = "issued" /\ token[call[c].token].family = f}
  <2>1. issued \subseteq PastCheck(f)
    BY DEF PastCheck
  <2>2. CASE issued = {}
    <3>1. \A s, t \in LiveIn(f) : s = t
      <4>1. CASE PastCheck(f) = {}
        BY <1>3, <4>1 DEF OneEach
      <4>2. ASSUME NEW c \in PastCheck(f) PROVE \A s \in LiveIn(f) : s = call[c].token
        <5>1. call[c].at # "issued"
          BY <2>2 DEF PastCheck
        <5> QED BY <1>3, <5>1 DEF OneEach
      <4> QED BY <4>1, <4>2
    <3>2. LiveIn(f) = {} \/ \E s : LiveIn(f) = {s}
      BY <3>1
    <3>3. Cardinality(LiveIn(f)) \in {0, 1}
      BY <3>2, FS_EmptySet, FS_Singleton
    <3>4. Cardinality(issued) = 0
      BY <2>2, FS_EmptySet
    <3> QED BY <3>3, <3>4
  <2>3. ASSUME NEW c \in issued
        PROVE  Cardinality(LiveIn(f)) <= 1 + Cardinality(issued)
    <3>1. issued = {c}
      BY <1>3, <2>1 DEF OneEach
    <3>2. PICK t, n : t = call[c].token /\ n = call[c].fresh
      OBVIOUS
    <3>3. LiveIn(f) \subseteq {t, n}
      BY <1>3, <2>1, <3>2 DEF OneEach
    <3>4. IsFiniteSet({t, n}) /\ Cardinality({t, n}) \in {1, 2}
      <4>1. IsFiniteSet({t}) /\ Cardinality({t}) = 1
        BY FS_Singleton
      <4>2. {t, n} = {t} \cup {n}
        OBVIOUS
      <4> QED BY <4>1, <4>2, FS_AddElement
    <3>5. Cardinality(LiveIn(f)) \in Nat /\ Cardinality(LiveIn(f)) <= 2
      BY <3>3, <3>4, FS_Subset, FS_CardinalityType
    <3>6. Cardinality(issued) = 1
      BY <3>1, FS_Singleton
    <3> HIDE DEF issued
    <3> QED BY <3>5, <3>6
  <2> QED BY <2>2, <2>3
<1> QED BY <1>1, <1>2, <1>3, TypeCorrect, PTL DEF Spec
===============================================================================
