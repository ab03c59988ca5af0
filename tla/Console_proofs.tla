---------------------------- MODULE Console_proofs ----------------------------
(***************************************************************************)
(* The query cache of a tab shows a person only his own rows, under the    *)
(* heading that they were asked for, and shows what he has changed.  That  *)
(* rests on what every fetch carries: who asked, for which key, and whether *)
(* the answer was read before the last action (Own, Marked).               *)
(*                                                                         *)
(* What the console offers a person is what the API serves him, for every  *)
(* account that the handlers can produce (ScopedAccounts, Served).         *)
(***************************************************************************)
EXTENDS Console, Access, TLAPS

Entry == [data : BOOLEAN, who : Persons \cup {Nobody}, at : Scopes, old : BOOLEAN,
          invalid : BOOLEAN]
Fetch == [sent : BOOLEAN, who : Persons \cup {Nobody}, at : Scopes, read : BOOLEAN,
          old : BOOLEAN]

(* Only a pressed button can have been carried out. *)
Sound == TypeOK /\ (action.done => action.name \in Calls(Buttons))

------------------------------------------------------------------------------
(* Entries and fetches                                                     *)

LEMMA Types ==
  ASSUME TypeOK
  PROVE  /\ cache \in [Scopes -> Entry] /\ flight \in [Scopes -> Fetch]
         /\ person \in Persons \cup {Nobody} /\ site \in Scopes
         /\ action \in [name : {"none"} \cup Calls(Buttons), done : BOOLEAN]
BY DEF TypeOK, Entry, Fetch

LEMMA Blank ==
  /\ NoData \in Entry /\ ~NoData.data /\ ~NoData.old
  /\ Quiet \in Fetch /\ ~Quiet.sent /\ ~Quiet.read /\ ~Quiet.old
  /\ Empty \in [Scopes -> Entry] /\ Silent \in [Scopes -> Fetch]
  /\ \A k \in Scopes : Empty[k] = NoData /\ Silent[k] = Quiet
BY DEF NoData, Quiet, Entry, Fetch, Empty, Silent, Scopes

(* An invalidation only marks the entries that have data. *)
LEMMA InvalidatedRows ==
  ASSUME TypeOK
  PROVE  /\ Invalidated \in [Scopes -> Entry]
         /\ \A k \in Scopes : /\ Invalidated[k].data = cache[k].data
                              /\ Invalidated[k].who = cache[k].who
                              /\ Invalidated[k].at = cache[k].at
                              /\ Invalidated[k].data => Invalidated[k].invalid
<1>1. ASSUME NEW k \in Scopes
      PROVE  /\ Invalidated[k] \in Entry
             /\ Invalidated[k].data = cache[k].data /\ Invalidated[k].who = cache[k].who
             /\ Invalidated[k].at = cache[k].at
             /\ Invalidated[k].data => Invalidated[k].invalid
  <2>1. PICK e \in Entry : e = cache[k]
    BY Types
  <2>2. Invalidated[k] = IF e.data THEN [e EXCEPT !.invalid = TRUE] ELSE e
    BY <2>1 DEF Invalidated
  <2>3. /\ [e EXCEPT !.invalid = TRUE] \in Entry
        /\ [e EXCEPT !.invalid = TRUE].data = e.data /\ [e EXCEPT !.invalid = TRUE].who = e.who
        /\ [e EXCEPT !.invalid = TRUE].at = e.at /\ [e EXCEPT !.invalid = TRUE].invalid
    BY DEF Entry
  <2> QED BY <2>1, <2>2, <2>3
<1> QED BY <1>1 DEF Invalidated

(* A query is asked for the key that its answer is kept under. *)
LEMMA RequestRow ==
  ASSUME NEW page, NEW who, NEW chosen, NEW k
  PROVE  LET f == Request(page, who, chosen, k)
         IN  /\ f.sent /\ f.who = who /\ ~f.read /\ ~f.old
             /\ k \in Shown(page, who, chosen) \cup {AllSites} => f.at = k
BY DEF Request, Shown, KeyFor

LEMMA RequestType ==
  ASSUME NEW page, NEW who \in Persons \cup {Nobody}, NEW chosen \in Scopes, NEW k
  PROVE  Request(page, who, chosen, k) \in Fetch
<1>1. Heading(page, who, chosen) \in Scopes /\ AllSites \in Scopes
  BY DEF Heading, SiteOf, Scopes
<1> QED BY <1>1 DEF Request, Fetch

(* What a page that is shown does to each key. *)
LEMMA ShowRows ==
  ASSUME NEW page, NEW who, NEW chosen, NEW entries, NEW flights, NEW again,
         Show(page, who, chosen, entries, flights, again)
  PROVE  /\ person' = who /\ screen' = page /\ site' = chosen /\ cache' = entries
         /\ \A k \in Scopes :
              \/ k \notin again /\ flight'[k] = flights[k]
              \/ /\ k \in Shown(page, who, chosen) \cup again
                 /\ flight'[k] = Request(page, who, chosen, k)
BY DEF Show

LEMMA ShowTypes ==
  ASSUME NEW page \in Screens \cup {"/login"}, NEW who \in Persons \cup {Nobody},
         NEW chosen \in Scopes, NEW entries \in [Scopes -> Entry],
         NEW flights \in [Scopes -> Fetch], NEW again,
         Show(page, who, chosen, entries, flights, again)
  PROVE  /\ person' \in Persons \cup {Nobody} /\ screen' \in Screens \cup {"/login"}
         /\ site' \in Scopes /\ cache' \in [Scopes -> Entry] /\ flight' \in [Scopes -> Fetch]
<1>1. \A k \in Scopes : Request(page, who, chosen, k) \in Fetch
  BY RequestType
<1>2. \A k \in Scopes : flight'[k] \in Fetch
  BY <1>1, ShowRows
<1>3. flight' \in [Scopes -> Fetch]
  BY <1>2 DEF Show
<1> QED BY <1>3, ShowRows

------------------------------------------------------------------------------
(* Types                                                                   *)

LEMMA StepKeepsSound ==
  ASSUME Sound, [Next]_vars
  PROVE  Sound'
<1>0. TypeOK
  BY DEF Sound
<1> DEFINE Shows ==
      /\ person' \in Persons \cup {Nobody} /\ screen' \in Screens \cup {"/login"}
      /\ site' \in Scopes /\ cache' \in [Scopes -> Entry] /\ flight' \in [Scopes -> Fetch]
<1>1. ASSUME Shows, query' = query, stored' \in Scopes, missed' \subseteq Scopes,
             action' = action \/ action' = NoAction
      PROVE  Sound'
  <2>1. /\ action' \in [name : {"none"} \cup Calls(Buttons), done : BOOLEAN]
        /\ action'.done => action'.name \in Calls(Buttons)
    <3>1. CASE action' = NoAction
      BY <3>1 DEF NoAction
    <3>2. CASE action' = action
      BY <1>0, <3>2, Types DEF Sound
    <3> QED BY <1>1, <3>1, <3>2
  <2>2. query' \in Queries
    BY <1>0, <1>1 DEF TypeOK
  <2> QED BY <1>1, <2>1, <2>2 DEF Sound, TypeOK, Entry, Fetch
<1>2. /\ AllSites \in Scopes /\ missed \subseteq Scopes /\ stored \in Scopes /\ {} \subseteq Scopes
      /\ screen \in Screens \cup {"/login"}
  BY <1>0 DEF TypeOK, Scopes
<1>3. ASSUME NEW who \in Persons, SignIn(who) PROVE Sound'
  <2>1. Shows
    BY <1>0, <1>3, ShowTypes, Blank, Types DEF SignIn
  <2> QED BY <1>1, <1>2, <1>3, <2>1 DEF SignIn
<1>4. CASE SignOut
  <2>1. Shows
    BY <1>0, <1>4, ShowTypes, Blank, Types DEF SignOut
  <2> QED BY <1>1, <1>2, <1>4, <2>1 DEF SignOut
<1>5. CASE Reload
  <2>1. Shows
    BY <1>0, <1>2, <1>5, ShowTypes, Blank, Types DEF Reload
  <2> QED BY <1>1, <1>2, <1>5, <2>1 DEF Reload
<1>6. ASSUME NEW page \in Screens, Go(page) PROVE Sound'
  <2>1. Shows
    BY <1>0, <1>6, ShowTypes, Types DEF Go
  <2> QED BY <1>1, <1>2, <1>6, <2>1 DEF Go
<1>7. ASSUME NEW chosen \in Scopes, ChooseSite(chosen) PROVE Sound'
  <2>1. Shows
    BY <1>0, <1>2, <1>7, ShowTypes, InvalidatedRows, Types DEF ChooseSite
  <2> QED BY <1>1, <1>2, <1>7, <2>1 DEF ChooseSite
<1>8. CASE RestoreSite
  <2>1. Shows
    BY <1>0, <1>2, <1>8, ShowTypes, Types DEF RestoreSite
  <2> QED BY <1>1, <1>2, <1>8, <2>1 DEF RestoreSite
<1>9. ASSUME NEW k \in Scopes, Refetch(k) PROVE Sound'
  <2>1. Request(screen, person, site, k) \in Fetch
    BY <1>0, RequestType, Types
  <2>2. Shows
    BY <1>0, <1>2, <1>9, <2>1, Types DEF Refetch
  <2> QED BY <1>1, <1>2, <1>9, <2>2 DEF Refetch
<1>10. ASSUME NEW k \in Scopes, Serve(k) PROVE Sound'
  <2>1. PICK f \in Fetch : f = flight[k]
    BY <1>0, Types
  <2>2. [f EXCEPT !.read = TRUE] \in Fetch
    BY DEF Fetch
  <2>3. flight' = [flight EXCEPT ![k] = [f EXCEPT !.read = TRUE]]
    BY <1>10, <2>1 DEF Serve
  <2>4. Shows
    BY <1>0, <1>2, <1>10, <2>2, <2>3, Types DEF Serve
  <2> QED BY <1>1, <1>2, <1>10, <2>4 DEF Serve
<1>11. ASSUME NEW k \in Scopes, Answer(k) PROVE Sound'
  <2>1. PICK f \in Fetch : f = flight[k]
    BY <1>0, Types
  <2>2. [data |-> TRUE, who |-> f.who, at |-> f.at, old |-> f.old, invalid |-> FALSE] \in Entry
    BY DEF Fetch, Entry
  <2>3. Shows
    BY <1>0, <1>2, <1>11, <2>1, <2>2, Types, Blank DEF Answer
  <2>4. missed' \subseteq Scopes
    BY <1>2, <1>11 DEF Answer
  <2> QED BY <1>1, <1>2, <1>11, <2>3, <2>4 DEF Answer
<1>12. ASSUME NEW k \in Scopes, FailFetch(k) PROVE Sound'
  <2>1. Shows
    BY <1>0, <1>2, <1>12, Types, Blank DEF FailFetch
  <2> QED BY <1>1, <1>2, <1>12, <2>1 DEF FailFetch
<1>13. ASSUME NEW name \in Calls(Buttons), Press(name) PROVE Sound'
  BY <1>0, <1>13 DEF Sound, TypeOK, Press
<1>14. CASE Perform
  <2>1. /\ \A e \in Entry : [e EXCEPT !.old = TRUE] \in Entry
        /\ \A f \in Fetch : [f EXCEPT !.old = TRUE] \in Fetch
    BY DEF Entry, Fetch
  <2>2. cache' \in [Scopes -> Entry] /\ flight' \in [Scopes -> Fetch]
    BY <1>0, <1>14, <2>1, Types DEF Perform
  <2>3. action' = [name |-> action.name, done |-> TRUE] /\ action.name \in Calls(Buttons)
    BY <1>0, <1>14, Types DEF Perform
  <2> QED BY <1>0, <1>14, <2>2, <2>3 DEF Sound, TypeOK, Perform, Entry, Fetch
<1>15. CASE Succeed
  <2>1. PICK entries \in [Scopes -> Entry] :
          \E again : Show(screen, person, site, entries, flight, again)
    BY <1>0, <1>15, InvalidatedRows, Types DEF Succeed
  <2>2. Shows
    BY <1>0, <1>2, <2>1, ShowTypes, Types
  <2>3. missed' \subseteq Scopes
    BY <1>2, <1>15 DEF Succeed
  <2> QED BY <1>1, <1>2, <1>15, <2>2, <2>3 DEF Succeed
<1>16. CASE Fail
  <2>1. Shows
    BY <1>0, <1>2, <1>16, Types DEF Fail
  <2>2. missed' \subseteq Scopes
    BY <1>2, <1>16 DEF Fail
  <2> QED BY <1>1, <1>2, <1>16, <2>1, <2>2 DEF Fail
<1>17. CASE UNCHANGED vars
  BY <1>0, <1>17 DEF Sound, TypeOK, vars
<1> QED BY Zenon, <1>3, <1>4, <1>5, <1>6, <1>7, <1>8, <1>9, <1>10, <1>11, <1>12, <1>13,
           <1>14, <1>15, <1>16, <1>17 DEF Next

(* The cache, the fetches and the button keep their types, and only a      *)
(* button that was pressed is ever carried out (use-domain.ts).            *)
THEOREM TypeCorrect == Spec => []Sound
<1>1. Init => Sound
  BY Blank DEF Init, Sound, TypeOK, Scopes, NoAction, Empty, Silent, Entry, Fetch
<1>2. Sound /\ [Next]_vars => Sound'
  BY StepKeepsSound
<1> QED BY <1>1, <1>2, PTL DEF Spec

------------------------------------------------------------------------------
(* Whose rows, and under which heading                                     *)

(* An entry and a fetch are of the person, for the key they are kept under. *)
Mine(e, f, who, k) ==
  /\ e.data => e.who = who /\ e.at = k
  /\ f.sent => f.who = who /\ f.at = k
  /\ f.read => f.sent

Own == \A k \in Scopes : Mine(cache[k], flight[k], person, k)

LEMMA ShowKeepsOwn ==
  ASSUME NEW page, NEW who, NEW chosen, NEW entries, NEW flights,
         NEW again, again \subseteq Shown(page, who, chosen) \cup {AllSites},
         Show(page, who, chosen, entries, flights, again),
         \A k \in Scopes : Mine(entries[k], flights[k], who, k)
  PROVE  Own'
<1> SUFFICES ASSUME NEW k \in Scopes
             PROVE  Mine(cache'[k], flight'[k], person', k)
  BY DEF Own
<1>1. /\ cache'[k] = entries[k] /\ person' = who
      /\ \/ flight'[k] = flights[k]
         \/ /\ k \in Shown(page, who, chosen) \cup {AllSites}
            /\ flight'[k] = Request(page, who, chosen, k)
  BY ShowRows
<1>2. CASE flight'[k] = flights[k]
  BY <1>1, <1>2
<1>3. CASE /\ k \in Shown(page, who, chosen) \cup {AllSites}
           /\ flight'[k] = Request(page, who, chosen, k)
  <2>1. /\ flight'[k].sent /\ flight'[k].who = who /\ flight'[k].at = k /\ ~flight'[k].read
    BY <1>3, RequestRow
  <2> QED BY <1>1, <2>1 DEF Mine
<1> QED BY <1>1, <1>2, <1>3

LEMMA StepKeepsOwn ==
  ASSUME Sound, Own, [Next]_vars
  PROVE  Own'
<1>0. TypeOK
  BY DEF Sound
<1>1. \A who : \A k \in Scopes : Mine(Empty[k], Silent[k], who, k)
  BY Blank DEF Mine
<1>2. \A k \in Scopes : Mine(cache[k], flight[k], person, k)
  BY DEF Own
<1>3. \A k \in Scopes : Mine(Invalidated[k], flight[k], person, k)
  BY <1>0, <1>2, InvalidatedRows DEF Mine
<1>4. ASSUME NEW who \in Persons, SignIn(who) PROVE Own'
  BY <1>1, <1>4, ShowKeepsOwn DEF SignIn
<1>5. CASE SignOut
  BY <1>1, <1>5, ShowKeepsOwn DEF SignOut
<1>6. CASE Reload
  BY <1>1, <1>6, ShowKeepsOwn DEF Reload
<1>7. ASSUME NEW page \in Screens, Go(page) PROVE Own'
  BY <1>2, <1>7, ShowKeepsOwn DEF Go
<1>8. ASSUME NEW chosen \in Scopes, ChooseSite(chosen) PROVE Own'
  <2>1. Restartable(Shown(screen, person, site)) \cap Shown(screen, person, chosen)
          \subseteq Shown(screen, person, chosen) \cup {AllSites}
    OBVIOUS
  <2> QED BY <1>3, <1>8, <2>1, ShowKeepsOwn DEF ChooseSite
<1>9. CASE RestoreSite
  BY <1>2, <1>9, ShowKeepsOwn DEF RestoreSite
<1>10. ASSUME NEW k \in Scopes, NEW e \in Entry, NEW f \in Fetch,
              Mine(e, f, person, k), person' = person,
              cache' = [cache EXCEPT ![k] = e], flight' = [flight EXCEPT ![k] = f]
       PROVE  Own'
  <2>1. \A j \in Scopes : /\ cache'[j] = IF j = k THEN e ELSE cache[j]
                          /\ flight'[j] = IF j = k THEN f ELSE flight[j]
    BY <1>0, <1>10, Types
  <2>2. \A j \in Scopes : Mine(cache'[j], flight'[j], person', j)
    BY <1>2, <1>10, <2>1
  <2> QED BY <2>2 DEF Own
<1>11. ASSUME NEW k \in Scopes, NEW f \in Fetch, Mine(cache[k], f, person, k),
              UNCHANGED <<person, cache>>, flight' = [flight EXCEPT ![k] = f]
       PROVE  Own'
  <2>1. cache' = [cache EXCEPT ![k] = cache[k]] /\ cache[k] \in Entry
    BY <1>0, <1>11, Types
  <2> QED BY <1>10, <1>11, <2>1
<1>12. ASSUME NEW k \in Scopes, Refetch(k) PROVE Own'
  <2>1. PICK f \in Fetch : f = Request(screen, person, site, k)
    BY <1>0, RequestType, Types
  <2>2. f.sent /\ f.who = person /\ f.at = k /\ ~f.read
    BY <1>12, <2>1, RequestRow DEF Refetch
  <2>3. Mine(cache[k], f, person, k)
    BY <1>2, <2>2 DEF Mine
  <2> QED BY <1>11, <1>12, <2>1, <2>3 DEF Refetch
<1>13. ASSUME NEW k \in Scopes, Serve(k) PROVE Own'
  <2>1. PICK f \in Fetch : f = flight[k]
    BY <1>0, Types
  <2>2. PICK g : g = [f EXCEPT !.read = TRUE]
    OBVIOUS
  <2>3. g \in Fetch /\ g.sent = f.sent /\ g.who = f.who /\ g.at = f.at /\ f.sent
    BY <1>13, <2>1, <2>2 DEF Fetch, Serve
  <2>4. Mine(cache[k], g, person, k)
    BY <1>2, <2>1, <2>3 DEF Mine
  <2>5. flight' = [flight EXCEPT ![k] = g]
    BY <1>0, <1>13, <2>1, <2>2, Types DEF Serve
  <2> QED BY <1>11, <1>13, <2>3, <2>4, <2>5 DEF Serve
<1>14. ASSUME NEW k \in Scopes, Answer(k) PROVE Own'
  <2>1. PICK f \in Fetch : f = flight[k]
    BY <1>0, Types
  <2>2. PICK e : e = [data |-> TRUE, who |-> f.who, at |-> f.at, old |-> f.old, invalid |-> FALSE]
    OBVIOUS
  <2>3. e \in Entry /\ e.who = f.who /\ e.at = f.at
    BY <2>2 DEF Fetch, Entry
  <2>4. f.who = person /\ f.at = k
    BY <1>2, <1>14, <2>1 DEF Mine, Answer
  <2>5. Mine(e, Quiet, person, k)
    BY <2>3, <2>4, Blank DEF Mine
  <2> QED BY <1>10, <1>14, <2>1, <2>2, <2>3, <2>5, Blank DEF Answer
<1>15. ASSUME NEW k \in Scopes, FailFetch(k) PROVE Own'
  <2>1. Mine(cache[k], Quiet, person, k)
    BY <1>2, Blank DEF Mine
  <2> QED BY <1>11, <1>15, <2>1, Blank DEF FailFetch
<1>16. ASSUME UNCHANGED <<person, cache, flight>> PROVE Own'
  BY <1>16 DEF Own
<1>17. ASSUME NEW name \in Calls(Buttons), Press(name) PROVE Own'
  BY <1>16, <1>17 DEF Press
<1>18. CASE Perform
  <2>1. ASSUME NEW k \in Scopes PROVE Mine(cache'[k], flight'[k], person', k)
    <3>1. PICK e \in Entry, f \in Fetch : e = cache[k] /\ f = flight[k]
      BY <1>0, Types
    <3>2. /\ [e EXCEPT !.old = TRUE].data = e.data /\ [e EXCEPT !.old = TRUE].who = e.who
          /\ [e EXCEPT !.old = TRUE].at = e.at
          /\ [f EXCEPT !.old = TRUE].sent = f.sent /\ [f EXCEPT !.old = TRUE].who = f.who
          /\ [f EXCEPT !.old = TRUE].at = f.at /\ [f EXCEPT !.old = TRUE].read = f.read
      BY DEF Entry, Fetch
    <3>3. /\ cache'[k] \in {e, [e EXCEPT !.old = TRUE]}
          /\ flight'[k] \in {f, [f EXCEPT !.old = TRUE]}
          /\ person' = person
      BY <1>18, <3>1 DEF Perform
    <3>4. /\ cache'[k].data = e.data /\ cache'[k].who = e.who /\ cache'[k].at = e.at
          /\ flight'[k].sent = f.sent /\ flight'[k].who = f.who /\ flight'[k].at = f.at
          /\ flight'[k].read = f.read
      BY <3>2, <3>3
    <3> QED BY <1>2, <3>1, <3>3, <3>4 DEF Mine
  <2> QED BY <2>1 DEF Own
<1>19. CASE Succeed
  <2>1. PICK entries, again :
          /\ again \subseteq Shown(screen, person, site) \cup {AllSites}
          /\ entries \in {Invalidated, cache}
          /\ Show(screen, person, site, entries, flight, again)
    BY <1>19 DEF Succeed, Restartable
  <2>2. \A k \in Scopes : Mine(entries[k], flight[k], person, k)
    BY <1>2, <1>3, <2>1
  <2> QED BY <2>1, <2>2, ShowKeepsOwn
<1>20. CASE Fail
  BY <1>16, <1>20 DEF Fail
<1>21. CASE UNCHANGED vars
  BY <1>16, <1>21 DEF vars
<1> QED BY Zenon, <1>4, <1>5, <1>6, <1>7, <1>8, <1>9, <1>12, <1>13, <1>14, <1>15, <1>17,
           <1>18, <1>19, <1>20, <1>21 DEF Next

(* Nobody is shown another person's rows, nor a site's rows under the      *)
(* heading of another site (auth-context.tsx, site-context.tsx).           *)
THEOREM HeadingsAgree == Spec => []HeadingAgrees
<1>1. Init => Own
  BY Blank DEF Init, Own, Mine
<1>2. Sound /\ Own /\ [Next]_vars => Own'
  BY StepKeepsOwn
<1>3. ASSUME Sound, Own PROVE HeadingAgrees
  <2>1. site \in Scopes
    BY <1>3, Types DEF Sound
  <2>2. KeyFor(screen, person, site) \in Scopes
    BY <2>1 DEF KeyFor, Heading, SiteOf, Scopes
  <2> QED BY <1>3, <2>2 DEF HeadingAgrees, Own, Mine, KeyFor
<1> QED BY <1>1, <1>2, <1>3, TypeCorrect, PTL DEF Spec

------------------------------------------------------------------------------
(* The buttons and what their success refreshes                            *)

LEMMA ButtonNames ==
  /\ Calls(GateButtons) = {"simulate", "review"}
  /\ Calls(StayButtons) = {"hold", "liftHold", "attachRate"}
  /\ Calls(ReleaseButtons) = {"requestRelease", "decide", "complete"}
  /\ Calls(BillingButtons) = {"issue", "recordPayment"}
<1>1. Calls(GateButtons) = {"simulate", "review"}
  BY DEF Calls, GateButtons
<1>2. Calls(StayButtons) = {"hold", "liftHold", "attachRate"}
  BY DEF Calls, StayButtons
<1>3. Calls(ReleaseButtons) = {"requestRelease", "decide", "complete"}
  BY DEF Calls, ReleaseButtons
<1>4. Calls(BillingButtons) = {"issue", "recordPayment"}
  BY DEF Calls, BillingButtons
<1> QED BY <1>1, <1>2, <1>3, <1>4

LEMMA AllButtons ==
  Calls(Buttons) = Calls(GateButtons) \cup Calls(StayButtons) \cup Calls(ReleaseButtons)
                     \cup Calls(BillingButtons)
BY DEF Calls, Buttons

(* Every button is on one page. *)
LEMMA ButtonPages ==
  /\ \A name \in Calls(GateButtons) : PageOf(name) = "/gate"
  /\ \A name \in Calls(StayButtons) \cup Calls(ReleaseButtons) : PageOf(name) = "/yard/[id]"
  /\ \A name \in Calls(BillingButtons) : PageOf(name) = "/billing"
<1>1. /\ ActionsOn("/gate") = Calls(GateButtons)
      /\ ActionsOn("/yard/[id]") = Calls(StayButtons) \cup Calls(ReleaseButtons)
      /\ ActionsOn("/billing") = Calls(BillingButtons)
      /\ \A page \in Screens \ {"/gate", "/yard/[id]", "/billing"} : ActionsOn(page) = {}
      /\ {"/gate", "/yard/[id]", "/billing"} \subseteq Screens
  <2>1. Calls(StayButtons \cup ReleaseButtons) = Calls(StayButtons) \cup Calls(ReleaseButtons)
    BY DEF Calls
  <2> QED BY <2>1 DEF ActionsOn, Screens
<1>2. ASSUME NEW name, NEW page \in Screens, name \in ActionsOn(page),
             \A other \in Screens : name \in ActionsOn(other) => other = page
      PROVE  PageOf(name) = page
  BY <1>2 DEF PageOf
<1>3. ASSUME NEW name \in Calls(GateButtons) PROVE PageOf(name) = "/gate"
  <2>1. \A other \in Screens : name \in ActionsOn(other) => other = "/gate"
    BY <1>1, <1>3, ButtonNames
  <2> QED BY <1>1, <1>2, <1>3, <2>1
<1>4. ASSUME NEW name \in Calls(StayButtons) \cup Calls(ReleaseButtons)
      PROVE  PageOf(name) = "/yard/[id]"
  <2>1. \A other \in Screens : name \in ActionsOn(other) => other = "/yard/[id]"
    BY <1>1, <1>4, ButtonNames
  <2> QED BY <1>1, <1>2, <1>4, <2>1
<1>5. ASSUME NEW name \in Calls(BillingButtons) PROVE PageOf(name) = "/billing"
  <2>1. \A other \in Screens : name \in ActionsOn(other) => other = "/billing"
    BY <1>1, <1>5, ButtonNames
  <2> QED BY <1>1, <1>2, <1>5, <2>1
<1> QED BY <1>3, <1>4, <1>5

LEMMA QueryNames ==
  /\ DOMAIN AnprQueries = {"devices", "listEvents", "reviewQueue"}
  /\ DOMAIN VehicleQueries = {"vehicles", "searchVehicles", "vehicle", "timeline"}
  /\ DOMAIN StayQueries = {"sessions", "session", "charge"}
  /\ DOMAIN ReleaseQueries = {"releases", "release", "eligibility"}
  /\ DOMAIN InvoiceQueries = {"invoices", "invoice"}
  /\ DOMAIN ReportQueries = {"dashboard", "occupancy", "ageing", "revenue"}
  /\ DOMAIN AuctionQueries = {"auctions", "auction"}
BY DEF AnprQueries, VehicleQueries, StayQueries, ReleaseQueries, InvoiceQueries, ReportQueries,
       AuctionQueries

(* The lists of releases read neither the stay nor its vehicle. *)
LEMMA ReleaseReads ==
  Reads("releases") = {"request"} /\ Reads("release") = {"request", "invoice"}
<1>1. \A q \in {"releases", "release"} :
        {f \in Families : q \in DOMAIN f} = {ReleaseQueries}
  BY QueryNames DEF Families
<1>2. ReleaseQueries["releases"] = {"request"} /\ ReleaseQueries["release"] = {"request", "invoice"}
  BY DEF ReleaseQueries, ReleaseListRows, ReleaseRows
<1> QED BY <1>1, <1>2 DEF Reads

(* What an action changes on its own page, its success refreshes.          *)
LEMMA SuccessRefreshes ==
  ASSUME NEW name \in Calls(Buttons), Follows(name)
  PROVE  query \in Refreshes(name)
<1>1. /\ query \in Asks(PageOf(name)) /\ Reads(query) \cap Changes(name) # {}
      /\ <<name, query>> \notin Unrefreshed
  BY DEF Follows
<1>2. /\ Asks("/gate") = GateScreen /\ Asks("/yard/[id]") = StayScreen
      /\ Asks("/billing") = BillingScreen
  BY DEF Asks
<1>3. CASE name \in Calls(GateButtons)
  <2>1. name \in {"simulate", "review"} /\ query \in {"devices", "listEvents", "reviewQueue", "vehicle"}
    BY <1>1, <1>2, <1>3, ButtonNames, ButtonPages DEF GateScreen
  <2>2. query # "vehicle"
    BY <1>1, <2>1 DEF Unrefreshed
  <2>3. query \in GateRefreshes(name)
    BY <2>1, <2>2, QueryNames DEF GateRefreshes
  <2> QED BY <1>3, <2>3, ButtonNames DEF Refreshes
<1>4. CASE name \in Calls(StayButtons)
  <2>1. /\ name \in {"hold", "liftHold", "attachRate"}
        /\ query \in {"session", "charge", "eligibility", "releases", "release"}
    BY <1>1, <1>2, <1>4, ButtonNames, ButtonPages DEF StayScreen
  <2>2. query # "eligibility"
    BY <1>1, <2>1 DEF Unrefreshed
  <2>3. Changes(name) \subseteq {"stay", "vehicle", "timeline"}
    BY <2>1 DEF Changes, HoldChanges, RateChanges
  <2>4. query \notin {"releases", "release"}
    BY <1>1, <2>3, ReleaseReads
  <2>5. query \in StayRefreshes
    BY <2>1, <2>2, <2>4, QueryNames DEF StayRefreshes
  <2> QED BY <1>4, <2>5, ButtonNames DEF Refreshes
<1>5. CASE name \in Calls(ReleaseButtons)
  <2>1. query \in {"session", "charge", "eligibility", "releases", "release"}
    BY <1>1, <1>2, <1>5, ButtonPages DEF StayScreen
  <2>2. query \in ReleaseRefreshes
    BY <2>1, QueryNames DEF ReleaseRefreshes, StayRefreshes
  <2> QED BY <1>5, <2>2, ButtonNames DEF Refreshes
<1>6. CASE name \in Calls(BillingButtons)
  <2>1. query \in {"invoices", "invoice"}
    BY <1>1, <1>2, <1>6, ButtonPages DEF BillingScreen
  <2>2. query \in BillingRefreshes
    BY <2>1, QueryNames DEF BillingRefreshes
  <2> QED BY <1>6, <2>2, ButtonNames DEF Refreshes
<1> QED BY <1>3, <1>4, <1>5, <1>6, AllButtons

------------------------------------------------------------------------------
(* What was read before an action                                          *)

(* An old entry is marked for a fetch, and an old answer cannot arrive     *)
(* unnoticed, unless a refresh could not reach the key.                    *)
Settled(e, f, excused) ==
  /\ e.data /\ e.old => e.invalid \/ excused
  /\ f.old => excused

AllSettled == \A k \in Scopes : Settled(cache[k], flight[k], k \in missed)

(* The API has carried the action out, and its success has not come back.  *)
Underway == action.done /\ Follows(action.name)

Marked == Underway \/ AllSettled

LEMMA ShowSettles ==
  ASSUME NEW page, NEW who, NEW chosen, NEW entries, NEW flights, NEW again,
         Show(page, who, chosen, entries, flights, again),
         \A k \in Scopes :
           /\ entries[k].data /\ entries[k].old => entries[k].invalid \/ k \in missed'
           /\ k \notin again /\ flights[k].old => k \in missed'
  PROVE  AllSettled'
<1> SUFFICES ASSUME NEW k \in Scopes
             PROVE  Settled(cache'[k], flight'[k], k \in missed')
  BY DEF AllSettled
<1>1. /\ cache'[k] = entries[k]
      /\ \/ k \notin again /\ flight'[k] = flights[k]
         \/ flight'[k] = Request(page, who, chosen, k)
  BY ShowRows
<1>2. ~Request(page, who, chosen, k).old
  BY RequestRow
<1> QED BY <1>1, <1>2 DEF Settled

LEMMA StepKeepsMarked ==
  ASSUME Sound, Marked, [Next]_vars
  PROVE  Marked'
<1>0. TypeOK
  BY DEF Sound
<1>1. ASSUME AllSettled
      PROVE  \A k \in Scopes : Settled(cache[k], flight[k], k \in missed)
  BY <1>1 DEF AllSettled
<1>2. ASSUME UNCHANGED <<query, action>>, AllSettled => AllSettled' PROVE Marked'
  BY <1>2 DEF Marked, Underway, Follows
<1>3. ASSUME UNCHANGED <<cache, flight, missed>>, AllSettled PROVE AllSettled'
  BY <1>3 DEF AllSettled
<1>4. \A k \in Scopes : /\ ~Empty[k].data /\ ~Silent[k].old
                        /\ Invalidated[k].data => Invalidated[k].invalid
  BY <1>0, Blank, InvalidatedRows
<1>5. ASSUME NEW who \in Persons, SignIn(who) PROVE Marked'
  <2>1. AllSettled'
    BY <1>4, <1>5, ShowSettles DEF SignIn
  <2> QED BY <2>1 DEF Marked
<1>6. CASE SignOut
  <2>1. AllSettled'
    BY <1>4, <1>6, ShowSettles DEF SignOut
  <2> QED BY <2>1 DEF Marked
<1>7. CASE Reload
  <2>1. AllSettled'
    BY <1>4, <1>7, ShowSettles DEF Reload
  <2> QED BY <2>1 DEF Marked
<1>8. ASSUME NEW page \in Screens, Go(page) PROVE Marked'
  <2>1. ASSUME AllSettled PROVE AllSettled'
    <3>1. \A k \in Scopes : /\ cache[k].data /\ cache[k].old => cache[k].invalid \/ k \in missed'
                            /\ flight[k].old => k \in missed'
      BY <1>1, <1>8, <2>1 DEF Settled, Go
    <3> QED BY <1>8, <3>1, ShowSettles DEF Go
  <2> QED BY <1>2, <1>8, <2>1 DEF Go
<1>9. ASSUME NEW chosen \in Scopes, ChooseSite(chosen) PROVE Marked'
  <2>1. ASSUME AllSettled PROVE AllSettled'
    <3>1. \A k \in Scopes : flight[k].old => k \in missed'
      BY <1>1, <1>9, <2>1 DEF Settled, ChooseSite
    <3> QED BY <1>4, <1>9, <3>1, ShowSettles DEF ChooseSite
  <2> QED BY <1>2, <1>9, <2>1 DEF ChooseSite
<1>10. CASE RestoreSite
  <2>1. ASSUME AllSettled PROVE AllSettled'
    <3>1. \A k \in Scopes : /\ cache[k].data /\ cache[k].old => cache[k].invalid \/ k \in missed'
                            /\ flight[k].old => k \in missed'
      BY <1>1, <1>10, <2>1 DEF Settled, RestoreSite
    <3> QED BY <1>10, <3>1, ShowSettles DEF RestoreSite
  <2> QED BY <1>2, <1>10, <2>1 DEF RestoreSite
<1>11. ASSUME NEW k \in Scopes, NEW e, NEW f, AllSettled, Settled(e, f, k \in missed'),
              missed \ {k} \subseteq missed',
              cache' = [cache EXCEPT ![k] = e], flight' = [flight EXCEPT ![k] = f]
       PROVE  AllSettled'
  <2>1. \A j \in Scopes : /\ cache'[j] = IF j = k THEN e ELSE cache[j]
                          /\ flight'[j] = IF j = k THEN f ELSE flight[j]
    BY <1>0, <1>11, Types
  <2>2. \A j \in Scopes : Settled(cache'[j], flight'[j], j \in missed')
    BY <1>1, <1>11, <2>1 DEF Settled
  <2> QED BY <2>2 DEF AllSettled
<1>12. ASSUME NEW k \in Scopes, NEW f, AllSettled, f.old => flight[k].old,
              UNCHANGED <<cache, missed>>, flight' = [flight EXCEPT ![k] = f]
       PROVE  AllSettled'
  <2>1. cache' = [cache EXCEPT ![k] = cache[k]]
    BY <1>0, <1>12, Types
  <2>2. Settled(cache[k], f, k \in missed')
    BY <1>1, <1>12 DEF Settled
  <2> QED BY <1>11, <1>12, <2>1, <2>2
<1>13. ASSUME NEW k \in Scopes, Refetch(k) PROVE Marked'
  <2>1. ~Request(screen, person, site, k).old
    BY RequestRow
  <2> QED BY <1>2, <1>12, <1>13, <2>1 DEF Refetch
<1>14. ASSUME NEW k \in Scopes, Serve(k) PROVE Marked'
  <2>1. PICK f \in Fetch : f = flight[k]
    BY <1>0, Types
  <2>2. [f EXCEPT !.read = TRUE].old = f.old
    BY DEF Fetch
  <2>3. flight' = [flight EXCEPT ![k] = [f EXCEPT !.read = TRUE]]
    BY <1>0, <1>14, <2>1, Types DEF Serve
  <2> QED BY <1>2, <1>12, <1>14, <2>1, <2>2, <2>3 DEF Serve
<1>15. ASSUME NEW k \in Scopes, Answer(k) PROVE Marked'
  <2>1. PICK e : e = [data |-> TRUE, who |-> flight[k].who, at |-> flight[k].at,
                      old |-> flight[k].old, invalid |-> FALSE]
    OBVIOUS
  <2>2. ASSUME AllSettled PROVE AllSettled'
    <3>1. Settled(e, Quiet, k \in missed')
      BY <1>1, <1>15, <2>1, <2>2, Blank DEF Settled, Answer
    <3> QED BY <1>11, <1>15, <2>1, <2>2, <3>1 DEF Answer
  <2> QED BY <1>2, <1>15, <2>2 DEF Answer
<1>16. ASSUME NEW k \in Scopes, FailFetch(k) PROVE Marked'
  BY <1>2, <1>12, <1>16, Blank DEF FailFetch
<1>17. ASSUME NEW name \in Calls(Buttons), Press(name) PROVE Marked'
  <2>1. ~Underway
    BY <1>17 DEF Underway, Press, NoAction
  <2> QED BY <1>3, <1>17, <2>1 DEF Marked, Press
<1>18. CASE Perform
  <2>1. AllSettled
    BY <1>18 DEF Marked, Underway, Perform
  <2>2. CASE Follows(action.name)
    <3>1. action'.done /\ action'.name = action.name /\ query' = query
      BY <1>0, <1>18, Types DEF Perform
    <3> QED BY <2>2, <3>1 DEF Marked, Underway, Follows
  <2>3. CASE ~Follows(action.name)
    BY <1>3, <1>18, <2>1, <2>3 DEF Marked, Perform
  <2> QED BY <2>2, <2>3
<1>19. CASE Succeed
  <2>1. query \notin Refreshes(action.name) => AllSettled
    BY <1>19, SuccessRefreshes DEF Sound, Marked, Underway, Succeed
  <2>2. PICK again :
          /\ Show(screen, person, site,
                  IF query \in Refreshes(action.name) THEN Invalidated ELSE cache, flight, again)
          /\ missed' = missed \cup {k \in Scopes \ again : flight[k].old}
    BY <1>19 DEF Succeed
  <2>3. CASE query \in Refreshes(action.name)
    <3>1. AllSettled'
      BY <1>4, <2>2, <2>3, ShowSettles
    <3> QED BY <3>1 DEF Marked
  <2>4. CASE query \notin Refreshes(action.name)
    <3>1. \A k \in Scopes : cache[k].data /\ cache[k].old => cache[k].invalid \/ k \in missed
      BY <1>1, <2>1, <2>4 DEF Settled
    <3>2. AllSettled'
      BY <2>2, <2>4, <3>1, ShowSettles
    <3> QED BY <3>2 DEF Marked
  <2> QED BY <2>3, <2>4
<1>20. CASE Fail
  <2>1. CASE action.done
    <3>1. \A k \in Scopes : Settled(cache'[k], flight'[k], k \in missed')
      BY <1>20, <2>1 DEF Settled, Fail
    <3> QED BY <3>1 DEF Marked, AllSettled
  <2>2. CASE ~action.done
    BY <1>3, <1>20, <2>2 DEF Marked, Underway, Fail
  <2> QED BY <2>1, <2>2
<1>21. CASE UNCHANGED vars
  BY <1>2, <1>3, <1>21 DEF vars
<1> QED BY Zenon, <1>5, <1>6, <1>7, <1>8, <1>9, <1>10, <1>13, <1>14, <1>15, <1>16, <1>17,
           <1>18, <1>19, <1>20, <1>21 DEF Next

(* Once an action has succeeded, its page never takes an answer read       *)
(* before it for fresh (the onSuccess of use-domain.ts and use-gate.ts).   *)
THEOREM OwnChangeSeen == Spec => []SeesOwnChange
<1>1. Init => Marked
  BY Blank DEF Init, Marked, AllSettled, Settled
<1>2. Sound /\ Marked /\ [Next]_vars => Marked'
  BY StepKeepsMarked
<1>3. ASSUME Sound, Marked PROVE SeesOwnChange
  <2>1. KeyFor(screen, person, site) \in Scopes
    BY <1>3, Types DEF Sound, KeyFor, Heading, SiteOf, Scopes
  <2>2. action = NoAction => AllSettled
    BY <1>3 DEF Marked, Underway, NoAction
  <2> QED BY <2>1, <2>2 DEF SeesOwnChange, AllSettled, Settled
<1> QED BY <1>1, <1>2, <1>3, TypeCorrect, PTL DEF Spec

------------------------------------------------------------------------------
(* Who may do what                                                         *)

Account == [roles : SUBSET RoleCode, linked : BOOLEAN, service : BOOLEAN,
            active : BOOLEAN]

(* The roles and the link of one account agree. *)
Scoped(a) == a.roles \cap FINANCIER_SCOPED_ROLES # {} <=> a.linked

ScopedAccounts ==
  /\ account \in [Users -> Account]
  /\ \A u \in Users : Scoped(account[u])

LEMMA GrantsKeepScope ==
  ASSUME ScopedAccounts, AccessNext
  PROVE  ScopedAccounts'
<1>1. ASSUME NEW u \in Users, NEW a \in Account, Scoped(a),
             account' = [account EXCEPT ![u] = a]
      PROVE  ScopedAccounts'
  BY <1>1 DEF ScopedAccounts, Scoped
<1>2. \A roles \in RoleSets : roles \in SUBSET RoleCode
  BY DEF RoleSets
<1>3. ASSUME NEW u \in Users, Create(u) PROVE ScopedAccounts'
  <2>1. PICK roles \in RoleSets, linked \in BOOLEAN :
          /\ Consistent(roles, linked)
          /\ account' = [account EXCEPT ![u] = [roles |-> roles, linked |-> linked,
                                                service |-> FALSE, active |-> TRUE]]
    BY <1>3 DEF Create
  <2>2. PICK a : a = [roles |-> roles, linked |-> linked, service |-> FALSE, active |-> TRUE]
    OBVIOUS
  <2>3. a \in Account /\ Scoped(a)
    BY <1>2, <2>1, <2>2 DEF Account, Scoped, Consistent
  <2> QED BY <1>1, <2>1, <2>2, <2>3
<1>4. ASSUME NEW u \in Users, SetRoles(u) PROVE ScopedAccounts'
  <2>1. PICK roles \in RoleSets :
          /\ Consistent(roles, account[u].linked)
          /\ account' = [account EXCEPT ![u].roles = roles]
    BY <1>4 DEF SetRoles
  <2>2. PICK b \in Account : b = account[u]
    BY DEF ScopedAccounts
  <2>3. PICK a : a = [b EXCEPT !.roles = roles]
    OBVIOUS
  <2>4. a \in Account /\ a.roles = roles /\ a.linked = b.linked
    BY <1>2, <2>3 DEF Account
  <2>5. Scoped(a)
    BY <2>1, <2>2, <2>4 DEF Scoped, Consistent
  <2>6. account' = [account EXCEPT ![u] = a]
    BY <2>1, <2>2, <2>3
  <2> QED BY <1>1, <2>4, <2>5, <2>6
<1>5. ASSUME NEW u \in Users, SetStatus(u) PROVE ScopedAccounts'
  <2>1. PICK active \in BOOLEAN : account' = [account EXCEPT ![u].active = active]
    BY <1>5 DEF SetStatus
  <2>2. PICK b \in Account : b = account[u] /\ Scoped(b)
    BY DEF ScopedAccounts
  <2>3. PICK a : a = [b EXCEPT !.active = active]
    OBVIOUS
  <2>4. a \in Account /\ a.roles = b.roles /\ a.linked = b.linked
    BY <2>3 DEF Account
  <2>5. Scoped(a)
    BY <2>2, <2>4 DEF Scoped
  <2>6. account' = [account EXCEPT ![u] = a]
    BY <2>1, <2>2, <2>3
  <2> QED BY <1>1, <2>4, <2>5, <2>6
<1> QED BY <1>3, <1>4, <1>5 DEF AccessNext

LEMMA AlwaysScoped == AccessSpec => []ScopedAccounts
<1>1. AccessInit => ScopedAccounts
  <2> SUFFICES ASSUME AccessInit PROVE ScopedAccounts
    OBVIOUS
  <2>1. PICK admin \in Users, camera \in Users :
          /\ admin # camera
          /\ account = [u \in Users |->
               CASE u = admin -> [roles |-> {"SYSTEM_ADMINISTRATOR"}, linked |-> FALSE,
                                  service |-> FALSE, active |-> TRUE]
                 [] u = camera -> [roles |-> MACHINE_ONLY_ROLES, linked |-> FALSE,
                                   service |-> TRUE, active |-> TRUE]
                 [] OTHER -> Absent]
    BY DEF AccessInit
  <2>2. ASSUME NEW roles \in SUBSET {"SYSTEM_ADMINISTRATOR", "DEVICE_SERVICE_ACCOUNT"},
               NEW service \in BOOLEAN, NEW active \in BOOLEAN,
               NEW a, a = [roles |-> roles, linked |-> FALSE, service |-> service,
                           active |-> active]
        PROVE  a \in Account /\ Scoped(a)
    BY <2>2 DEF Account, Scoped, RoleCode, FINANCIER_SCOPED_ROLES
  <2>3. ASSUME NEW u \in Users PROVE account[u] \in Account /\ Scoped(account[u])
    <3>1. CASE u = admin
      BY <2>1, <2>2, <3>1
    <3>2. CASE u # admin /\ u = camera
      BY <2>1, <2>2, <3>2 DEF MACHINE_ONLY_ROLES
    <3>3. CASE u # admin /\ u # camera
      BY <2>1, <2>2, <3>3 DEF Absent
    <3> QED BY <3>1, <3>2, <3>3
  <2> QED BY <2>1, <2>3 DEF ScopedAccounts
<1>2. ScopedAccounts /\ [AccessNext]_account => ScopedAccounts'
  <2>1. ASSUME ScopedAccounts, UNCHANGED account PROVE ScopedAccounts'
    BY <2>1 DEF ScopedAccounts
  <2> QED BY <2>1, GrantsKeepScope
<1> QED BY <1>1, <1>2, PTL DEF AccessSpec

(* Whatever the sequence of grants, exactly the portal's users are linked  *)
(* to a financier (assertRoleScopeConsistency).                            *)
THEOREM PortalScoped == AccessSpec => []PortalUsersAreLinked
<1>1. ScopedAccounts => PortalUsersAreLinked
  BY DEF ScopedAccounts, Scoped, PortalUsersAreLinked
<1> QED BY <1>1, AlwaysScoped, PTL

------------------------------------------------------------------------------
(* What each endpoint requires: it has one entry in the table              *)

LEMMA OneRoute ==
  ASSUME NEW name, NEW req, <<name, req>> \in Routes,
         \A route \in Routes : route[1] = name => route = <<name, req>>
  PROVE  Requires(name) = req
<1>1. PICK route : route = (CHOOSE r \in Routes : r[1] = name)
  OBVIOUS
<1>2. <<name, req>>[1] = name /\ <<name, req>>[2] = req
  OBVIOUS
<1>3. route \in Routes /\ route[1] = name
  BY <1>1, <1>2
<1> QED BY <1>1, <1>2, <1>3 DEF Requires

LEMMA Requirements ==
  /\ Requires("devices") = One("anpr:device:read")
  /\ Requires("listEvents") = One("anpr:event:read")
  /\ Requires("reviewQueue") = One("anpr:event:review")
  /\ Requires("vehicle") = One("vehicle:read")
  /\ Requires("vehicles") = One("vehicle:read")
  /\ Requires("sessions") = One("session:read")
  /\ Requires("releases") = One("release:read")
  /\ Requires("invoices") = One("invoice:read")
  /\ Requires("invoice") = One("invoice:read")
  /\ Requires("auctions") = One("auction:read")
  /\ Requires("simulate") = One("anpr:event:review")
  /\ Requires("review") = One("anpr:event:review")
  /\ Requires("hold") = One("session:hold")
  /\ Requires("liftHold") = One("session:hold")
  /\ Requires("attachRate") = One("charge:recalculate")
  /\ Requires("requestRelease") = One("release:request")
  /\ Requires("decide") = One("release:approve")
  /\ Requires("complete") = One("release:execute")
  /\ Requires("issue") = One("invoice:issue")
  /\ Requires("recordPayment") = One("payment:record")
  /\ Requires("dashboard") = Either({"report:operations", "report:finance", "report:financier"})
  /\ Requires("occupancy") = Either({"report:operations", "report:financier"})
  /\ Requires("ageing") = Either({"report:operations", "report:finance", "report:financier"})
  /\ Requires("revenue") = Either({"report:finance", "report:financier"})
<1>1. Requires("devices") = One("anpr:device:read")
  <2>1. /\ <<"devices", One("anpr:device:read")>> \in Routes
        /\ \A route \in Routes : route[1] = "devices" => route = <<"devices", One("anpr:device:read")>>
    BY DEF Routes, AnprRoutes, VehicleRoutes, ParkingRoutes, ReleaseRoutes, InvoiceRoutes,
         PaymentRoutes, AuctionRoutes, SaleRoutes, ReportRoutes, UserRoutes, AuthRoutes
  <2> QED BY <2>1, OneRoute
<1>2. Requires("listEvents") = One("anpr:event:read")
  <2>1. /\ <<"listEvents", One("anpr:event:read")>> \in Routes
        /\ \A route \in Routes : route[1] = "listEvents" => route = <<"listEvents", One("anpr:event:read")>>
    BY DEF Routes, AnprRoutes, VehicleRoutes, ParkingRoutes, ReleaseRoutes, InvoiceRoutes,
         PaymentRoutes, AuctionRoutes, SaleRoutes, ReportRoutes, UserRoutes, AuthRoutes
  <2> QED BY <2>1, OneRoute
<1>3. Requires("reviewQueue") = One("anpr:event:review")
  <2>1. /\ <<"reviewQueue", One("anpr:event:review")>> \in Routes
        /\ \A route \in Routes : route[1] = "reviewQueue" => route = <<"reviewQueue", One("anpr:event:review")>>
    BY DEF Routes, AnprRoutes, VehicleRoutes, ParkingRoutes, ReleaseRoutes, InvoiceRoutes,
         PaymentRoutes, AuctionRoutes, SaleRoutes, ReportRoutes, UserRoutes, AuthRoutes
  <2> QED BY <2>1, OneRoute
<1>4. Requires("vehicle") = One("vehicle:read")
  <2>1. /\ <<"vehicle", One("vehicle:read")>> \in Routes
        /\ \A route \in Routes : route[1] = "vehicle" => route = <<"vehicle", One("vehicle:read")>>
    BY DEF Routes, AnprRoutes, VehicleRoutes, ParkingRoutes, ReleaseRoutes, InvoiceRoutes,
         PaymentRoutes, AuctionRoutes, SaleRoutes, ReportRoutes, UserRoutes, AuthRoutes
  <2> QED BY <2>1, OneRoute
<1>5. Requires("vehicles") = One("vehicle:read")
  <2>1. /\ <<"vehicles", One("vehicle:read")>> \in Routes
        /\ \A route \in Routes : route[1] = "vehicles" => route = <<"vehicles", One("vehicle:read")>>
    BY DEF Routes, AnprRoutes, VehicleRoutes, ParkingRoutes, ReleaseRoutes, InvoiceRoutes,
         PaymentRoutes, AuctionRoutes, SaleRoutes, ReportRoutes, UserRoutes, AuthRoutes
  <2> QED BY <2>1, OneRoute
<1>6. Requires("sessions") = One("session:read")
  <2>1. /\ <<"sessions", One("session:read")>> \in Routes
        /\ \A route \in Routes : route[1] = "sessions" => route = <<"sessions", One("session:read")>>
    BY DEF Routes, AnprRoutes, VehicleRoutes, ParkingRoutes, ReleaseRoutes, InvoiceRoutes,
         PaymentRoutes, AuctionRoutes, SaleRoutes, ReportRoutes, UserRoutes, AuthRoutes
  <2> QED BY <2>1, OneRoute
<1>7. Requires("releases") = One("release:read")
  <2>1. /\ <<"releases", One("release:read")>> \in Routes
        /\ \A route \in Routes : route[1] = "releases" => route = <<"releases", One("release:read")>>
    BY DEF Routes, AnprRoutes, VehicleRoutes, ParkingRoutes, ReleaseRoutes, InvoiceRoutes,
         PaymentRoutes, AuctionRoutes, SaleRoutes, ReportRoutes, UserRoutes, AuthRoutes
  <2> QED BY <2>1, OneRoute
<1>8. Requires("invoices") = One("invoice:read")
  <2>1. /\ <<"invoices", One("invoice:read")>> \in Routes
        /\ \A route \in Routes : route[1] = "invoices" => route = <<"invoices", One("invoice:read")>>
    BY DEF Routes, AnprRoutes, VehicleRoutes, ParkingRoutes, ReleaseRoutes, InvoiceRoutes,
         PaymentRoutes, AuctionRoutes, SaleRoutes, ReportRoutes, UserRoutes, AuthRoutes
  <2> QED BY <2>1, OneRoute
<1>9. Requires("invoice") = One("invoice:read")
  <2>1. /\ <<"invoice", One("invoice:read")>> \in Routes
        /\ \A route \in Routes : route[1] = "invoice" => route = <<"invoice", One("invoice:read")>>
    BY DEF Routes, AnprRoutes, VehicleRoutes, ParkingRoutes, ReleaseRoutes, InvoiceRoutes,
         PaymentRoutes, AuctionRoutes, SaleRoutes, ReportRoutes, UserRoutes, AuthRoutes
  <2> QED BY <2>1, OneRoute
<1>10. Requires("auctions") = One("auction:read")
  <2>1. /\ <<"auctions", One("auction:read")>> \in Routes
        /\ \A route \in Routes : route[1] = "auctions" => route = <<"auctions", One("auction:read")>>
    BY DEF Routes, AnprRoutes, VehicleRoutes, ParkingRoutes, ReleaseRoutes, InvoiceRoutes,
         PaymentRoutes, AuctionRoutes, SaleRoutes, ReportRoutes, UserRoutes, AuthRoutes
  <2> QED BY <2>1, OneRoute
<1>11. Requires("simulate") = One("anpr:event:review")
  <2>1. /\ <<"simulate", One("anpr:event:review")>> \in Routes
        /\ \A route \in Routes : route[1] = "simulate" => route = <<"simulate", One("anpr:event:review")>>
    BY DEF Routes, AnprRoutes, VehicleRoutes, ParkingRoutes, ReleaseRoutes, InvoiceRoutes,
         PaymentRoutes, AuctionRoutes, SaleRoutes, ReportRoutes, UserRoutes, AuthRoutes
  <2> QED BY <2>1, OneRoute
<1>12. Requires("review") = One("anpr:event:review")
  <2>1. /\ <<"review", One("anpr:event:review")>> \in Routes
        /\ \A route \in Routes : route[1] = "review" => route = <<"review", One("anpr:event:review")>>
    BY DEF Routes, AnprRoutes, VehicleRoutes, ParkingRoutes, ReleaseRoutes, InvoiceRoutes,
         PaymentRoutes, AuctionRoutes, SaleRoutes, ReportRoutes, UserRoutes, AuthRoutes
  <2> QED BY <2>1, OneRoute
<1>13. Requires("hold") = One("session:hold")
  <2>1. /\ <<"hold", One("session:hold")>> \in Routes
        /\ \A route \in Routes : route[1] = "hold" => route = <<"hold", One("session:hold")>>
    BY DEF Routes, AnprRoutes, VehicleRoutes, ParkingRoutes, ReleaseRoutes, InvoiceRoutes,
         PaymentRoutes, AuctionRoutes, SaleRoutes, ReportRoutes, UserRoutes, AuthRoutes
  <2> QED BY <2>1, OneRoute
<1>14. Requires("liftHold") = One("session:hold")
  <2>1. /\ <<"liftHold", One("session:hold")>> \in Routes
        /\ \A route \in Routes : route[1] = "liftHold" => route = <<"liftHold", One("session:hold")>>
    BY DEF Routes, AnprRoutes, VehicleRoutes, ParkingRoutes, ReleaseRoutes, InvoiceRoutes,
         PaymentRoutes, AuctionRoutes, SaleRoutes, ReportRoutes, UserRoutes, AuthRoutes
  <2> QED BY <2>1, OneRoute
<1>15. Requires("attachRate") = One("charge:recalculate")
  <2>1. /\ <<"attachRate", One("charge:recalculate")>> \in Routes
        /\ \A route \in Routes : route[1] = "attachRate" => route = <<"attachRate", One("charge:recalculate")>>
    BY DEF Routes, AnprRoutes, VehicleRoutes, ParkingRoutes, ReleaseRoutes, InvoiceRoutes,
         PaymentRoutes, AuctionRoutes, SaleRoutes, ReportRoutes, UserRoutes, AuthRoutes
  <2> QED BY <2>1, OneRoute
<1>16. Requires("requestRelease") = One("release:request")
  <2>1. /\ <<"requestRelease", One("release:request")>> \in Routes
        /\ \A route \in Routes : route[1] = "requestRelease" => route = <<"requestRelease", One("release:request")>>
    BY DEF Routes, AnprRoutes, VehicleRoutes, ParkingRoutes, ReleaseRoutes, InvoiceRoutes,
         PaymentRoutes, AuctionRoutes, SaleRoutes, ReportRoutes, UserRoutes, AuthRoutes
  <2> QED BY <2>1, OneRoute
<1>17. Requires("decide") = One("release:approve")
  <2>1. /\ <<"decide", One("release:approve")>> \in Routes
        /\ \A route \in Routes : route[1] = "decide" => route = <<"decide", One("release:approve")>>
    BY DEF Routes, AnprRoutes, VehicleRoutes, ParkingRoutes, ReleaseRoutes, InvoiceRoutes,
         PaymentRoutes, AuctionRoutes, SaleRoutes, ReportRoutes, UserRoutes, AuthRoutes
  <2> QED BY <2>1, OneRoute
<1>18. Requires("complete") = One("release:execute")
  <2>1. /\ <<"complete", One("release:execute")>> \in Routes
        /\ \A route \in Routes : route[1] = "complete" => route = <<"complete", One("release:execute")>>
    BY DEF Routes, AnprRoutes, VehicleRoutes, ParkingRoutes, ReleaseRoutes, InvoiceRoutes,
         PaymentRoutes, AuctionRoutes, SaleRoutes, ReportRoutes, UserRoutes, AuthRoutes
  <2> QED BY <2>1, OneRoute
<1>19. Requires("issue") = One("invoice:issue")
  <2>1. /\ <<"issue", One("invoice:issue")>> \in Routes
        /\ \A route \in Routes : route[1] = "issue" => route = <<"issue", One("invoice:issue")>>
    BY DEF Routes, AnprRoutes, VehicleRoutes, ParkingRoutes, ReleaseRoutes, InvoiceRoutes,
         PaymentRoutes, AuctionRoutes, SaleRoutes, ReportRoutes, UserRoutes, AuthRoutes
  <2> QED BY <2>1, OneRoute
<1>20. Requires("recordPayment") = One("payment:record")
  <2>1. /\ <<"recordPayment", One("payment:record")>> \in Routes
        /\ \A route \in Routes : route[1] = "recordPayment" => route = <<"recordPayment", One("payment:record")>>
    BY DEF Routes, AnprRoutes, VehicleRoutes, ParkingRoutes, ReleaseRoutes, InvoiceRoutes,
         PaymentRoutes, AuctionRoutes, SaleRoutes, ReportRoutes, UserRoutes, AuthRoutes
  <2> QED BY <2>1, OneRoute
<1>21. Requires("dashboard") = Either({"report:operations", "report:finance", "report:financier"})
  <2>1. /\ <<"dashboard", Either({"report:operations", "report:finance", "report:financier"})>> \in Routes
        /\ \A route \in Routes : route[1] = "dashboard" => route = <<"dashboard", Either({"report:operations", "report:finance", "report:financier"})>>
    BY DEF Routes, AnprRoutes, VehicleRoutes, ParkingRoutes, ReleaseRoutes, InvoiceRoutes,
         PaymentRoutes, AuctionRoutes, SaleRoutes, ReportRoutes, UserRoutes, AuthRoutes
  <2> QED BY <2>1, OneRoute
<1>22. Requires("occupancy") = Either({"report:operations", "report:financier"})
  <2>1. /\ <<"occupancy", Either({"report:operations", "report:financier"})>> \in Routes
        /\ \A route \in Routes : route[1] = "occupancy" => route = <<"occupancy", Either({"report:operations", "report:financier"})>>
    BY DEF Routes, AnprRoutes, VehicleRoutes, ParkingRoutes, ReleaseRoutes, InvoiceRoutes,
         PaymentRoutes, AuctionRoutes, SaleRoutes, ReportRoutes, UserRoutes, AuthRoutes
  <2> QED BY <2>1, OneRoute
<1>23. Requires("ageing") = Either({"report:operations", "report:finance", "report:financier"})
  <2>1. /\ <<"ageing", Either({"report:operations", "report:finance", "report:financier"})>> \in Routes
        /\ \A route \in Routes : route[1] = "ageing" => route = <<"ageing", Either({"report:operations", "report:finance", "report:financier"})>>
    BY DEF Routes, AnprRoutes, VehicleRoutes, ParkingRoutes, ReleaseRoutes, InvoiceRoutes,
         PaymentRoutes, AuctionRoutes, SaleRoutes, ReportRoutes, UserRoutes, AuthRoutes
  <2> QED BY <2>1, OneRoute
<1>24. Requires("revenue") = Either({"report:finance", "report:financier"})
  <2>1. /\ <<"revenue", Either({"report:finance", "report:financier"})>> \in Routes
        /\ \A route \in Routes : route[1] = "revenue" => route = <<"revenue", Either({"report:finance", "report:financier"})>>
    BY DEF Routes, AnprRoutes, VehicleRoutes, ParkingRoutes, ReleaseRoutes, InvoiceRoutes,
         PaymentRoutes, AuctionRoutes, SaleRoutes, ReportRoutes, UserRoutes, AuthRoutes
  <2> QED BY <2>1, OneRoute
<1> QED BY <1>1, <1>2, <1>3, <1>4, <1>5, <1>6, <1>7, <1>8, <1>9, <1>10, <1>11, <1>12,
           <1>13, <1>14, <1>15, <1>16, <1>17, <1>18, <1>19, <1>20, <1>21, <1>22, <1>23, <1>24

------------------------------------------------------------------------------
(* What each role holds                                                    *)

(* What the first screen of each kind of user needs. *)
GateRights == {"session:admit", "anpr:event:read", "anpr:event:review", "anpr:device:read",
               "vehicle:read"}
DashboardRights == {"report:operations", "report:finance", "session:read", "release:read"}
PortalRights == {"report:financier", "vehicle:read", "session:read", "invoice:read"}

(* Who admits has all that the gate needs; who reports on operations or    *)
(* finance reports on both, or admits; payments come with invoices, a      *)
(* financier's reports and every role of a person with vehicles.           *)
Coherent(has) ==
  /\ "session:admit" \in has => GateRights \subseteq has
  /\ has \cap {"report:operations", "report:finance"} # {} =>
       "session:admit" \in has \/ DashboardRights \subseteq has
  /\ "payment:read" \in has => "invoice:read" \in has
  /\ "report:financier" \in has => "vehicle:read" \in has

LEMMA EveryRole ==
  \A r \in RoleCode : /\ Coherent(Granted(r))
                      /\ r \notin MACHINE_ONLY_ROLES => "vehicle:read" \in Granted(r)
                      /\ r \in FINANCIER_SCOPED_ROLES => PortalRights \subseteq Granted(r)
<1> USE DEF Coherent, GateRights, DashboardRights, PortalRights, MACHINE_ONLY_ROLES,
            FINANCIER_SCOPED_ROLES
<1>1. LET r == "SYSTEM_ADMINISTRATOR"
      IN  /\ Coherent(Granted(r))
          /\ r \notin MACHINE_ONLY_ROLES => "vehicle:read" \in Granted(r)
          /\ r \in FINANCIER_SCOPED_ROLES => PortalRights \subseteq Granted(r)
  BY DEF Granted, Everything, YardStaff, Management, FinanceOfficer, AuctionAdministrator,
         FinancierUser, Device
<1>2. LET r == "MANAGEMENT"
      IN  /\ Coherent(Granted(r))
          /\ r \notin MACHINE_ONLY_ROLES => "vehicle:read" \in Granted(r)
          /\ r \in FINANCIER_SCOPED_ROLES => PortalRights \subseteq Granted(r)
  BY DEF Granted, Management
<1>3. LET r == "YARD_STAFF"
      IN  /\ Coherent(Granted(r))
          /\ r \notin MACHINE_ONLY_ROLES => "vehicle:read" \in Granted(r)
          /\ r \in FINANCIER_SCOPED_ROLES => PortalRights \subseteq Granted(r)
  BY DEF Granted, YardStaff
<1>4. LET r == "FINANCE_OFFICER"
      IN  /\ Coherent(Granted(r))
          /\ r \notin MACHINE_ONLY_ROLES => "vehicle:read" \in Granted(r)
          /\ r \in FINANCIER_SCOPED_ROLES => PortalRights \subseteq Granted(r)
  BY DEF Granted, FinanceOfficer
<1>5. LET r == "AUCTION_ADMINISTRATOR"
      IN  /\ Coherent(Granted(r))
          /\ r \notin MACHINE_ONLY_ROLES => "vehicle:read" \in Granted(r)
          /\ r \in FINANCIER_SCOPED_ROLES => PortalRights \subseteq Granted(r)
  BY DEF Granted, AuctionAdministrator
<1>6. LET r == "FINANCIER_USER"
      IN  /\ Coherent(Granted(r))
          /\ r \notin MACHINE_ONLY_ROLES => "vehicle:read" \in Granted(r)
          /\ r \in FINANCIER_SCOPED_ROLES => PortalRights \subseteq Granted(r)
  BY DEF Granted, FinancierUser
<1>7. LET r == "DEVICE_SERVICE_ACCOUNT"
      IN  /\ Coherent(Granted(r))
          /\ r \notin MACHINE_ONLY_ROLES => "vehicle:read" \in Granted(r)
          /\ r \in FINANCIER_SCOPED_ROLES => PortalRights \subseteq Granted(r)
  BY DEF Granted, Device
<1> QED BY <1>1, <1>2, <1>3, <1>4, <1>5, <1>6, <1>7 DEF RoleCode

(* Rights that are held role by role are held by any set of roles. *)
LEMMA EveryAccount ==
  ASSUME NEW a \in Account, Scoped(a)
  PROVE  /\ Coherent(Permissions(a))
         /\ ~(a.roles \subseteq MACHINE_ONLY_ROLES) => "vehicle:read" \in Permissions(a)
         /\ a.linked => PortalRights \subseteq Permissions(a)
<1>1. \A r \in a.roles : r \in RoleCode /\ Granted(r) \subseteq Permissions(a)
  BY DEF Account, Permissions
<1>2. \A x : x \in Permissions(a) => \E r \in a.roles : x \in Granted(r)
  BY DEF Permissions
<1>3. \A r \in a.roles : Coherent(Granted(r))
  BY <1>1, EveryRole
<1>4. Coherent(Permissions(a))
  <2>1. "session:admit" \in Permissions(a) => GateRights \subseteq Permissions(a)
    BY <1>1, <1>2, <1>3 DEF Coherent
  <2>2. Permissions(a) \cap {"report:operations", "report:finance"} # {} =>
          "session:admit" \in Permissions(a) \/ DashboardRights \subseteq Permissions(a)
    <3> SUFFICES ASSUME NEW x \in {"report:operations", "report:finance"}, x \in Permissions(a)
                 PROVE  "session:admit" \in Permissions(a) \/ DashboardRights \subseteq Permissions(a)
      OBVIOUS
    <3>1. PICK r \in a.roles : x \in Granted(r)
      BY <1>2
    <3>2. "session:admit" \in Granted(r) \/ DashboardRights \subseteq Granted(r)
      BY <1>3, <3>1 DEF Coherent
    <3> QED BY <1>1, <3>1, <3>2
  <2>3. "payment:read" \in Permissions(a) => "invoice:read" \in Permissions(a)
    BY <1>1, <1>2, <1>3 DEF Coherent
  <2>4. "report:financier" \in Permissions(a) => "vehicle:read" \in Permissions(a)
    BY <1>1, <1>2, <1>3 DEF Coherent
  <2> QED BY <2>1, <2>2, <2>3, <2>4 DEF Coherent
<1>5. ~(a.roles \subseteq MACHINE_ONLY_ROLES) => "vehicle:read" \in Permissions(a)
  BY <1>1, EveryRole
<1>6. a.linked => PortalRights \subseteq Permissions(a)
  BY <1>1, EveryRole DEF Scoped
<1> QED BY <1>4, <1>5, <1>6

------------------------------------------------------------------------------
(* What the console offers                                                 *)

(* A person is served what requires a permission that he has. *)
LEMMA Served ==
  ASSUME NEW a, a.active, ~a.service, NEW name
  PROVE  /\ \A p : Requires(name) = One(p) /\ p \in Permissions(a) => May(a, name)
         /\ \A ps : Requires(name) = Either(ps) /\ ps \cap Permissions(a) # {} => May(a, name)
<1>1. ASSUME NEW p, Requires(name) = One(p), p \in Permissions(a)
      PROVE  May(a, name)
  <2>1. {p} \in Requires(name) /\ {p} \subseteq Permissions(a)
    BY <1>1 DEF One
  <2> QED BY <2>1 DEF May
<1>2. ASSUME NEW ps, Requires(name) = Either(ps), ps \cap Permissions(a) # {}
      PROVE  May(a, name)
  <2>1. PICK p \in ps : p \in Permissions(a)
    BY <1>2
  <2>2. {p} \in Requires(name) /\ {p} \subseteq Permissions(a)
    BY <1>2, <2>1 DEF Either
  <2> QED BY <2>2 DEF May
<1> QED BY <1>1, <1>2

(* What each of the landing pages asks for. *)
LEMMA ScreenQueries ==
  /\ Asks("/portal") = {"dashboard", "vehicles", "sessions", "invoices"}
  /\ Asks("/gate") = {"devices", "listEvents", "reviewQueue", "vehicle"}
  /\ Asks("/dashboard") = {"dashboard", "occupancy", "ageing", "revenue", "sessions", "releases"}
  /\ Asks("/billing") = {"invoices", "invoice"}
  /\ Asks("/vehicles") = {"vehicles"}
<1>1. Asks("/portal") = {"dashboard", "vehicles", "sessions", "invoices"}
  BY DEF Asks, PortalScreen
<1>2. Asks("/gate") = {"devices", "listEvents", "reviewQueue", "vehicle"}
  BY DEF Asks, GateScreen
<1>3. Asks("/dashboard") = {"dashboard", "occupancy", "ageing", "revenue", "sessions", "releases"}
  BY DEF Asks, DashboardScreen
<1>4. Asks("/billing") = {"invoices", "invoice"}
  BY DEF Asks, BillingScreen
<1>5. Asks("/vehicles") = {"vehicles"}
  BY DEF Asks, VehiclesScreen
<1> QED BY <1>1, <1>2, <1>3, <1>4, <1>5

LEMMA LandingServed ==
  ASSUME NEW a \in Account, Scoped(a), a.active, ~a.service,
         ~(a.roles \subseteq MACHINE_ONLY_ROLES), NEW name \in Asks(LandingRoute(a))
  PROVE  May(a, name)
<1>1. /\ Coherent(Permissions(a)) /\ "vehicle:read" \in Permissions(a)
      /\ a.linked => PortalRights \subseteq Permissions(a)
  BY EveryAccount
<1>2. CASE a.linked /\ "report:financier" \in Permissions(a)
  <2>1. LandingRoute(a) = "/portal"
    BY <1>2 DEF LandingRoute
  <2>2. name \in {"dashboard", "vehicles", "sessions", "invoices"}
    BY <2>1, ScreenQueries
  <2>3. PortalRights \subseteq Permissions(a)
    BY <1>1, <1>2
  <2> QED BY <2>2, <2>3, Requirements, Served DEF PortalRights
<1>3. CASE "session:admit" \in Permissions(a) /\ ~(a.linked /\ "report:financier" \in Permissions(a))
  <2>1. LandingRoute(a) = "/gate"
    BY <1>3 DEF LandingRoute
  <2>2. name \in {"devices", "listEvents", "reviewQueue", "vehicle"}
    BY <2>1, ScreenQueries
  <2>3. GateRights \subseteq Permissions(a)
    BY <1>1, <1>3 DEF Coherent
  <2> QED BY <2>2, <2>3, Requirements, Served DEF GateRights
<1>4. CASE /\ "session:admit" \notin Permissions(a)
           /\ ~(a.linked /\ "report:financier" \in Permissions(a))
           /\ "report:operations" \in Permissions(a) \/ "report:finance" \in Permissions(a)
  <2>1. LandingRoute(a) = "/dashboard"
    BY <1>4 DEF LandingRoute
  <2>2. name \in {"dashboard", "occupancy", "ageing", "revenue", "sessions", "releases"}
    BY <2>1, ScreenQueries
  <2>3. DashboardRights \subseteq Permissions(a)
    BY <1>1, <1>4 DEF Coherent
  <2> QED BY <2>2, <2>3, Requirements, Served DEF DashboardRights
<1>5. CASE /\ "session:admit" \notin Permissions(a)
           /\ ~(a.linked /\ "report:financier" \in Permissions(a))
           /\ ~("report:operations" \in Permissions(a) \/ "report:finance" \in Permissions(a))
  <2>1. LandingRoute(a) = IF "invoice:read" \in Permissions(a) THEN "/billing" ELSE "/vehicles"
    BY <1>1, <1>5 DEF LandingRoute
  <2>2. CASE "invoice:read" \in Permissions(a)
    <3>1. name \in {"invoices", "invoice"}
      BY <2>1, <2>2, ScreenQueries
    <3> QED BY <2>2, <3>1, Requirements, Served
  <2>3. CASE "invoice:read" \notin Permissions(a)
    <3>1. name = "vehicles"
      BY <2>1, <2>3, ScreenQueries
    <3> QED BY <1>1, <3>1, Requirements, Served
  <2> QED BY <2>2, <2>3
<1> QED BY <1>2, <1>3, <1>4, <1>5

(* Every entry of the menu and of the palette. *)
LEMMA OfferedServed ==
  ASSUME NEW a \in Account, Scoped(a), a.active, ~a.service, NEW page \in Offered(a) \cap Screens
  PROVE  May(a, MainQuery(page))
<1> DEFINE has(p) == p \in Permissions(a)
<1>1. Coherent(Permissions(a))
  BY EveryAccount
<1>2. PICK item \in Navigation \cup Commands : item[1] = page /\ item[2] \cap Permissions(a) # {}
  BY DEF Offered
<1>3. \/ page = "/dashboard" /\ (has("report:operations") \/ has("report:finance") \/ has("report:financier"))
      \/ page = "/gate" /\ (has("session:admit") \/ has("anpr:event:read"))
      \/ page = "/yard" /\ has("session:read")
      \/ page = "/vehicles" /\ has("vehicle:read")
      \/ page = "/billing" /\ (has("invoice:read") \/ has("payment:read"))
      \/ page = "/auctions" /\ has("auction:read")
      \/ page = "/portal" /\ has("report:financier")
  BY <1>2 DEF Navigation, Commands, Screens
<1>4. CASE page = "/dashboard" /\ (has("report:operations") \/ has("report:finance") \/ has("report:financier"))
  <2>1. MainQuery(page) = "dashboard"
    BY <1>4 DEF MainQuery
  <2> QED BY <1>4, <2>1, Requirements, Served
<1>5. CASE page = "/gate" /\ (has("session:admit") \/ has("anpr:event:read"))
  <2>1. MainQuery(page) = "listEvents" /\ has("anpr:event:read")
    BY <1>1, <1>5 DEF MainQuery, Coherent, GateRights
  <2> QED BY <2>1, Requirements, Served
<1>6. CASE page = "/yard" /\ has("session:read")
  <2>1. MainQuery(page) = "sessions"
    BY <1>6 DEF MainQuery
  <2> QED BY <1>6, <2>1, Requirements, Served
<1>7. CASE page \in {"/vehicles", "/portal"} /\ (has("vehicle:read") \/ has("report:financier"))
  <2>1. MainQuery(page) = "vehicles" /\ has("vehicle:read")
    BY <1>1, <1>7 DEF MainQuery, Coherent
  <2> QED BY <2>1, Requirements, Served
<1>8. CASE page = "/billing" /\ (has("invoice:read") \/ has("payment:read"))
  <2>1. MainQuery(page) = "invoices" /\ has("invoice:read")
    BY <1>1, <1>8 DEF MainQuery, Coherent
  <2> QED BY <2>1, Requirements, Served
<1>9. CASE page = "/auctions" /\ has("auction:read")
  <2>1. MainQuery(page) = "auctions"
    BY <1>9 DEF MainQuery
  <2> QED BY <1>9, <2>1, Requirements, Served
<1> QED BY <1>3, <1>4, <1>5, <1>6, <1>7, <1>8, <1>9

LEMMA ButtonsServed ==
  ASSUME NEW a, a.active, ~a.service, NEW button \in Buttons, button[1] \in Permissions(a)
  PROVE  May(a, button[2])
<1>1. Requires(button[2]) = One(button[1])
  BY Requirements DEF Buttons, GateButtons, StayButtons, ReleaseButtons, BillingButtons
<1> QED BY <1>1, Served

(* Whatever roles a person holds, where he lands he is served every query, *)
(* a page he is offered opens, and a button that he sees is his to press     *)
(* (landingRouteFor, AppShell, command-palette, PermissionsGuard).         *)
THEOREM ConsoleServes == AccessSpec => []ConsoleAgrees
<1>1. ScopedAccounts => ConsoleAgrees
  <2> SUFFICES ASSUME ScopedAccounts, NEW u \in Users, NEW a, a = account[u],
                      a.active, ~a.service, ~(a.roles \subseteq MACHINE_ONLY_ROLES)
               PROVE  /\ \A name \in Asks(LandingRoute(a)) : May(a, name)
                      /\ \A page \in Offered(a) \cap Screens : May(a, MainQuery(page))
                      /\ \A button \in Buttons : button[1] \in Permissions(a) => May(a, button[2])
    BY DEF ConsoleAgrees
  <2>1. a \in Account /\ Scoped(a)
    BY DEF ScopedAccounts
  <2> QED BY <2>1, LandingServed, OfferedServed, ButtonsServed
<1> QED BY <1>1, AlwaysScoped, PTL
===============================================================================
