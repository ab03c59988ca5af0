-------------------------------- MODULE Console --------------------------------
(***************************************************************************)
(* One browser tab of the console: who is signed in, the page, the chosen  *)
(* site, and the query cache the page renders from (lib/auth-context.tsx,  *)
(* lib/site-context.tsx, app/providers.tsx, hooks/use-domain.ts).          *)
(*                                                                         *)
(* Queries do not read one another, so one query is followed, any of them. *)
(* Its cache has an entry for each site it may be keyed by.  The library's *)
(* rules, as the hooks rely on them: data without a fetch in progress is   *)
(* fetched when it is first shown or shown again after an invalidation; an *)
(* invalidation marks every entry and starts the fetches of the shown ones *)
(* over, except a fetch that has no earlier data; an answer clears the     *)
(* mark; leaving a page cancels nothing.                                   *)
(***************************************************************************)
EXTENDS Screens

CONSTANTS
  Persons,        \* people who share the terminal
  PortalUsers,    \* those of them who belong to a financier
  Sites,
  AllSites,       \* no site is chosen
  Nobody

ASSUME TerminalAssumption == PortalUsers \subseteq Persons /\ Nobody \notin Persons

VARIABLES
  query,      \* the query that is followed
  person,     \* whose tokens the tab holds
  screen,     \* the page
  site,       \* SiteProvider's siteId
  stored,     \* localStorage 'yardos.site'
  cache,      \* what is kept of the query, for each key
  flight,     \* the fetch in progress, for each key
  action,     \* the button that has been pressed, and whether the API has done it
  missed      \* keys whose refresh an action could not reach

vars == <<query, person, screen, site, stored, cache, flight, action, missed>>

Scopes == Sites \cup {AllSites}

NoData == [data |-> FALSE, who |-> Nobody, at |-> AllSites, old |-> FALSE,
           invalid |-> FALSE]
Quiet == [sent |-> FALSE, who |-> Nobody, at |-> AllSites, read |-> FALSE, old |-> FALSE]
NoAction == [name |-> "none", done |-> FALSE]

TypeOK ==
  /\ query \in Queries
  /\ person \in Persons \cup {Nobody}
  /\ screen \in Screens \cup {"/login"}
  /\ site \in Scopes /\ stored \in Scopes
  /\ cache \in [Scopes -> [data : BOOLEAN, who : Persons \cup {Nobody}, at : Scopes,
                           old : BOOLEAN, invalid : BOOLEAN]]
  /\ flight \in [Scopes -> [sent : BOOLEAN, who : Persons \cup {Nobody}, at : Scopes,
                            read : BOOLEAN, old : BOOLEAN]]
  /\ action \in [name : {"none"} \cup Calls(Buttons), done : BOOLEAN]
  /\ missed \subseteq Scopes

Init ==
  /\ query \in Queries
  /\ person = Nobody /\ screen = "/login"
  /\ site = AllSites /\ stored = AllSites
  /\ cache = [k \in Scopes |-> NoData]
  /\ flight = [k \in Scopes |-> Quiet]
  /\ action = NoAction
  /\ missed = {}

------------------------------------------------------------------------------
(* The query on a page                                                     *)

(* useSite: the portal has no site switcher.                               *)
SiteOf(who, chosen) == IF who \in PortalUsers THEN AllSites ELSE chosen

(* What the heading of a page says.                                        *)
Heading(page, who, chosen) == IF FollowsSite(page) THEN SiteOf(who, chosen) ELSE AllSites

(* The queryKey                                                            *)
KeyFor_NoSite(page, who, chosen) == AllSites     \* mutant: siteId is not in the key

KeyFor(page, who, chosen) == Heading(page, who, chosen)

OnPage(page) == query \in Asks(page)

(* SiteProvider asks for the occupancy of every site on every page.        *)
Shown(page, who, chosen) ==
  (IF OnPage(page) THEN {KeyFor(page, who, chosen)} ELSE {})
    \cup (IF query = "occupancy" /\ who # Nobody THEN {AllSites} ELSE {})

Request(page, who, chosen, k) ==
  [sent |-> TRUE, who |-> who,
   at |-> IF OnPage(page) /\ k = KeyFor(page, who, chosen) THEN Heading(page, who, chosen)
          ELSE AllSites,
   read |-> FALSE, old |-> FALSE]

(* The tab shows a page to somebody, with a site chosen: whatever is newly *)
(* shown and has no usable data is fetched; "again" is fetched anew.       *)
Show(page, who, chosen, entries, flights, again) ==
  LET needed == {k \in Shown(page, who, chosen) :
                   ~flights[k].sent /\ (~entries[k].data \/ entries[k].invalid)}
  IN  /\ person' = who /\ screen' = page /\ site' = chosen
      /\ cache' = entries
      /\ flight' = [k \in Scopes |-> IF k \in needed \cup again
                                     THEN Request(page, who, chosen, k)
                                     ELSE flights[k]]

Empty == [k \in Scopes |-> NoData]
Silent == [k \in Scopes |-> Quiet]

Invalidated == [k \in Scopes |-> IF cache[k].data THEN [cache[k] EXCEPT !.invalid = TRUE]
                                 ELSE cache[k]]

(* Of the shown keys, those whose fetch an invalidation starts over.       *)
Restartable(keys) == {k \in keys : cache[k].data \/ ~flight[k].sent}

------------------------------------------------------------------------------
(* Sessions of the tab                                                     *)

(* signIn, then the landing page.                                          *)
SignIn(who) ==
  /\ person = Nobody
  /\ \E page \in Screens : Show(page, who, site, Empty, Silent, {})
  /\ missed' = {}
  /\ UNCHANGED <<query, stored, action>>

(* clearSession, on signing out or when the session expires: the cache and *)
(* the stored site go; SiteProvider, which stays mounted, keeps its choice.*)
SignOut ==
  /\ person # Nobody
  /\ Show("/login", Nobody, site, Empty, Silent, {})
  /\ stored' = AllSites
  /\ action' = NoAction
  /\ missed' = {}
  /\ UNCHANGED query

(* The page is loaded again: the tokens and the stored site survive.       *)
Reload ==
  /\ person # Nobody
  /\ Show(screen, person, AllSites, Empty, Silent, {})
  /\ action' = NoAction
  /\ missed' = {}
  /\ UNCHANGED <<query, stored>>

Go(page) ==
  /\ person # Nobody
  /\ page # screen
  /\ Show(page, person, site, cache, flight, {})
  /\ UNCHANGED <<query, stored, action, missed>>

(* setSiteId: everything is invalidated, and what was shown is fetched.    *)
ChooseSite(chosen) ==
  /\ person \in Persons \ PortalUsers
  /\ chosen # site
  /\ stored' = chosen
  /\ Show(screen, person, chosen, Invalidated, flight,
          Restartable(Shown(screen, person, site)) \cap Shown(screen, person, chosen))
  /\ UNCHANGED <<query, action, missed>>

(* The effect of SiteProvider once it has the list of sites.               *)
RestoreSite ==
  /\ person # Nobody
  /\ stored \notin {AllSites, site}
  /\ Show(screen, person, stored, cache, flight, {})
  /\ UNCHANGED <<query, stored, action, missed>>

------------------------------------------------------------------------------
(* Fetches                                                                 *)

(* An interval, the focus of the window, or data past its staleTime.       *)
Refetch(k) ==
  /\ person # Nobody
  /\ k \in Shown(screen, person, site)
  /\ ~flight[k].sent
  /\ flight' = [flight EXCEPT ![k] = Request(screen, person, site, k)]
  /\ UNCHANGED <<query, person, screen, site, stored, cache, action, missed>>

Serve(k) ==
  /\ flight[k].sent /\ ~flight[k].read
  /\ flight' = [flight EXCEPT ![k].read = TRUE]
  /\ UNCHANGED <<query, person, screen, site, stored, cache, action, missed>>

Answer(k) ==
  /\ flight[k].read
  /\ cache' = [cache EXCEPT ![k] = [data |-> TRUE, who |-> flight[k].who,
                                    at |-> flight[k].at, old |-> flight[k].old,
                                    invalid |-> FALSE]]
  /\ flight' = [flight EXCEPT ![k] = Quiet]
  /\ missed' = IF flight[k].old THEN missed ELSE missed \ {k}
  /\ UNCHANGED <<query, person, screen, site, stored, action>>

FailFetch(k) ==
  /\ flight[k].sent
  /\ flight' = [flight EXCEPT ![k] = Quiet]
  /\ UNCHANGED <<query, person, screen, site, stored, cache, action, missed>>

------------------------------------------------------------------------------
(* Buttons                                                                 *)

Press(name) ==
  /\ person # Nobody
  /\ action = NoAction
  /\ name \in ActionsOn(screen)
  /\ action' = [name |-> name, done |-> FALSE]
  /\ UNCHANGED <<query, person, screen, site, stored, cache, flight, missed>>

PageOf(name) == CHOOSE page \in Screens : name \in ActionsOn(page)

(* The query is on the page of the button and shows rows that it changes.  *)
Follows(name) ==
  /\ query \in Asks(PageOf(name))
  /\ Reads(query) \cap Changes(name) # {}
  /\ <<name, query>> \notin Unrefreshed

(* The API commits: whatever was read before is old from now on.           *)
Perform ==
  /\ action.name # "none" /\ ~action.done
  /\ action' = [action EXCEPT !.done = TRUE]
  /\ IF Follows(action.name)
       THEN /\ cache' = [k \in Scopes |-> IF cache[k].data
                                          THEN [cache[k] EXCEPT !.old = TRUE] ELSE cache[k]]
            /\ flight' = [k \in Scopes |-> IF flight[k].read
                                           THEN [flight[k] EXCEPT !.old = TRUE]
                                           ELSE flight[k]]
       ELSE UNCHANGED <<cache, flight>>
  /\ UNCHANGED <<query, person, screen, site, stored, missed>>

(* onSuccess, and the refetch calls of the page.                           *)
Succeed ==
  /\ action.done
  /\ LET refreshed == query \in Refreshes(action.name)
         again == IF refreshed THEN Restartable(Shown(screen, person, site)) ELSE {}
         called == IF query \in Refetches(action.name) THEN Restartable({AllSites}) ELSE {}
     IN  /\ Show(screen, person, site, IF refreshed THEN Invalidated ELSE cache, flight,
                 again \cup called)
         /\ missed' = missed \cup {k \in Scopes \ (again \cup called) : flight[k].old}
  /\ action' = NoAction
  /\ UNCHANGED <<query, stored>>

(* The API refuses, or its answer is lost.                                 *)
Fail ==
  /\ action.name # "none"
  /\ action' = NoAction
  /\ missed' = IF action.done THEN missed \cup {k \in Scopes : cache[k].old \/ flight[k].old}
               ELSE missed
  /\ UNCHANGED <<query, person, screen, site, stored, cache, flight>>

Next ==
  \/ \E who \in Persons : SignIn(who)
  \/ SignOut \/ Reload
  \/ \E page \in Screens : Go(page)
  \/ \E chosen \in Scopes : ChooseSite(chosen)
  \/ RestoreSite
  \/ \E k \in Scopes : Refetch(k) \/ Serve(k) \/ Answer(k) \/ FailFetch(k)
  \/ \E name \in Calls(Buttons) : Press(name)
  \/ Perform \/ Succeed \/ Fail

Spec == Init /\ [][Next]_vars

------------------------------------------------------------------------------
(* Nobody sees another person's rows, or another site's rows under the     *)
(* heading of the chosen one ("the previous site's rows are never rendered *)
(* under the new heading", site-context.tsx), whichever fetches were in    *)
(* flight when the person or the site changed.                             *)
HeadingAgrees ==
  OnPage(screen) =>
    LET entry == cache[KeyFor(screen, person, site)]
    IN  entry.data => entry.who = person /\ entry.at = Heading(screen, person, site)

(* Once an action has succeeded, what its page shows of the rows it        *)
(* changed is fresh or marked for a fetch: an answer read before the       *)
(* action never ends up looking fresh.  Excused are an action whose answer *)
(* was lost, and a fetch that the refresh could not start over.            *)
SeesOwnChange ==
  action = NoAction /\ OnPage(screen) =>
    LET k == KeyFor(screen, person, site)
    IN  cache[k].data /\ cache[k].old => cache[k].invalid \/ k \in missed

===============================================================================
