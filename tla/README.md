# Gomazon Webasyst: specifications

TLA+ modules, model-checking configurations and proofs for
`gomazon_webasyst`, the asynchronous Python service that shares a Webasyst
database. Paths below are relative to `src/src/gomazon_webasyst/`.

`PROJECT.json` is the index: every component with its status, every run, the
source lines each definition stands for, the hazards and the properties that
cover them, the disagreements between code and documents, and for each
property a plausible bug that it catches (the operators commented "Fault").

## 1. The system

The service is one process with one asyncio event loop. A request is a
coroutine; it gives way to others only at an `await`, and nearly every await is
a statement or a commit on a MySQL database that Webasyst itself (PHP) also
reads and writes. Session states are kept in the memory of the process. So the
hard behaviours are: what happens between two awaits of a request, between two
transactions of a use case, between the snapshot a transaction reads and the
rows it writes, what a failure, a cancellation or a restart leaves behind, and
in which order answers reach a browser.

| Component | State | Operations | Works with | What makes it correct |
|---|---|---|---|---|
| Backend sessions (`application/auth.py`, `application/session_establishment.py`, `infrastructure/sessions/memory.py`, `infrastructure/auth/`) | states in memory; registry rows `wa_contact_auths`; contacts (read) | login, restore, resolve, logout | contacts, written by Webasyst; the session bridge | a session is accepted only while both stores and the subject vouch for it; a revocation is final; a failed login leaves nothing |
| Persistent login (`application/persistent_login.py`, `compatibility/webasyst/auth/persistent.py`) | none of its own: the credential embeds user and version | issue, resolve, restore | sessions, cookies | a credential does not outlive a change of password; accounts are not mixed |
| Session bridge and cookies (`application/backend_session_bridge/`, `compatibility/webasyst/auth_http/`, `presentation/http/backend_session.py`) | the cookies of the browser | current subject, login, logout, planning of cookie changes | sessions, persistent login, the OAuth page | the browser ends with the cookies of what happened last; logout is final |
| OAuth authorization page (`presentation/http/legacy_oauth.py`, `application/oauth_authorization/`, `compatibility/webasyst/oauth/`) | CSRF cookie; a page per tab | show, log in, log out, approve, deny, cancel | bridge, access control, API credentials | a grant follows an approval and covers only what its subject may open |
| API credentials (`application/api_credentials.py`, `application/api_token_issuance.py`, `infrastructure/api/`) | `wa_api_auth_codes`, `wa_api_tokens` | issue and exchange codes, implicit grants, resolve, revoke | the OAuth page, API execution | one token per contact and client; a code is exchanged under its policy; a revoked token is gone |
| Access control (`application/access_control.py`, `rights_evaluator.py`, `infrastructure/access_control/`) | groups, memberships, rights, the counts of groups | ten mutations and the part of a contact deletion that concerns them; evaluation | contacts; everything that asks for a right | nobody gains access but by an administrator; no orphans; honest counts; snapshot and questions agree |
| Team invitations (`application/team/invitation.py`, `infrastructure/team/sqlalchemy/invitation.py`) | contacts, `wa_app_tokens` | `team.users.invite` | rights, events, mail, Webasyst ID | what is handed over works; rights are not exceeded; the tokens are bounded |
| Contacts and their deletion (`application/contacts.py`, `repositories.py`, `infrastructure/contacts_app/`) | contact rows and all tables that name contacts | create, update, delete | events; the tables of the other components | nothing outlives its contact; honest category counts |
| Events (`application/events/`, `infrastructure/events/`, `compatibility/webasyst/events/`) | a registry, fixed at start-up; the dispatches under way | publish: handlers in order, the first answer of an owner counts, failures are recorded and passed over; handlers that publish | contacts, team, every package | order and isolation of handlers; every dispatch ends |
| Installed applications and plugins (`compatibility/webasyst/application_registry/`, `.../plugins/`, their catalogs) | two catalogs, read at start-up | parse `apps.php`, `plugins.php` and manifests; normalize; resolve | runtime, API execution, users.getList | what is installed is what the files say, by their last word; a file that is not used stops nothing |
| Application runtime and start-up (`application/runtime/`, `composition/`) | registries of methods, dispatch handlers, event handlers; pending or ready | build modules, validate, register | catalogs, events, API execution, dispatch | all or nothing; what validation accepts, registration accepts |
| API execution (`application/api_execution/`, `compatibility/webasyst/api/`, `presentation/http/legacy_api.py`) | none; records the use of tokens and the activity of users | preconditions, target, token, activity, rights, method | credentials, access control, registry | the gates in their order, each on what then holds |
| Team users and groups (`application/team/`, `infrastructure/team/sqlalchemy/users.py`) | none | `team.users.getList`, `team.groups.getList` | API execution, access control, catalog | a list shows what its actor may see, completely |
| Routing and dispatch (`compatibility/webasyst/routing/`, `.../dispatch/`) | route tables, parsed once | settle, redirect, resolve, dispatch | the registry of dispatch handlers | an address reaches the handler its routes name, or none |

Section 7 gives the components that have no module yet, and why.

## 2. The modules

```
SessionAuthority        what a session is to those who use it (abstract)
   ^ implemented by (BackendSessionRefinement)
BackendSession          two stores, concurrent requests     BackendSessionProofs
   | what SessionAuthority promises is assumed by
OAuthAuthorization      the browser, its cookies and the authorization page
   |                                                        OAuthAuthorizationProofs
   | grants lead to                     | asks
ApiCredentials          codes, tokens   AccessControl   groups, rights, evaluation
ApiCredentialsProofs                    AccessControlProofs
                                        | rights of an inviter are assumed by
                        ContactLifecycle                invitations, deletion
                        ContactLifecycleProofs

WebasystProcess         a process from its files to its answers
   |                                    WebasystProcessProofs -- RuntimeLinkerProofs
   | extends
   +-- InstalledCatalog -- PhpConfig          what is installed   (PhpWriting: the reference)
   +-- EventDispatch   --+
   +-- LegacyRouting   --+-- RuntimeLinker    what is registered, and who uses it
   +-- ApiExecution    --+
          +-- TeamDirectory                   what the lists of Team show
```

`MC<module>` instantiates a module for TLC (model values, symmetry, starting
tables); each `.cfg` is one run. `Selection` has the one helper on sequences that
the parts of the process share: the elements at some places, in their order.
`<module>Proofs` extends a module with its theorems
and their proofs.

### BackendSession, SessionAuthority

One action per awaited call of a use case. `req[r]` holds where a request is
(`pc`) and its locals; `states` and `registry` are the two stores; `contacts`
the subject rows. `Login`/`Restore` → `Create` → `RegisterSelect` →
`RegisterWrite` or `RegisterRaises` → `Compensate` is
`BackendSessionEstablisher.establish` with its callers; `Resolve` →
`LoadSubject` → `Check` → `TouchSelect` → `TouchWrite` is
`ResolveBackendSession`; `Logout` → `RevokeState` → `RevokeRegistry` →
`RevokeDelete` is `LogoutBackendSession`, the last three also being
`_revoke_both`. Registration, touch and revocation each select a row at one
await and write or delete it by its primary key at a later one, so that another
request may delete the row, or write it over, in between: `held[r]` is the row a
transaction has selected (none, its own, another contact's, or one deleted since),
`Track` keeps it. A row selected as the contact's own keeps the contact it
has when it is updated, as the ORM writes only columns that change; a delete takes
the row away whoever's it is by then. `Abort` is a cancellation or a store that raises, at any await;
`Restart` loses the states and the requests and keeps the rows; `Tick` ages
the states; `ChangeCredentials`, `ChangeStatus` and `ForeignRevoke` are Webasyst.
Calls on the in-memory store contain no await of their own, but each is awaited,
so each is a step: that admits at least what the event loop can do.
`SessionAuthority` is the abstract view: a session is opened, admitted, ends once,
and a client that asks is granted access only if the session was live when it
asked. Left out: the trusting validation policy, which no composition selects.

### ApiCredentials

Every use case is one transaction, every statement of it one action
(`Classify`, `ClassifyValue` and `Winner` are the reads that follow a constraint error). A transaction reads
the snapshot of its first read or, with the other isolation level, what is committed; its
writes meet the latest rows and lock them. The service sets no isolation level
(`infrastructure/persistence/sqlalchemy/factory.py:9`), so MySQL's REPEATABLE READ
("snapshot") is what runs; "committed" is checked as well where a property
should not depend on it. A DELETE that matches no row is only a warning, an
UPDATE that matches none raises (`StaleDataError`); an UPDATE that writes the
value already there is not emitted and is treated like one that is. Tokens never
expire. A restart is an `Abort` of every request.

### AccessControl

The directory `db` maps every possible row of `wa_contact`, `wa_group`,
`wa_user_groups` and `wa_contact_rights` to its value or `None`. A use case is a
list of statements in one transaction (`todo[r]`), and each kind of statement is
an action (`DeleteRows`, `InsertRow`, `UpsertRow`, `RecountGroup`, `TouchGroup`,
`CreateRow`) over `view[r]`, the snapshot, overlaid with `written[r]`; the commit makes them visible
together. The evaluator (`EffectiveRight`, `RightsSnapshot`, `AppAccess`) is translated as
operators, with guests, fallbacks (`prefix.all`) and the global administrator.
`DeleteContacts` is here the part of a contact deletion that touches these tables.
`overtaken[r]` records that another transaction changed a row that the request is about.

### OAuthAuthorization

One browser with two tabs that share its cookies. `Visit`, `Submit...` send a
request with a copy of the cookies; each await of the handler is an action;
`Receive` applies the cookie changes when the answer arrives, in any order, and
`Lose` when it never does. The cookie policy is translated from
`BackendAuthCookieMutationService.plan` and `apply_backend_auth_cookie_mutations`,
and the two sets of changes a login or a logout answers with are applied in the
code's order. What a session is comes from `SessionAuthority`: live or not.
Parameters are well formed or not; redirect addresses and HTML are left out.
An empty session cookie, which the code treats like an unknown one, is left out
as no browser keeps one.

### ContactLifecycle

An invitation is a chain of transactions: `Authorize` (one transaction for the
rights of the inviter), `Hook` (handlers of `team.invite_user` and the
validator), `Find`, `Create`, `Save` (the event), `Insert` and `Select`/`Trim` of
tokens, `Deliver`, `Accept`, `Refuse`, `Discard`. A deletion is `Announce` (the
event; the Contacts application drops the private rights in its own transaction, and
its failure is swallowed), then one transaction: `Begin` (its snapshot), `Sweep`
(deletes; the rows stay locked), `Recount`, `Commit`. Token values are used again
when nobody holds them, which keeps the set small. Mail and Webasyst ID may
answer anything (the adapters in the repository always refuse or are
disconnected; the ports allow more). Verification assets, settings, company
references and locales are left out. The relay of the team application changes
nothing.

### WebasystProcess and its parts

One process, from the files it reads to what it answers; its parts are modules
that share variables, so that what a file says decides what is linked, and what
is linked decides where an event, an address or a call ends.

- `PhpConfig` is `parse_php_return_value`. `ReadToken` takes one token of
  `apps.php`, any token; the tokenizer is the set of tokens it yields, "bad" being
  all it refuses. The recursion of `_parse_value` and `_parse_array` is a stack of
  unfinished arrays (`Begun`, `Kept`, `Ended`, `Keyed`). The limit on tokens is
  the tokenizer's, which runs before the parser: a file beyond it is refused
  wherever the parser would have stopped. `PhpWriting` is no part of the program: it
  says how a value can be written down (`Spellings`), which is what the parser is
  held against. It is defined by recursion, and only the run uses it.
- `InstalledCatalog` makes catalogs from what was parsed: `Enabled`, `Truthy`,
  `At` (the last of equal keys), `Keys` (in the place of the first), icons and
  header items as `normalizer.py` computes them. Where the code raises, an
  operator `Acceptable...` is false. The manifests are values chosen in `Disk`;
  only `apps.php` is read token by token, the parser being the same.
- `RuntimeLinker`: `Initialize` → `ReadPlugins` → `BuildModules` → `Link` →
  `Register`* → `Finish` is `ApplicationRuntimeBootstrap.initialize` with
  `ApplicationRuntimeLinker.link`: all of `_validate` in `Issues`, then one action per
  registration. An attempt may fail at each step and be made again over the
  same registries. Definitions carry what the linker compares.
- `EventDispatch`: `dispatches` is the stack of dispatches under way, for a
  handler that publishes is awaited by the dispatcher that called it, as the two
  relays of Team are (`RelayEvent`, `EndDispatch`). Handlers of other packages
  return, return nothing or raise, or answer with what is neither: then an
  AssertionError ends the dispatch (`HandleUnsupported`), and with it, as one more handler
  that raised, the relay that waits for it (`EndsWith`, `RelayOutcome`). The relay of
  collections answers whether its own event had results, that of deletions answers
  nothing; `inner` keeps, as a history, the report each of them went by.
  `CancelDispatch` is a cancellation, which `except Exception` does not catch. One handler with a regular expression makes
  `matching` raise for every event (`Matchable`).
- `LegacyRouting`: tables as the parsers of `legacy_parser.py` accept and read
  them, `Settle` as `SystemRouteResolver.resolve` (first rule, retry with a slash,
  redirect, settlement), `FrontendDispatch`, `BackendControls`, and `TargetOf` as
  `DispatchResolver.resolve` over what the linker has registered. Nothing in it is
  awaited: a request is one step. `main.py` makes no such router: it is there
  for a program that embeds the service and builds one over the same registries.
- `ApiExecution`: `ReceiveCall` is the transport (preconditions, format, target,
  credential); then one action per database transaction or statement that may
  fail: `ResolveCallToken`, `TouchCallToken`, `ReadActivity`, `TouchContact`,
  `FlushContact`, `Authorize`, and the two transactions of each list of Team.
  `Interfere` is a commit of anyone else between two of them. A
  transaction is one snapshot, as under REPEATABLE READ.
- `TeamDirectory` has the queries and rules of the two lists as operators over a
  snapshot. `last` is how many seconds ago, by the clock of the list, a user was
  last active: what the column holds is a time without a zone, which the list takes for
  one of the configured zone (`users.py:476`). The activity service takes it for local
  time of the process (`composition/api_execution.py:74`), whose clock is `ahead`
  seconds before the other (negative: behind it): by that clock the user was active
  `ahead + last` seconds ago, and a touch leaves `last = -ahead`. `ahead` is a
  setting, any integer. No time passes by either clock while a call is under way: the
  seconds that a slow call takes would come off the 270 of `CallerSeenOnline`.

`Idle` makes a process do one thing at a time. That loses nothing that the
properties speak of: the registries are only read once the process serves,
and each call is checked against every change of the database that another
request could make.

In the modules with a database, locks on gaps of an index are left out: they
delay an insert or let it fail, and a failure is possible at every step anyway.

## 3. What is checked

| Run | Bounds | What it shows |
|---|---|---|
| `session_safety` | 2 requests, 1 contact, 2 sessions, 2 versions, lifetime 1 | `AcceptedOnEvidence`: no session is accepted that was over, in either store or for the subject, before the request began. `RevokedForGood`: a touch under way does not bring a revoked session back. `NoSecretSession`: a failed registration leaves no state, unless the request was cancelled. `ImplementsAuthority`: the refinement of `SessionAuthority!Spec` |
| `session_id_reuse` | 2 requests, 2 contacts, 1 id that may be generated again | `UntouchedByOthers`: a request served for one contact ends a live session of the other only under an id whose registry row a registration has taken over. `LogoutTakesEffect` (liveness): whatever else resolves and refreshes the session |
| `credentials_safety` | 2 requests, 1 client, 2 scopes, 1 code, 2 tokens, both isolation levels, both code policies | `OneTokenPerClient`, `IssuedAsRecorded`, `GoneForGood`, `ResolvedWhileThere` under all interleavings of statements |
| `credentials_answered` | 2 requests, 1 token, generators that repeat values | `EveryoneIsAnswered`: bounded loops and no deadlock on row locks |
| `credentials_consumed_once` | as above, policy "consume" | violated: see section 5 |
| `credentials_collision_reloaded` | as above, snapshot isolation | violated: see section 5 |
| `access_safety` | 3 transactions, 3 contacts, 2 groups, 2 applications, 3 rights, chosen commands and starting tables | `AccessIsGranted`, `UndisturbedKeepsWhole`, `SnapshotTellsRights` |
| `access_orphans` | 2 transactions on one group | violated: see section 5 |
| `oauth_authorization` | 2 tabs, 2 users, 2 versions, 2 applications, 3 sessions, 3 requests, 1 outside change | `GrantsWithinConsent`, `SignedOutStaysOut`, `AccountsDoNotMix`, `RefusedOnlyAfterOverlap`, `SessionDelivered` |
| `contact_lifecycle` | 2 requests (invitation or deletion each), 2 contacts, 1 address, limit of 1 token, 1 outside change, 2 clock values | `GroupsWithinRights`, `TokensBounded`, `HandedOverLives`, `NothingOutlivesItsContact`, `CountsHonest`, `NoSecondContact` |
| `contact_newest_retained` | 3 requests, limit of 2 tokens | violated: see section 5 |
| `process_start_and_serve` | every `apps.php` of up to 12 tokens over 12 kinds of token, 2 nested arrays and 2 entries; 4 disks; 7 packages of modules; 3 routing files; 37 requests to them; 3 events; 19 calls, 2 starting databases, up to 2 changes of 7 kinds during a call, a process whose clock is that of the zone or 269 seconds behind it | `ReadsWhatIsWritten`, `InstalledAsWritten`: the catalog is what the files say, by a reading of the tokens that knows nothing of the parser. `LinkedAllOrNothing`. `AnsweredOncePerOwner`: events in their order and complete, and each relay's answer is that of its own event. `RoutedAsConfigured`. `ExecutedOnAuthority`: no method runs but for a token and an access that held in the course of the call. `ListedWithinRights`: a list is right and complete for two states of the database in their order. `CallerSeenOnline`: with a clock less than 270 seconds behind the zone, a caller does not find itself offline. `EverythingEnds` (liveness) |

Why the bounds are enough for what they are used for: every hazard listed in
`PROJECT.json` is a race of two actors, or of one actor with a change from
outside, over one session, token, group or contact, and each of these has at
least two values where confusing them is a possible bug. Each property fails
under the fault named for it within the same bounds. In `process_start_and_serve`
twelve tokens are what it takes to name two applications, or one twice, and say
of each whether it is on; two entries and two nested arrays put files at the
limits of the parser and just beyond; the packages are well formed, or have
one of the faults the linker reports, or a pattern that events refuse; two changes
during a call reach both gaps of a list; 269 seconds is the furthest behind that
`CallerSeenOnline` admits, and users were active 299 and 300 seconds ago, at the limit
of the list and, by such a clock, at that of the activity service. The third request of the
access runs lets a second administrator undo or repeat what the first overtook. The
limit of tokens is 1 or 2 instead of 5: the trim compares only the number kept
with the limit. Bounds that stop the system (`MaxSent`, `MaxStarted`,
`MaxChanges`, `MaxTime`, `MaxContact`, `Horizon`, one command per request in
AccessControl) are why those runs set `CHECK_DEADLOCK FALSE`; the others check
for deadlock.

Symmetry is used only in runs without liveness, on values that are only compared.

**What the safety properties except, and why.** A property of concurrent code
is worth stating only with its honest exceptions. They are kept in history
variables, which no action reads to decide anything:

- `abandoned` (BackendSession): sessions whose establishment was cancelled
  between store and registry and that no client was given; `except Exception` does
  not catch a cancellation.
- `overwritten` (BackendSession): ids whose registry row has changed its contact.
  `register` writes over a row it finds under its id, so an id that is given out
  again gets the row of two contacts: the registration ends the session the row
  stood for, and a revocation that selected the row for the former contact
  deletes it for the new one. The default factory (`uuid4`) makes a
  repeated id improbable; with fresh ids nothing is ever overwritten.
- `overtaken` (AccessControl): a transaction whose rows another one changed
  between its first read and its commit. Two concurrent recounts of a group lose
  a member; an administrator demoted meanwhile still commits; an upsert of a
  row that was deleted since the snapshot writes nothing or fails.
- `overlap`, `out` (OAuthAuthorization): the server cannot know the order in
  which a browser gets its answers, so what concerns cookies after a logout is
  stated for a logout with nothing else under way.
- `history` (ContactLifecycle): `strays` are rows that arrived after the
  deletion had passed their table (no foreign key stops them) or that a failed
  handler left; `off` are categories whose deletion overlapped another change, or
  emptied them, since the code recounts only categories that keep a member;
  `cut` are tokens some other actor removed, until their value is inserted again;
  `met` are contacts that had the address when the invitation began (two overlapping invitations of a new
  address do create two contacts).

## 4. Fairness

- `BackendSession!FairSpec`: weak fairness of every request's next step. The
  event loop runs every ready task, stores are given timeouts by their drivers,
  and an in-memory call is always ready. Nothing is assumed of clients, of the
  clock or of Webasyst.
- `ApiCredentials!FairSpec`: strong fairness of every request's next step. A
  statement that waits for a row lock is enabled and disabled as other
  transactions take and free the row; InnoDB grants locks in the order they were asked for,
  so a waiter is not passed for ever.

- `WebasystProcess!Spec`: weak fairness of the work that is begun (`Work`): the
  next token, the building of a catalog, the steps of a start, of a dispatch, of
  a call. Each is one coroutine that waits for nothing but the database, which answers or
  fails, and for handlers of packages, of which it is assumed that they return
  or raise (`application/ports/event_handlers.py`; the dispatcher sets them no
  time limit, so that one that never returns holds its publisher for ever).
  Nothing is assumed of clients, of administrators, of an operator who
  enters the lifespan or restarts the process, or that a request is cancelled.

The other modules state no liveness: their requests take a bounded number of
steps, none of which waits for anything but a lock that its holder frees or
loses by a time-out.

## 5. Where code and documents disagree

Each has a run in which TLC finds the trace.

- `ConsumedOnce` (`credentials_consumed_once`): with a policy that consumes
  codes, two overlapping exchanges of one code both succeed; the second DELETE
  matches no row and only warns.
- `CollisionReloaded` (`credentials_collision_reloaded`): after a constraint
  error the winner's token is looked for in the loser's own snapshot, which
  does not show it; the error is raised although the token is there.
- `NoOrphanOfGroup` (`access_orphans`): a right or a membership given to a group
  during its deletion is committed after it and outlives it.
- `NewestAreRetained` (`contact_newest_retained`): the trim of one invitation
  deletes the token another one has committed since the trim read what to keep,
  even if the table holds fewer than the limit; that link is dead on arrival.

Seen while modelling, without a run of its own: the API pipeline compares and
records activity in the local time of the process (`composition/api_execution.py:74`),
and `users.getList` takes it for time of the configured zone, UTC if none is
set (`infrastructure/team/sqlalchemy/users.py:476`), although the design of the list says
that it observes what the pipeline updates
(`docs/superpowers/specs/2026-09-20-team-users-get-list-design.md:109`, under `src/`).
`CallerSeenOnline` says how far that carries: while the process is less than 270
seconds behind the zone (300 less the 30 within which nothing is written), no
caller is listed as offline by its own call. At 270 a user whose activity is 300 seconds
old to the list was active 30 seconds ago to the process, is not refreshed and is
listed as offline; hours behind, stale activity lies in the future of the
process, and what it writes is hours old to the list. A process ahead of the zone
errs the other way, and shows its users online for longer. Further, an actor that loses its access to Team between the
authorization of a `users.getList` and its second transaction is shown everybody
(`application/team/users.py:85`); the right over all groups hides groups from
`groups.getList` and from no list of users; a backend address that fits no
route is left to the server as an error, while a frontend address is not found;
one handler with a regular expression stops all events.

## 6. What is proved

Each theorem is checked by TLAPS for every value of the constants: any number of
requests, contacts, sessions, tokens, groups and applications, any lifetimes and
limits. The runs of section 3 check the same properties on small instances;
a theorem whose name differs from its property's states the property in its text.
A proof has one lemma per action, or per group of actions that do the same to the
invariant, under the action's name and `Step`.

| Module | Theorem | Property | Inductive invariant |
|---|---|---|---|
| `BackendSessionProofs` | `TypeCorrect` | `TypeOK` | `TInv` |
| | `OnlyOnEvidence` | `AcceptedOnEvidence` | `IInv` |
| | `OthersUntouched` | `UntouchedByOthers` | `TInv`, `HeldOK` |
| | `NothingSecret` | `NoSecretSession` | `TInv`, `Tended` |
| | `RevokedStaysRevoked` | `RevokedForGood` | `RInv` |
| `BackendSessionRefinement` | `OneLifePerSession` | `ImplementsAuthority` | `FInv` |
| `ApiCredentialsProofs` | `ApiTypes` | `TypeOK` | `TInv` |
| | `OneTokenForEach` | `OneTokenPerClient` | `TableInv` |
| | `NeverResolvedWithout` | `ResolvedWhileThere` | `TableInv` |
| | `RevokedTokensStayGone` | `GoneForGood` | `GoneInv` |
| | `IssuedWhatIsHeld` | `IssuedAsRecorded` | `RecordInv` |
| `AccessControlProofs` | `SnapshotAgreesWithRights` | `SnapshotTellsRights` | typing of the directory |
| | `GainsAreGranted` | `AccessIsGranted` | `Inv` |
| | `UndisturbedIsSafe` | `UndisturbedKeepsWhole` | `Whole` |
| `OAuthAuthorizationProofs` | `NothingGrantedUnasked` | `GrantsWithinConsent` | `Inv` |
| | `LogoutLasts` | `SignedOutStaysOut` | `Inv` |
| | `OneAccountAtATime` | `AccountsDoNotMix` | `Inv` |
| | `FormsStayGood` | `RefusedOnlyAfterOverlap` | `Inv` |
| | `SessionArrives` | `SessionDelivered` | `Inv` |
| `ContactLifecycleProofs` | `GroupsAreTheInviters` | `GroupsWithinRights` | `Inv` |
| | `TokensStayBounded` | `TokensBounded` | `Inv` |
| | `TokensArriveAlive` | `HandedOverLives` | `Inv` |
| | `DeletionIsThorough` | `NothingOutlivesItsContact` | `Inv` |
| | `CountsAreHonest` | `CountsHonest` | `Inv` |
| | `FoundBeforeCreated` | `NoSecondContact` | `Inv` |
| `RuntimeLinkerProofs` | `LinkerInvariant` | | `LinkerInv` itself |
| | `StartsAllOrNothing` | `LinkedAllOrNothing` | `LinkerInv` |
| | `CatalogInvariant` | | `CatalogInv` itself |
| | `CatalogAsWritten` | `InstalledAsWritten` | `CatalogInv` |
| `WebasystProcessProofs` | `EventInvariant` | | `EventInv` itself, with `LinkerInv` |
| | `OwnersAnswerOnce` | `AnsweredOncePerOwner` | `EventInv`, `RelayInv` |
| | `RoutesReachTheConfigured` | `RoutedAsConfigured` | `RoutingInv` |
| | `CallInvariant` | | `CallInv` itself, with `LinkerInv` |
| | `NothingRunsUnauthorized` | `ExecutedOnAuthority` | `CallInv` |
| | `ListsTellRights` | `ListedWithinRights` | `CallInv` |
| | `CallersAreSeen` | `CallerSeenOnline` | `CallInv` |

Why the invariants are what they are:

**Sessions.** `TypeOK` alone is not inductive: the steps of a request put its
session id and its contact into the stores, so they must be real ones while the
request is at those steps; `TInv` adds that. `Witnessed` in `IInv` says what a
resolution that is under way has already seen: its session is one some client
holds, and unless the session has been seen in both stores the registry holds no
row for its key, so the check that lies ahead fails; past the subject check the
subject has been seen, past the select of the touch the session. It is kept only
if no registration writes a row for a key that a resolution is about: `IdsOK`
says that an id being registered belongs to one request and has been delivered
to nobody. `HeldOK` says that a row held as the request's own is still there, and
still its own or written over: without it a delete by primary key could take away
any row under its id. `Tended` says that a state no client knows of is in the hands of a
request that registers it or takes it back, and will find it by its key; it
needs no fresh ids, as keys carry the contact. `RInv` adds that an id belongs to
one contact (`OneOwner`), so that a revocation by key always meets its rows, and
where each revocation has got to (`Revoking`). `FInv` adds to these that a row is
written when its registration ends (`Rowless`) and that nothing is noted of
those who do not ask (`Blind`); under the refinement mapping each step of a
request is a step of `SessionAuthority` or a stutter.

**API credentials.** `TableInv` is about what transactions have written and not
committed: one token at most each, no two of them the same token, none for a contact
and client that another token, committed or written, is for. That is what the
unique indices and the row locks enforce between them, and `OneTokenPerClient`
alone does not survive a commit without it. `GoneInv` adds what snapshots and
locals may know: before it is generated nobody has heard of a token, and while its
row is only inserted nobody else has. `RecordInv` adds that a snapshot and
the table agree on whose a token is, and that each pair of token and scope a
snapshot shows was committed while the request was served.

**Access control.** That an operator of the evaluator and its snapshot agree
is a fact about every directory, so `SnapshotTellsRights` needs no more than its typing.
`AccessIsGranted` is about commits: what a transaction has written is confined to
what its command may write (`Serving`), and its actor was an administrator in its
snapshot. A contact gains access only by its own rights, those of a group it is in,
or by joining one, and each of the three is traced to a row that the command may write.
`UndisturbedKeepsWhole` takes a stronger invariant, `Whole`, about transactions in their
middle. `Careful` says of each that its statements and the rows it has written keep to
what its command is about (`Scope`), and that values go only where its snapshot has an
owner (`Owned`); and, while nobody has overtaken it, that its snapshot agrees with the
tables on its footprint (`Agrees`), that of the rows a deletion is about each is gone
or still ahead in its plan (`Removed`), and that the count it wrote last is that of the
rows it sees (`Counted`). `Fresh` is about the group nobody has seen yet: an
identifier handed out and not committed appears in no table and in no other snapshot, so
that a group is created with the count zero and no members. At the commit the tables
are then compared with those before, row by row, for eleven commands at once; a recount
and the property count the same set, so its size never matters.

**The authorization page.** `Inv` follows the two sets of cookie changes through
the handler (`Known`, `Delivers`, `Consented`) and says what the cookies will
be when the answer has arrived, for a request that is alone (`Fits`, `Paired`) and
after a logout (`KeptOut`). The browser part (`BrowserOK`) alone is not inductive: an answer
under way would break it.

**Invitations and deletion.** `Inv` has one named part per thing a request
relies on across its transactions: that the moments of its inviter's rights cover the
groups it carries (`Granted`) and those on the row it inserted (`Inserted`), that its
trim keeps its own token (`Keeps`, `Trims`), whom it must not create again
(`Met`), and for a deletion what it has passed (`Passed`) and what a recount will
find (`Counts`). `Apart` (no two requests hold one token) is what keeps a trim from
being charged with another's token.

**The start of a process.** `LinkedAllOrNothing` speaks of attempts that are over,
so `LinkerInv` has to say what holds during one (`AttemptInv`): outside the
registration nothing is registered unless the process is ready, and during it the
modules are well formed, the definitions so far are the first k contributions and
the others are still to come (`Registering`). That a registration is then never
refused needs two facts about operators: `Validated`, that the linker finds no issue
exactly in modules that are well formed, said without counting by `WellFormedParts`;
and that the contributions of all modules are one sequence of definitions
(`AllTheirContributions`, a fold of folds). What the catalog hands over must be
a sequence for that, so `FilesRead` follows the parser through every token
(`ParserShape`, `AfterShape`) and the catalog through its normalization.

**Installed applications.** `InstalledAsWritten` knows nothing of the parser: it
counts the brackets of the tokens read and looks at the last place where the
outermost array names an application. So `CatalogInv` has to say after every token how the
parser stands to the file so far (`Writes`): there are as many frames as brackets
are open, and for each text either the entries kept of the outermost array
agree with its last place (`Told`), or its entry is the one being read, and then how
much of its value has come (`Coming`). An array in it is empty for PHP exactly
if its closing bracket comes right after the opening one, whatever stands deeper; that is why
`Coming` watches one token, and why what is read deeper leaves it alone
(`DeepStays`). A key in the parser is a text or a number that stood
right before its arrow (`InMode`), which makes that place the last one for its text
(`KeyedWrites`). The lemmas `...Writes` are one for each thing a token may do, put
together in `AfterWrites`. From the parsed array on these are facts about operators, said by
places: which keys an array has (`KeysAre`), which of them are turned on
(`ConfiguredAre`) and there (`PresentAre`), each once, and that the last entry
counts (`SaidAsWritten`).

**Events.** A stack of dispatches is under way at once, each but the innermost
waiting for a relay (`StackOK`). `AnsweredOncePerOwner` says what a dispatch has
done; the invariant has to say where it stands (`Taking`): it has taken the first n of
its handlers, the last of them may be running, and each of the others has run or its
owner had answered before its turn (`Silenced`). What ran, ran in that order, none after an
answer of its owner (`InTurn`), so a relay that is resumed with the answer of the event
within it still has its turn. That the order is the one of the property, exact events
before patterns and then as registered, is a fact about the merge of the two lists
(`HandlersInOrder`); it needs that no definition is registered twice, which
`LinkerInv` gives: only well-formed modules are linked. What a relay answers is read
off the report that is kept with it (`inner`); `RelayInv` says of the dispatches under way,
and of the last report, that every relay that is over has such a report, whose
outcome is that of `RelayOutcome` and whose value is whether anyone answered there,
and that the report is one of a dispatch that kept the order and left nobody out (`RanIsAnswered`, `DoneIsComplete`).

**Requests.** A request is one step and its answer another, so `RoutingInv` only adds
that nothing is routed while a process starts; the rest are facts about the operators. The
tables, aliases included, hold rules of the file (`TableRuled`), so that a rule which names a
module confines the application's own routes to it (`ModuleIsKept`). An address is
sent on to its slash only if a rule that is no redirect fits it there
(`SettleKinds`), and there nothing is retried (`SlashSettles`). Whoever has a definition in
the registries is installed (`InstalledContributions`), and so is the target of a dispatch,
and the plugin that it names (`TargetIsInstalled`).

**Calls of the API.** `CallOK` says of a call, whatever record it is, what it has
kept from earlier transactions and that it was so in a state of the database it has
met: whose token it bore (`Bearing`), that its activity is recorded or too recent to
be (`Recorded`), what list it has begun (`Selecting`), and that contacts only go and
only become active meanwhile (`Followed`, `Ages`). A change from outside
may happen between any two steps, and one lemma (`GrownOK`) says that all of it
survives; `ChangedKeeps` has the six kinds of change. That the method executed
is the one asked for is where the two invariants meet: registries have one
definition for each place (`OnePerPlace`), because only well-formed modules are
linked. `ListedIsRight` is about the two ways to compute a list: for every two
directories, the code's hidden groups and required rights leave exactly those
whom the property's reading of the rights admits.

**Assumptions.** Those named in the modules, which TLC evaluates in every run:
lifetimes and bounds are numbers, limits are positive, absence (`None`, `Keep`, `Clear`)
is no value of the data; contacts and groups are finitely many (they are rows of a
table; the sequences of statements a command becomes are made from finite
sets); commands carry the fields the HTTP schemas require of them; no fallback of
a right's name is `backend` (a fallback ends in `.all`); there is a session id and
a CSRF token to be had; definitions (`None` is none of them), modules and their sources are what
their constructors accept (`DefinitionAssumption`, `SourceAssumption`); ids of applications
are texts, `webasyst` and `installer` among them (`IdAssumption`: they fit the pattern
`LegacyApplicationPathPolicy` asks of ids), and the entries of a manifest that is an array are
a sequence (`DiskAssumption`); and a method
of the API belongs to Team or to a package (`HandlerAssumption`); paths, route tables and their entries are sequences, and a field
that is given in an entry has a value (`RoutingAssumption`); the database holds
finitely many rights with numbers for values, a change of a right writes a number, and
the id of guests and the suffix for all groups name no contact and no group; a target
of rights is one contact, one group or the guests (`TargetsAssumption`:
`WebasystPrincipalCodec` keeps groups under their own number, contacts under its
negation and the guests under zero). A group that a membership names at the start has
had its identifier handed out by the sequence (`Init`). Six theorems say more in their statements:
`OnlyOnEvidence`, `RevokedStaysRevoked` and `OneLifePerSession` that session ids do not
repeat (`~IdsRepeat`: they are `uuid4` values), `RevokedTokensStayGone` and
`IssuedWhatIsHeld` that tokens do not (`~Repeat`: 128 random bits), and
`OneAccountAtATime` that persistent login is on. The last is no convenience:
without persistent login an old credential is neither read nor cleared, so it
stays in the browser beside anybody's session.

**Only model-checked.** Liveness under fairness is out of the prover's reach:
`LogoutTakesEffect`, `EveryoneIsAnswered`, `EverythingEnds`.
The four properties of section 5 are false.
Of the process, `ReadsWhatIsWritten` compares the parser with a grammar that is
defined by recursion over values, which no module with a theorem may reach.
Every other property of a passing run is proved.

## 7. What is not modelled

- Rendering of answers, JSONP, the mapping of errors to codes and texts; the
  license policy, which allows everything in every composition of the code; the
  limit on the length of application ids; the limits on bytes of a file.
- Reading contacts, and of a listed user everything but id, groups and status:
  name, order, current event, phones, addresses, pictures. The text of the filter
  of users is abstracted to the groups and requirements it is parsed to.
- Creating and updating a contact over HTTP: one row in one transaction.
- The projection of event results for legacy callers
  (`compatibility/webasyst/events/result_projection.py`), which nothing is wired to.
- Percent-encoding and letters of addresses: a segment is a value that is compared. The
  slash redirect writes the decoded path back without encoding it
  (`compatibility/webasyst/routing/system_resolver.py:64`), so that a decoded "?" or a
  slash at its start can lead elsewhere than `RoutedAsConfigured` says. Parameter expressions of routes other
  than a choice of segments.
- Runs of the type invariants: typing alone catches little that the properties
  above do not, and each run is spent on those. Those of the modules with proofs are
  proved, as part of their inductive invariants.
- Icons and header items of an application are computed as the code computes them,
  and decide whether a manifest is accepted; what they come to is in no property.
- Address and device details of a session: recorded, never read to decide.
- Contracts, ports, table definitions: types and wiring.
- Database behaviour that only changes timing: gap locks, lock time-outs and
  deadlock victims (they are failures, which every step may have). For a call
  of the API a database that fails is the answer 500, at whichever step.

## 8. Plan

Done, in this order, the most important first: sessions and their abstract view;
API credentials; access control; the authorization page that joins them;
invitations and contact deletion; the process as a whole: its files, the
linker, events, routing, the API and the lists of Team; then the theorems of section 6.

The modules of the process were changed where they could not be reasoned about:
selections of a sequence are said by places (`Selection`) instead of by a test,
which the provers cannot take as a parameter; a pattern fits a path by a fold;
the parser's step is split by where it stands; what overlays what in a route is said
by an operator of the module (`Overlaid`), and the aliases of a route table by a function of
the place in the file; rows are set and removed by
operators of the module; an entry of an unfinished array has the automatic key, which the code gives it, until an
arrow gives it another, and what cannot be parsed (`Broken`) is a mark of its own, where it was a constant that
could have been anything. None of this changes what the run reaches.

Open: the parser against a grammar that is no recursion over values, so that
`ReadsWhatIsWritten` could be proved as well; and, not modelled at all, what section 7 lists.
