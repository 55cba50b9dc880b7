# FamilyKart in TLA+

Formal models of FamilyKart: a family's shared grocery list, with a FastAPI
backend over PostgreSQL and Redis (`src/backend/app`) and an Expo mobile app
with an offline queue (`src/mobile/src`).  The models are checked with TLC on
small instances; every safety property that a passing run checks is also proved
with TLAPS, for instances of any size.

Run from this directory:

    tlc -workers 2 -config grocery_safety.cfg MCGroceryItems
    tlapm GroceryItems_proofs.tla

## 1. The system

| part | state it keeps | operations | talks to |
|---|---|---|---|
| grocery mutations (`api/`, `services/`, `repositories/grocery_items.py`) | `grocery_items`, `grocery_activity_events` | add, edit, complete, reopen, delete | memberships and sessions (row locks), idempotency, Redis after the commit |
| idempotency (`*/grocery_mutation_idempotency.py`) | `grocery_mutation_idempotency` | look up, begin, store the response, replay | part of each keyed mutation's transaction |
| households and membership (`services/households.py`, ...) | `households`, `household_members` | create, rename, transfer, remove, leave, join | sessions and groceries read the memberships and lock them |
| invitations | `household_invitations` | create, revoke, use, expire | join |
| shopping sessions | `shopping_sessions` | create, complete | groceries lock the session's row |
| accounts and tokens (`services/auth.py`, `users.py`) | `users`, `auth_sessions` | register, login, rotate, logout, delete the account | account deletion cascades to all of the above |
| push devices (`services/`, `repositories/push_devices.py`, `features/notifications`) | `push_devices`; the phone's installation id | enable, disable on the phone; register, deactivate on the server | deletion of the account |
| realtime server (`services/realtime*.py`, `api/realtime.py`) | sockets per household and user, one Redis subscription per household | register, acquire, release, recover, broadcast, disconnect | Redis, the mobile client |
| realtime client (`services/realtime.ts`, `useHouseholdRealtime.ts`) | socket, timer, order tracker | connect, retry, foreground, background, event | query cache |
| offline queue and replay (`features/offline`) | SQLite queue, coordinator, runs in flight | enqueue, start, stop, connectivity event, replay, reconcile | grocery API, query cache |
| conflict review (`useGroceryConflictReview.ts`) | conflicts shown, one being resolved | list, keep the family's version | the queue |
| optimistic updates and cache | TanStack Query data, SQLite cache | apply, roll back, confirm, hydrate | realtime events, the grocery API |
| voice recorder (`hooks/useVoiceRecorder.ts`) | phase, tasks in progress, the native recorder | start, stop, cancel, limit, leave the foreground, unmount | Expo's audio module |
| household aliases | `household_grocery_aliases` | list, create, update, delete | membership rows; the parser reads them |
| typed commands (`api/grocery_parsing.py`, `services/ai_parsing.py`, ...) | one request's | screen, ask the language model, fall back to the rules | aliases |
| transcription, localization, screens | none, or one component's | calls to a speech model, presentation | - |

What makes them hard:

* **Transactions at READ COMMITTED.**  Every request is one transaction; a plain
  read sees what others have committed since the last statement, so only row
  locks and conditional updates keep a check true until the write.  Membership
  rows are locked in the order of user ids, then the session's row - but an edit
  locks its *assignee* after the session.
* **Retries.**  A mobile client sends a change again with the same key when the
  answer was lost; the first may still be running.
* **JavaScript's interleavings.**  The coordinator's `stop()` does not end the run
  that awaits a reply, so an old run and a new one overlap at every `await`.  Likewise
  two optimistic updates and a refetch, two calls that create one installation id,
  and a recording that is being prepared when the screen goes away.
* **Reads without a lock.**  Rotation, logout, push devices and aliases read, decide,
  and write later; a conditional UPDATE, a unique index or a foreign key has the
  last word, or nothing has.
* **Crashes**: of the server between statements, between the commit and the
  publication; of the app anywhere.

What each part must guarantee is stated as properties in its module, section 3.

## 2. Modules

| module | models |
|---|---|
| `GroceryData` | the data, inputs and constants shared by the two specifications of the grocery API |
| `GroceryLedger` | the abstract specification: what the endpoints promise, no transactions |
| `GroceryItems` | the endpoints as transactions with locks, crashes and deadlocks |
| `HouseholdLedger` | the abstract specification: who may change what of a household, one change at a time |
| `Households` | membership, ownership, invitations, sessions, account deletion as transactions |
| `MutationQueue` | the abstract specification: what the offline queue promises |
| `OfflineSync` | one phone's queue, runs, coordinator, and conflict review |
| `RealtimeData` | what the realtime server and a phone share: activity, sockets, incidents |
| `RealtimeServer` | one backend's handlers of sockets, registry, Redis subscription, publication, revocation |
| `RealtimeClient` | a phone's connection, order tracker and refetches |
| `Realtime` | the two together |
| `LoginChains` | the abstract specification: what refresh tokens promise, a chain of tokens for each login |
| `AccountData` | the tables behind an account, and how a request ends |
| `AuthSessions` | registration, login, rotation, logout, deletion of the account |
| `PushDevices` | a phone's installation id, registration and deactivation |
| `Accounts` | the two over one database, with crashes and the deadlock detector |
| `OptimisticUpdates` | the list and details a phone shows under optimistic updates, refetches and events |
| `VoiceRecorder` | the recorder's tasks against the user, the app's state and the native recorder |
| `GroceryDictionary` | the standard terms |
| `RuleBasedParser` | the parser, as operators on sequences of tokens |
| `HouseholdAliases` | the aliases' transactions |
| `GroceryParsing` | a command from the aliases it reads to its preview, while aliases change |
| `MC...` | instances for TLC, one for each composition |
| `..._proofs` | the theorems about `GroceryItems`, `Households`, `OfflineSync`, `Accounts`, `Realtime`, `OptimisticUpdates`, `VoiceRecorder` and `GroceryParsing` |

### GroceryItems

One shopping session of one household.  A request `r` goes through the stages of
`pc[r]`: `prepare` (the record of the key is looked up without a lock),
`members` (membership rows locked one at a time, smallest id first), `assignee`
(an edit's late lock), `stage` (checks passed, the session's row locked),
`commit`, then `refresh` or `readback` (reads after the commit or rollback),
`replay` (after losing the race for a key), `publish`, `done`.

* `Check` evaluates the service's checks; `Stage` computes the row, its new
  version and `max(sequence_number) + 1`; `Commit` installs them.  These are three
  steps on purpose: a model that checks and writes in one step would show nothing
  about the locks.
* A row's `version` stands for `updated_at` and is the request that wrote it last.
  `now()` is the time a transaction began, in microseconds, so two versions of a row are
  taken to differ; an edit that changes no field emits no UPDATE and keeps its
  version (`ChangesNothing`).
* An idempotency fingerprint is the request itself.  The stored response is not
  read back by the code beyond its existence, so it has no contents.
* `DeadlockAbort` is PostgreSQL's detector, `Crash` the loss of a server process
  or connection.  Locks of the item's row are left out: every writer of it holds the
  session's row.
* `RemoveMember` stands for leaving and removal, which delete the row under its lock.

`GroceryLedger` has two actions: one whole mutation (row, event and record
together) and the end of the session.  The mapping is the identity on the four
tables.

### Households

One household from its creation on.  The operations of `lock_for_users` (rename,
transfer, remove, invite, revoke, start, finish) lock first and check under
the locks (`LockMember`, `Check`, `Refuse`), then write in a step of their own.
The SELECT is their first statement: `read[r]` is the rows it finds (`Found`), which it
then locks one at a time, smallest id first, passing over those deleted meanwhile; a row
inserted since is not locked, and counts as none in the checks (`LockedRole`).  This is what
keeps the locks in order when a user joins while the statement waits.
`leave` and `deleteAccount` read a role without a lock (`ReadMembership`,
`CheckOwns`) and delete later (`Leave`, `Erase`).  A join looks the code and
the membership up (`FindCode`), marks the invitation used by a conditional
UPDATE (`Consume`) and inserts the membership in the same transaction (`Admit`).
Invitations, sessions and membership rows are named by the request that
creates them.

Account deletion is one step, though PostgreSQL deletes row by row; a cycle that
needs two joins and the deletion of one and the same account is therefore not
represented.

`HouseholdLedger` knows no requests: a rename, transfer, removal, departure, invitation,
join, start and so on is one change that a user with the right role makes at that
moment.  The mapping shows it the committed tables: `Role(u)` for the membership
rows, and of an invitation its status, its author and its user, not who has locked it.  That a
join uses up an invitation (`JoinsConsumeInvitations`) follows from it.

### OfflineSync

One phone, one household.  Each action is what JavaScript runs between two awaits:
the coordinator's `start`, `stop`, connectivity events and `requestSync`
(`Start`, `Checked`, `Event`, `Stop`, `RequestSync`); a replay run's reading of the
queue, request, decision, refetch and SQLite statement (`List` .. `FinishReview`);
the review panel (`ListConflicts`, `KeepFamilyVersion`, `Resolve`).  A run carries its
`batch`, what it has read of the queue, and what is `left` of it, whose first change it is
at (`Current`); and `current`: whether its generation is still the coordinator's.  A listing
is the oldest rows up to a limit (`Listed`); the repository takes 1 to 100, and an instance
chooses from `ReplayLimits`, so a run or a panel may see only a part of the queue.  `Kill` ends the app;
requests it had sent may still reach the server (`orphan`).

The server is the grocery API as one phone sees it, which is what `GroceryItems`
justifies: a change is applied at most once and a repeated key succeeds.
`Refetch` may leave the view as it was: TanStack Query's `invalidateQueries` fulfils its
promise when a fetch fails, as no caller passes `throwOnError`.  `enqueue` and
`requestSync` are called by no screen yet; they are modelled as the API they are.

`MutationQueue` knows no runs, no connection and no coordinator: only which changes
are queued, handed to the user, made or refused by the server.  `OfflineSync` has these
four variables among its own, so the mapping is the identity, and `ImplementsQueue`
says that no change is lost, that none is offered before an earlier one has left
the queue or was handed over, and that only an acknowledgement, a final refusal
or the user takes one off.  `TakeBack` is there because the code does it.

### Realtime

One household, one backend, one phone, and devices of other members (`Dial`,
`HangUp`).  The handler of a socket `s` goes through `stage[s]`: `authenticated`
(the membership is read once), `accepted`, `waiting` (registered, reference
acquired, waits for the subscription), `serving`, and `refusing`, `stopping`,
`done`.  A subscription is named by the socket that started it; `task` says where its task
is: a first failure ends it, a later one makes it `lost`, then `recovering`, and
it subscribes again.  `release` cancels the task with the last reference and the
handler waits for its end (`Stopped`).  The asyncio locks guard code that never
waits, so coroutines interleave only at the other awaits.

Redis hands what is published to whoever is `listening` (`inbox`); publications run
after their commits in any order, or are dropped.  `wire[s]` is what the server has sent to
the phone; when a connection breaks, a suffix of it is lost and the phone sees 1006.

The phone (`useHouseholdRealtime`, `HouseholdRealtimeClient`) has a socket or a
timer, a tracker (`latest`) and queries.  `view[q]` is the sequence number
up to which a query shows the activity.  `invalidateQueries` cancels a refetch under way,
so the reading and the arrival of an answer are one step.  The screen has loaded its queries
before: TanStack Query does not cancel a first fetch, and no screen uses the
hook yet.  `due` and `base` are history variables.

Inputs that need no interleaving are chosen at the start as a *story*: which query
is on the screen, which mutations the members do, how many connections are
opened and which incidents may happen.

### Accounts

Rows are named by the request that inserts them, a refresh token by its row, and
accounts at the start are their own e-mail address.  Each action is one statement, or the
Python code up to the next statement that may wait.

* Rotation and logout find the token without a lock (`FindToRotate`, `FindToRevoke`);
  `StillActive` is the WHERE clause that consumes it.  The rotation holds the row until it has
  inserted its successor (`Rotate`, `Replace`); `root` (history) is the login a token goes
  back to.
* Account deletion loads the sessions and devices there are (`LoadUser`), erases them one
  by one in any order (`EraseRow`), then the user, whose cascade takes what has come
  since (`EraseUser`, `CommitDelete`).  Whoever inserts a reference to the user waits for it
  (`BeingDeleted`), as the foreign key does.  A row is erased by its id, whoever has it by
  then.
* `register` of a push device reads the installation and the token's row, then
  writes the columns that differ from what it read (`Updated`); `Rivals` is what
  the two unique columns refuse.  On the phone, calls that overlap share one pending creation of the
  installation id (`JoinPending`, `Resolve`); SecureStore may reject when it is read, by `enable`
  (`StoreFails`) or by `disable` (`GetExisting`), and when it is written (`StoreFails`).
* `LoginChains` knows no rows: each login has one chain of tokens and one live token, a
  rotation moves the life to a token that was never there, a logout or the end of the
  account ends it.  The mapping groups the sessions by `root` (`Chain`, `Live`, `Holder`); a login
  has `Begun` when its transaction is over.
* `Readback` is `db.refresh` after the commit, which fails when the row is gone again.

Not represented: passwords, the encoding of tokens, and the update of the profile, which
writes one row last-writer-wins.

### OptimisticUpdates

The list of one session, with `dataUpdateCount`, and the query of each item's
detail.  `Begin` is `cancelQueries`, `Apply` what follows its await; the answer is confirmed
or rolled back only if the list is still the one `Apply` wrote (`Unchanged`), else
`LeaveIt`.  A fetch reads at one moment and arrives at another (`Read`,
`ListArrives`); `Synchronize` is the realtime event's invalidation, which joins a first fetch and
restarts any other.  `Hydrate` and `Hydrated` put the SQLite copy into an unloaded list.

The module under test has no caller yet: that an update is applied, sent, then confirmed or
rolled back is how its tests use it.  `fresh` and `debt` are history: which data the
server wrote last, and which updates or failures have used up a refetch.

### VoiceRecorder

Each of the four tasks of `useVoiceRecorder` and the clean-up of its unmounting has a place
`at[t]`: the native call it awaits.  `Free` is `operationInProgressRef`; native calls may fail at
every place.  `Poll` is `useAudioRecorderState` with the effect it triggers, so the hook learns late that
the recorder has stopped by itself.  `MaxRecordings` bounds the recordings.  `discarded`, `handed`
and `stuck` are history; `stuck` says what a failed native call has left on, or a recording that
began after the hook was unmounted, which the code does not end.

### Parsing and aliases

A text is a sequence of tokens; `Length` gives each its number of characters, since the
parser's "nearest item" and "longest term" count characters.  `FindItems`,
`FindQuantities`, `Nearest` and `ParseGroceryCommand` follow
`rule_based_grocery_parser.py` step by step.  Where the code goes through sorted candidates and keeps
those that overlap none it has kept, `Selection` says which these are: a candidate is kept unless it
overlaps a kept one that is longer, or as long and before it.  It is used twice, for what
`re.finditer` takes of one phrase (`Candidates`) and for the terms (`FindItems`).  A member may give
any phrase an alias, one with numbers, units, fillers or commas too, and the model reads it as the code
does.  `Quantities` is what `ExtractedGroceryItem` takes: positive, ten digits, three decimals.  The
operators were also compared with the Python parser on every text of up to four of twelve
tokens under two tables of aliases, ordinary and odd ones (45,240 commands, "0" and "1.0001"
among the tokens, without the limit of items), with equal results.

A request says *clauses* (an item and a quantity before it, after it, or before it with "of"),
of which `Text` makes the tokens and `Meaning` the list that was meant; or tokens that
mean nothing.  `Authorize`, `ListForHousehold`, `Ask` and `Receive` are the endpoint:
the prompt policy, the limit of characters and the aliases in the prompt are looked at in the
code's order, and every answer of the provider ends in a preview of its own or in
the rules with a reason (`Extract`).

Alias requests lock only the requester's membership: two members change one alias at
once, and `Insert`, `Update` and `Delete` decide by the unique constraint and by
the columns that differ from what was read.

## 3. What TLC checks

| run | instance | properties |
|---|---|---|
| `grocery_safety` | 3 requests, 2 members, 3 rows, 2 names, 1 key | types; numbering of events; a key applied once; publication; finished sessions; lost updates; membership at commit; refinement of `GroceryLedger`, which has unique pending names |
| `grocery_liveness` | 3 requests, 3 intents | every request is answered, deadlocks included |
| `households` | 3 requests, owner, member, outsider | types and foreign keys; at most one owner and one active session; who commits is owner or member at the commit; nobody waits in a circle; refinement of `HouseholdLedger`, in which joins use up invitations |
| `households_ownerless` | the same | *violated*: finding 1 |
| `offline` | 2 changes, 2 runs, listings of 1 or 2 | types; order within a run; one current run; stopped coordinators ignore late results; refinement of `MutationQueue` |
| `realtime` | up to 3 connections, 3 events, 1 incident | types; references counted; no stray subscription; registry; one connection; published events are shown |
| `realtime_stale` | 2 connections, 1 event, 1 failure of Redis | *violated*: finding 2 |
| `accounts` | 3 requests, 2 accounts, 2 phones | types and foreign keys; one usable token per login; nothing of a deleted account; one installation id; every request is answered; refinement of `LoginChains` |
| `optimistic` | 2 updates, 1 change of another member | the list settles on the server's; a fresh list is covered by an update only |
| `voice` | 3 recordings | tasks exclude each other; nothing is left on; only finished recordings are handed over |
| `parsing` | 1-2 clauses, 3 tokens, ordinary and odd aliases, 11 answers of the provider, 3 alias requests | types and the unique alias; clauses are understood; no word is left out; only members write |
| `parsing_misplaced` | clauses with "of" | *violated*: finding 3 |

Bounds.  Two requests already meet at every step; the third lets one change what the
others have read in between, or commit between two others (a retry after
another member's change, a transfer during a departure).  The intents are
chosen to meet on a row, a name, a key or a lock; every action and every
disjunct of each next-state relation fires.  In `GroceryItems` one free row
id bounds additions, and `Requests` bounds everything else.  In `OfflineSync`, `Runs`
bounds the runs in flight: a third would need two stops while one reply is
awaited, and meets the others as the second does.  One change lacks its base version so that the
branch without a request is taken.  Symmetry is over requests or runs only, in
safety runs only (user ids are ordered, so they are not symmetric).  In `realtime`
three events are the least for a gap; two connections are an old and a new one
of the phone, and three let a handler replace a subscription that others still
wait for; one incident each is combined with every interleaving.  In `accounts` the
stories let the same token be used twice, used and revoked, or used against the
deletion of its account, with a third request that presents the new token; two
registrations whose tokens change places are the least for a deadlock of devices.  In
`optimistic` two updates are an older and a newer one, and one change of another member
lets an answer be out of date in between.  Three recordings let an old one end while the next
is prepared.  Two clauses are the least in which a quantity can go astray; three tokens of
ten hold every pair of neighbours with a third that may take the quantity.  Of the aliases, "two oil"
begins with a number and "milk and maa" runs across a separator; of the numbers, "0" and "1.0001" are
outside `Quantities`, which are counted in ten-thousandths.  A limit of one listing, with two changes, hides
the second from the run that reads it.  `MaxItems`,
`MaxInputCharacters` and `MaxRelevantAliases` are small, so that each limit is passed.

`CHECK_DEADLOCK FALSE`: requests, updates and events are finite in number, so each of
these instances stops when they are answered, and TLC would report that.  That nobody waits for
ever is what `EveryRequestAnswered` and `NobodyWaitsForEver` check.  `voice` does not stop and
checks deadlock.

Fairness.  `WF(Handle(r))` for each request: the server runs what it
has accepted, and PostgreSQL grants a free lock to a waiter - the queue for a row
lock is first come, first served, so weak fairness of each waiter is what it gives
when holders always release.  In `Accounts` a request that no client has made yet is
under no obligation, and one that was begun goes on, on the phone as well.
`WF(DeadlockAbort(r))` in both: the
detector runs after `deadlock_timeout`.  In `Households` nobody needs it: `NobodyWaitsForEver` says
that the requests which wait for each other never form a circle, nor wait for one that has
ended, which is the same promise as an invariant.  Clients, crashes, expiry and removal are
never fair.  The others are checked for safety only: in `OptimisticUpdates`, what "eventually"
would say is an invariant of quiet states (`ListSettles`).

Every property has a mutant of the code beside the definition it changes
("Mutant of ..."), under which TLC finds the property violated.

### Findings

1. `households_ownerless`: leaving reads the role without a lock; a transfer that
   commits before the deletion leaves the household without an owner
   (`services/households.py:168`, also `services/users.py:38`).
2. `realtime_stale`: a reconnecting phone refetches when its socket is accepted,
   which is before the subscription is there; what is published in between it
   never learns (`api/realtime.py:72`).
3. `parsing_misplaced`: "milk, 2 kg of rice" is read as two kg of milk, and rice without
   a quantity: ", " is shorter than " of " (`rule_based_grocery_parser.py:318`).

Also met while modelling, as steps of the models without a run of their own ("README" is
the repository's):

* A keyed complete or reopen that has no effect answers 200 but its rollback drops
  the key; the same key sent again after another member's opposite change is executed
  (`repositories/grocery_items.py:232`; README 746-747 says a retry repeats nothing).
* A repeated delete that overlaps the first is told 404 instead of 204
  (`services/grocery_items.py:270`; README 752-755).
* `recordRetry` of a run from before a stop puts a change under review back to
  pending (`localMutationQueueRepository.ts:168`; README 643-646): `TakeBack`.
* A change leaves the queue although the refetch failed: `invalidateQueries` fulfils
  its promise then (`serverReconciliation.ts:91`).
* The guard of a rollback or confirmation is the list's: the item's detail, refetched since, is
  overwritten (`optimisticGroceryUpdates.ts:239`; README 773-775).  An edit of a temporary
  item after a refetch puts the temporary item back (`:193`; README 771).
* A push device may be deactivated by the account that had it, after another has claimed it; two
  registrations may mix their columns; the deletion of an account deletes, by its id, a device
  another has taken over (`repositories/push_devices.py:81`; README 970-972).
* Two members who change one alias at once, one its words and one its meaning, may together remap a
  standard term; every rule-based command of the household is refused from then on
  (`services/household_grocery_aliases.py:134`; README 345-348).
* A hook that is unmounted while its recorder is prepared goes on to record
  (`useVoiceRecorder.ts:246`; README 531-533).
* An alias may hold a number, which the parser reads twice, as part of the item and as a quantity: with
  the alias "5 grain atta", "5 grain atta" is five of it, and "5 grain atta two kg" is refused as two
  quantities for one item (`rule_based_grocery_parser.py:279`, `:323`; README 411-417).
  `schemas/household_grocery_aliases.py:15` takes any alias that is not blank.

## 4. What is proved

Every safety property that a passing run checks is a theorem about the module's `Spec`, for
instances of any size.  `UniquePendingName` and `JoinsConsumeInvitations` are proved and have no run:
the refinements that are checked imply them.

| module | theorem | property |
|---|---|---|
| `GroceryItems_proofs` | `TypeCorrect` | `TypeOK` |
| | `NamesStayUnique` | `UniquePendingName` |
| | `EventsStayNumbered` | `ActivityNumbered` |
| | `KeysApplyOnce` | `KeyAppliedAtMostOnce` |
| | `EventsPublishOnce` | `PublishedOnce` |
| | `FinishedSessionsFreeze` | `FinishedIsFrozen` |
| | `UpdatesAreNotLost` | `NoLostUpdate` |
| | `CommitsByMembers` | `WritersAreMembers` |
| | `Refinement` | `ImplementsLedger` |
| `Households_proofs` | `TypeCorrect` | `TypeOK` |
| | `AtMostOneOwnerAndSession` | `OneOwnerOneSession` |
| | `JoinsUseUpInvitations` | `JoinsConsumeInvitations` |
| | `CommitsAuthorized` | `CommitsAreAuthorized` |
| | `LedgerIsImplemented` | `ImplementsLedger` |
| | `NobodyIsStuck` | `NobodyWaitsForEver` |
| `OfflineSync_proofs` | `TypeCorrect` | `TypeOK` |
| | `ChangesAreSentInTurn` | `RunsAreFifo` |
| | `OneRunIsCurrent` | `OneCurrentRun` |
| | `LateResultsChangeNothing` | `ObsoleteRunsAreIgnored` |
| | `QueueIsImplemented` | `ImplementsQueue` |
| `Accounts_proofs` | `TypeCorrect` | `TypeOK` |
| | `ALoginHasOneToken` | `OneTokenPerLogin` |
| | `DeletionIsComplete` | `NothingOfTheDeleted` |
| | `ThePhonesOwnId` | `OneInstallationId` |
| | `LoginsAreImplemented` | `ImplementsLogins` |
| `Realtime_proofs` | `TypeCorrect` | `TypeOK` |
| | `TheCountIsRight` | `ReferencesCounted` |
| | `OnlyOneSubscription` | `NoStraySubscription` |
| | `TheRegistryIsRight` | `RegistryFollowsHandlers` |
| | `ThePhoneHasOneConnection` | `OneConnection` |
| | `NothingIsLostSilently` | `PublishedIsShown` |
| `OptimisticUpdates_proofs` | `TheListSettles` | `ListSettles` |
| | `AFreshListStays` | `FreshListStays` |
| `VoiceRecorder_proofs` | `TypeCorrect` | `TypeOK` |
| | `EverythingIsTurnedOff` | `NothingIsLeftOn` |
| | `HandedOverOnce` | `OnlyFinishedIsHandedOver` |
| `GroceryParsing_proofs` | `TypeCorrect` | `TypeOK` |
| | `MembersOnly` | `OnlyMembersChangeAliases` |
| | `EveryWordIsRead` | `NothingIsLeftOut` |
| | `ClausesRead` | `ClausesAreUnderstood` |

The theorems hold for any sets of users, items, requests, phones, texts and so on that satisfy the
named assumptions beside the constants.  `NoneAssumption`, `SentinelAssumption` and
`SeedAssumption` say that `None` and the names of seeded rows are nothing else;
`IntentAssumption` and `StoriesAssumption` that what clients ask is well formed;
`UsersAssumption` that user ids are ordered as numbers are (in `Households`, that there are finitely
many, which an order without an infinite wait needs); `RolesAssumption` that a household begins
with at most one owner; `BoundsAssumption` that a server has finitely many sockets, so that its
handlers can be counted; `LimitsAssumption` that a listing has at least one row; `MeasuresAssumption` that every token has a length
and every number a value, of whatever kind: which of them an item may have is the constant `Quantities`;
`TermsAssumption`, `WordsAssumption`, `ResponsesAssumption` and `RefusalsAssumption` that dictionary, texts,
the provider's answers and the refusals have their forms.  `WordsAssumption` is where what is known of
the dictionary enters: no word is a number, a unit and a filler at once, and no standard term holds
one of these (`grocery_dictionary.py`, `NUMBER_VALUES`, `UNIT_ALIASES`, `ALLOWED_COMMAND_WORDS`).
It says nothing of aliases.

Almost none of the properties is inductive: each depends on what somebody between two steps holds
or has seen.  Each module's `IInv` says what that is; TLC has checked it on the instances of
section 3 before it was proved.

**GroceryItems.**  `Locks`: who is past `Check` holds the session's row and its membership
locks, and a locked membership exists.  `Checked`: what `Check` found is still so (session active,
row's status, base version).  `StagedIsCurrent`: what was staged is what would be staged now.
`EventsAreCommits`, `Publishing`: an event's author is past its commit and its number is
published by nobody else.  `CommitterIsAlone` is the heart: two requests past `Check` would both hold
the session's row, so while one is there nobody else commits, and a step of another request
leaves `Checked` and `StagedIsCurrent` alone (`StepShapes`, `OthersKept`, `TablesKept` say which
variables each step touches).  The action properties follow at the commit, and the refinement
shows that a commit is one `Apply` and every other step a stutter on the tables.

**Households.**  What was checked under a lock stays true while it is held (`Authorized`,
`Exclusive`, `Claimed`), given who holds what (`Locks`) and which statements a request of each kind
runs (`Asked`); the frame lemmas (`AuthorizedFrame`, `ClaimedFrame`, `Alone`) say that a step of
another request cannot change it.  `NobodyWaitsForEver` needs that lock_for_users takes its rows in
order (`InOrder`), and this that a row which is gone never comes back: `Rowed` says that
every membership is named by a join that is over.  In a circle nobody could be at `commit`
for a start, so nobody at `household`, `admit`, `commit`, `revoke` or `consume`; what is left
waits in lock_for_users for rows without a last one (`NoCircle`), against `LastOfUsers`.
The proof found that an earlier form of the model, in which the statement noticed rows inserted
while it waited, had a circle that PostgreSQL cannot have; TLC's instance was too tidy to show it,
and has an outsider now who comes first in the order and joins.
The refinement has one lemma per action that commits (`Renames` .. `Joins`): what was checked under the
lock is what the ledger's guard asks for at the commit.  Everything else stutters, expiry and the locks
on an invitation included (`ExpiryIsNotShown`, `LedgerStutters`).

**OfflineSync.**  A run's reading of the queue ages.  `InOrder`: of what it read, what
it has settled has left the queue, and whatever was queued before its next change but is not in
its reading is removed or was reviewed.  `Acknowledged`: a run that is about to remove a change knows that the
server made or refused it.  `Promise`: `syncPromise` is the current run.  The refinement maps
a request's arrival to `Apply` or `Refuse`, the three SQLite statements to `HandOver`, `TakeBack` and
`Acknowledge`, and the rest to stutters.

**Accounts.**  `Locks` and `Rotating`: nobody else has the row of a token that is being rotated, and it
is still active.  `Roots`: no session bears a login's name before the login has inserted its own.
`OneActive`, `LogoutEnds`: so what descends from one login is one chain of tokens, which a
logout ends wherever it has got to.  `Creation`: the call that creates an installation id is the one
its phone knows of, until it is stored.
For `LoginsAreImplemented` three more facts were needed: a row is there only when its request
has committed (`Named`), a chain has one user (`SameUser`), and what a deletion has loaded is its
account's or gone (`Erasing`), so that the rows it erases one by one and the cascade make up
whole chains.  `Kinds` sorts the steps by what they do to the two tables; one lemma per kind maps it
to an action of `LoginChains`, and the rest stutters.

**Realtime.**  `Waiting`: a handler waits for the coordinator's own subscription or for one that
is finished, so a release ends nothing that another handler needs, and the count follows
(by the cardinality of the set of handlers that have acquired it).  `Closes`: what a close on the wire
says is so.  `Tracked`: the queries show what the tracker has seen.  With them, an event that is due is
in an inbox or on the wire, or shown, and `PublishedIsShown` is inductive.

**OptimisticUpdates.**  The list is the server's, or there is a `Reason`: an event not heard of, a
fetch that will read or has read what is current, a refetch that was given up (`debt`).  A
reason is lost only for another one or when the list arrives.  `ListSettles` alone is far from
inductive, because a rollback puts back what was there before: `PreviousExplained` says that this is
as well founded as the list it replaced, unless an older update is still open, and `Numbered` that an
update is not mistaken for a list the server has sent since.

**VoiceRecorder.**  `Bounded`, `Idle`, `Asking` and `Wanted` say what each task in progress means for
the phase and the native recorder.

**GroceryParsing.**  `Locked`, `Valid`: whoever changes an alias has held its user's membership since
before its checks, and writes only what has been validated.

For the two theorems about texts, `Heard` says that a request of the rules has been told what the
parser makes of its text with the aliases it has read.  The rest is about the operators, for every text,
every dictionary and every alias.  Induction over a text is by the least position for which a statement
would fail (`Least`): so the recursive functions exist and are well defined (`PositionsExist`,
`ConcatenationsExist`), positions grow (`LeftToRight`), a selection exists
(`SelectionExists`), and what it keeps does not overlap (`SelectedApart`).

* `NothingIsLost`: in an accepted text the fillers, the items, the numbers and their units cover the text,
  and each number is in exactly one item's quantity (`WordsOfItems`, `QuantitiesGiven`), so the counts are
  together at least the text's length.  They are equal to it when no item's name holds a number, a unit or a
  filler, since the four are then disjoint; a word of an alias like "5 grain atta" counts twice.
* `ReadAsSaid`: a text that is made of clauses has a layout (`LayoutExists`).  When no alias with a number, a
  unit or a filler occurs in it (`Clear`), what is not plain ends a phrase, so whatever is found is inside
  one (`OccurrenceInPhrase`) and the phrases themselves are selected (`ItemsAreSaid`); the numbers found are
  the clauses' (`NumbersAreSaid`); between a quantity and another clause's item there are at least a separator
  and two gaps, and between it and its own item one gap, so its own is nearest (`NearestIsSaid`).  The
  command is then read as it was said, or refused if it has more than `MaxItems` items or a number that is
  not in `Quantities` (`TooMuch`).  With "of" between them the last step fails, which is finding 3; for an alias
  that is not plain the first does, and section 3 says what the code makes of it.

With TLC only:

* `EveryRequestAnswered`, in both instances: liveness under fairness is out of the prover's reach.
* What the three violated runs show.

## 5. Not modelled

* Localization, screens, logging, configuration and health keep no state that others
  change; lists and activity are reads.  The SQLite schema is migrated once, in one
  transaction per version, before anything else uses the database.
* Transcription and the check of uploaded audio are calls without state of our own.
* Of parsing: punctuation other than the comma, the forms of a word that Unicode
  normalization makes equal, and the name in the case it was typed.  A token is read whole, so an
  alias that is a piece of one ("5" in "2.5") is not found.  Of the prompt:
  its wording; `Instructions` stands for the policy's patterns.
* The choice of household and user by `useAuthenticatedGrocerySync` and
  `useHouseholdSyncLifecycle`: `OfflineSync` is one household of one user, and their hooks end in
  its `Start` and `Stop`.
* Versions inside a chain of offline changes to one item: no screen queues a change
  yet, so nothing decides what a later one carries.
* The SQLite copy of the groceries: nothing in the app writes it, so it is only read.
* The phone's calls for aliases and its suggestions, the confirmation screen, and the update of
  a profile: one writer, one row.
* Several backends meet only through a phone's reconnections; deletion of an account is
  one step in `Households`, row by row in `Accounts`.

## 6. What could follow

1. Chains of offline changes to one item (section 5), once a screen queues them.
2. Several backends with one Redis: the handlers of section 2 with a subscription each.
3. The parser with punctuation other than the comma, when the code reads it differently.
