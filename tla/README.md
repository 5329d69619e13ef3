# FriendMap in TLA+

FriendMap is a web application in which users share their live location with
their friends, under a privacy mode each of them can change at any moment. This
directory holds its specification: TLA+ modules translated from the code under
`backend/src` and `frontend/src`, TLC configurations that check them on small
instances, and proofs that TLAPS checks for every value of the constants.

Contents:

1. [The system](#1-the-system) - components, state, operations, interactions
2. [What is hard](#2-what-is-hard) - and what makes each component correct
3. [The modules](#3-the-modules) - how state and actions correspond to the code
4. [The runs](#4-the-runs) - what each asks, its bounds, and what it shows
5. [Fairness](#5-fairness)
6. [The proofs](#6-the-proofs)
7. [Findings](#7-findings)
8. [What is abstracted, assumed and left out](#8-what-is-abstracted-assumed-and-left-out)
9. [The plan](#9-the-plan)

## 1. The system

The backend is one NestJS application (several processes of it may run behind a
balancer, joined by Socket.IO's Redis adapter), PostgreSQL through Prisma, and
Redis. The frontend is a Vue page with Pinia stores and a Socket.IO client.
Every backend handler is an `async` function: it runs alone until an `await` and
then any other handler may run. No handler holds a lock across an `await`; the
only atomic units larger than one query are the three `$transaction` calls.

| Component (code) | State | Operations | Talks to |
|---|---|---|---|
| Privacy store: `prisma/schema.prisma`, `friendships.service.ts` | tables friendships, sharing_settings, sharing_selected_friends, sharing_except_friends | areFriends, getFriendIds, upserts, the list transactions | read by visibility, fan-out, sharing; written by sharing and friends |
| SharingService: `sharing/` | none of its own | getSettings, updateMode, updateSelectedFriends, updateExceptFriends | writes the store; starts a notification with `void`, unawaited |
| FriendsService: `friends/` | table friend_requests | send, accept, reject, remove, list | writes friendships; emits friend:* |
| LocationVisibilityService: `location-visibility/` | none | canViewerSeeOwner: two or three awaited queries | asked by every path that shows a location |
| PrivacyRealtimeService: `realtime/privacy-realtime.service.ts` | none | notifySharingModeChanged, notifySharingListChanged | emits sharing:changed and location:hidden; deletes the location on GHOST |
| LocationGateway: `realtime/location.gateway.ts` | rooms, heartbeat timers | handleConnection, handleDisconnect, location:update, viewing:stop, viewing:start | validates, stores and broadcasts |
| Location ingestion: `locations/` | Redis: current location per user | POST over HTTP, update over the socket, getFriendCurrentLocation | store, history, visibility |
| LocationRateLimitService | Redis: a counter per user | INCR, then EXPIRE | ingestion over HTTP |
| LocationHistoryService | table location_history | insert, delete on read | ingestion |
| PresenceService | Redis: one key per user with a TTL | set, refresh by heartbeat, delete | gateway |
| StopViewingService | Redis set per viewer, and a copy per process | stop, resume, clear | gateway, broadcast |
| Client location store: `stores/location.ts`, `services/socket.ts` | markers, labels, staleness | apply location:updated, location:hidden, sharing:changed, hydrate, age | map |
| Map page: `views/MapView.vue` | markers on the map, owners stopped, a position watch | mount, hydrate, leave, stop viewing | location store, HTTP, socket |
| Client notifications: `stores/notifications.ts` | a capped list, known requests | socket events, polling | panel |
| Client session: `App.vue`, `stores/auth.ts`, `services/auth.ts`, `router/index.ts`, the two forms | the token, twice; the user; a flag | start, login, register, logout, guard, interceptors | socket, stores |
| Friends page: `views/FriendsView.vue`, `ConfirmModal.vue` | three lists, a dialog, a search | refresh, send, accept, reject, remove, search | HTTP |
| Settings page: `views/SettingsView.vue` | mode and lists being edited | load, pick, save | HTTP |
| Authentication: `auth/`, `users/`, `socket-jwt-auth.service.ts` | table users | register, login, verify | every request, every handshake |

A change of mode travels like this: `PUT /sharing-settings` commits, starts a
notification and returns. The notification reads the friends, announces
`sharing:changed` to all of them, asks `canViewerSeeOwner` for one after the other
and emits `location:hidden` to those who are refused. A location travels like this:
`location:update` is validated against the previous one, stored, and the broadcast
reads the friends, asks `canViewerSeeOwner` and `isViewingStopped` for one after
the other and emits `location:updated` to those who pass. The two overlap freely,
with each other and with everything that writes the tables.

## 2. What is hard

The full list, line by line, is under `hazards` in `PROJECT.json`. In short, and with
the property that makes the component correct:

- **canViewerSeeOwner** mixes three instants in one verdict. Correct: what it says
  was true at some instant of the call (`DenialJustified`, `GrantJustified`, the
  latter up to a friendship removed meanwhile).
- **SharingService** vets a list one friend at a time and commits later, and two
  updates of one owner may overlap. Correct: nobody gets on a list unvetted
  (`ListWritesVetted`). That the two transactions of one owner do not mix mode and rows is
  taken as given (section 8).
- **FriendsService** checks first and writes awaits later. Correct: a friendship
  needs the receiver's acceptance of the sender's request, an old request never
  revives a removed friendship, and inconsistent requests only come from calls that
  overlapped (`FriendshipsConsented`, `AnomaliesNeedOverlap`).
- **Fan-out** emits on verdicts that may be stale when they are used. Correct: a
  viewer never gets a location that was sent after the viewer's right ended
  (`NothingSentAfterRevocation`).
- **Privacy notifications** are started and forgotten, may fail half way, and meet
  broadcasts and lost connections. Correct: when all is quiet no marker is left with
  a viewer without the right, up to four named cases (`StaleMarkerExplained`), and a
  withdrawn right removes the marker eventually (`RevocationReachesViewer`).
- **Ingestion** validates against a location that another handler may replace, over
  two transports, beside a deletion that a change to Ghost starts. Correct: the
  current location is the newest one unless handlers crossed (`CurrentIsNewest`), and the
  history knows everything that was answered or broadcast (`HistoryKeepsUp`).
- **Rate limit**: the counter's expiry is a second command, and the window is fixed.
  Correct: any stretch of a window's length lets through less than twice the limit
  (`WindowBound`), and who is blocked is served again unless that command was lost
  (`BlockedIsServed`).
- **Validation** compares with a location that may be replaced before the write. Correct:
  the stored location never jumps unless handlers crossed (`JumpNeedsOverlap`).
- **Presence**: one key for all sockets of a user; timers racing a disconnect. Correct:
  a timer outlives its socket only if the socket closed while it was being accepted
  (`LeakNeedsOverlap`), and a connected user is offline only after another tab closed, for
  one heartbeat at most (`OfflineExplained`).
- **Stop viewing**: a process-local copy of a shared set. Correct: a stop that has
  reached Redis holds on every process (`StopHolds`); a resume holds with one
  process, and with several the stale copy is the only thing in its way (`ResumeHolds`).
- **Map**: HTTP replies racing socket events; nothing compares timestamps; the page may be
  left while it starts. Correct: the store says what the server said last, the map
  what the store says (`MapAgrees`, `LayerFollowsStore`), and what the viewer stopped or left
  stays off (`StoppedStaysOff`, `WatchOwned`), each up to named overlaps. A stale flag is a copy of an age that grows
  by itself: it is late by no more than the store's timer is (`AgeIsTold`).
- **Session**: a token in two places, refusals that come late, a start that runs once per
  page. Correct: `LoggedInListens`, `GoodTokenKept`, `PrivatePageHasUser`, and for the polls
  `PollsAnnounceOnce`.
- **Friends and Settings pages**: async functions that the user does not wait for. Correct:
  the dialog does what its title says (`DialogDoesItsAction`), lists, search results and settings
  are right once everything is answered (`ListsSettle`, `ResultsFit`, `PageAgrees`), a save
  is refused for former friends only, whom the page does not show (`RefusalIsHidden`), and it is refused as long as one
  of them is on the list, whatever the user picks (`FormerFriendsBlock`).

## 3. The modules

```
PrivacyStore          tables, queries, commits
 |-- Sharing          SharingService's handlers
 |-- Visibility       one call of canViewerSeeOwner, per query
 |    |-- SharingVisibility  = Sharing + Visibility + history  MCSharingVisibility
 |    `-- Realtime    fan-out, notifications, sockets, client  MCRealtime
 `-- Friends          FriendsService's handlers                MCFriends
                      (refines Sharing's environment)
Ingest                HTTP and socket ingestion, the page      MCIngest
Admission             rate limit and validation, with a clock  MCAdmission
Connections           presence, heartbeats, stop viewing       MCConnections
MapView               the map page and its store               MCMapView
Notifications         the notification store and its polls
 `-- Session          token, guard, bootstrap, socket          MCSession
Account               one user's rows, as the pages see them
 |-- FriendsPage      the Friends page
 |-- SettingsPage     the Settings page
 `-- Pages            = FriendsPage + SettingsPage             MCPages
Theorems: PrivacyProofs (Sharing, SharingVisibility, Friends), RealtimeProofs, IngestProofs,
          AdmissionProofs, ConnectionsProofs, MapViewProofs, PagesProofs, SessionProofs
```

**PrivacyStore.** One operator per query or per commit. A pair of friends is an
unordered set, which is what `normalizeFriendPair`'s ordered columns amount to.
`settings[u] = NoRow` is a user without a settings row, read as GHOST. `CanSee` is
`canViewerSeeOwner` as if it were one query: the yardstick, not a piece of code.

**Sharing.** `edit[e]` is the local state of one list update: `todo` are the ids that
`assertConfirmedFriends` still has to ask for. `BeginListUpdate` runs up to the first
await, `ConfirmFriend` / `RejectFriend` are one turn of the loop each (the code's order
of the ids is the client's, so any order), `CommitListUpdate` is the transaction,
`AbortListUpdate` a failed query. `Befriend` and `Unfriend` are what FriendsService does
to these tables.

**Visibility.** `check[c].pc` is the query that comes next: `ReadFriendship`, `ReadMode`,
`ReadList`. The module has no writers of its own.

**SharingVisibility.** Both together, with two history variables: `seen[c]`, the values
`CanSee` had during the call, and `unfriended[c]`, whether the pair's row went away
during the call. `VisibilitySpec` also implements `SharingSpec` (proved).

**Friends.** `handler[h]` is one HTTP request, `pc` the query it is about to make.
`sendFriendRequest` is four queries (friends? open request? delete old rows, create),
accept and reject are a read and a commit, remove is a check and a commit. `overlapped`
and `lapsed` are histories for the two properties. `FriendsImplementEnvironment`
instantiates Sharing with no owners and no edits and checks that Friends implements it:
the `Befriend`/`Unfriend` of Sharing and of everything above it is what
these handlers really do.

**Realtime.** One owner, the others are viewers.

| State | Code |
|---|---|
| `loc` | Redis key of the owner's current location |
| `task[t]`, `check[t]` | one running handler (`handleLocationUpdate` with `broadcastToAuthorizedViewers`, `notifySharingModeChanged`, `notifySharingListChanged`) and the visibility call it awaits |
| `stopped` | StopViewingService as one process sees it |
| `online`, `inbox[v]` | the viewer's socket in its room; events emitted, not yet delivered |
| `marker[v]` | the owner's marker in the viewer's location store, as the number of the fix it shows |
| `horizon[v]` | history: the last fix sent while the viewer could see the owner |
| `excused` | history: viewers whose last revocation met one of the four uncovered cases |

The actions follow the awaits: `ReceiveFix`, `ReadPrevious`, `setCurrentLocation`,
`ReadFriends`, then per viewer `TakeViewer`, the queries of `CheckViewer` in parallel with
`isViewingStopped`, and `BroadcastTo`, `NotifyModeTo` or `NotifyListTo`;
`deleteCurrentLocation` ends a change to GHOST. `Fail` cuts a handler short at any
await. `Deliver`, `Drop`, `Reconnect`, `handleStopViewing`, `handleStartViewing` are the
viewers' side. A commit and the start of its notification are one step, since the code
has no await in between.

**Ingest.** One user, the owner, and the user's page.

| State | Code |
|---|---|
| `publish[f]` | the `watchPosition` callback of one fix: POST under way, on the server, answered, done |
| `wire` | `location:update` frames, in order |
| `current`, `history` | the Redis key; the rows of location_history |
| `handler[h]` | one `publishLocation` or `handleLocationUpdate`; `previous` is what it validated against |
| `broadcasts` | fixes given to `broadcastToAuthorizedViewers` |
| `written`, `overtaken` | history: fixes written since the key was last gone; whether a handler wrote over a location other than its `previous` |

A POST goes `publishLocation`, `assertWithinLimit`, `validateUpdate`,
`setCurrentLocation`, `saveEntry`, `Conclude`; a frame starts at
`handleLocationUpdate` and skips the rate limit, as the code does. `getCurrentLocation`
and the validation behind it have no await between them and are one step. `Fail` is a rejected
await, a refusal by one of the other three checks, a lost answer or a frame lost on
its way; `LoseKey` is the deletion of a change to Ghost or the end of the 24 hours.

**Admission.** The handlers of Ingest again, for one user, with time. Every stored time is
an age, and `tick` makes all of them one older: `ttl` (of the counter's key), `current.age`,
the ages of the locations that handlers hold, and `admitted`, the POSTs that passed the limit, as pairs of how long ago that was
and of the number INCR returned. `publishLocation` is the INCR, `setExpiry` the EXPIRE of the first of a
window, after which `Decide` compares; `Validate` reads the previous location
and runs `validateTimestamp`, `validateOrder` and `validateSpeed`; `setCurrentLocation` writes.
`handleLocationUpdate` starts at the validation: the socket's path does not ask the limit.
A handler holds a location for at most `Held` units, and ages beyond `Oldest`
are one. `Distance` is on a line, with whole numbers for the haversine formula.

**Connections.** One user, several sockets and processes ("pods").

| State | Code |
|---|---|
| `link`, `accept`, `leave` | the socket; where its `handleConnection` and `handleDisconnect` wait |
| `interval`, `due`, `beat` | the timers; those that have fired; where their `heartbeat()` is |
| `pipe[p]` | commands that pod p has sent to Redis and Redis has not executed, in order |
| `presence` | the key's time left, in heartbeat intervals |
| `stops`, `local[p]` | the Redis set of stopped owners; each pod's copy |
| `ask` | one `isViewingStopped` of some broadcast |
| `promise`, `blurred` | history: what the backend was last told about each owner; whether commands of two pods crossed or one was lost |

`Execute` is Redis taking the next command of one pod, so that the commands of two pods cross and those of
one do not. `Reject` fails a command, `crash` ends a process with its timers, its copy
and its sockets. `tick` lets one heartbeat interval pass once everything due has run.

**MapView.** `markers` is the store, which outlives the page; `layer` is what the mounted page has
on its map. `mount[s]` is one `onMounted`, which goes on after its page is left: `hydrateFriendMeta`
(friends and settings), `hydrateNext` (a marker, then the request for one friend), the server's
two reads `canViewerSeeOwner` and `getCurrentLocation`, `hydrated`, `startGeolocation`. The server is `visible`,
`current` and `stopped`; `fix`, `hide`, `show` and `stopViewing` change it and emit what
Realtime emits; `deliver`, `disconnect` and `reconnect` are the socket. `pass` is the clock, which moves by itself;
`tick` is the store's timer and `staleCheckTick` the one the view starts with the position watch. Both run some time after they are
due, or not at all.
Every change of the store ends in the page's watchers (`Store`), as in the code.

**Notifications** is the store with the server's open requests; **Session** adds the page: `storedToken`
(localStorage) and `token` (the store), `user`, `page`, `form` (a login or registration that
is being answered), `socket` with the token of its handshake, and `calls`, every request under
way with the token it was sent with and, once `serve`d, its answer. Requests are answered in any order,
or lost. `refusedAway` is the 401 branch of the interceptor on a private page: it removes the token, whichever is stored,
and loads the login page; on a guest page, where assigning the present location changes nothing else, it removes the token only
(`Received`). `reload` starts the page again.
Histories say whether an exception of a property has happened: `reentered` (a login over an earlier socket or
request), `crossed` (two polls under way), `pollsOf` (whose tokens the page had while its polls ran), and others.

**Account, FriendsPage, SettingsPage, Pages.** `Account` is what the server has for one user; an HTTP request is one
step there, since its awaits are the subject of Friends and Sharing. `job[s]` is
one async function of the Friends page (send, accept, a confirmed action, a refresh), which waits for its
request and then for its refresh; the three queries behind a refresh (`getFriendsComposite`) come in any order. `confirmAction`
and `dialog` are what the dialog will do and what its title says. `searches` are the searches on their way,
each with its text and whether it is the `newest`. `load` and `saves` are the requests of the Settings page; `readSharing` reads the
mode first, then the two lists in any order. `Pages` goes from one page to the other: the page that is left loses
its state (`NewPage`, `NewSettings`), its functions go on.

Operators whose comment begins with "Mutant" are plausible bugs. No specification uses
them; each shows that some property would notice that bug (`mutants` in `PROJECT.json`).

## 4. The runs

| Run | Instance | Shows |
|---|---|---|
| `visibility` | 3 users, 1 owner, 1 list update, 1 call | a verdict of `canViewerSeeOwner` is justified by an instant of the call, a grant up to an unfriending meanwhile; lists are vetted |
| `friends` | 2 users, 3 calls, 2 request rows | consent, the source of anomalies, refinement of Sharing's environment |
| `realtime` | 1 viewer, 2 handlers, 2 fixes, 2 changes, 1 failure | nothing sent too late; stale markers are explained |
| `realtime_live` | 1 viewer, 2 handlers, 1 fix, 1 change, 1 drop, 1 failure | a revocation reaches the viewer |
| `ghost_overlap` | 1 viewer, 2 handlers, 1 fix, 1 change | *violation*: a marker outlives a change to Ghost |
| `ingest` | 3 fixes, 3 handlers, 2 lost keys, 1 failure | when the stored location can go back, what the history holds, which updates are broadcast |
| `stored_is_broadcast` | 1 fix, 1 handler | *violation*: a stored location is broadcast to nobody |
| `connections` | 2 sockets, 2 pods, 1 owner, 2 calls, 1 fault | where heartbeats leak, when an open socket is offline, whether a stop and a resume hold |
| `admission` | 2 handlers, 2 places, limit 2 in 3 units | how many POSTs a window lets through, who is served again, which jumps get in |
| `session` | 2 users, 1 request, 2 calls, 3 logins, 3 clicks, 2 events | listeners, tokens, users and polls over logins, logouts and reloads |
| `map` | 1 friend, 2 mounts, 3 instants, 3 events, 4 clicks | the store against the server, the map against the store, the flags against the clock |
| `pages` | 1 other user, 2 texts, 2 functions, 4 clicks, 1 event, 1 failure | what dialog, lists, search and settings show once all is answered, which saves are refused |

Bounds, and why they are enough:

- `Users`. A policy question concerns one owner and one viewer: two users. A list update needs a
  third, so that one id of a list is confirmed and another is refused. Realtime's loops serve any number of viewers,
  one after the other: for `NothingSentAfterRevocation` the proof covers it; with a second viewer in `MCRealtime.cfg`
  and `MaxFixes`, `MaxChanges`, `MaxDrops` at one the two invariants hold as well.
- `Edits`, `Calls`, `Handlers`: slots for handlers in flight. Two are needed for an
  overlap; Friends has three, so that a third call can come between two that race. A slot
  is used again, so runs are not limited to that many requests. Overlapping list updates (`Edits` with two members)
  are covered by the proof of `ListsAreVetted`, which does not bound them.
- `RequestIds`: rows ever created. A row's id is not reused, so this bounds
  the requests of a run; two are needed for a crossing and for a second request after a
  removal.
- `MaxFixes`: locations sent. Two have an older and a newer one in flight.
- `MaxChanges`: commits of policy, friendships and stop-viewing. One withdraws the right; two
  give and withdraw it, or change the policy between two notifications. The initial states
  range over every mode, list and friendship, so the first is not spent on set-up.
- `MaxDrops`, `MaxFailures`: lost connections and failed handlers. One each.
- In `ingest`, `MaxFixes` and `Handlers` are three: two POSTs may cross while the update of
  a third fix is on its way. `MaxGone` is two, so that the key is lost once before and once after a
  broadcast that the first loss made possible.
- In `connections` a socket is used once: two are the closing tab and the other one, or the old and the new
  connection of one tab, on one pod or on two. `MaxCalls` is a stop and a resume (or two of either), `MaxFaults` one
  command that fails or one pod that dies. Time is not bounded: the key's TTL is two intervals.
- `admission` needs no bound on time or on requests, since ages do not grow beyond `Oldest`. The limit of two in
  three units has a first, a last and a refused POST in a window and two windows next to each other.
- In `session` three clicks are a login, a logout and a second login, or, of a page that had a token, a logout, a
  login and one more (with four all properties hold as well); two events expire a
  token and lose an answer. Two requests under way overlap; one friend request is enough to be announced twice.
  The third login brings the first user back after another one: with two, the polls of one user never meet the requests
  of the other and then their own again.
- In `map` two slots are a page that is left while it starts and the one opened after it. Friends do not
  meet in the store, so one is enough. The clock passes the threshold of one instant with the timers running or late,
  and a fix makes the marker fresh again. Three events are a fix, a change of the right and one more, or a lost connection.
- In `pages` two functions under way overlap; the other user acts once, before, between or after them; four
  clicks open a page, act, confirm and leave, or open it and type three times. The texts are the other user's name and
  one that is nobody's (`Unknown`), so that two searches for different texts are under way and either is answered first.
  `FirstModes` are the modes the account may start with, the other ones are reached by a click; the lists and
  friendships it starts with are arbitrary.

`CHECK_DEADLOCK FALSE` is set where the bounds let the system stop and for the runs that look for a
violation. `friends` and `admission` check deadlock. Symmetry is only used in runs without a
liveness property.

`MapTypeOK`, `SessionTypeOK` and `PagesTypeOK` say what the variables of the three page models are. They are proved,
for every instance; the lists of these runs are kept for what the code could get wrong.

## 5. Fairness

Two runs need it. In `realtime_live`, `HandlerStep(t)` and `Deliver(v)` are weakly fair:
Node's event loop runs every continuation whose query has been answered, PostgreSQL and
Redis answer or fail (a failure is `Fail`, which is not required), and TCP delivers what was
written to a socket that stays open. Nothing is assumed of requests, of errors, of lost
connections or of reconnects. All these actions stay enabled until they are taken,
except by a `Fail` or a `Drop`, so strong fairness is not needed.

In `admission`, for `BlockedIsServed`: time passes (`tick`), and a handler that has been started takes its next step.
An EXPIRE that was sent is executed or fails (`setExpiry(h) \/ Fail(h)`): which of the two is not
assumed, and the property names the failure. No request is assumed to come.

## 6. The proofs

Assumptions, all of them named and evaluated by TLC in the runs: `NoUserAssumption`
(`NoUser` is not an account), `OwnersAssumption`, `OwnerAssumption`, `BoundsAssumption`, `NoRequestAssumption`,
`IngestAssumption`, `AdmissionAssumption` (it asks for a finite set, the handlers under way, since the
counter counts them; the limit, the window and the speed are not zero), `ConnectionsAssumption`,
`MapViewAssumption` (the clock starts beyond the staleness threshold), `AccountAssumption`, `FriendsPageAssumption`,
`NotificationsAssumption` (friend requests are finitely many, since an answer to a poll is a list of them) and
`SessionAssumption`. Users, friends, sockets, processes, calls and bounds are otherwise arbitrary sets and numbers,
also infinite sets.

Every proof has the same shape: an invariant stronger than the property, a lemma for the initial states, one lemma per action
or group of actions that change the same thing, and the theorems at the end.

**PrivacyProofs, the lists.** `SharingTypeCorrect` and `ListsAreVetted`. The invariant
`SharingInv` adds to the types, for each request, that the ids already confirmed *and the owner's present
friends* are in the request's history of friends. The second part is what lets a
confirmation extend the first, and every acceptance is observed by the requests in flight.

**PrivacyProofs, the verdicts.** `VisibilityTypeCorrect`, `DenialsAreJustified`,
`GrantsAreJustified`, `VisibilityRefinesSharing`. `VisibilityInv` says what a call
knows before each query. At `"list"` the row is not read yet, but its answer is already
justified, whatever it will be: either `CanSee` had that value when the mode was read, or
the row changed since, and the commit that changed it set the mode too, so that
`CanSee` had the new value then (lemma `RowChangesWithMode`). That is where the transaction
of `updateSelectedFriends` matters: with the mode outside it (a mutant) the property fails.

**RealtimeProofs.** `RealtimeTypeCorrect`, `NothingSentTooLate` and `StaleMarkersAreExplained`. `NothingSentAfterRevocation`
speaks of what has been emitted, and is not inductive: `RealtimeInv` adds what each
answer is worth to a broadcast that has not emitted yet (`Verdict`): a friendship found
still stands or the fix is not beyond the viewer's horizon, a list row that would let the
viewer pass does so only below the horizon, and a call that says yes is below it. `HorizonInv` (who
can see the owner has the newest horizon) makes the queries establish it, `VerdictsSurvive` is the lemma
that commits preserve it, with one argument for all commits: a removed viewer gets the
present horizon, and a row only changes together with its list's mode.
`StaleMarkerExplained` speaks of quiet states only; `StaleInv` says what keeps it true on the way. Whoever has
no right and is not excused is denied by every broadcast in that viewer's turn, and a marker still shown (counting the
inbox) has a notification that will hide it: one that has not read the friends, has the viewer on its list, or is in the
viewer's turn with reads that end in a denial. The four excused cases are exactly the steps that break one of the two.

**PrivacyProofs, the friend requests.** `FriendsTypeCorrect`, `FriendshipNeedsConsent`, `AnomaliesComeFromOverlap` and
`FriendsAreAnEnvironment`. `FriendsInv` says what each call holds of its arguments and of the row it has checked
(`CallInv`), that a request answered for good has no call left that could still accept it (`LapsedInv`), and that the
checks of `sendFriendRequest` still stand unless another call has written for the pair since (`CheckHolds`). The last is where
`overlapped` comes from: a row created on checks that do not stand is marked. The action property and the refinement
then follow by cases: the only commits that touch friendships are `CommitAccept` and `CommitRemove`, which
are `Befriend` and `Unfriend`; every other step is a stutter of Sharing.

**IngestProofs.** `IngestTypeCorrect`, `NewestIsCurrent`, `NothingIsBroadcast` and `HistoryIsKept`.
`CurrentIsNewest` needs what a handler knows between its validation and its write
(`Validated`): its fix is newer than the `previous` it keeps, which is still the current location
unless somebody has overtaken it. `NothingIsBroadcast` needs that every fix on its way to the
socket has been written (`Published`): along the POST, its answer, the frame and the update, one clause of
`HandlerInv` or `SocketInv` each. The read of the update then finds a location at least as new, by
`CurrentIsNewest`, and refuses it; only a lost key or an overtaken write lets it pass.

`HistoryKeepsUp` needs one clause more (`HistoryInv`): a handler that has come to its end has saved its fix.

**AdmissionProofs.** `AdmissionTypeCorrect`, `JumpsComeFromOverlap`, `WindowIsBounded` and `KeysExpire`, for every limit,
window, skew and speed. For jumps, `Sound` says that a validated location is plausible against the stored one unless
somebody has overtaken its handler; since both ages grow together, time only matters where they reach
`Oldest`. For the window, `WindowInv` splits the POSTs admitted within the last window into those of the present key and
those of a key before it: each part has different numbers, the second none with number 1, since the first POST of
a key is a window old when the key expires. `Limit` numbers in one part and `Limit - 1` in the other give the bound, by
the cardinality theorems. `KeyInv` says that the key has an expiry or one handler is about to set it or that
command was lost; `KeysExpire` states it, the safety half of `BlockedIsServed`.

**ConnectionsProofs.** `ConnectionsTypeCorrect`, `LeaksComeFromOverlap`, `OfflineHasACause`, `StopsAreKept` and
`ResumesAreKept`, for any number of sockets, processes and owners. All rest on what the commands in a pipe stand for.
`LifeInv` and `OnlineInv`: an "online" on its way is the only one of its socket, in the pipe of that socket's pod, and the
socket waits for it; an open socket that has been accepted has its timer, and one that is down and has a timer was
overtaken. `PresenceInv`: each timer's renewal is under way whenever the
key is not fresh, so that the key does not expire under it. `PromiseInv`: while nothing is blurred only one pod has
changes of the set in its pipe, and the last of them for an owner, or the set where there is none, is what
was promised last. `CopyInv` and `AnswerInv` relate the copies and a broadcast's question to that.

**MapViewProofs.** `MapTypeCorrect`, `StoreFollowsServer`, `LayersFollowTheStore`, `StoppedAreNotDrawn`, `WatchesAreOwned` and
`AgesAreTold`. `QueueInv`: the last event of a friend in the queue says what the server told last. `FreshInv`: so does
an answer that no event has overtaken, and then no event of that friend is on its way. `ToldInv`: a friend of whom nothing is on
its way is shown as told, or the answer that says it is still to be applied. `LayerInv`: the layer is in step with the
store, or the list that will draw it has been read. `TrueList` compares the flags with two clocks: one that is set is
true now, one that is not was true when the store's timer ran last. The clock that moves alone keeps both halves, and so does every
change that computes a flag, since the timer never ran in the future.

**PagesProofs.** `PagesTypeCorrect`, `DialogsDoTheirAction`, `ListsSettleInTheEnd`, `ResultsFitTheText`, `SettingsAgree`,
`RefusalsAreHidden` and `FormerFriendsBlockSaves`. For the Friends page `ReadInv` says that a refresh has read the server's lists while it is fresh,
`ShownInv` that the page shows them or a refresh is still to come, `DialogInv` that whatever can take a dialog's action was
running when it was opened. `ResultsInv` follows the text: the one that waits is the one in the input, the newest search is for it
unless one waits, and users of another text are there only while one of the two is to come. For the Settings page `LoadInv`, `ModeInv` and `PickedInv` say, part by part, that the page has
what the server has, or a save under way will bring them together and takes what is shown; `SavesInv` that there
is one such save at a time. `FormerInv` says that whoever is named anywhere is a friend or was one. `BlockInv` is behind
`FormerFriendsBlockSaves`: of the users without a checkbox, the page and the save on its way name those that the server
names, since no click can add or remove them; a save that is accepted names friends only. The two pages share the account only: a step of one changes the other's invariant
by what it does to the account.

**SessionProofs.** `SessionTypeCorrect`, `UsersListen`, `GoodTokensStay`, `PrivatePagesHaveUsers` and
`PollsAnnounceEachOnce`. All rest on what is under way, a sequence of requests that grows at its end and shrinks
anywhere; the first lemmas say what that does to its members. `EntryInv`: one profile is asked for at a time, with the
token that is stored if there is still one, and the first of a page before anything else runs. `RoomInv` counts the
requests. `StartInv`: nothing runs before the start, and after it both polls and listeners do until a logout.
`TokenInv`: in a page entered once the socket and every request have the token that is stored, so that a refusal can only be
of that one. `GoodTokensStay` is an action property: each step that removes the stored token is a refusal of that token,
which the server does not take any more, or one of the exceptions. `ProfileInv` keeps the debt of a profile. For the polls, `PollerInv` says that what was announced and is still
open is among the requests known from the last answer, and `AnswerInv` what an answer is worth while it is on its way: it
has what is open of what was announced, and nothing announced that is not known. The first makes the server's answer
establish the second, the second makes its arrival keep the first; both need that polls do not overlap and that all are
of one user. TLC found that last condition: the property without it holds for two logins and fails for three.

Two lemmas on the calls of `canViewerSeeOwner` stand both in PrivacyProofs and in RealtimeProofs.

Only model-checked are `RevocationReachesViewer` and `BlockedIsServed`: liveness under fairness is out of the prover's
reach. `StaleInv` and `KeysExpire` are the safety halves of the two. The two properties of the runs that expect a
violation are false. Every other property of a run is a theorem.

## 7. Findings

Each is a run that TLC ends with a counterexample; `findings` in `PROJECT.json` quotes the
sentence that is contradicted.

- `ghost_overlap`: a broadcast that read the old policy emits after the `location:hidden` of a
  change to Ghost, and the marker stays.
- `stored_is_broadcast`: the page publishes over HTTP, which stores and does not broadcast, then sends the
  same timestamp over the socket, where the strict order check refuses it. Nothing the web
  client sends is broadcast, except after the key was lost or an older location replaced it
  (`NothingIsBroadcast` proves it): friends see a location when they load the map and no move after that.

Other departures are written, as named exceptions, into properties that hold; each exception is the only
one the model leaves.

- `GrantJustified`: a friendship removed and a mode changed between its queries can make `canViewerSeeOwner`
  admit a viewer who was allowed at no instant of the call.
- `StaleMarkerExplained`, `RevocationReachesViewer`: a marker outlives a right when a broadcast was in its turn, when the
  friendship was removed (`removeFriend` hides nothing), when the `location:hidden` was lost with a connection (nothing makes
  up for it), or when a notification fails half way.
- `AnomaliesNeedOverlap`: two users who send each other a request at once get two open requests.
- `CurrentIsNewest`: two POSTs that cross between read and write leave the older location. `JumpNeedsOverlap`: the same
  crossing lets a jump in.
- `WindowBound`: the window is fixed, so almost twice the limit passes around its end, where
  `location.constants.ts` speaks of a sliding one. `BlockedIsServed`: a lost EXPIRE blocks the user for ever.
- `LeakNeedsOverlap`: a socket closed while it is being accepted leaves a heartbeat that keeps the user online.
  `OfflineExplained`: closing one of two tabs takes the user offline until the next heartbeat.
- `ResumeHolds`: viewing resumed through another process stays stopped in this one. `StopHolds`: closing
  any tab takes back what every tab has stopped.
- `MapAgrees`: an answer to the hydration that an event overtook is applied over it, and what was lost
  with the connection is not asked for again. `LayerFollowsStore`: a friend without a location has a marker at (0, 0).
  `StoppedStaysOff`: leaving the map and coming back shows a stopped friend again. `WatchOwned`: a map left while
  it starts leaves a position watch behind.
- `LoggedInListens`: a logout and a login in one page leave the user without polls and listeners. `GoodTokenKept`: a late
  refusal of an earlier token, or of a request sent without one, throws the new one away. `PrivatePageHasUser`: a profile that could not be read
  leaves a page without a user, or, at the start, logs out.
- `PollsAnnounceOnce`: two polls that overtake each other announce a request twice. So do the polls of a user whose
  token was refused, when another one logs in and the first comes back: they run on, with whichever token is stored,
  and forget the requests of the one over those of the other.
- `DialogDoesItsAction`: a dialog opened while a confirmed action is still running loses its action.
  `ListsSettle`, `ResultsFit`: answers are applied in the order they come, for a text that was replaced or emptied too.
  `RefusalIsHidden`, `FormerFriendsBlock`: a former friend who is still on a
  list has no checkbox, and every save of that list is refused until the two are friends again.
- `AgeIsTold`: between two runs of the store's timer a marker may be over the threshold without its flag.

Also seen while reading, and not stated as a property: the map's "Resume viewing" cannot be reached, since both of its
buttons stand on a marker that "Stop viewing" has removed; the Settings page calls a mode active that is not
saved; choosing a user from the dropdown opens it again; the notifications of one user are still there
for the next one of the same page.

## 8. What is abstracted, assumed and left out

- One process, or several with a working Redis adapter: events to one room arrive in the
  order of their emission. The fallback to the in-memory adapter is not modelled.
- PostgreSQL under READ COMMITTED: a statement and each of the transactions is one commit.
  The two list transactions of one owner serialise on the settings row they upsert first.
- A location is its number, which stands for its timestamp, except in Admission, where it is an age and a place.
  Coordinates out of range or not finite are refused before any state is touched and are left out.
- In Realtime the rate limit, the HTTP path and the history insert do not appear: locations come from a
  client that sends new timestamps over the socket, as the gateway expects. That the web client does not is what
  Ingest shows. In Ingest the broadcast is one step, the fan-out is Realtime's.
- Ingest has one page of one user, whose fixes have different timestamps. The cleanup of the history is left out.
- In Connections a user's presence and stops are independent of other users: every key carries the user's id. The 24 hours
  after which Redis forgets a set of stopped owners are left out.
- In MapView the mode labels and the focus are left out, and `handleStartViewing`, which cannot be reached. In Session
  clearing the location store at logout is left out: MapView is one login.
- The Friends page knows a request by its sender, since a sender has one row; in Account each of the other users sends
  one request at most. Texts typed into the search are users' names, texts that are nobody's name, or empty.
- A drop loses everything that is on its way to that socket at once.
- friend:* events only feed the notification list; they are in Notifications and not in Realtime.
- `sendHideToDisallowedViewers` has no caller; listing endpoints, DTO validation, formatting,
  logging and rendering are left out.
- Password hashing and token signing are library calls: a token is a value the server takes until it expires. Layout,
  home page, translations, toasts, style sheets, Firebase, module wiring, filters and seed data: markup or glue
  around libraries, with no state that the others race on. `components` in `PROJECT.json` gives the reason for each.
  More than half of the lines of the .vue files are style sheets.

## 9. The plan

What is modelled is what the code keeps state in, and all safety properties are proved. Left to check:
MapView with Realtime as its server in place of `visible` and `current`; the cleanup of the
history with a clock; two processes in Realtime, for the fallback of the Redis adapter.
