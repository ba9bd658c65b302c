# Specifications of scim-outline-adapter

TLA+ models of the adapter's own logic: the SCIM handlers that turn one request
into a row of Outline API calls, the derivation of team roles from group
memberships, the file that keeps user externalIds, and the client that makes
the calls. TLC checks them on small instances; TLAPS proves the main results for
every instance.

Paths without a directory are those of the repository: `groups.go`, `users.go`,
`server.go`, `roles.go` and `patch.go` are in `src/internal/scim/`, `store.go` in
`src/internal/extid/`, `client.go` in `src/internal/outline/`, `main.go` in
`src/application/`.

## 1. The system

An identity provider sends SCIM requests; `net/http` serves each in a goroutine.
A handler makes Outline calls one after another and keeps what it has learnt in
locals. Handlers share no lock: what they have in common is Outline itself and,
if `USER_EXTERNAL_ID_FILE` is set, the externalId store.

| Component | State | Operations | Interacts with |
|---|---|---|---|
| Group handlers (`groups.go`) | locals of each request: sets to add, to remove, `affected` | POST, PUT, PATCH, DELETE (GET reads) | Outline calls; role recomputation |
| Role recomputation (`server.go:114-160`, `roles.go`) | none between calls | groups of the user, the user, new role | Outline calls |
| User handlers (`users.go`) | locals of each request: the account as last reported | POST, PUT, PATCH, DELETE; GET by externalId heals stale entries | Outline calls; store |
| externalId store (`store.go`) | `byID`, `byExt` under a lock; the JSON file | Open, Set, Delete, save, Get, Lookup | user handlers; file system |
| Outline client (`client.go`) | locals of each call: the attempt; of each listing: offset and entries so far | one method per API call, 429 retry, paging | Outline |
| PATCH and filter parsing (`patch.go`, `filter.go`) | none | body to edit, text to filter | handlers |
| Life cycle (`main.go`) | process up or down | start, shutdown with a 10 s limit | all |
| Listing, representation, authentication, routing, configuration | none after start | - | - |

What makes it hard:

- *Interleaving.* `recomputeRole` is read groups, read user, write role, each a
  network call. Any other request may run in between (`server.go:131`). The
  same is true of look-up and create (`groups.go:55`), of capture and delete
  (`groups.go:298`), of reading a user and storing the externalId (`users.go:232`).
- *Partial failure.* A call that fails ends the request with 404 or 502, and
  everything done so far stays. The call itself may have been carried out, its
  reply being lost. Clients send such requests again.
- *Crashes.* The process may die between an Outline call and the store call
  that belongs to it, or inside `save` between write, fsync and rename. A
  shutdown waits 10 s, and then cuts off handlers between two calls
  (`main.go:70`).
- *Time.* A rate-limited call waits and is sent again under a context that may
  end meanwhile (`client.go:103-110`); a call that ran into its time limit may
  have been carried out, or may be later.
- *Paging.* A listing is several calls, and the list changes between them
  (`client.go:367-368`); the role of a user is derived from such a listing.
- *Stale memory.* A failed save has changed the maps in memory already.

What correctness means, per component:

- Groups: a 2xx answer means that the group is what was asked for; no two live
  groups are created under one name; every request is answered.
- Roles: whenever nothing is in progress an active account has the role its
  groups give. This is what the README promises and what the code does not
  keep (section 5); what it does keep is that *every* deviation has one of five
  named causes, that only concerned users change, and that no role is invented.
- Users: a 2xx answer means that account and mapping are what was asked for; a
  live account's externalId is lost only to another account; the externalId of a
  deleted account stops resolving.
- Store: 1:1 in memory and on disk, never a torn file, `nil` means saved.
- Client: a call is carried out at most once and its result is the truth about
  it; every call ends; a listing errs only by what changed under it.

The complete list of hazards, each at its line, is in `PROJECT.json`.

## 2. Modules

```
RoleMap <- OutlineTeam <-+- ScimGroups <-+- RoleDrift
             ScimPatch <-+               +- RoleHistory

       OutlineAccounts <-+- ScimUsers <- UserHistory
             ScimPatch <-+
              ExtIdMap <.' <== ExtIdStore <- ExtIdSaved

               OneCall <== RpcClient <- OffsetPager
```
`<-` is EXTENDS, `<==` refinement; `ScimUsers` uses the operators of `ExtIdMap`
through INSTANCE (`<.'`). Each `MC...` module gives its base module small request
sets, each `...Proofs` module holds the theorems about it; `GroupAnswersProofs` those
about `ScimGroups` and `ScimPatch` for requests served one at a time. The theorem about
`ExtIdMap` is in `ExtIdStoreProofs`, which carries it over to the store.

**RoleMap** is `roles.go`: `DeriveRole` as a CASE over the keys of the groups
held. `RoleKey` is the lower-cased, trimmed name, given as a function.

**OutlineTeam**, **OutlineAccounts** are Outline as the adapter sees it, one
operator per API method, taken from `internal/scim/fake_test.go`. The first is
the part the group handlers meet (groups, edges, roles), the second the part
the user handlers meet (addresses, names, life cycle). Outline is external:
nothing is claimed about it beyond what that client does and what the handlers
rely on, such as the refusal to change a suspended account's role. Ids are
never used twice.

**ScimPatch** is what a PATCH asks for: the reduction of a list of operations to
the attributes to write (`applyUserPatch`, `groupAttrPatch`) and to one edit of
the members (`applyGroupMemberPatch`). The last value of an attribute counts, and
any of the values that one path-less operation gives it, as Go visits the keys in
any order; the last replacement of the members makes every other member operation
void. An operation is a record of what the decoders make of it, "other" being
each one they refuse. `MadeMember` and `MadeStranger` are the reference: what the
operations, one after another, make of a user.

**ScimGroups** has one action per call of the `/Groups` handlers. `h[p]` is the
frame of the goroutine in `p`: `pc` names the call that comes next, `add`, `rem`
and `affected` are the locals of the same role in the code (`affected` is the
variable of that name in `createGroup`, `patchGroup`, `deleteGroup` and
`reconcileMembers`), `target` the derived role. `status[p]` is the answer. `Call`
gives every call its four outcomes: done; 404; refused or never arrived; done
with its reply lost. The last three end the handler, as every `s.fail`
followed by `return` does.

| Action | Code |
|---|---|
| `FindGroup`, `CreateNew` | `createGroup`: adopt, or create |
| `GetGroup`, `UpdateAttributes` | `putGroup`, `patchGroup`: attributes that differ; also the externalId of an adopted group |
| `ParseMembers` | `patchGroup` after the attributes: rejected, replace, or add and remove, as `Edit` of ScimPatch gives it |
| `Reconcile` | `reconcileMembers`: the difference with the current members |
| `AddMember`, `RemoveMember` | the membership loops; every add comes before every remove |
| `Capture`, `DeleteCaptured` | `deleteGroup` |
| `FetchGroups`, `GetUser`, `SetRole` | the three calls of `recomputeRole` |
| `Finish` | the read of the members for the answer (none after DELETE) |
| `Exit` | the process is killed, or cut off by the limit of its shutdown; Outline keeps what was done |

`Received` holds the requests as the handlers work on them, a PATCH reduced. That
is sound because the reduction reads nothing but the body; *when* the handler
looks at it matters only for the 400, which `ParseMembers` gives where the code does.

**RoleDrift** runs ScimGroups unchanged next to two history variables: `listed`,
who was in the group a DELETE is about when it asked, and `owed`, the
set of users for whom something has happened that may leave a wrong role:
`Abandoned` (a request failed after it had changed the user's groups),
`Overtaken` (the groups changed between read and write), `Uncaptured` (joined
a group between capture and deletion), `Renamed` (a group changed its name),
`Reactivated` (was suspended and so passed over). `Settled` takes a user out
again. The invariant `RoleAccounted` says the list is complete.

**RoleHistory** runs ScimGroups next to `touched` (the users a request has
concerned so far) and `earned` (every role a user's groups ever gave). `Granted`
states the role map independently of `DeriveRole`, from README.md:45-49.

**ExtIdMap** is the abstract mapping: `map`, and the set `saved` of mappings a
restart may bring back. **ExtIdStore** is `store.go` in detail: the two maps, the
lock, and `save` as write, fsync and rename by the goroutine holding the lock.
`Kill` loses memory, `PowerLoss` also brings the path back to any content in
`disk` (the directory is not synced), `SaveFails` makes any step of a save fail,
leaving memory changed. `Open` creates an empty file or loads the one there is.
**ExtIdSaved** runs it next to one bit of history, `stale`: a save has failed, and
none has succeeded since.

**ScimUsers** has one action per call of the `/Users` handlers, with the store as
`map` in memory and `file` as a restart reads it; a store call is one step,
which the store's lock justifies (`ExtIdStore`), and each store call is a step of its
own. `Stored` and `NotStored` are the outcomes of one that writes: nothing to do or saved, and
memory changed but the save failed. `StoreExternalId` is `storeExternalID`, `Represent` the
2xx answer, for which `toSCIMUser` reads the store again after the lock was released
(`users.go:45`); `DropEntry` is the `Delete` of a DELETE and of the healing look-up. It models the
configuration with a store; without one the store steps fall away. `hardDelete`
is HARD_DELETE_USERS, which a restart reads again. `Reject` is the 400 of
`patchUser`, which comes before any call: there a refused operation leaves nothing
half done.

**UserHistory** runs ScimUsers next to `held[p]`: which of the attributes the
request in `p` asks for its account has had, at any moment since the request was
received. That is all a 2xx answer is worth when requests overlap: the externalId
was stored, yet another request may have taken it over before the answer was put
together, and the answer then lacks it.

**RpcClient** is `Client.post`. `Send`, `Retry`, `Resume`, `Accept` are the ways
through its loop, `GiveUp` the time limit and the context, `Break` a broken
connection. `Serve` is Outline, which may answer with anything, carry a call out and
then fail, or do so after the caller has gone; `Lose` the network; `Tick` counts the
running timer down. **OneCall** is what a handler takes a call for, and what `Call`
of ScimGroups and ScimUsers assumes: at most once, "ok" only if carried out, 404
only if not, an error leaves it open.

**OffsetPager** is the loop that `ListUsers`, `ListGroups`, `GroupMemberships` and
`UserGroups` share, over `RpcClient` unchanged: every page is a call with all that
may happen to one. `list` is the list in Outline, which `Insert` and `Remove` change
between any two steps. A reply holds the page and the total of the moment it is
served. `before`, `grown` and `shrunk` are history.

## 3. Runs

Every bound is in the `.cfg`. Two group or user ids bound how many are ever
created; `IdLeft` admits a POST only while one is left, and `FreshIds` has the
same role for users. Names are three: two that `EqualFold` and the role map take
for one, and a third with another role. A violation of any of these properties
needs at most two handlers and two users or groups: the hazards are about one
edge, one name or one entry that two requests touch.

| Run | Instance | Question |
|---|---|---|
| GroupsSerial | 1 handler, 2 users, 2 groups, refused calls, lost replies, exits | `AnswerHolds`: does 2xx mean the group is as asked, whatever was left half done before? `NoDuplicateCreated`: does a POST, also one repeated after a lost reply, ever create a second group of a name? `WorkDue`: is what the earlier steps owe the request so at every later one? `HandlerInv`. Exits of the process; PATCH with up to three operations. |
| GroupsLive | 2 handlers, lost replies, suspended and deleted accounts | `Responds`: is every request answered? |
| RoleDrift | 2 handlers; an admin and a member group joined, left, renamed, deleted; lost replies, suspensions, exits | `RoleAccounted`, `DriftInv` |
| RoleHistory | 2 handlers, 2 users, 1 group, exits | `OnlyTouchedChange`, `RoleEarned`, `HistoryInv` |
| StoreCrash | 2 callers, failed saves, kills, power losses | `MappingOneToOne`, `NeverTorn`, `ImplementsMap`, `StoreInv`; `OkUnlessStale` and `MemoryIsSaved`: how far does a failed save reach? |
| UsersSerial | 1 handler, all failures, kills, hard and soft DELETE | `UserAnswerHolds`: does 2xx mean that account and mapping are as asked, and that the answer shows them so (`Shown`)? `AccountDue`: is what the earlier steps owe the request so at every later one? |
| UsersEntries | 2 handlers, 2 names, 1 externalId, lost replies, kills, deletions in Outline | `LiveEntriesKept`; `EachHeld`: was each attribute asked for, the externalId in the mapping included, the account's at some moment of a request answered 2xx, though the handler decides on replies several calls old? `UserInv`, `HeldInv` |
| Client | 1 caller, 2 retries, 2 entries to a page, lists of 0 and 3 entries, 2 changes during a listing | `CallIsOnce`, `CallInv` (with `TimeBound`), `CallReturns`; `NothingMissed`, `NothingTwice`, `ExactAtRest`, `PagerInv` |
| GroupsRace, GroupsRetry, StoreRetry, UsersGone | | violated: section 5 |

`AnswerHolds`, `NoDuplicateCreated` and `UserAnswerHolds` are checked for requests
served one at a time, since overlapping requests may undo each other's effects
and no document promises otherwise; the failures of *earlier* requests are all
there. `WorkDue` and `AccountDue` are what the answers rest on: the last step of a handler
reads little, and its answer is true because the steps before it left the group or the
account as the request wants it, whichever way they came. Two overlapping POSTs of one
name do create two groups, as look-up and creation are two calls. `RoleDrift` leaves refused calls and deleted accounts
out: a refused call only ends a handler, as a lost reply does, and the property
is about active accounts. Deadlock is checked in every run: a handler that is
idle can always be given a request.

`StoreCrash`, `StoreRetry` and `UsersEntries` use symmetry, of model values that
nothing distinguishes; their properties are safety properties. In `Client` the limits
are scaled down (1 s for a request, 2 s for the longest delay instead of 30 s and
30 s, pages of 2 instead of 100): what matters is that a header may ask for more
than the longest delay, and that a list has one page, several, or a last one that
is not full; the proofs cover every value.

**Fairness.** `FairSpec` assumes weak fairness of each handler's `Step(p)`, no
more: requests need not arrive and accounts need not change. The code gives
it: every call ends, as the HTTP client times out after 30 s (`client.go:64`) and
a rate-limited call is sent at most twice more (`client.go:20-23`); between
calls a goroutine never blocks on another. `Responds` is not immediate: the
loops run over sets that other handlers' effects could keep alive, were
`affected` recomputed instead of consumed. `GroupsRetry` uses `FairSpec` too; its property is a
safety property.

That every call ends is itself checked, as `CallReturns` of `OffsetPager`, under less:
time passes (`Tick`), and the caller takes the step that is open to it, which is
what `http.Client` does when its limit or the context ends and what the `select` does
when `time.After` fires. Nothing is assumed of Outline or the network: a reply need
never come. A listing ends because the pages it is given move the offset; `MaxChanges`
bounds the insertions meanwhile, and a list that grew by a page for every page read
would indeed be read for ever.

## 4. Proofs

Every theorem holds for any sets of users, groups, names, handlers and requests
and any subset of failures, under the named assumptions of the modules:
`NoNameAssumption` ("" is not a name or id), `RequestsAssumption` (a POST has a
name, other requests an id: the code's 400 and the route pattern),
`AccountsAssumption`, `NamesAssumption`, `ContentsAssumption` (a torn file is not a
mapping), `ModeAssumption`, `TimesAssumption` (limits are numbers, those of time not
0), `ListsAssumption` (no entry is listed twice).

| Theorem | Says | Argument |
|---|---|---|
| `HandlersWellFormed` | `Spec => []HandlerInv` | `TypeOK` is not inductive: `SetRole` needs `uid` to be a user, `UpdateAttributes` needs `gid` to be a group. `OnTrack` ties each `pc` to the operations that reach it, `UserAtHand` ties `uid` to `affected`. |
| `DriftInvariant`, `RolesAccounted` | `DSpec => []RoleAccounted` | `DriftInv` adds `TargetsCurrent` (a handler about to write the role of a user who is not owed has derived the present one) and `ListedKept` (a handler about to delete a group will recompute everybody it listed there). Each action either leaves a user's groups, role and target alone or makes the user owed or settled. |
| `HistoryInvariant`, `RolesAreEarned` | `HSpec => []RoleEarned` | `HistoryInv` adds `TargetEarned`: what is about to be written was given at the moment it was derived, and `earned` only grows. `Granted` equals `RoleByMembership`. |
| `OnlyTouchedUsersChange` | `HSpec => OnlyTouchedChange` | `WorkIsTouched`: what a handler will edit or recompute lies in `touched`; `ReconcileReplaces` excludes deltas from `Reconcile`. |
| `RolesMatchWhenCalm` | if requests are served one at a time, `CalmSpec => []RoleMatchesMembership` | `RolesAccounted` names five causes; `Overtaken` takes another handler, or the deletion of the user, and `Uncaptured` an addition between `Capture` and `DeleteCaptured` (`AllListed`). `CalmSpec` (`RoleDriftProofs`) excludes the other three, so no active user is ever owed (`OwedInactive`), and between requests nobody is ahead. |
| `WorkIsDue`, `AnswersAreTrue` | if requests are served one at a time and no account is deleted meanwhile, `Spec => []WorkDue`, `Spec => AnswerHolds` | `WorkDue` is inductive with `HandlerInv`: `AttributesDue` (name and externalId are written, or are what is about to be), `EditsDue` (the members are those of the request but for `add` and `rem`), `PostDue`. At `Finish` both sets are empty. The hypothesis is needed: a member who is deleted leaves the group. Suspensions are allowed. |
| `NeverCreatedTwice` | if requests are served one at a time, `Spec => NoDuplicateCreated` | between look-up and creation nobody else takes the name (`NameFree`). |
| `PatchReducesInOrder` | for any list of operations in which only replacements follow a replacement and no id is added after an operation that removed it (`InOrder`), none refused, the reduction makes of the members what the operations in order do | the last replacement exists (`LatestExists`, by the well-founded order of the numbers); after it nothing counts. Without one, each user is given or taken by the last operation that names the user. `AnswersAreTrue` rests on it. |
| `MapOneToOne` | `MSpec => []AlwaysOneToOne` | inductive as it stands. |
| `StoreAlwaysOneToOne` | `Spec` of ExtIdStore implies `[]AlwaysOneToOne` | by the two: what the abstract mapping promises holds of the store that implements it. |
| `StoreInvariant`, `StoreOneToOne`, `StoreNeverTorn` | 1:1 maps and files, no torn file | `StoreInv` adds `SaveDiscipline`: the lock is held exactly by the one saver, its temp file holds what is in memory, and is synced before the rename. |
| `StoreImplementsMap` | `Spec => ImplementsMap` | the refinement mapping is `byID` while up and the file's content while down; `Set` maps to `Assign`, `Delete` to `Drop`, `RenameTemp` to `Save`, `Flush` to `Commit`, `Kill` and `PowerLoss` to `Restart`, the rest stutters. |
| `MemorySaved`, `OkMeansSaved` | `SSpec => []MemoryIsSaved`, `SSpec => OkUnlessStale` | `MemoryIsSaved` with `StoreInv`: a caller that takes the early return finds memory and file alike unless `stale`. The exception is needed: run `StoreRetry`. |
| `UsersWellFormed` | `Spec => []UserInv` | steps are made of replies and store calls; each keeps `Frame`, `OnTrack` and the 1:1 map. `OnTrack` holds that an entry is about to be forgotten only if its account is deleted, and deleted accounts stay so. |
| `EntriesKept` | if no save fails, `Spec => LiveEntriesKept` | `UserInv`, and file and memory agree, so that a restart changes nothing. With failed saves a restart may bring back an older mapping, so the hypothesis is needed. |
| `AccountIsDue`, `UserAnswersAreTrue` | if requests are served one at a time, `Spec => []AccountDue`, `Spec => UserAnswerHolds` | `AccountDue` is inductive with `UserInv`: `SeenDue` (what was reported of the account is still so), `NameDue`, `StateDue` (name and state are written by the step that follows), `EntryDue` (the externalId is in the mapping until the answer is given). They hold up to `Represent`, so the answer is true. Every failure is allowed, kills and deletions in Outline between any two steps too: of an account that is gone nothing is due. |
| `GoneUnresolvedAlone` | if requests are served one at a time, no reply is lost, nothing is killed and nobody deletes in Outline, `Spec => []GoneUnresolved` | `GoneForgotten`: a deleted account's entry is gone or its handler is at `Forget`; `WorkedOnLive`: only accounts that are there are given entries. So the violation `UsersGone` takes an overlap. |
| `HeldInvariant`, `AnswersSeen` | `HSpec => []HeldInv`, `HSpec => EachHeld` | `Seen` says what a handler may rely on at each `pc`: past its last reply about the name the name has been seen, and `cur.suspended` is what the state was at some moment of the request; past `StoreExternalId` the externalId has been in the mapping. `held` only grows, and only `Represent` answers such a request 2xx (`SuccessAnswers`). |
| `CallsBounded` | `Spec => []CallInv` | `Progress` ties where the loop is to what Outline has done: before every attempt nothing is on its way and the call has not been carried out, since only a 429 leads there. `TimeBound` counts the time of an attempt with its delay. |
| `CallIsCarriedOutOnce` | `Spec => CallIsOnce` | by `Progress` each step is a step of `OneCall` or a stutter: `Begin` is `Start`, `Serve` is `CarryOut`, `Accept`, `GiveUp` and `Break` are `Tell`. |
| `ListingInvariant`, `ListingMissesNothing`, `ListingRepeatsNothing`, `ListingExact` | `Spec` implies `PagerInv`, `NothingMissed`, `NothingTwice`, `ExactAtRest` | `NoneSkipped`: what was there at first has been read, is on the page just served, or lies beyond the offset, and an insertion moves it only further. `NoneAgain`: what was read lies before the offset, and a removal moves it only nearer. `FromTheStart`: on a list at rest `all` is a prefix of it. |

"Served one at a time" is `Serial`: there is one handler at most. It is a hypothesis of
theorems and not an assumption of a module; the invariants above it hold for any number
of handlers. It is what the documents promise at most: overlapping requests may undo
each other's effects (section 3).

Only model-checked: `Responds` and `CallReturns`, which are liveness properties, and the
four violations, which are counterexamples. That `MembersWanted` and `Edit` are what the
loops of `applyGroupMemberPatch` compute is read off the code: the models state the
result of its loops, not the loops.

## 5. What the checks found

- **Roles go stale without any failure** (`GroupsRace`). Two overlapping requests
  about one user: the first derives its role, the second changes the groups and
  writes the new role, the first writes the old one. Both answer 2xx; nothing
  corrects it until the next membership change. README.md:21-23. The same goes
  for a user who joins a group that is being deleted (`Uncaptured`).
- **A retried PUT does not repair roles** (`GroupsRetry`). The run creates its groups
  empty, so members come from PUTs only. A PUT adds a user and is answered 502 when
  the recomputation's first call is refused; the same PUT, sent again, sees the
  membership as desired, recomputes nobody and is answered 200. The user's role was
  not recomputed after the membership change, which README.md:22-23 promises.
- **A retried Set reports success without saving** (`StoreRetry`). `store.go:73-74`.
- **A deleted account gets an entry** (`UsersGone`), when a PUT overlaps a hard
  delete; a filter query heals it later. `users.go:295-296`.

The theorems give the exact scope. Roles: outside the five causes of `RolesAccounted` the
promise holds, and two of them take requests that overlap (`RolesMatchWhenCalm`). Store:
`OkMeansSaved` up to the first failed save and from the next one on. Deleted accounts:
without an overlap the entry goes (`GoneUnresolvedAlone`).

Two things the models show that no document of the repository speaks of. A PATCH
that removes a user and then adds the user again ends without the user, and one that
replaces the members and then adds one ends without that one: adds come before
removes, and a replacement makes the rest void (`patch.go:110-112`). `AnswerHolds`
claims the reduction for the other lists, `InOrder`. And while entries are removed
from a list, a listing may skip others: `recomputeRole` would then derive a role from
some of the groups of a user (`NothingMissed` holds only with `shrunk = 0`). A page has
100 entries, and a user is hardly in more groups.

## 6. Not modelled

- *Listings and look-ups without effect*: GET handlers but for the healing look-up,
  paging parameters, JSON representation, routes, the token comparison, environment
  parsing. They keep no state; their calls are those of `OffsetPager`.
- *Text*: of filters (`filter.go`), bodies and names. Requests are records of the
  fields handlers branch on. An attribute that a PATCH sets to "" is left out.
- *HTTP below `Do`*: redirects, connection reuse, and a request that `net/http` repeats
  on a connection that was closed before it was written.
- *Late effects in the handlers*: `OneCall` lets Outline carry a call out after its
  caller was told of an error. `Call` of ScimGroups and ScimUsers has the effect before the
  error or not at all. In RoleDrift a later effect would be a sixth cause of a wrong
  role.
- *A listing as several calls in the handlers*: a read of a list is one step there, which
  `ExactAtRest` justifies for a list that rests.
- *Users and groups over one Outline*: in ScimUsers roles and groups are left out, and
  ScimGroups sees the user handlers as `AccountEvent`. What the two share is the state of
  an account, which `AccountEvent` changes at any moment, more freely than the
  handlers could; a module with both would have the product of the two state spaces
  and no property of its own.
- *A shutdown that is in time*: new connections are refused and the handlers end as
  they would otherwise. One that is not is `Exit`.

## 7. Plan

Done: handlers, roles, store, users, PATCH reduction, client and paging, with the
proofs of section 4, which state every safety property the runs check. Left:

1. A pager inside `FetchGroups`, so that a group skipped while another is left is a
   named cause of drift.
2. Late effects of a call in `RoleDrift`.
3. Proofs: `RolesMatchWhenCalm` for requests that overlap but concern different users and
   groups; `UserAnswerHolds` for overlapping requests about different accounts and
   externalIds.

A store call of `ScimUsers` is not stated as a step of `ExtIdMap`: there it is two steps,
`Assign` and `Save`, with nothing of a handler in between, and one here.
