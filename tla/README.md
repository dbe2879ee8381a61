# brows3r in TLA+

brows3r is a desktop S3 browser: a Rust backend (`src-tauri/src`, Tauri
commands on a multi-threaded tokio runtime) and a React frontend (`src`) that
talk through commands and events. This directory models the parts of both that
are concurrent, stateful, or driven by answers that come late: in the backend,
tasks that interleave over locks, semaphores, tables and S3; in the frontend, one
thread whose handlers interleave at every `await`, with answers, events, timers
and effects in any order.

## 1. The system

Backend:

| Part | State it keeps | Operations | Talks to | Hard because |
|---|---|---|---|---|
| Lock registry (`locks/`) | live locks: scope, operation, last heartbeat, TTL | acquire, heartbeat, release, release_stale (loop), startup_cleanup | taken by transfers and object mutations; events to the frontend lock store | overlap of mixed scopes; locks that lapse under a running operation |
| Transfer queue (`transfers/`, `commands/transfers_cmd.rs`) | transfer records, cancel tokens, the semaphore | enqueue, cancel, retry, list, rebuild_semaphore; one task per transfer | lock registry, S3, multipart table, events, notification log | tasks of several semaphores, cancellation races, many early returns |
| Multipart bookkeeping (`s3/multipart.rs`, `transfers/upload.rs`) | redb table keyed by object; uploads at S3 | create, record, parts, complete, abort, scan, abort from the panel | S3, redb | crash between two writes, records keyed by object and not by upload |
| Object mutations (`commands/objects_cmd.rs`, `s3/object.rs`) | none of their own | copy, move, delete, create folder, metadata, tags, storage class, put text | locks, client pool, confirmation tokens, cache, events | two locks per operation, failure between locks and release |
| Listing cache (`cache/store.rs`) | memory map, redb table | get, put, invalidate, invalidate_profile, clear_all | listings fill it, mutations invalidate it, validation gates it | two layers written one after the other |
| Diff store, confirmations, profiles, client pool, settings, search, media tokens, notification log, bookmarks, capability cache | maps behind a mutex, some with a file | see section 6 | each other, S3, files | single use, expiry, failed saves |

Frontend:

| Part | State it keeps | Operations | Talks to | Hard because |
|---|---|---|---|---|
| Query cache and optimistic updates (`query/`, `commands/definitions/file.ts`) | fetched listings | fetch, optimistic patch, roll-back, invalidation by event | commands and events | a patch, a fetch and an event for one listing in any order |
| Panes and views (`store/panes.ts`, `views/modes/`, `lib/selection.ts`) | location, mode, filter, selection of each pane; each view's own copies | navigate, select, sort, filter, split, switch modes | preview, commands, history | two copies of the selection kept equal by effects |
| History (`store/history.ts`) | two stacks per pane | track, back, forward | subscribes to the panes it also moves | it sees its own moves |
| Filter and search (`useFilteredEntries.ts`, `SearchBox.tsx`) | worker, debounce timer; running search and its listener | filter, search, cancel | a worker; the backend's walk | answers to a question that has changed |
| Preview (`views/preview/`) | the mounted viewer, its load, its token; the editor's text, ETag and flags | mount, clean up, load, save, resolve a conflict | object and media commands | load, save and selection overtake each other |
| Accounts (`store/validation.ts`, `views/settings/ProfileEditor.tsx`) | status per profile, cached list and detail, the form | validate on five occasions, edit, save, delete | profile commands | five occasions to validate, one status, one cached list |
| Commands and settings (`commands/`, `store/settings.ts`, `views/settings/`) | the registry, the palette, the settings and each panel's copy | dispatch, match, patch, reset, roll back | everything | the order of registration; copies of copies |
| Transfers (`store/transfers.ts`, `views/transfers/`) | rows, the panel | seed, apply events, clear, bulk download | transfer commands and events | an event may come before the answer that names its transfer |
| Locks and notices (`store/locks.ts`, `views/menus/`, `store/notifications.ts`, `lib/errors.ts`) | mirror of the lock events; notices, toasts, what was seen | apply, disable, push, dismiss, present | backend events | a store filled by events alone; two panes in one place |

What makes the parts correct:

- **Locks**: no object is owned twice; an operation is refused only because of
  an object it asks for; a lock that nobody gives back goes away.
- **Transfers**: one task per object; at most as many at work as the user
  allowed; every transfer ends, gives back its lock and permit, and its record
  and the frontend agree on how it ended.
- **Multipart uploads**: every upload that costs money at S3 is one the
  bookkeeping can find; objects are whole.
- **Mutations and cache**: one writer per object; a move loses nothing; after a
  successful mutation no listing of before it is served; locks are released on
  every way out.
- **Frontend copies**: when nothing is under way, what is shown is what the
  backend has (where the code leaves an exception, the property names it, section 4);
  nothing that arrives late lands on something it was not asked for;
  what the user typed or selected is neither lost nor applied elsewhere.

## 2. Modules

| Module | Models |
|---|---|
| `LockScopes` | scopes and `LockScope::intersects`, and what a scope covers; shared with the frontend's `LockMenu` |
| `ObjectOwnership` | abstract: one owner per object |
| `ResourceLocks` | the lock registry and the reaping loop; refines `ObjectOwnership` |
| `TransferQueue` | commands and tasks of the transfer queue; extends `ResourceLocks` |
| `MultipartUpload` | an upload in parts, its record, a crash, the cleanup panel |
| `ObjectMutations` | commands that change objects, and the listings they invalidate; extends `ResourceLocks` |
| `CacheStore` | the listing cache: memory over disk |
| `PreviewRouting`, `PreviewPane` | which viewer an object gets; the pane, its viewers, their loads and tokens |
| `EditorPreview` | the text editor with conditional saves, and others who write |
| `Listings`, `OptimisticListing` | what a folder contains; one listing in the query cache with optimistic commands |
| `PaneSelection`, `FolderTrails` | panes with the list views; the tree and the columns |
| `BrowserHistory`, `NavigationHistory` | abstract: a trail with a position; the tracker, two stacks per pane, and all that navigates |
| `FilteredEntries`, `SearchBox` | the debounced filter with its worker; the search overlay |
| `ProfileValidation`, `ProfileEditor` | who validates, the gate and the red dot; the form of a profile |
| `Shortcuts`, `SettingsPanels` | the command registry, keystrokes, the palette; the settings store and its panels |
| `TransferView`, `BulkDownload` | rows, panel and activity center; the dialog of a bulk download |
| `LockMenu`, `Notices` | the store of locks and the menus it disables; notices, toasts and the two panes |
| `ResourceLocksProofs`, `TransferQueueProofs`, `ObjectMutationsProofs` | proofs about the module they are named for |
| `PersistedProofs` | proofs about `MultipartUpload` and `CacheStore` |
| `PreviewProofs` | proofs about `PreviewPane` and `EditorPreview` |
| `BrowsingProofs` | proofs about `NavigationHistory`, `FilteredEntries`, `SearchBox`, `FolderTrails`, `PaneSelection` and `OptimisticListing` |
| `AccountProofs` | proofs about `ProfileValidation`, `ProfileEditor`, `SettingsPanels`, `Shortcuts`, and the parts of `MCWorkspace` side by side |
| `TransfersUiProofs` | proofs about `TransferView`, `BulkDownload`, `LockMenu` and `Notices` |
| `MC*` | instances for TLC |

A composition shares the registry's variables and uses its actions, so an
`Acquire` of a transfer or of a mutation is the registry's own, with its guard.

### Backend

**ResourceLocks.** Every call of the registry runs under one mutex, so it is one
action; a call that fails changes nothing and is no action. A lock carries the age
of its last heartbeat instead of a time stamp; `Tick` lets time pass and ages stop
counting once the lock is stale, which is all the code ever asks about them.
`Acquire` takes a `lag`, because callers read the clock before the call, and
some of them much earlier. Keys and prefixes are sequences of chunks, and
`starts_with` is `IsPrefix`. S3 accepts every string as a key, so every prefix
that is locked is the prefix of some key (`InhabitedAssumption`); without it a
lock could cover nothing and a refusal have no reason.

**TransferQueue.** `task` holds for each spawned task where it stands, the
semaphore it cloned when it was enqueued and the result it carries back to its
wrapper. The steps of a task are the stretches of code between two accesses to
shared state: `TakePermit`, `Begin` or `LockRefused`, then for a download `SeeCancel`
and `PassLastPoll`, then `Complete` or `Fail`, `ReleaseAndNotify` and, in the
wrapper, `Finish`. Which S3 or file call fails is not distinguished: `Fail` can
happen anywhere between taking the lock and the end of the work. `told` is what the
frontend and the notification log were last sent. The lock of transfer `t` is
named `t`, since a transfer takes at most one.

**MultipartUpload.** One bucket. `work` is where `multipart_upload` stands, `part`
the state of the part tasks it spawned, `s3` what S3 has of each upload and `table`
the redb table, which has one record per key. A request may fail before or after it
took effect (`CreateFails`, `PartFails`, `CompleteFails`, `PanelAbort`). After a
failed part the function goes on to the abort while later part tasks still run;
after a failed completion it spawns the abort and returns (`DetachedAbort`). The
cleanup panel is two reads with a gap (`ScanList`, `ScanClassify`), an abort of a
row that may be stale by then, and the removal of a record by its key. `Crash`
keeps `s3` and `table` and nothing else. The lock of a key is what `ObjectOwnership`
promises, an owner, which `Lapse` takes away when `MayOutlast` is set.
`enqueue_upload` never sets the cancel flag that `multipart_upload` polls, so those
branches are not taken.

**ObjectMutations.** `ops` holds each command under way: the job, its stage, the
locks it holds and what it still has to do. Keys are sequences of path components,
so `parent_prefix` is `Front`. `Wanted` gives the scopes that each command locks in
turn: the folders of source and destination for copy and move, the folder itself
for a new folder, the one key for metadata, tags and text, all parent folders in
the order of the `BTreeSet` for a batch. Between locks and S3 there are two ways out
that the code takes without giving locks back: the lookup of a lock that was
released meanwhile (`Announce` ends in a panic) and a profile the client pool does
not know (`PoolMiss`). Each request may take effect and still fail. `GiveBack`
returns the locks one by one and `Invalidate` drops the hierarchical listing of one
affected prefix at a time, on success only. `List` is the cache miss or forced
refresh of `objects_list` and `objects_list_flat`, `StoreListing` the answer going
into the cache; `current` remembers whether the answer was still true then. `lost`
says that some command lost a lock while it ran: exclusion is claimed only as long
as that has not happened. An object carries the operation that changed it last,
which is what tells a stale listing from a true one.

**CacheStore.** A method of the store takes the mutex of the map, gives it up, and
then opens a transaction of redb, so `call` holds what each caller has still to do.
`possible` is a history variable: what a read of a key may find. A call adds its
value; when it ends well, and no other call was under way on the key meanwhile, its
value is the only one left. So overlapping calls may leave an old value in either
layer, as the code does, and `NoOldEntry` says that nothing else can, and that one
undisturbed call repairs the key. `ObjectMutations` uses the cache at a coarser
grain, one step for each call.

### Frontend

JavaScript runs a handler to its next `await` without interruption, so an action is
such a stretch; what follows the `await` is another one, enabled at any later time,
and it sees what its closure captured, not what the state has become. A React
effect that depends on what a handler changed is part of the handler's action: it
runs, with the clean-up of the one before, prior to the next event. Requests under
way are records in a set or a bag; one that was cleaned up is marked `canceled`, as
in the code, and its answer is dropped where the code drops it. Zustand
subscriptions are part of the `set` that triggers them. The query library, which is
not under `src/`, is modelled by what these files rely on.

- **PreviewPane**: `Screen` is what the pane shows; a viewer's effect mints a
  token or loads a body, its clean-up gives the token back. A load canceled before
  its token arrived gives it back on arrival.
- **EditorPreview**: texts are `[of, rev, whole]`; `LoadOf` and `PutLands` are the part of S3
  the two commands use, with a new ETag per write; `OthersWrite` is everyone else.
- **OptimisticListing**: the cache entry is absent, one flat page or pages; the
  helpers read flat pages only, which is what `CommandsAreSent` below is about, so an
  optimistic command is sent only while its listing has not been loaded, or while what
  an earlier such command put in its place is shown. `overtaken` remembers an event that
  reached the first load after it had read the bucket.
- **PaneSelection**: `SyncEffect` is the effect by which a view writes its selection
  to the pane; effects run in the order of the tree.
- **FolderTrails**: `childMap` and `columnPath` are the copies the tree and the columns
  keep beside the listings; `early` remembers which entries of the path a key entered
  while their column was loading.
- **NavigationHistory**: the tracker's `last` and two stacks per pane, the split,
  bookmarks, recent places and the breadcrumb's segments.
- **SearchBox**: each keystroke is a call with an `await` for the listener and one for
  the command; calls share two references. A change of the search mode empties the
  results and lets the call go on.
- **ProfileValidation**: five callers validate: views, the retry of a query refused for its
  credentials, the timer, the menu of the sidebar and the button of the profile's form.
  The first three write the status and read the list again, the menu only reads the
  list again, the form does neither.
- **Shortcuts**: the registry in the order in which the modules fill it, each with its
  shipped shortcut if it has one; the first in that order that matches answers. The palette
  lists what matches by score, then in that order.
- **SettingsPanels**: `update` patches first; the answer replaces the store; a refusal
  restores the snapshot; the load reads and answers in two steps. Panels are filled when
  mounted, and neither they nor Reset wait for a save under way. `belated` remembers which
  answers bring a copy of before another save, `astray` whether the last one was such.
- **TransferView**: a bus of events per kind of channel and the answers of the
  commands, which may overtake each other. A row whose answer came after an event of its
  transfer is `late`; while it stands as queued it is `Overtaken`.
- **LockMenu**: the operations announce or not, as in the backend; the store starts
  empty and knows only what events tell it. A list that threw on a lock stays in its
  error boundary until Try again.

## 3. Runs

| Run | Instance | Shows |
|---|---|---|
| `locks` | 2 locks, 2 buckets, 3 keys, 2 nested prefixes, TTL 1 | type, exclusion, justified refusals, refinement of `ObjectOwnership`; a lock that nobody gives back expires |
| `queue` | 3 transfers, 2 keys, 1 permit, 1 change of concurrency, no lock lapses | one task per key, permits |
| `queue_live` | 2 transfers, 2 keys, 1 permit, 1 change, locks may lapse | locks given back, record, event and notice left as each way out leaves them, no outcome taken back; every transfer ends; a cancel in time stops a download |
| `multipart` | 2 uploads of 1 key, 3 parts with 2 in flight, 1 crash | whole objects, work on record; every upload ends and gives its lock back |
| `persisted` | 2 uploads of 1 key and one of another tool, locks that lapse, 1 crash, 1 abort from the panel; or 3 callers of a cache of 2 keys and 2 values with room for 1 | uploads of other tools aborted only after asking; no layer has an entry older than the last undisturbed call |
| `mutations` | 2 of 7 operations, 2 folders and 1 nested, 1 listing under way, chunks of 1 key | exclusion and moves that lose nothing, locks given back, batches that do not refuse each other, a cache that follows |
| `workspace` | each of 12 frontend components, see below | the preview shows what is selected and returns its tokens; listings, trees, filters, gate and settings are true when quiet, but for the exceptions each property names; no text is overwritten unseen; only the active pane is written; the history is a trail; a search's spinner can stop; what is typed into a form is kept |
| `transfers_ui` | 2 transfers, 3 bulk downloads, 3 operations with locks, 3 stamps of the clock | rows are never ahead of the backend, and agree with it at rest unless an answer came late; no command waits for a dialog that is gone; the lock store holds the announced locks that are held; unseen notices are counted |
| `queue_expiry`, `queue_untold`, `editor_roundtrip`, `stale_selection` | least instances | counterexamples, section 4 |

`workspace`, `transfers_ui` and `persisted` run components that share no state.
A behaviour picks one of them (`part`) and runs it while the others stay as they
start, so that the state spaces add up instead of multiplying; each property is
thereby checked over every behaviour of its component. `VIEW Moving` identifies
states by the component that runs, which decides all that can follow. Symmetry is
used between keys of the editor, transfers, operations and uploads only where no
definition or liveness property tells them apart.

Bounds. Locks, transfers and commands interact in pairs: a conflict needs two. In
`queue` a third is the bystander, the retry of one of the two, or a waiter behind
a holder. A key inside both prefixes, one inside the outer prefix and one outside
both distinguish every arm of `intersects`. TTL 1 has a fresh, an old and a stale
lock. One change of concurrency makes tasks of two semaphores run side by side.
Three parts with two in flight are the least for which the spawning loop waits,
one part fails while another is on its way, and a third has not started. One
crash between any two steps is enough, as nothing but `s3` and `table` survives
it, and the second upload plays the session after it. The jobs of `mutations` are
a copy and a move in opposite directions, a move along with the copy, a new folder
and a key inside a folder that the others touch, and two batches over the same
folders in both orders of their keys; with chunks of one key every batch has two
requests. In the cache two calls can overlap on one key while a third evicts it or
reads it; calls are not bounded in number.

In the frontend a race needs a request that is out, another one that overtakes it,
and a user who has moved on in between; so there are two requests of each kind
(`MaxLoads`, `MaxReqs`, `MaxProbes`, `MaxUpdates`, two commands `Op`), three calls of
the search (one that replaces, one that cancels) and three objects of three
viewers, one of them large. `MaxEvents`, `MaxColumns`, `MaxTrailEvents`, `MaxVisits`, `MaxRenders`,
`MaxCalls`, `MaxPages`, `MaxForms`, `MaxRev`, `MaxFiles`, `MaxBus`, `MaxLockBus` and
`MaxClock` bound what the user does and what is under way; four visits are enough to
go, go back, go elsewhere and come back. `LockId`, `TransferId`, `Ours`, `Foreign` and
`Op` bound how many locks, transfers, uploads and commands there ever are;
`MaxRebuilds`, `MaxCrashes` and `MaxAborts` how often the concurrency changes, the app
dies, and the panel aborts.

One constant leaves a behaviour out of a passing run because the code is wrong there:
`MediaFails` (a playing element fails); `Long` is empty there for the same reason
(a text of more than a megabyte). Section 4 says what happens with them.

Deadlock is not checked: the system may stop when everything that was asked for
has ended and nobody asks for more, which is a state of rest.

Fairness. A task that can go on is polled by the runtime, and a request is
answered or times out (weak fairness of the steps of a transfer, of an upload and
of its part tasks). tokio's semaphore is first come, first served, so a task for
which permits keep becoming free gets one (strong fairness of `TakePermit`). Time
passes and the reaping loop never ends (weak fairness of `Tick` and
`ReleaseStale`, in `locks` only). In `transfers_ui` the backend goes on with what it
has begun and the web view delivers events and answers (weak fairness each). Users
owe nothing: no command is fair, nor are other tools.

## 4. Where the code and its documentation differ

With a counterexample in a run:

- `queue_expiry`: nothing calls `heartbeat`, so a transfer that outlasts the TTL
  loses its lock and another works on the same key (`docs/concepts/cache.md:75`).
  `queue` shows exclusion for transfers that do not outlast their locks.
- `editor_roundtrip`: the editor loads the first megabyte of an object and saves it
  over the whole.
- `queue_untold` (`EveryEndIsTold`): a transfer whose lock is refused is recorded as
  failed by its wrapper, which sends nothing, so the frontend was last told that it is
  queued. (One that is canceled is told so and recorded as failed.)
  `transfers/progress.rs:9` says that every transition reaches the frontend.
  `EndsAreTold` of `queue_live` says what each way out does leave.
- `stale_selection`: the selection of a pane outlives the listing it was made in, and
  Delete acts on it.

With a counterexample in a configuration kept beside the runs:

- `MCMultipartUploadForget.cfg`: an abort from the panel removes the record of the
  key, which may be that of a newer upload under way (`s3/multipart.rs:388`).
- `MCObjectMutationsRename.cfg` (`NotInItsOwnWay`): copy and move lock two folders one
  after the other, so within one folder, or between a folder and one inside it,
  they are always refused (`docs/guide/operations.md:58`).
- `MCObjectMutationsFlat.cfg` (`FlatListingsFollow`): the flat listing of a prefix is
  not invalidated (`docs/concepts/cache.md:95`).

Stated in the modules and violated by the code (add the name to the properties of
`MCWorkspace.cfg` or `MCTransfersUi.cfg`, with the constants given here, to see the
behaviour; `TerminalIsFinal` in place of the invariant of `MCTransferQueueExpiry.cfg`):

| Property | What happens |
|---|---|
| `KeystrokeRunsItsCommand` | two commands under one keystroke; the one registered first runs, so Refresh by Cmd/Ctrl+R does nothing and Cmd/Ctrl+Shift+N opens the notices or a new folder, never both (`useGlobalShortcuts.ts:24`) |
| `TerminalIsFinal` | a canceled download ends as failed (`transfers/mod.rs:7`) |
| `CommandsAreSent` | the optimistic helpers expect a flat page where `useObjects` keeps pages; they throw, and a delete, rename or new folder is never sent while its listing is loaded |
| `ConfirmedWasListed` | a canceled bulk download goes on counting into the dialog of the next one, and enables its Confirm |
| `PanelStaysClosed` | every transfer that starts running opens the panel, not the first only |
| `LockedItemsAreDisabled` | the payload of `lock:acquired` has a `scope`, the store reads a `resource`; comparing the missing path throws, so any announced lock puts the mounted lists into their error boundary, and the menu (`ContextMenu.tsx:7`) disables nothing |
| `RowsAreOfThisListing` | after navigation the rows of the old listing show until the worker answers (`useFilteredEntries.ts:53`) |
| `HitsAreOfTheText`, `StoppedIsStopped`, `NoListenerStays` | searches that overlap share two references: hits of an older text, a walk that Cancel does not reach, a listener that stays (`SearchBox.tsx:15`) |
| `ValidatingIsInFlight` | switching the periodic refresh off while it probes leaves the spinner turning, and the profile is never probed again by a view (`validation.ts:28`) |
| `ValidIsNotRed` | the menu validates without setting the status: a red dot stays on a valid profile |
| `OnlyTypedIsSaved` | a form filled before the detail was fresh saves the old flags over the new |
| `EveryLocationExists` | the breadcrumb of a key with an empty segment leads to a folder that does not exist |
| `CleanMeansStored` | what is typed while a save is under way counts as saved (`Hasty`); an answer for one object reaches the editor of the next (`HeadKept`) |
| `ResetRestoresDefaults` | Reset all patches the known keys and cannot remove others (`store/settings.ts:79`) |
| `ShownIsSelected`, `TokensReturned` with `MediaFails = TRUE` | the retry of a failed player cannot be canceled: its token is lost, or its element shows up for another object |

Exceptions that a passing property names, because the code leaves them. Nothing is
excluded from the behaviours; the property says what remains true in each case:

| Property | Exception | What happens |
|---|---|---|
| `EndsAreTold` | `LastTold` of `locked` and `cancelled` | see `queue_untold` |
| `QuietStoreIsSaved` | `astray` | of two settings updates, the answer to the first undoes the second in the store, or a refusal puts back what was shown while the other was under way |
| `QuietListingIsTrue` | a refused command while the entry is flat | there is no snapshot of a listing never loaded, and setting `undefined` changes nothing, so a refused folder stays (`query/optimistic.ts:140`) |
| `QuietListingIsTrue` | `overtaken` | an event that reaches the first load after it read the bucket invalidates nothing |
| `TreeIsTrue` | `LeftOver` | children of a folder that became empty stay in the tree (`TreeView.tsx:266`) |
| `ColumnsDescend` | `early` | a key pressed while a column loads acts on the rows of the column before (`panes.ts:41`) |
| `GateIsTrue` | `LeftShut` | Validate credentials in the profile's form leaves the list as it was read, so the gate stays shut for a profile that is valid (`ProfileEditor.tsx:348`) |
| `RowsAgree`, `RowsSettle` | `Overtaken` | a row seeded after an event of its transfer stands as queued until the next event, if there is one (`store/transfers.ts:230`, `:314`) |
| `QuietStoreMirrorsLocks` | locks that are not announced; the lists | transfers announce no lock; a list that threw stays in its error boundary after the release |
| `LocksReturned` | a pool miss, a panic | the command ends without giving its locks back (`objects_cmd.rs:437`) |
| `ListingsFollow` | a command that failed | a move whose deletion failed, or a batch of which a chunk failed, invalidates nothing |
| `ExclusiveWork`, `MutationsExclude`, `TracesAreKept` | locks that lapse | see `queue_expiry` |

Three properties that hold but are no part of the runs, to keep them short:
`EnterRunsAMatch`, `DualViewIsStable`, `HistoryKnowsWhereItIs` (proved, section 5).

Seen while modelling, part of the models or of code left out:

- Transfers: the frontend offers the retry of a failed transfer
  while its lock is still held, and such a retry is refused (`download.rs:485`).
  Canceling an upload does nothing (`transfers_cmd.rs:219`). Two downloads to one path
  share one partial file (`download.rs:166`).
- Multipart: `multipart_upload` returns without an abort when the record cannot be
  written or the file cannot be read (`upload.rs:441`), and `abort_multipart` removes
  the record even if the abort failed.
- Mutations: `object_copy` and the other commands return early between taking their
  locks and giving them back (`objects_cmd.rs:341` says otherwise). An answer that S3
  gave before a mutation can be stored after it invalidated the listing
  (`objects_cmd.rs:168`); a move whose deletion failed, and a batch of which a chunk
  failed, invalidate nothing. `LocksReturned` and `ListingsFollow` say what is left.
- Backend parts without a module: a canceled diff overwrites any status
  (`diff/mod.rs:242`); a client built with the old proxy can be put into the pool after
  it was cleared (`s3/client.rs:443`); a profile is marked valid although it changed
  during the probe (`profiles_cmd.rs:209`); profile memory, keychain and file are
  written one after the other (`profiles/mod.rs:529`); `settings_update` applies after
  it gave up its mutex (`settings_cmd.rs`); the end of a search removes the token of a
  newer one with its id (`search_cmd.rs:222`).
- Frontend: the octet-stream type counts as editable; `InlineErrorSlot` has no user,
  so validation errors of commands vanish; several items of the context menu emit
  events nobody listens to; `DiffPreviewModal` has no caller; a save of one profile
  closes the editor of another; an emptied region cannot be saved; bookmarks whose
  profile is not in the list at the moment are removed; the shortcuts panel always
  refuses to save because the shipped table has a conflict; a detail that arrives after
  the user began to type overwrites what was typed (`ProfileEditor.tsx:238`; `TypedIsKept`
  is about the time after that).

## 5. Proofs
Proved for every value of the constants: any number of locks, transfers, commands,
callers and requests, any keys and prefixes, any concurrency.

- **`ResourceLocksProofs`.** `OverlapIntersects` and `IntersectsOverlaps`: `intersects`
  is true of two scopes exactly when some object is covered by both, by cases on which
  of the two name a key, a prefix or neither. The lemma behind it is that two prefixes
  of one key are comparable (`PrefixesOfOneKey`); the converse needs that every prefix
  has a key (`InhabitedAssumption`). `RegistryExcludes` is inductive as it stands:
  only `Acquire` can break it, and its guard with `OverlapIntersects` says that it does
  not. `RefusalsJustified` is `IntersectsOverlaps` in every state.
  `RegistryImplementsOwnership` maps a lock to the owner of all it covers, and every
  step to a claim, a release or a stutter.
- **`TransferQueueProofs`.** `QueueInv` adds to the types what each task is
  known to have by its stage: what its record, its result and its last message say
  (`TaskFits`), that a lock in the registry belongs to a task that works or is about
  to give it back (`LockFits`), that the tasks that hold a permit of a semaphore
  are no more than it has (`PermitsFit`; semaphores are counted with
  `FiniteSetTheorems`), and that without overtime every such task has its lock
  (`LockLasts`). From it follow `PermitsAreBounded`, `LocksComeBack`,
  `EndsAreAlwaysTold` (each way out leaves its own record, event and notice, and they
  stay so), `WorkIsExclusive` for transfers that do not outlast their locks,
  and `NothingIsTakenBack`, an action property: a step changes what was told of an
  end only in the ways the code does.
- **The users of the registry.** `QueueImplementsRegistry` and
  `MutationsImplementRegistry` show that the transfer queue and the commands refine the
  registry's own specification: of each of their steps, however many tasks are under way,
  that it acquires, refuses, releases or sweeps as the registry does, or leaves the locks
  as they are. A command that takes several locks takes them in steps, each of which is
  one of the registry's (`OpStepIsRegistryStep`). With `RegistryImplementsOwnership` they
  refine ownership (`TransfersOwnTheirObjects`, `CommandsOwnTheirObjects`): what is held at
  any moment are disjoint sets of objects, claimed and given up whole.
- **`PersistedProofs`, the uploads.** `ObjectsAreWhole`: in `MultipartInv` a part whose task
  succeeded is stored as long as the upload is open (`TasksFit`), and a task completes
  an upload only after it has collected every part, so nothing short of all parts is
  ever completed, with the panel open, locks that lapse, other tools and crashes.
  `ForeignAreAskedFirst` adds that an upload of another tool is never recorded, so no
  scan shows it as one of ours (`RowsAreRight`). `TracesKept` is for locks that last and
  a closed panel: whoever works owns the key (`Traced`), so nobody else records or
  removes under it.
- **`ObjectMutationsProofs`.** `MutationInv` says of a command, until its outcome is
  known, that it has the locks it has taken, in order, each on the scope it asked for
  (`Shape`, `Owns`), as long as no lock has lapsed; of a lock, that its command will
  give it back or has ended in one of the two ways that lose it (`LockFits`); and of a
  move between its halves, that both objects are as it left them (`MoveFits`). At S3
  a command has locks over every key it touches (`WantedCovers`), the registry
  excludes two locks on one key, so two commands at S3 touch different keys
  (`TouchesDiffer`). `MutationsExcluded` and `LocksAreReturned` follow.
  `ListingsAlwaysFollow`: whatever a command changes is in what it is going to
  invalidate, or the command fails (`Marks`), so where an entry of the cache is wrong the
  last change is one whose command has yet to reach that folder, or failed (`EntryFits`).
  `BatchesTakeTurns`: `Sorted` is shown to be rising and complete by counting how
  many of the prefixes come before each (`SortedIsSorted`). Whoever a batch is refused for has a
  folder `a` near the one it wanted; what the batch still holds comes before that and is
  apart from `a`; and behind `a` nothing is near it, by the order of strings
  (`Barred`, `NoWayBack`), so the blocker is not refused because of it, even if locks
  lapse in between.
- **`PersistedProofs`, the cache.** `CacheServesNothingOld`: neither layer has an entry that is not
  possible. `CacheInv` adds that what a caller is about to move into a layer is possible
  (`MovesPossible`) and that a clean call is the only one on its key and keeps what
  it wrote (`CleanIsAlone`, `CleanIsKept`).
- **`PreviewProofs`, the pane.** `PaneShowsSelected` and `TokensComeBack`, for playing
  elements that do not fail (with `MediaFails` both are violated, section 4). Of all
  loads under way at most one is live, and it is the mounted viewer's, which has
  nothing to show and no token yet (`LoadsFit`); every render cancels it.
- **`PreviewProofs`, the editor.** `NothingIsOverwrittenBlindly`, an action property. `EditorInv`
  says that an ETag stands for one text: what the editor and each save under
  way remember of a text goes with the ETag they hold, so a conditional save that S3
  accepts replaces the text its editor had seen; an unconditional one was preceded by
  the banner.
- **`BrowsingProofs`, the history.** `HistoriesAreTrails`: every behaviour of a pane's two
  stacks is one of `BrowserHistory`. Moving the place from one stack to the other
  leaves the trail as it is (`AcrossThePlace`, algebra of sequences), and what the
  tracker does is a visit (`TrackedIsAStep`). It needs `HistoryFits`: the tracker sees a
  pane elsewhere only when it was sent to a place, because what it has seen last is
  where the pane is, which is `HistoryKnowsThePlace`.

- **`BrowsingProofs`, filter and search.** `FilterAlwaysSettles`: while the worker is
  needed, the last request is for what is listed and typed now, and it is with the
  timer, with the worker, or answered (`FilterInv`); request numbers only grow, so an
  answer that is taken is the last one's. `SpinnerAlwaysCanStop`: while the spinner
  turns, the search it turns for is the one the box refers to; its call is about to
  listen, or it listens and the walk or its last page is on its way (`SpinnerFits`).
- **`BrowsingProofs`, tree and columns.** `TrailsStayTrue`, with the two exceptions of
  section 4 in the property. A branch that is loaded is what its folder holds, and
  `childMap` follows it except where it has become empty (`TreeInv`); the path of the
  columns goes down from folder to folder except where a key entered a column too early,
  and a column that has loaded shows entries of the folder it is for (`ColumnsFit`). That
  a set of entries can be listed in order at all is `ListedIsAListing`, by counting the entries below each.
- **`BrowsingProofs`, panes and listings.** `InactivePanesStay`, an action property: the
  effects of the views write to the pane that is active after the step
  (`EffectsWriteToOne`), and navigation moves that one. `QuietListingFollows`, with
  commands of every kind: what an optimistic command that was sent would put back are
  never pages (`SnapshotsAreFlat`), a fresh flat entry is there for a command whose event
  or refusal is to come, or that was refused (`FlatIsOwed`), an event is of a command that took effect
  (`EventsAreOfOps`), and what is fresh or was read is what the bucket has unless an
  event is to come (`ReadingsAreTrue`).
- **`AccountProofs`.** `GateTellsTheTruth`: list and backend differ about a profile only
  while a reading of the list, or an answer that will ask for one, is under way, or after
  a probe of the form (`Explains`, `DifferencesAreOwed`), and the timer asks for validated
  profiles only, so its answers, after which nothing is read, open no gate
  (`TimersOpenNothing`). `TypedStays`, an
  action property: seeding leaves a form that was seeded as it is. `QuietStoreFollows`,
  however saves, resets, the load and refusals overlap: what an answer that is not belated
  would put in place or put back is what is saved (`UpdatesFit`), and a save makes every
  other answer under way belated, so the store strays only by one of those (`StoreInv`).
  `EnterRunsWhatMatches`: the palette lists each command that matches once, because ranks
  tell the matches apart and so, being as many as the places of the list, fill it
  (`FilteredIsAList`); moving goes round within the list, and every change of the query
  starts at its first row (`PaletteFits`).
- **`TransfersUiProofs`.** `RowsFollowTheBackend`: what a row does not know yet is in an
  event or an answer under way, and the last event of a transfer tells the state it is in
  (`BusFits`, `AnswersFit`, `RowsFit`), unless a late answer has put the row back.
  `StoreMirrorsLocks`: the same for the locks that are announced, whose last event tells
  whether the operation holds its lock. `BulkNobodyWaits`: a command is
  undecided only while it is the one shown, because who takes the dialog decides the one
  before. `NoNoticePassesForSeen`: an unseen notice is newer than the last time the
  center was closed (`UnseenAreNewer`), and the chip counts all of those.

- **The composed specifications.** The two runs of the frontend move one part at a time.
  `TransfersUiIsItsParts` and `WorkspaceIsItsParts`: every behaviour they have is one
  of each part, so the theorems above hold there (`TransfersUiIsTrue`, `WorkspaceIsTrue`,
  `WorkspaceStepsAreSafe`). `TransfersUiTypes` and `WorkspaceTypes` prove the type
  invariants of the two runs. Most parts are of their type for simple reasons; the
  ones that are not: a cursor and an anchor stay on rows because the rows of a view are a
  listing, which has no entry twice (`ShownFits`, by `ListedIsAListing`); what the
  columns of a trail show are entries of the folders of their path, which is the invariant
  of `TrailsStayTrue` again; a search counts no more pages than its walk sent, because what it has heard and
  what is on its way are together no more than was sent (`WalkFits`); a draft of a panel has the
  settings of that panel, and what is sent of it is valid (`DraftIsAPatch`).

The assumptions are the named ones of the modules, and TLC evaluates each of them on
the instances of the runs. `ScopeAssumption` (keys and prefixes are sequences),
`LockAssumption`, `TransferAssumption`, `MultipartAssumption`, `CacheAssumption`,
`PreviewAssumption`, `EditorAssumption`, `ShortcutAssumption` (what `fuzzyScore` returns),
`NavigationAssumption` (folders have their parents),
`ListingsAssumption` (a listing is finite and its order a total one) and
`MutationAssumption` give the constants their kinds, as those of the other modules do
for their bounds and names; `FoldersNest` says that no folder is
within itself, as prefixes that grow with every folder cannot be; `PlacesAssumption`,
`ErrorAssumption`, `AbsentAssumption` and the end of `MutationAssumption` keep the value
for "nothing" apart from real ones, the first also says that the parts of a path, a
recursive operator of the library, can be counted; `JobAssumption` says that a command
names its keys and that lock ids, which are UUIDs, do not run out; `RankAssumption`
what is known of the order of strings: no two are equal, a prefix comes before what it
begins, and between the two comes only what it begins.

A few theorems have a constant in their hypothesis, the boundary of a disagreement of
section 4, where the property is false on the other side: `PaneShowsSelected`,
`TokensComeBack` and with them `WorkspaceIsTrue` without `MediaFails`, `WorkIsExclusive`
without `MayOutlast`. The runs check them for the same values. `TracesKept` is about
`UploadFairSpec`, in which locks last and the panel is closed.

Model-checked only: liveness, that is whatever depends on fairness, which the provers
cannot reason about (`RowsSettle`, `LeakedLockExpires`, `EveryTransferEnds`,
`CanceledDownloadStops`, `EveryUploadEnds`). Every invariant and every action property of
a passing run is the subject of a theorem.

## 6. Not modelled

Backend parts that are one map behind one mutex, where every method is atomic and
nothing is read before a lock and used after it: confirmation tokens, capability
cache, bookmarks, media tokens and notification log (the frontend's use of the last
two is modelled). Their hazards are limits and expiry, which unit tests reach. The
diff store has no caller in the frontend any more. Profile store, client pool and
settings have races of their own, listed in section 4; they were left out in favour
of the frontend's side of the same interaction. Conversions and parsing (paths, ids,
`~/.aws` files, URIs), the updater, diagnostics, the HTTP media server and startup
wiring keep no state that two actors share.

Of the frontend: drawing, styling and layout; the inspectors and the diff dialog
(forms over one request each); drag and drop; the toolbar's bookmark and new-folder
dialogs; the prompts of updater, keychain and first run; pages beyond the first of
an infinite listing; the retry policy of the query client; the scores of the fuzzy
match. Bytes, progress counters and speeds are data no property depends on.
`PROJECT.json` lists every component with its status.

What the checks do not show: nothing is claimed about the real S3, WebView or tokio
beyond the assumptions above, and fairness and liveness are checked on the small
instances only.
