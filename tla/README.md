# MyS3: TLA+ models and proofs

Formal models of MyS3 (`src/`: a self-hosted, S3-style object store in Rust with
a SQLite metadata database, blobs on disk, a recycle bin and gRPC replication).
TLC checks small instances of every model; TLAPS proves the safety properties of
all of them (object store, retention, replication, accounts, shares, uploads,
rehash, folders, explorer) for every instance.

    tlc -workers 2 -config ObjectStore_safety.cfg MCObjectStore
    tlapm ObjectStoreProofs.tla

`PROJECT.json` lists the runs, the source lines behind every definition, the
mutants that show each property can fail, findings, hazards and theorems.

## 1. The system

| Component | State | Operations | Interacts with |
|---|---|---|---|
| Object life cycle (`server/s3_routes.rs`, `db/repository.rs`, `storage/engine.rs`) | `object` rows, blobs | PUT, GET, DELETE (soft), restore, purge | outbox (same transaction), quota, recycle bin |
| Retention worker (`server/purge.rs`) | its list of expired rows, `app_settings` | one tick a minute | object rows, blobs, outbox |
| Storage reconcile (`storage/reconcile.rs`) | a listing of rows and of the directory | inspect, reconcile | blobs of running uploads |
| Buckets (`db/rbac.rs`, `server/settings_routes.rs`) | `bucket` rows, node assignments, quotas | create, delete, assign nodes, quotas | objects, shares |
| Outbox and worker (`cluster/outbox.rs`, `worker.rs`, `grpc_client.rs`) | `replication_outbox` | enqueue, claim, send, complete, fail, retry | peers' gRPC service |
| gRPC service (`cluster/grpc_server.rs`) | the receiving node's rows and blobs | ReplicateObject, DeleteObject, SyncDigest, PingNode | storage engine |
| Anti-entropy (`cluster/anti_entropy.rs`) | digests, read at different times | one pass an hour | outbox, peers |
| ETag rehash (`server/etag_rehash.rs`) | status and counters of a bucket | start, run in the background | objects, outbox |
| Accounts, roles, sessions (`db/rbac.rs`, `server/session_auth.rs`) | accounts, roles, permissions, sessions | bootstrap, login, edits | every handler |
| Share links, media tokens (`db/shares.rs`, `share_routes.rs`, `media_access.rs`) | `share_link` rows, signed tokens | create, revoke, serve | objects, buckets |
| Bucket nodes and quotas (`db/repository.rs`, `peer_manager.rs`) | `cluster_peer`, `bucket_replication_peer`, `replicate_to_all` | assign, patch, remove, check on upload | uploads, outbox |
| Listing and folder operations (`db/repository.rs`, `web_routes.rs`, `keys.rs`) | none | page, search, prefix delete, rename | objects |
| Folder archives (`server/folder_archive.rs`) | files under `tmp/` | list, pack, stream, remove | objects, blobs |
| Storage relocation (`storage/relocate.rs`) | the data directory, the saved root | move | all blobs |
| Web UI (`web-ui/static`) | transfer queue, pager, previews | enqueue, pump, cancel | HTTP API |

What is hard about it: handlers are async and interleave at every await; several
of them read a row in one statement and write it by id in another; blobs and rows
change in different steps, with crashes and dropped connections in between; the
outbox is retried, and anti-entropy runs on digests that are stale when used;
soft deletes are local while purges are replicated.

What makes it correct: a key has at most one live object; a row has its blob and
a blob its row; the outbox names exactly what still has to be sent; purged means
gone; every live object reaches its peers; retention is kept, and kept to. Around
the objects: a deleted account, role or bucket is named nowhere; somebody can
still administer the server; a revoked link and an ended session give no access;
quotas hold; a rename moves its folder and nothing else; a listing shows each
entry once.

## 2. Modules

| Module | Models |
|---|---|
| `Versions` | What a node promises: a version is free, live, in the bin or gone; at most one live version per key. |
| `ObjectStore` | One node: rows, blobs, buckets, the inserted outbox jobs, the program counters of concurrent handlers, the purge worker and reconcile. Implements `Versions`. |
| `Delivery` | What replication promises: an upload is owed to every other node until it arrives, and stays until it is purged. |
| `Replication` | Nodes with outboxes, the worker's calls, the handlers they run on the peer, anti-entropy, lost answers, broken calls, crashes. Implements `Delivery`. |
| `Retention` | When a soft-deleted row counts as past its retention. |
| `Accounts` | Bootstrap, login and sessions, accounts, roles, grants, bucket ownership. |
| `Shares` | Share links, media tokens, and the requests for content they admit. |
| `BucketNodes` | The nodes of a bucket, the edits of them, and who writes jobs for them. |
| `Uploads` | Extends `BucketNodes`: uploads under its quotas, and the connection pool. |
| `Rehash` | A bucket's ETag type and the background task that applies it. |
| `Paths` | Keys, prefixes, LIKE and renaming as operators; shared by the next two. |
| `Folders` | Folder rename, folder delete, folder archives. |
| `Explorer` | The paged listing and the explorer page that scrolls through it. |
| `MC...` | The instances for TLC: symmetry sets, keys, tables. |
| `...Proofs` | The theorems about `ObjectStore` (with `Retention`), `Replication`, `Accounts`, `Shares`, `Uploads` (with `BucketNodes`), `Rehash`, `Folders` and `Explorer`. |

In every module an action is one SQL statement, one committed transaction or one
file operation, so handlers interleave exactly where the code awaits. Locals of a
handler that survive an await are functions from requests; `pc` (or `step`, `at`)
is the await. Variables named under *history* record only what a property needs to
say which race has happened; no guard of the code reads them.

### ObjectStore

- A *file* is the uuid path drawn by `put_chunks` and also stands for the row's
  AUTOINCREMENT id: neither is reused.
- `status` is the row (`absent`, `active`, or soft-deleted: `recycled` within its
  retention, `expired` past it); `disk` the blob; `putJobs` and `delJobs` count
  the jobs inserted for a file; `pc`, `file`, `victim`, `todo`, `target` are the
  locals of a handler.
- PUT: `PutBegin` (create the blob), `PutStored`, `PutQuota`, `PutFind` and
  `PutRecycle` (the soft delete of the replaced object, which the code runs on the
  pool and so commits before the insert), `PutCommit` (row and jobs in one
  transaction), `PutFail` (every later error path: rollback and unlink).
- DELETE, restore, recycle-bin purge, purge all, `delete_bucket`, the retention
  tick and reconcile are cut the same way. `SoftDelete`, `RestoreWrite` and
  `DeleteRow` write by id, whatever the row has become since it was read.
- `CutOff` ends a handler where it is (client gone, stream error, `?`), `Crash` ends all.
- Abstracted: sizes, etags, dates, permissions, GET. The quota check may pass or
  fail. `unlink` succeeds (file system errors are only logged by the code).

`QuietSpec` adds what only an operator can ensure: no upload overlaps a reconcile.

### Replication

All buckets replicate to all nodes, peers stay active, etags are md5 (the
default), objects are not empty. Local operations are the committed effects of
ObjectStore's: a PUT is its commit; a purge is its transaction and, later, its
unlink. `rpc` is the step a worker's current call has reached: for a PUT, the
peer has truncated the file at the forced path (`write`), verified it and is to
insert the row (`insert`), or the call is `done` or `failed`. Reading the local
blob and truncating the remote one are one step. `NetFail` breaks a call before,
while or after the peer handles it, so a retry may repeat what was done; the
peer's handler ends with the connection. `WriteFails` is an outbox write that
fails (the worker only logs it), `Crash` a restart of a node; both are counted
by `faults`. `linked` is `object_id IS NOT NULL`, `meta` whether the claim's
LEFT JOIN found the row: without it the peer's row is keyed by its path.

In `Delivery` a version is, for each node, `none`, `owed`, `held` or, once a node has
purged it, `withdrawn`. `StandingOf` reads that off rows and queues.

### Retention

`Expired` is `deleted_at <= cutoff` as SQLite evaluates it on the two text formats:
by date, and for one date always true. `PurgeOnce` panics, and the worker's task
ends, when chrono cannot represent `now - retention`.

### Accounts

`Admit` is the session extractor (token, enabled account); the checks
(`RequireOwner`, `MayDisable`, `MayDelete`, `OwnsBucket`, ...) and each write of the
route are later steps, so the admitted account may be disabled, demoted or deleted
in between. The foreign keys are part of the writes: an insert that names a row
that is gone fails, a delete cascades or sets null as the migrations say.
`Disable` and `RegeneratePassword` are followed by `Sweep`, whose error the code
ignores. `excused` records the ways in which an owner may legitimately vanish,
`outdated` and `astray` which sessions predate a password and which escaped a sweep.

### Shares

Create (check, insert the link, insert each recipient), revoke (check, write),
mint a token, and a content request: `Load` or `Personal`, `Authorise`, `Find` (the
key in the link's bucket), `Read` (the key in *any* bucket, as
`get_object_for_key` does). `Covering` compares keys exactly; the LIKE of `list_shares_covering_key` ignores case and
may choose a link to a folder spelt differently, whose token then opens nothing, as the
scope is checked again. Such targets are left out. `stamp` is the time at which a request's last check of
validity was made. Objects, permissions, buckets and accounts change around them.

### BucketNodes and Uploads

`alloc` is the rows of `bucket_replication_peer`, `all` the bucket's
`replicate_to_all`. A PUT of the list deletes and inserts in one transaction and
then, in another statement whose error is ignored, puts the local node back; a
patch reads and writes the whole row; a removal deletes and then clears the flag.
`NodesInit` has both outcomes of `create_bucket`, whose second statement, the assignment
of the local node, may fail. `queued` are the peers that have jobs of the bucket in the
outbox: an upload, a purge and a rehash add those that the bucket has then
(`EnqueueJobs`), anti-entropy asks (`SyncAsk`) and inserts (`SyncEnqueue`) by two
statements, and the worker empties it (`JobDone`) without asking for the bucket's nodes.
An upload goes `begin` (takes a connection and keeps it), `previous`, `used`,
`quota`, `replace` (each takes a second connection for its statement), `insert`.
`Free` is what the pool has left; `TimeOut` is its acquire timeout. What the
statements do to rows and blobs is in `ObjectStore`. That module also takes the SELECT
and the UPDATE of the soft delete apart, which `Replace` does in one step: the UPDATE is
by id, and the sum of sizes cannot tell the two orders apart.

### Rehash

`put_bucket_etag` is `ReadStatus`, `SetType` and `BeginRehash`, which writes the status
and spawns a task, or `CutOffBegun`: the request is dropped at the await in between,
with the status written and no task;
a task lists the objects, and for each hashes and updates it, enqueues its jobs and
bumps the counter, any of which may fail, and ends with a status. `Crash` loses the
tasks and keeps the status. `crowded` are tasks that ever ran beside another,
`stranded` says that the status `running` was left without a task that would end it.

### Paths, Folders and Explorer

A key is the sequence of its segments. `Like` is `LIKE 'prefix%'`, which ignores
case; `Under` is `starts_with`, which does not. `rename_prefix` lists (`RenameList`),
checks row by row (`RenameCheck`) and renames by id in one transaction under the
unique index (`RenameCommit`). An archive is listed, packed entry by entry, opened
and streamed; only the opened `TempArchive` removes its file, in its Drop. `Crash` is a
kill, or the exit after a relocation: no Drop runs. Keys with a NUL or with segments
`.` and `..`, which `filter_archive_entries` passes over, are not among the keys. `Explorer` has the
listing of a level or a search (`Listing`, folders before objects; `Sorted` puts a set
into the given sort order, the n-th by its rank), with folders that exist only by
their `.keep` marker, the page the server cuts out of it (`Page`), and the client's `loadExplorerPage`: `Refresh`
clears and asks for the first page, `LoadMore` is the observer, `Receive` appends
whatever answer comes. `navigateToPrefix` clears the search at once and the rest waits
for the `hashchange` event; `Refresh` is both in one step: a page asked for in between is
then on its way like any other.

## 3. Runs

| Run | Instance | Shows |
|---|---|---|
| `store_safety` | 2 buckets, 1 name, 2 uploads, 2 requests and the worker | unique keys, rows with buckets, exact outbox, no leaks, refinement of `Versions` |
| `store_quiet` | 1 bucket, 2 uploads, 2 requests, `FairQuietSpec` | every row has its blob; expired rows leave the bin |
| `replication_safety` | 2 nodes, an upload and its overwrite, 1 fault or 1 purge | no version that was not purged is forgotten, nothing queued twice, damage has a repair, a row under its path belongs to a purged version |
| `replication_liveness` | 2 nodes, 1 upload, `FairSpec` | live versions reach the peer; refinement of `Delivery` |
| `replication_crash_strands` | violation | a crash strands the job for good |
| `retention_ticks` | 2 objects, days of 4 instants, 10 instants, `FairRetentionSpec` | early by less than a day; due rows are purged while the worker lives |
| `accounts` | 2 accounts, 2 roles, 1 bucket, 1 token, 2 requests | no dangling references, bootstrap happens once, lockouts and old sessions have a known cause |
| `shares` | 2 accounts, 1 bucket, a file and a folder, 2 links of 3 kinds, 1 token, 2 requests, times 0..2 | references, recipients, revocation takes effect, tokens are bounded by their lifetime |
| `uploads` | 2 nodes, 2 keys, hard quota 1, pool of 2, 2 requests, `FairSpec` | a quota holds for an upload that nothing overtakes; local node kept; a node taken out only drains; uploads end |
| `rehash` | 1 object, 2 types, 2 requests, 2 tasks, `FairSpec` | `running` has a task behind it unless that was lost or never spawned, overlaps are races, `done` is complete, a rehash ends |
| `folders` | 3 objects, 4 keys (two folders that differ in case, one nested, one marker), 2 requests, 1 temporary file | unique names, only the folder moves, the bin keeps names, archives are whole, files in `tmp/` are accounted for, crashes included |
| `explorer` | 5 keys (one the root's marker), pages of 2, 2 calls, a root, a folder and two searches | a scroll shows the listing once and completely |

`TypeOK` is checked for `ObjectStore` and `Folders`; it is proved, by itself or as
part of the invariant, in every module with proofs.

Bounds. Two requests (and the worker) give every pair of handlers that can race;
two uploads a version and its replacement. Two nodes give every pair of sender and
receiver; clients write on one of them, anti-entropy runs on both. `MaxJobs` only
limits when a client operation may add jobs; anti-entropy and retries are not
limited. `MaxPurges` and `MaxFaults` bound purges and crashes, and the constraint
`FaultOrPurge` of the replication run leaves out behaviours with both a fault and a
purge, more than two jobs beside a purge, and pushes back by the second node beside
an overwrite and a purge. The proofs need none of these bounds. `OneMissing` lets one
account, bucket, object or permission be missing at a time while links are used. Three instants of a date, its boundary and the dates around
it are all the text comparison can tell apart. One token is enough for a session
that outlives its account or password; two accounts for a creator and its account,
or for two owners; a pool of two for two uploads that hold it all; a page of two for a listing that
ends before, at and after a page's border and for a page that holds folders and
objects. Times 0..2 with lifetimes of 1 put a token's expiry before, at and after a
link's. Symmetry is used only where no liveness is checked. Accounts, shares and
folders may stop when their ids are used up, so deadlock is not checked there.

Fairness. `ObjectStore!FairQuietSpec`: the worker's interval ticks (weak), and a row
that is listed again and again is purged in the end (strong: errors are
transient). `Replication!FairSpec`: worker and anti-entropy loops run and retry
times pass (weak), and each step of a call succeeds infinitely often if it is
tried infinitely often (strong: the network works often enough).
`Retention!FairRetentionSpec`: the tick. `Uploads!FairSpec`: a handler runs on, and one that
waits for a connection gets it or is given up by the pool's timeout (weak).
`Rehash!FairSpec`: a spawned task keeps running (weak). Clients, purges by users,
faults and the clock owe nothing.

## 4. What the code does not guarantee

The properties above are stated as strongly as the code allows. Where one names an
exception, the exception happens; these are the ones a maintainer should know of.

Objects and replication
- Reconcile unlinks the blob of an upload that commits after the rows were listed
  (hence `QuietSpec`), and a row restored after a purge has listed it is purged
  (`Versions` lets a live version go).
- A failed overwrite leaves the key without a live object: the soft delete is
  committed on its own.
- A node that crashes with jobs IN_FLIGHT never sends them (`replication_crash_strands`).
- An overwrite does not reach a peer that still has the replaced version live, as
  soft deletes are not replicated; it arrives only after that version is purged.
- A repair may overwrite the last good copy: the peer truncates the file before it
  has the new content, and a truncated replica can be the source of a push back.
- A purge is undone by a peer whose anti-entropy pass runs before the DELETE
  arrives: the object comes back as a live row.
- A row deleted on the cutoff's date is purged up to a day early, and one retention
  too long for chrono ends the worker's task until the next start.
- Renames are not replicated.

Buckets, quotas and rehash
- Concurrent uploads together exceed a hard quota, and restoring ignores it.
- As many uploads as the pool has connections stop each other until the timeout.
- Of two concurrent patches of a node one is lost; the second statement of a removal
  clears a `replicate_to_all` that was set after the first.
- A node that was taken out of a bucket is still sent the jobs queued for it, and one
  PUT of an anti-entropy pass that had asked before; `claim_outbox_jobs` does not ask.
- `create_bucket` may fail after the bucket is there and before it has its local node.
- Two recalculations can run at once; a crash, a failing last statement, or a request
  that is cut off between the UPDATE and the spawn leaves the status `running` and
  refuses all later ones; an object that could not be
  hashed counts as processed; a peer keeps the old etag, so that anti-entropy sees
  the object as different each time.
- A bucket that was ever shared cannot be dropped (revoked links keep their row),
  and `delete_bucket` finds out after it has purged the objects.

Accounts and shares
- Two owners who disable each other at once, or a bootstrap that is cut off between
  the account and its role, leave nobody in charge.
- A login checked before a disable or a new password opens its session after the
  sweep, and the sweep's own error is ignored.
- A recipient that is gone leaves a link with the recipients inserted before it; the
  creator gets an error, the link stays.
- Tokens outlive permissions and, for their lifetime, nothing ends them.
- Content routes check a key in the link's bucket and read it by key in any bucket.

Folders and the explorer
- `soft_delete_prefix` ignores case: deleting `a/` deletes `A/` as well. (Renames
  and archives do not: they check again.)
- A rename's count includes rows that were deleted meanwhile.
- A build that fails or is cut off, and a process that dies or exits while an archive
  is built or sent, leave the file in `tmp/`, which nothing cleans up.
- A search that matches the marker in the root lists a folder `/`, and a search for
  `.keep` lists every folder that has a marker.
- The explorer appends an answer for the folder that was open before; an entry that
  goes away while one scrolls makes the next page skip another.

## 5. Proofs

`ObjectStoreProofs`, for any finite or infinite sets of buckets, keys, uploads
and requests, from `ConstantsAssumption` alone:

- `SInv` is the inductive invariant. `UniqueActiveKey`, `RowsHaveBucket`,
  `OutboxExact` and `NoLeak` are not inductive by themselves; `UploadsOK` adds
  that a running upload owns a blob of its own that no row names and no job
  mentions, and `PurgesOK` that what a purge still has to visit was once a row
  and that a blob about to be unlinked has no row. One lemma per group of actions,
  one step per action.
- `TypeCorrect`, `KeysUnique`, `NoStrayRows`, `OutboxCorrect`, `LeakFree` follow.
- `Refinement`: every step is a step of `Versions` or a stutter, under the mapping
  from (row, DELETE jobs) to stages; `SInv` supplies that a purged file has its job.
- `BlobsPresent`: `QuietSpec => []BlobPresent`. `QInv` adds that an upload past
  its stream has a full blob and that a sweep's list holds no row's blob.
- Retention, for every day length, unit table and sequence of settings:
  `ExpiredBounds` (the text comparison accepts all it should, and errs by less than a
  day), `RetentionTypes`, `EarlyByLessThanADay`, and `TickTakesAllDue`: a tick that does
  not end the worker leaves no row behind that is past its retention.

`ReplicationProofs`, for every finite set of nodes, any set of versions and any
bounds (`ReplicationAssumption`; finiteness is what lets `SetToSeq` list the peers).
`RInv` adds to the properties:
- `JobsOK` and `RowsOK`: whatever is on a node or in a queue was uploaded, and what
  speaks of a deletion follows a purge. Gives `GhostsWerePurged`.
- `ReadyOK`: what `enqueue_put_for_peer` has found missing is still missing when it
  inserts, because only a PUT of a *new* version and anti-entropy itself add PUT
  jobs. Gives `NoDuplicatePuts`.
- `CallsOK`: a call belongs to a claimed job of its kind; `ArrivedOK`: a PUT that is
  done has left its row, so that deleting its job forgets nothing. Gives
  `NeverForgotten`, version by version: the purge of one does not excuse another.
- `RepairOK`: a damaged blob, be there a row yet or only a sender about to insert
  one, has a queued job whose call has *not* written the blob. Two senders may hold
  the same path at once; the one that did the damage is not the one that reports
  success. Gives `DamagedHasRepair`.
- `Refinement`: under `RInv` the standing of a version follows from rows, uploads and
  purges alone (`View`: what was uploaded, is not purged and has no row is owed), so
  only PUT, purge, the peer's insert and its delete can show, and each is a step of
  `Delivery` or concerns a version that is purged already.

`AccountsProofs` (`AccountsAssumption`). `NoDangling`, `BootstrapOnce`, `Lockouts`,
`OldSessions`. `AInv` adds what a handler has read when it is at a later step
(`LocalsOK`), that the Owner role is never deleted (`OwnerLive`), that once there is
an account there is one that nobody may delete, as it has no creator (`RootOK`),
that before an owner is in charge there is nothing but a bootstrap (`LockOK`), and
that outdated sessions are sessions (`OutdatedOK`).

`SharesProofs` (`SharesAssumption`). `LinksRefer`, `RecipientsRight`,
`NothingAfterRevocation`, `TokensLapse`, for every lifetime. `SInv` adds that a
handler's link exists (`HandlersOK`), that an unfinished creation still has the
missing recipients before it (`CreationOK`), that a link was loaded before it was
revoked and a token used before it expired (`StampsOK`) and that a token expires no later than its mint plus its lifetime
(`TokensOK`).

`UploadsProofs` (`NodesAssumption`, `UploadsAssumption`). `LocalStays`,
`RemovedStaysOut`. `NInv`:
removals are of remote nodes (`RemovalsRemote`), and while `replicate_to_all` is set
no remote node has a row (`AllMeansNoRows`), so a removed node cannot be reached by
the flag that its removal is still to clear (`GoneOK`): no removed node is among the
`Receivers`. `RemovedStaysOut` is the action property `RemovedOnlyDrains` from that: a
step that adds jobs adds them for receivers or for the node anti-entropy had asked for,
and only a receiver gets leave (`OutboxSteps`, `EditsOutbox`, `UploadNodes`). `QuotaHolds` is
`QuotaIfAlone` for any quota, sizes and number of objects. The sum of sizes is the
cardinality of a set of bytes, one element per object and byte, so that it needs no
induction: replacing an object takes one set away and adds another. The invariant
says that what an upload that was alone since its check has read (the object it
replaces, the bytes in use) is still so when it inserts.

`RehashProofs` (`RehashAssumption`). `TypeCorrect`, `StatusExplained` (with cut-off
requests, lost tasks and crashes among the steps), `RacesOnly`, `DoneMeansDone`. `RInv`: of two tasks each has met another (`Company`), and only
such run while the status is not `running` (`QuietStatus`) or unknown to a request
that was let through (`ReadersOK`); the objects a task has before it and behind it
are different ones (`SetsOK`), and a task that was alone has counted none twice and
lost no type to another (`AloneOK`).

`FoldersProofs` (`PathsAssumption`). `TypeCorrect`, `UniqueNames`, `WholeArchives`,
`AccountedTemps`, `FolderAlone`, `NamesInBin`. `FInv` adds that what a rename
has listed lies in its folder, is gone or was moved since (`PlansOK`), that an idle
handler holds nothing (`LocalsOK`), that an archive's entries and those still to
be packed make up its list (`ArchivesOK`), and that a request's file is its own, not an
abandoned one, and whole once it is packed (`FilesOK`).

`ExplorerProofs` (`PathsAssumption`, `ExplorerAssumption`: sort orders that list every
key and every folder, levels that are paths, pages of 1 to 500 entries).
- `PagingIsSlicing`: the page that `page_folder_object_lists` puts together from two queries,
  one for folders and one for objects with offsets of their own, is the slice of the
  whole listing at that offset, wherever the border of folders and objects lies.
- `ComingOnlyPushesBack`: of two listings, the second with all entries of the first and
  more, no entry is nearer to the start in the second.
- `ShownBelongs` and `ScrollingSkipsNothing` (`ShownInPlace`, `ScrollComplete`). The
  invariant follows a page on its way: the request (`RequestOK`), the answer
  (`AnswerOK`, `AnswerInPlace`) and the screen (`ScreenOK`, `ScreenInPlace`) each hold
  a list that *fits* the listing (`Fits`): whatever stands before the next offset has
  been shown, as long as entries were only added since the scroll began. `OnlyCall`
  keeps a second page from being asked for while one is on its way.

Only model-checked is liveness, as the prover has no ENABLED or fairness:
`ExpiredLeaves`, `Convergence`, `DueIsPurged`, `UploadsEnd`, `RehashEnds`.

## 6. Plan

Done: all modules of section 2 and the theorems of section 5. Left, in order of worth:

1. Etags in `Replication`, to compose it with `Rehash`, whose jobs are enqueued
   without the duplicate check.
2. What the blobs of a node are worth to its readers: `DamagedHasRepair` as part of
   `Delivery`.

None of these modules has a RECURSIVE operator, so all can be proved about.

## 7. Not modelled

- Storage relocation: it runs with the database closed and ends in a restart; what
  a partial move leaves depends on the file system.
- The browser's transfer queue: client code around XMLHttpRequest and the DOM; the
  server sees the uploads and downloads that are modelled.
- `parse_bytes_range`, request signing, hashing, configuration: pure functions of
  strings and bytes, covered by unit tests.
- PingNode's heartbeat, which nothing reads; the read-only storage report.
- The WireGuard tunnel (external), the terminal dashboard, and display code.
