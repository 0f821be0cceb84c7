# Verification of Discord-Free-Cloud

This directory holds TLA+ models of the Go program in `../src`, the TLC
configurations that check them on small instances, and theorems about them that
TLAPS proves for every instance.  Line numbers below refer to `../src`.

| module | what it is |
| --- | --- |
| `UploadEngine.tla` | the upload engine with the catalog tables, Discord, the handlers and a restart around it; its properties |
| `UploadPromise.tla` | the abstract specification: how the status of a job and of a part copy may move |
| `UploadClaims.tla` | what the program's README says about several servers, where the code does something else |
| `Stream.tla` | sending a stored file, or a range of it, to a client: goroutines, result map, condition variable, in-order writer; its properties |
| `OrderedDelivery.tla` | the abstract specification: what leaves the writer, in which order, and what a nil result means |
| `DownloadJob.tla` | downloads to local files with their goroutines and cancels; its properties |
| `ChunkFetch.tla` | how the bytes of one part come back: cache, stored and refreshed URL, other copies, associated data; `VerifyFile` and `GetFileBytes` on top of it, uploads and deletes beside it |
| `DiscordClient.tla` | the retried calls to Discord and the rate limiters they share |
| `StoragePool.tla` | `SyncPool`, everything that calls it, the rows it leaves in the catalog, and the handler that removes the pool |
| `DriveTree.tla` | the table files as a tree, and every request that rearranges it, with uploads of files and folders |
| `Shares.tla` | share links: making, revoking, expiry, following one |
| `CatalogBackup.tla` | extends `Shares`: the backup of the catalog and its restoration, beside uploads, deletes and renames |
| `MasterKey.tla` | salt, hash, the key in the engines, browser sessions; boot, unlock, set password, settings, lock |
| `UploadEngineProofs.tla`, `DownloadProofs.tla`, `FetchProofs.tla`, `ClientProofs.tla`, `PoolProofs.tla`, `DriveProofs.tla`, `BackupProofs.tla`, `KeyProofs.tla` | theorems about the module each extends; `FetchProofs` extends both `ChunkFetch` and `Stream` |
| `MC*.tla` | constants for TLC |

`tlc -config <run>.cfg <MC module>` checks a run (`PROJECT.json` lists which module
goes with which run), `tlapm <module>Proofs.tla` checks proofs (about ten minutes
from nothing for the drive tree, five for the storage pool, less for the others).

## 1. Inventory

The program is one process: an HTTP server on the local machine that stores the
files of a virtual drive as encrypted messages on Discord servers, and keeps a
catalog of them in a PostgreSQL database, which may be on another host.

| component (source) | state | operations | what makes it correct |
| --- | --- | --- | --- |
| **Upload engine** (`internal/uploader`) | `activeJobs` with its mutex; per upload a context, a channel of items, goroutines, an error channel | `UploadFile`, `UploadDir`, `runUpload`, `CancelJob`, `CancelAllJobs`, `IsJobActive` | a job is reported done only when every copy is stored; stored copies carry the right bytes; jobs settle; the local file is there while it is needed |
| **Catalog** (`internal/db`) | tables files, jobs, chunks, bot nodes, settings, shares; one mutex | one method per statement, `ResetIncomplete` at start | paths are unique; rows never name missing files; progress is honest after a crash |
| **Discord client** (`internal/discord/client.go`) | rate limit trackers, HTTP clients | `UploadChunk`, `AttachmentURL`, `DownloadChunk`, `DeleteMessage`, server set-up | retries respect the limits and end; a message reported as posted exists |
| **Storage pool** (`internal/discord/pool.go`) | categories, channels, webhooks of a guild | `SyncPool`, `FindOrCreateCategory` | no category or channel is created twice; overflow numbering is gapless |
| **Downloader** (`internal/downloader/downloader.go`) | chunk cache; per stream a result map, condition variable, goroutines; `activeJobs` | `StreamDownload`, `StreamDownloadRange`, `GetFileBytes`, `StreamZip`, `DownloadFile`, `CancelJob` | bytes arrive complete and in order or an error is reported; no goroutine waits for ever; a cancelled job does not become completed |
| **Verification** (`internal/downloader/verify.go`) | none of its own, reads the cache | `VerifyFile` | what it reports as verified is what is stored |
| **Drive tree** (`internal/server/qol.go`, `internal/db/qol.go`) | paths in files | create folder, rename, move, trash, restore, delete, favourite | a folder moves with all its descendants; paths stay unique; the trash restores what it took |
| **Upload, cancel, delete handlers** (`internal/server/server.go`) | staged files, clean-up goroutines | `handleUploadFile`, `handleJobCancel`, `handleDelete` | staged files go, but not too early; deleting removes only the file's messages |
| **Catalog backup** (`internal/catalog`) | backup channel on Discord | `Sync`, `Restore` | restoring a backup gives back the catalog it was taken from |
| **Shares** (`internal/server/share.go`, `internal/db/share.go`) | table shares | create, list, revoke, open | an expired, revoked or orphaned share serves nothing |
| **Sessions** (`internal/server/auth.go`) | session tokens, unlock key, back-off | unlock, set password, logout, middleware | no request is served without a session when a password is set |
| **Crypto and PNG container** (`internal/crypto`) | none | seal, open, wrap, unwrap | unwrap inverts wrap |
| **Thumbnails** (`internal/server/thumb.go`) | bounded cache, semaphore | `handleThumb` | the cache stays in bounds |
| **Chunker** (`internal/chunker`) | none | `Split` | unused by the engine |
| **Start** (`cmd/app/main.go`) | - | open the catalog, `ResetIncomplete`, provision, serve, shut down | interrupted jobs are accounted for |
| **Platform helpers, dashboard** | - | system calls, user interface | not modelled |

**Interaction.**  A handler stages the browser's bytes in a temporary file and
calls `UploadFile`, which writes the file row, the job row and one row per part
copy, enters the job in `activeJobs` and starts `runUpload`.  Its goroutines take
items from a channel filled in advance; for each they read the part, look for a
stored row with the same hash, otherwise post the part to Discord, and write the
row and the job's counter.  `runUpload` waits for them, counts, and publishes
the file and the verdict.  Meanwhile a clean-up goroutine of the handler polls
`IsJobActive` to remove the staged file; a cancel request cancels the context,
removes the job from `activeJobs` and writes PAUSED; a delete request reads the
file's rows, deletes file and rows, and leaves the messages to a background
goroutine; other uploads read the rows for deduplication.  The downloader, the
verifier, the dashboard and the backup read the same tables.

**Hard behaviours.**  All state shared by these goroutines is in PostgreSQL and is
updated one statement at a time, so every sequence of two catalog calls can be
interrupted by every other goroutine, by a failing statement, by a statement that
takes effect and is never answered, and by a crash.
`PROJECT.json` lists the hazards with their lines.  Where the code does go wrong, no
property is named for the hazard: its note says which exception of the model it is.

## 2. Plan

Written in this order: `UploadEngine` with its promise and proofs (it is the only
writer of stored bytes, and every other component reads what it leaves); `Stream`
with its promise and proofs; `DownloadJob` with proofs; `ChunkFetch` (which says
what a fetch may return to the two before it); `DiscordClient` and `StoragePool`;
`DriveTree`; `Shares` and `CatalogBackup`; `MasterKey`.  Proofs about `DiscordClient`,
`CatalogBackup` and `MasterKey` came after their runs, then those of `UploadPromise`
and of what the job row and the local file promise, then those about `ChunkFetch`,
`StoragePool` and `DriveTree`.

What is left, in order of worth:

1. `StreamZip`, the prefetch of the next part, and the recovery of a failed
   statement inside `DriveTree`.
2. Session and API token lifetimes beside `MasterKey`.
3. Pure modules: the arithmetic of ranges, the container around a part.

## 3. UploadEngine

### State

| variable | code |
| --- | --- |
| `request` | the arguments of `UploadFile`: path, the parts of the local file (by their bytes), the servers that have channels, and whether the file was staged by the handler |
| `files`, `job`, `chunk` | the tables files, jobs, chunks (db.go:157-201); a row is absent when its id or status says so; `DELETED` remembers a row that is gone |
| `discord` | messages in the storage channels, named by the copy they were posted for |
| `source` | local files that exist |
| `rec` | the `FileRecord` that `UploadFile` passes to `runUpload` |
| `pc` | where the handler and `runUpload` are between two calls |
| `active`, `cancelled`, `pausing` | `Engine.activeJobs`, cancelled contexts, and the `CancelJob` that holds `Engine.mu` while it writes PAUSED |
| `taken`, `worker`, `errs` | the channel of items, the goroutines, the error channel |
| `deleter`, `sweep` | `handleDelete` between reading the rows and deleting them, and the messages its goroutine still has to delete |
| `spent` | how often a call failed, the process crashed, a cancel or a delete came |

### Actions

One action is one call on the catalog, on Discord or on the mutex, with
everything the goroutine does up to the next one; `map` in `PROJECT.json` gives
the lines of each.

- Handler: `Stage`, `NoChannels`, `GetFileByPath`, `UpsertFile`, `CreateJob`,
  `CreateChunks`, `Register`, `RemoveStaged`.
- `runUpload`: `Open`, `Verdict`, then `MarkFailed` or `Publish` and `Finish`,
  then `Leave`.
- A goroutine of the pool: `Receive` or `Exit`, `FindChunkByHash`,
  `BeginUploadChunk`, `UploadChunk`, `UpdateChunkComplete`,
  `IncrementJobCompletedChunks`, `MarkChunkFailed`.
- `CancelJob` and `WritePaused`; `BeginDelete`, `DeleteFile`, `DeleteMessage`;
  `CrashRestart`.

A failing call is an alternative of its action that takes the code's error path;
errors the code drops are dropped in the model (a failed `GetFileByPath` looks
like a new path, a failed `UpdateJobStatus` like a successful one, a failed count
like zero).  A failing statement left the tables alone, or took effect and its
answer was lost on the way from PostgreSQL; where the code looks at the error the
two are two alternatives (`UpsertFile`, `CreateJob`, `CreateChunks`,
`UpdateChunkComplete`), and where it drops the error the second one is what
happens on success.  A goroutine whose `UpdateChunkComplete` took effect but
returned an error is at `undo`: until it runs `MarkChunkFailed`, the row it is
going to mark failed is a stored one that others may deduplicate against.

### Abstractions

- A part is its bytes, which its SHA-256 stands for; encryption and the PNG
  container are invisible to the properties.
- `UploadChunk` makes up to five attempts; the model keeps their outcomes:
  posted and answered, refused, or posted with the answer lost.  Messages posted
  by several attempts for one copy share one name.
- `CreateChunks` writes in one transaction per call; up to 4000 rows are one
  call in the code, and the model takes one.
- One process uses the catalog: the statements of several processes on one
  PostgreSQL database do not interleave in the model.
- `FindChunkByHash` picks the newest row; `created_at` counts seconds, so the
  model picks any.
- `handleDelete` is modelled for one plain file, one request at a time;
  `CancelAllJobs` is a sequence of `CancelJob`s; `UploadDir` is a sequence of
  `UploadFile`s.
- Operators with a comment that starts with "Slip" are not part of the
  specification: they are plausible mistakes, substituted one at a time to see
  that the properties notice.

### Runs

| run | instance | shows |
| --- | --- | --- |
| `upload_pool` | 3 parts, the last repeating the first, 1 server, 2 goroutines; one failing call, one crash, one cancel, one delete | `DoneMeansStored`, `ProgressHonest`, `SourceUntilOpened`, `StoredIsFinal` |
| `upload_sharing` | 2 uploads out of three requests that share bytes or the path; one failing call, one delete | `StoredBytesMatch`; `KeepsPromise`, the refinement of `UploadPromise` |
| `upload_progress` | 2 parts on 2 servers, 2 goroutines, fair; one failing call, one cancel | `StagedRemoved`, `JobSettles` |
| `claim_server_loss` | two parts for two servers, one goroutine | deduplication leaves both copies on one server (section 12) |

**Why the bounds are enough.**  Two goroutines and three items give every order
of taking, storing, failing and ending, with one goroutine taking a second item
while the other is anywhere; the repeated part makes a goroutine deduplicate
against its neighbour.  Four items are needed to have two servers.  Two uploads
are the smallest number that share a path or bytes.  One event of each kind per
run lets each of them fall between any two steps, alone and combined with the
others; the theorems have no such bound.

**Fairness** (`Fairness`).  Go schedules runnable goroutines, and each of the
calls they make ends: a catalog call takes the database mutex and ends, a post
ends after at most five attempts of 60 seconds.  The clean-up goroutine polls for
as long as it lives.  No client has to send a request, a cancel or a delete, and
no crash has to happen.  The engine gives no stronger guarantee, and no strong
fairness is assumed.  `CHECK_DEADLOCK FALSE` is set in all runs because requests
and events run out and then the system rests.

**Where a property does not apply.**  `JobSettles` excepts behaviours in which a
call failed, and its run has no crash: a failed status write, a failed
`CreateChunks` or a crash leaves the job ACTIVE for ever.
`StagedRemoved` needs a run without crashes, since nothing removes temporary
files at a restart.
`TypeOK` and `Owned`, the strengthening `StoredIsFinal` rests on, are not part of a
run because they are theorems (section 13).

## 4. Stream

`Stream` is one call of `StreamDownload` (`request.whole`) or of
`StreamDownloadRange`, which are two copies of one algorithm; both are mapped, and
differ in which parts they list and in how the first part is sent.

| variable | code |
| --- | --- |
| `request` | which parts have COMPLETED rows, and what is asked for |
| `pc` | the handler's goroutine, which is also the writer |
| `queue`, `worker` | the channel of parts and the goroutines |
| `res`, `err` | `resMap` and `workerErr`, both under `mapMu` |
| `gone`, `watcher` | the request's context, and the goroutine that broadcasts when it is done |
| `sent`, `result` | the parts written to the client, and what the call returned |

The actions are `Refuse`, `Begin`, `SendDirect`, `EndEarly`, `Launch`, then for
the goroutines `Take`, `Arrives`, `FetchFails`, `Exit`, for the writer `Check`, `Write`,
`Drain`, and `Watch` and `Disconnect` around them.  Checking for a part and going to sleep is one step, because
`cond.Wait` releases `mapMu` atomically; a `Broadcast` wakes a sleeping writer and
is lost if nobody sleeps, which is what `NoLostWakeup` is about: the writer never
sleeps while its part, an error or the end of the context is there, unless
somebody is still on the way to wake it.

Abstractions: a part stands for its bytes, so cutting the first and last part to
the range is left out; a goroutine's fetch is one outcome, so the replicas and
the cache are left to `ChunkFetch`, and the prefetch of the following part is left out;
`StreamZip` is a loop over `StreamDownload`.

| run | instance | shows |
| --- | --- | --- |
| `stream` | every subset of four parts as the stored ones, the whole file and every range, 2 goroutines, fair; fetches and writes may fail, the client may go away | `NoLostWakeup`, `Delivers`, `StreamReturns`, `GoroutinesEnd` |

Four parts are one more than the parts that can be in the hands of two goroutines
and the writer, so one can run ahead of a slow one, and every shape of gap occurs.
Fairness: goroutines run, a fetch and a write end (their clients have timeouts,
and the server closes a dead connection); no client has to go away.

`Delivers` says that `Stream` implements `OrderedDelivery`: the parts leave in
ascending order, none is skipped, and nil means all parts the code *listed*.
The list is the code's: `StreamDownload` counts the parts it found and sends the
indices from 0 up to that count (downloader.go:521-532).  With a gap this is
neither the file nor an error: of the stored parts {0, 1, 3} the call sends 0 and 1
and returns nil, and with {0, 2, 3} it waits for part 1 for as long as the client
stays.  `StreamReturns` therefore speaks of whole files without gaps (`Gapless`).

## 5. DownloadJob

| variable | code |
| --- | --- |
| `request` | file, local path and COMPLETED rows of each call of `DownloadFile` |
| `pc` | where `DownloadFile`, then `runDownload`, is |
| `status` | table jobs; `NONE` when `CreateJob` failed, whose error is dropped |
| `active`, `cancelled` | `Engine.activeJobs`, and contexts that are cancelled |
| `queue`, `worker`, `errs`, `done` | `chunkChan`, the goroutines, `errChan`, `completedCount` |
| `dest` | which file's bytes each part of a local file holds; zero bytes after `O_TRUNC` |
| `canceller` | the cancel handler: the upload engine's `CancelJob`, then the downloader's under its mutex |

Actions: `Refuse`, `CreateJob`, `Register`, `Open` or `CannotOpen`, `Verdict`,
`Leave`; per goroutine `Take`, `FetchAndWrite`, `Fail`, `Report`, `Exit`; the
handler's `CancelUpload`, `CancelJob`, `CancelAllJobs`, `CancelNext`,
`NoMoreJobs`, `WritePaused`.  A job reads its error channel only after all
goroutines have ended, and nobody else touches it, so reading it and writing the
status are one step.  A fetch and the write at its offset are one step, since
goroutines of one job write disjoint offsets or the same bytes; a failed write
leaves the offset as it was.

| run | instance | shows |
| --- | --- | --- |
| `download_job` | two jobs to one path, one of a part stored twice and a second part, 2 goroutines each, fair; one failing statement, one cancel of a job or of all | `DoneMeansWritten`, `VerdictHonest`, `JobEnds` |

Three rows for two goroutines are the smallest number with which a goroutine that
went on after an error would meet a full error channel.  Fairness: goroutines
run and a fetch ends, with one or the other outcome; the cancel handler runs.

`DoneMeansWritten` excepts two cases, and the code has a guard for neither.  A
cancelled job goes on to its verdict: its goroutines leave without an error, and
COMPLETED replaces PAUSED.  Two jobs on one path overwrite each other.  The
comparison of the hash would catch both, but the file is opened `O_WRONLY`, so
reading it fails and the comparison is skipped (downloader.go:776, 926).

## 6. ChunkFetch

`fetchChunk` and `fetchSingleChunk` for the two readers that answer as a whole,
`VerifyFile` and `GetFileBytes`; `Stream` and `DownloadJob` take a fetch as one
outcome, and this module says what may be in that outcome.

| variable | code |
| --- | --- |
| `files`, `rows`, `taken` | the tables files (size and hash) and chunks (COMPLETED rows with the hash of their part), and the row ids that were given out |
| `posted`, `discord`, `sweep` | what each message was posted as (its seal is the associated data of the cipher), the messages still there, the messages `handleDelete` has yet to remove |
| `up` | an upload under way, part by part, reusing messages of stored parts, and the record it will write back |
| `cache`, `order` | `chunkCache` and `cacheOrder` |
| `reader`, `slot` | a call of `VerifyFile` or `GetFileBytes`, and its fetch of each part |
| `versions`, `deleted` | what was uploaded under each file id, and which ids were ever deleted (history) |

A fetch goes `Lookup` (cache), `Stored` (the URL in the row), `Fresh`
(`AttachmentURL` and the refreshed URL), `Open` (the cipher, with the associated
data of this file and of every row with the same hash), `Others` (the copies on
other servers), `Put`.  Readers: `Start`, `ReadRows`, `Verdict`, `Return`,
`Cancel`.  Around them: `BeginUpload`, `StorePart`, `Count`, `EndUpload`, `DeleteFile`,
`DeleteMessage`.  Queries fail where the code makes them: `GetFile` (`Start`),
`GetChunksForFile` with an error or with a list that stops short, which
`rows.Next` ends without a word (`ReadRows`, `Others`), `FindChunksByHash`
(`Open`: only the associated data it named are tried), and either statement of
`handleDelete`, after which the messages are removed all the same.  An upload that
has counted its rows writes its record back even if the file was deleted meanwhile
(`Count`, `EndUpload`).  `VerifyFile` compares each part with the hash of its row
(`Mismatched`), the size, and the whole with the hash of the file (`Sound`).

A plaintext stands for its hash; the refreshed URL that is written back changes
nothing the properties see, and the prefetch of the next part is left out.
`BeginUpload` reads and writes the record in one step.

| run | instance | shows |
| --- | --- | --- |
| `chunk_fetch` | two files of two parts, one part of the first on two servers, the second file reusing the first one's messages; a verification and a read, one worker, a cache of two; one upload or delete, or both where each file has only its first part; one download, query or statement that fails | `TypeOK`, `FetchHonest`, `FallsBack`, `AnswersTrue` |

The catalogs a run starts from are those of finished uploads (`SeedsAssumption`):
every part of a file has a row, and every row a message with the bytes of its part.
The cache holds two of the four parts that are fetched, so keys are evicted while
they are read.  `FetchHonest` is as strong as the code allows: the cache and
the rows are keyed by the file id, which a second upload to the path keeps, so a
reader may get parts of two versions, but never bytes of another file or part.
`FallsBack` and `AnswersTrue` say no more than the database lets the code know.  A
copy counts as one to fall back on as long as no query failed to name it (`held`).
A list of rows that was cut short or did not come, and one read when the file had
been deleted, is a reason to doubt the answer (`doubt`), and then anything may be
answered; without doubt, `VerifyFile` finds no differing part in a file uploaded
once and calls it broken only if a part could not be had (`lost`), and `GetFileBytes`
returns all of it.
`AnswersTrue` speaks of files that were uploaded once.  `FallsBack` says which
copies must have failed before a part is given up: all that were readable from
the beginning of the fetch to its end.

## 7. DiscordClient

`UploadChunk`, `AttachmentURL`, `DownloadChunk`, `DeleteMessage` and
`DeleteChannel`: the loop of attempts, the limiters (`blocked`: one global, one
for the webhook, one for the channel), and what Discord does with each attempt.
A time is what is left of it, and `Tick` takes one unit off all.  An attempt is
answered, refused, limited (429), or gets no usable answer, and then Discord may or
may not have acted on it (`Retry`).  `announced` and `due` are history: how long
Discord asked each limiter to be silent, and the part of it a call knew of when it
began to wait.

| run | instance | shows |
| --- | --- | --- |
| `discord_client` | two calls, an upload or a read beside an upload or a removal; three attempts, waits of up to two units, one cancel; fair | `Patient`, `OutcomeHonest`, `CallEnds` |

`Patient` is what `RateLimitTracker.Wait` achieves although it looks once and then
sleeps: it is about the waits that were known when an attempt began to wait; one
that is announced during the sleep is not seen (client.go:37).  `OutcomeHonest`
lets an upload leave messages that no row knows, when an answer is lost.
`FairSpec`: goroutines run, sleeps end, and an answer or the `Timeout` of
60 seconds of `http.Client` comes; this justifies the weak fairness of `Step`,
`Tick` and `Answer`.  Three attempts let every sequence of two
different failures come before an answer.  A request on which Discord acts after
the client gave up on it is not modelled, so deletes and retries do not cross on
the wire.

## 8. StoragePool

| variable | code |
| --- | --- |
| `category`, `channel`, `hooks` | Discord's side: categories with family and number, channels with their category, webhooks per channel |
| `row`, `pinned` | the table channels, and the setting of a base category |
| `call` | a run of `UploadFile` (which grows the pool), boot (`syncAllBotGuilds`), set-up, auto-provision, backup, or clean, with what it has listed (`cats`, `order`, `count`, `todo`) and collected (`items`) |
| `faults`, `hit` | requests that failed, and (history) the calls they belonged to |

One step is one request to Discord or one statement: `ListMeta`, `PostMeta`,
`List`, `FindCategory`, `PostCategory`, `PostChannel`, `HookNew`, `Ensure`,
`HookOld`, then `Record`, `RecordMeta`, `TakePool`; `BeginClean`, `Wipe`, `Forget`.  Any
request may fail, with or without effect on Discord; a status that refuses, and an
answer whose body does not come, are not looked at where the code does not: a channel
without an id, a webhook without a URL (client.go:776, 802), a list taken for an empty
one (client.go:713, pool.go:284).  One such answer is not followed further: a new
category without an id (client.go:749), with which `SyncPool` would go on at the root
of the server, is a call that fails.  `count` is the length of the slice of
channels that `SyncPool` compares with what it was asked for (pool.go:192); a
channel nobody created is counted as well.  `PoolAssumption` says that sets are
finite and that ids, wants and capacities are not 0, `MarksAssumption` that the marks
for nothing, deleted, outside and metadata differ from everything else.

| run | instance | shows |
| --- | --- | --- |
| `storage_pool` | any of 3 × 3 × 2 mixtures of three calls, one failing request, with or without a configured base category, one channel per category, uploads that want one or two | `TypeOK`, `MadeOnce`, `RowsUsable`, `EnoughChannels` |

With one channel per category the second channel already needs an overflow
category.  `Few` in `MCPool` stops at two calls once they overlap, and lets
three go one after the other: a third overlapping call adds nothing that two
cannot do to each other, but the number of states.  Known exceptions are
remembered in `spoiled`, and each is needed:

- `overlap`: two calls list the server before either has created what is missing,
  and both create it (pool.go:147); only calls of `syncAllBotGuilds` hold a lock.
- `taken`: auto-provision overwrites a row without its server (server.go:455),
  and a clean-up deletes channels under a call that is using them (server.go:531).
- `refused`: a create that Discord refuses with a status yields a channel without
  an id, or without a webhook, which set-up stores (client.go:776, server.go:1985).
- `unheard`: a list of webhooks is answered 200 and its body does not come;
  `ensureSingleWebhook` takes it for an empty one and makes a second webhook, with no
  other call in sight (pool.go:283-296).  `MadeOnce` gives up the count of webhooks
  then, and nothing else.

## 9. DriveTree

| variable | code |
| --- | --- |
| `files` | table files: parent id, whole path, folder or file, `trashed_at` |
| `issued` | ids that have been drawn |
| `h`, `about` | a request between two catalog calls, and (history) the paths it is about |
| `uploads` | the `FileRecord`s of uploads that are at work |

A row names its parent by id and repeats the parent's path in its own path.
Requests: `Rename`, `Move`, `Relocate` (the move of `handleFileUpdate`), `Create`
(folder, or upload
through the browser), `UploadTo` (the JSON upload, which gives a path and a parent),
`UploadDir`, `Delete`, `SetTrashed`; their steps are the
catalog calls between them, one row at a time where the code goes row by row
(`Rebase`, `DeleteFile`).  `Publish` is the last upsert of an upload, `Restart` the
migration that takes orphans to the root.

| run | instance | shows |
| --- | --- | --- |
| `drive_tree` | a folder in a folder with a file, next to a folder with a trashed row of a name used elsewhere; three requests of any kind, two at a time, two names, paths up to two long, with and without a leading slash | `TypeOK`, `Attached`, `BrowsingShowsLive`, `UploadEndKeepsPlace` |

Three levels are the smallest tree in which a folder moves with something below
its children.  What happens after one of `spoiled` is cut off (`CONSTRAINT
Unspoiled`), since the properties say no more then:

- `overlap`: two requests are about the same part of the tree, which nothing
  prevents (qol.go:520);
- `gone`: a request names a folder that has been deleted, and counts as one for
  the root while the row keeps the id;
- `misfiled`: a JSON upload whose path is not that of its parent and a name, which it
  never is when the path has a leading slash, as the default path has
  (server.go:758, uploader.go:248), or a folder upload to a path at which there is
  no folder, so that it hangs at the root with a long path (uploader.go:780);
- `relocate`: `handleFileUpdate` rewrites paths and leaves `parent_id` (qol.go:307);
- `remade`: a folder upload onto a path that exists keeps the old id and hangs its
  contents below the new one (uploader.go:788);
- `blocked`: a `RenameFile` of a row below meets a UNIQUE path, its error is
  dropped, and the folder moves without it (qol.go:557);
- `outlived`: the record of an upload is written when its row is gone, its path
  is taken, or the row has another parent (uploader.go:744);
- `crash`: the process stops in the middle of a request.

The runs and the proofs rest on two assumptions: the drives to start from are in order
(`TreeAssumption`), and the local folder of a folder upload is listed from the top down
(`WalkAssumption`), as `filepath.Walk` does.

Not in the model: favourites, statements that fail for other reasons than a
UNIQUE path, the order in which `GetAllFiles` gives the rows below a folder (any
order is allowed), parents named by ids that were never drawn, written paths that
are not clean (`a//b`, `..`, a slash at the end).

## 10. CatalogBackup and Shares

`Shares` is the table shares with the requests on it (`FindShared` and
`CreateShare`, `Revoke`, `Expire`, `Visit` and `Serve`, `DeleteSharesForFile`); it
reads the table files, and `CatalogBackup`, which extends it, writes it.
`CatalogBackup` puts `Sync` (`SyncList`, `SyncChunks` file by file, `SyncPost`) and
`Restore` (`Fetch`, `RestoreFile`, `RestoreChunk`, `RestoreEnd`) beside an upload in
three kinds of steps (`Insert`, `StorePart`, `Publish`), `Rename`, and the steps of
`handleDelete` (`ReadDeleted`, `DeleteFile`, `DeleteShares`, `DeleteMessages`).

| variable | code |
| --- | --- |
| `files` | table files: path and hash, by id (a hash is the upload of the bytes it was computed from) |
| `chunks`, `names` | table chunks: the status of a row, and the message it names once COMPLETED; a row is its upload and its part |
| `messages` | storage channels on Discord; a message is named after the row it was posted for |
| `uploads` | `runUpload`: path, file, and hash of the record as read at the start, parts stored |
| `deletes` | `handleDelete`: the file, and the messages its rows named |
| `newest`, `sync`, `restores` | the newest message of the metadata channel, and the local variables of `Sync` and `Restore` |
| `shares`, `links`, `late`, `visits` | table shares, who made a link, whether its `expires_at` has passed, public requests |

`Insert` makes a new row or takes over the one at the path, with its id and its old
hash (uploader.go:345), which `Publish` then keeps (`:737`).  `StorePart` posts a part or
gives the row the message of any other COMPLETED row (uploader.go:556: which bytes
are equal is left open).  `DeleteFile` may fail at either of its two statements and
`DeleteShares` at its one; `handleDelete` goes on to the messages either way
(server.go:1150).  `SyncList` may get a list that stops short (db.go:587).

| run | instance | shows |
| --- | --- | --- |
| `catalog_backup` | a stored file and an upload, to its path or another, two paths, one part each, one link and one visitor; two `Sync`s, a `Restore`, a delete, and one rename, failing statement or list cut short; 0.9 million states | `TypeOK`, `BackupHoldsSettled`, `RestoreBringsBack`, `HashIsOwn`, `RowsReadable`, `LinksHonest` |

Two `Sync`s with a `Restore` between them let a restored mistake enter the next
backup.  A behaviour that has made a link is followed up to the second `Sync`
(`CONSTRAINT LinksOrSecondBackup`): links and backups only meet in the table files,
and a deleted file comes back from the first one.  Exceptions (`spoiled`), each needed:

- `unread`: `GetAllFiles` stops short (db.go:587) or `GetChunksForFile` fails or stops
  short; the file is not in the backup, or without its parts, and `Sync` reports
  success (catalog.go:74);
- `dropped`: a statement of `Restore` fails and nobody looks (catalog.go:181);
- `overwritten`: the upsert of `Restore` meets a row with another hash, whose id
  stays and whose hash and size go (catalog.go:165, db.go:474);
- `outlived`: an upload ends when its row is gone or at another path, or puts back
  an older hash than the row has by now (uploader.go:744).

`RowsReadable` excepts three kinds of rows, each a case in which the code does lose
the message: those a `Restore` wrote again after a delete (catalog.go:167) and those a
failed `DELETE` left (both `revived`), and those that name a message two rows were
given (`shared`), which goes with the first file deleted.  `LinksHonest` has two
halves.  `EndedStayEnded`: a request that begins after its link was revoked, expired or
deleted with its file is not served; links that a delete did not take along, because
the row was stored after it (share.go:44-71) or its statement failed (server.go:1152),
have not ended.  `LiveLinksStay`: no other request takes a link away.

One `Sync` runs at a time, which nothing in the code ensures (server.go:1312).  The
trash flag, folders, job rows, download counts, the clamp of a link's lifetime and
`migrateSharesID` are left out; a link to a trashed file still serves it, in the code
and here.  A `Restore` whose backup cannot be fetched or opened changes nothing
and is not a step.

## 11. MasterKey

| variable | code |
| --- | --- |
| `salt`, `hash` | settings `master_salt_hex`, `master_pass_hash` |
| `keys` | the key in uploader, downloader and catalog manager, set one after the other |
| `sessions` | browser sessions, with the key of the moment they were issued |
| `req` | requests, and the boot, between two statements |
| `job`, `sealed` | the key of a running upload, and the keys parts on Discord are sealed with |

A key is its password and its salt, and stands for its hash.  Actions: `Begin`,
`ReadHash`, `UnlockSalt`, `ReplaceSalt`, `StoreSalt`, `StoreHash`, `SetKey`, `Issue`,
`Lock`, `BootRead`, `BootKeys`, `StartUpload`, `StorePart`, `Stop`.

| run | instance | shows |
| --- | --- | --- |
| `master_key` | two requests out of unlock, set password, settings, lock, and a third that unlocks; two passwords, one of them also the sign-in password; boots with and without a password, two stops, one statement without an answer, four salts | `Unlockable`, `EnginesAgree`, `PartsOpen`, `SessionsCurrent` |

Four salts are as many as the requests and boots of the instance can make.
A statement that is not answered may have taken effect or not (`SetSetting`).
Exceptions: `race` (two requests that may write salt and hash at the same time,
server.go:2133), `torn` (salt and hash, or hash and engines, no longer belong
together: a replacement is cut off between the two by a stop, by a salt that is
stored without an answer or by a hash without an answer, server.go:2238; or the
boot or `handleSettings` goes on after a write that did not happen, main.go:75,
server.go:371), `misread` (`GetSetting` fails and counts as unset, server.go:2134);
what they leave behind is cut off by `CONSTRAINT Unspoiled`.  `replaced` and `kept`
only limit the properties that say so: a replaced password leaves parts under
the old key, and `handleSettings` leaves sessions alone (server.go:371).
Token lifetimes, API tokens and the back-off after wrong passwords are left out.

## 12. Where the code does something else

`claim_server_loss` checks a sentence of the program's README and TLC finds a
behaviour that contradicts it: deduplication lets the copy for a second server
name the message on the first (uploader.go:557 against README.md:44).

Met while modelling, and visible in the models (as an exception, or in what a
property does not say), without a run of their own:

- A job that is ACTIVE when the process stops stays ACTIVE; nothing resumes or
  fails it (db.go:264; qol.go:125 counts on it).
- The final upsert puts back a file that was deleted after the count
  (uploader.go:744, against :718), or undoes nothing but also reappears at an
  old path.
- A second upload to a path keeps the id and the first hash, and stores its parts
  beside the old ones (uploader.go:346, 737; server.go:947).
- Deleting a file removes messages that rows of other files reuse
  (server.go:1166; qol.go:39; `shared`).
- A cancelled job leaves `activeJobs` while its goroutines still read and post
  (uploader.go:860; :116 says what `IsJobActive` is for).
- Of two uploads to a new path the second one's job names an id that no row has
  (uploader.go:344).
- A client that reads nothing lets the result map of a stream grow to the whole
  file (downloader.go:593, against :451).
- A download to a local path opens it `O_WRONLY`, so reading it back fails and the
  comparison of the hash is skipped; a cancelled download job goes on to COMPLETED
  (downloader.go:776, 926, against :932).
- `ensureSingleWebhook` is called for every listed channel, and a `SyncPool` that
  overlaps with another makes a second webhook (pool.go:147); so does one whose list
  of webhooks lost its body (pool.go:284; `unheard`).
- A folder move checks the destination and then moves row by row; a trashed row
  below the destination blocks one of them after others have moved
  (qol.go:557, 582).
- A JSON upload takes path and parent as they come, and a folder upload to a path
  without a folder hangs at the root: such a row is listed in one place and has the
  path of another (server.go:758, uploader.go:780; `misfiled`).
- An upload onto a path whose row is in the trash stays in the trash (db.go:461;
  qol.go:125).
- `GetChunksForFile` does not ask whether the rows came to an end (`rows.Err`): of a
  list that stops short `GetFileBytes` returns the beginning of the file as the whole,
  `VerifyFile` calls the file broken, and copies that would work are not tried; nor
  does `fetchSingleChunk` look at the error of `FindChunksByHash` (db.go:946-962,
  downloader.go:212; `doubt`, `held`).
- An upload that has counted its parts writes its record back after the file was
  deleted: a COMPLETED file without parts (uploader.go:744).
- A `DELETE` that fails leaves the rows, and the messages go all the same
  (server.go:1150, 1166; `revived`); one on the shares leaves links of a file that is
  gone (server.go:1152).
- `GetAllFiles` does not look at `rows.Err` either: a list that stops short is
  posted and acknowledged as a backup of everything (db.go:587-602; `unread`).
- An upload that began before another one to the same path, or before a `Restore`,
  puts the hash back that it read at its start (uploader.go:345, 737; `outlived`).
- `VerifyFile` reads through the cache and can call a file sound whose messages are
  gone (verify.go:37, downloader.go:155).
- A replaced password stores the salt and then the hash; a stop in between, or an
  error on the salt that was stored all the same, leaves the new salt with the old
  hash, and no password opens the drive (server.go:2238; `torn`).
- The salt is stored in the database only; without the database no backup can be
  opened (catalog.go:154).

Further hazards beside those of `PROJECT.json`, not covered by a property unless it
says so: the capacity of `errChan` in the upload pool (uploader.go:510;
it holds by counting, one error per item); gaps in the indices of COMPLETED parts
(downloader.go:527; section 4); two downloads to one path (downloader.go:776;
excepted by `DoneMeansWritten`); `CreateChunks` failing after the job row was
written (uploader.go:451; the job stays ACTIVE); two uploads to one new path
(uploader.go:344); two moves that put two folders into each other (qol.go:569,
`overlap`); a folder upload onto an existing path (uploader.go:788, `remade`);
names "." and ".." (server.go:618); an empty part (downloader.go:225); two `Sync`s
at once (server.go:1312); `AddChannel` without a server (server.go:455, `taken`); a
clean-up that deletes the configured base category, after which `SyncPool` fails
(client.go:674, pool.go:77; modelled); `SetupServerWithToken` working with a client
of its own that knows no base category (client.go:853; modelled).

## 13. Theorems

For all values of the constants: any sets of uploads, files, paths, hashes, servers,
parts, calls and requests, any number of goroutines and any limits on events.  Each
rests on the named assumption of its module (`UploadAssumption`, `BackupAssumption`,
`ClientAssumption`, `KeyAssumption`, ...), which TLC evaluates in the module's runs.

| theorem | module | states |
| --- | --- | --- |
| `TypeCorrect` | `UploadEngineProofs` | `Spec => []TypeOK` |
| `OwnedAlways` | | `Spec => []Owned` |
| `StoredCopiesAreFinal` | | `Spec => StoredIsFinal` |
| `DoneIsStored` | | `Spec => []DoneMeansStored` |
| `BytesMatch` | | `Spec => []StoredBytesMatch` |
| `SourceIsKept` | | `Spec => []SourceUntilOpened` |
| `EngineKeepsPromise` | | `Spec => KeepsPromise`: `UploadEngine` implements `UploadPromise` |
| `ProgressIsHonest` | | `Spec => []ProgressHonest` |
| `DownloadTypeCorrect` | `DownloadProofs` | `Spec => []TypeOK` |
| `DownloadWritten` | | `Spec => []DoneMeansWritten` |
| `VerdictsAreHonest` | | `Spec => []VerdictHonest` |
| `FetchTypes` | `FetchProofs` | `Spec => []TypeOK` |
| `OwnBytesOnly` | | `Spec => []FetchHonest` |
| `NoEarlyFailure` | | `Spec => FallsBack` |
| `VerdictsTrue` | | `Spec => []AnswersTrue` |
| `StreamTypeCorrect` | | `StreamSpec => []StreamTypeOK` |
| `StreamDelivers` | | `StreamSpec => Delivers`: `Stream` implements `OrderedDelivery` |
| `StreamNoLostWakeup` | | `StreamSpec => []NoLostWakeup` |
| `PoolTypes` | `PoolProofs` | `Spec => []TypeOK` |
| `RowsPointHome` | | `Spec => []RowsUsable` |
| `NothingTwice` | | `Spec => []MadeOnce` |
| `UploadsGetChannels` | | `Spec => []EnoughChannels` |
| `TypeCorrect` | `DriveProofs` | `Spec => []TypeOK` |
| `AlwaysAttached` | | `Spec => []Attached` |
| `UploadEnds` | | `Spec => UploadEndKeepsPlace` |
| `BrowsingAgrees` | | `Spec => []BrowsingShowsLive` |
| `BackupTypeCorrect` | `BackupProofs` | `Spec => []TypeOK` |
| `HashesAreOwn` | | `Spec => []HashIsOwn` |
| `BackupsHold` | | `Spec => []BackupHoldsSettled` |
| `RestoresBringBack` | | `Spec => []RestoreBringsBack` |
| `RowsAreReadable` | | `Spec => []RowsReadable` |
| `LinksAreHonest` | | `Spec => []LinksHonest` |
| `ClientTypeCorrect` | `ClientProofs` | `Spec => []TypeOK` |
| `CallsArePatient` | | `Spec => []Patient` |
| `OutcomesAreHonest` | | `Spec => []OutcomeHonest` |
| `KeyTypeCorrect` | `KeyProofs` | `Spec => []TypeOK` |
| `SomePasswordOpens` | | `Spec => []Unlockable` |
| `EnginesHoldOneKey` | | `Spec => []EnginesAgree` |
| `PartsCanBeOpened` | | `Spec => []PartsOpen` |
| `SessionsAreCurrent` | | `Spec => []SessionsCurrent` |

### UploadEngine

Assumptions: `UploadAssumption` (an upload has at least one part and one server,
and at most `MaxItems` copies; at least one goroutine; `None` is no name) and
`LimitAssumption`; TLC evaluates the assumptions of a module in each of its runs.

The argument.  `StoredIsFinal` says that the row of a stored copy only goes with
its file, or is marked failed by the one goroutine whose own UPDATE stored it and
was not answered.  That is not inductive: it needs that no other goroutine can
ever fail or store an item that is already stored, and that is `Owned`: the items at work in a pool are different (`InHand`), they were taken
from the channel (`taken`) and what was not taken is not stored (`Untouched`),
rows are written by `CreateChunks` and within the plan (`Planned`), and no
goroutine runs when `runUpload` is not waiting for it (`Drained`).  With that,
`DoneMeansStored` follows through `Counted`: a count that reaches the number of
planned copies covers all of them (`CountCovers`, by cardinality), and from then
on no step opens a copy again, because no goroutine is left whose UPDATE was not
answered (`SettledStays`).  `StoredBytesMatch` needs that the
message a goroutine holds between looking for a duplicate and recording it was
posted with the bytes of its item, even when the row it came from has gone:
`PostedSame`.

`SourceUntilOpened` follows from `Kept`: until the local file is opened it is there and
the job is in `activeJobs`, or a cancel has taken both.  Here and below, what other
uploads, deletes and cancels may do to an upload is said once (`Undisturbed`,
`OwnSteps`), so that each proof is about the upload's own steps.

That `UploadEngine` implements `UploadPromise` is proved step by step: the table
chunks is written by six actions (`RowsKeepPromise`), the table jobs by the others
(`JobsKeepPromise`), and no step writes a status in both.  A job is reported done
only with every copy settled, which is `Settled` of `Counted`; a copy is settled from
PENDING, which is `Pending`: what nobody has taken, or a goroutine has not yet stored,
has a row that waits; and a job that a request or a goroutine is about to write
exists (`Known`).

`ProgressHonest` is a count again (`Honest`).  What the job row shows is never more
than the copies that are stored and whose goroutine is through with them
(`Tallied`); as long as no statement failed, shown and in hand together are what was
taken from the channel, so that with nothing left in hand they are all.

### Stream

Delivery rests on `Ordered`: what has been sent is what the listed parts below the
next due one are, so appending the due part keeps the order, and a writer that has
sent as many parts as are awaited has sent the listed ones (`AwaitedIsEnough`, by
cardinality).  That no wakeup is lost needs `Awake`: a sleeping writer's part is
in the channel, in the hand of a goroutine that will broadcast, or the pool has
failed, and then the failure's broadcast has come.

### DownloadJob

`DoneMeansWritten` is the end of a chain.  While a pool is undisturbed (not
cancelled, no error) each row is in the channel, in a goroutine's hand or in the
local file (`NothingLost`), and as long as rows are left in the channel a
goroutine is there to take them (`Staffed`); so when all goroutines have left
without an error, everything is written.  Afterwards the file stays as it is: the
job's own goroutines have ended (`Idle`), and another job writes to the path only
if it is past its refusal, which `Alone` excludes.

`VerdictHonest` is a count (`Counted`): while the pool of a job nobody cancelled
works, the rows written, in the channel, in a goroutine's hand (`Busy`) and
reported as errors add up to the rows asked for; each action of a goroutine moves one
row from one of these to another.  When all goroutines have left nothing is in hand; with an error
fewer rows were written than asked for, and without one the channel is empty by
`Staffed`, so all of them were.  `Quiet` says that no context is cancelled before
somebody asks for it.

### ChunkFetch

Assumptions: `FetchAssumption` (parts are numbered from 0, at least one goroutine
and one place in the cache, `None` and the two marks are no id and no plaintext) and
`SeedsAssumption`; any number of files, readers, uploads, deletes, failed downloads and
failed queries.

The four properties rest on one invariant, `FetchInv`.  The catalog is true
(`CatalogTrue`): the bytes behind a row are bytes of its part of its file in some
version, and a file that has a hash and was never deleted has a row for every part of
its only version (`FileTrue`, `Complete`); an upload under way has rows for all it has
stored (`UploadTrue`), which is why counting them makes its record true.
Everything a reader and a fetch remember was read from an earlier catalog, so what
is known of them (`Truth`, `Tries`) must survive every change of it.  It does
because the catalog moves only one way (`CatalogMoves`): what was uploaded, posted and
deleted stays so, a row id is never given out twice, and a file that was not deleted
keeps its hash.  `Truth` and `Tries` are operators of explicit tables, so that
they can be stated of the tables before and after a change (`TruthStays`,
`TriesStay`).  The cache is true as long as uploads are remembered (`CacheTrue`), in
whatever order keys are put in and evicted; what a reader's goroutines bring into
the cache for another reader is true for that one too, which is why `FetchHonest`
needs the whole invariant.

`FallsBack` follows from the step in which a fetch gives up: the copies readable all
the time (`held`) are among those still to be tried, and none is left to try.
`AnswersTrue` needs no induction over the parts of a file: what is put together is
compared index by index with the recorded content (`Joined`, `Nth`).

### StoragePool

Assumptions: `PoolAssumption` and `MarksAssumption`; any number of calls of any
kind, categories, channels and failures, any capacity and any wants.

Each action is first reduced to what it does to its call (`Goes`, `Lists`, `Gets`,
`Takes`, `Puts`, `Rehooks`, `Writes`, `Ends`) and to the tables (the lemmas named
`...View`).  On these rests `Gates`, which is inductive by itself: types; what a call
remembers at each stage (`Ways`); one call of `syncAllBotGuilds` past its mutex
(`OneBoot`); and who can be inside together with whom before `spoiled` says so
(`Solo`, `Pure`).  Beside `Gates` there are three invariants, one for each property:

- `RowsInv`: a row, and an item that a call has yet to record, is of a channel that is
  there with a webhook of its own.  It is the invariant that says what a failed
  request may leave behind: an item without an id or a webhook, which everybody but
  set-up skips.
- `OnceInv`: Discord holds nothing twice (`World`), and a call that syncs alone knows
  the categories of its family by number (`KnowsNames`) and counts in each, and in
  all, no fewer channels than there are (`KnowsSizes`).  It is "no fewer" and not
  "as many": a channel whose creation failed is counted and not there, and with
  equality the invariant is not inductive.  The next number is free because the
  largest number known is the largest there is; that a finite set of numbers has a
  largest and a smallest element is `Extremes`.
- `EnoughInv`: what an upload counts is listed, just made, or in the catalog
  (`Secured`), and nothing that others do takes it away (`Stays`) unless a cleaning
  met it.  It speaks of calls none of whose requests failed (`hit`), while those of
  others may.

### DriveTree

Assumptions: `TreeAssumption` (the drives to start from are finite tables in which
every row hangs below its parent, like the empty one of a new catalog and those that
unspoiled requests leave, and no two rows have one path, which is UNIQUE at db.go:161;
`Root` is no id; the paths written out are sequences of names) and
`WalkAssumption` (`filepath.Walk` comes to a folder before it comes to what is in it);
any drive, of any depth, any names, any number of requests.

`Attached` is far from inductive: between two statements of a move the rows below the
folder hang partly below the new path and partly below the old one, and the folder
itself, which goes last, at the old one.  The invariant `Inv` is `Typed`, what a request
holds at each of its stages, and, as long as nothing is `spoiled`, `InOrder`:

- what a request is about will hang together when it is through (`Region`): `Final` is
  the table with the rest of its list done, each row still to be moved with the beginning
  of its path exchanged (`Swap`), each row still to be deleted gone;
- what it has read is still so: the row itself (`Subject`), the folder it goes to
  (`Destination`), the list of rows below (`List`), the folders an upload has made and
  the row it will store (`Uploading`);
- no two requests are about rows of one branch (`Apart`);
- a row that no request is about hangs below its parent.

Each step of a request is a `Turn`: it changes at most one row, which lies in the part of
the tree the request is about (`Confined`), and leaves its own request sound.  Every other
request sees none of it (`Keeps`, `SoundStays`), which is said once, of any two tables,
and not for each pair of steps; so there is one lemma for each statement (`...Turn`) and
one for each request that arrives (`...InOrder`).  That the list is complete, and that a
folder never goes below itself, is what makes the region hang together at the moment the
list is taken (`SetOff`).

`UploadEnds` follows at once: unspoiled, the row is where the upload put it, or the
upsert finds an equal row.  `BrowsingAgrees` avoids the induction over the tree that its
wording suggests: the rows shown after `n` rounds are the live rows with a path of at most
`n + 1` names (`ShownIs`, by the smallest `n` for which it fails, which exists because
`<` on the numbers is well-founded), and no path is longer than there are rows
(`NotDeep`: above a row there is one row at every depth).

### CatalogBackup and Shares

Assumptions: paths and parts are numbers, the files stored at the beginning have
different paths, `None` is no id and no link.  `Frame` and `WhoWrites` say once
which actions may write which table, so that each proof looks only at those.

Also common to them: files, rows and requests only name uploads that have begun
(`Known`), and a row that a backup holds is COMPLETED as long as it is there (`Kept`).

- `HashInv`: a hash that the table files, a listed or stored backup, or a restore has
  for a file is that of an upload of this file, or none (`OwnHash`); a file that an
  upload was for is missing only if it was deleted (`Missing`), and one with a finished
  upload lacks a hash only then (`DoneHash`).  The hash follows the id: `FileFacts` says
  that a row changes its hash only when an upload of the file ends.  Restores and
  stale records are the other ways, and both are `spoiled`.
- `SyncInv`: what a running `Sync` owes is stored in full, is listed with its hash, and
  is either still to be read or has all its rows in the record (`Listed`); what was
  promised before is among what it owes, so the new backup replaces the old one
  without a loss.
- `RestoreInv`: of each file a restore owes, the record is there or still to be written,
  and so is every row (`Coming`); at the end all are settled (`Paid`).
- `RowInv`: a message that a delete is about to remove is shared, or was posted for a
  row of the file; and once `DeleteFile` is past, that row is gone or `revived`.
- `LinkInv`: a row of the table shares is of a link that was made, for its file, and
  has not ended; a request under way found its link neither ended nor expired.

### DiscordClient

Assumptions: finitely many calls, at least one attempt and one unit of waiting,
`None` is no call and no operation.  `PatientInv`: a limiter is blocked at least as
long as Discord announced, and what a call was told to wait is covered by the
limiters it has yet to look at and the sleep it has counted (`Covered`); ticks take
the same from both sides (`HigherIs`).  `HonestInv`: a posted message is there or
has a remover, a channel that is gone is empty, and a call that has ended keeps
what it reported (`Done`).

### MasterKey

Assumptions: the boot is no request, `None` is no password, salt or key.  `Typed`
ties the boot to the requests: while the server is down no request is under way,
so the boot reads and writes alone.  `Facts`, as long as the settings are whole:
who sets the first password or replaces one is alone (`Alone`); the stored hash is
of the stored salt unless a replacement is between the two statements (`Cut`); an
engine has no key, the current key, or one that a replacement is about to
overwrite (`Engines`, `Ahead`); what a request has read is still what is stored
(`Sound`); without a password nothing has a key (`NoKey`).  Together they are
inductive, none of them alone: `Cut` needs `Sound` of the request that stores the
hash, `Sound` needs `Alone`, `Engines` needs `Sound` of the request that sets keys.

### Only model-checked

Every invariant and action property of the passing runs is a theorem.  Liveness under
fairness is outside the prover's reach and stays with TLC: `StagedRemoved`, `JobSettles`,
`StreamReturns`, `GoroutinesEnd`, `JobEnds` and `CallEnds`.  So does what a fold or a
recursive definition computes for data of every size, where no theorem speaks of it.

`TypeOK` of `UploadEngine`, `DownloadJob`, `DiscordClient` and `MasterKey` and
`StreamTypeOK` are theorems and not checked by a run; `claim_server_loss` is refuted by TLC, which
needs no proof.

## 14. Not modelled

- Cipher, key derivation, hashes: library calls.  Where the key or the associated
  data matters they are in `MasterKey` and `ChunkFetch`.  The PNG container is a
  length field around the payload.
- Thumbnails: a bounded cache in front of `GetFileBytes`, and image scaling.
- The content-defined chunker: nothing calls it.
- Statistics, health and telemetry; user and guild information; bot nodes;
  favourites; session and token lifetimes.
- Several processes on one database, and the statements of one call taken apart:
  the mutex of `db.Database` makes a call one step.
- The dashboard, the test harness, platform helpers.

`PROJECT.json` names each component with what is left out of it.
