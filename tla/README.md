# A TLA+ model of the object store

This directory holds TLA+ modules for the object store in `src/`, the TLC
configurations that check them on small instances, and theorems about them that
the TLA+ proof system checks for every instance. Paths below are relative to the
repository.

## The system

The program stores objects as files under a data directory, serves them over a
REST and an S3 interface, and keeps a key index for listings in fjall.

| part | state | operations | what makes it hard | what makes it correct |
|---|---|---|---|---|
| object writes, `crates/storage/src/write.rs`, `read.rs` | one file per key, temp files, `.lock` files, directory durability | `write_object` (plain, If-None-Match, If-Match), `delete_object` | each is a chain of system calls; writers race; power may fail in between | one instant at which a request takes effect; refusals that were true; an answer only after durability |
| listing index, `crates/index/src/lib.rs`, handlers in `crates/server/src/routes/objects.rs`, `s3/handler.rs` | the set of listed keys, beside the files | insert, delete, reconcile at start-up | file and index change in separate steps of an abandonable handler | listed exactly if there, once quiet; always repaired by a restart |
| list pages, `AppState::list_page` | cursor, the page being looked at | scan, up to 64 heads at once, next cursor | everything may change between the steps and the pages | no key twice or out of order, nothing missed that was there, an end |
| bucket access, `bucket.rs`, `resolve_access` | the xattr of a directory, a cache of it | create, update, delete, read-through | the cache lock does not span the xattr call | the cache agrees with the xattr once quiet |
| reads and copies, `read.rs`, `xattr.rs` | — | head, open, copy, move | several calls by path on a file that may be replaced | bytes and attributes of one version |
| downloads, `objects.rs`, `s3/handler.rs` | an open file per request | GET and HEAD with ranges and conditions | ranges at their edges, dates of a second, files put in place out of order | the bytes that were asked for, of one version; 304 only for what the client has |
| sync group, `sync.rs` | a bounded queue, a batch | enrol, linger, flush | batching, full queue, cancelled writers | a writer goes on only after the sync of its own file |
| multipart, `multipart.rs` | a directory per upload | init, part, list, abort, complete, collect | all of them may run at once, and a crash between any two steps | the object is the parts that were asked for |
| handoff, `handoff.rs`, `lib.rs` | listener, in-flight counter, directory lock, role | drain, seal, abort, commit | two processes on one directory and one socket, deadlines, aborts | what is stored is listed by the process in charge; an exit after a Commit cuts off only what the drain could not see; nobody waits for ever while somebody serves |
| clients, `sdk/ts` | retries, upload state | request with retry, upload hook | a lost answer to a request that was carried out | the outcome told is the outcome had |
| authentication, upload tokens, configuration, telemetry, TLS | none that the others depend on | | | |

How they interact: a handler calls the storage first and the index second; a
list request reads the index first and the storage second; a start-up runs
`create_bucket("default")`, reconcile, the two collections and only then opens
the listener; a handoff puts two such processes in sequence over one directory.

## The modules

| module | models | state and actions in the code |
|---|---|---|
| `ObjectWrites` | one path under `write_object` and `delete_object` | `object` is the directory entry, `disk` what a power loss leaves of it, `tmp`, `lockFile`, `fd`, `locked` the temp files, the `.lock` entry, the open handles and the flocks; one action per system call that other requests can notice |
| `AtomicObject` | what the storage promises of one path | submit, apply at one instant, persist, answer |
| `ListingIndex` | the handlers of put, copy, delete, move, the index and the reconcile | `files`, `index`, `saved` (the part of fjall's journal on disk); one action per storage call and per index call |
| `ListPages` | `AppState::list_page` and a client that pages, over `ListingIndex` | `Encode`, `LoBound` and `HiBound` are the byte strings of `scan`; `Scan` is the index range of a page, `Stat` and `ReadAttrs` are the two halves of `head_object`, any 64 of them in any order; `AnswerPage` folds the keys of a page at the delimiter and hands both lists on in order (`Sorted`) |
| `BucketAccess` | the access level of a bucket and its cached copy | `attr` and `cache`; the xattr call and the cache insert are two actions |
| `Multipart` | one upload under `init_multipart`, `write_part`, `complete_multipart`, `abort_multipart` and the collection | `dir`, `meta`, `part` are the upload's directory, its sidecar and its part files; a completion goes through check (getxattr by path) and open (by path again) for each part; `remove_dir_all` goes file by file |
| `SyncGroup` | `sync_file`, `run` and `flush` | `queue` is the channel, `batch` and `results` are those of the background task, `dirty` the files whose bytes are not on the disk |
| `ObjectReads` | HEAD, GET, copy, move, access change, put and delete on a few paths | `entry` is the directory, `file` the files (bytes, etag, level); `ByPath1`..`ByPath3` are the calls by path of `head_object` and `copy_object`, `Open`, `ReadHandle` and `Map` those by handle |
| `Downloads` | `parse_range`, `get_window`, `check_read_conditions`, the GET and HEAD handlers of both surfaces, and a client | `object` is the file at the path with size and modification time; `request`, `handle`, `answer` a request on its way; `held` what the client keeps |
| `Handoff` | `ObjectsHandoff`, `serve`, `PausableListener`, `record_metrics` in up to three processes | `phase` is where a process is in `serve`, `deal` and `partner` how far the supervisor is with which incumbent, `closed` is `accept_closed`, `gauge` is `http_connections_active`, `lock` the lock of the data directory, `listed` the index of a process |
| `UploadClients` | `buildFetch` with `put` and `delete` of the SDK, `uploadFile`, `uploadFiles` and `useAbort` of the hooks | `attempt` is the loop variable, `status` and `aborted` those of the `SelectedFile`; `orphans` the attempts nobody waits for |
| `MC...` | the instances for TLC | symmetry sets |
| `...Proofs` | theorems of the module they are named after; `ListingProofs` of `ListingIndex` and `ListPages`, `TransferProofs` of `Downloads` and `UploadClients` | |

Some modules define a second form of an action under a comment that begins with
"Bug:" (in `ObjectWrites` they are in a section of their own). No action of
`Next` uses them. Each is the action with a mistake the code could make, kept to
show that a property notices it: with the mistake in place, the run of the
property finds a counterexample.

### Object writes

The versions of the object are the requests that wrote them, and `Initial`. A
request goes through the temp file, the pre-check of If-Match, and one of three
commits: `renameat2(RENAME_NOREPLACE)`; plain `rename` and `fsync` of the
directory; or `commit_locked`: open the lock file, `flock`, re-check, rename,
fsync, unlink the lock file, close. `fd[r]` is the inode of the lock file that
`r` opened, so that two requests may hold "the lock" of one path on two inodes,
as the code allows after `remove_file`.

`CheckEtag` keeps the three outcomes of the getxattr: no file (an error), no
etag, a different etag. `CallFails` is any system call that returns an error on
a path with no clean-up; `Cancel` is hyper dropping the handler's future at an
await, with the closures in `spawn_blocking` carried out all the same. A death
of the process (`Kill`) closes handles and leaves files; a power loss also takes
back the directory changes not yet synced, and may bring back the temp name of a
create, whose rename out of `.tmp/` nobody syncs. `CleanupTmp` removes a temp file or
fails to, which `cleanup_tmp` only logs; so that a temp file may be left by any request
that does not rename it, and nothing is promised of them. What the start-up collection
of temp files removes depends on their age and is any subset.

`AtomicObject` is the linearizable specification: between its submission and its
answer each request takes effect at one instant, is refused only if its
condition fails at some instant, and is answered after its effect is durable
(creates excepted, as the code does). `Phase` is the refinement mapping.

### Listing index and pages

A handler is a sequence of storage and index calls. `Abandon` is the client
going away: the handler takes no further step, but the blocking call it is in is
finished. `StepFails` covers a storage call that failed after its rename or
unlink. `disturbed` is a history variable: the keys whose agreement nobody
promises until a restart, because a request on them failed or was abandoned half
way or because the making of the key overlapped its removal (the two index calls
can then come in the other order). Everything else must agree. `Die` may lose
the unsynced end of the index journal, and reconcile starts over.

The S3 handlers (`s3/handler.rs` put, delete, copy, complete) make the same
calls in the same order as the REST ones and are instances of the same actions.

In `ListPages` an entry of the partition is a number, and the numbers are in the
order of the bytes (`OrderAssumption`, which TLC evaluates): `Keys` are the keys of
the bucket, `Neighbours` entries of other buckets that stay. `Entry` gives each its
byte string, and the bounds of a scan are compared with those. A name of UTF-8 has
no byte 0xff, so the carry of `hi_bound` is written out but never taken. Only S3
has a delimiter; 0 stands for none. A group that goes on over the end of a page is
reported on both, as `collapse_with_delimiter` sees one page at a time.

### Object reads

A file is named by the request that made it, or by the path it was at first, and is
never changed after its rename but for its level. What a path names may change
between any two calls by path; a handle keeps its file. `got` is what a request has
read so far. `seen` (the files that were at its path since it began), `had` (the
levels a file ever had) and `overtaken` (a HEAD or copy whose path changed between
its calls) are history variables. A copy that was overtaken makes an object whose
etag and bytes are of two versions; `EtagMatchesBytes` says that nothing else does.
The level of the bucket is fixed here (`BucketAccess` has its cache), and power loss
is in `ObjectWrites`.

### Downloads

A version of the object is a size and a modification time; the size stands for the
etag, the bytes of a version are its positions. `Stage` closes a file and `Place`
renames it, so that a file `Overtake`n by a later one, or moved in, takes the
modification time at the path back. Two instants share a second. A range has a first
and a last number or lacks one, up to one more than the largest machine word
(`MaxWord`), which `parse` refuses. The range check of S3 is that of its library and
taken to be right. The client does one of three things: it tries ranges out, it
revalidates a copy by etag, by date or both, or it takes the first byte and then
resumes, with If-Match or with If-Unmodified-Since.

### Handoff

The supervisor and the handoff library are external: an attempt goes through drain,
seal, begin, ready and commit, and may be given up at any time until Commit (`Abort`).
A successor that has not sent `Ready` then ends; one that has may go on serving beside
the incumbent, from the same socket. The incumbent serves again whether or not it gets
the lock back, since `resume_after_abort` only opens the gate.

The control thread of a process in `Faulty` may end with an error at any time, of an
attempt too (`ControlFails`). Its sender of `commit_rx` is dropped, which the server
takes for a commit, so that the process leaves with no drain ("failing"; "stopping" is
the process that was told to Commit). The lock it holds is dropped with the thread. With
nobody left to succeed, the next process is a cold start. Either way the process exits
at once, or after its last handler if it has no TLS and no DRAIN_TIMEOUT_SECS
(`Patient`).

Each process has its own view of the index, since fjall is opened twice over one
directory while the incumbent still runs; a request that runs in one process while
another one is in charge (`late`) reaches the files but not the index of that one. The
gauge counts a request from `record_metrics`, which the S3 fallback does not pass
through (`S3`), and is not taken back for a handler that is dropped. `gate` is where the
accept loop is: one that already waits in the kernel's accept takes one more connection
after the flag is set. SIGTERM, and the kill of a process that serves, are left out.

### Upload clients

The server and the network are external: an attempt takes effect or not, its answer
arrives or not, and an attempt nobody waits for may still be carried out
(`orphans`). `unlearned` counts the attempts of a call that ended without a word on
what they did; what a retried conditional PUT reports can be relied on only as far as
there are none. `ReadPut` looks at the status of the answer; `ReadDel` at the parsed
body, which is empty for an error that a gateway answers without one, so that such an
error counts as success. An upload hears of an abort if it began to listen before: from the
status "uploading" to the end of the upload for its callback, from the sending of the
XHR for the XHR. `SuccessIsExclusive` has an exception that takes three uploads of one
file (see below). The run has two, in which it cannot come up and the property says
that success is told alone; the theorem is about any number.

### Bucket access

`resolve_access` looks into the cache, else reads the xattr, then inserts; the
three mutators change the directory first and the cache second. The history
variable `late` holds the requests that another change overtook between the two
halves, and `stale` tells whether the last write of the cache was such a one.

### Multipart

The bytes of a part are its etag (an MD5), so a part is a value of `Contents`.
The requests race for one upload: `Exists` is the try_exists that begins a part
upload or a completion, and nothing holds the directory from then on. A rename
into a directory that is gone fails and leaves the temp file, and a clean-up may fail,
as in `ObjectWrites`; a removal may meet
a part that arrived after it read the directory, and then fails (`RemoveFails`).
`overtaken` is a history variable: the completions that found a part replaced
between the check of its etag and the open, the window in which the assembled
bytes need not be those asked for. `Die` is the death of the process with the
next one's `gc_temp_files` and `gc_multipart_uploads`; what these take depends on
ages and is any part of what is there. Power loss is not in this module, nor is
the index entry that a completion makes (`ListingIndex` has it).

### Sync group

A writer stands for a connection that uploads file after file. `Send` waits while
the channel is full. `timeout_at` polls the channel before the clock, so `Collect`
is possible after `Expire`; the window closes in the end because tokio's budget
makes the clock look through. A writer that is cancelled leaves its file in the
channel or the batch. `Stop` is the runtime dropping the task.

## The runs

All pass unless a counterexample is named. "Requests" are served once each, so
their number bounds the run; `MaxRestarts` bounds deaths. Model values stand for
requests and, where keys are not ordered, keys; symmetry is used for safety only.
Deadlock checking is off because the system stops when all requests are served.

| run | bounds | shows |
|---|---|---|
| `writes_mixed` | 3 requests, create/put/delete, 1 restart | `AckedDurable`, `CreateOnly` |
| `writes_cas` | 3 requests, If-Match for one etag or create, 1 restart | `TypeOK`, `CasReplacesExpected`, `OneWinnerPerEtag`, the implementation of `AtomicObject`, and `EveryRequestAnswered` |
| `index` | 2 requests, 2 keys, 2 deaths | `TypeOK`, `ListedExactly`, `MoveStaysListed`, `ReconcileExact` |
| `pages` | 1 put, delete or move beside the listing, 3 keys and 3 neighbours, pages of 2, prefixes and delimiter | `ShownAscending`, `StableShown`, `ShownIsAsked`, `ListingEnds` |
| `reads` | 3 requests of 7 kinds, 2 paths | `GetServesOneVersion`, `HeadIsOfItsTime`, `EtagMatchesBytes` |
| `downloads` | sizes 0, 2, 3; 4 instants in 2 seconds; words up to 4 | `WindowIsRight`, `NotModifiedIsCurrent`, `ResumedIsOneVersion` |
| `access_cache` | 3 requests, 1 restart | `TypeOK`, `CoherentUnlessOvertaken` |
| `multipart` | 3 requests, 2 parts, 2 contents, 1 death | `TypeOK`, `AssembledAsAsked`, `AckedPartsStay`, `AbortedStaysGone`, `NoSuchUploadMeansEnded` |
| `sync` | 3 writers, unbounded uploads, a channel of 1 | `TypeOK`, `OkIsDurable`, `NoneForgotten`, `EveryWriterAnswered` |
| `handoff` | 3 processes, 2 requests (one makes its object, one of the S3 surface removes it), one process patient and faulty | `ListedAsStored`, `OneSlips`, `CutOnlyUnseen`, `QueuedAreAccepted` |
| `clients` | 1 SDK call with 1 retry, 2 uploads of one file | `ToldTheTruth`, `SuccessIsExclusive`, `CallsEnd` |

Three requests are needed for the lock races (one holds, one waits on the old
inode, one opens a new one) and two keys for moves; with three keys and pages of
two a listing has a first page that is full and a last one that is not. The
process does not die in `pages`, to make room for the prefixes and the delimiter: a
page that fails is asked for again in it all the same, after a `ReadAttrs`. Two
deaths let a reconcile itself be interrupted. Three requests on an upload are a
completion, and a part upload and an abort beside it; two parts make a
completion read one part after it has checked another. Three writers at a
channel of one are one in the batch, one in the channel and one that waits for
room. Three requests on two paths let a copy be overtaken between two of its calls
by path while a third reads what it makes. Sizes 0, 2 and 3 have every relation
to ranges of numbers up to 5, and two instants of one second are what tells a date
from a time. With three processes an attempt fails and the next one succeeds, two
succeed in a row, or the successor of the first one fails and a third starts from
nothing; to let any process fail multiplies the states beyond the time of the run. One retry is a first and a last attempt; two uploads of one file
and an abort are what overlapping callbacks need. `downloads` is the one run whose
deadlocks are checked: its client always has a next request.

### Where code and documentation differ

One run, `writes_cas_three`, ends in a counterexample to what a test of the
repository says: the first of three If-Match writers unlinks the lock file while it
holds the flock. The second then holds the old inode, the third a new one; both find
the etag the first one wrote, both replace it (`write.rs:271`;
`tests/conditional_writes.rs:88`).

Noticed while modelling, without a run of their own. The properties that pass are
stated with these as their named exceptions.

In the storage:

- a plain PUT or a DELETE takes no lock and may come between the locked re-check
  and the rename (`write.rs:267`; `ARCHITECTURE.md:92`);
- the create path answers without an fsync of the directory, so that a power loss
  can undo an acknowledged create (`write.rs:117`; `ARCHITECTURE.md:433` calls
  storage operations durable);
- a DELETE that finds nothing is answered although the unlink before it may not
  be durable yet (`read.rs:106`);
- a refusal at the locked re-check leaves the temp file and `{key}.lock`
  (`write.rs:259`);
- a clean-up that fails is only logged, and the temp name of an acknowledged create may
  be back after a power loss (`crates/storage/src/lib.rs:67`, `write.rs:101`), so that
  a temp file does not mean a failed request;
- a copy whose source goes away before its xattrs are read leaves its temp file
  (`read.rs:151`), and one whose source is replaced between the two pairs the bytes
  of one version with the etag of another;
- a slow read-through of `resolve_access` overwrites the level of a later update in
  the cache, where it stays (`read.rs:229`);
- every start sets the level of `default` again (`lib.rs:365`);
- `DESIGN.md:143` describes the create as `O_CREAT|O_EXCL`, the code renames;
- `ARCHITECTURE.md:349` says a failed fsync leaves the temp file, the code removes
  it (`write.rs:60`);
- the API description lists 400 for a bucket named `default`, `create_bucket`
  accepts it.

In the handlers:

- a PATCH with the object's own key unlists it until the next start (`objects.rs:456`;
  the comment at `objects.rs:438` says it is never absent from the index);
- an object deleted between the stat and the getxattr of `head_object` fails the
  whole page (`read.rs:33`; the comment at `lib.rs:79` says it is skipped);
- an exactly full last page carries a cursor and has an empty page after it
  (`lib.rs:105`; `ARCHITECTURE.md:115` says that one key more is fetched);
- a group of a delimiter that straddles two pages is reported on both, and
  `start_after` of ListObjectsV2 is echoed and not applied;
- with both If-None-Match and If-Modified-Since S3 answers 304 by the date although
  the etag differs, for an object put in place late or moved in (`s3/handler.rs:836`;
  RFC 9110 has the date ignored then); `NotModifiedIsCurrent` states what is left;
- Last-Modified is cut to the second and the file's time is not, so that
  If-Unmodified-Since with an object's own date is refused unless the file was
  written on the second;
- a range number that does not fit 64 bits is answered 416 where a suffix or an end
  that long would be cut to the object;
- a completion indexes the key of its URL while the storage writes the key of the
  upload's sidecar (`s3/handler.rs:643`, `multipart.rs:317`), and the gauge
  `multipart_uploads_active` goes below zero with repeated aborts.

In the handoff:

- after the commit handlers that still run are cut off by the exit when
  DRAIN_TIMEOUT_SECS is set or TLS is on, although `ARCHITECTURE.md` lets them
  finish;
- a request of the S3 fallback, or one whose connection was open before, may run
  after the seal, next to the successor's reconcile: its object is stored and not
  listed (`late`);
- an error of the control thread reads as a commit: the process stops accepting and
  leaves with no drain, seal or successor (`lib.rs:498`, `:521`; the comment at
  `lib.rs:511` says that a commit-driven shutdown has been drained and sealed);
- an abort that does not get the lock back serves all the same, with nobody holding it
  (`handoff.rs:122`; `ARCHITECTURE.md` has the flock re-acquired);
- an error of accept is retried by the plain listener and ends a TLS server.

In the SDK:

- one timer serves all attempts of a call, so an attempt after a timeout fails at
  once; a stream body, or a Request that was sent, cannot be sent again;
- `put` throws when the body of a 201 breaks off, with the object written;
- `delete` reports success for any error whose body is empty (`client.ts:734`; the SDK's
  `README.md:58` and `client.ts:202` say it of a 404), so that a success may have
  removed nothing;
- an upload aborted while its token is awaited is sent all the same, and a failure of
  that token, or of the text of an answer, is reported after the abort;
- an upload begun after its file was aborted and another one's failure set the
  status to "error" leaves the status at "uploading" for good;
- an upload that was told of the abort while its token was awaited may report success
  after it: another one that fails takes the status from "aborted" to "error"
  (`index.tsx:417`, `:496`), a third that was already begun finds it not "aborted",
  sets "uploading" (`index.tsx:394`), sees the signal and leaves, and the 201 of the
  first then counts; the proof of `SuccessIsTold` found this, two uploads do not
  reach it;
- `throw await response.text()` stands in a `try` whose `catch` takes it, so that
  the server's message never reaches `onError`.

### Fairness

- `writes_cas` assumes weak fairness of each request's next step once its body has come:
  the runtime polls every handler and the kernel wakes flock waiters. The arrival of
  requests and of their bodies, which no timeout of the write routes bounds, is under
  none, and `EveryRequestAnswered` says nothing of an upload that does not end.
- `pages` assumes it of the list handler, of a client that goes on paging and
  repeats a page that failed, and of the reconcile of a starting server (with
  `MaxRestarts` above 0); nothing
  is assumed of the requests that change the bucket.
- `sync` assumes that the task is polled, the clock runs and every fdatasync
  ends (weak), and strong fairness of `Send`: room in the channel comes and goes,
  and the channel's semaphore serves its waiters in order.
- `handoff` assumes that the supervisor goes on with what it began (it may still give
  the attempt up), and weak fairness of each process, its accept loop and its handlers
  together: some task of a process that can run does. Nothing is assumed of clients,
  aborts and errors of a control thread.
- `clients` assumes that a server that is asked answers, that `generateToken` settles
  and that timers and callbacks run (weak); nothing of losses, timeouts and aborts.
  An XHR has no timeout of its own: without an answer or an error it would wait on.

## What is proved

| theorem | for every | rests on |
|---|---|---|
| `ObjectWritesProofs!TypeCorrect` | requests, etags, restarts | `Typed`: which pc belongs to which kind |
| `AckedWritesAreDurable` | same | `DurableInv`: who has not committed, or has synced since, is in neither `unsynced` nor `undone` |
| `OneWinner`, `RaceReplacesExpected` | number of If-Match requests for the one initial etag, beside If-Match: * and creates | `RaceInv`: until the initial version is replaced every lock handle is one inode, so that of the requests past the re-check at most one holds it; afterwards no re-check of the etag succeeds; `ReplacedInv`: versions keep their etags |
| `PlainWritesAreAtomic` | kinds without If-Match | `AtomicSteps`: under `Phase` every step is one of the atomic object or none, provided that an If-Match request renames only while its condition holds (`SwapsAreCurrent`); there is none here |
| `RacesAreAtomic` | as for `OneWinner` | `AtomicSteps`, with `SwapsAreCurrent` from `RaceInv` |
| `CreatesOnlyCreate` | requests, restarts, kinds | `LedgerInv`: there are no more creates than removals and what occupies the path; the same for the durable entry and what it keeps, which a power loss goes back to; `FreshInv`: nobody has committed before its commit |
| `ListingProofs!TypeCorrect`, `IndexFollowsFiles`, `MovesStayListed`, `RestartRepairs` | requests, keys, deaths | `IInv`: `Lag` names, for each undisturbed key on which files and index differ, the request that owes the next step; `Progress` and `Overlap` say it still can make it |
| `PagesDoNotDisturb` | same, and pages | each step of the client stutters in `ListingIndex`, each other one is a step of it |
| `PagesTypeCorrect`, `ListingsAscend`, `ListingsAreAsked`, `ListingsMissNothing` | names, neighbours, prefixes, delimiters and page sizes | `CursorsOK`, `PageOK`, `ShownOK`, `GroupsOK`, `StableOK`: what is shown is at or before the cursor, what is on the page after it and at or before the next one, and a stable key is behind the cursor and shown, or on the page, or still to come. Two facts about byte strings carry it: `RangeIsRight` (the entries between the bounds are the bucket's with the prefix, after the cursor) and `GroupsInOrder` (keys in order have groups in order) |
| `BucketAccessProofs!TypeCorrect`, `CacheIsRight` | requests, restarts | `WrongIsPending`: a wrong cache is about to be put right by a request nobody overtook; `FreshIsRight` says that it will put the right value |
| `MultipartProofs!TypeCorrect`, `AssemblyIsExact`, `AckedPartsAreKept`, `AbortIsFinal`, `NotFoundOnlyAfterTheEnd` | requests, parts, contents, deaths | `Shape`: which request can be where; `Assembling`: what is assembled is what the list says of the parts already done, and a checked part is still the one asked for unless the completion is overtaken; `GoneIsEmpty`, `OnePart` with `PartsStay`, `UploadStays` (while nothing has ended the upload its directory and its sidecar are there): one for each of the other properties |
| `SyncGroupProofs!TypeCorrect`, `SuccessIsDurable`, `NobodyForgotten` | writers, capacity | `HeldWait`, `HeldOnce`, `WaitersHeld`: the channel and the batch hold each waiting writer once and nobody who could start another upload; `ResultsRight`: a result is that of the file at its place |
| `ObjectReadsProofs!TypeCorrect`, `OneVersionServed`, `HeadsAreOfTheirTime`, `EtagsMatch` | requests, paths, kinds | `FilesOK`: what a path names, or named while a request ran, is `Settled`, its bytes and etag final; `PathAt` and `HandleAt`: each piece of `got` is of a file in `seen`, all of one file for a handle, and for a path unless it was overtaken; `EtagsOK`: a file that waits for its rename has the etag of its bytes too, or an overtaken copy's |
| `TransferProofs!TypeCorrect`, `RangesAreServed` | sizes, word widths, ranges | `ParseRange` and `GetWindow` computed case by case: the window is exactly the positions the range names |
| `CurrentIfNotModified`, `ResumedVersionIsOne` | files, instants, orders in which they are put in place | `VersionsOK`: no two files in reach have one modification time; `RequestOK`, `AnswerOK`, `HeldOK`: a request quotes what the client holds, an answer what the handle was, and all held bytes are of one version |
| `HandoffProofs!TypeCorrect`, `OneSlipsThrough` | processes, requests, attempts, faulty processes | `RolesOK`: who may be where in each stage of an attempt, and that the process being started is the last one; `LockOK`: nobody serves beside the holder of the lock who was started after it, and beside the incumbent of an attempt only the one that is Ready; `GateOK`: only the incumbent's gate is closed, and once a connection has slipped through its loop waits at the flag, not in the kernel |
| `ExitCutsOnlyUnseen` | same | `GaugeOK`: the gauge is never below the number of counted handlers that still run; `DrainOK`: once the drain is over, those are only the ones that it gave up on or that came later. It is about the exits that follow a Commit; an exit because the control thread failed has no drain |
| `ChargeListsStored` | same | `LateOK`: what runs beside a later process that serves or reconciles is late, and what ran in a later process than the one in charge; `IndexOK`: the index of every process that serves (it may be in charge again) agrees with the disk on what it did and on what earlier ones did, but for late requests and those of its own still between the two; that of a successor which has merged lacks only late files |
| `TransferProofs!ClientsTypeCorrect`, `ReportsAreTrue` | calls, kinds, retries | `SdkCallOK`: what took effect or still may is no more than the attempts of unknown outcome and the one whose answer the call holds |
| `SuccessIsTold` | uploads of one file | `UploadCallOK`: an upload sends once and hears of an abort before it ends; `StatusOK`: after the abort the status leaves "aborted" only by a failure, and is "uploading" again only by an upload that ended without a word |

None of the properties is inductive by itself: a single step can break
`OneWinnerPerEtag` or `AssembledAsAsked` from a state that satisfies it and that
no run reaches, which the strengthenings exclude. Each proof shows that the
initial states satisfy the strengthened invariant, that every action preserves
it, and that it implies the property.

The assumptions are the ASSUMEs of the modules: operations are among those the
code has, bounds are numbers, the sentinels differ from the requests, etags and
numbers they stand beside, the keys of a bucket are finitely many, strings hold
neither the byte 0 nor, in UTF-8, 255, no two buckets have one name, and a call is of
the SDK or of the hooks. `ListingProofs` and `TransferProofs` each are about two
modules, extended together; the names of the two do not meet.

Two proofs changed what is stated. `SuccessIsExclusive` was not inductive, and no
strengthening could make it so: with three uploads it is false of the code, and now
names the case. And of the pages the range of a scan had to be about byte strings, not
about the order of the keys alone, for "no key of another bucket" to be a fact about
`hi_bound`.

Only model-checked: the liveness properties (`EveryRequestAnswered`, `ListingEnds`,
`EveryWriterAnswered`, `QueuedAreAccepted`, `CallsEnd`), which are out of the
prover's reach. All other properties of the runs are theorems. The refinement is
proved where it holds: without If-Match, and for If-Match on the one etag that was
there first. Elsewhere `SwapsAreCurrent`, on which it hangs, is false of the code: a
plain PUT or a DELETE takes no lock, and with three writers and two etags the lock
itself does not exclude (`writes_cas_three`).

## Plan

Left to prove: nothing that a run checks and the prover can reach. Left to model, with
theorems for what it adds: SIGTERM and the kill of a process in the middle of a
handoff, `delete_bucket` beside the making of keys, power loss for multipart uploads.

## Not modelled

Authentication and upload tokens are pure functions of a request and its secret;
configuration, telemetry, metrics and the command line have no state the other
parts depend on, apart from the gauge of `Handoff`. The TLS listener has the accept
loop of `Handoff` (its process is not `Patient`) behind a handshake that is input
and output. `delete_bucket` beside the making of keys in it, and keys that are prefixes
of keys, are in no module but for the directory of `BucketAccess`. Of the S3 facade
the syntax of headers, ACLs and errors is left out, of the SDK the parsing of
answers, of the hooks progress and previews; `list_parts`, `list_multipart_uploads`
and the bucket listing change nothing. Wording and layout of responses are left out
throughout.
