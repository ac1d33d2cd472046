----------------------------- MODULE ObjectWrites -----------------------------
(***************************************************************************)
(* How the storage crate commits writes to ONE object path, at the         *)
(* granularity of the system calls other requests can observe.             *)
(*                                                                         *)
(* A request is a PUT without condition ("put"), with If-None-Match: *     *)
(* ("create"), with If-Match ("ifMatch"), or a DELETE ("delete").  The     *)
(* commit of a copy, a move and a completed multipart upload is, seen from *)
(* the destination path, the commit of a "put".  A version of the object   *)
(* is named after the request that wrote it; a lock inode after the        *)
(* request whose open(O_CREAT) created it.                                 *)
(*                                                                         *)
(* Two file systems views are kept: `object` is what a running process     *)
(* sees at the path, `disk` is what a power loss would leave there.        *)
(***************************************************************************)
EXTENDS Naturals, FiniteSets

CONSTANTS
    Requests,      \* the requests that arrive, each served once
    Kinds,         \* the kinds of request clients send
    Expected,      \* the etags If-Match requests carry (may include AnyEtag)
    Etags,         \* the MD5 etags of the bodies clients upload
    InitialEtags,  \* the etag xattr the pre-existing object may have
    AnyEtag,       \* If-Match: *
    NoEtag,        \* the file has no user.etag xattr
    Initial,       \* the version that exists before the first request
    NoObject,      \* no directory entry at the path
    NoLock,        \* no directory entry at {path}.lock
    MaxRestarts    \* bound: how often the process dies and is started again

Nothing == "nothing"  \* what a request that has not committed has replaced

ASSUME KindsAssumption == Kinds \subseteq {"put", "create", "ifMatch", "delete"}
ASSUME DistinctAssumption ==
    /\ Nothing \notin Requests \cup {Initial, NoObject}
    /\ Initial \notin Requests /\ NoObject \notin Requests \cup {Initial}
    /\ NoLock \notin Requests
    /\ AnyEtag \notin Etags \cup InitialEtags
    /\ NoEtag \notin Etags \cup Expected \cup {AnyEtag}
ASSUME BoundAssumption == MaxRestarts \in Nat

VARIABLES
    pc, kind, expects, etag, result,  \* the requests and their answers
    object, tmp,                      \* the path, and the files in .tmp/
    lockFile, fd, locked,             \* {path}.lock, open handles, flock owners
    disk, unsynced, undone,           \* the dirent a power loss would keep
    replaced,                         \* history: what each commit replaced
    restarts

reqVars  == <<kind, expects, etag>>
lockVars == <<lockFile, fd, locked>>
diskVars == <<disk, unsynced, undone>>
vars == <<pc, reqVars, result, object, tmp, lockVars, diskVars, replaced, restarts>>

Versions == Requests \cup {Initial}

Steps == {"idle", "uploading", "precheck", "create", "put", "putSync", "openLock",
          "flock", "recheck", "swap", "swapSync", "unlock", "release",
          "delete", "deleteSync", "done"}
Answers == {"none", "ok", "exists", "mismatch", "notFound", "error", "lost"}

\* The steps of a write whose rename is still to come.
Staging == {"uploading", "precheck", "create", "put", "openLock", "flock", "recheck",
            "swap"}

\* Every variable is in its range, and a write that has yet to rename its temp file
\* has one: no clean-up and no collection takes it away (write_object).
TypeOK ==
    /\ pc \in [Requests -> Steps]
    /\ kind \in [Requests -> Kinds \cup {"none"}]
    /\ expects \in [Requests -> Expected \cup {AnyEtag}]
    /\ etag \in [Versions -> Etags \cup InitialEtags \cup {NoEtag}]
    /\ result \in [Requests -> Answers]
    /\ object \in Versions \cup {NoObject}
    /\ disk \in Versions \cup {NoObject}
    /\ tmp \subseteq Requests
    /\ lockFile \in Requests \cup {NoLock}
    /\ fd \in [Requests -> Requests \cup {NoLock}]
    /\ locked \subseteq Requests
    /\ unsynced \subseteq Requests
    /\ undone \subseteq Requests
    /\ replaced \in [Requests -> Versions \cup {NoObject, Nothing}]
    /\ restarts \in 0..MaxRestarts
    /\ \A r \in Requests : pc[r] \in Staging => r \in tmp

Init ==
    /\ pc = [r \in Requests |-> "idle"]
    /\ kind = [r \in Requests |-> "none"]
    /\ expects = [r \in Requests |-> AnyEtag]
    /\ \E e \in InitialEtags :
          etag = [v \in Versions |-> IF v = Initial THEN e ELSE NoEtag]
    /\ result = [r \in Requests |-> "none"]
    /\ object \in {Initial, NoObject}
    /\ disk = object
    /\ tmp = {}
    /\ lockFile = NoLock
    /\ fd = [r \in Requests |-> NoLock]
    /\ locked = {}
    /\ unsynced = {}
    /\ undone = {}
    /\ replaced = [r \in Requests |-> Nothing]
    /\ restarts = 0

-----------------------------------------------------------------------------
(* Shared parts of the steps *)

Goto(r, step) == pc' = [pc EXCEPT ![r] = step] /\ UNCHANGED result

\* The request is answered: the closure returns, which closes the lock handle
\* and so gives up its flock.
Finish(r, answer) ==
    /\ pc' = [pc EXCEPT ![r] = "done"]
    /\ result' = [result EXCEPT ![r] = answer]
    /\ fd' = [fd EXCEPT ![r] = NoLock]
    /\ locked' = locked \ {r}

\* One rename or unlink at the path, visible at once and not yet durable.
Commit(r, version) ==
    /\ object' = version
    /\ replaced' = [replaced EXCEPT ![r] = object]
    /\ unsynced' = unsynced \cup {r}
    /\ UNCHANGED <<disk, undone>>

\* fsync of the parent directory makes every change of the path so far durable.
SyncDir ==
    /\ disk' = object
    /\ unsynced' = {}
    /\ UNCHANGED undone

\* xattr::get of user.etag at the path, against the If-Match value.  A missing
\* path is an ENOENT error of getxattr, not an absent attribute.
CheckEtag(r) ==
    IF object = NoObject THEN "error"
    ELSE IF etag[object] = NoEtag THEN "notFound"
    ELSE IF expects[r] \in {AnyEtag, etag[object]} THEN "ok"
    ELSE "mismatch"

\* cleanup_tmp: a remove_file that fails is only logged.
CleanupTmp(r) == tmp' \in {tmp, tmp \ {r}}

-----------------------------------------------------------------------------
(* Steps with a bug the properties below are meant to catch.  None is part of *)
(* Next; each takes the place of the step it is named after in one run.       *)

\* Upload forgets that If-Match goes through the pre-check.
UploadNoPrecheck(r) ==
    /\ pc[r] = "uploading"
    /\ Goto(r, kind[r])
    /\ UNCHANGED <<reqVars, object, tmp, lockVars, diskVars, replaced, restarts>>

\* rename instead of renameat2(RENAME_NOREPLACE).
CreateRenameReplaces(r) ==
    /\ pc[r] = "create"
    /\ tmp' = tmp \ {r}
    /\ Commit(r, r) /\ Finish(r, "ok")
    /\ UNCHANGED <<reqVars, lockFile, restarts>>

\* Every request locks an inode of its own.
OpenLockPrivate(r) ==
    /\ pc[r] = "openLock"
    /\ lockFile' = r /\ fd' = [fd EXCEPT ![r] = r]
    /\ Goto(r, "flock")
    /\ UNCHANGED <<reqVars, object, tmp, locked, diskVars, replaced, restarts>>

\* flock(LOCK_SH).
FlockShared(r) ==
    /\ pc[r] = "flock"
    /\ locked' = locked \cup {r}
    /\ Goto(r, "recheck")
    /\ UNCHANGED <<reqVars, object, tmp, lockFile, fd, diskVars, replaced, restarts>>

\* The pre-check is taken for good enough.
RecheckSkipped(r) ==
    /\ pc[r] = "recheck"
    /\ Goto(r, "swap")
    /\ UNCHANGED <<reqVars, object, tmp, lockVars, diskVars, replaced, restarts>>

\* A refusal leaks the lock handle.
RecheckKeepsLock(r) ==
    /\ pc[r] = "recheck"
    /\ IF CheckEtag(r) = "ok"
         THEN Goto(r, "swap")
         ELSE /\ pc' = [pc EXCEPT ![r] = "done"]
              /\ result' = [result EXCEPT ![r] = CheckEtag(r)]
    /\ UNCHANGED <<reqVars, object, tmp, lockVars, diskVars, replaced, restarts>>

\* ... after the rename of a PUT or the unlink of a DELETE ...
SyncParentSkipped(r) ==
    /\ pc[r] \in {"putSync", "deleteSync"}
    /\ Finish(r, "ok")
    /\ UNCHANGED <<reqVars, object, tmp, lockFile, diskVars, replaced, restarts>>

-----------------------------------------------------------------------------
(* write_object up to the commit *)

StartPut(r) ==
    /\ pc[r] = "idle"
    /\ \E k \in Kinds \ {"delete"}, x \in Expected \cup {AnyEtag}, e \in Etags :
          /\ k = "ifMatch" => x \in Expected
          /\ k # "ifMatch" => x = AnyEtag
          /\ kind' = [kind EXCEPT ![r] = k]
          /\ expects' = [expects EXCEPT ![r] = x]
          /\ etag' = [etag EXCEPT ![r] = e]
    /\ tmp' = tmp \cup {r}
    /\ Goto(r, "uploading")
    /\ UNCHANGED <<object, lockVars, diskVars, replaced, restarts>>

\* The body reached the temp file and fdatasync returned.
Upload(r) ==
    /\ pc[r] = "uploading"
    /\ Goto(r, IF kind[r] = "ifMatch" THEN "precheck" ELSE kind[r])
    /\ UNCHANGED <<reqVars, object, tmp, lockVars, diskVars, replaced, restarts>>

UploadFails(r) ==
    /\ pc[r] = "uploading"
    /\ CleanupTmp(r)
    /\ Finish(r, "error")
    /\ UNCHANGED <<reqVars, object, lockFile, diskVars, replaced, restarts>>

\* The first look at the etag, before the commit and without the lock.  Only
\* the refusals clean up.
Precheck(r) ==
    /\ pc[r] = "precheck"
    /\ IF CheckEtag(r) = "ok"
         THEN Goto(r, "openLock") /\ UNCHANGED <<fd, locked>>
         ELSE Finish(r, CheckEtag(r))
    /\ IF CheckEtag(r) \in {"notFound", "mismatch"} THEN CleanupTmp(r) ELSE UNCHANGED tmp
    /\ UNCHANGED <<reqVars, object, lockFile, diskVars, replaced, restarts>>

-----------------------------------------------------------------------------
(* The three commits of write_object, and delete_object *)

\* renameat2(RENAME_NOREPLACE): the request is answered right after it, with no
\* fsync of the directory.
CreateRename(r) ==
    /\ pc[r] = "create"
    /\ IF object = NoObject
         THEN Commit(r, r) /\ Finish(r, "ok") /\ tmp' = tmp \ {r}
         ELSE Finish(r, "exists") /\ CleanupTmp(r) /\ UNCHANGED <<object, diskVars, replaced>>
    /\ UNCHANGED <<reqVars, lockFile, restarts>>

CreateFails(r) ==
    /\ pc[r] = "create"
    /\ CleanupTmp(r)
    /\ Finish(r, "error")
    /\ UNCHANGED <<reqVars, object, lockFile, diskVars, replaced, restarts>>

PutRename(r) ==
    /\ pc[r] = "put"
    /\ Commit(r, r)
    /\ tmp' = tmp \ {r}
    /\ Goto(r, "putSync")
    /\ UNCHANGED <<reqVars, lockVars, restarts>>

\* open(O_CREAT) of {path}.lock: the inode linked there now, or a fresh one.
OpenLock(r) ==
    /\ pc[r] = "openLock"
    /\ lockFile' = IF lockFile = NoLock THEN r ELSE lockFile
    /\ fd' = [fd EXCEPT ![r] = lockFile']
    /\ Goto(r, "flock")
    /\ UNCHANGED <<reqVars, object, tmp, locked, diskVars, replaced, restarts>>

\* flock(LOCK_EX) blocks while another handle of the SAME inode is locked.
Flock(r) ==
    /\ pc[r] = "flock"
    /\ \A q \in locked : fd[q] # fd[r]
    /\ locked' = locked \cup {r}
    /\ Goto(r, "recheck")
    /\ UNCHANGED <<reqVars, object, tmp, lockFile, fd, diskVars, replaced, restarts>>

\* A refusal here returns at once: the temp file and the lock file stay.
Recheck(r) ==
    /\ pc[r] = "recheck"
    /\ IF CheckEtag(r) = "ok"
         THEN Goto(r, "swap") /\ UNCHANGED <<fd, locked>>
         ELSE Finish(r, CheckEtag(r))
    /\ UNCHANGED <<reqVars, object, tmp, lockFile, diskVars, replaced, restarts>>

SwapRename(r) ==
    /\ pc[r] = "swap"
    /\ Commit(r, r)
    /\ tmp' = tmp \ {r}
    /\ Goto(r, "swapSync")
    /\ UNCHANGED <<reqVars, lockVars, restarts>>

SwapSync(r) ==
    /\ pc[r] = "swapSync"
    /\ SyncDir
    /\ Goto(r, "unlock")
    /\ UNCHANGED <<reqVars, object, tmp, lockVars, replaced, restarts>>

\* remove_file({path}.lock) while the flock is still held: it unlinks whatever
\* inode is linked there now, and its failure is ignored.
UnlinkLock(r) ==
    /\ pc[r] = "unlock"
    /\ lockFile' \in {NoLock, lockFile}
    /\ Goto(r, "release")
    /\ UNCHANGED <<reqVars, object, tmp, fd, locked, diskVars, replaced, restarts>>

Release(r) ==
    /\ pc[r] = "release"
    /\ Finish(r, "ok")
    /\ UNCHANGED <<reqVars, object, tmp, lockFile, diskVars, replaced, restarts>>

StartDelete(r) ==
    /\ pc[r] = "idle" /\ "delete" \in Kinds
    /\ kind' = [kind EXCEPT ![r] = "delete"]
    /\ Goto(r, "delete")
    /\ UNCHANGED <<expects, etag, object, tmp, lockVars, diskVars, replaced, restarts>>

\* Deleting what is not there succeeds without an fsync.
Unlink(r) ==
    /\ pc[r] = "delete"
    /\ IF object = NoObject
         THEN Finish(r, "ok") /\ UNCHANGED <<object, diskVars, replaced>>
         ELSE /\ Commit(r, NoObject)
              /\ Goto(r, "deleteSync")
              /\ UNCHANGED <<fd, locked>>
    /\ UNCHANGED <<reqVars, tmp, lockFile, restarts>>

\* The last step of a plain PUT and of a DELETE.
SyncParent(r) ==
    /\ pc[r] \in {"putSync", "deleteSync"}
    /\ SyncDir
    /\ Finish(r, "ok")
    /\ UNCHANGED <<reqVars, object, tmp, lockFile, replaced, restarts>>

-----------------------------------------------------------------------------
(* Failures *)

\* A system call of a step that has no clean-up fails (EIO, ENOSPC, EINTR...):
\* the `?` returns with the temp and lock files as they are.
CallFails(r) ==
    /\ pc[r] \in {"precheck", "create", "put", "putSync", "openLock", "flock",
                  "recheck", "swap", "swapSync", "delete", "deleteSync"}
    /\ Finish(r, "error")
    /\ UNCHANGED <<reqVars, object, tmp, lockFile, diskVars, replaced, restarts>>

\* The client goes away and the server drops the handler's future at an await.
\* A commit runs in spawn_blocking, which is not interrupted; but nobody is left
\* to clean up after one that finds the path taken.
Cancel(r) ==
    /\ \/ pc[r] \in {"uploading", "precheck", "deleteSync"}
       \/ pc[r] = "create" /\ object # NoObject
    /\ Finish(r, "lost")
    /\ UNCHANGED <<reqVars, object, tmp, lockFile, diskVars, replaced, restarts>>

InFlight(r) == pc[r] \notin {"idle", "done"}

\* gc_temp_files at start-up: of the temp files there are, the old ones go.
GcTempFiles(there) == tmp' \in SUBSET there

\* The process dies and is started again: handles and locks are gone, files stay.
Restart ==
    /\ restarts < MaxRestarts
    /\ restarts' = restarts + 1
    /\ pc' = [r \in Requests |-> IF InFlight(r) THEN "done" ELSE pc[r]]
    /\ result' = [r \in Requests |-> IF InFlight(r) THEN "lost" ELSE result[r]]
    /\ fd' = [r \in Requests |-> NoLock]
    /\ locked' = {}
    /\ UNCHANGED <<reqVars, replaced>>

Kill ==
    /\ Restart /\ GcTempFiles(tmp)
    /\ UNCHANGED <<object, lockFile, diskVars>>

\* The machine loses power: the path falls back to its durable entry.  Nobody
\* fsyncs .tmp/, so any entry it ever had may be back, or be gone.
PowerLoss ==
    /\ Restart
    /\ GcTempFiles({r \in Requests : kind[r] \notin {"none", "delete"}})
    /\ object' = disk
    /\ undone' = undone \cup unsynced
    /\ unsynced' = {}
    /\ lockFile' \in {NoLock, lockFile}
    /\ UNCHANGED disk

\* The kernel may write the directory back at any time.
Writeback ==
    /\ unsynced # {}
    /\ SyncDir
    /\ UNCHANGED <<pc, reqVars, result, object, tmp, lockVars, replaced, restarts>>

-----------------------------------------------------------------------------
\* What the server does by itself once the body is there.
Advance(r) ==
    \/ Precheck(r) \/ CreateRename(r) \/ PutRename(r)
    \/ OpenLock(r) \/ Flock(r) \/ Recheck(r) \/ SwapRename(r) \/ SwapSync(r)
    \/ UnlinkLock(r) \/ Release(r) \/ Unlink(r) \/ SyncParent(r)

Step(r) == Upload(r) \/ Advance(r)

Fault(r) == UploadFails(r) \/ CreateFails(r) \/ CallFails(r) \/ Cancel(r)

Next ==
    \/ \E r \in Requests : StartPut(r) \/ StartDelete(r) \/ Step(r) \/ Fault(r)
    \/ Kill \/ PowerLoss \/ Writeback

Spec == Init /\ [][Next]_vars

\* The runtime polls every handler and the kernel wakes a flock waiter, so a
\* request whose body is there keeps taking its next enabled step.  No timeout
\* bounds a body: nothing is assumed of Upload.
FairSpec == Spec /\ \A r \in Requests : WF_vars(Advance(r))

-----------------------------------------------------------------------------
(* Correctness *)

Created(r) == kind[r] = "create" /\ result[r] = "ok"
Removed(r) == kind[r] = "delete" /\ replaced[r] \notin {Nothing, NoObject}

\* A PUT, an If-Match PUT or a DELETE that was answered with success is not
\* taken back by a power loss: the code fsyncs the parent directory after the
\* rename or unlink and before it answers.
AckedDurable ==
    \A r \in Requests :
        result[r] = "ok" /\ kind[r] # "create" => r \notin unsynced \cup undone

\* If-None-Match: * is create-only: two successful creates are possible only
\* when a DELETE emptied the path in between (or a power loss undid one).
CreateOnly ==
    Cardinality({r \in Requests : Created(r) /\ r \notin undone})
        <= 1 + Cardinality({r \in Requests : Removed(r) /\ r \notin undone})

\* If-Match is a compare-and-swap: the version a committed If-Match PUT replaced
\* is one that carried the etag the client named.
CasReplacesExpected ==
    \A r \in Requests :
        kind[r] = "ifMatch" /\ replaced[r] # Nothing =>
            /\ replaced[r] # NoObject
            /\ etag[replaced[r]] # NoEtag
            /\ expects[r] \in {AnyEtag, etag[replaced[r]]}

\* Only one version ever has the etag e.
WrittenOnce(e) == \A v, w \in Versions : etag[v] = e /\ etag[w] = e => v = w

\* Of the clients that race to replace the one version with a given etag, at
\* most one is told it succeeded.
OneWinnerPerEtag ==
    \A q, r \in Requests :
        /\ kind[q] = "ifMatch" /\ kind[r] = "ifMatch"
        /\ expects[q] = expects[r] /\ expects[q] # AnyEtag
        /\ WrittenOnce(expects[q])
        /\ result[q] = "ok" /\ result[r] = "ok"
        => q = r

\* Every DELETE, and every PUT whose body has come, is answered, whatever it waits
\* for and however slow other clients are: nobody keeps the flock for ever, and
\* nobody waits for an inode that is never released.
EveryRequestAnswered ==
    \A r \in Requests : InFlight(r) /\ pc[r] # "uploading" ~> ~InFlight(r)

\* The path behaves like one atomic, durable cell (AtomicObject).
Phase(r) ==
    IF pc[r] = "idle" THEN "new"
    ELSE IF pc[r] # "done" THEN IF replaced[r] = Nothing THEN "open" ELSE "applied"
    ELSE IF result[r] = "ok" THEN "ok"
    ELSE IF result[r] \in {"exists", "mismatch", "notFound"} THEN "refused"
    ELSE "failed"

Atomic == INSTANCE AtomicObject WITH
              stable <- disk, volatile <- unsynced,
              phase <- [r \in Requests |-> Phase(r)]

ImplementsAtomicObject == Atomic!Spec
=============================================================================
