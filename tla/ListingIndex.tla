----------------------------- MODULE ListingIndex -----------------------------
(***************************************************************************)
(* How the handlers of the server keep the fjall listing index in step     *)
(* with the files of one bucket, and how the start-up reconcile repairs it. *)
(*                                                                         *)
(* A handler does its storage operation and its index operations one after *)
(* the other, each an await on a spawn_blocking task, with no lock held    *)
(* across them.  Here a storage operation on a path is one step (what      *)
(* happens inside it is ObjectWrites) and so is an index operation.        *)
(*                                                                         *)
(*   put     write dst, insert dst        (PUT, S3 PutObject and           *)
(*                                         CompleteMultipartUpload)        *)
(*   copy    read src, write dst, insert dst                               *)
(*   delete  unlink src, remove src                                        *)
(*   move    insert dst, rename src to dst, remove src, head dst           *)
(***************************************************************************)
EXTENDS Naturals, FiniteSets

CONSTANTS
    Requests,    \* the requests that arrive, each served once
    Keys,        \* the object keys clients name
    Ops,         \* the operations clients use
    MaxRestarts  \* bound: how often the process dies

ASSUME OpsAssumption == Ops \subseteq {"put", "copy", "delete", "move"}
ASSUME BoundAssumption == MaxRestarts \in Nat

VARIABLES
    files,      \* the keys with a file under the bucket directory
    index,      \* the keys in the fjall partition
    saved,      \* the index a power loss would leave
    pc, op, src, dst, result,
    abandoned,  \* requests whose client is gone: only their running step goes on
    server,     \* "up", or the reconcile pass a starting process is in
    disturbed,  \* history: keys that something may have put out of step
    restarts

reqVars == <<op, src, dst>>
vars == <<files, index, saved, pc, reqVars, result, abandoned, server, disturbed, restarts>>

Steps == {"idle", "read", "write", "insert", "announce", "rename",
          "unlink", "remove", "head", "done"}

TypeOK ==
    /\ files \subseteq Keys /\ index \subseteq Keys /\ saved \subseteq Keys
    /\ pc \in [Requests -> Steps]
    /\ op \in [Requests -> Ops \cup {"none"}]
    /\ src \in [Requests -> Keys] /\ dst \in [Requests -> Keys]
    /\ result \in [Requests -> {"none", "ok", "refused", "error", "lost"}]
    /\ abandoned \subseteq Requests
    /\ server \in {"up", "insertMissing", "removeStale"}
    /\ disturbed \subseteq Keys
    /\ restarts \in 0..MaxRestarts

\* A process that has never run starts with whatever the disk holds.
Init ==
    /\ files \in SUBSET Keys /\ index \in SUBSET Keys /\ saved = index
    /\ pc = [r \in Requests |-> "idle"]
    /\ op = [r \in Requests |-> "none"]
    /\ \E k \in Keys : src = [r \in Requests |-> k] /\ dst = src
    /\ result = [r \in Requests |-> "none"]
    /\ abandoned = {}
    /\ server = "insertMissing"
    /\ disturbed = {}
    /\ restarts = 0

InFlight(r) == pc[r] \notin {"idle", "done"}

\* The keys request r makes, and the keys it takes away.
Makes(r)   == IF op[r] = "delete" THEN {} ELSE {dst[r]}
Removes(r) == IF op[r] \in {"delete", "move"} THEN {src[r]} ELSE {}
Changes(r) == Makes(r) \cup Removes(r)

Disturb(K) == disturbed' = disturbed \cup K

-----------------------------------------------------------------------------
(* Steps of a handler *)

\* (Variants with a bug, which no action uses; see the README.)
FirstIsOp(o) == o

First(o) == CASE o = "put" -> "write" [] o = "copy" -> "read"
              [] o = "delete" -> "unlink" [] o = "move" -> "announce"

\* Where the making and the removal of a key overlap, whatever order they take
\* in the index need not be the order they took on disk.
Start(r) ==
    /\ server = "up" /\ pc[r] = "idle"
    /\ \E o \in Ops, s, d \in Keys :
          /\ o \in {"put", "delete"} => s = d
          /\ op' = [op EXCEPT ![r] = o]
          /\ src' = [src EXCEPT ![r] = s]
          /\ dst' = [dst EXCEPT ![r] = d]
          /\ pc' = [pc EXCEPT ![r] = First(o)]
    /\ Disturb({k \in Keys : \E q, t \in Requests : 
                   /\ r \in {q, t} /\ k \in Makes(q)' \cap Removes(t)'
                   /\ InFlight(q)' /\ InFlight(t)'})
    /\ UNCHANGED <<files, index, saved, result, abandoned, server, restarts>>

\* The step is over: the handler goes on, unless its future was dropped.
Continue(r, next) ==
    /\ pc' = [pc EXCEPT ![r] = IF r \in abandoned THEN "done" ELSE next]
    /\ result' = [result EXCEPT ![r] = IF r \in abandoned THEN "lost"
                                       ELSE IF next = "done" THEN "ok" ELSE "none"]
    /\ UNCHANGED <<reqVars, abandoned, server, restarts>>

Answer(r, answer) ==
    /\ pc' = [pc EXCEPT ![r] = "done"]
    /\ result' = [result EXCEPT ![r] = IF r \in abandoned THEN "lost" ELSE answer]
    /\ UNCHANGED <<reqVars, abandoned, server, restarts>>

\* storage.write_object, complete_multipart, or the rename of copy_object.
WriteFile(r) ==
    /\ pc[r] = "write"
    /\ files' = files \cup {dst[r]}
    /\ Continue(r, "insert")
    /\ UNCHANGED <<index, saved, disturbed>>

\* A conditional write is refused, or fails before its rename.
WriteRefused(r) ==
    /\ pc[r] = "write"
    /\ Answer(r, "refused")
    /\ UNCHANGED <<files, index, saved, disturbed>>

IndexInsert(r) ==
    /\ pc[r] = "insert"
    /\ index' = index \cup {dst[r]}
    /\ Continue(r, "done")
    /\ UNCHANGED <<files, saved, disturbed>>

\* copy_object finds the source and copies its bytes to a temp file.
ReadSource(r) ==
    /\ pc[r] = "read"
    /\ IF src[r] \in files THEN Continue(r, "write") ELSE Answer(r, "refused")
    /\ UNCHANGED <<files, index, saved, disturbed>>

\* storage.delete_object succeeds whether or not the file is there.
Unlink(r) ==
    /\ pc[r] = "unlink"
    /\ files' = files \ {src[r]}
    /\ Continue(r, "remove")
    /\ UNCHANGED <<index, saved, disturbed>>

\* Bug: a move unlists its destination.
IndexDeleteDst(r) ==
    /\ pc[r] = "remove"
    /\ index' = index \ {dst[r]}
    /\ Continue(r, IF op[r] = "move" THEN "head" ELSE "done")
    /\ UNCHANGED <<files, saved, disturbed>>

IndexDelete(r) ==
    /\ pc[r] = "remove"
    /\ index' = index \ {src[r]}
    /\ Continue(r, IF op[r] = "move" THEN "head" ELSE "done")
    /\ UNCHANGED <<files, saved, disturbed>>

\* Bug: the new key is not listed before the move.
AnnounceMoveSkipped(r) ==
    /\ pc[r] = "announce"
    /\ Continue(r, "rename")
    /\ UNCHANGED <<files, index, saved, disturbed>>

\* PATCH { "key": dst } lists the new key before it moves the object.
AnnounceMove(r) ==
    /\ pc[r] = "announce"
    /\ index' = index \cup {dst[r]}
    /\ Continue(r, "rename")
    /\ UNCHANGED <<files, saved, disturbed>>

\* move_object: a rename onto itself changes nothing; a missing source is a 404
\* that leaves the new key listed.
Rename(r) ==
    /\ pc[r] = "rename"
    /\ IF src[r] \in files
         THEN /\ files' = (files \ {src[r]}) \cup {dst[r]}
              /\ Continue(r, "remove")
              /\ UNCHANGED disturbed
         ELSE /\ Answer(r, "refused")
              /\ Disturb({dst[r]})
              /\ UNCHANGED files
    /\ UNCHANGED <<index, saved>>

HeadMoved(r) ==
    /\ pc[r] = "head"
    /\ IF dst[r] \in files THEN Continue(r, "done") ELSE Answer(r, "error")
    /\ UNCHANGED <<files, index, saved, disturbed>>

Step(r) ==
    \/ WriteFile(r) \/ IndexInsert(r) \/ ReadSource(r) \/ Unlink(r) \/ IndexDelete(r)
    \/ AnnounceMove(r) \/ Rename(r) \/ HeadMoved(r)

-----------------------------------------------------------------------------
(* Failures *)

\* The storage or the index reports an error.  A storage error may come from the
\* fsync after the rename or the unlink, which has then happened.
StepFails(r) ==
    /\ pc[r] \in {"write", "insert", "unlink", "remove", "announce", "rename"}
    /\ \/ UNCHANGED files
       \/ pc[r] = "write" /\ files' = files \cup {dst[r]}
       \/ pc[r] = "unlink" /\ files' = files \ {src[r]}
       \/ pc[r] = "rename" /\ src[r] \in files /\ files' = (files \ {src[r]}) \cup {dst[r]}
    /\ Answer(r, "error")
    /\ Disturb(Changes(r))
    /\ UNCHANGED <<index, saved>>

\* The client goes away and the handler's future is dropped.  A step that is
\* already in spawn_blocking is carried out all the same.
Abandon(r) ==
    /\ InFlight(r) /\ r \notin abandoned
    /\ abandoned' = abandoned \cup {r}
    /\ \/ UNCHANGED <<pc, result>>
       \/ pc' = [pc EXCEPT ![r] = "done"] /\ result' = [result EXCEPT ![r] = "lost"]
    /\ Disturb(Changes(r))
    /\ UNCHANGED <<files, index, saved, reqVars, server, restarts>>

\* The process dies, alone or with the machine; the next one reconciles first.
Die ==
    /\ restarts < MaxRestarts
    /\ restarts' = restarts + 1
    /\ index' \in {index, saved} /\ saved' = index'
    /\ pc' = [r \in Requests |-> IF InFlight(r) THEN "done" ELSE pc[r]]
    /\ result' = [r \in Requests |-> IF InFlight(r) THEN "lost" ELSE result[r]]
    /\ server' = "insertMissing"
    /\ UNCHANGED <<files, reqVars, abandoned, disturbed>>

\* fjall's journal reaches the disk (of interest while a process may still die).
IndexWriteback ==
    /\ saved # index /\ restarts < MaxRestarts
    /\ saved' = index
    /\ UNCHANGED <<files, index, pc, reqVars, result, abandoned, server, disturbed, restarts>>

-----------------------------------------------------------------------------
(* Index::reconcile, before the listener is opened *)

\* Pass 1 walks the bucket and inserts the keys the index misses.
InsertMissing ==
    /\ server = "insertMissing"
    /\ \/ \E k \in files \ index : index' = index \cup {k} /\ UNCHANGED server
       \/ files \subseteq index /\ server' = "removeStale" /\ UNCHANGED index
    /\ UNCHANGED <<files, saved, pc, reqVars, result, abandoned, disturbed, restarts>>

\* Bug: the directory walk is taken for the whole of the repair.
RemoveStaleSkipped ==
    /\ server = "removeStale"
    /\ server' = "up" /\ disturbed' = {}
    /\ UNCHANGED <<files, index, saved, pc, reqVars, result, abandoned, restarts>>

\* Pass 2 removes the keys whose file does not exist; then the server serves.
RemoveStale ==
    /\ server = "removeStale"
    /\ \/ \E k \in index \ files : index' = index \ {k} /\ UNCHANGED <<server, disturbed>>
       \/ index \subseteq files /\ server' = "up" /\ disturbed' = {} /\ UNCHANGED index
    /\ UNCHANGED <<files, saved, pc, reqVars, result, abandoned, restarts>>

Reconcile == InsertMissing \/ RemoveStale

Next ==
    \/ \E r \in Requests : Start(r) \/ Step(r) \/ WriteRefused(r) \/ StepFails(r) \/ Abandon(r)
    \/ Die \/ IndexWriteback \/ Reconcile

Spec == Init /\ [][Next]_vars

-----------------------------------------------------------------------------
(* Correctness *)

Touched(k) == \E r \in Requests : InFlight(r) /\ k \in Changes(r)

\* While the server is up and no request is changing a key, the key is listed
\* exactly if its file is there; the only keys excepted are those of a request
\* that failed or was abandoned half way, and those whose making overlapped
\* their removal.
ListedExactly ==
    server = "up" =>
        \A k \in Keys \ disturbed : ~Touched(k) => (k \in files <=> k \in index)

\* A restart repairs every key, whatever happened before: the index a process
\* starts to serve with lists the files and nothing else.
ReconcileExact == [][server # "up" /\ server' = "up" => index' = files']_vars

\* A move between two keys never hides the object: a listing taken at any moment
\* of it shows the old key or the new one, unless another request that changes
\* one of the two keys overlaps it or a step fails.
MoveStaysListed ==
    \A r \in Requests :
        op[r] = "move" /\ InFlight(r) /\ server = "up" /\ Changes(r) \cap disturbed = {} =>
            /\ pc[r] = "rename" => dst[r] \in index /\ (src[r] \in files => src[r] \in index)
            /\ pc[r] \in {"remove", "head"} => dst[r] \in files \cap index

=============================================================================
