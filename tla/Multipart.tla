------------------------------ MODULE Multipart ------------------------------
(***************************************************************************)
(* One multipart upload: the directory .multipart/{upload_id} with its     *)
(* sidecar and its part files, and the requests that write parts into it,  *)
(* assemble them, or remove it, none of which waits for another.           *)
(*                                                                         *)
(* The bytes of a part are a value of Contents, which is also its etag     *)
(* (the MD5 of the bytes).  What happens to the object's path afterwards   *)
(* is the business of ObjectWrites and ListingIndex.                       *)
(***************************************************************************)
EXTENDS Naturals

CONSTANTS
    Requests,     \* the requests that arrive, each served once
    Parts,        \* part numbers
    Contents,     \* what a part can hold
    NoPart,       \* no such file
    NoObject,     \* nobody has completed the upload
    MaxRestarts   \* bound: how often the process dies

ASSUME PartsAssumption == Parts \subseteq Nat
ASSUME DistinctAssumption == NoPart \notin Contents /\ NoObject \notin Requests
ASSUME BoundAssumption == MaxRestarts \in Nat

VARIABLES
    initiated,   \* how far the init_multipart that made the upload got
    dir,         \* the upload's directory exists
    meta,        \* its .meta.json does
    part,        \* part[n]: the part file n
    pc, kind, result,
    arg,         \* the part a request brings, or the list a completion asks for
    todo,        \* the numbers of the list that are not assembled yet
    at,          \* the number being assembled
    bytes,       \* what was assembled, by part
    tmp,         \* requests whose temp file is in .tmp/
    object,      \* the completion whose temp file is the object
    committed,   \* history: the completions that made their object visible
    overtaken,   \* history: the completions that found a part replaced between
                 \* the check of its etag and the reading of its bytes
    collected,   \* history: the start-up collection took something
    restarts

uploadVars == <<dir, meta, part>>
workVars == <<todo, at, bytes>>
historyVars == <<committed, overtaken, collected>>
vars == <<initiated, uploadVars, pc, kind, result, arg, workVars, tmp, object,
          historyVars, restarts>>

NoArg == [n \in Parts |-> NoPart]
Listed(list) == {n \in Parts : list[n] # NoPart}

PartSteps == {"exists", "stream", "rename", "sync"}
CompleteSteps == {"exists", "meta", "check", "open", "syncObject", "remove"}
Steps == PartSteps \cup CompleteSteps \cup {"idle", "done"}

\* The steps of a request whose temp file is still to be renamed.
Staging == {"stream", "rename", "check", "open"}

\* Every variable is in its range: no part is read as empty because it is gone, and
\* nothing takes a temp file away before its rename (write_part, complete_multipart).
TypeOK ==
    /\ initiated \in {"no", "dir", "yes", "lost"}
    /\ dir \in BOOLEAN /\ meta \in BOOLEAN
    /\ part \in [Parts -> Contents \cup {NoPart}]
    /\ pc \in [Requests -> Steps]
    /\ kind \in [Requests -> {"none", "part", "complete", "abort"}]
    /\ result \in [Requests -> {"none", "ok", "notFound", "invalid", "error", "lost"}]
    /\ arg \in [Requests -> [Parts -> Contents \cup {NoPart}]]
    /\ todo \in [Requests -> SUBSET Parts]
    /\ at \in [Requests -> Parts \cup {0}]
    /\ bytes \in [Requests -> [Parts -> Contents \cup {NoPart}]]
    /\ tmp \subseteq Requests
    /\ object \in Requests \cup {NoObject}
    /\ committed \subseteq Requests /\ overtaken \subseteq Requests
    /\ collected \in BOOLEAN
    /\ restarts \in 0..MaxRestarts
    /\ \A r \in Requests : pc[r] \in Staging => r \in tmp

Init ==
    /\ initiated = "no"
    /\ dir = FALSE /\ meta = FALSE /\ part = NoArg
    /\ pc = [r \in Requests |-> "idle"]
    /\ kind = [r \in Requests |-> "none"]
    /\ result = [r \in Requests |-> "none"]
    /\ arg = [r \in Requests |-> NoArg]
    /\ todo = [r \in Requests |-> {}]
    /\ at = [r \in Requests |-> 0]
    /\ bytes = [r \in Requests |-> NoArg]
    /\ tmp = {} /\ object = NoObject
    /\ committed = {} /\ overtaken = {} /\ collected = FALSE
    /\ restarts = 0

-----------------------------------------------------------------------------
(* init_multipart, whose answer tells the clients the upload's id *)

InitDir ==
    /\ initiated = "no"
    /\ initiated' = "dir" /\ dir' = TRUE
    /\ UNCHANGED <<meta, part, pc, kind, result, arg, workVars, tmp, object,
                   historyVars, restarts>>

InitMeta ==
    /\ initiated = "dir"
    /\ initiated' = "yes" /\ meta' = TRUE
    /\ UNCHANGED <<dir, part, pc, kind, result, arg, workVars, tmp, object,
                   historyVars, restarts>>

-----------------------------------------------------------------------------
Goto(r, step) == pc' = [pc EXCEPT ![r] = step] /\ UNCHANGED result
Finish(r, answer) ==
    /\ pc' = [pc EXCEPT ![r] = "done"]
    /\ result' = [result EXCEPT ![r] = answer]

\* cleanup_tmp: a remove_file that fails is only logged.
CleanupTmp(r) == tmp' \in {tmp, tmp \ {r}}

\* One request of a client that has the id.  The numbers of a list ascend, or it
\* is refused at once.
Start(r) ==
    /\ initiated = "yes" /\ pc[r] = "idle"
    /\ \E k \in {"part", "complete", "abort"}, a \in [Parts -> Contents \cup {NoPart}] :
          /\ k = "part" => \E n \in Parts : Listed(a) = {n}
          /\ k = "abort" => a = NoArg
          /\ kind' = [kind EXCEPT ![r] = k]
          /\ arg' = [arg EXCEPT ![r] = a]
          /\ todo' = [todo EXCEPT ![r] = Listed(a)]
          /\ Goto(r, IF k = "abort" THEN "remove" ELSE "exists")
    /\ UNCHANGED <<initiated, uploadVars, at, bytes, tmp, object, historyVars, restarts>>

\* try_exists of the directory; a completion without parts ends here as well, a
\* part upload makes its temp file.
Exists(r) ==
    /\ pc[r] = "exists"
    /\ \/ ~dir /\ Finish(r, "notFound") /\ UNCHANGED tmp
       \/ dir /\ kind[r] = "part" /\ Goto(r, "stream") /\ tmp' = tmp \cup {r}
       \/ dir /\ kind[r] = "complete" /\ todo[r] = {} /\ Finish(r, "invalid") /\ UNCHANGED tmp
       \/ dir /\ kind[r] = "complete" /\ todo[r] # {} /\ Goto(r, "meta") /\ UNCHANGED tmp
    /\ UNCHANGED <<initiated, uploadVars, kind, arg, workVars, object, historyVars, restarts>>

-----------------------------------------------------------------------------
(* write_part *)

Stream(r) ==
    /\ pc[r] = "stream"
    /\ Goto(r, "rename")
    /\ UNCHANGED <<initiated, uploadVars, kind, arg, workVars, tmp, object, historyVars, restarts>>

StreamFails(r) ==
    /\ pc[r] = "stream"
    /\ Finish(r, "error") /\ CleanupTmp(r)
    /\ UNCHANGED <<initiated, uploadVars, kind, arg, workVars, object, historyVars, restarts>>

\* Completions that have checked part n and not read it yet.
Reading(n) == {q \in Requests : pc[q] = "open" /\ at[q] = n}

PlacePart(r) ==
    \E n \in todo[r] :
        /\ part' = [part EXCEPT ![n] = arg[r][n]]
        /\ overtaken' = overtaken \cup {q \in Reading(n) : arg[q][n] # arg[r][n]}
        /\ tmp' = tmp \ {r}
        /\ Goto(r, "sync")

\* Bug: the directory is made again if it is gone.
RenamePartMakesDir(r) ==
    /\ pc[r] = "rename"
    /\ dir' = TRUE
    /\ PlacePart(r)
    /\ UNCHANGED <<initiated, meta, kind, arg, workVars, object, committed, collected, restarts>>

\* The rename fails, and the temp file stays, if the directory is gone.
RenamePart(r) ==
    /\ pc[r] = "rename"
    /\ IF dir THEN PlacePart(r)
              ELSE Finish(r, "error") /\ UNCHANGED <<part, overtaken, tmp>>
    /\ UNCHANGED <<initiated, dir, meta, kind, arg, workVars, object, committed,
                   collected, restarts>>

SyncPart(r) ==
    /\ pc[r] = "sync"
    /\ Finish(r, IF dir THEN "ok" ELSE "error")
    /\ UNCHANGED <<initiated, uploadVars, kind, arg, workVars, tmp, object, historyVars, restarts>>

-----------------------------------------------------------------------------
(* complete_multipart *)

ReadMeta(r) ==
    /\ pc[r] = "meta"
    /\ IF meta THEN tmp' = tmp \cup {r} /\ Goto(r, "check")
               ELSE Finish(r, "notFound") /\ UNCHANGED tmp
    /\ UNCHANGED <<initiated, uploadVars, kind, arg, workVars, object, historyVars, restarts>>

Next1(r, n) == n \in todo[r] /\ \A m \in todo[r] : n <= m

\* Bug: a list that is refused takes the upload with it.
CheckPartRemoves(r) ==
    /\ pc[r] = "check"
    /\ \E n \in Parts :
          /\ Next1(r, n)
          /\ IF part[n] = arg[r][n]
               THEN at' = [at EXCEPT ![r] = n] /\ Goto(r, "open") /\ UNCHANGED tmp
               ELSE Goto(r, "remove") /\ CleanupTmp(r) /\ UNCHANGED at
    /\ UNCHANGED <<initiated, uploadVars, kind, arg, todo, bytes, object, historyVars, restarts>>

\* Bug: the list's etags are not compared with those of the parts.
CheckPartAny(r) ==
    /\ pc[r] = "check"
    /\ \E n \in Parts :
          /\ Next1(r, n)
          /\ at' = [at EXCEPT ![r] = n] /\ Goto(r, "open")
    /\ UNCHANGED <<initiated, uploadVars, kind, arg, todo, bytes, tmp, object, historyVars, restarts>>

\* The etag of the next part, by path: a part that is not there is an error of
\* getxattr, one with another etag is refused.
CheckPart(r) ==
    /\ pc[r] = "check"
    /\ \E n \in Parts :
          /\ Next1(r, n)
          /\ IF part[n] = arg[r][n]
               THEN at' = [at EXCEPT ![r] = n] /\ Goto(r, "open") /\ UNCHANGED tmp
               ELSE /\ Finish(r, IF part[n] = NoPart THEN "error" ELSE "invalid")
                    /\ CleanupTmp(r)
                    /\ UNCHANGED at
    /\ UNCHANGED <<initiated, uploadVars, kind, arg, todo, bytes, object, historyVars, restarts>>

\* Bug: what cannot be opened counts as empty.
ReadPartMissing(r) ==
    /\ pc[r] = "open"
    /\ bytes' = [bytes EXCEPT ![r] = [n \in Parts \cap {at[r]} |-> part[n]]]
    /\ todo' = [todo EXCEPT ![r] = todo[r] \ {at[r]}]
    /\ Goto(r, "check")
    /\ UNCHANGED <<initiated, uploadVars, kind, arg, at, tmp, object, historyVars, restarts>>

\* The bytes are those of the file that is open()ed now, whatever happens to its
\* name while they are read.
ReadPart(r) ==
    /\ pc[r] = "open"
    /\ IF part[at[r]] # NoPart
         THEN /\ bytes' = [bytes EXCEPT ![r] = [@ EXCEPT ![at[r]] = part[at[r]]]]
              /\ todo' = [todo EXCEPT ![r] = todo[r] \ {at[r]}]
              /\ Goto(r, "check")
              /\ UNCHANGED tmp
         ELSE /\ Finish(r, "error")
              /\ CleanupTmp(r)
              /\ UNCHANGED <<bytes, todo>>
    /\ UNCHANGED <<initiated, uploadVars, kind, arg, at, object, historyVars, restarts>>

\* Reading or writing the bytes, or syncing them, fails.
AssembleFails(r) ==
    /\ pc[r] = "check"
    /\ CleanupTmp(r)
    /\ Finish(r, "error")
    /\ UNCHANGED <<initiated, uploadVars, kind, arg, workVars, object, historyVars, restarts>>

\* The rename onto the object's path.
Commit(r) ==
    /\ pc[r] = "check" /\ todo[r] = {}
    /\ object' = r /\ committed' = committed \cup {r}
    /\ tmp' = tmp \ {r}
    /\ Goto(r, "syncObject")
    /\ UNCHANGED <<initiated, uploadVars, kind, arg, workVars, overtaken, collected, restarts>>

\* Bug: a completion that fails takes the upload with it.
CommitFailsRemoves(r) ==
    /\ pc[r] = "check" /\ todo[r] = {}
    /\ Goto(r, "remove")
    /\ UNCHANGED <<initiated, uploadVars, kind, arg, workVars, tmp, object, historyVars, restarts>>

\* Its parent cannot be made, or the rename fails: the temp file stays.
CommitFails(r) ==
    /\ pc[r] = "check" /\ todo[r] = {}
    /\ Finish(r, "error")
    /\ UNCHANGED <<initiated, uploadVars, kind, arg, workVars, tmp, object, historyVars, restarts>>

SyncObject(r) ==
    /\ pc[r] = "syncObject"
    /\ Goto(r, "remove") \/ Finish(r, "error")
    /\ UNCHANGED <<initiated, uploadVars, kind, arg, workVars, tmp, object, historyVars, restarts>>

-----------------------------------------------------------------------------
(* remove_dir_all: abort_multipart, and the clean-up of complete_multipart *)

RemoveFile(r) ==
    /\ pc[r] = "remove" /\ dir
    /\ \/ meta /\ meta' = FALSE /\ UNCHANGED part
       \/ \E n \in Listed(part) : part' = [part EXCEPT ![n] = NoPart] /\ UNCHANGED meta
    /\ UNCHANGED <<initiated, dir, pc, kind, result, arg, workVars, tmp, object,
                   historyVars, restarts>>

\* A directory that somebody else has removed is as good.
RemoveDir(r) ==
    /\ pc[r] = "remove"
    /\ dir => ~meta /\ Listed(part) = {}
    /\ dir' = FALSE
    /\ Finish(r, "ok")
    /\ UNCHANGED <<initiated, meta, part, kind, arg, workVars, tmp, object, historyVars, restarts>>

\* A file that came after the directory was read makes the rmdir fail, as any
\* error does.  For a completion that is a warning in the log.
RemoveFails(r) ==
    /\ pc[r] = "remove"
    /\ Finish(r, IF kind[r] = "complete" THEN "ok" ELSE "error")
    /\ UNCHANGED <<initiated, uploadVars, kind, arg, workVars, tmp, object, historyVars, restarts>>

-----------------------------------------------------------------------------
InFlight(r) == pc[r] \notin {"idle", "done"}

\* The client goes away and the handler is dropped at an await.  A removal runs
\* to its end in spawn_blocking.
Abandon(r) ==
    /\ InFlight(r) /\ pc[r] # "remove"
    /\ Finish(r, "lost")
    /\ UNCHANGED <<initiated, uploadVars, kind, arg, workVars, tmp, object, historyVars, restarts>>

\* The process dies.  The next one collects, before it serves, temp files and an
\* upload whose sidecar is old; it may be stopped, or fail, on the way.
Die ==
    /\ restarts < MaxRestarts
    /\ restarts' = restarts + 1
    /\ initiated' = IF initiated = "dir" THEN "lost" ELSE initiated
    /\ pc' = [r \in Requests |-> IF InFlight(r) THEN "done" ELSE pc[r]]
    /\ result' = [r \in Requests |-> IF InFlight(r) THEN "lost" ELSE result[r]]
    /\ tmp' \in SUBSET tmp
    /\ \E kept \in SUBSET Listed(part) :
          part' = [n \in Parts |-> IF n \in kept THEN part[n] ELSE NoPart]
    /\ meta' \in {meta, FALSE}
    /\ dir' \in {dir, FALSE} /\ (dir /\ ~dir' => ~meta' /\ Listed(part') = {})
    /\ collected' = (collected \/ uploadVars' # uploadVars)
    /\ UNCHANGED <<kind, arg, workVars, object, committed, overtaken>>

Step(r) ==
    \/ Exists(r) \/ Stream(r) \/ RenamePart(r) \/ SyncPart(r)
    \/ ReadMeta(r) \/ CheckPart(r) \/ ReadPart(r) \/ Commit(r) \/ SyncObject(r)
    \/ RemoveFile(r) \/ RemoveDir(r)

Fault(r) == StreamFails(r) \/ AssembleFails(r) \/ CommitFails(r) \/ RemoveFails(r) \/ Abandon(r)

Next ==
    \/ InitDir \/ InitMeta
    \/ \E r \in Requests : Start(r) \/ Step(r) \/ Fault(r)
    \/ Die

Spec == Init /\ [][Next]_vars

-----------------------------------------------------------------------------
(* Correctness *)

\* An object is made of exactly the parts its completion listed, by the etags
\* the client gave, unless another upload of one of those parts replaced it
\* between the check of its etag and the reading of its bytes.
AssembledAsAsked == \A r \in committed \ overtaken : bytes[r] = arg[r]

\* No completion has made its object visible, no abort was asked for, and no
\* start-up has collected anything of the upload.
Undisturbed ==
    /\ committed = {} /\ ~collected
    /\ \A q \in Requests : kind[q] # "abort"

\* A part that was answered with success is there as long as the upload is
\* undisturbed: nothing that fails or dies on the way costs the client a part.
AckedPartsStay ==
    \A r \in Requests :
        kind[r] = "part" /\ result[r] = "ok" /\ Undisturbed
            => Listed(arg[r]) \subseteq Listed(part)

\* Nobody is told that there is no such upload before it was disturbed.  A client
\* that lost the answer of its completion in a crash or a timeout and is told so
\* when it tries again may take it that the object is there, unless somebody else
\* aborts or the upload was old enough to be collected (complete_multipart,
\* write_part).
NoSuchUploadMeansEnded == \A r \in Requests : result[r] = "notFound" => ~Undisturbed

\* An upload whose abort succeeded is gone for good, with the parts that arrive
\* late.
AbortedStaysGone ==
    \A r \in Requests : kind[r] = "abort" /\ result[r] = "ok" => ~dir /\ Listed(part) = {}
=============================================================================
