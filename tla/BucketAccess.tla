----------------------------- MODULE BucketAccess -----------------------------
(***************************************************************************)
(* The access level of one bucket: the user.access xattr of its directory, *)
(* and the copy of it that Storage keeps in memory for reads of objects    *)
(* that inherit it.                                                        *)
(*                                                                         *)
(* The lock of the cache is held for one lookup or one insert at a time,   *)
(* never across the xattr call that goes with it, so what is put into the  *)
(* cache may be older than what is in it.                                  *)
(***************************************************************************)
EXTENDS Naturals

CONSTANTS
    Requests,     \* the requests that arrive, each served once
    Ops,          \* what clients ask for
    MaxRestarts   \* bound: how often the process is started again

Levels == {"private", "public"}
Unset == "unset"
DefaultLevel == "private"   \* AccessLevel::default()

ASSUME OpsAssumption == Ops \subseteq {"read", "put", "create", "update", "delete"}
ASSUME BoundAssumption == MaxRestarts \in Nat

VARIABLES
    dir,       \* the bucket directory exists
    attr,      \* its user.access xattr
    cache,     \* the bucket's entry of Storage.bucket_access
    pc, op, result,
    level,     \* the level a request sets, or has read
    late,      \* history: requests another one overtook between their xattr call
               \* and their cache insert
    stale,     \* history: the last write of the cache came from such a request,
               \* or was never made
    managed,   \* the bucket is `default`, which the server creates whenever it starts
    restarts

serverVars == <<managed, restarts>>
vars == <<dir, attr, cache, pc, op, result, level, late, stale, serverVars>>

Steps == {"idle", "lookup", "fetch", "fill", "check", "mkdir", "set", "store",
          "mkparents", "rmdir", "forget", "done"}

TypeOK ==
    /\ dir \in BOOLEAN
    /\ attr \in Levels \cup {Unset} /\ cache \in Levels \cup {Unset}
    /\ pc \in [Requests -> Steps]
    /\ op \in [Requests -> Ops \cup {"none"}]
    /\ result \in [Requests -> {"none", "ok", "notFound", "notEmpty", "error", "lost"}]
    /\ level \in [Requests -> Levels]
    /\ late \subseteq Requests /\ stale \in BOOLEAN
    /\ managed \in BOOLEAN /\ restarts \in 0..MaxRestarts

\* What a read of the xattr gives: the default level if there is none.
Configured == IF attr = Unset THEN DefaultLevel ELSE attr

InFlight(r) == pc[r] \notin {"idle", "done"}

\* Request r is between its xattr call and its write of the cache.
Pending(r) == pc[r] \in {"fill", "store", "forget"}

Init ==
    /\ dir \in BOOLEAN
    /\ attr \in Levels \cup {Unset} /\ (~dir => attr = Unset)
    /\ managed \in BOOLEAN
    /\ managed => dir /\ attr = DefaultLevel
    /\ cache = IF managed THEN DefaultLevel ELSE Unset
    /\ pc = [r \in Requests |-> "idle"]
    /\ op = [r \in Requests |-> "none"]
    /\ result = [r \in Requests |-> "none"]
    /\ level = [r \in Requests |-> DefaultLevel]
    /\ late = {} /\ stale = FALSE
    /\ restarts = 0

-----------------------------------------------------------------------------
\* Bug: a request starts in a step named like its operation.
FirstIsOp(o) == o

First(o) == CASE o = "read" -> "lookup" [] o = "create" -> "mkdir"
              [] o = "update" -> "check" [] o = "delete" -> "rmdir"
              [] o = "put" -> "mkparents"

Start(r) ==
    /\ pc[r] = "idle"
    /\ \E o \in Ops, l \in Levels :
          /\ o \in {"read", "put", "delete"} => l = DefaultLevel
          /\ op' = [op EXCEPT ![r] = o]
          /\ level' = [level EXCEPT ![r] = l]
          /\ pc' = [pc EXCEPT ![r] = First(o)]
    /\ UNCHANGED <<dir, attr, cache, result, late, stale, serverVars>>

Goto(r, step) == pc' = [pc EXCEPT ![r] = step] /\ UNCHANGED result
Finish(r, answer) ==
    /\ pc' = [pc EXCEPT ![r] = "done"]
    /\ result' = [result EXCEPT ![r] = answer]

\* Request r changes the bucket, and overtakes the requests about to write the cache.
Overtake(r) == late' = late \cup {q \in Requests \ {r} : Pending(q)}

-----------------------------------------------------------------------------
(* resolve_access, for an object that has no level of its own *)

Lookup(r) ==
    /\ pc[r] = "lookup"
    /\ IF cache # Unset
         THEN level' = [level EXCEPT ![r] = cache] /\ Finish(r, "ok")
         ELSE Goto(r, "fetch") /\ UNCHANGED level
    /\ UNCHANGED <<dir, attr, cache, op, late, stale, serverVars>>

\* Bug: a bucket without a level of its own is cached as public.
FetchPublic(r) ==
    /\ pc[r] = "fetch" /\ dir
    /\ level' = [level EXCEPT ![r] = IF attr = Unset THEN "public" ELSE attr]
    /\ Goto(r, "fill")
    /\ UNCHANGED <<dir, attr, cache, op, late, stale, serverVars>>

Fetch(r) ==
    /\ pc[r] = "fetch"
    /\ IF dir THEN level' = [level EXCEPT ![r] = Configured] /\ Goto(r, "fill")
              ELSE Finish(r, "error") /\ UNCHANGED level
    /\ UNCHANGED <<dir, attr, cache, op, late, stale, serverVars>>

Fill(r) ==
    /\ pc[r] = "fill"
    /\ cache' = level[r] /\ stale' = (r \in late)
    /\ Finish(r, "ok")
    /\ UNCHANGED <<dir, attr, op, level, late, serverVars>>

-----------------------------------------------------------------------------
(* The create_dir_all of write_object: an object for a bucket nobody created makes
   the directory, with no level. *)

MakeParents(r) ==
    /\ pc[r] = "mkparents"
    /\ dir' = TRUE
    /\ Finish(r, "ok")
    /\ UNCHANGED <<attr, cache, op, level, late, stale, serverVars>>

-----------------------------------------------------------------------------
(* create_bucket, update_bucket, delete_bucket *)

\* create_dir; a directory that is there already will do.
MakeDir(r) ==
    /\ pc[r] = "mkdir"
    /\ dir' = TRUE
    /\ Goto(r, "set")
    /\ UNCHANGED <<attr, cache, op, level, late, stale, serverVars>>

CheckExists(r) ==
    /\ pc[r] = "check"
    /\ IF dir THEN Goto(r, "set") ELSE Finish(r, "notFound")
    /\ UNCHANGED <<dir, attr, cache, op, level, late, stale, serverVars>>

\* setxattr fails if the directory has been removed since.
SetAttr(r) ==
    /\ pc[r] = "set"
    /\ IF dir THEN attr' = level[r] /\ Goto(r, "store") /\ Overtake(r)
              ELSE Finish(r, "error") /\ UNCHANGED <<attr, late>>
    /\ UNCHANGED <<dir, cache, op, level, stale, serverVars>>

Store(r) ==
    /\ pc[r] = "store"
    /\ cache' = level[r] /\ stale' = (r \in late)
    /\ Finish(r, "ok")
    /\ UNCHANGED <<dir, attr, op, level, late, serverVars>>

RemoveDir(r) ==
    /\ pc[r] = "rmdir"
    /\ \/ dir /\ dir' = FALSE /\ attr' = Unset /\ Goto(r, "forget") /\ Overtake(r)
       \/ dir /\ Finish(r, "notEmpty") /\ UNCHANGED <<dir, attr, late>>
       \/ ~dir /\ Finish(r, "ok") /\ UNCHANGED <<dir, attr, late>>
    /\ UNCHANGED <<cache, op, level, stale, serverVars>>

\* Bug: a deleted bucket keeps its place in the cache.
ForgetNothing(r) ==
    /\ pc[r] = "forget"
    /\ Finish(r, "ok")
    /\ UNCHANGED <<dir, attr, cache, op, level, late, stale, serverVars>>

Forget(r) ==
    /\ pc[r] = "forget"
    /\ cache' = Unset /\ stale' = FALSE
    /\ Finish(r, "ok")
    /\ UNCHANGED <<dir, attr, op, level, late, serverVars>>

Step(r) ==
    \/ Lookup(r) \/ Fetch(r) \/ Fill(r) \/ MakeParents(r) \/ MakeDir(r) \/ CheckExists(r)
    \/ SetAttr(r) \/ Store(r) \/ RemoveDir(r) \/ Forget(r)

-----------------------------------------------------------------------------
\* The handler's future is dropped at its one await, the mkdir or the rmdir.
Abandon(r) ==
    /\ \/ pc[r] \in {"mkdir", "rmdir", "forget"}
       \/ pc[r] = "set" /\ op[r] = "create"
    /\ Finish(r, "lost")
    /\ stale' = (stale \/ pc[r] = "forget")
    /\ UNCHANGED <<dir, attr, cache, op, level, late, serverVars>>

\* A new process has an empty cache; it creates `default` before it serves.
Restart ==
    /\ restarts < MaxRestarts
    /\ restarts' = restarts + 1
    /\ pc' = [r \in Requests |-> IF InFlight(r) THEN "done" ELSE pc[r]]
    /\ result' = [r \in Requests |-> IF InFlight(r) THEN "lost" ELSE result[r]]
    /\ IF managed
         THEN dir' = TRUE /\ attr' = DefaultLevel /\ cache' = DefaultLevel
         ELSE cache' = Unset /\ UNCHANGED <<dir, attr>>
    /\ late' = {} /\ stale' = FALSE
    /\ UNCHANGED <<op, level, managed>>

Next ==
    \/ \E r \in Requests : Start(r) \/ Step(r) \/ Abandon(r)
    \/ Restart

Spec == Init /\ [][Next]_vars

-----------------------------------------------------------------------------
(* Correctness *)

Coherent == cache = Unset \/ (dir /\ cache = Configured)

\* The cache agrees with the directory, or is empty, whenever no request is about
\* to write it, unless the last to write it had been overtaken by another change
\* (or its client went away before it wrote).
CoherentUnlessOvertaken ==
    ~stale /\ (\A r \in Requests : ~Pending(r)) => Coherent

=============================================================================
