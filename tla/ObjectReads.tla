----------------------------- MODULE ObjectReads -----------------------------
(***************************************************************************)
(* Reads of objects beside the requests that replace, remove, rename or    *)
(* relabel them.  get_object works on the handle it opened; head_object    *)
(* and copy_object go back to the path for every call.                     *)
(*                                                                         *)
(* A file is named after the request that made it, or after the key it was *)
(* at in the beginning.  Its bytes (with their number, the size) and its   *)
(* etag are told apart only by the version they were written for, which    *)
(* has the name of its file too.  Temp files that failures leave behind,   *)
(* crashes and durability are the business of ObjectWrites.                *)
(***************************************************************************)
EXTENDS Naturals

CONSTANTS
    Requests,     \* the requests that arrive, each served once
    Keys,         \* the objects' paths
    Kinds,        \* the operations that arrive
    NoFile,       \* the path names nothing, nothing was read
    Unset,        \* no access xattr: the bucket's level applies
    BucketLevel   \* which is this one here; BucketAccess has its changes

Levels == {"public", "private"}

ASSUME KindsAssumption ==
    Kinds \subseteq {"put", "delete", "copy", "move", "chmod", "head", "get"}
ASSUME DistinctAssumption ==
    /\ Requests \cap Keys = {} /\ NoFile \notin Requests \cup Keys
    /\ BucketLevel \in Levels /\ Unset \notin Levels

VARIABLES
    entry,      \* entry[k]: the file that the path names
    file,       \* file[f]: bytes, etag and access xattr of a file
    pc, kind, result,
    key, dst,   \* the path a request is about, and where a copy or move goes
    level,      \* the level a request brings (put, chmod)
    signed,     \* the request carries a valid token
    got,        \* what a request has read so far
    seen,       \* history: the files its path named while a request ran
    had,        \* history: the levels a file has ever been at
    overtaken   \* history: the requests whose path was given another file
                \* between the first and the last of their calls by path

argVars == <<kind, key, dst, level, signed>>
historyVars == <<seen, had, overtaken>>
vars == <<entry, file, pc, result, argVars, got, historyVars>>

Files == Requests \cup Keys
Nothing == [fd |-> NoFile, size |-> NoFile, etag |-> NoFile, access |-> Unset, body |-> NoFile]
Steps == {"idle", "check", "stage", "commit", "stat", "attrs", "access", "decide", "map", "done"}

TypeOK ==
    /\ entry \in [Keys -> Files \cup {NoFile}]
    /\ file \in [Files -> [bytes : Files \cup {NoFile}, etag : Files \cup {NoFile},
                           access : Levels \cup {Unset}]]
    /\ pc \in [Requests -> Steps]
    /\ kind \in [Requests -> Kinds \cup {"none"}]
    /\ result \in [Requests -> {"none", "ok", "notFound", "denied", "error"}]
    /\ key \in [Requests -> Keys] /\ dst \in [Requests -> Keys]
    /\ level \in [Requests -> Levels \cup {Unset}]
    /\ signed \in [Requests -> BOOLEAN]
    /\ got \in [Requests -> [fd : Files \cup {NoFile}, size : Files \cup {NoFile},
                             etag : Files \cup {NoFile}, access : Levels \cup {Unset},
                             body : Files \cup {NoFile}]]
    /\ seen \in [Requests -> SUBSET (Files \cup {NoFile})]
    /\ had \in [Files -> SUBSET (Levels \cup {Unset})]
    /\ overtaken \subseteq Requests
    /\ \A k \in Keys : entry[k] # NoFile =>          \* no file is visible half made
            file[entry[k]].bytes # NoFile /\ file[entry[k]].etag # NoFile

Init ==
    /\ entry \in [Keys -> Files \cup {NoFile}]
    /\ \A k \in Keys : entry[k] \in {k, NoFile}
    /\ file = [f \in Files |-> IF f \in Keys
                               THEN [bytes |-> f, etag |-> f, access |-> Unset]
                               ELSE [bytes |-> NoFile, etag |-> NoFile, access |-> Unset]]
    /\ pc = [r \in Requests |-> "idle"]
    /\ kind = [r \in Requests |-> "none"]
    /\ result = [r \in Requests |-> "none"]
    /\ key \in [Requests -> Keys] /\ dst = key
    /\ level = [r \in Requests |-> Unset]
    /\ signed = [r \in Requests |-> FALSE]
    /\ got = [r \in Requests |-> Nothing]
    /\ seen = [r \in Requests |-> {}]
    /\ had = [f \in Files |-> {Unset}]
    /\ overtaken = {}

-----------------------------------------------------------------------------
Goto(r, step) == pc' = [pc EXCEPT ![r] = step] /\ UNCHANGED result
Finish(r, answer) ==
    /\ pc' = [pc EXCEPT ![r] = "done"]
    /\ result' = [result EXCEPT ![r] = answer]
Get(r, field, value) == got' = [got EXCEPT ![r][field] = value]

Running(r) == pc[r] \notin {"idle", "done"}

\* The file a path names; a call by path fails if there is none.
At(r) == entry[key[r]]

\* The calls by path of a head or copy are not all made yet.
BetweenPathCalls(r) == kind[r] \in {"head", "copy"} /\ pc[r] \in {"attrs", "access"}

\* The directory changes, and with it what the running requests will find.
Rewire(now) ==
    /\ entry' = now
    /\ seen' = [r \in Requests |-> IF Running(r) THEN seen[r] \cup {now[key[r]]} ELSE seen[r]]
    /\ overtaken' = overtaken \cup
           {r \in Requests : BetweenPathCalls(r) /\ now[key[r]] # entry[key[r]]}

StillThere == UNCHANGED <<entry, seen, overtaken>>

-----------------------------------------------------------------------------
First(op) ==
    CASE op \in {"put", "delete"} -> "stage"
      [] op \in {"copy", "move", "chmod"} -> "check"
      [] op = "head" -> "stat"
      [] op = "get" -> "stage"

\* Where a request may go and what it may bring depends on its kind.
Start(r) ==
    /\ pc[r] = "idle"
    /\ \E op \in Kinds :
          /\ kind' = [kind EXCEPT ![r] = op]
          /\ \E to \in IF op \in {"copy", "move"} THEN Keys ELSE {key[r]} :
                dst' = [dst EXCEPT ![r] = to]
          /\ \E l \in IF op \in {"put", "chmod"} THEN Levels ELSE {Unset} :
                level' = [level EXCEPT ![r] = l]
          /\ \E s \in IF op = "get" THEN BOOLEAN ELSE {TRUE} :
                signed' = [signed EXCEPT ![r] = s]
          /\ Goto(r, First(op))
    /\ seen' = [seen EXCEPT ![r] = {At(r)}]
    /\ UNCHANGED <<entry, file, key, got, had, overtaken>>

\* write_object: a temp file with its xattrs, then the rename.
StagePut(r) ==
    /\ pc[r] = "stage" /\ kind[r] = "put"
    /\ file' = [file EXCEPT ![r] = [bytes |-> r, etag |-> r, access |-> level[r]]]
    /\ had' = [had EXCEPT ![r] = {level[r]}]
    /\ Goto(r, "commit")
    /\ StillThere /\ UNCHANGED <<argVars, got>>

\* The rename of a put or a copy, and the answer.  It is an error if the fsync of
\* the directory fails, after the fact.
Commit(r) ==
    /\ pc[r] = "commit" /\ kind[r] \in {"put", "copy"}
    /\ Rewire([entry EXCEPT ![dst[r]] = r])
    /\ \E answer \in {"ok", "error"} : Finish(r, answer)
    /\ UNCHANGED <<file, argVars, got, had>>

Unlink(r) ==
    /\ pc[r] = "stage" /\ kind[r] = "delete"
    /\ Rewire([entry EXCEPT ![key[r]] = NoFile])
    /\ \E answer \in {"ok", "error"} : Finish(r, answer)
    /\ UNCHANGED <<file, argVars, got, had>>

\* The try_exists of copy_object, move_object and update_object_access.
CheckExists(r) ==
    /\ pc[r] = "check"
    /\ IF At(r) = NoFile THEN Finish(r, "notFound")
       ELSE Goto(r, IF kind[r] = "copy" THEN "stat" ELSE "commit")
    /\ StillThere /\ UNCHANGED <<file, argVars, got, had>>

MoveRename(r) ==
    /\ pc[r] = "commit" /\ kind[r] = "move"
    /\ IF At(r) = NoFile THEN Finish(r, "error") /\ StillThere
       ELSE /\ \E answer \in {"ok", "error"} : Finish(r, answer)
            /\ Rewire([k \in Keys |-> IF k = dst[r] THEN At(r)
                                      ELSE IF k = key[r] THEN NoFile ELSE entry[k]])
    /\ UNCHANGED <<file, argVars, got, had>>

\* The setxattr of update_object_access: the one change made to a visible file.
SetAccess(r) ==
    /\ pc[r] = "commit" /\ kind[r] = "chmod"
    /\ IF At(r) = NoFile THEN Finish(r, "error") /\ UNCHANGED <<file, had>>
       ELSE /\ Finish(r, "ok")
            /\ file' = [file EXCEPT ![At(r)].access = level[r]]
            /\ had' = [had EXCEPT ![At(r)] = @ \cup {level[r]}]
    /\ StillThere /\ UNCHANGED <<argVars, got>>

-----------------------------------------------------------------------------
\* A call by path that finds nothing: the first one of a head says so, the
\* others fail.
Missing(r) ==
    /\ At(r) = NoFile
    /\ Finish(r, IF kind[r] = "head" /\ pc[r] = "stat" THEN "notFound" ELSE "error")
    /\ UNCHANGED <<file, got>>

\* Bug: the size of a file that is gone is taken for known (a cached stat).
ByPath1Cached(r) ==
    /\ pc[r] = "stat"
    /\ Get(r, "size", key[r]) /\ Goto(r, "attrs")
    /\ UNCHANGED file
    /\ StillThere /\ UNCHANGED <<argVars, had>>

\* The stat of head_object, the fs::copy of copy_object.
ByPath1(r) ==
    /\ pc[r] = "stat"
    /\ \/ Missing(r)
       \/ /\ At(r) # NoFile
          /\ Get(r, "size", file[At(r)].bytes)
          /\ Goto(r, "attrs") /\ UNCHANGED file
    /\ StillThere /\ UNCHANGED <<argVars, had>>

\* Bug: the etag of what the copy is going to replace.
ByPath2OfTarget(r) ==
    /\ pc[r] = "attrs" /\ kind[r] \in {"head", "copy"}
    /\ \/ Missing(r)
       \/ /\ At(r) # NoFile /\ entry[dst[r]] # NoFile
          /\ Get(r, "etag", file[entry[dst[r]]].etag)
          /\ Goto(r, "access") /\ UNCHANGED file
    /\ StillThere /\ UNCHANGED <<argVars, had>>

\* The first getxattr of read_object.
ByPath2(r) ==
    /\ pc[r] = "attrs" /\ kind[r] \in {"head", "copy"}
    /\ \/ Missing(r)
       \/ /\ At(r) # NoFile
          /\ Get(r, "etag", file[At(r)].etag)
          /\ Goto(r, "access") /\ UNCHANGED file
    /\ StillThere /\ UNCHANGED <<argVars, had>>

\* Its getxattr of the access level; then copy_object gives all it has read to
\* the temp file.
ByPath3(r) ==
    /\ pc[r] = "access"
    /\ \/ Missing(r) /\ UNCHANGED had
       \/ /\ At(r) # NoFile
          /\ Get(r, "access", file[At(r)].access)
          /\ IF kind[r] = "copy"
             THEN /\ file' = [file EXCEPT ![r] = [bytes |-> got[r].size, etag |-> got[r].etag,
                                                  access |-> file[At(r)].access]]
                  /\ had' = [had EXCEPT ![r] = {file[At(r)].access}]
                  /\ Goto(r, "commit")
             ELSE Goto(r, "decide") /\ UNCHANGED <<file, had>>
    /\ StillThere /\ UNCHANGED argVars

-----------------------------------------------------------------------------
\* open_object: the handle, then fstat and fgetxattr on it.
Open(r) ==
    /\ pc[r] = "stage" /\ kind[r] = "get"
    /\ IF At(r) = NoFile THEN Finish(r, "notFound") /\ UNCHANGED got
       ELSE Get(r, "fd", At(r)) /\ Goto(r, "attrs")
    /\ StillThere /\ UNCHANGED <<file, argVars, had>>

\* Bug: the attributes are read by path, as head_object does.
ReadHandleByPath(r) ==
    /\ pc[r] = "attrs" /\ kind[r] = "get" /\ At(r) # NoFile
    /\ LET f == file[At(r)]
       IN got' = [got EXCEPT ![r] = [@ EXCEPT !.size = f.bytes, !.etag = f.etag,
                                              !.access = f.access]]
    /\ Goto(r, "decide")
    /\ StillThere /\ UNCHANGED <<file, argVars, had>>

ReadHandle(r) ==
    /\ pc[r] = "attrs" /\ kind[r] = "get"
    /\ LET f == file[got[r].fd]
       IN got' = [got EXCEPT ![r] = [@ EXCEPT !.size = f.bytes, !.etag = f.etag,
                                              !.access = f.access]]
    /\ Goto(r, "decide")
    /\ StillThere /\ UNCHANGED <<file, argVars, had>>

Effective(access) == IF access = Unset THEN BucketLevel ELSE access

\* enforce_object_auth, on the level that was read.
Decide(r) ==
    /\ pc[r] = "decide"
    /\ IF Effective(got[r].access) # "public" /\ ~signed[r] THEN Finish(r, "denied")
       ELSE IF kind[r] = "head" THEN Finish(r, "ok")
       ELSE Goto(r, "map")
    /\ StillThere /\ UNCHANGED <<file, argVars, got, had>>

\* The mmap of the handle, from which the body goes out.
Map(r) ==
    /\ pc[r] = "map"
    /\ Get(r, "body", file[got[r].fd].bytes)
    /\ Finish(r, "ok")
    /\ StillThere /\ UNCHANGED <<file, argVars, had>>

\* A call fails that has changed nothing: no later step is taken.
StepFails(r) ==
    /\ Running(r)
    /\ Finish(r, "error")
    /\ StillThere /\ UNCHANGED <<file, argVars, got, had>>

Next ==
    \E r \in Requests :
        \/ Start(r) \/ StagePut(r) \/ Commit(r) \/ Unlink(r) \/ CheckExists(r)
        \/ MoveRename(r) \/ SetAccess(r) \/ ByPath1(r) \/ ByPath2(r) \/ ByPath3(r)
        \/ Open(r) \/ ReadHandle(r) \/ Decide(r) \/ Map(r) \/ StepFails(r)

Spec == Init /\ [][Next]_vars

-----------------------------------------------------------------------------
Answered(r, op) == pc[r] = "done" /\ result[r] = "ok" /\ kind[r] = op

\* What a GET sends (size, etag, level, bytes) is all of one file, which its path
\* named at some instant of the request; and the level it was judged by is one
\* that this file, not another version, has had (open_object, get_object).
GetServesOneVersion ==
    \A r \in Requests : Answered(r, "get") =>
        \E f \in seen[r] \ {NoFile} :
            /\ got[r].body = file[f].bytes
            /\ got[r].size = file[f].bytes /\ got[r].etag = file[f].etag
            /\ signed[r] \/ "public" \in {Effective(l) : l \in had[f]}

\* What a HEAD tells comes from files its path named during the request, piece by
\* piece; and from one file, unless another took its place between the calls.
HeadIsOfItsTime ==
    \A r \in Requests : Answered(r, "head") =>
        /\ \E f, g, h \in seen[r] \ {NoFile} :
              /\ got[r].size = file[f].bytes /\ got[r].etag = file[g].etag
              /\ got[r].access \in had[h]
              /\ r \notin overtaken => f = g /\ g = h

\* A visible object has the etag of its own bytes, except for a copy whose source
\* was replaced while it went back to the path, and what was copied from that.
EtagMatchesBytes ==
    \A k \in Keys : entry[k] # NoFile =>
        LET f == file[entry[k]]
        IN \/ f.bytes = f.etag
           \/ \E c \in overtaken : /\ kind[c] = "copy"
                                   /\ f.bytes = file[c].bytes /\ f.etag = file[c].etag
=============================================================================
