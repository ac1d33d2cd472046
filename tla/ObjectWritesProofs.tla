-------------------------- MODULE ObjectWritesProofs --------------------------
(***************************************************************************)
(* Theorems about ObjectWrites, for every set of requests, every set of    *)
(* etags and any number of restarts.                                       *)
(***************************************************************************)
EXTENDS ObjectWrites, FiniteSetTheorems, TLAPS

\* The steps of a request, as a case split of Next.
LEMMA NextCases ==
    ASSUME Next
    PROVE  \/ \E r \in Requests :
                \/ StartPut(r) \/ StartDelete(r)
                \/ Upload(r) \/ Precheck(r) \/ CreateRename(r) \/ PutRename(r)
                \/ OpenLock(r) \/ Flock(r) \/ Recheck(r) \/ SwapRename(r)
                \/ SwapSync(r) \/ UnlinkLock(r) \/ Release(r) \/ Unlink(r)
                \/ SyncParent(r) \/ UploadFails(r) \/ CreateFails(r)
                \/ CallFails(r) \/ Cancel(r)
           \/ Kill \/ PowerLoss \/ Writeback
  BY DEF Next, Step, Advance, Fault

\* What a request is doing agrees with its kind.
KindOK ==
    \A r \in Requests :
        /\ pc[r] = "uploading" => kind[r] \in {"put", "create", "ifMatch"}
        /\ pc[r] = "idle" => kind[r] = "none"
        /\ pc[r] = "create" => kind[r] = "create"
        /\ pc[r] \in {"put", "putSync"} => kind[r] = "put"
        /\ pc[r] \in {"delete", "deleteSync"} => kind[r] = "delete"
        /\ pc[r] \in {"precheck", "openLock", "flock", "recheck", "swap", "swapSync",
                      "unlock", "release"} => kind[r] = "ifMatch"

Typed == TypeOK /\ KindOK

LEMMA TypedInvariant == Spec => []Typed
<1>1. Init => Typed
  BY KindsAssumption, BoundAssumption
  DEF Init, Typed, KindOK, TypeOK, Staging, Versions, Steps, Answers, Nothing
<1>2. Typed /\ [Next]_vars => Typed'
  <2> SUFFICES ASSUME Typed, [Next]_vars PROVE Typed'
    OBVIOUS
  <2> USE KindsAssumption, BoundAssumption
      DEF Typed, KindOK, TypeOK, Staging, Versions, Steps, Answers, Nothing, Goto, Finish,
          Commit, SyncDir, CleanupTmp, GcTempFiles
  <2>1. ASSUME NEW r \in Requests, StartPut(r) PROVE Typed'
    BY <2>1 DEF StartPut, lockVars, diskVars
  <2>2. ASSUME NEW r \in Requests, StartDelete(r) PROVE Typed'
    BY <2>2 DEF StartDelete, lockVars, diskVars
  <2>3. ASSUME NEW r \in Requests, Upload(r) PROVE Typed'
    BY <2>3 DEF Upload, reqVars, lockVars, diskVars
  <2>4. ASSUME NEW r \in Requests, Precheck(r) PROVE Typed'
    BY <2>4 DEF Precheck, CheckEtag, reqVars, diskVars
  <2>5. ASSUME NEW r \in Requests, CreateRename(r) PROVE Typed'
    BY <2>5 DEF CreateRename, reqVars, diskVars
  <2>6. ASSUME NEW r \in Requests, PutRename(r) PROVE Typed'
    BY <2>6 DEF PutRename, reqVars, lockVars
  <2>7. ASSUME NEW r \in Requests, OpenLock(r) PROVE Typed'
    BY <2>7 DEF OpenLock, reqVars, diskVars
  <2>8. ASSUME NEW r \in Requests, Flock(r) PROVE Typed'
    BY <2>8 DEF Flock, reqVars, diskVars
  <2>9. ASSUME NEW r \in Requests, Recheck(r) PROVE Typed'
    BY <2>9 DEF Recheck, CheckEtag, reqVars, diskVars
  <2>10. ASSUME NEW r \in Requests, SwapRename(r) PROVE Typed'
    BY <2>10 DEF SwapRename, reqVars, lockVars
  <2>11. ASSUME NEW r \in Requests, SwapSync(r) PROVE Typed'
    BY <2>11 DEF SwapSync, reqVars, lockVars
  <2>12. ASSUME NEW r \in Requests, UnlinkLock(r) PROVE Typed'
    BY <2>12 DEF UnlinkLock, reqVars, diskVars
  <2>13. ASSUME NEW r \in Requests, Release(r) PROVE Typed'
    BY <2>13 DEF Release, reqVars, diskVars
  <2>14. ASSUME NEW r \in Requests, Unlink(r) PROVE Typed'
    BY <2>14 DEF Unlink, reqVars, diskVars
  <2>15. ASSUME NEW r \in Requests, SyncParent(r) PROVE Typed'
    BY <2>15 DEF SyncParent, reqVars
  <2>16. ASSUME NEW r \in Requests,
                UploadFails(r) \/ CreateFails(r) \/ CallFails(r) \/ Cancel(r)
         PROVE Typed'
    BY <2>16 DEF UploadFails, CreateFails, CallFails, Cancel, reqVars, diskVars
  <2>17. ASSUME Kill \/ PowerLoss PROVE Typed'
    BY <2>17 DEF Kill, PowerLoss, Restart, InFlight, reqVars, diskVars
  <2>18. ASSUME Writeback PROVE Typed'
    BY <2>18 DEF Writeback, reqVars, lockVars
  <2>19. ASSUME UNCHANGED vars PROVE Typed'
    BY <2>19 DEF vars, reqVars, lockVars, diskVars
  <2> QED
    BY NextCases, <2>1, <2>2, <2>3, <2>4, <2>5, <2>6, <2>7, <2>8, <2>9, <2>10,
       <2>11, <2>12, <2>13, <2>14, <2>15, <2>16, <2>17, <2>18, <2>19
<1> QED
  BY <1>1, <1>2, PTL DEF Spec

\* Type correctness: the state stays in the sets TypeOK names, for the whole of
\* the write path of write.rs, delete_object and restarts.
THEOREM TypeCorrect == Spec => []TypeOK
BY TypedInvariant, PTL DEF Typed

-----------------------------------------------------------------------------
(* Durability of acknowledged requests *)

\* Why AckedDurable is inductive: what a request has not committed, or has
\* committed and then fsynced, is not among the changes a power loss takes back.
DurableInv ==
    \A r \in Requests :
        /\ pc[r] # "done" => result[r] = "none" /\ r \notin undone
        /\ pc[r] \in {"idle", "uploading", "precheck", "create", "put", "openLock",
                      "flock", "recheck", "swap", "unlock", "release", "delete"}
              => r \notin unsynced
        /\ result[r] = "ok" /\ kind[r] # "create" => r \notin unsynced \cup undone

LEMMA DurableInvariant == Spec => []DurableInv
<1>1. Init => DurableInv
  BY DEF Init, DurableInv
<1>2. Typed /\ DurableInv /\ [Next]_vars => DurableInv'
  <2> SUFFICES ASSUME Typed, DurableInv, [Next]_vars PROVE DurableInv'
    OBVIOUS
  <2> USE DEF Typed, TypeOK, KindOK, DurableInv, Goto, Finish, Commit, SyncDir
  <2>1. ASSUME NEW r \in Requests, StartPut(r) \/ StartDelete(r) PROVE DurableInv'
    BY <2>1 DEF StartPut, StartDelete, diskVars
  <2>2. ASSUME NEW r \in Requests, Upload(r) PROVE DurableInv'
    BY <2>2 DEF Upload, reqVars, diskVars
  <2>3. ASSUME NEW r \in Requests, Precheck(r) \/ Recheck(r) PROVE DurableInv'
    BY <2>3 DEF Precheck, Recheck, CheckEtag, reqVars, diskVars
  <2>4. ASSUME NEW r \in Requests, CreateRename(r) PROVE DurableInv'
    BY <2>4 DEF CreateRename, reqVars, diskVars
  <2>5. ASSUME NEW r \in Requests, PutRename(r) \/ SwapRename(r) PROVE DurableInv'
    BY <2>5 DEF PutRename, SwapRename, reqVars
  <2>6. ASSUME NEW r \in Requests, OpenLock(r) \/ Flock(r) \/ UnlinkLock(r)
        PROVE DurableInv'
    BY <2>6 DEF OpenLock, Flock, UnlinkLock, reqVars, diskVars
  <2>7. ASSUME NEW r \in Requests, SwapSync(r) PROVE DurableInv'
    BY <2>7 DEF SwapSync, reqVars
  <2>8. ASSUME NEW r \in Requests, Release(r) PROVE DurableInv'
    BY <2>8 DEF Release, reqVars, diskVars
  <2>9. ASSUME NEW r \in Requests, Unlink(r) PROVE DurableInv'
    BY <2>9 DEF Unlink, reqVars, diskVars
  <2>10. ASSUME NEW r \in Requests, SyncParent(r) PROVE DurableInv'
    BY <2>10 DEF SyncParent, reqVars
  <2>11. ASSUME NEW r \in Requests,
                UploadFails(r) \/ CreateFails(r) \/ CallFails(r) \/ Cancel(r)
         PROVE DurableInv'
    BY <2>11 DEF UploadFails, CreateFails, CallFails, Cancel, reqVars, diskVars
  <2>12. ASSUME Kill \/ PowerLoss PROVE DurableInv'
    BY <2>12 DEF Kill, PowerLoss, Restart, InFlight, reqVars, diskVars
  <2>13. ASSUME Writeback PROVE DurableInv'
    BY <2>13 DEF Writeback, reqVars
  <2>14. ASSUME UNCHANGED vars PROVE DurableInv'
    BY <2>14 DEF vars, reqVars, diskVars
  <2> QED
    BY NextCases, <2>1, <2>2, <2>3, <2>4, <2>5, <2>6, <2>7, <2>8, <2>9, <2>10,
       <2>11, <2>12, <2>13, <2>14
<1> QED
  BY <1>1, <1>2, TypedInvariant, PTL DEF Spec

\* A PUT, an If-Match PUT or a DELETE answered with success survives any later
\* power loss: write_object and delete_object fsync the directory first.
THEOREM AckedWritesAreDurable == Spec => []AckedDurable
<1>1. DurableInv => AckedDurable
  BY DEF DurableInv, AckedDurable
<1> QED
  BY <1>1, DurableInvariant, PTL

-----------------------------------------------------------------------------
(* The compare-and-swap race on one etag *)

\* The If-Match request has replaced the version and has not been told it failed.
Past(r) ==
    kind[r] = "ifMatch" /\ (pc[r] \in {"swapSync", "unlock", "release"} \/ result[r] = "ok")

\* The clients race to replace the initial version, by its etag or with If-Match: *,
\* beside creates.  Until one of them has, nobody has unlinked the lock file, so every
\* handle is the same inode and the flock excludes, and a create finds the path taken;
\* afterwards no recheck of the etag can succeed any more, so the unlinking of the
\* lock file while waiters still hold the old inode does no harm.
RaceInv(e) ==
    /\ \A r \in Requests :
        /\ etag[r] # e
        /\ kind[r] = "ifMatch" => expects[r] \in {e, AnyEtag}
        /\ pc[r] # "done" => result[r] = "none"
        /\ fd[r] # NoLock <=> pc[r] \in {"flock", "recheck", "swap", "swapSync",
                                          "unlock", "release"}
        /\ r \in locked <=> pc[r] \in {"recheck", "swap", "swapSync", "unlock", "release"}
        /\ pc[r] = "swap" => /\ object # NoObject /\ etag[object] # NoEtag
                             /\ expects[r] = e => object = Initial /\ etag[Initial] = e
        /\ Past(r) => object # Initial
        /\ Past(r) /\ pc[r] # "swapSync" => disk # Initial
        /\ object = Initial /\ fd[r] # NoLock => fd[r] = lockFile
    /\ \A q, r \in locked : fd[q] = fd[r] => q = r
    /\ \A q, r \in Requests : Past(q) /\ Past(r) /\ expects[q] = e /\ expects[r] = e => q = r

\* What an If-Match request has replaced was what it asked for, and so it stays: a
\* version has the etag it was uploaded with.
ReplacedInv(e) ==
    /\ object \in Requests => etag[object] \in Etags
    /\ disk \in Requests => etag[disk] \in Etags
    /\ \A r \in Requests : pc[r] # "idle" => etag[r] \in Etags
    /\ \A r \in Requests : kind[r] \in {"ifMatch", "none"} /\ replaced[r] # Nothing =>
          /\ kind[r] = "ifMatch" /\ replaced[r] # NoObject
          /\ etag[replaced[r]] \in (Etags \cup InitialEtags) \ {NoEtag}
          /\ expects[r] = e => replaced[r] = Initial /\ etag[Initial] = e

LEMMA RaceInvariant ==
    ASSUME NEW e, e # AnyEtag, e # NoEtag, e \notin Etags,
           Kinds \subseteq {"ifMatch", "create"}, Expected \subseteq {e, AnyEtag}
    PROVE  Spec => [](RaceInv(e) /\ ReplacedInv(e))
<1> DEFINE Inv == RaceInv(e) /\ ReplacedInv(e)
<1>1. Init => Inv
  BY DistinctAssumption DEF Init, RaceInv, ReplacedInv, Past, Versions, Nothing
<1>2. Typed /\ Inv /\ [Next]_vars => Inv'
  <2> SUFFICES ASSUME Typed, Inv, [Next]_vars PROVE Inv'
    OBVIOUS
  <2> USE DistinctAssumption
      DEF Typed, TypeOK, KindOK, Versions, RaceInv, ReplacedInv, Past, Goto, Finish, Commit, SyncDir
  <2>0. \A r \in Requests : kind[r] \in {"ifMatch", "create", "none"}
    OBVIOUS
  <2>1. ASSUME NEW r \in Requests, StartPut(r) PROVE Inv'
    BY <2>1 DEF StartPut, diskVars, lockVars
  <2>2. ASSUME NEW r \in Requests, Upload(r) PROVE Inv'
    BY <2>2, <2>0 DEF Upload, reqVars, diskVars, lockVars
  <2>3. ASSUME NEW r \in Requests, Precheck(r) PROVE Inv'
    BY <2>3 DEF Precheck, CheckEtag, reqVars, diskVars
  <2>4. ASSUME NEW r \in Requests, Recheck(r) PROVE Inv'
    BY <2>4 DEF Recheck, CheckEtag, reqVars, diskVars
  <2>5. ASSUME NEW r \in Requests, OpenLock(r) PROVE Inv'
    BY <2>5 DEF OpenLock, reqVars, diskVars
  <2>6. ASSUME NEW r \in Requests, Flock(r) PROVE Inv'
    BY <2>6 DEF Flock, reqVars, diskVars
  <2>7. ASSUME NEW r \in Requests, SwapRename(r) PROVE Inv'
    BY <2>7 DEF SwapRename, reqVars, lockVars
  <2>8. ASSUME NEW r \in Requests, SwapSync(r) PROVE Inv'
    BY <2>8 DEF SwapSync, reqVars, lockVars
  <2>9. ASSUME NEW r \in Requests, UnlinkLock(r) PROVE Inv'
    BY <2>9 DEF UnlinkLock, reqVars, diskVars
  <2>10. ASSUME NEW r \in Requests, Release(r) PROVE Inv'
    BY <2>10 DEF Release, reqVars, diskVars
  <2>11. ASSUME NEW r \in Requests,
                UploadFails(r) \/ CreateFails(r) \/ CallFails(r) \/ Cancel(r)
         PROVE Inv'
    BY <2>11 DEF UploadFails, CreateFails, CallFails, Cancel, reqVars, diskVars
  <2>12. ASSUME NEW r \in Requests, CreateRename(r) PROVE Inv'
    BY <2>12 DEF CreateRename, reqVars, diskVars
  <2>13. ASSUME Kill \/ PowerLoss PROVE Inv'
    BY <2>13 DEF Kill, PowerLoss, Restart, InFlight, reqVars, diskVars
  <2>14. ASSUME Writeback PROVE Inv'
    BY <2>14 DEF Writeback, reqVars, lockVars
  <2>15. ASSUME UNCHANGED vars PROVE Inv'
    BY <2>15 DEF vars, reqVars, lockVars, diskVars
  <2>16. ASSUME NEW r \in Requests
         PROVE  ~StartDelete(r) /\ ~Unlink(r) /\ ~SyncParent(r) /\ ~PutRename(r)
    BY <2>0 DEF StartDelete, Unlink, SyncParent, PutRename
  <2> QED
    BY NextCases, <2>1, <2>2, <2>3, <2>4, <2>5, <2>6, <2>7, <2>8, <2>9, <2>10,
       <2>11, <2>13, <2>14, <2>15, <2>16, <2>12
<1> QED
  BY <1>1, <1>2, TypedInvariant, PTL DEF Spec

\* However many clients race with If-Match on the same etag to replace the one
\* version that carries it, beside If-Match: * and creates and through crashes and
\* power losses, at most one of them is told that it won (the promise of
\* commit_locked).
THEOREM OneWinner ==
    ASSUME NEW e, e # AnyEtag, e # NoEtag, e \notin Etags,
           Kinds \subseteq {"ifMatch", "create"}, Expected \subseteq {e, AnyEtag}
    PROVE  Spec => []OneWinnerPerEtag
<1>1. RaceInv(e) => OneWinnerPerEtag
  BY DEF RaceInv, OneWinnerPerEtag, Past
<1> QED
  BY <1>1, RaceInvariant, PTL

\* In the same race a request only ever replaces the version whose etag it was
\* given: nothing is overwritten unseen.
THEOREM RaceReplacesExpected ==
    ASSUME NEW e, e # AnyEtag, e # NoEtag, e \notin Etags,
           Kinds \subseteq {"ifMatch", "create"}, Expected \subseteq {e, AnyEtag}
    PROVE  Spec => []CasReplacesExpected
<1>1. RaceInv(e) /\ ReplacedInv(e) => CasReplacesExpected
  <2> SUFFICES ASSUME RaceInv(e), ReplacedInv(e), NEW r \in Requests, kind[r] = "ifMatch",
                      replaced[r] # Nothing
               PROVE  /\ replaced[r] # NoObject
                      /\ etag[replaced[r]] # NoEtag
                      /\ expects[r] \in {AnyEtag, etag[replaced[r]]}
    BY DEF CasReplacesExpected
  <2> QED
    BY DistinctAssumption DEF RaceInv, ReplacedInv
<1> QED
  BY <1>1, RaceInvariant, TypedInvariant, PTL

-----------------------------------------------------------------------------
(* The path as an atomic, durable cell *)

\* What a request has done to the path agrees with the step it is at.
CommitInv ==
    \A r \in Requests :
        /\ pc[r] = "idle" => expects[r] = AnyEtag /\ etag[r] = NoEtag
        /\ pc[r] # "done" => result[r] = "none"
        /\ pc[r] \in {"idle", "uploading", "precheck", "create", "put", "openLock",
                      "flock", "recheck", "swap", "delete"} => replaced[r] = Nothing
        /\ pc[r] \in {"putSync", "deleteSync", "swapSync", "unlock", "release"}
              => replaced[r] # Nothing

LEMMA CommitInvariant == Spec => []CommitInv
<1>1. Init => CommitInv
  BY DistinctAssumption DEF Init, CommitInv, Versions
<1>2. Typed /\ CommitInv /\ [Next]_vars => CommitInv'
  <2> SUFFICES ASSUME Typed, CommitInv, [Next]_vars PROVE CommitInv'
    OBVIOUS
  <2> USE DistinctAssumption
      DEF Typed, TypeOK, KindOK, Versions, CommitInv, Goto, Finish, Commit, SyncDir
  <2>1. ASSUME NEW r \in Requests, StartPut(r) \/ StartDelete(r) PROVE CommitInv'
    BY <2>1 DEF StartPut, StartDelete
  <2>2. ASSUME NEW r \in Requests,
               \/ Upload(r) \/ Precheck(r) \/ OpenLock(r) \/ Flock(r) \/ Recheck(r)
               \/ SwapSync(r) \/ UnlinkLock(r) \/ Release(r) \/ SyncParent(r)
        PROVE  CommitInv'
    BY <2>2 DEF Upload, Precheck, OpenLock, Flock, Recheck, SwapSync, UnlinkLock,
                Release, SyncParent, reqVars
  <2>3. ASSUME NEW r \in Requests,
               CreateRename(r) \/ PutRename(r) \/ SwapRename(r) \/ Unlink(r)
        PROVE  CommitInv'
    BY <2>3 DEF CreateRename, PutRename, SwapRename, Unlink, reqVars
  <2>4. ASSUME NEW r \in Requests,
               UploadFails(r) \/ CreateFails(r) \/ CallFails(r) \/ Cancel(r)
        PROVE CommitInv'
    BY <2>4 DEF UploadFails, CreateFails, CallFails, Cancel, reqVars
  <2>5. ASSUME Kill \/ PowerLoss \/ Writeback \/ UNCHANGED vars PROVE CommitInv'
    BY <2>5 DEF Kill, PowerLoss, Restart, InFlight, Writeback, vars, reqVars
  <2> QED
    BY NextCases, <2>1, <2>2, <2>3, <2>4, <2>5
<1> QED
  BY <1>1, <1>2, TypedInvariant, PTL DEF Spec

\* A step that moves one request moves one phase.
LEMMA OnePhase ==
    ASSUME NEW r \in Requests, NEW p, Phase(r)' = p,
           \A q \in Requests \ {r} : Phase(q)' = Phase(q)
    PROVE  [q \in Requests |-> Phase(q)]' = [[q \in Requests |-> Phase(q)] EXCEPT ![r] = p]
OBVIOUS

\* An If-Match request renames only while its condition still holds.  The lock is
\* there to make it so; the rest of the refinement does not depend on it.
SwapsAreCurrent ==
    \A r \in Requests : pc[r] = "swap" =>
        /\ object # NoObject /\ etag[object] # NoEtag
        /\ expects[r] \in {AnyEtag, etag[object]}

\* Every step is one of the atomic object or none, as long as that is so: each
\* request takes effect at its rename, renameat2 or unlink, is refused by a look at
\* the path that shows its condition false, and is answered when it is durable.
LEMMA AtomicSteps ==
    Typed /\ CommitInv /\ DurableInv /\ SwapsAreCurrent /\ [Next]_vars
        => [Atomic!Next]_(Atomic!vars)
<1> SUFFICES ASSUME Typed, CommitInv, DurableInv, SwapsAreCurrent, [Next]_vars
             PROVE  [Atomic!Next]_(Atomic!vars)
  OBVIOUS
<1> USE DistinctAssumption
    DEF Typed, TypeOK, KindOK, Versions, CommitInv, Goto, Finish, Commit, SyncDir, Phase
<1>1. ASSUME NEW r \in Requests, StartPut(r) PROVE Atomic!Submit(r)
  <2>1. /\ Phase(r) = "new" /\ Phase(r)' = "open"
        /\ \A q \in Requests \ {r} : Phase(q)' = Phase(q)
    BY <1>1 DEF StartPut
  <2>2. PICK k \in Kinds \ {"delete"}, x \in Expected \cup {AnyEtag}, e \in Etags :
           /\ kind' = [kind EXCEPT ![r] = k]
           /\ expects' = [expects EXCEPT ![r] = x]
           /\ etag' = [etag EXCEPT ![r] = e]
    BY ONLY <1>1 DEF StartPut
  <2>3. k \in Kinds /\ e \in Etags \cup {NoEtag}
    OBVIOUS
  <2>4. UNCHANGED <<object, disk, unsynced>>
    BY <1>1 DEF StartPut, diskVars
  <2> QED
    BY ONLY <2>1, <2>2, <2>3, <2>4, OnePhase DEF Atomic!Submit, Atomic!Move
<1>2. ASSUME NEW r \in Requests, StartDelete(r) PROVE Atomic!Submit(r)
  <2>1. /\ Phase(r) = "new" /\ Phase(r)' = "open"
        /\ \A q \in Requests \ {r} : Phase(q)' = Phase(q)
    BY <1>2 DEF StartDelete
  <2>2. /\ "delete" \in Kinds
        /\ kind' = [kind EXCEPT ![r] = "delete"]
        /\ expects' = [expects EXCEPT ![r] = AnyEtag]
        /\ etag' = [etag EXCEPT ![r] = NoEtag]
    BY <1>2 DEF StartDelete
  <2>3. UNCHANGED <<object, disk, unsynced>>
    BY <1>2 DEF StartDelete, diskVars
  <2> QED
    BY ONLY <2>1, <2>2, <2>3, OnePhase DEF Atomic!Submit, Atomic!Move
<1>3. ASSUME NEW r \in Requests, Upload(r) PROVE UNCHANGED Atomic!vars
  BY <1>3 DEF Upload, Atomic!vars, reqVars, diskVars
<1>4. ASSUME NEW r \in Requests, CreateRename(r)
      PROVE  Atomic!Apply(r) \/ Atomic!Refuse(r)
  <2>1. /\ kind[r] = "create" /\ Phase(r) = "open"
        /\ \A q \in Requests \ {r} : Phase(q)' = Phase(q)
        /\ UNCHANGED <<disk, kind, expects, etag>>
    BY <1>4 DEF CreateRename, reqVars, diskVars
  <2>2. CASE object = NoObject
    <3>1. Phase(r)' = "ok" /\ object' = r /\ unsynced' = unsynced \cup {r}
      BY <1>4, <2>2 DEF CreateRename
    <3> QED
      BY ONLY <2>1, <2>2, <3>1, OnePhase DEF Atomic!Apply, Atomic!Accepts, Atomic!Move
  <2>3. CASE object # NoObject
    <3>1. Phase(r)' = "refused" /\ UNCHANGED <<object, unsynced>>
      BY <1>4, <2>3 DEF CreateRename, diskVars
    <3> QED
      BY ONLY <2>1, <2>3, <3>1, OnePhase DEF Atomic!Refuse, Atomic!Accepts, Atomic!Move
  <2> QED
    BY ONLY <2>2, <2>3
<1>5. ASSUME NEW r \in Requests, PutRename(r) PROVE Atomic!Apply(r)
  BY <1>5 DEF PutRename, Atomic!Apply, Atomic!Accepts, Atomic!Move, reqVars
<1>6. ASSUME NEW r \in Requests, Unlink(r)
      PROVE  Atomic!Apply(r) \/ Atomic!DeleteNothing(r)
  <2>1. /\ kind[r] = "delete" /\ Phase(r) = "open"
        /\ \A q \in Requests \ {r} : Phase(q)' = Phase(q)
        /\ UNCHANGED <<disk, kind, expects, etag>>
    BY <1>6 DEF Unlink, reqVars, diskVars
  <2>2. CASE object = NoObject
    <3>1. Phase(r)' = "ok" /\ UNCHANGED <<object, unsynced>>
      BY <1>6, <2>2 DEF Unlink, diskVars
    <3> QED
      BY ONLY <2>1, <2>2, <3>1, OnePhase DEF Atomic!DeleteNothing, Atomic!Move
  <2>3. CASE object # NoObject
    <3>1. Phase(r)' = "applied" /\ object' = NoObject /\ unsynced' = unsynced \cup {r}
      BY <1>6, <2>3 DEF Unlink
    <3> QED
      BY ONLY <2>1, <2>3, <3>1, OnePhase DEF Atomic!Apply, Atomic!Accepts, Atomic!Move
  <2> QED
    BY ONLY <2>2, <2>3
<1>7. ASSUME NEW r \in Requests, SyncParent(r) PROVE Atomic!PersistAndAck(r)
  BY <1>7 DEF SyncParent, Atomic!PersistAndAck, Atomic!Move, reqVars
<1>8. ASSUME NEW r \in Requests,
             UploadFails(r) \/ CreateFails(r) \/ CallFails(r) \/ Cancel(r)
      PROVE  Atomic!Fail({r})
  BY <1>8 DEF UploadFails, CreateFails, CallFails, Cancel, Atomic!Fail, reqVars, diskVars
<1>9. ASSUME NEW r \in Requests, Precheck(r) \/ Recheck(r)
       PROVE  \/ Atomic!Refuse(r) \/ Atomic!Fail({r}) \/ UNCHANGED Atomic!vars
  <2>1. /\ kind[r] = "ifMatch" /\ Phase(r) = "open"
        /\ \A q \in Requests \ {r} : Phase(q)' = Phase(q)
        /\ UNCHANGED <<object, disk, unsynced, kind, expects, etag>>
    BY <1>9 DEF Precheck, Recheck, reqVars, diskVars
  <2>2. CASE CheckEtag(r) = "ok"
    <3>1. Phase(r)' = Phase(r)
      BY <1>9, <2>1, <2>2 DEF Precheck, Recheck
    <3> QED
      BY ONLY <2>1, <3>1 DEF Atomic!vars
  <2>3. CASE CheckEtag(r) \in {"notFound", "mismatch"}
    <3>1. Phase(r)' = "refused"
      BY <1>9, <2>3 DEF Precheck, Recheck
    <3>2. object # NoObject /\ (etag[object] = NoEtag \/ expects[r] \notin {AnyEtag, etag[object]})
      BY ONLY <2>3 DEF CheckEtag
    <3> QED
      BY ONLY <2>1, <3>1, <3>2, OnePhase DEF Atomic!Refuse, Atomic!Accepts, Atomic!Move
  <2>4. CASE CheckEtag(r) = "error"
    <3>1. Phase(r)' = "failed"
      BY <1>9, <2>4 DEF Precheck, Recheck
    <3> QED
      BY ONLY <2>1, <3>1 DEF Atomic!Fail
  <2> QED
    BY ONLY <2>2, <2>3, <2>4 DEF CheckEtag
<1>10. ASSUME NEW r \in Requests, OpenLock(r) \/ Flock(r) \/ UnlinkLock(r)
       PROVE  UNCHANGED Atomic!vars
  BY <1>10 DEF OpenLock, Flock, UnlinkLock, Atomic!vars, reqVars, diskVars
<1>11. ASSUME NEW r \in Requests, SwapRename(r) PROVE Atomic!Apply(r)
  <2>1. /\ kind[r] = "ifMatch" /\ Phase(r) = "open" /\ Phase(r)' = "applied"
        /\ \A q \in Requests \ {r} : Phase(q)' = Phase(q)
        /\ UNCHANGED <<disk, kind, expects, etag>>
        /\ object' = r /\ unsynced' = unsynced \cup {r}
    BY <1>11 DEF SwapRename, reqVars
  <2>2. Atomic!Accepts(r)
    BY <1>11, <2>1 DEF SwapRename, SwapsAreCurrent, Atomic!Accepts
  <2> QED
    BY ONLY <2>1, <2>2, OnePhase DEF Atomic!Apply, Atomic!Move
<1>12. ASSUME NEW r \in Requests, SwapSync(r) PROVE Atomic!Persist
  BY <1>12 DEF SwapSync, Atomic!Persist, reqVars
<1>13. ASSUME NEW r \in Requests, Release(r) PROVE Atomic!Ack(r)
  BY <1>13 DEF Release, DurableInv, Atomic!Ack, Atomic!Move, reqVars, diskVars
<1>14. ASSUME Kill PROVE \E S \in SUBSET Requests : Atomic!Fail(S)
  <2> DEFINE S == {r \in Requests : InFlight(r)}
  <2>1. S \in SUBSET Requests
    OBVIOUS
  <2>2. Atomic!Fail(S)
    BY <1>14 DEF Kill, Restart, InFlight, Atomic!Fail, reqVars, diskVars
  <2> HIDE DEF S
  <2> QED
    BY ONLY <2>1, <2>2 DEF Atomic!Fail
<1>15. ASSUME PowerLoss PROVE Atomic!PowerLoss
  BY <1>15 DEF PowerLoss, Restart, InFlight, Atomic!PowerLoss, reqVars
<1>16. ASSUME Writeback PROVE Atomic!Persist
  BY <1>16 DEF Writeback, Atomic!Persist, reqVars
<1>17. ASSUME UNCHANGED vars PROVE UNCHANGED Atomic!vars
  BY <1>17 DEF vars, Atomic!vars, reqVars, diskVars
<1>18. \A r \in Requests : {r} \in SUBSET Requests
  OBVIOUS
<1>19. ASSUME NEW r \in Requests,
              \/ StartPut(r) \/ StartDelete(r) \/ Upload(r) \/ CreateRename(r)
              \/ PutRename(r) \/ Unlink(r) \/ SyncParent(r) \/ UploadFails(r)
              \/ CreateFails(r) \/ CallFails(r) \/ Cancel(r)
       PROVE  Atomic!Next \/ UNCHANGED Atomic!vars
  BY ONLY <1>19, <1>1, <1>2, <1>3, <1>4, <1>5, <1>6, <1>7, <1>8, <1>18
  DEF Atomic!Next
<1>20. ASSUME Kill \/ PowerLoss \/ Writeback \/ UNCHANGED vars
       PROVE  Atomic!Next \/ UNCHANGED Atomic!vars
  <2>1. CASE Kill
    BY ONLY <2>1, <1>14 DEF Atomic!Next
  <2>2. CASE PowerLoss
    BY ONLY <2>2, <1>15 DEF Atomic!Next
  <2>3. CASE Writeback
    BY ONLY <2>3, <1>16 DEF Atomic!Next
  <2> QED
    BY ONLY <1>20, <1>17, <2>1, <2>2, <2>3
<1>21. ASSUME NEW r \in Requests,
              \/ Precheck(r) \/ Recheck(r) \/ OpenLock(r) \/ Flock(r) \/ UnlinkLock(r)
              \/ SwapRename(r) \/ SwapSync(r) \/ Release(r)
       PROVE  Atomic!Next \/ UNCHANGED Atomic!vars
  BY ONLY <1>21, <1>9, <1>18, <1>10, <1>11, <1>12, <1>13 DEF Atomic!Next
<1>22. CASE Next
  BY ONLY <1>22, NextCases, <1>19, <1>20, <1>21
<1> QED
  BY ONLY <1>20, <1>22, [Next]_vars

\* The initial states are those of the atomic object.
LEMMA AtomicStart == Init => Atomic!Init
  BY DistinctAssumption DEF Init, Atomic!Init, Phase, Versions

\* PUT, If-None-Match PUT and DELETE implement the atomic object: each takes
\* effect at one instant (its rename, renameat2 or unlink), is refused only if
\* the path was occupied, and is durable when acknowledged.
THEOREM PlainWritesAreAtomic ==
    ASSUME "ifMatch" \notin Kinds
    PROVE  Spec => ImplementsAtomicObject
<1>1. Typed => SwapsAreCurrent
  BY DEF Typed, TypeOK, KindOK, SwapsAreCurrent
<1> QED
  BY <1>1, AtomicStart, AtomicSteps, TypedInvariant, CommitInvariant, DurableInvariant, PTL
  DEF Spec, ImplementsAtomicObject, Atomic!Spec

\* However many If-Match PUTs race for the one version with a given etag, beside any
\* number of If-Match: *, creates, crashes and power losses, commit_locked makes them atomic:
\* what the re-check saw under the lock is still there at the rename.
THEOREM RacesAreAtomic ==
    ASSUME NEW e, e # AnyEtag, e # NoEtag, e \notin Etags,
           Kinds \subseteq {"ifMatch", "create"}, Expected \subseteq {e, AnyEtag}
    PROVE  Spec => ImplementsAtomicObject
<1>1. Typed /\ RaceInv(e) => SwapsAreCurrent
  <2> SUFFICES ASSUME Typed, RaceInv(e), NEW r \in Requests, pc[r] = "swap"
               PROVE  /\ object # NoObject /\ etag[object] # NoEtag
                      /\ expects[r] \in {AnyEtag, etag[object]}
    BY DEF SwapsAreCurrent
  <2>1. kind[r] = "ifMatch"
    BY DEF Typed, KindOK
  <2> QED
    BY <2>1 DEF RaceInv
<1> QED
  BY <1>1, AtomicStart, AtomicSteps, TypedInvariant, CommitInvariant, DurableInvariant,
     RaceInvariant, PTL
  DEF Spec, ImplementsAtomicObject, Atomic!Spec

-----------------------------------------------------------------------------
(* If-None-Match: * counted against the DELETEs *)

\* A request has done nothing to the path before its commit.
FreshInv ==
    \A r \in Requests :
        /\ pc[r] # "done" => result[r] = "none" /\ r \notin undone
        /\ pc[r] \in {"idle", "uploading", "create", "delete"}
              => replaced[r] = Nothing /\ r \notin unsynced

LEMMA FreshInvariant == Spec => []FreshInv
<1>1. Init => FreshInv
  BY DEF Init, FreshInv
<1>2. Typed /\ FreshInv /\ [Next]_vars => FreshInv'
  <2> SUFFICES ASSUME Typed, FreshInv, [Next]_vars PROVE FreshInv'
    OBVIOUS
  <2> USE DEF Typed, TypeOK, KindOK, FreshInv, Goto, Finish, Commit, SyncDir
  <2>1. ASSUME NEW r \in Requests, StartPut(r) \/ StartDelete(r) PROVE FreshInv'
    BY <2>1 DEF StartPut, StartDelete, diskVars
  <2>2. ASSUME NEW r \in Requests, Upload(r) PROVE FreshInv'
    BY <2>2 DEF Upload, diskVars
  <2>3. ASSUME NEW r \in Requests, Precheck(r) \/ Recheck(r) PROVE FreshInv'
    BY <2>3 DEF Precheck, Recheck, CheckEtag, diskVars
  <2>4. ASSUME NEW r \in Requests, CreateRename(r) PROVE FreshInv'
    BY <2>4 DEF CreateRename, diskVars
  <2>5. ASSUME NEW r \in Requests, PutRename(r) \/ SwapRename(r) PROVE FreshInv'
    BY <2>5 DEF PutRename, SwapRename
  <2>6. ASSUME NEW r \in Requests, OpenLock(r) \/ Flock(r) \/ SwapSync(r) PROVE FreshInv'
    BY <2>6 DEF OpenLock, Flock, SwapSync, diskVars
  <2>7. ASSUME NEW r \in Requests, UnlinkLock(r) \/ Release(r) PROVE FreshInv'
    BY <2>7 DEF UnlinkLock, Release, diskVars
  <2>8. ASSUME NEW r \in Requests, Unlink(r) \/ SyncParent(r) PROVE FreshInv'
    BY <2>8 DEF Unlink, SyncParent, diskVars
  <2>9. ASSUME NEW r \in Requests,
               UploadFails(r) \/ CreateFails(r) \/ CallFails(r) \/ Cancel(r)
        PROVE FreshInv'
    BY <2>9 DEF UploadFails, CreateFails, CallFails, Cancel, diskVars
  <2>10. ASSUME Kill \/ PowerLoss PROVE FreshInv'
    BY <2>10 DEF Kill, PowerLoss, Restart, InFlight, diskVars
  <2>11. ASSUME Writeback \/ UNCHANGED vars PROVE FreshInv'
    BY <2>11 DEF Writeback, vars, diskVars
  <2> QED
    BY NextCases, <2>1, <2>2, <2>3, <2>4, <2>5, <2>6, <2>7, <2>8, <2>9, <2>10, <2>11
<1> QED
  BY <1>1, <1>2, TypedInvariant, PTL DEF Spec

\* The creates that were told "ok" and the removals, as a running process sees them
\* and as a power loss would leave them.
Creates == {r \in Requests : Created(r) /\ r \notin undone}
Removes == {r \in Requests : Removed(r) /\ r \notin undone}
Occupied(entry) == IF entry = NoObject THEN 0 ELSE 1

\* C creates and R removals that add up to what the entry is now.
Balance(C, R, entry) ==
    /\ IsFiniteSet(C) /\ IsFiniteSet(R)
    /\ Cardinality(C) <= Cardinality(R) + Occupied(entry)

\* The books are kept twice: CreateOnly alone is not inductive, because a power loss
\* goes back to the durable entry, which has to be in balance with what it keeps.
LedgerInv ==
    /\ Balance(Creates, Removes, object)
    /\ Balance(Creates \ unsynced, Removes \ unsynced, disk)

\* A create fills an empty entry, a removal empties a full one, and any other commit
\* leaves an entry that is not empty: the balance is kept.
LEMMA BalanceKept ==
    ASSUME NEW C, NEW R, NEW entry, NEW r, NEW C1, NEW R1, NEW entry1,
           Balance(C, R, entry),
           \/ C1 = C /\ R1 = R /\ (entry1 = entry \/ entry1 # NoObject)
           \/ C1 = C \cup {r} /\ R1 = R /\ entry = NoObject /\ entry1 # NoObject
           \/ C1 = C /\ r \notin R /\ R1 = R \cup {r} /\ entry # NoObject
    PROVE  Balance(C1, R1, entry1)
<1>1. /\ IsFiniteSet(C \cup {r})
      /\ Cardinality(C \cup {r}) = IF r \in C THEN Cardinality(C) ELSE Cardinality(C) + 1
      /\ IsFiniteSet(R \cup {r})
      /\ r \notin R => Cardinality(R \cup {r}) = Cardinality(R) + 1
  BY FS_AddElement DEF Balance
<1>2. Cardinality(C) \in Nat /\ Cardinality(R) \in Nat
  BY FS_CardinalityType DEF Balance
<1> QED
  BY <1>1, <1>2 DEF Balance, Occupied

\* A step that takes nothing in or out of the books and keeps the entries.
LEMMA LedgerUntouched ==
    ASSUME LedgerInv, Creates' = Creates, Removes' = Removes,
           UNCHANGED <<object, diskVars>>
    PROVE  LedgerInv'
BY DEF LedgerInv, Balance, diskVars, Occupied

\* If-None-Match: * only creates: of the creates that were answered with success and
\* not taken back by a power loss, there is at most one more than there are removals
\* (renameat2 with RENAME_NOREPLACE in commit_locked).
THEOREM CreatesOnlyCreate == Spec => []CreateOnly
<1> DEFINE Inv == Typed /\ FreshInv
<1>1. Init => LedgerInv
  <2> SUFFICES ASSUME Init PROVE LedgerInv
    OBVIOUS
  <2>1. Creates = {} /\ Removes = {} /\ unsynced = {} /\ disk = object
    BY DEF Init, Creates, Removes, Created, Removed
  <2>2. IsFiniteSet({}) /\ Cardinality({}) = 0
    BY FS_EmptySet
  <2> QED
    BY <2>1, <2>2 DEF LedgerInv, Balance, Occupied
<1>2. Inv /\ LedgerInv /\ [Next]_vars => LedgerInv'
  <2> SUFFICES ASSUME Inv, LedgerInv, [Next]_vars PROVE LedgerInv'
    OBVIOUS
  <2>1. ASSUME NEW r \in Requests,
               \/ StartPut(r) \/ StartDelete(r) \/ Upload(r) \/ Precheck(r)
               \/ OpenLock(r) \/ Flock(r) \/ Recheck(r) \/ UnlinkLock(r) \/ Release(r)
               \/ UploadFails(r) \/ CreateFails(r) \/ CallFails(r) \/ Cancel(r)
        PROVE LedgerInv'
    <3>1. UNCHANGED <<object, diskVars>>
      BY <2>1 DEF StartPut, StartDelete, Upload, Precheck, OpenLock, Flock, Recheck, UnlinkLock,
         Release, UploadFails, CreateFails, CallFails, Cancel
    <3>2. Creates' = Creates /\ Removes' = Removes
      <4> USE DEF Typed, TypeOK, KindOK, FreshInv, Creates, Removes, Created, Removed,
                  Goto, Finish, diskVars
      <4>1. CASE StartPut(r) \/ StartDelete(r)
        BY <4>1 DEF StartPut, StartDelete
      <4>2. CASE Upload(r) \/ OpenLock(r) \/ Flock(r) \/ UnlinkLock(r) \/ Release(r)
        BY <4>2 DEF Upload, OpenLock, Flock, UnlinkLock, Release, reqVars
      <4>3. CASE Precheck(r) \/ Recheck(r)
        BY <4>3 DEF Precheck, Recheck, CheckEtag, reqVars
      <4>4. CASE UploadFails(r) \/ CreateFails(r) \/ CallFails(r) \/ Cancel(r)
        BY <4>4 DEF UploadFails, CreateFails, CallFails, Cancel, reqVars
      <4> QED
        BY <2>1, <4>1, <4>2, <4>3, <4>4
    <3> QED
      BY <3>1, <3>2, LedgerUntouched
  <2>2. ASSUME NEW r \in Requests, CreateRename(r) PROVE LedgerInv'
    <3>1. CASE object = NoObject
      <4>1. Creates' = Creates \cup {r} /\ Removes' = Removes
        BY <2>2, <3>1 DEF CreateRename, Typed, TypeOK, KindOK, FreshInv, Creates, Removes,
           Created, Removed, Finish, Commit, reqVars
      <4>2. object' = r /\ r # NoObject /\ unsynced' = unsynced \cup {r} /\ disk' = disk
        BY <2>2, <3>1, DistinctAssumption DEF CreateRename, Commit
      <4>3. r \notin Removes
        BY <2>2 DEF CreateRename, Typed, KindOK, Removes, Removed
      <4>4. Balance(Creates', Removes', object')
        BY <4>1, <4>2, <3>1, BalanceKept DEF LedgerInv
      <4>5. /\ (Creates \ unsynced)' = (Creates \ unsynced) \ {r}
            /\ (Removes \ unsynced)' = Removes \ unsynced
        BY <4>1, <4>2, <4>3
      <4>6. r \notin Creates
        BY <2>2 DEF CreateRename, Typed, FreshInv, Creates, Created
      <4>7. (Creates \ unsynced)' = Creates \ unsynced
        BY <4>5, <4>6
      <4> QED
        BY <4>2, <4>4, <4>5, <4>7 DEF LedgerInv, Balance, Occupied
    <3>2. CASE object # NoObject
      <4>1. Creates' = Creates /\ Removes' = Removes
        BY <2>2, <3>2 DEF CreateRename, Typed, TypeOK, FreshInv, Creates, Removes,
           Created, Removed, Finish, diskVars, reqVars
      <4>2. UNCHANGED <<object, diskVars>>
        BY <2>2, <3>2 DEF CreateRename
      <4> QED
        BY <4>1, <4>2, LedgerUntouched
    <3> QED
      BY <3>1, <3>2
  <2>3. ASSUME NEW r \in Requests, PutRename(r) \/ SwapRename(r) PROVE LedgerInv'
    <3>1. Creates' = Creates /\ Removes' = Removes
      BY <2>3 DEF PutRename, SwapRename, Typed, TypeOK, KindOK, Creates, Removes,
         Created, Removed, Goto, Commit, reqVars
    <3>2. object' = r /\ r # NoObject /\ unsynced' = unsynced \cup {r} /\ disk' = disk
      BY <2>3, DistinctAssumption DEF PutRename, SwapRename, Commit
    <3>3. r \notin Creates /\ r \notin Removes
      BY <2>3 DEF PutRename, SwapRename, Typed, KindOK, Creates, Removes, Created, Removed
    <3>4. /\ (Creates \ unsynced)' = Creates \ unsynced
          /\ (Removes \ unsynced)' = Removes \ unsynced
      BY <3>1, <3>2, <3>3
    <3>5. Balance(Creates', Removes', object')
      BY <3>1, <3>2, BalanceKept DEF LedgerInv
    <3> QED
      BY <3>2, <3>4, <3>5 DEF LedgerInv, Balance, Occupied
  <2>4. ASSUME NEW r \in Requests, Unlink(r) PROVE LedgerInv'
    <3>1. r \notin Creates /\ r \notin Removes
      BY <2>4 DEF Unlink, Typed, KindOK, FreshInv, Creates, Removes, Created, Removed
    <3>2. CASE object = NoObject
      <4>1. Creates' = Creates /\ Removes' = Removes
        BY <2>4, <3>2 DEF Unlink, Typed, TypeOK, KindOK, FreshInv, Creates, Removes,
           Created, Removed, Finish, diskVars, reqVars
      <4>2. UNCHANGED <<object, diskVars>>
        BY <2>4, <3>2 DEF Unlink
      <4> QED
        BY <4>1, <4>2, LedgerUntouched
    <3>3. CASE object # NoObject
      <4>1. Creates' = Creates /\ Removes' = Removes \cup {r}
        <5>1. object # Nothing
          BY DistinctAssumption DEF Typed, TypeOK, Versions
        <5> QED
          BY <2>4, <3>3, <5>1 DEF Unlink, Typed, TypeOK, KindOK, FreshInv, Creates, Removes,
             Created, Removed, Goto, Commit, reqVars
      <4>2. unsynced' = unsynced \cup {r} /\ disk' = disk
        BY <2>4, <3>3 DEF Unlink, Commit
      <4>3. /\ (Creates \ unsynced)' = Creates \ unsynced
            /\ (Removes \ unsynced)' = Removes \ unsynced
        BY <4>1, <4>2, <3>1
      <4>4. Balance(Creates', Removes', object')
        BY <3>1, <3>3, <4>1, BalanceKept DEF LedgerInv
      <4> QED
        BY <4>2, <4>3, <4>4 DEF LedgerInv, Balance, Occupied
    <3> QED
      BY <3>2, <3>3
  <2>5. ASSUME NEW r \in Requests, SwapSync(r) \/ SyncParent(r) PROVE LedgerInv'
    <3>1. Creates' = Creates /\ Removes' = Removes
      BY <2>5 DEF SwapSync, SyncParent, Typed, TypeOK, KindOK, Creates, Removes,
         Created, Removed, Goto, Finish, SyncDir, reqVars
    <3>2. object' = object /\ disk' = object /\ unsynced' = {}
      BY <2>5 DEF SwapSync, SyncParent, SyncDir
    <3> QED
      BY <3>1, <3>2 DEF LedgerInv, Balance, Occupied
  <2>6. ASSUME Kill PROVE LedgerInv'
    <3>1. Creates' = Creates /\ Removes' = Removes
      BY <2>6 DEF Kill, Restart, InFlight, Typed, TypeOK, FreshInv, Creates, Removes,
         Created, Removed, diskVars, reqVars
    <3> QED
      BY <2>6, <3>1, LedgerUntouched DEF Kill
  <2>7. ASSUME PowerLoss PROVE LedgerInv'
    <3>1. Creates' = Creates \ unsynced /\ Removes' = Removes \ unsynced
      BY <2>7 DEF PowerLoss, Restart, InFlight, Typed, TypeOK, FreshInv, Creates, Removes,
         Created, Removed, reqVars
    <3>2. object' = disk /\ disk' = disk /\ unsynced' = {}
      BY <2>7 DEF PowerLoss
    <3> QED
      BY <3>1, <3>2 DEF LedgerInv, Balance, Occupied
  <2>8. ASSUME Writeback PROVE LedgerInv'
    <3>1. Creates' = Creates /\ Removes' = Removes
      BY <2>8 DEF Writeback, SyncDir, Creates, Removes, Created, Removed, reqVars
    <3>2. object' = object /\ disk' = object /\ unsynced' = {}
      BY <2>8 DEF Writeback, SyncDir
    <3> QED
      BY <3>1, <3>2 DEF LedgerInv, Balance, Occupied
  <2>9. ASSUME UNCHANGED vars PROVE LedgerInv'
    <3>1. Creates' = Creates /\ Removes' = Removes
      BY <2>9 DEF vars, Creates, Removes, Created, Removed, reqVars, diskVars
    <3> QED
      BY <2>9, <3>1, LedgerUntouched DEF vars
  <2> QED
    BY NextCases, <2>1, <2>2, <2>3, <2>4, <2>5, <2>6, <2>7, <2>8, <2>9
<1>3. LedgerInv => CreateOnly
  <2> SUFFICES ASSUME LedgerInv PROVE CreateOnly
    OBVIOUS
  <2>1. Cardinality(Creates) \in Nat /\ Cardinality(Removes) \in Nat
    BY FS_CardinalityType DEF LedgerInv, Balance
  <2>2. Cardinality(Creates) <= 1 + Cardinality(Removes)
    BY <2>1 DEF LedgerInv, Balance, Occupied
  <2> QED
    BY <2>2 DEF CreateOnly, Creates, Removes
<1> QED
  BY <1>1, <1>2, <1>3, TypedInvariant, FreshInvariant, PTL DEF Spec
=============================================================================
