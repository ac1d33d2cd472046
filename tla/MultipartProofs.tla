--------------------------- MODULE MultipartProofs ---------------------------
(***************************************************************************)
(* The properties of a multipart upload, for any number of requests,       *)
(* parts, contents and restarts.                                           *)
(***************************************************************************)
EXTENDS Multipart, TLAPS

\* Which request is where.
Shape ==
    /\ initiated = "dir" => dir
    /\ \A r \in Requests :
        /\ initiated # "yes" => pc[r] = "idle"
        /\ pc[r] = "idle" => kind[r] = "none" /\ bytes[r] = NoArg
        /\ pc[r] # "done" => result[r] = "none"
        /\ pc[r] = "exists" => kind[r] \in {"part", "complete"}
        /\ pc[r] \in {"stream", "rename", "sync"} => kind[r] = "part"
        /\ pc[r] \in {"meta", "check", "open", "syncObject"} => kind[r] = "complete"
        /\ pc[r] = "open" => at[r] \in todo[r]
        /\ pc[r] = "syncObject" => r \in committed
        /\ pc[r] = "remove" => kind[r] = "abort" \/ r \in committed
        /\ r \in committed => pc[r] \in {"syncObject", "remove", "done"}

\* What a completion has assembled is what its list says of the parts it is
\* through with, and the part it checked is still the one it asked for.
Assembling ==
    \A r \in Requests :
        /\ pc[r] \in {"exists", "meta", "check", "open"} =>
              /\ \A n \in todo[r] : arg[r][n] # NoPart
              /\ r \notin overtaken =>
                    \A n \in Parts : bytes[r][n] = IF n \in todo[r] THEN NoPart ELSE arg[r][n]
        /\ pc[r] = "open" /\ r \notin overtaken => part[at[r]] \in {arg[r][at[r]], NoPart}
        /\ r \in committed \ overtaken => bytes[r] = arg[r]

\* A directory that is gone has nothing in it, and after a successful abort it
\* is gone.
GoneIsEmpty ==
    /\ ~dir => ~meta /\ Listed(part) = {}
    /\ \A r \in Requests : kind[r] = "abort" /\ result[r] = "ok" => ~dir

\* A part upload brings one part.
OnePart ==
    \A r \in Requests : kind[r] = "part" /\ pc[r] \in {"exists", "stream", "rename"} =>
        \E n \in Parts :
            /\ todo[r] = {n}
            /\ \A m \in Parts : arg[r][m] # NoPart <=> m = n

\* Only an abort, a completion that has its object, or the collection takes a
\* part away.
PartsStay ==
    Undisturbed =>
        \A r \in Requests :
            kind[r] = "part" /\ (pc[r] = "sync" \/ result[r] = "ok") =>
                \A n \in Parts : arg[r][n] # NoPart => part[n] # NoPart

\* ... and only they take the directory or its sidecar, so that nobody misses them
\* before.
UploadStays ==
    /\ initiated = "yes" /\ Undisturbed => dir /\ meta
    /\ \A r \in Requests : result[r] = "notFound" => ~Undisturbed

USE DEF uploadVars, workVars, historyVars, NoArg, Listed, PartSteps, CompleteSteps, Steps,
        Goto, Finish, CleanupTmp, InFlight, Staging

\* The type invariant, one action at a time.
LEMMA TypeStep == TypeOK /\ Shape /\ [Next]_vars => TypeOK'
<1> SUFFICES ASSUME TypeOK, Shape, [Next]_vars PROVE TypeOK'
    OBVIOUS
<1> USE BoundAssumption DEF TypeOK
<1>1. CASE InitDir BY <1>1 DEF InitDir
<1>2. CASE InitMeta BY <1>2 DEF InitMeta
<1>3. ASSUME NEW r \in Requests, Start(r) PROVE TypeOK'
    BY <1>3 DEF Start
<1>4. ASSUME NEW r \in Requests, Step(r) PROVE TypeOK'
    <2>1. CASE Exists(r) BY <2>1 DEF Exists
    <2>2. CASE Stream(r) BY <2>2 DEF Stream
    <2>3. CASE RenamePart(r)
        <3>1. CASE dir
            <4>1. PICK n \in todo[r] : part' = [part EXCEPT ![n] = arg[r][n]]
                BY <2>3, <3>1 DEF RenamePart, PlacePart
            <4>2. n \in Parts /\ arg[r][n] \in Contents \cup {NoPart}
                OBVIOUS
            <4>3. part' \in [Parts -> Contents \cup {NoPart}]
                BY <4>1, <4>2
            <4>4. overtaken' \subseteq Requests /\ tmp' \subseteq Requests
                BY <2>3, <3>1 DEF RenamePart, PlacePart, Reading
            <4> QED
                BY <2>3, <3>1, <4>3, <4>4 DEF RenamePart, PlacePart
        <3>2. CASE ~dir
            BY <2>3, <3>2 DEF RenamePart
        <3> QED
            BY <3>1, <3>2
    <2>4. CASE SyncPart(r) BY <2>4 DEF SyncPart
    <2>5. CASE ReadMeta(r)
        <3>1. CASE meta BY <2>5, <3>1 DEF ReadMeta
        <3>2. CASE ~meta BY <2>5, <3>2 DEF ReadMeta
        <3> QED BY <3>1, <3>2
    <2>6. CASE CheckPart(r)
        <3>1. PICK n \in Parts :
                  \/ at' = [at EXCEPT ![r] = n] /\ Goto(r, "open") /\ UNCHANGED tmp
                  \/ \E a \in {"error", "invalid"} :
                        Finish(r, a) /\ CleanupTmp(r) /\ UNCHANGED at
            BY <2>6 DEF CheckPart
        <3>2. UNCHANGED <<initiated, dir, meta, part, kind, arg, todo, bytes, object,
                          committed, overtaken, collected, restarts>> /\ pc[r] = "check"
            BY <2>6 DEF CheckPart
        <3>3. CASE at' = [at EXCEPT ![r] = n] /\ Goto(r, "open") /\ UNCHANGED tmp
            BY <3>2, <3>3
        <3>4. ASSUME NEW a \in {"error", "invalid"}, Finish(r, a), CleanupTmp(r), UNCHANGED at
              PROVE  TypeOK'
            BY <3>2, <3>4
        <3> QED
            BY <3>1, <3>3, <3>4
    <2>7. CASE ReadPart(r)
        <3>1. CASE part[at[r]] # NoPart
            <4>1. at[r] \in Parts /\ part[at[r]] \in Contents
                BY <3>1, <2>7 DEF ReadPart, Shape
            <4>2. [bytes[r] EXCEPT ![at[r]] = part[at[r]]] \in [Parts -> Contents \cup {NoPart}]
                BY <4>1
            <4>3. bytes' \in [Requests -> [Parts -> Contents \cup {NoPart}]]
                BY <2>7, <3>1, <4>2 DEF ReadPart
            <4>4. pc' \in [Requests -> Steps] /\ todo' \in [Requests -> SUBSET Parts]
                <5>1. pc' = [pc EXCEPT ![r] = "check"]
                    BY <2>7, <3>1 DEF ReadPart
                <5>2. todo' = [todo EXCEPT ![r] = todo[r] \ {at[r]}]
                    BY <2>7, <3>1 DEF ReadPart
                <5> QED
                    BY <5>1, <5>2
            <4>5. UNCHANGED <<initiated, dir, meta, part, kind, arg, result, at, tmp, object,
                              committed, overtaken, collected, restarts>>
                BY <2>7, <3>1 DEF ReadPart
            <4>6. \A q \in Requests : pc'[q] \in Staging => q \in tmp'
                BY <2>7, <3>1 DEF ReadPart
            <4> QED
                BY <4>3, <4>4, <4>5, <4>6
        <3>2. CASE part[at[r]] = NoPart
            BY <2>7, <3>2 DEF ReadPart
        <3> QED
            BY <3>1, <3>2
    <2>8. CASE Commit(r) BY <2>8 DEF Commit
    <2>9. CASE SyncObject(r) BY <2>9 DEF SyncObject
    <2>10. CASE RemoveFile(r) BY <2>10 DEF RemoveFile
    <2>11. CASE RemoveDir(r) BY <2>11 DEF RemoveDir
    <2> QED
        BY <1>4, <2>1, <2>2, <2>3, <2>4, <2>5, <2>6, <2>7, <2>8, <2>9, <2>10, <2>11 DEF Step
<1>5. ASSUME NEW r \in Requests, Fault(r) PROVE TypeOK'
    BY <1>5 DEF Fault, StreamFails, AssembleFails, CommitFails, RemoveFails, Abandon
<1>6. CASE Die
    <2>1. part' \in [Parts -> Contents \cup {NoPart}] /\ dir' \in BOOLEAN /\ meta' \in BOOLEAN
        BY <1>6 DEF Die
    <2>2. pc' \in [Requests -> Steps] /\ tmp' \subseteq Requests
        BY <1>6 DEF Die
    <2>3. result' \in [Requests -> {"none", "ok", "notFound", "invalid", "error", "lost"}]
        BY <1>6 DEF Die
    <2>4. restarts' \in 0..MaxRestarts /\ initiated' \in {"no", "dir", "yes", "lost"}
        BY <1>6 DEF Die
    <2>5. collected' \in BOOLEAN
        BY <1>6 DEF Die
    <2> QED
        BY <1>6, <2>1, <2>2, <2>3, <2>4, <2>5 DEF Die
<1>7. CASE UNCHANGED vars BY <1>7 DEF vars
<1> QED
    BY <1>1, <1>2, <1>3, <1>4, <1>5, <1>6, <1>7 DEF Next

LEMMA ShapeStep == TypeOK /\ Shape /\ [Next]_vars => Shape'
<1> SUFFICES ASSUME TypeOK, Shape, [Next]_vars PROVE Shape'
    OBVIOUS
<1> USE DEF TypeOK, Shape
<1>1. CASE InitDir BY <1>1 DEF InitDir
<1>2. CASE InitMeta BY <1>2 DEF InitMeta
<1>3. ASSUME NEW r \in Requests, Start(r) PROVE Shape'
    BY <1>3 DEF Start
<1>4. ASSUME NEW r \in Requests, Step(r) PROVE Shape'
    <2>1. CASE Exists(r) BY <2>1 DEF Exists
    <2>2. CASE Stream(r) BY <2>2 DEF Stream
    <2>3. CASE RenamePart(r) BY <2>3 DEF RenamePart, PlacePart
    <2>4. CASE SyncPart(r) BY <2>4 DEF SyncPart
    <2>5. CASE ReadMeta(r) BY <2>5 DEF ReadMeta
    <2>6. CASE CheckPart(r) BY <2>6 DEF CheckPart, Next1
    <2>7. CASE ReadPart(r)
        <3>1. UNCHANGED <<kind, committed, initiated, dir, at>>
            BY <2>7 DEF ReadPart
        <3>2. \A q \in Requests \ {r} : UNCHANGED <<pc[q], result[q], bytes[q], todo[q]>>
            BY <2>7 DEF ReadPart
        <3>3. pc'[r] \in {"check", "done"} /\ (pc'[r] = "check" => result'[r] = "none")
            BY <2>7 DEF ReadPart
        <3>4. kind[r] = "complete" /\ initiated = "yes" /\ r \notin committed
            BY <2>7 DEF ReadPart
        <3> QED
            BY <3>1, <3>2, <3>3, <3>4
    <2>8. CASE Commit(r) BY <2>8 DEF Commit
    <2>9. CASE SyncObject(r)
        <3>1. CASE Goto(r, "remove")
            BY <2>9, <3>1 DEF SyncObject
        <3>2. CASE Finish(r, "error")
            BY <2>9, <3>2 DEF SyncObject
        <3> QED
            BY <2>9, <3>1, <3>2 DEF SyncObject
    <2>10. CASE RemoveFile(r) BY <2>10 DEF RemoveFile
    <2>11. CASE RemoveDir(r) BY <2>11 DEF RemoveDir
    <2> QED
        BY <1>4, <2>1, <2>2, <2>3, <2>4, <2>5, <2>6, <2>7, <2>8, <2>9, <2>10, <2>11 DEF Step
<1>5. ASSUME NEW r \in Requests, Fault(r) PROVE Shape'
    BY <1>5 DEF Fault, StreamFails, AssembleFails, CommitFails, RemoveFails, Abandon
<1>6. CASE Die BY <1>6 DEF Die
<1>7. CASE UNCHANGED vars BY <1>7 DEF vars
<1> QED
    BY <1>1, <1>2, <1>3, <1>4, <1>5, <1>6, <1>7 DEF Next

LEMMA AssemblingStep == TypeOK /\ Shape /\ Assembling /\ [Next]_vars => Assembling'
<1> SUFFICES ASSUME TypeOK, Shape, Assembling, [Next]_vars PROVE Assembling'
    OBVIOUS
<1> USE DistinctAssumption DEF TypeOK, Assembling
<1>1. CASE InitDir BY <1>1 DEF InitDir
<1>2. CASE InitMeta BY <1>2 DEF InitMeta
<1>3. ASSUME NEW r \in Requests, Start(r) PROVE Assembling'
    <2>1. PICK a \in [Parts -> Contents \cup {NoPart}] :
              arg' = [arg EXCEPT ![r] = a] /\ todo' = [todo EXCEPT ![r] = Listed(a)]
        BY <1>3 DEF Start
    <2>2. pc'[r] \in {"remove", "exists"} /\ \A q \in Requests \ {r} : pc'[q] = pc[q]
        BY <1>3 DEF Start
    <2>3. UNCHANGED <<bytes, part, at, committed, overtaken>>
        BY <1>3 DEF Start
    <2>4. r \notin committed /\ \A n \in Parts : bytes[r][n] = NoPart
        <3>1. pc[r] = "idle"
            BY <1>3 DEF Start
        <3> QED
            BY ONLY <3>1, Shape, r \in Requests DEF Shape, NoArg
    <2>5. \A n \in Parts : n \in todo'[r] <=> arg'[r][n] # NoPart
        BY <2>1
    <2>6. todo'[r] \subseteq Parts
        BY <2>1
    <2>7. \A q \in Requests \ {r} : arg'[q] = arg[q] /\ todo'[q] = todo[q]
        BY <2>1
    <2> QED
        BY <2>2, <2>3, <2>4, <2>5, <2>6, <2>7
<1>4. ASSUME NEW r \in Requests, Step(r) PROVE Assembling'
    <2>1. CASE Exists(r) BY <2>1 DEF Exists
    <2>2. CASE Stream(r) BY <2>2 DEF Stream
    <2>3. CASE RenamePart(r)
        <3>1. UNCHANGED <<todo, arg, bytes, at, committed>> /\ overtaken \subseteq overtaken'
            BY <2>3 DEF RenamePart, PlacePart
        <3>2. pc'[r] \in {"sync", "done"} /\ \A q \in Requests \ {r} : pc'[q] = pc[q]
            BY <2>3 DEF RenamePart, PlacePart
        <3>3. ASSUME NEW q \in Requests, pc'[q] = "open", q \notin overtaken'
              PROVE  part'[at[q]] \in {arg[q][at[q]], NoPart}
            <4>1. q # r /\ pc[q] = "open" /\ q \notin overtaken
                BY <3>1, <3>2, <3>3
            <4>2. at[q] \in Parts /\ part[at[q]] \in {arg[q][at[q]], NoPart}
                BY <4>1 DEF Shape
            <4>3. CASE dir
                <5>1. PICK n \in todo[r] :
                          /\ part' = [part EXCEPT ![n] = arg[r][n]]
                          /\ overtaken' = overtaken \cup {p \in Reading(n) : arg[p][n] # arg[r][n]}
                    BY <2>3, <4>3 DEF RenamePart, PlacePart
                <5>2. at[q] = n => arg[q][n] = arg[r][n]
                    BY <5>1, <4>1, <3>3 DEF Reading
                <5> QED
                    BY <5>1, <5>2, <4>2
            <4>4. CASE ~dir
                BY <2>3, <4>4, <4>2 DEF RenamePart
            <4> QED
                BY <4>3, <4>4
        <3> QED
            BY <3>1, <3>2, <3>3
    <2>4. CASE SyncPart(r) BY <2>4 DEF SyncPart
    <2>5. CASE ReadMeta(r) BY <2>5 DEF ReadMeta
    <2>6. CASE CheckPart(r)
        <3>1. UNCHANGED <<todo, arg, bytes, part, committed, overtaken>> /\ pc[r] = "check"
            BY <2>6 DEF CheckPart
        <3>2. \A q \in Requests \ {r} : pc'[q] = pc[q] /\ at'[q] = at[q]
            BY <2>6 DEF CheckPart
        <3>3. pc'[r] \in {"open", "done"} /\ (pc'[r] = "open" => part[at'[r]] = arg[r][at'[r]])
            BY <2>6 DEF CheckPart
        <3> QED
            BY <3>1, <3>2, <3>3
    <2>7. CASE ReadPart(r)
        <3>1. UNCHANGED <<arg, part, at, committed, overtaken>>
            BY <2>7 DEF ReadPart
        <3>2. \A q \in Requests \ {r} : pc'[q] = pc[q] /\ todo'[q] = todo[q] /\ bytes'[q] = bytes[q]
            BY <2>7 DEF ReadPart
        <3>3. pc[r] = "open" /\ at[r] \in todo[r] /\ at[r] \in Parts /\ r \notin committed
            BY <2>7 DEF ReadPart, Shape
        <3>4. CASE part[at[r]] # NoPart
            <4>1. todo'[r] = todo[r] \ {at[r]} /\ pc'[r] = "check"
                BY <2>7, <3>4 DEF ReadPart
            <4>2. bytes'[r] = [bytes[r] EXCEPT ![at[r]] = part[at[r]]]
                BY <2>7, <3>4 DEF ReadPart
            <4>3. \A n \in Parts : bytes'[r][n] = IF n = at[r] THEN part[n] ELSE bytes[r][n]
                BY <4>2
            <4>4. r \notin overtaken => part[at[r]] = arg[r][at[r]]
                BY <3>3, <3>4
            <4>5. r \notin overtaken =>
                      \A n \in Parts : bytes'[r][n] = IF n \in todo'[r] THEN NoPart ELSE arg[r][n]
                BY <4>1, <4>3, <4>4, <3>3
            <4>6. \A n \in todo'[r] : arg[r][n] # NoPart
                BY <4>1, <3>3
            <4> QED
                BY <3>1, <3>2, <3>3, <4>1, <4>5, <4>6
        <3>5. CASE part[at[r]] = NoPart
            <4>1. pc'[r] = "done"
                BY <2>7, <3>5 DEF ReadPart
            <4> QED
                BY <3>1, <3>2, <3>3, <4>1
        <3> QED
            BY <3>4, <3>5
    <2>8. CASE Commit(r)
        <3>1. r \notin overtaken => bytes[r] = arg[r]
            BY <2>8 DEF Commit
        <3> QED
            BY <2>8, <3>1 DEF Commit
    <2>9. CASE SyncObject(r) BY <2>9 DEF SyncObject
    <2>10. CASE RemoveFile(r)
        <3>1. UNCHANGED <<pc, todo, arg, bytes, at, committed, overtaken>>
            BY <2>10 DEF RemoveFile
        <3>2. \A n \in Parts : part'[n] \in {part[n], NoPart}
            BY <2>10 DEF RemoveFile
        <3>3. \A q \in Requests : pc[q] = "open" => at[q] \in Parts
            BY DEF Shape
        <3> QED
            BY <3>1, <3>2, <3>3
    <2>11. CASE RemoveDir(r) BY <2>11 DEF RemoveDir
    <2> QED
        BY <1>4, <2>1, <2>2, <2>3, <2>4, <2>5, <2>6, <2>7, <2>8, <2>9, <2>10, <2>11 DEF Step
<1>5. ASSUME NEW r \in Requests, Fault(r) PROVE Assembling'
    BY <1>5 DEF Fault, StreamFails, AssembleFails, CommitFails, RemoveFails, Abandon
<1>6. CASE Die
    <2>1. \A r \in Requests : pc'[r] \in {"idle", "done"}
        BY <1>6 DEF Die
    <2>2. UNCHANGED <<bytes, arg, committed, overtaken>>
        BY <1>6 DEF Die
    <2> QED
        BY <2>1, <2>2
<1>7. CASE UNCHANGED vars BY <1>7 DEF vars
<1> QED
    BY <1>1, <1>2, <1>3, <1>4, <1>5, <1>6, <1>7 DEF Next

LEMMA GoneIsEmptyStep == TypeOK /\ Shape /\ GoneIsEmpty /\ [Next]_vars => GoneIsEmpty'
<1> SUFFICES ASSUME TypeOK, Shape, GoneIsEmpty, [Next]_vars PROVE GoneIsEmpty'
    OBVIOUS
<1> USE DistinctAssumption DEF TypeOK, Shape, GoneIsEmpty
<1>1. CASE InitDir BY <1>1 DEF InitDir
<1>2. CASE InitMeta BY <1>2 DEF InitMeta
<1>3. ASSUME NEW r \in Requests, Start(r) PROVE GoneIsEmpty'
    <2>1. UNCHANGED <<dir, meta, part, result>>
        BY <1>3 DEF Start
    <2>2. result[r] = "none" /\ \A q \in Requests \ {r} : kind'[q] = kind[q]
        BY <1>3 DEF Start
    <2> QED
        BY <2>1, <2>2
<1>4. ASSUME NEW r \in Requests, Step(r) PROVE GoneIsEmpty'
    <2>1. CASE Exists(r) BY <2>1 DEF Exists
    <2>2. CASE Stream(r) BY <2>2 DEF Stream
    <2>3. CASE RenamePart(r) BY <2>3 DEF RenamePart, PlacePart
    <2>4. CASE SyncPart(r) BY <2>4 DEF SyncPart
    <2>5. CASE ReadMeta(r) BY <2>5 DEF ReadMeta
    <2>6. CASE CheckPart(r) BY <2>6 DEF CheckPart
    <2>7. CASE ReadPart(r) BY <2>7 DEF ReadPart
    <2>8. CASE Commit(r) BY <2>8 DEF Commit
    <2>9. CASE SyncObject(r) BY <2>9 DEF SyncObject
    <2>10. CASE RemoveFile(r) BY <2>10 DEF RemoveFile
    <2>11. CASE RemoveDir(r) BY <2>11 DEF RemoveDir
    <2> QED
        BY <1>4, <2>1, <2>2, <2>3, <2>4, <2>5, <2>6, <2>7, <2>8, <2>9, <2>10, <2>11 DEF Step
<1>5. ASSUME NEW r \in Requests, Fault(r) PROVE GoneIsEmpty'
    BY <1>5 DEF Fault, StreamFails, AssembleFails, CommitFails, RemoveFails, Abandon
<1>6. CASE Die
    <2>1. ~dir => ~dir' /\ ~meta' /\ \A n \in Parts : part'[n] = NoPart
        <3>1. ~dir => ~dir' /\ ~meta'
            BY <1>6 DEF Die
        <3>2. \A n \in Parts : part'[n] \in {part[n], NoPart}
            BY <1>6 DEF Die
        <3>3. ~dir => \A n \in Parts : part[n] = NoPart
            OBVIOUS
        <3> QED
            BY <3>1, <3>2, <3>3
    <2>2. dir /\ ~dir' => ~meta' /\ Listed(part') = {}
        BY <1>6 DEF Die
    <2>3. UNCHANGED kind
        BY <1>6 DEF Die
    <2>4. \A q \in Requests : result'[q] \in {result[q], "lost"}
        <3>1. result' = [q \in Requests |-> IF InFlight(q) THEN "lost" ELSE result[q]]
            BY <1>6 DEF Die
        <3> QED
            BY <3>1
    <2> QED
        BY <2>1, <2>2, <2>3, <2>4
<1>7. CASE UNCHANGED vars BY <1>7 DEF vars
<1> QED
    BY <1>1, <1>2, <1>3, <1>4, <1>5, <1>6, <1>7 DEF Next

LEMMA OnePartStep == TypeOK /\ OnePart /\ [Next]_vars => OnePart'
<1> SUFFICES ASSUME TypeOK, OnePart, [Next]_vars PROVE OnePart'
    OBVIOUS
<1> DEFINE Kept ==
        \A q \in Requests : kind'[q] = "part" /\ pc'[q] \in {"exists", "stream", "rename"} =>
            /\ kind[q] = "part" /\ pc[q] \in {"exists", "stream", "rename"}
            /\ arg'[q] = arg[q] /\ todo'[q] = todo[q]
<1>0. Kept => OnePart'
    BY DEF Kept, OnePart
<1> HIDE DEF Kept
<1> USE DEF TypeOK
<1>1. CASE InitDir
    <2>1. Kept BY <1>1 DEF InitDir, Kept
    <2> QED BY <1>0, <2>1
<1>2. CASE InitMeta
    <2>1. Kept BY <1>2 DEF InitMeta, Kept
    <2> QED BY <1>0, <2>1
<1>3. ASSUME NEW r \in Requests, Start(r) PROVE OnePart'
    <2> HIDE DEF Listed
    <2>1. PICK k \in {"part", "complete", "abort"}, a \in [Parts -> Contents \cup {NoPart}] :
              /\ k = "part" => \E n \in Parts : Listed(a) = {n}
              /\ kind' = [kind EXCEPT ![r] = k]
              /\ arg' = [arg EXCEPT ![r] = a]
              /\ todo' = [todo EXCEPT ![r] = Listed(a)]
        BY <1>3 DEF Start
    <2>2. \A q \in Requests \ {r} : UNCHANGED <<kind[q], arg[q], todo[q], pc[q]>>
        BY <1>3, <2>1 DEF Start
    <2>3. kind'[r] = "part" =>
              \E n \in Parts : todo'[r] = {n} /\ \A m \in Parts : arg'[r][m] # NoPart <=> m = n
        <3>1. SUFFICES ASSUME kind'[r] = "part"
                       PROVE  \E n \in Parts : todo'[r] = {n} /\ \A m \in Parts : arg'[r][m] # NoPart <=> m = n
            OBVIOUS
        <3>2. PICK n \in Parts : Listed(a) = {n}
            BY <2>1, <3>1
        <3>3. todo'[r] = {n} /\ arg'[r] = a
            BY <2>1, <3>2
        <3>4. \A m \in Parts : a[m] # NoPart <=> m = n
            BY <3>2 DEF Listed
        <3> QED
            BY <3>3, <3>4
    <2>4. SUFFICES ASSUME NEW q \in Requests, kind'[q] = "part",
                          pc'[q] \in {"exists", "stream", "rename"}
                   PROVE  \E n \in Parts : todo'[q] = {n} /\ \A m \in Parts : arg'[q][m] # NoPart <=> m = n
        BY DEF OnePart
    <2>5. CASE q = r
        BY <2>3, <2>4, <2>5
    <2>6. CASE q # r
        <3>1. kind[q] = "part" /\ pc[q] \in {"exists", "stream", "rename"}
            BY <2>2, <2>4, <2>6
        <3>2. PICK n \in Parts : todo[q] = {n} /\ \A m \in Parts : arg[q][m] # NoPart <=> m = n
            BY <3>1 DEF OnePart
        <3>3. todo'[q] = todo[q] /\ arg'[q] = arg[q]
            BY <2>2, <2>6
        <3> QED
            BY <3>2, <3>3
    <2> QED
        BY <2>5, <2>6
<1>4. ASSUME NEW r \in Requests, Step(r) PROVE OnePart'
    <2>1. CASE Exists(r)
        <3>1. Kept BY <2>1 DEF Exists, Kept
        <3> QED BY <1>0, <3>1
    <2>2. CASE Stream(r)
        <3>1. Kept BY <2>2 DEF Stream, Kept
        <3> QED BY <1>0, <3>1
    <2>3. CASE RenamePart(r)
        <3>1. Kept BY <2>3 DEF RenamePart, PlacePart, Kept
        <3> QED BY <1>0, <3>1
    <2>4. CASE SyncPart(r)
        <3>1. Kept BY <2>4 DEF SyncPart, Kept
        <3> QED BY <1>0, <3>1
    <2>5. CASE ReadMeta(r)
        <3>1. Kept BY <2>5 DEF ReadMeta, Kept
        <3> QED BY <1>0, <3>1
    <2>6. CASE CheckPart(r)
        <3>1. Kept BY <2>6 DEF CheckPart, Kept
        <3> QED BY <1>0, <3>1
    <2>7. CASE ReadPart(r)
        <3>1. Kept BY <2>7 DEF ReadPart, Kept
        <3> QED BY <1>0, <3>1
    <2>8. CASE Commit(r)
        <3>1. Kept BY <2>8 DEF Commit, Kept
        <3> QED BY <1>0, <3>1
    <2>9. CASE SyncObject(r)
        <3>1. Kept BY <2>9 DEF SyncObject, Kept
        <3> QED BY <1>0, <3>1
    <2>10. CASE RemoveFile(r)
        <3>1. Kept BY <2>10 DEF RemoveFile, Kept
        <3> QED BY <1>0, <3>1
    <2>11. CASE RemoveDir(r)
        <3>1. Kept BY <2>11 DEF RemoveDir, Kept
        <3> QED BY <1>0, <3>1
    <2> QED
        BY <1>4, <2>1, <2>2, <2>3, <2>4, <2>5, <2>6, <2>7, <2>8, <2>9, <2>10, <2>11 DEF Step
<1>5. ASSUME NEW r \in Requests, Fault(r) PROVE OnePart'
    <2>1. Kept
        BY <1>5 DEF Fault, StreamFails, AssembleFails, CommitFails, RemoveFails, Abandon, Kept
    <2> QED BY <1>0, <2>1
<1>6. CASE Die
    <2>1. Kept BY <1>6 DEF Die, Kept
    <2> QED BY <1>0, <2>1
<1>7. CASE UNCHANGED vars
    <2>1. Kept BY <1>7 DEF vars, Kept
    <2> QED BY <1>0, <2>1
<1> QED
    BY <1>1, <1>2, <1>3, <1>4, <1>5, <1>6, <1>7 DEF Next

LEMMA PartsStayStep == TypeOK /\ Shape /\ OnePart /\ PartsStay /\ [Next]_vars => PartsStay'
<1> SUFFICES ASSUME TypeOK, Shape, OnePart, PartsStay, [Next]_vars PROVE PartsStay'
    OBVIOUS
<1> DEFINE Kept ==
        Undisturbed' =>
            /\ Undisturbed
            /\ \A n \in Parts : part[n] # NoPart => part'[n] # NoPart
            /\ \A q \in Requests : kind'[q] = "part" /\ (pc'[q] = "sync" \/ result'[q] = "ok") =>
                  /\ kind[q] = "part" /\ (pc[q] = "sync" \/ result[q] = "ok")
                  /\ arg'[q] = arg[q]
<1>0. Kept => PartsStay'
    BY DEF Kept, PartsStay
<1> HIDE DEF Kept
<1> USE DistinctAssumption DEF TypeOK, Shape, Undisturbed
<1>1. CASE InitDir
    <2>1. Kept BY <1>1 DEF InitDir, Kept
    <2> QED BY <1>0, <2>1
<1>2. CASE InitMeta
    <2>1. Kept BY <1>2 DEF InitMeta, Kept
    <2> QED BY <1>0, <2>1
<1>3. ASSUME NEW r \in Requests, Start(r) PROVE PartsStay'
    <2>1. \A q \in Requests \ {r} : UNCHANGED <<kind[q], arg[q], pc[q]>>
        BY <1>3 DEF Start
    <2>2. kind[r] = "none" /\ pc'[r] # "sync" /\ result'[r] # "ok"
        BY <1>3 DEF Start
    <2>3. UNCHANGED <<part, result, committed, collected>>
        BY <1>3 DEF Start
    <2>4. Undisturbed' => Undisturbed
        BY <2>1, <2>2, <2>3
    <2>5. Kept
        BY <2>1, <2>2, <2>3, <2>4 DEF Kept
    <2> QED BY <1>0, <2>5
<1>4. ASSUME NEW r \in Requests, Step(r) PROVE PartsStay'
    <2>1. CASE Exists(r)
        <3>1. Kept BY <2>1 DEF Exists, Kept
        <3> QED BY <1>0, <3>1
    <2>2. CASE Stream(r)
        <3>1. Kept BY <2>2 DEF Stream, Kept
        <3> QED BY <1>0, <3>1
    <2>3. CASE RenamePart(r)
        <3>1. CASE dir
            <4>1. PICK n \in todo[r] : part' = [part EXCEPT ![n] = arg[r][n]]
                BY <2>3, <3>1 DEF RenamePart, PlacePart
            <4>2. kind[r] = "part" /\ pc[r] = "rename"
                BY <2>3 DEF RenamePart
            <4>3. n \in Parts /\ \A m \in Parts : arg[r][m] # NoPart <=> m = n
                BY <4>2 DEF OnePart
            <4>4. \A m \in Parts : part'[m] = NoPart => part[m] = NoPart /\ m # n
                BY <4>1, <4>3
            <4>5. UNCHANGED <<kind, arg, result, committed, collected>>
                BY <2>3, <3>1 DEF RenamePart, PlacePart
            <4>6. \A q \in Requests \ {r} : pc'[q] = pc[q]
                BY <2>3, <3>1 DEF RenamePart, PlacePart
            <4>7. Undisturbed' => Undisturbed
                BY <4>5
            <4> QED
                BY <4>3, <4>4, <4>5, <4>6, <4>7 DEF PartsStay
        <3>2. CASE ~dir
            <4>1. Kept BY <2>3, <3>2 DEF RenamePart, Kept
            <4> QED BY <1>0, <4>1
        <3> QED
            BY <3>1, <3>2
    <2>4. CASE SyncPart(r)
        <3>1. Kept BY <2>4 DEF SyncPart, Kept
        <3> QED BY <1>0, <3>1
    <2>5. CASE ReadMeta(r)
        <3>1. Kept BY <2>5 DEF ReadMeta, Kept
        <3> QED BY <1>0, <3>1
    <2>6. CASE CheckPart(r)
        <3>1. Kept BY <2>6 DEF CheckPart, Kept
        <3> QED BY <1>0, <3>1
    <2>7. CASE ReadPart(r)
        <3>1. UNCHANGED <<kind, arg, part, committed, collected>>
            BY <2>7 DEF ReadPart
        <3>2. \A q \in Requests : pc'[q] = "sync" => pc[q] = "sync"
            BY <2>7 DEF ReadPart
        <3>3. \A q \in Requests : result'[q] = "ok" => result[q] = "ok"
            BY <2>7 DEF ReadPart
        <3>4. Kept BY <3>1, <3>2, <3>3 DEF Kept
        <3> QED BY <1>0, <3>4
    <2>8. CASE Commit(r)
        <3>1. Kept BY <2>8 DEF Commit, Kept
        <3> QED BY <1>0, <3>1
    <2>9. CASE SyncObject(r)
        <3>1. Kept BY <2>9 DEF SyncObject, Kept
        <3> QED BY <1>0, <3>1
    <2>10. CASE RemoveFile(r)
        <3>1. Kept BY <2>10 DEF RemoveFile, Kept
        <3> QED BY <1>0, <3>1
    <2>11. CASE RemoveDir(r)
        <3>1. Kept BY <2>11 DEF RemoveDir, Kept
        <3> QED BY <1>0, <3>1
    <2> QED
        BY <1>4, <2>1, <2>2, <2>3, <2>4, <2>5, <2>6, <2>7, <2>8, <2>9, <2>10, <2>11 DEF Step
<1>5. ASSUME NEW r \in Requests, Fault(r) PROVE PartsStay'
    <2>1. Kept
        BY <1>5 DEF Fault, StreamFails, AssembleFails, CommitFails, RemoveFails, Abandon, Kept
    <2> QED BY <1>0, <2>1
<1>6. CASE Die
    <2>1. CASE collected' BY <2>1 DEF PartsStay
    <2>2. CASE ~collected'
        <3>1. part' = part /\ ~collected
            BY <1>6, <2>2 DEF Die
        <3>2. \A q \in Requests : pc'[q] # "sync" /\ (result'[q] = "ok" => result[q] = "ok")
            BY <1>6 DEF Die
        <3>3. UNCHANGED <<kind, arg, committed>>
            BY <1>6 DEF Die
        <3>4. Kept BY <3>1, <3>2, <3>3 DEF Kept
        <3> QED BY <1>0, <3>4
    <2> QED
        BY <2>1, <2>2
<1>7. CASE UNCHANGED vars
    <2>1. Kept BY <1>7 DEF vars, Kept
    <2> QED BY <1>0, <2>1
<1> QED
    BY <1>1, <1>2, <1>3, <1>4, <1>5, <1>6, <1>7 DEF Next

LEMMA UploadStaysStep == TypeOK /\ Shape /\ UploadStays /\ [Next]_vars => UploadStays'
<1> SUFFICES ASSUME TypeOK, Shape, UploadStays, [Next]_vars PROVE UploadStays'
    OBVIOUS
<1> USE DEF TypeOK, Shape, UploadStays, Undisturbed
<1>1. CASE InitDir BY <1>1 DEF InitDir
<1>2. CASE InitMeta BY <1>2 DEF InitMeta
<1>3. ASSUME NEW r \in Requests, Start(r) PROVE UploadStays'
    BY <1>3 DEF Start
<1>4. ASSUME NEW r \in Requests, Step(r) PROVE UploadStays'
    <2>1. CASE Exists(r) BY <2>1 DEF Exists
    <2>2. CASE Stream(r) BY <2>2 DEF Stream
    <2>3. CASE RenamePart(r) BY <2>3 DEF RenamePart, PlacePart
    <2>4. CASE SyncPart(r) BY <2>4 DEF SyncPart
    <2>5. CASE ReadMeta(r) BY <2>5 DEF ReadMeta
    <2>6. CASE CheckPart(r) BY <2>6 DEF CheckPart
    <2>7. CASE ReadPart(r) BY <2>7 DEF ReadPart
    <2>8. CASE Commit(r) BY <2>8 DEF Commit
    <2>9. CASE SyncObject(r) BY <2>9 DEF SyncObject
    <2>10. CASE RemoveFile(r) BY <2>10 DEF RemoveFile
    <2>11. CASE RemoveDir(r) BY <2>11 DEF RemoveDir
    <2> QED
        BY <1>4, <2>1, <2>2, <2>3, <2>4, <2>5, <2>6, <2>7, <2>8, <2>9, <2>10, <2>11 DEF Step
<1>5. ASSUME NEW r \in Requests, Fault(r) PROVE UploadStays'
    BY <1>5 DEF Fault, StreamFails, AssembleFails, CommitFails, RemoveFails, Abandon
<1>6. CASE Die BY <1>6 DEF Die
<1>7. CASE UNCHANGED vars BY <1>7 DEF vars
<1> QED
    BY <1>1, <1>2, <1>3, <1>4, <1>5, <1>6, <1>7 DEF Next

IInv == TypeOK /\ Shape /\ Assembling /\ GoneIsEmpty /\ OnePart /\ PartsStay /\ UploadStays

LEMMA InitHolds == Init => IInv
<1> SUFFICES ASSUME Init PROVE IInv
    OBVIOUS
<1> USE DEF Init
<1>1. TypeOK
    <2>1. part \in [Parts -> Contents \cup {NoPart}] /\ restarts \in 0..MaxRestarts
        BY BoundAssumption
    <2>2. pc \in [Requests -> Steps] /\ todo \in [Requests -> SUBSET Parts]
        OBVIOUS
    <2>3. arg \in [Requests -> [Parts -> Contents \cup {NoPart}]]
        OBVIOUS
    <2>4. bytes \in [Requests -> [Parts -> Contents \cup {NoPart}]]
        OBVIOUS
    <2> QED
        BY <2>1, <2>2, <2>3, <2>4 DEF TypeOK
<1>2. Shape
    BY DEF Shape
<1>3. Assembling
    BY DEF Assembling
<1>4. GoneIsEmpty /\ OnePart /\ PartsStay /\ UploadStays
    BY DEF GoneIsEmpty, OnePart, PartsStay, UploadStays
<1> QED
    BY <1>1, <1>2, <1>3, <1>4 DEF IInv

\* The invariant holds throughout.
LEMMA Invariant == Spec => []IInv
<1>1. IInv /\ [Next]_vars => IInv'
    BY TypeStep, ShapeStep, AssemblingStep, GoneIsEmptyStep,
       OnePartStep, PartsStayStep, UploadStaysStep
    DEF IInv
<1> QED
    BY InitHolds, <1>1, PTL DEF Spec

\* Every variable of the upload keeps to its range: no part is ever read as empty
\* because it was gone.
THEOREM TypeCorrect == Spec => []TypeOK
<1>1. IInv => TypeOK
    BY DEF IInv
<1> QED
    BY Invariant, <1>1, PTL

\* complete_multipart makes its object of the parts it was asked for, except for
\* a part replaced between the check of its etag and its open.
THEOREM AssemblyIsExact == Spec => []AssembledAsAsked
<1>1. IInv => AssembledAsAsked
    BY DEF IInv, TypeOK, Assembling, AssembledAsAsked
<1> QED
    BY Invariant, <1>1, PTL

\* An acknowledged part is there until a completion, an abort or the collection
\* takes it.
THEOREM AckedPartsAreKept == Spec => []AckedPartsStay
<1>1. IInv => AckedPartsStay
    BY DEF IInv, TypeOK, PartsStay, Undisturbed, AckedPartsStay
<1> QED
    BY Invariant, <1>1, PTL

\* No part upload brings back what abort_multipart removed.
THEOREM AbortIsFinal == Spec => []AbortedStaysGone
<1>1. IInv => AbortedStaysGone
    BY DEF IInv, GoneIsEmpty, AbortedStaysGone
<1> QED
    BY Invariant, <1>1, PTL

\* Whatever fails, dies or is refused, nobody is told that there is no such upload
\* before a completion, an abort or the collection has ended it.
THEOREM NotFoundOnlyAfterTheEnd == Spec => []NoSuchUploadMeansEnded
<1>1. IInv => NoSuchUploadMeansEnded
    BY DEF IInv, UploadStays, NoSuchUploadMeansEnded
<1> QED
    BY Invariant, <1>1, PTL
=============================================================================
