--------------------------- MODULE ObjectReadsProofs ---------------------------
(***************************************************************************)
(* Theorems about ObjectReads, for every set of requests and of paths.     *)
(***************************************************************************)
EXTENDS ObjectReads, TLAPS

\* What a request is doing agrees with its kind.
KindOK ==
    \A r \in Requests :
        /\ pc[r] = "idle" => kind[r] = "none"
        /\ pc[r] = "check" => kind[r] \in {"copy", "move", "chmod"}
        /\ pc[r] = "stage" => kind[r] \in {"put", "delete", "get"}
        /\ pc[r] = "commit" => kind[r] \in {"put", "copy", "move", "chmod"}
        /\ pc[r] \in {"stat", "access"} => kind[r] \in {"head", "copy"}
        /\ pc[r] = "attrs" => kind[r] \in {"head", "copy", "get"}
        /\ pc[r] = "decide" => kind[r] \in {"head", "get"}
        /\ pc[r] = "map" => kind[r] = "get"

\* The bytes and the etag of the file never change again: it was there in the
\* beginning, or the request that made it is over.
Settled(f) == f \in Keys \/ (f \in Requests /\ pc[f] = "done" /\ file[f].bytes # NoFile)

\* A file has its bytes and its etag from one step, after which it waits for the
\* rename; whatever a path names, or has named while a request ran, is settled.
FilesOK ==
    /\ \A k \in Keys : file[k].bytes = k /\ file[k].etag = k
    /\ \A r \in Requests :
        /\ file[r].bytes # NoFile <=> file[r].etag # NoFile
        /\ file[r].bytes # NoFile => pc[r] \in {"commit", "done"} /\ kind[r] \in {"put", "copy"}
        /\ pc[r] = "commit" /\ kind[r] \in {"put", "copy"} => file[r].bytes # NoFile
        /\ kind[r] = "put" => dst[r] = key[r]
        /\ Running(r) => At(r) \in seen[r]
        /\ \A f \in seen[r] : f = NoFile \/ Settled(f)
    /\ \A k \in Keys : entry[k] = NoFile \/ Settled(entry[k])
    /\ \A f \in Files : file[f].access \in had[f]

\* What a head or copy has read is of a file that its path named; and of the file
\* that it still names, while no other took its place.
PathAt(r) ==
    kind[r] \in {"head", "copy"} =>
        /\ pc[r] = "attrs" =>
              \E f \in seen[r] \ {NoFile} :
                  /\ got[r].size = file[f].bytes
                  /\ r \notin overtaken => f = At(r)
        /\ pc[r] = "access" =>
              \E f, g \in seen[r] \ {NoFile} :
                  /\ got[r].size = file[f].bytes /\ got[r].etag = file[g].etag
                  /\ r \notin overtaken => f = g /\ f = At(r)
        /\ kind[r] = "head" /\ (pc[r] = "decide" \/ (pc[r] = "done" /\ result[r] = "ok")) =>
              \E f, g, h \in seen[r] \ {NoFile} :
                  /\ got[r].size = file[f].bytes /\ got[r].etag = file[g].etag
                  /\ got[r].access \in had[h]
                  /\ r \notin overtaken => f = g /\ g = h

PathOK == \A r \in Requests : PathAt(r)

\* What a GET has read is of the file that it opened.
HandleAt(r) ==
    kind[r] = "get" =>
        /\ pc[r] \in {"attrs", "decide", "map"} \/ (pc[r] = "done" /\ result[r] = "ok")
              => got[r].fd \in seen[r] \ {NoFile}
        /\ pc[r] \in {"decide", "map"} \/ (pc[r] = "done" /\ result[r] = "ok")
              => /\ got[r].size = file[got[r].fd].bytes /\ got[r].etag = file[got[r].fd].etag
                 /\ got[r].access \in had[got[r].fd]
        /\ pc[r] = "map" \/ (pc[r] = "done" /\ result[r] = "ok")
              => signed[r] \/ Effective(got[r].access) = "public"
        /\ pc[r] = "done" /\ result[r] = "ok" => got[r].body = file[got[r].fd].bytes

HandleOK == \A r \in Requests : HandleAt(r)

\* A file has the etag of its own bytes, or what a copy has that was overtaken.
Genuine(f) ==
    \/ file[f].bytes = file[f].etag
    \/ \E c \in overtaken : /\ kind[c] = "copy"
                            /\ file[f].bytes = file[c].bytes /\ file[f].etag = file[c].etag

\* EtagMatchesBytes speaks of the files that are visible; those that wait for their
\* rename have to be as good.
EtagsOK ==
    /\ \A f \in Files : file[f].bytes # NoFile => Genuine(f)
    /\ \A r \in overtaken : pc[r] # "idle"

Inv == TypeOK /\ KindOK /\ FilesOK /\ PathOK /\ HandleOK /\ EtagsOK

-----------------------------------------------------------------------------
\* The steps of a request, as a case split of Next.
LEMMA NextCases ==
    ASSUME [Next]_vars
    PROVE  \/ \E r \in Requests :
                 \/ Start(r) \/ StagePut(r) \/ Commit(r) \/ Unlink(r) \/ CheckExists(r)
                 \/ MoveRename(r) \/ SetAccess(r) \/ ByPath1(r) \/ ByPath2(r) \/ ByPath3(r)
                 \/ Open(r) \/ ReadHandle(r) \/ Decide(r) \/ Map(r) \/ StepFails(r)
           \/ UNCHANGED vars
BY DEF Next

\* The beginning.
LEMMA InitInv == Init => Inv
<1> SUFFICES ASSUME Init PROVE Inv
  OBVIOUS
<1> USE DistinctAssumption DEF Init, Files, Nothing, Levels
<1>1. TypeOK
  BY DEF TypeOK, Steps
<1>2. KindOK
  BY DEF KindOK
<1>3. FilesOK
  BY DEF FilesOK, Settled, Running
<1>4. PathOK /\ HandleOK
  BY DEF PathOK, PathAt, HandleOK, HandleAt
<1>5. EtagsOK
  BY DEF EtagsOK, Genuine
<1> QED
  BY <1>1, <1>2, <1>3, <1>4, <1>5 DEF Inv

\* The kind of a request does not change, and the steps it may take stay those of its
\* kind.
LEMMA KindStep ==
    ASSUME TypeOK, KindOK, [Next]_vars
    PROVE  KindOK'
<1> USE KindsAssumption DEF TypeOK, KindOK, Goto, Finish
<1>1. ASSUME NEW r \in Requests, Start(r) PROVE KindOK'
  BY <1>1 DEF Start, First
<1>2. ASSUME NEW r \in Requests, StagePut(r) \/ Commit(r) \/ Unlink(r) \/ CheckExists(r)
      PROVE KindOK'
  BY <1>2 DEF StagePut, Commit, Unlink, CheckExists, argVars
<1>3. ASSUME NEW r \in Requests, MoveRename(r) \/ SetAccess(r) PROVE KindOK'
  BY <1>3 DEF MoveRename, SetAccess, argVars
<1>4. ASSUME NEW r \in Requests, ByPath1(r) \/ ByPath2(r) \/ ByPath3(r) PROVE KindOK'
  BY <1>4 DEF ByPath1, ByPath2, ByPath3, Missing, argVars
<1>5. ASSUME NEW r \in Requests, Open(r) \/ ReadHandle(r) \/ Decide(r) \/ Map(r) \/ StepFails(r)
      PROVE KindOK'
  BY <1>5 DEF Open, ReadHandle, Decide, Map, StepFails, argVars
<1>6. ASSUME UNCHANGED vars PROVE KindOK'
  BY <1>6 DEF vars, argVars
<1> QED
  BY NextCases, <1>1, <1>2, <1>3, <1>4, <1>5, <1>6

\* A request goes from idle to done, and one at a time moves.
LEMMA OneMoves ==
    ASSUME TypeOK, [Next]_vars, NEW r \in Requests
    PROVE  /\ pc[r] = "done" => pc'[r] = "done"
           /\ pc[r] # "idle" => pc'[r] # "idle" /\ UNCHANGED <<kind[r], key[r], dst[r]>>
           /\ UNCHANGED key[r]
<1> USE DEF TypeOK, Goto, Finish
<1>1. ASSUME NEW q \in Requests, Start(q)
      PROVE  /\ q # r => UNCHANGED <<pc[r], kind[r], dst[r]>>
             /\ q = r => pc[r] = "idle"
             /\ UNCHANGED key
  BY <1>1 DEF Start
<1>2. ASSUME NEW q \in Requests, StagePut(q) \/ Commit(q) \/ Unlink(q) \/ CheckExists(q)
      PROVE  /\ q # r => UNCHANGED pc[r]
             /\ q = r => pc[r] # "done" /\ pc'[r] # "idle"
             /\ UNCHANGED argVars
  BY <1>2 DEF StagePut, Commit, Unlink, CheckExists
<1>3. ASSUME NEW q \in Requests, MoveRename(q) \/ SetAccess(q)
      PROVE  /\ q # r => UNCHANGED pc[r]
             /\ q = r => pc[r] # "done" /\ pc'[r] # "idle"
             /\ UNCHANGED argVars
  BY <1>3 DEF MoveRename, SetAccess
<1>4. ASSUME NEW q \in Requests, ByPath1(q) \/ ByPath2(q) \/ ByPath3(q)
      PROVE  /\ q # r => UNCHANGED pc[r]
             /\ q = r => pc[r] # "done" /\ pc'[r] # "idle"
             /\ UNCHANGED argVars
  BY <1>4 DEF ByPath1, ByPath2, ByPath3, Missing
<1>5. ASSUME NEW q \in Requests,
             Open(q) \/ ReadHandle(q) \/ Decide(q) \/ Map(q) \/ StepFails(q)
      PROVE  /\ q # r => UNCHANGED pc[r]
             /\ q = r => pc[r] # "done" /\ pc'[r] # "idle"
             /\ UNCHANGED argVars
  BY <1>5 DEF Open, ReadHandle, Decide, Map, StepFails, Running
<1>6. ASSUME UNCHANGED vars PROVE UNCHANGED <<pc, argVars>>
  BY <1>6 DEF vars
<1> QED
  BY ONLY NextCases, [Next]_vars, <1>1, <1>2, <1>3, <1>4, <1>5, <1>6 DEF argVars

\* Nothing about a settled file changes but its level.
LEMMA SettledStays ==
    ASSUME Inv, [Next]_vars, NEW f, Settled(f)
    PROVE  /\ Settled(f)' /\ had[f] \subseteq had'[f]
           /\ file'[f].bytes = file[f].bytes /\ file'[f].etag = file[f].etag
<1> DEFINE Kept == /\ had[f] \subseteq had'[f]
                   /\ file'[f].bytes = file[f].bytes /\ file'[f].etag = file[f].etag
<1>0. f \in Files
  BY DEF Settled, Files
<1>1. ASSUME NEW r \in Requests, StagePut(r) PROVE Kept
  <2>1. f # r
    BY <1>1, DistinctAssumption DEF StagePut, Settled
  <2> QED
    BY <1>0, <1>1, <2>1 DEF StagePut, Inv, TypeOK
<1>2. ASSUME NEW r \in Requests, ByPath3(r) PROVE Kept
  <2>1. f # r
    BY <1>2, DistinctAssumption DEF ByPath3, Settled
  <2> QED
    BY <1>0, <1>2, <2>1 DEF ByPath3, Missing, Inv, TypeOK
<1>3. ASSUME NEW r \in Requests, SetAccess(r) PROVE Kept
  <2>1. file \in [Files -> [bytes : Files \cup {NoFile}, etag : Files \cup {NoFile},
                            access : Levels \cup {Unset}]]
        /\ had \in [Files -> SUBSET (Levels \cup {Unset})]
    BY DEF Inv, TypeOK
  <2> QED
    BY <1>0, <1>3, <2>1 DEF SetAccess
<1>4. ASSUME UNCHANGED <<file, had>> PROVE Kept
  BY <1>4
<1>5. ASSUME NEW r \in Requests,
             \/ Start(r) \/ Commit(r) \/ Unlink(r) \/ CheckExists(r) \/ MoveRename(r)
             \/ ByPath1(r) \/ ByPath2(r)
             \/ Open(r) \/ ReadHandle(r) \/ Decide(r) \/ Map(r) \/ StepFails(r)
      PROVE  UNCHANGED <<file, had>>
  BY ONLY <1>5 DEF Start, Commit, Unlink, CheckExists, MoveRename, ByPath1, ByPath2, Missing,
     Open, ReadHandle, Decide, Map, StepFails
<1>6. ASSUME UNCHANGED vars PROVE UNCHANGED <<file, had>>
  BY <1>6 DEF vars, historyVars
<1> HIDE DEF Kept
<1>7. Kept
  BY ONLY NextCases, [Next]_vars, <1>1, <1>2, <1>3, <1>4, <1>5, <1>6
<1>8. Settled(f)'
  BY <1>7, OneMoves DEF Settled, Kept, Inv
<1> QED
  BY <1>7, <1>8 DEF Kept

\* The steps that change neither the directory nor what the requests have seen of it.
LEMMA QuietSteps ==
    ASSUME NEW r \in Requests,
           \/ StagePut(r) \/ CheckExists(r) \/ SetAccess(r) \/ ByPath1(r) \/ ByPath2(r)
           \/ ByPath3(r) \/ Open(r) \/ ReadHandle(r) \/ Decide(r) \/ Map(r) \/ StepFails(r)
    PROVE  StillThere /\ UNCHANGED argVars
BY DEF StagePut, CheckExists, SetAccess, ByPath1, ByPath2, ByPath3, Open, ReadHandle,
   Decide, Map, StepFails

\* A rename gives a path a file that is settled.
LEMMA EntriesStep ==
    ASSUME Inv, [Next]_vars, NEW k \in Keys, NEW f, entry'[k] = f, f # NoFile
    PROVE  Settled(f)'
<1>1. ASSUME NEW j \in Keys, f = entry[j] PROVE Settled(f)'
  <2>1. Settled(f)
    BY <1>1 DEF Inv, FilesOK
  <2> QED
    BY <2>1, SettledStays
<1>2. ASSUME NEW r \in Requests, Commit(r) PROVE Settled(f)'
  <2>1. pc'[r] = "done" /\ file'[r].bytes # NoFile
    BY <1>2 DEF Commit, Finish, Inv, TypeOK, FilesOK
  <2>2. f = r \/ f = entry[k]
    BY <1>2 DEF Commit, Rewire, Inv, TypeOK
  <2>3. f = r => Settled(f)'
    BY <2>1 DEF Settled
  <2> QED
    BY <2>2, <2>3, <1>1
<1>3. ASSUME NEW r \in Requests, Unlink(r) PROVE f = entry[k]
  BY <1>3 DEF Unlink, Rewire, Inv, TypeOK
<1>4. ASSUME NEW r \in Requests, MoveRename(r) PROVE Settled(f)'
  <2>1. key[r] \in Keys
    BY DEF Inv, TypeOK
  <2>2. f = entry[key[r]] \/ f = entry[k]
    BY <1>4 DEF MoveRename, Rewire, StillThere, At
  <2> QED
    BY <2>1, <2>2, <1>1
<1>5. ASSUME NEW r \in Requests,
             \/ Start(r) \/ StagePut(r) \/ CheckExists(r) \/ SetAccess(r) \/ ByPath1(r)
             \/ ByPath2(r) \/ ByPath3(r) \/ Open(r) \/ ReadHandle(r) \/ Decide(r) \/ Map(r)
             \/ StepFails(r)
      PROVE  entry' = entry
  BY ONLY <1>5, QuietSteps DEF Start, StillThere
<1>6. ASSUME UNCHANGED vars PROVE entry' = entry
  BY <1>6 DEF vars
<1>7. ASSUME f = entry[k] PROVE Settled(f)'
  BY <1>7, <1>1
<1>8. entry' = entry => f = entry[k]
  OBVIOUS
<1> QED
  BY ONLY NextCases, [Next]_vars, <1>2, <1>3, <1>4, <1>5, <1>6, <1>7, <1>8

\* What a request has seen only grows while it runs, and holds what its path names.
LEMMA SeenStep ==
    ASSUME Inv, [Next]_vars, NEW r \in Requests
    PROVE  /\ Running(r)' => At(r)' \in seen'[r]
           /\ \A f \in seen'[r] : f = NoFile \/ Settled(f)'
           /\ pc[r] # "idle" => seen[r] \subseteq seen'[r]
<1> USE DEF At, Running
<1>0. key[r] \in Keys /\ key'[r] = key[r]
  BY OneMoves DEF Inv, TypeOK
<1>1. \A f \in seen[r] : f = NoFile \/ Settled(f)'
  BY SettledStays DEF Inv, FilesOK
<1>2. \A f : f = entry'[key[r]] => f = NoFile \/ Settled(f)'
  BY <1>0, EntriesStep
<1>3. Running(r) => At(r) \in seen[r]
  BY DEF Inv, FilesOK
<1>4. ASSUME NEW q \in Requests, Start(q)
      PROVE  /\ entry' = entry
             /\ q = r => pc[r] = "idle" /\ seen'[r] = {entry[key[r]]}
             /\ q # r => UNCHANGED <<pc[r], seen[r]>>
  BY <1>4 DEF Start, Goto, Inv, TypeOK
<1>5. ASSUME NEW q \in Requests, Commit(q) \/ Unlink(q) \/ MoveRename(q)
      PROVE  /\ UNCHANGED <<entry, seen>> \/ \E now : Rewire(now)
             /\ q = r => Running(r) /\ ~Running(r)'
             /\ q # r => UNCHANGED pc[r]
  BY <1>5 DEF Commit, Unlink, MoveRename, StillThere, Finish, Inv, TypeOK
<1>6. ASSUME NEW now, Rewire(now)
      PROVE  /\ seen'[r] = IF Running(r) THEN seen[r] \cup {entry'[key[r]]} ELSE seen[r]
  BY <1>6 DEF Rewire
<1>7. ASSUME NEW q \in Requests,
             \/ StagePut(q) \/ CheckExists(q) \/ SetAccess(q) \/ ByPath1(q) \/ ByPath2(q)
             \/ ByPath3(q) \/ Open(q) \/ ReadHandle(q) \/ Decide(q) \/ Map(q) \/ StepFails(q)
      PROVE  UNCHANGED <<entry, seen>> /\ (Running(r)' => Running(r))
  <2>1. UNCHANGED <<entry, seen>>
    BY ONLY <1>7, QuietSteps DEF StillThere
  <2>2. pc[q] # "idle"
    BY ONLY <1>7 DEF StagePut, CheckExists, SetAccess, ByPath1, ByPath2, ByPath3, Open, ReadHandle,
       Decide, Map, StepFails, Running
  <2>3. q # r => UNCHANGED pc[r]
    BY ONLY <1>7, Inv DEF StagePut, CheckExists, SetAccess, ByPath1, ByPath2, ByPath3, Open,
       ReadHandle, Decide, Map, StepFails, Missing, Goto, Finish, Inv, TypeOK
  <2> QED
    BY <2>1, <2>2, <2>3, OneMoves DEF Inv
<1>8. ASSUME UNCHANGED vars PROVE UNCHANGED <<entry, seen, pc>>
  BY <1>8 DEF vars, historyVars
<1>9. CASE \E q \in Requests : Start(q)
  BY <1>0, <1>1, <1>2, <1>3, <1>4, <1>9
<1>10. CASE \E q \in Requests : Commit(q) \/ Unlink(q) \/ MoveRename(q)
  BY <1>0, <1>1, <1>2, <1>3, <1>5, <1>6, <1>10
<1>11. CASE \E q \in Requests :
             \/ StagePut(q) \/ CheckExists(q) \/ SetAccess(q) \/ ByPath1(q) \/ ByPath2(q)
             \/ ByPath3(q) \/ Open(q) \/ ReadHandle(q) \/ Decide(q) \/ Map(q) \/ StepFails(q)
  BY <1>0, <1>1, <1>3, <1>7, <1>11
<1>12. CASE UNCHANGED vars
  BY <1>0, <1>1, <1>3, <1>8, <1>12
<1> QED
  BY ONLY NextCases, [Next]_vars, <1>9, <1>10, <1>11, <1>12

\* A file is written as far as the step and the kind of its request say.
Written(r) ==
    /\ file[r].bytes # NoFile <=> file[r].etag # NoFile
    /\ file[r].bytes # NoFile => pc[r] \in {"commit", "done"} /\ kind[r] \in {"put", "copy"}
    /\ pc[r] = "commit" /\ kind[r] \in {"put", "copy"} => file[r].bytes # NoFile
    /\ kind[r] = "put" => dst[r] = key[r]

\* A step that writes no file.
LEMMA WrittenKept ==
    ASSUME TypeOK, NEW q \in Requests, NEW x, Written(q), pc' = [pc EXCEPT ![q] = x],
           UNCHANGED <<file, argVars>>,
           pc[q] \in {"commit", "done"} => x = "done",
           x = "commit" => kind[q] \notin {"put", "copy"},
           NEW r \in Requests, Written(r)
    PROVE  Written(r)'
BY DEF TypeOK, Written, argVars

LEMMA WrittenStep ==
    ASSUME Inv, [Next]_vars, NEW r \in Requests
    PROVE  Written(r)'
<1>0. \A q \in Requests : Written(q)
  BY DEF Inv, FilesOK, Written
<1>1. ASSUME NEW q \in Requests, Start(q) PROVE Written(r)'
  <2>1. r # q => UNCHANGED <<file[r], pc[r], kind[r], dst[r], key[r]>>
    BY <1>1 DEF Start, Goto, Inv, TypeOK
  <2>2. q = r => file'[r].bytes = NoFile /\ file'[r].etag = NoFile /\ pc'[r] # "commit"
                 /\ (kind'[r] = "put" => dst'[r] = key'[r])
    BY <1>0, <1>1, KindsAssumption DEF Start, First, Goto, Inv, TypeOK, Written
  <2> QED
    BY <1>0, <2>1, <2>2 DEF Written
<1>2. ASSUME NEW q \in Requests, StagePut(q) PROVE Written(r)'
  <2>1. kind[q] = "put" /\ q # NoFile /\ q \in Files /\ r \in Files
    BY <1>2, DistinctAssumption DEF StagePut, Files
  <2> QED
    BY <1>0, <1>2, <2>1 DEF StagePut, Goto, Written, Inv, TypeOK, argVars
<1>3. ASSUME NEW q \in Requests, ByPath3(q), kind[q] = "copy", At(q) # NoFile PROVE Written(r)'
  <2>1. got[q].size # NoFile /\ got[q].etag # NoFile
    BY <1>3, DistinctAssumption DEF ByPath3, Inv, PathOK, PathAt, FilesOK, Settled
  <2>2. /\ file' = [file EXCEPT ![q] = [bytes |-> got[q].size, etag |-> got[q].etag,
                                        access |-> file[At(q)].access]]
        /\ pc' = [pc EXCEPT ![q] = "commit"] /\ UNCHANGED argVars
    BY <1>3 DEF ByPath3, Missing, Goto
  <2>3. q \in Files /\ r \in Files
    BY DEF Files
  <2> QED
    BY <1>0, <1>3, <2>1, <2>2, <2>3 DEF Written, Inv, TypeOK, argVars
<1>4. ASSUME NEW q \in Requests, ByPath3(q), kind[q] # "copy" \/ At(q) = NoFile
      PROVE  \E x : /\ pc' = [pc EXCEPT ![q] = x] /\ UNCHANGED <<file, argVars>>
                    /\ pc[q] \notin {"commit", "done"} /\ x # "commit"
  BY <1>4 DEF ByPath3, Missing, Goto, Finish
<1>5. ASSUME NEW q \in Requests, SetAccess(q) PROVE Written(r)'
  <2>1. UNCHANGED argVars /\ pc[q] = "commit" /\ pc' = [pc EXCEPT ![q] = "done"]
    BY <1>5 DEF SetAccess, Finish
  <2>2. file'[r].bytes = file[r].bytes /\ file'[r].etag = file[r].etag
    <3>1. r \in Files
      BY DEF Files
    <3>2. UNCHANGED file \/ file' = [file EXCEPT ![At(q)].access = level[q]]
      BY <1>5 DEF SetAccess
    <3> QED
      BY <3>1, <3>2 DEF Inv, TypeOK
  <2> QED
    BY <1>0, <2>1, <2>2 DEF Written, Inv, TypeOK, argVars
<1>6. ASSUME NEW q \in Requests, Commit(q) \/ Unlink(q) \/ CheckExists(q) \/ MoveRename(q)
      PROVE  \E x : /\ pc' = [pc EXCEPT ![q] = x] /\ UNCHANGED <<file, argVars>>
                    /\ pc[q] \in {"commit", "done"} => x = "done"
                    /\ x = "commit" => kind[q] \notin {"put", "copy"}
  BY <1>6 DEF Commit, Unlink, CheckExists, MoveRename, Goto, Finish, Inv, KindOK
<1>7. ASSUME NEW q \in Requests, ByPath1(q) \/ ByPath2(q)
      PROVE  \E x : /\ pc' = [pc EXCEPT ![q] = x] /\ UNCHANGED <<file, argVars>>
                    /\ pc[q] \notin {"commit", "done"} /\ x # "commit"
  BY <1>7 DEF ByPath1, ByPath2, Missing, Goto, Finish
<1>8. ASSUME NEW q \in Requests, Open(q) \/ ReadHandle(q) \/ Decide(q) \/ Map(q) \/ StepFails(q)
      PROVE  \E x : /\ pc' = [pc EXCEPT ![q] = x] /\ UNCHANGED <<file, argVars>>
                    /\ pc[q] \in {"commit", "done"} => x = "done"
                    /\ x # "commit"
  BY <1>8 DEF Open, ReadHandle, Decide, Map, StepFails, Goto, Finish
<1>9. ASSUME UNCHANGED vars PROVE Written(r)'
  BY <1>0, <1>9 DEF vars, argVars, Written
<1>10. ASSUME NEW q \in Requests,
              \/ ByPath3(q) \/ Commit(q) \/ Unlink(q) \/ CheckExists(q) \/ MoveRename(q)
              \/ ByPath1(q) \/ ByPath2(q) \/ Open(q) \/ ReadHandle(q) \/ Decide(q) \/ Map(q)
              \/ StepFails(q)
       PROVE  Written(r)'
  <2>1. CASE ByPath3(q) /\ kind[q] = "copy" /\ At(q) # NoFile
    BY <1>3, <2>1
  <2>2. CASE ~(ByPath3(q) /\ kind[q] = "copy" /\ At(q) # NoFile)
    <3>1. \E x : /\ pc' = [pc EXCEPT ![q] = x] /\ UNCHANGED <<file, argVars>>
                 /\ pc[q] \in {"commit", "done"} => x = "done"
                 /\ x = "commit" => kind[q] \notin {"put", "copy"}
      BY ONLY <1>10, <2>2, <1>4, <1>6, <1>7, <1>8
    <3>2. TypeOK
      BY DEF Inv
    <3> QED
      BY ONLY <3>1, <3>2, <1>0, WrittenKept, q \in Requests, r \in Requests
  <2> QED
    BY ONLY <2>1, <2>2
<1> QED
  BY ONLY NextCases, [Next]_vars, <1>1, <1>2, <1>5, <1>9, <1>10

\* The history of a file's levels has its present one.
LEMMA LevelStep ==
    ASSUME Inv, [Next]_vars, NEW f \in Files
    PROVE  file'[f].access \in had'[f]
<1>0. file[f].access \in had[f]
  BY DEF Inv, FilesOK
<1>1. ASSUME NEW q \in Requests, StagePut(q) PROVE file'[f].access \in had'[f]
  BY <1>0, <1>1 DEF StagePut, Files, Inv, TypeOK
<1>2. ASSUME NEW q \in Requests, ByPath3(q) PROVE file'[f].access \in had'[f]
  BY <1>0, <1>2 DEF ByPath3, Missing, Files, Inv, TypeOK
<1>3. ASSUME NEW q \in Requests, SetAccess(q) PROVE file'[f].access \in had'[f]
  BY <1>0, <1>3 DEF SetAccess, Files, Inv, TypeOK
<1>4. ASSUME NEW r \in Requests,
             \/ Start(r) \/ Commit(r) \/ Unlink(r) \/ CheckExists(r) \/ MoveRename(r)
             \/ ByPath1(r) \/ ByPath2(r)
             \/ Open(r) \/ ReadHandle(r) \/ Decide(r) \/ Map(r) \/ StepFails(r)
      PROVE  UNCHANGED <<file, had>>
  BY ONLY <1>4 DEF Start, Commit, Unlink, CheckExists, MoveRename, ByPath1, ByPath2, Missing,
     Open, ReadHandle, Decide, Map, StepFails
<1>5. ASSUME UNCHANGED vars PROVE UNCHANGED <<file, had>>
  BY <1>5 DEF vars, historyVars
<1>6. ASSUME UNCHANGED <<file, had>> PROVE file'[f].access \in had'[f]
  BY <1>0, <1>6
<1> QED
  BY ONLY NextCases, [Next]_vars, <1>1, <1>2, <1>3, <1>4, <1>5, <1>6

LEMMA FilesStep ==
    ASSUME Inv, [Next]_vars
    PROVE  FilesOK'
<1>1. ASSUME NEW k \in Keys PROVE file'[k].bytes = k /\ file'[k].etag = k
  <2>1. Settled(k) /\ file[k].bytes = k /\ file[k].etag = k
    BY DEF Settled, Inv, FilesOK
  <2> QED
    BY <2>1, SettledStays
<1>2. ASSUME NEW k \in Keys PROVE (entry[k] = NoFile \/ Settled(entry[k]))'
  <2>1. \A f : f = entry'[k] => f = NoFile \/ Settled(f)'
    BY EntriesStep
  <2> QED
    BY <2>1 DEF Settled
<1> QED
  BY <1>1, <1>2, WrittenStep, LevelStep, SeenStep DEF FilesOK, Written, Settled, Files

\* What a step does to the requests' steps and arguments, and to what they have read.
LEMMA ProgressStep ==
    ASSUME Inv, [Next]_vars
    PROVE  /\ pc' \in [Requests -> Steps]
           /\ kind' \in [Requests -> Kinds \cup {"none"}]
           /\ result' \in [Requests -> {"none", "ok", "notFound", "denied", "error"}]
           /\ key' \in [Requests -> Keys] /\ dst' \in [Requests -> Keys]
           /\ level' \in [Requests -> Levels \cup {Unset}]
           /\ signed' \in [Requests -> BOOLEAN]
<1> DEFINE Typed == /\ pc \in [Requests -> Steps]
                    /\ kind \in [Requests -> Kinds \cup {"none"}]
                    /\ result \in [Requests -> {"none", "ok", "notFound", "denied", "error"}]
                    /\ key \in [Requests -> Keys] /\ dst \in [Requests -> Keys]
                    /\ level \in [Requests -> Levels \cup {Unset}]
                    /\ signed \in [Requests -> BOOLEAN]
<1>0. Typed
  BY DEF Inv, TypeOK
<1>1. ASSUME NEW r \in Requests, Start(r) PROVE Typed'
  <2>1. \A op \in Kinds : First(op) \in Steps
    BY KindsAssumption DEF First, Steps
  <2>2. PICK op \in Kinds :
           /\ kind' = [kind EXCEPT ![r] = op]
           /\ \E to \in IF op \in {"copy", "move"} THEN Keys ELSE {key[r]} :
                 dst' = [dst EXCEPT ![r] = to]
           /\ \E l \in IF op \in {"put", "chmod"} THEN Levels ELSE {Unset} :
                 level' = [level EXCEPT ![r] = l]
           /\ \E s \in IF op = "get" THEN BOOLEAN ELSE {TRUE} :
                 signed' = [signed EXCEPT ![r] = s]
           /\ pc' = [pc EXCEPT ![r] = First(op)] /\ UNCHANGED <<result, key>>
    BY ONLY <1>1 DEF Start, Goto
  <2>3. dst' \in [Requests -> Keys]
    BY <1>0, <2>2
  <2>4. level' \in [Requests -> Levels \cup {Unset}]
    BY <1>0, <2>2
  <2>5. signed' \in [Requests -> BOOLEAN]
    BY <1>0, <2>2
  <2> QED
    BY <1>0, <2>1, <2>2, <2>3, <2>4, <2>5
<1>2. ASSUME NEW r \in Requests,
             StagePut(r) \/ Commit(r) \/ Unlink(r) \/ CheckExists(r) \/ MoveRename(r)
      PROVE Typed'
  BY <1>0, <1>2
  DEF StagePut, Commit, Unlink, CheckExists, MoveRename, Goto, Finish, Steps, argVars
<1>3. ASSUME NEW r \in Requests, SetAccess(r) \/ ByPath1(r) \/ ByPath2(r) \/ ByPath3(r)
      PROVE Typed'
  BY <1>0, <1>3
  DEF SetAccess, ByPath1, ByPath2, ByPath3, Missing, Goto, Finish, Steps, argVars
<1>4. ASSUME NEW r \in Requests,
             Open(r) \/ ReadHandle(r) \/ Decide(r) \/ Map(r) \/ StepFails(r)
      PROVE Typed'
  BY <1>0, <1>4 DEF Open, ReadHandle, Decide, Map, StepFails, Goto, Finish, Steps, argVars
<1>5. ASSUME UNCHANGED vars PROVE Typed'
  BY <1>0, <1>5 DEF vars, argVars
<1>6. Typed'
  <2> HIDE DEF Typed
  <2> QED
    BY ONLY NextCases, [Next]_vars, <1>1, <1>2, <1>3, <1>4, <1>5
<1> QED
  BY <1>6

\* The directory, and what the requests have seen of it.
LEMMA EntryTypeStep ==
    ASSUME Inv, [Next]_vars
    PROVE  /\ entry' \in [Keys -> Files \cup {NoFile}]
           /\ seen' \in [Requests -> SUBSET (Files \cup {NoFile})]
           /\ overtaken' \subseteq Requests
<1> DEFINE Typed == /\ entry \in [Keys -> Files \cup {NoFile}]
                    /\ seen \in [Requests -> SUBSET (Files \cup {NoFile})]
                    /\ overtaken \subseteq Requests
<1>0. Typed /\ key \in [Requests -> Keys]
  BY DEF Inv, TypeOK
<1>1. ASSUME NEW now \in [Keys -> Files \cup {NoFile}], Rewire(now) PROVE Typed'
  BY <1>0, <1>1 DEF Rewire
<1>2. ASSUME NEW r \in Requests, Start(r) PROVE Typed'
  BY <1>0, <1>2 DEF Start, At
<1>3. ASSUME NEW r \in Requests, Commit(r) \/ Unlink(r) \/ MoveRename(r)
      PROVE  (\E now \in [Keys -> Files \cup {NoFile}] : Rewire(now)) \/ StillThere
  <2>1. CASE Commit(r)
    <3>1. [entry EXCEPT ![dst[r]] = r] \in [Keys -> Files \cup {NoFile}]
      BY <1>0 DEF Files
    <3> QED
      BY <2>1, <3>1 DEF Commit
  <2>2. CASE Unlink(r)
    <3>1. [entry EXCEPT ![key[r]] = NoFile] \in [Keys -> Files \cup {NoFile}]
      BY <1>0
    <3> QED
      BY <2>2, <3>1 DEF Unlink
  <2>3. CASE MoveRename(r)
    <3> DEFINE now == [k \in Keys |-> IF k = dst[r] THEN At(r)
                                      ELSE IF k = key[r] THEN NoFile ELSE entry[k]]
    <3>1. now \in [Keys -> Files \cup {NoFile}]
      BY <1>0 DEF At
    <3>2. Rewire(now) \/ StillThere
      BY <2>3 DEF MoveRename
    <3> QED
      BY <3>1, <3>2
  <2> QED
    BY <1>3, <2>1, <2>2, <2>3
<1>4. ASSUME StillThere \/ UNCHANGED vars PROVE Typed'
  BY <1>0, <1>4 DEF StillThere, vars, historyVars
<1>5. Typed'
  <2> HIDE DEF Typed
  <2> QED
    BY ONLY NextCases, [Next]_vars, QuietSteps, <1>1, <1>2, <1>3, <1>4
<1> QED
  BY <1>5

\* The files.
LEMMA FileTypeStep ==
    ASSUME Inv, [Next]_vars
    PROVE  /\ file' \in [Files -> [bytes : Files \cup {NoFile}, etag : Files \cup {NoFile},
                                   access : Levels \cup {Unset}]]
           /\ had' \in [Files -> SUBSET (Levels \cup {Unset})]
<1> DEFINE Typed == /\ file \in [Files -> [bytes : Files \cup {NoFile}, etag : Files \cup {NoFile},
                                          access : Levels \cup {Unset}]]
                    /\ had \in [Files -> SUBSET (Levels \cup {Unset})]
<1>0. Typed
  BY DEF Inv, TypeOK
<1>1. ASSUME NEW f \in Files, NEW a \in Levels \cup {Unset}, NEW b \in Files \cup {NoFile},
             NEW e \in Files \cup {NoFile},
             file' = [file EXCEPT ![f] = [bytes |-> b, etag |-> e, access |-> a]],
             had' = [had EXCEPT ![f] = {a}]
      PROVE  Typed'
  BY <1>0, <1>1
<1>2. ASSUME NEW r \in Requests, StagePut(r) PROVE Typed'
  <2>1. level[r] \in Levels \cup {Unset} /\ r \in Files
    BY DEF Inv, TypeOK, Files
  <2> QED
    BY <2>1, <1>1, <1>2 DEF StagePut
<1>3. ASSUME NEW r \in Requests, ByPath3(r) PROVE Typed'
  <2>1. CASE At(r) # NoFile /\ kind[r] = "copy"
    <3>1. file[At(r)].access \in Levels \cup {Unset}
      BY <1>0, <2>1 DEF At, Inv, TypeOK
    <3>2. got[r].size \in Files \cup {NoFile} /\ got[r].etag \in Files \cup {NoFile}
          /\ r \in Files
      BY DEF Inv, TypeOK, Files
    <3>3. file' = [file EXCEPT ![r] = [bytes |-> got[r].size, etag |-> got[r].etag,
                                       access |-> file[At(r)].access]]
          /\ had' = [had EXCEPT ![r] = {file[At(r)].access}]
      BY <1>3, <2>1 DEF ByPath3, Missing
    <3> QED
      BY ONLY <1>1, <3>1, <3>2, <3>3
  <2>2. CASE ~(At(r) # NoFile /\ kind[r] = "copy")
    BY <1>0, <1>3, <2>2 DEF ByPath3, Missing
  <2> QED
    BY <2>1, <2>2
<1>4. ASSUME NEW r \in Requests, SetAccess(r) PROVE Typed'
  <2>1. level[r] \in Levels \cup {Unset}
    BY DEF Inv, TypeOK
  <2> QED
    BY <1>0, <1>4, <2>1 DEF SetAccess
<1>5. ASSUME NEW r \in Requests,
             \/ Start(r) \/ Commit(r) \/ Unlink(r) \/ CheckExists(r) \/ MoveRename(r)
             \/ ByPath1(r) \/ ByPath2(r)
             \/ Open(r) \/ ReadHandle(r) \/ Decide(r) \/ Map(r) \/ StepFails(r)
      PROVE  UNCHANGED <<file, had>>
  BY ONLY <1>5 DEF Start, Commit, Unlink, CheckExists, MoveRename, ByPath1, ByPath2, Missing,
     Open, ReadHandle, Decide, Map, StepFails
<1>6. ASSUME UNCHANGED <<file, had>> \/ UNCHANGED vars PROVE Typed'
  BY <1>0, <1>6 DEF vars, historyVars
<1>7. Typed'
  <2> HIDE DEF Typed
  <2> QED
    BY ONLY NextCases, [Next]_vars, <1>2, <1>3, <1>4, <1>5, <1>6
<1> QED
  BY <1>7

\* What the requests have read.
LEMMA GotTypeStep ==
    ASSUME Inv, [Next]_vars
    PROVE  got' \in [Requests -> [fd : Files \cup {NoFile}, size : Files \cup {NoFile},
                                  etag : Files \cup {NoFile}, access : Levels \cup {Unset},
                                  body : Files \cup {NoFile}]]
<1> DEFINE GotType == [fd : Files \cup {NoFile}, size : Files \cup {NoFile},
                       etag : Files \cup {NoFile}, access : Levels \cup {Unset},
                       body : Files \cup {NoFile}]
<1>0. got \in [Requests -> GotType]
  BY DEF Inv, TypeOK
<1>1. ASSUME NEW f \in Files
      PROVE  file[f].bytes \in Files \cup {NoFile} /\ file[f].etag \in Files \cup {NoFile}
             /\ file[f].access \in Levels \cup {Unset}
  BY DEF Inv, TypeOK
<1>2. ASSUME NEW r \in Requests PROVE At(r) \in Files \cup {NoFile}
  BY DEF Inv, TypeOK, At
<1>3. ASSUME NEW r \in Requests, ByPath1(r) \/ ByPath2(r) \/ ByPath3(r)
      PROVE  got' \in [Requests -> GotType]
  BY <1>0, <1>1, <1>2, <1>3 DEF ByPath1, ByPath2, ByPath3, Missing, Get
<1>4. ASSUME NEW r \in Requests, Open(r) PROVE got' \in [Requests -> GotType]
  BY <1>0, <1>2, <1>4 DEF Open, Get
<1>5. ASSUME NEW r \in Requests, ReadHandle(r) \/ Map(r) PROVE got' \in [Requests -> GotType]
  <2>1. got[r].fd \in Files
    BY <1>5 DEF ReadHandle, Map, Inv, TypeOK, KindOK, HandleOK, HandleAt
  <2>2. CASE ReadHandle(r)
    <3> DEFINE f == file[got[r].fd]
    <3>1. got[r] \in GotType
      BY <1>0
    <3>2. [got[r] EXCEPT !.size = f.bytes, !.etag = f.etag, !.access = f.access] \in GotType
      BY <2>1, <3>1, <1>1
    <3>3. got' = [got EXCEPT ![r] = [got[r] EXCEPT !.size = f.bytes, !.etag = f.etag,
                                                   !.access = f.access]]
      BY <1>0, <2>2 DEF ReadHandle
    <3> HIDE DEF f, GotType
    <3> QED
      BY <1>0, <3>2, <3>3
  <2>3. CASE Map(r)
    BY <1>0, <1>1, <2>1, <2>3 DEF Map, Get
  <2> QED
    BY <1>5, <2>2, <2>3
<1>6. ASSUME NEW r \in Requests,
             \/ Start(r) \/ StagePut(r) \/ Commit(r) \/ Unlink(r) \/ CheckExists(r)
             \/ MoveRename(r) \/ SetAccess(r) \/ Decide(r) \/ StepFails(r)
      PROVE  got' = got
  BY ONLY <1>6 DEF Start, StagePut, Commit, Unlink, CheckExists, MoveRename, SetAccess,
     Decide, StepFails
<1>7. ASSUME UNCHANGED vars PROVE got' = got
  BY <1>7 DEF vars
<1>8. got' = got => got' \in [Requests -> GotType]
  BY <1>0
<1> HIDE DEF GotType
<1>9. got' \in [Requests -> GotType]
  BY ONLY NextCases, [Next]_vars, <1>3, <1>4, <1>5, <1>6, <1>7, <1>8
<1> QED
  BY <1>9 DEF GotType

\* Types, and that no visible file is half made.
LEMMA TypeStep ==
    ASSUME Inv, [Next]_vars
    PROVE  TypeOK'
<1>1. (\A k \in Keys : entry[k] # NoFile =>
           file[entry[k]].bytes # NoFile /\ file[entry[k]].etag # NoFile)'
  <2> SUFFICES ASSUME NEW k \in Keys, NEW f, f = entry'[k], f # NoFile
               PROVE  file'[f].bytes # NoFile /\ file'[f].etag # NoFile
    OBVIOUS
  <2>1. Settled(f)'
    BY EntriesStep
  <2> QED
    BY <2>1, FilesStep, DistinctAssumption DEF FilesOK, Settled
<1> QED
  BY <1>1, ProgressStep, EntryTypeStep, FileTypeStep, GotTypeStep DEF TypeOK

\* The other requests stay where they are.
LEMMA OthersStay ==
    ASSUME Inv, NEW q \in Requests, NEW r \in Requests, r # q,
           \/ Start(q) \/ StagePut(q) \/ Commit(q) \/ Unlink(q) \/ CheckExists(q)
           \/ MoveRename(q) \/ SetAccess(q) \/ ByPath1(q) \/ ByPath2(q) \/ ByPath3(q)
           \/ Open(q) \/ ReadHandle(q) \/ Decide(q) \/ Map(q) \/ StepFails(q)
    PROVE  UNCHANGED <<pc[r], kind[r], got[r], result[r], signed[r]>>
<1> USE DEF Goto, Finish, Get, argVars
<1>0. /\ DOMAIN pc = Requests /\ DOMAIN kind = Requests /\ DOMAIN got = Requests
      /\ DOMAIN result = Requests /\ DOMAIN signed = Requests
      /\ pc = [x \in Requests |-> pc[x]] /\ kind = [x \in Requests |-> kind[x]]
      /\ got = [x \in Requests |-> got[x]] /\ result = [x \in Requests |-> result[x]]
      /\ signed = [x \in Requests |-> signed[x]]
  BY DEF Inv, TypeOK
<1>1. CASE Start(q)
  BY ONLY <1>0, <1>1, r # q, r \in Requests DEF Start, Goto
<1>2. CASE StagePut(q) \/ Commit(q) \/ Unlink(q) \/ CheckExists(q)
  BY ONLY <1>0, <1>2, r # q, r \in Requests DEF StagePut, Commit, Unlink, CheckExists
<1>3. CASE MoveRename(q) \/ SetAccess(q)
  BY ONLY <1>0, <1>3, r # q, r \in Requests DEF MoveRename, SetAccess
<1>4. CASE ByPath1(q) \/ ByPath2(q) \/ ByPath3(q)
  BY ONLY <1>0, <1>4, r # q, r \in Requests DEF ByPath1, ByPath2, ByPath3, Missing
<1>5. CASE Open(q) \/ ReadHandle(q) \/ Decide(q) \/ Map(q) \/ StepFails(q)
  BY ONLY <1>0, <1>5, r # q, r \in Requests DEF Open, ReadHandle, Decide, Map, StepFails
<1> QED
  BY ONLY <1>1, <1>2, <1>3, <1>4, <1>5,
      \/ Start(q) \/ StagePut(q) \/ Commit(q) \/ Unlink(q) \/ CheckExists(q)
      \/ MoveRename(q) \/ SetAccess(q) \/ ByPath1(q) \/ ByPath2(q) \/ ByPath3(q)
      \/ Open(q) \/ ReadHandle(q) \/ Decide(q) \/ Map(q) \/ StepFails(q)

\* A request between its calls by path notices nothing only if its path still names
\* the same file.
LEMMA OvertakenStep ==
    ASSUME Inv, [Next]_vars, NEW r \in Requests
    PROVE  /\ overtaken \subseteq overtaken'
           /\ BetweenPathCalls(r) /\ r \notin overtaken' => At(r)' = At(r)
           /\ \A c \in overtaken' : c \in overtaken \/ (c \in Requests /\ BetweenPathCalls(c))
<1>0. key'[r] = key[r] /\ key[r] \in Keys
  BY OneMoves DEF Inv, TypeOK
<1>1. ASSUME NEW now, Rewire(now)
      PROVE  /\ overtaken \subseteq overtaken'
             /\ BetweenPathCalls(r) /\ r \notin overtaken' => At(r)' = At(r)
             /\ \A c \in overtaken' : c \in overtaken \/ (c \in Requests /\ BetweenPathCalls(c))
  BY <1>0, <1>1 DEF Rewire, At
<1>2. ASSUME UNCHANGED <<entry, overtaken>>
      PROVE  /\ overtaken \subseteq overtaken'
             /\ BetweenPathCalls(r) /\ r \notin overtaken' => At(r)' = At(r)
             /\ \A c \in overtaken' : c \in overtaken \/ (c \in Requests /\ BetweenPathCalls(c))
  BY <1>0, <1>2 DEF At
<1>3. ASSUME NEW q \in Requests, Commit(q) \/ Unlink(q) \/ MoveRename(q)
      PROVE  (\E now : Rewire(now)) \/ UNCHANGED <<entry, overtaken>>
  BY <1>3 DEF Commit, Unlink, MoveRename, StillThere
<1>4. ASSUME NEW q \in Requests,
             \/ Start(q) \/ StagePut(q) \/ CheckExists(q) \/ SetAccess(q) \/ ByPath1(q)
             \/ ByPath2(q) \/ ByPath3(q) \/ Open(q) \/ ReadHandle(q) \/ Decide(q) \/ Map(q)
             \/ StepFails(q)
      PROVE  UNCHANGED <<entry, overtaken>>
  BY ONLY <1>4, QuietSteps DEF Start, StillThere
<1>5. ASSUME UNCHANGED vars PROVE UNCHANGED <<entry, overtaken>>
  BY <1>5 DEF vars, historyVars
<1> QED
  BY ONLY NextCases, [Next]_vars, <1>1, <1>2, <1>3, <1>4, <1>5

\* What was read of a settled file stays true of it.
LEMMA PathKept ==
    ASSUME Inv, [Next]_vars, NEW r \in Requests,
           UNCHANGED <<pc[r], kind[r], got[r], result[r]>>
    PROVE  PathAt(r)'
<1>1. CASE pc[r] = "idle"
  BY <1>1 DEF PathAt
<1>2. CASE pc[r] # "idle"
  <2>1. ASSUME NEW f \in seen[r] \ {NoFile}
        PROVE  /\ f \in seen'[r] /\ had[f] \subseteq had'[f]
               /\ file'[f].bytes = file[f].bytes /\ file'[f].etag = file[f].etag
    <3>1. Settled(f)
      BY DEF Inv, FilesOK
    <3> QED
      BY <1>2, <3>1, SeenStep, SettledStays
  <2>2. PathAt(r)
    BY DEF Inv, PathOK
  <2> QED
    BY <2>1, <2>2, OvertakenStep DEF PathAt, BetweenPathCalls
<1> QED
  BY <1>1, <1>2

\* The calls by path of a head or copy, one after the other.
LEMMA PathStep ==
    ASSUME Inv, [Next]_vars
    PROVE  PathOK'
<1> SUFFICES ASSUME NEW r \in Requests PROVE PathAt(r)'
  BY DEF PathOK
<1>0. /\ PathAt(r) /\ HandleAt(r)
      /\ pc \in [Requests -> Steps] /\ (Running(r) => At(r) \in seen[r])
  BY DEF Inv, TypeOK, PathOK, HandleOK, FilesOK
<1>1. ASSUME Start(r) \/ StagePut(r) \/ Commit(r) \/ Unlink(r) \/ CheckExists(r)
             \/ MoveRename(r) \/ SetAccess(r)
      PROVE  PathAt(r)'
  <2>1. pc'[r] \notin {"attrs", "access", "decide"}
    <3>1. CASE Start(r)
      <4>1. PICK op \in Kinds : Goto(r, First(op))
        BY <3>1 DEF Start
      <4>2. First(op) \in {"stage", "check", "stat"}
        BY KindsAssumption DEF First
      <4> QED
        BY <1>0, <4>1, <4>2 DEF Goto
    <3>2. CASE StagePut(r) \/ CheckExists(r)
      BY <1>0, <3>2 DEF StagePut, CheckExists, Goto, Finish
    <3>3. CASE Commit(r) \/ Unlink(r) \/ MoveRename(r) \/ SetAccess(r)
      BY <1>0, <3>3 DEF Commit, Unlink, MoveRename, SetAccess, Finish
    <3> QED
      BY <1>1, <3>1, <3>2, <3>3
  <2>2. pc'[r] = "done" => kind'[r] # "head" \/ result'[r] # "ok"
    BY <1>0, <1>1, KindsAssumption
    DEF Start, First, StagePut, Commit, Unlink, CheckExists, MoveRename, SetAccess, Goto, Finish,
        Inv, KindOK, TypeOK, argVars
  <2> QED
    BY <2>1, <2>2 DEF PathAt
<1>2. ASSUME ByPath1(r) \/ ByPath2(r) \/ ByPath3(r) PROVE PathAt(r)'
  <2> DEFINE f == At(r)
  <2>1. CASE At(r) = NoFile
    <3>1. pc'[r] = "done" /\ result'[r] # "ok"
      BY <1>0, <1>2, <2>1 DEF ByPath1, ByPath2, ByPath3, Missing, Finish, Inv, TypeOK
    <3> QED
      BY <3>1 DEF PathAt
  <2>2. CASE At(r) # NoFile
    <3>1. /\ f \in seen[r] \ {NoFile} /\ Settled(f) /\ f \in Files
          /\ UNCHANGED <<entry, seen, overtaken, key, kind>>
      BY <1>0, <1>2, <2>2
      DEF ByPath1, ByPath2, ByPath3, Running, StillThere, argVars, Inv, FilesOK, Settled, Files
    <3>2. \A g \in seen[r] \ {NoFile} :
             /\ had[g] \subseteq had'[g]
             /\ file'[g].bytes = file[g].bytes /\ file'[g].etag = file[g].etag
      BY SettledStays DEF Inv, FilesOK
    <3>3. f = At(r)'
      BY <3>1 DEF At
    <3>4. CASE ByPath1(r)
      <4>1. pc'[r] = "attrs" /\ got'[r].size = file[f].bytes
        BY <1>0, <2>2, <3>4 DEF ByPath1, Missing, Goto, Get, Inv, TypeOK
      <4> QED
        BY <3>1, <3>2, <3>3, <4>1 DEF PathAt
    <3>5. CASE ByPath2(r)
      <4>1. pc'[r] = "access" /\ got'[r].etag = file[f].etag /\ got'[r].size = got[r].size
        BY <1>0, <2>2, <3>5 DEF ByPath2, Missing, Goto, Get, Inv, TypeOK
      <4>2. PICK g \in seen[r] \ {NoFile} :
               got[r].size = file[g].bytes /\ (r \notin overtaken => g = f)
        BY <1>0, <3>5 DEF PathAt, ByPath2
      <4> QED
        BY <3>1, <3>2, <3>3, <4>1, <4>2 DEF PathAt
    <3>6. CASE ByPath3(r)
      <4>1. /\ pc'[r] \in {"commit", "decide"}
            /\ got'[r].access = file[f].access
            /\ got'[r].size = got[r].size /\ got'[r].etag = got[r].etag
        BY <1>0, <2>2, <3>6 DEF ByPath3, Missing, Goto, Get, Inv, TypeOK
      <4>2. PICK g, h \in seen[r] \ {NoFile} :
               /\ got[r].size = file[g].bytes /\ got[r].etag = file[h].etag
               /\ r \notin overtaken => g = h /\ g = f
        BY <1>0, <3>6, KindsAssumption DEF PathAt, ByPath3, Inv, KindOK
      <4>3. file[f].access \in had[f]
        BY <3>1 DEF Inv, FilesOK
      <4> QED
        BY <3>1, <3>2, <4>1, <4>2, <4>3 DEF PathAt
    <3> QED
      BY <1>2, <3>4, <3>5, <3>6
  <2> QED
    BY <2>1, <2>2
<1>3. ASSUME Open(r) \/ ReadHandle(r) \/ Map(r) PROVE PathAt(r)'
  <2>1. kind'[r] = "get"
    BY <1>3 DEF Open, ReadHandle, Map, argVars, Inv, KindOK
  <2> QED
    BY <2>1 DEF PathAt
<1>4. ASSUME StepFails(r) PROVE PathAt(r)'
  BY <1>0, <1>4 DEF StepFails, Finish, PathAt, Inv, TypeOK
<1>5. ASSUME Decide(r) PROVE PathAt(r)'
  <2>1. /\ UNCHANGED <<kind, got, seen, had, file, overtaken>> /\ pc[r] = "decide"
        /\ pc'[r] # "attrs" /\ pc'[r] # "access" /\ pc'[r] # "decide"
    BY <1>0, <1>5 DEF Decide, StillThere, argVars, Goto, Finish, Inv, TypeOK
  <2> QED
    BY <1>0, <2>1 DEF PathAt
<1>6. ASSUME NEW q \in Requests, q # r,
             \/ Start(q) \/ StagePut(q) \/ Commit(q) \/ Unlink(q) \/ CheckExists(q)
             \/ MoveRename(q) \/ SetAccess(q) \/ ByPath1(q) \/ ByPath2(q) \/ ByPath3(q)
             \/ Open(q) \/ ReadHandle(q) \/ Decide(q) \/ Map(q) \/ StepFails(q)
      PROVE  PathAt(r)'
  BY <1>6, OthersStay, PathKept
<1>7. ASSUME UNCHANGED vars PROVE PathAt(r)'
  BY <1>7, PathKept DEF vars, argVars
<1> QED
  BY ONLY NextCases, [Next]_vars, <1>1, <1>2, <1>3, <1>4, <1>5, <1>6, <1>7

\* What was read through the handle stays true of its file, which nobody writes.
LEMMA HandleKept ==
    ASSUME Inv, [Next]_vars, NEW r \in Requests,
           UNCHANGED <<pc[r], kind[r], got[r], result[r], signed[r]>>
    PROVE  HandleAt(r)'
<1>1. CASE pc[r] = "idle"
  BY <1>1 DEF HandleAt
<1>2. CASE pc[r] # "idle"
  <2>1. ASSUME NEW f \in seen[r] \ {NoFile}
        PROVE  /\ f \in seen'[r] /\ had[f] \subseteq had'[f]
               /\ file'[f].bytes = file[f].bytes /\ file'[f].etag = file[f].etag
    <3>1. Settled(f)
      BY DEF Inv, FilesOK
    <3> QED
      BY <1>2, <3>1, SeenStep, SettledStays
  <2>2. HandleAt(r)
    BY DEF Inv, HandleOK
  <2>3. CASE /\ kind[r] = "get"
             /\ pc[r] \in {"attrs", "decide", "map"} \/ (pc[r] = "done" /\ result[r] = "ok")
    <3> DEFINE f == got[r].fd
    <3>1. f \in seen[r] \ {NoFile} /\ got'[r].fd = f
      BY <2>2, <2>3 DEF HandleAt
    <3>2. /\ f \in seen'[r] /\ had[f] \subseteq had'[f]
          /\ file'[f].bytes = file[f].bytes /\ file'[f].etag = file[f].etag
      BY <2>1, <3>1
    <3> QED
      BY <2>2, <2>3, <3>1, <3>2 DEF HandleAt
  <2>4. CASE ~(/\ kind[r] = "get"
               /\ pc[r] \in {"attrs", "decide", "map"} \/ (pc[r] = "done" /\ result[r] = "ok"))
    BY <2>4 DEF HandleAt
  <2> QED
    BY <2>3, <2>4
<1> QED
  BY <1>1, <1>2

\* The calls of a GET, all but the first through the handle.
LEMMA HandleStep ==
    ASSUME Inv, [Next]_vars
    PROVE  HandleOK'
<1> SUFFICES ASSUME NEW r \in Requests PROVE HandleAt(r)'
  BY DEF HandleOK
<1>0. /\ HandleAt(r) /\ pc \in [Requests -> Steps] /\ (Running(r) => At(r) \in seen[r])
      /\ DOMAIN got = Requests /\ DOMAIN result = Requests
  BY DEF Inv, TypeOK, HandleOK, FilesOK
<1>1. ASSUME Start(r) PROVE HandleAt(r)'
  <2>1. PICK op \in Kinds : Goto(r, First(op))
    BY <1>1 DEF Start
  <2>2. First(op) \in {"stage", "check", "stat"}
    BY KindsAssumption DEF First
  <2>3. pc'[r] \in {"stage", "check", "stat"}
    BY <1>0, <2>1, <2>2 DEF Goto
  <2> QED
    BY <2>3 DEF HandleAt
<1>2. ASSUME StagePut(r) \/ Commit(r) \/ Unlink(r) \/ CheckExists(r)
             \/ MoveRename(r) \/ SetAccess(r) \/ ByPath1(r) \/ ByPath2(r) \/ ByPath3(r)
      PROVE  HandleAt(r)'
  <2>1. kind'[r] # "get"
    BY <1>2 DEF StagePut, Commit, Unlink, CheckExists, MoveRename, SetAccess, ByPath1, ByPath2,
       ByPath3, argVars, Inv, KindOK
  <2> QED
    BY <2>1 DEF HandleAt
<1>3. ASSUME StepFails(r) PROVE HandleAt(r)'
  <2>1. pc'[r] = "done" /\ result'[r] = "error"
    BY <1>0, <1>3 DEF StepFails, Finish
  <2> QED
    BY <2>1 DEF HandleAt
<1>4. ASSUME Open(r) PROVE HandleAt(r)'
  <2>1. CASE At(r) = NoFile
    <3>1. pc'[r] = "done" /\ result'[r] = "notFound"
      BY <1>0, <1>4, <2>1 DEF Open, Finish
    <3> QED
      BY <3>1 DEF HandleAt
  <2>2. CASE At(r) # NoFile
    <3>1. pc'[r] = "attrs" /\ seen' = seen /\ At(r) \in seen[r]
      BY <1>0, <1>4, <2>2 DEF Open, Goto, StillThere, Running
    <3>2. got'[r].fd = At(r)
      BY <1>4, <2>2 DEF Open, Get, Inv, TypeOK
    <3> QED
      BY <2>2, <3>1, <3>2 DEF HandleAt
  <2> QED
    BY <2>1, <2>2
<1>5. ASSUME ReadHandle(r) PROVE HandleAt(r)'
  <2> DEFINE f == got[r].fd
  <2>1. f \in seen[r] \ {NoFile} /\ kind[r] = "get"
    BY <1>0, <1>5 DEF ReadHandle, HandleAt
  <2>2. f \in Files /\ file[f].access \in had[f]
    BY <2>1 DEF Inv, FilesOK, Settled, Files
  <2>3. pc'[r] = "decide" /\ UNCHANGED <<seen, file, had>>
    BY <1>0, <1>5 DEF ReadHandle, Goto, StillThere
  <2>4. /\ got'[r].fd = f /\ got'[r].size = file[f].bytes /\ got'[r].etag = file[f].etag
        /\ got'[r].access = file[f].access
    BY <1>5 DEF ReadHandle, Inv, TypeOK
  <2> HIDE DEF f
  <2> QED
    BY <2>1, <2>2, <2>3, <2>4 DEF HandleAt
<1>6. ASSUME Decide(r) PROVE HandleAt(r)'
  <2>1. /\ UNCHANGED <<kind, signed, got, seen, had, file>> /\ pc[r] = "decide"
    BY <1>6 DEF Decide, StillThere, argVars
  <2>2. CASE pc'[r] = "map"
    <3>1. signed[r] \/ Effective(got[r].access) = "public"
      BY <1>0, <1>6, <2>2 DEF Decide, Finish
    <3> QED
      BY <1>0, <2>1, <2>2, <3>1 DEF HandleAt
  <2>3. CASE pc'[r] # "map" /\ kind[r] = "get"
    <3>1. pc'[r] = "done" /\ result'[r] = "denied"
      BY <1>0, <1>6, <2>3 DEF Decide, Finish, Goto
    <3> QED
      BY <3>1 DEF HandleAt
  <2> QED
    BY <2>1, <2>2, <2>3 DEF HandleAt
<1>7. ASSUME Map(r) PROVE HandleAt(r)'
  <2>1. /\ UNCHANGED <<kind, signed, seen, had, file>> /\ pc[r] = "map" /\ kind[r] = "get"
    BY <1>7 DEF Map, StillThere, argVars, Inv, KindOK
  <2>2. /\ got'[r].fd = got[r].fd /\ got'[r].size = got[r].size
        /\ got'[r].etag = got[r].etag /\ got'[r].access = got[r].access
        /\ got'[r].body = file[got[r].fd].bytes
    BY <1>7 DEF Map, Get, Inv, TypeOK
  <2>3. pc'[r] = "done"
    BY <1>0, <1>7 DEF Map, Finish
  <2> QED
    BY <1>0, <2>1, <2>2, <2>3 DEF HandleAt
<1>8. ASSUME NEW q \in Requests, q # r,
             \/ Start(q) \/ StagePut(q) \/ Commit(q) \/ Unlink(q) \/ CheckExists(q)
             \/ MoveRename(q) \/ SetAccess(q) \/ ByPath1(q) \/ ByPath2(q) \/ ByPath3(q)
             \/ Open(q) \/ ReadHandle(q) \/ Decide(q) \/ Map(q) \/ StepFails(q)
      PROVE  HandleAt(r)'
  BY <1>8, OthersStay, HandleKept
<1>9. ASSUME UNCHANGED vars PROVE HandleAt(r)'
  BY <1>9, HandleKept DEF vars, argVars
<1> QED
  BY ONLY NextCases, [Next]_vars, <1>1, <1>2, <1>3, <1>4, <1>5, <1>6, <1>7, <1>8, <1>9

\* Bytes and etag are written once, by the staging of a put or the last read of a
\* copy.
LEMMA BytesWrittenOnce ==
    ASSUME Inv, [Next]_vars, NEW f \in Files
    PROVE  \/ file'[f].bytes = file[f].bytes /\ file'[f].etag = file[f].etag
           \/ f \in Requests /\ StagePut(f)
           \/ f \in Requests /\ ByPath3(f) /\ kind[f] = "copy" /\ At(f) # NoFile
<1> DEFINE Same == file'[f].bytes = file[f].bytes /\ file'[f].etag = file[f].etag
<1>0. file \in [Files -> [bytes : Files \cup {NoFile}, etag : Files \cup {NoFile},
                         access : Levels \cup {Unset}]]
  BY DEF Inv, TypeOK
<1>1. ASSUME NEW r \in Requests, StagePut(r) PROVE Same \/ f = r
  BY <1>0, <1>1 DEF StagePut
<1>2. ASSUME NEW r \in Requests, ByPath3(r)
      PROVE  Same \/ (f = r /\ kind[f] = "copy" /\ At(f) # NoFile)
  BY <1>0, <1>2 DEF ByPath3, Missing
<1>3. ASSUME NEW r \in Requests, SetAccess(r) PROVE Same
  BY <1>0, <1>3 DEF SetAccess
<1>4. ASSUME NEW r \in Requests,
             \/ Start(r) \/ Commit(r) \/ Unlink(r) \/ CheckExists(r) \/ MoveRename(r)
             \/ ByPath1(r) \/ ByPath2(r)
             \/ Open(r) \/ ReadHandle(r) \/ Decide(r) \/ Map(r) \/ StepFails(r)
      PROVE  file' = file
  BY ONLY <1>4 DEF Start, Commit, Unlink, CheckExists, MoveRename, ByPath1, ByPath2, Missing,
     Open, ReadHandle, Decide, Map, StepFails
<1>5. ASSUME UNCHANGED vars PROVE file' = file
  BY <1>5 DEF vars
<1> QED
  BY ONLY NextCases, [Next]_vars, <1>1, <1>2, <1>3, <1>4, <1>5

\* A copy makes a pair of bytes and etag that is not genuine only if it was overtaken.
LEMMA EtagsStep ==
    ASSUME Inv, [Next]_vars
    PROVE  EtagsOK'
<1>1. ASSUME NEW f \in Files, file[f].bytes # NoFile
      PROVE  file'[f].bytes = file[f].bytes /\ file'[f].etag = file[f].etag
  <2>1. ASSUME f \in Requests PROVE pc[f] \in {"commit", "done"}
    BY <1>1, <2>1 DEF Inv, FilesOK
  <2> QED
    BY <2>1, BytesWrittenOnce DEF StagePut, ByPath3
<1>2. ASSUME NEW f \in Files, file[f].bytes # NoFile PROVE Genuine(f)'
  <2>1. file'[f].bytes = file[f].bytes /\ file'[f].etag = file[f].etag
    BY <1>1, <1>2
  <2>2. Genuine(f)
    BY <1>2 DEF Inv, EtagsOK
  <2>3. ASSUME NEW c \in overtaken, kind[c] = "copy",
               file[f].bytes = file[c].bytes, file[f].etag = file[c].etag
        PROVE  Genuine(f)'
    <3>1. c \in Requests /\ c \in Files
      BY DEF Inv, TypeOK, Files
    <3>2. file'[c].bytes = file[c].bytes /\ file'[c].etag = file[c].etag
      BY <1>1, <1>2, <2>3, <3>1
    <3>3. c \in overtaken'
      BY <3>1, OvertakenStep
    <3>4. kind'[c] = "copy"
      BY <2>3, <3>1, OneMoves DEF Inv, EtagsOK
    <3> QED
      BY <2>1, <2>3, <3>2, <3>3, <3>4 DEF Genuine
  <2> QED
    BY <2>1, <2>2, <2>3 DEF Genuine
<1>3. ASSUME NEW f \in Files, file'[f].bytes # NoFile PROVE Genuine(f)'
  <2>1. CASE file'[f].bytes = file[f].bytes
    BY <1>2, <1>3, <2>1
  <2>2. CASE f \in Requests /\ StagePut(f)
    <3>1. file'[f].bytes = f /\ file'[f].etag = f
      BY <2>2 DEF StagePut, Inv, TypeOK
    <3> QED
      BY <3>1 DEF Genuine
  <2>3. CASE f \in Requests /\ ByPath3(f) /\ kind[f] = "copy" /\ At(f) # NoFile
    <3>1. /\ file'[f].bytes = got[f].size /\ file'[f].etag = got[f].etag
          /\ kind'[f] = "copy" /\ overtaken' = overtaken
      BY <2>3 DEF ByPath3, Missing, StillThere, argVars, Inv, TypeOK
    <3>2. CASE f \in overtaken
      BY <3>1, <3>2 DEF Genuine
    <3>3. CASE f \notin overtaken
      <4>1. PICK g \in seen[f] \ {NoFile} :
               got[f].size = file[g].bytes /\ got[f].etag = file[g].etag
        BY <2>3, <3>3 DEF ByPath3, Inv, PathOK, PathAt
      <4>2. g \in Files /\ file[g].bytes # NoFile
        BY <2>3, DistinctAssumption DEF Inv, FilesOK, Settled, Files
      <4>3. Genuine(g)' /\ file'[g].bytes = file[g].bytes /\ file'[g].etag = file[g].etag
        BY <1>1, <1>2, <4>2
      <4> QED
        BY <3>1, <4>1, <4>3 DEF Genuine
    <3> QED
      BY <3>2, <3>3
  <2> QED
    BY <2>1, <2>2, <2>3, BytesWrittenOnce
<1>4. ASSUME NEW r \in overtaken' PROVE pc'[r] # "idle"
  <2>1. r \in Requests
    BY TypeStep DEF TypeOK
  <2>2. pc[r] # "idle"
    BY <2>1, OvertakenStep DEF BetweenPathCalls, Inv, EtagsOK
  <2> QED
    BY <2>1, <2>2, OneMoves DEF Inv
<1> QED
  BY <1>3, <1>4 DEF EtagsOK

-----------------------------------------------------------------------------
\* All of it, in every reachable state.
LEMMA Invariant == Spec => []Inv
<1>1. Init => Inv
  BY InitInv
<1>2. Inv /\ [Next]_vars => Inv'
  <2> SUFFICES ASSUME Inv, [Next]_vars PROVE Inv'
    OBVIOUS
  <2> QED
    BY TypeStep, KindStep, FilesStep, PathStep, HandleStep, EtagsStep DEF Inv
<1> QED
  BY <1>1, <1>2, PTL DEF Spec

\* Every variable keeps its type, and no visible file is half made.
THEOREM TypeCorrect == Spec => []TypeOK
<1>1. Inv => TypeOK
  BY DEF Inv
<1> QED
  BY <1>1, Invariant, PTL

\* A GET (open_object, get_object) tells and sends what is of one file, which its
\* path named while it ran, and was judged by a level that this file has had.
THEOREM OneVersionServed == Spec => []GetServesOneVersion
<1>1. Inv => GetServesOneVersion
  <2> SUFFICES ASSUME Inv, NEW r \in Requests, Answered(r, "get")
               PROVE  \E f \in seen[r] \ {NoFile} :
                         /\ got[r].body = file[f].bytes
                         /\ got[r].size = file[f].bytes /\ got[r].etag = file[f].etag
                         /\ signed[r] \/ "public" \in {Effective(l) : l \in had[f]}
    BY DEF GetServesOneVersion
  <2>1. HandleAt(r) /\ pc[r] = "done" /\ result[r] = "ok" /\ kind[r] = "get"
    BY DEF Inv, HandleOK, Answered
  <2>2. /\ got[r].fd \in seen[r] \ {NoFile}
        /\ got[r].body = file[got[r].fd].bytes
        /\ got[r].size = file[got[r].fd].bytes /\ got[r].etag = file[got[r].fd].etag
        /\ got[r].access \in had[got[r].fd]
        /\ signed[r] \/ Effective(got[r].access) = "public"
    BY <2>1 DEF HandleAt
  <2> QED
    BY <2>2
<1> QED
  BY <1>1, Invariant, PTL

\* A HEAD (head_object) tells pieces of files that its path named while it ran, and
\* of one file unless another took its place meanwhile.
THEOREM HeadsAreOfTheirTime == Spec => []HeadIsOfItsTime
<1>1. Inv => HeadIsOfItsTime
  BY DEF Inv, PathOK, PathAt, HeadIsOfItsTime, Answered
<1> QED
  BY <1>1, Invariant, PTL

\* A visible object has the etag of its bytes, but for a copy (copy_object) whose
\* source was replaced between its calls by path, and for copies of that.
THEOREM EtagsMatch == Spec => []EtagMatchesBytes
<1>1. Inv => EtagMatchesBytes
  <2> SUFFICES ASSUME Inv, NEW k \in Keys, NEW f, f = entry[k], f # NoFile
               PROVE  Genuine(f)
    BY DEF EtagMatchesBytes, Genuine
  <2>1. f \in Files /\ file[f].bytes # NoFile
    BY DEF Inv, TypeOK
  <2> QED
    BY <2>1 DEF Inv, EtagsOK
<1> QED
  BY <1>1, Invariant, PTL
=============================================================================
