-------------------------- MODULE BucketAccessProofs --------------------------
(***************************************************************************)
(* The cache of bucket levels is right unless its last writer was          *)
(* overtaken: for any number of requests and restarts.                     *)
(***************************************************************************)
EXTENDS BucketAccess, TLAPS

\* A directory that is gone takes its xattr with it.
GoneHasNoLevel == ~dir => attr = Unset

\* Only a request that got to its xattr call can have been overtaken after it.
OvertakenLater == \A r \in late : Pending(r) \/ pc[r] = "done"

\* What a request nobody overtook is about to put into the cache is what is set.
FreshIsRight ==
    \A r \in Requests \ late :
        /\ pc[r] = "fill" => dir /\ level[r] = Configured
        /\ pc[r] = "store" => dir /\ level[r] = attr

\* A cache that is wrong, and not for good, is about to be put right.
WrongIsPending ==
    ~stale /\ ~Coherent =>
        \E r \in Requests \ late : pc[r] \in {"store", "forget"}

IInv == TypeOK /\ GoneHasNoLevel /\ OvertakenLater /\ FreshIsRight /\ WrongIsPending

USE DEF serverVars, Levels, Unset, DefaultLevel, Steps, InFlight, Pending, Configured, Coherent

LEMMA InitHolds == Init => IInv
<1> SUFFICES ASSUME Init PROVE IInv
    OBVIOUS
<1>1. TypeOK
    <2>1. cache \in Levels \cup {Unset} BY DEF Init
    <2>2. attr \in Levels \cup {Unset} BY DEF Init
    <2>3. restarts \in 0..MaxRestarts BY BoundAssumption DEF Init
    <2>4. pc \in [Requests -> Steps] /\ level \in [Requests -> Levels] BY DEF Init
    <2>5. op \in [Requests -> Ops \cup {"none"}] BY DEF Init
    <2> QED
        BY <2>1, <2>2, <2>3, <2>4, <2>5 DEF Init, TypeOK
<1>2. GoneHasNoLevel /\ OvertakenLater /\ FreshIsRight
    BY DEF Init, GoneHasNoLevel, OvertakenLater, FreshIsRight
<1>3. WrongIsPending
    BY DEF Init, WrongIsPending
<1> QED
    BY <1>1, <1>2, <1>3 DEF IInv

\* The type invariant, one action at a time.
LEMMA TypeStep == TypeOK /\ [Next]_vars => TypeOK'
<1> SUFFICES ASSUME TypeOK, [Next]_vars PROVE TypeOK'
    OBVIOUS
<1> USE OpsAssumption, BoundAssumption DEF TypeOK, Goto, Finish, Overtake
<1>1. ASSUME NEW r \in Requests, Start(r) PROVE TypeOK'
    BY <1>1 DEF Start, First
<1>2. ASSUME NEW r \in Requests, Step(r) PROVE TypeOK'
    <2>1. CASE Lookup(r) BY <2>1 DEF Lookup
    <2>2. CASE Fetch(r) BY <2>2 DEF Fetch
    <2>3. CASE Fill(r) BY <2>3 DEF Fill
    <2>4. CASE MakeParents(r) BY <2>4 DEF MakeParents
    <2>5. CASE MakeDir(r) BY <2>5 DEF MakeDir
    <2>6. CASE CheckExists(r) BY <2>6 DEF CheckExists
    <2>7. CASE SetAttr(r) BY <2>7 DEF SetAttr
    <2>8. CASE Store(r) BY <2>8 DEF Store
    <2>9. CASE RemoveDir(r) BY <2>9 DEF RemoveDir
    <2>10. CASE Forget(r) BY <2>10 DEF Forget
    <2> QED
        BY <1>2, <2>1, <2>2, <2>3, <2>4, <2>5, <2>6, <2>7, <2>8, <2>9, <2>10 DEF Step
<1>3. ASSUME NEW r \in Requests, Abandon(r) PROVE TypeOK'
    BY <1>3 DEF Abandon
<1>4. CASE Restart
    <2>1. dir' \in BOOLEAN /\ attr' \in Levels \cup {Unset} /\ cache' \in Levels \cup {Unset}
        BY <1>4 DEF Restart
    <2>2. pc' \in [Requests -> Steps] /\ UNCHANGED <<op, level, managed>>
        BY <1>4 DEF Restart
    <2>3. result' \in [Requests -> {"none", "ok", "notFound", "notEmpty", "error", "lost"}]
        BY <1>4 DEF Restart
    <2>4. late' = {} /\ stale' = FALSE /\ restarts' \in 0..MaxRestarts
        BY <1>4 DEF Restart
    <2> QED
        BY <2>1, <2>2, <2>3, <2>4
<1>5. CASE UNCHANGED vars
    BY <1>5 DEF vars
<1> QED
    BY <1>1, <1>2, <1>3, <1>4, <1>5 DEF Next

\* The rest of the invariant, one action at a time.
LEMMA InvStep == IInv /\ [Next]_vars => IInv'
<1> SUFFICES ASSUME IInv, [Next]_vars PROVE IInv'
    OBVIOUS
<1>t. TypeOK'
    BY TypeStep DEF IInv
<1> USE <1>t, BoundAssumption
    DEF IInv, TypeOK, GoneHasNoLevel, OvertakenLater, FreshIsRight, WrongIsPending,
        Goto, Finish, Overtake
<1>1. ASSUME NEW r \in Requests, Start(r) PROVE IInv'
    BY <1>1, OpsAssumption DEF Start, First
<1>2. ASSUME NEW r \in Requests, Step(r) PROVE IInv'
    <2>1. CASE Lookup(r) BY <2>1 DEF Lookup
    <2>2. CASE Fetch(r) BY <2>2 DEF Fetch
    <2>3. CASE Fill(r)
        <3>1. GoneHasNoLevel' /\ OvertakenLater'
            BY <2>3 DEF Fill
        <3>2. FreshIsRight'
            BY <2>3 DEF Fill
        <3>3. WrongIsPending'
            BY <2>3 DEF Fill
        <3> QED
            BY <3>1, <3>2, <3>3
    <2>4. CASE MakeParents(r) BY <2>4 DEF MakeParents
    <2>5. CASE MakeDir(r) BY <2>5 DEF MakeDir
    <2>6. CASE CheckExists(r) BY <2>6 DEF CheckExists
    <2>7. CASE SetAttr(r)
        <3>1. GoneHasNoLevel' /\ OvertakenLater'
            BY <2>7 DEF SetAttr
        <3>2. FreshIsRight'
            BY <2>7 DEF SetAttr
        <3>3. WrongIsPending'
            BY <2>7 DEF SetAttr
        <3> QED
            BY <3>1, <3>2, <3>3
    <2>8. CASE Store(r)
        <3>1. GoneHasNoLevel' /\ OvertakenLater'
            BY <2>8 DEF Store
        <3>2. FreshIsRight'
            BY <2>8 DEF Store
        <3>3. WrongIsPending'
            BY <2>8 DEF Store
        <3> QED
            BY <3>1, <3>2, <3>3
    <2>9. CASE RemoveDir(r)
        <3>1. GoneHasNoLevel' /\ OvertakenLater'
            BY <2>9 DEF RemoveDir
        <3>2. FreshIsRight'
            BY <2>9 DEF RemoveDir
        <3>3. WrongIsPending'
            BY <2>9 DEF RemoveDir
        <3> QED
            BY <3>1, <3>2, <3>3
    <2>10. CASE Forget(r)
        <3>1. GoneHasNoLevel' /\ OvertakenLater'
            BY <2>10 DEF Forget
        <3>2. FreshIsRight'
            BY <2>10 DEF Forget
        <3>3. WrongIsPending'
            BY <2>10 DEF Forget
        <3> QED
            BY <3>1, <3>2, <3>3
    <2> QED
        BY <1>2, <2>1, <2>2, <2>3, <2>4, <2>5, <2>6, <2>7, <2>8, <2>9, <2>10 DEF Step
<1>3. ASSUME NEW r \in Requests, Abandon(r) PROVE IInv'
    <2>1. GoneHasNoLevel' /\ FreshIsRight' /\ OvertakenLater'
        BY <1>3 DEF Abandon
    <2>2. WrongIsPending'
        <3>1. CASE pc[r] = "forget"
            BY <1>3, <3>1 DEF Abandon
        <3>2. CASE pc[r] # "forget"
            <4>1. stale' = stale /\ (Coherent' <=> Coherent) /\ late' = late
                BY <1>3, <3>2 DEF Abandon
            <4>2. \A q \in Requests : pc[q] \in {"store", "forget"} => pc'[q] = pc[q]
                BY <1>3, <3>2 DEF Abandon
            <4> QED
                BY <4>1, <4>2
        <3> QED
            BY <3>1, <3>2
    <2> QED
        BY <2>1, <2>2
<1>4. CASE Restart
    <2>1. Coherent' /\ GoneHasNoLevel' /\ late' = {}
        BY <1>4 DEF Restart
    <2>2. ASSUME NEW r \in Requests PROVE pc'[r] \in {"idle", "done"}
        BY <1>4 DEF Restart
    <2>3. FreshIsRight'
        BY <2>2
    <2>4. OvertakenLater' /\ WrongIsPending'
        BY <2>1
    <2>5. GoneHasNoLevel'
        BY <2>1
    <2> QED
        BY <1>t, <2>3, <2>4, <2>5 DEF IInv
<1>5. CASE UNCHANGED vars
    BY <1>5 DEF vars
<1> QED
    BY <1>1, <1>2, <1>3, <1>4, <1>5 DEF Next

\* Every variable keeps to its range: the model of the handlers that touch a bucket's
\* level never reaches a step or an answer they do not have.
THEOREM TypeCorrect == Spec => []TypeOK
<1>1. Init => TypeOK
    BY InitHolds DEF IInv
<1> QED
    BY <1>1, TypeStep, PTL DEF Spec

\* However resolve_access, create_bucket, update_bucket and delete_bucket interleave,
\* the cache agrees with the xattr once nobody is about to write it, unless the last
\* to write it had been overtaken.
THEOREM CacheIsRight == Spec => []CoherentUnlessOvertaken
<1>1. IInv => CoherentUnlessOvertaken
    BY DEF IInv, WrongIsPending, CoherentUnlessOvertaken
<1> QED
    BY <1>1, InitHolds, InvStep, PTL DEF Spec
=============================================================================
