----------------------------- MODULE HandoffProofs -----------------------------
(***************************************************************************)
(* Theorems about Handoff, for every set of requests, however many swaps,  *)
(* aborted attempts and failing control threads.                           *)
(***************************************************************************)
EXTENDS Handoff, FiniteSetTheorems, TLAPS

\* Who may be where while an attempt has come to this deal.
RolesOK ==
    /\ \A p, q \in Procs : p < q /\ phase[p] = "absent" => phase[q] = "absent"
    /\ \A p, q \in Procs : Successor(p) /\ phase[q] # "absent" => q < p \/ q = p
    /\ \A p \in Procs : phase[p] \in {"locked", "merged"} =>
          lock = p /\ (deal = "begun" \/ (deal = "none" /\ \A q \in Procs : phase[q] # "ready"))
    /\ deal = "none" <=> partner = NoProc
    /\ partner # NoProc => phase[partner] \in {"ready", "failing", "gone"}
    /\ \A p, q \in Procs : phase[p] = "stopping" => deal = "none" /\ ~Successor(q)
    /\ \A p, q \in Procs : phase[p] = "stopping" /\ phase[q] = "stopping" => p = q

\* Who has the lock, and who serves beside it.
LockOK ==
    /\ deal = "ready" => \A q \in Procs : ~Successor(q)
    /\ \A p, q \in Procs : p = partner /\ phase[q] = "ready" /\ p < q =>
          deal = "ready" /\ lock = q
    /\ \A p, q \in Procs : p = lock /\ phase[q] = "ready" => q < p \/ q = p

\* The gate is closed during an attempt, and only that of the process to be replaced;
\* once a connection has slipped through, its accept looks again.
GateOK ==
    /\ \A p \in Procs : closed[p] => phase[p] \in {"ready", "stopping", "failing", "gone"}
    /\ \A p \in Procs : closed[p] /\ phase[p] = "ready" => p = partner
    /\ partner = NoProc /\ (\A p \in Procs : phase[p] # "stopping") => slipped = 0
    /\ slipped <= 1
    /\ \A p \in Procs : closed[p] /\ phase[p] = "ready" /\ gate[p] = "await" => slipped = 0

\* A connection is with a process that has served; one that is open or handled, with
\* a process that is still there.
PlaceOK ==
    \A r \in Requests :
        /\ pc[r] \in {"new", "queued"} => at[r] = NoProc
        /\ at[r] # NoProc => phase[at[r]] \in {"ready", "stopping", "failing", "gone"}
        /\ pc[r] \in {"open"} \cup Handling =>
              at[r] # NoProc /\ phase[at[r]] \in {"ready", "stopping", "failing"}

\* The handlers of a process that the gauge counts.
Waited(p) == {r \in Requests \ S3 : at[r] = p /\ pc[r] \in Handling}

\* The gauge may be too high, for a future that was dropped is not counted out, but
\* never too low.
GaugeOK == \A p \in Procs : IsFiniteSet(Waited(p)) /\ Cardinality(Waited(p)) <= gauge[p]

\* The drain has been over since PrepareHandoff was answered.
DrainOver(p) == (p = partner /\ deal # "draining") \/ phase[p] = "stopping"

\* What is still waited for then, the drain gave up on, or it came later.
DrainOK == \A p \in Procs : DrainOver(p) => Waited(p) \subseteq missed

\* What runs in a process while a later one serves or reconciles is late; what ran in a
\* later one than the one in charge is, too.
LateOK ==
    /\ \A r \in Requests, p \in Procs :
          pc[r] \in Handling /\ at[r] \in Procs /\ at[r] < p
          /\ phase[p] \in {"locked", "merged", "ready"} => r \in late
    /\ \A r \in Requests : lock \in Procs /\ at[r] \in Procs /\ lock < at[r] => r \in late

Agree(p, r) == r \in listed[p] <=> r \in files

\* The index of every process that serves has what that process did and, but for what is
\* late, what earlier ones did: it may be in charge again.
IndexOK ==
    /\ \A r \in Requests : pc[r] = "stored" => (r \in files <=> r \in Makers)
    /\ \A p \in Procs, r \in Requests : phase[p] = "ready" =>
          /\ at[r] = p /\ pc[r] = "ok" => Agree(p, r)
          /\ at[r] = NoProc \/ at[r] < p => r \in late \/ Agree(p, r)
    /\ \A p \in Procs, r \in Requests :
          phase[p] = "merged" /\ r \notin late /\ r \in files => r \in listed[p]

Inv == TypeOK /\ RolesOK /\ LockOK /\ GateOK /\ PlaceOK /\ GaugeOK /\ DrainOK /\ LateOK /\ IndexOK

-----------------------------------------------------------------------------
LEMMA ProcsOrdered ==
    /\ \A p, q \in Procs : p < q \/ p = q \/ q < p
    /\ \A p, q \in Procs : p < q => ~(q < p) /\ p # q
    /\ \A p, q \in Procs : p > q <=> q < p
    /\ \A p, q, s \in Procs : p < q /\ q < s => p < s
    /\ NoProc \notin Procs /\ 1 \in Procs /\ \A p \in Procs : ~(p < 1)
BY BoundAssumption, NoProcAssumption DEF Procs

\* The steps of the processes that move the attempt on.
Advance(p) ==
    \/ Spawn(p) \/ Drain(p) \/ Drained(p) \/ Seal(p) \/ Abort(p) \/ TakeLock(p)
    \/ InsertMissing(p) \/ Announce(p) \/ Commit(p) \/ ControlFails(p) \/ Exit(p)

\* The steps of the listeners and of the requests.
Traffic ==
    \/ \E p \in Procs : Look(p) \/ \E r \in Requests : Accept(p, r)
    \/ \E r \in Requests : Connect(r) \/ Dispatch(r) \/ Store(r) \/ Enter(r) \/ Abandon(r)

LEMMA NextCases ==
    ASSUME [Next]_vars
    PROVE  (\E p \in Procs : Advance(p)) \/ Traffic \/ UNCHANGED vars
BY DEF Next, Supervise, Progress, Handle, Advance, Traffic

LEMMA TrafficStays ==
    ASSUME Traffic
    PROVE  UNCHANGED <<phase, deal, partner, lock, closed>>
BY DEF Traffic, Look, Accept, Connect, Dispatch, Store, Enter, Abandon, RequestStep

\* The steps that touch neither a connection nor a handler.
Quiet(p) ==
    \/ Spawn(p) \/ Drain(p) \/ Drained(p) \/ Seal(p) \/ TakeLock(p) \/ InsertMissing(p)
    \/ Announce(p) \/ Commit(p) \/ ControlFails(p)

LEMMA QuietStays ==
    ASSUME NEW p \in Procs, Quiet(p)
    PROVE  UNCHANGED <<gate, gauge, pc, at, files>>
BY DEF Quiet, Spawn, Drain, Drained, Seal, TakeLock, InsertMissing, Announce, Commit,
   ControlFails, requestVars

LEMMA InitInv == Init => Inv
<1> SUFFICES ASSUME Init PROVE Inv
  OBVIOUS
<1> USE ProcsOrdered DEF Init
<1>1. TypeOK
  BY MakersAssumption DEF TypeOK, Phases, Deals, Handling
<1>2. RolesOK /\ LockOK
  BY DEF RolesOK, LockOK, Successor
<1>3. GateOK
  BY DEF GateOK
<1>4. PlaceOK
  BY DEF PlaceOK, Handling
<1>5. GaugeOK
  <2>1. \A p \in Procs : Waited(p) = {}
    BY DEF Waited
  <2>2. IsFiniteSet({}) /\ Cardinality({}) = 0
    BY FS_EmptySet
  <2> QED
    BY <2>1, <2>2 DEF GaugeOK
<1>6. DrainOK /\ LateOK
  BY DEF DrainOK, DrainOver, LateOK, Waited, Handling
<1>7. IndexOK
  BY DEF IndexOK, Agree
<1> QED
  BY <1>1, <1>2, <1>3, <1>4, <1>5, <1>6, <1>7 DEF Inv

-----------------------------------------------------------------------------
\* What an attempt that is given up leaves: no successor that is still starting, and
\* none that serves after the partner if the lock is not its own.
LEMMA GiveUpDoes ==
    ASSUME Inv, NEW p \in Procs, GiveUp(p)
    PROVE  \E ended \in SUBSET Procs :
              /\ p \notin ended /\ End(ended)
              /\ phase' = [q \in Procs |-> IF q \in ended THEN "gone" ELSE phase[q]]
              /\ \A q \in ended : phase[q] \in {"waiting", "locked", "merged", "ready"}
              /\ \A q \in Procs : phase'[q] \notin {"waiting", "locked", "merged"}
              /\ \/ UNCHANGED <<lock, late>> /\ \A q \in Procs : phase'[q] = "ready" /\ p < q => lock = q
                 \/ /\ lock' \in {p, NoProc} /\ \A q \in Procs : phase'[q] = "ready" => q < p \/ q = p
                    /\ late' = {r \in late : at[r] # p}
                                  \cup {r \in Requests : at[r] \in Procs /\ at[r] > p}
<1>0. /\ RolesOK /\ LockOK /\ phase \in [Procs -> Phases] /\ partner = p
  BY DEF Inv, TypeOK, GiveUp
<1>1. PICK ended \in {Started(p), {q \in Started(p) : Successor(q)}} :
          /\ phase' = [q \in Procs |-> IF q \in ended THEN "gone" ELSE phase[q]]
          /\ End(ended)
          /\ IF lock \in ended \cup {p, NoProc}
             THEN /\ lock' \in {p, NoProc}
                  /\ late' = {r \in late : at[r] # p}
                                \cup {r \in Requests : at[r] \in Procs /\ at[r] > p}
             ELSE UNCHANGED <<lock, late>>
  BY DEF GiveUp
<1>2. /\ ended \subseteq Procs /\ (\A q \in Procs : Successor(q) => q \in ended)
      /\ \A q \in ended : Successor(q) \/ (phase[q] = "ready" /\ q > p)
  BY <1>1 DEF Started
<1>3. p \notin ended
  BY <1>0, <1>2, ProcsOrdered DEF RolesOK, Successor
<1>4. \A q \in Procs : phase'[q] \notin {"waiting", "locked", "merged"}
  BY <1>1, <1>2 DEF Successor
<1>5. \A q \in ended : phase[q] \in {"waiting", "locked", "merged", "ready"}
  BY <1>2 DEF Successor
<1>6. ASSUME NEW q \in Procs, phase'[q] = "ready", p < q PROVE lock = q /\ q \notin ended
  <2>1. phase[q] = "ready" /\ q \notin ended
    BY <1>1, <1>6
  <2> QED
    BY <1>0, <1>6, <2>1 DEF LockOK
<1>7. CASE lock \in ended \cup {p, NoProc}
  <2>1. \A q \in Procs : phase'[q] = "ready" => q < p \/ q = p
    BY <1>6, <1>7, ProcsOrdered
  <2> QED
    BY <1>1, <1>2, <1>3, <1>4, <1>5, <1>7, <2>1
<1>8. CASE lock \notin ended \cup {p, NoProc}
  BY <1>1, <1>2, <1>3, <1>4, <1>5, <1>6, <1>8
<1> QED
  BY <1>7, <1>8

\* What an exit leaves.
LEMMA EndDoes ==
    ASSUME TypeOK, NEW ps \in SUBSET Procs, End(ps)
    PROVE  /\ pc' \in [Requests -> {"new", "queued", "open", "ok", "lost", "cut"} \cup Handling]
           /\ \A r \in Requests : /\ at[r] \notin ps => pc'[r] = pc[r]
                                  /\ at[r] \in ps => pc'[r] \notin {"open"} \cup Handling
                                  /\ pc[r] \in {"new", "queued", "ok"} => pc'[r] = pc[r]
                                  /\ pc'[r] \in {"new", "queued", "ok"} \cup Handling => pc'[r] = pc[r]
                                  /\ pc'[r] = "cut" /\ pc[r] # "cut" =>
                                        at[r] \in ps /\ pc[r] \in Handling
           /\ gate' \in [Procs -> {"check", "await"}]
           /\ \A p \in Procs : gate'[p] = "await" => gate[p] = "await"
           /\ gauge' \in [Procs -> Nat]
           /\ \A p \in Procs : gauge'[p] = IF p \in ps THEN 0 ELSE gauge[p]
           /\ listed' \in [Procs -> SUBSET Requests]
           /\ \A p \in Procs : p \notin ps => listed'[p] = listed[p]
<1> USE DEF TypeOK, End, Handling
<1>1. pc' \in [Requests -> {"new", "queued", "open", "ok", "lost", "cut"} \cup Handling]
  OBVIOUS
<1>2. ASSUME NEW r \in Requests
      PROVE  /\ at[r] \notin ps => pc'[r] = pc[r]
             /\ at[r] \in ps => pc'[r] \notin {"open"} \cup Handling
             /\ pc[r] \in {"new", "queued", "ok"} => pc'[r] = pc[r]
             /\ pc'[r] \in {"new", "queued", "ok"} \cup Handling => pc'[r] = pc[r]
             /\ pc'[r] = "cut" /\ pc[r] # "cut" => at[r] \in ps /\ pc[r] \in Handling
  OBVIOUS
<1>3. /\ gate' \in [Procs -> {"check", "await"}]
      /\ \A p \in Procs : gate'[p] = "await" => gate[p] = "await"
  OBVIOUS
<1>4. /\ gauge' \in [Procs -> Nat]
      /\ \A p \in Procs : gauge'[p] = IF p \in ps THEN 0 ELSE gauge[p]
  OBVIOUS
<1>5. /\ listed' \in [Procs -> SUBSET Requests]
      /\ \A p \in Procs : p \notin ps => listed'[p] = listed[p]
  OBVIOUS
<1> QED
  BY <1>1, <1>2, <1>3, <1>4, <1>5

-----------------------------------------------------------------------------
\* Types.
LEMMA AdvanceTypes ==
    ASSUME Inv, NEW p \in Procs, Advance(p)
    PROVE  TypeOK'
<1>0. TypeOK
  BY DEF Inv
<1>1. CASE Spawn(p) \/ Drain(p) \/ Commit(p)
  BY <1>0, <1>1 DEF Spawn, Drain, Commit, TypeOK, Phases, Deals, requestVars, historyVars
<1>2. CASE Drained(p) \/ Seal(p)
  BY <1>0, <1>2 DEF Drained, Seal, TypeOK, Phases, Deals, requestVars, historyVars
<1>3. CASE TakeLock(p) \/ InsertMissing(p) \/ Announce(p)
  BY <1>0, <1>3 DEF TakeLock, InsertMissing, Announce, TypeOK, Phases, Deals, requestVars, historyVars
<1>4. CASE ControlFails(p)
  BY <1>0, <1>4 DEF ControlFails, TypeOK, Phases, Deals, requestVars, historyVars
<1>5. CASE Exit(p)
  BY <1>0, <1>5, EndDoes DEF Exit, TypeOK, Phases
<1>6. CASE Abort(p)
  <2>1. /\ deal' = "none" /\ partner' = NoProc /\ slipped' = 0 /\ missed' = {}
        /\ closed' = [closed EXCEPT ![p] = FALSE] /\ UNCHANGED <<at, files>> /\ GiveUp(p)
    BY <1>6 DEF Abort, GiveUp
  <2>2. PICK ended \in SUBSET Procs :
          /\ End(ended)
          /\ phase' = [q \in Procs |-> IF q \in ended THEN "gone" ELSE phase[q]]
          /\ \/ UNCHANGED <<lock, late>>
             \/ /\ lock' \in {p, NoProc}
                /\ late' = {r \in late : at[r] # p}
                              \cup {r \in Requests : at[r] \in Procs /\ at[r] > p}
    BY <2>1, GiveUpDoes
  <2>3. lock' \in Procs \cup {NoProc} /\ late' \subseteq Requests
    BY <1>0, <2>2 DEF TypeOK
  <2> QED
    BY <1>0, <2>1, <2>2, <2>3, EndDoes DEF TypeOK, Phases, Deals
<1> QED
  BY <1>1, <1>2, <1>3, <1>4, <1>5, <1>6 DEF Advance

\* The gauge does not go below zero: who is counted out was counted in.
LEMMA TrafficTypes ==
    ASSUME Inv, Traffic
    PROVE  TypeOK'
<1> USE DEF Inv, TypeOK, RequestStep, Goto, requestVars, historyVars
<1>1. ASSUME NEW p \in Procs, Look(p) PROVE TypeOK'
  BY <1>1 DEF Look
<1>2. ASSUME NEW p \in Procs, NEW r \in Requests, Accept(p, r) PROVE TypeOK'
  BY <1>2 DEF Accept
<1>3. ASSUME NEW r \in Requests, Connect(r) \/ Store(r) \/ Abandon(r) PROVE TypeOK'
  BY <1>3 DEF Connect, Store, Abandon, Handling
<1>4. ASSUME NEW r \in Requests, Dispatch(r) PROVE TypeOK'
  <2>1. at[r] \in Procs
    BY <1>4 DEF Dispatch, PlaceOK
  <2>2. missed' \subseteq Requests /\ late' \subseteq Requests /\ gauge' \in [Procs -> Nat]
    BY <1>4, <2>1 DEF Dispatch
  <2> QED
    BY <1>4, <2>2 DEF Dispatch, Handling
<1>5. ASSUME NEW r \in Requests, Enter(r) PROVE TypeOK'
  <2>1. at[r] \in Procs
    BY <1>5 DEF Enter, PlaceOK, Handling
  <2>2. CASE r \notin S3
    <3>1. r \in Waited(at[r]) /\ IsFiniteSet(Waited(at[r]))
      BY <1>5, <2>1, <2>2 DEF Enter, Waited, Handling, GaugeOK
    <3>2. Cardinality(Waited(at[r])) \in Nat /\ Cardinality(Waited(at[r])) # 0
      BY <3>1, FS_EmptySet, FS_CardinalityType
    <3>3. gauge[at[r]] - 1 \in Nat
      BY <2>1, <3>2 DEF GaugeOK
    <3> QED
      BY <1>5, <2>1, <2>2, <3>3 DEF Enter
  <2>3. CASE r \in S3
    BY <1>5, <2>1, <2>3 DEF Enter
  <2> QED
    BY <2>2, <2>3
<1> QED
  BY <1>1, <1>2, <1>3, <1>4, <1>5 DEF Traffic

LEMMA TypeStep ==
    ASSUME Inv, [Next]_vars
    PROVE  TypeOK'
<1>1. CASE UNCHANGED vars
  BY <1>1 DEF vars, procVars, requestVars, historyVars, Inv, TypeOK
<1> QED
  BY <1>1, NextCases, AdvanceTypes, TrafficTypes

-----------------------------------------------------------------------------
\* The roles.
LEMMA RolesStep ==
    ASSUME Inv, [Next]_vars
    PROVE  RolesOK'
<1> USE ProcsOrdered DEF RolesOK, Successor
<1>0. /\ phase \in [Procs -> Phases] /\ partner \in Procs \cup {NoProc} /\ RolesOK /\ LockOK
  BY DEF Inv, TypeOK
<1>1. ASSUME NEW p \in Procs, Spawn(p) PROVE RolesOK'
  <2>1. /\ phase' = [phase EXCEPT ![p] = "waiting"] /\ phase[p] = "absent"
        /\ \A q \in Procs : ~Successor(q) /\ phase[q] # "stopping"
        /\ deal = "none" /\ UNCHANGED <<deal, partner, lock>>
    BY <1>1 DEF Spawn
  <2>2. \A q \in Procs : phase[q] # "absent" => q < p
    BY <1>0, <2>1
  <2>3. \A q \in Procs : q < p => phase[q] # "absent"
    BY <1>1 DEF Spawn
  <2> QED
    BY <1>0, <2>1, <2>2, <2>3
<1>2. ASSUME NEW p \in Procs, Drain(p) \/ Drained(p) PROVE RolesOK'
  <2>1. CASE Drain(p)
    BY <1>0, <2>1 DEF Drain, Incumbent
  <2>2. CASE Drained(p)
    BY <1>0, <2>2 DEF Drained
  <2> QED
    BY <1>2, <2>1, <2>2
<1>3. ASSUME NEW p \in Procs, Seal(p) PROVE RolesOK'
  BY <1>0, <1>3 DEF Seal
<1>4. ASSUME NEW p \in Procs, Abort(p) PROVE RolesOK'
  <2>1. GiveUp(p) /\ partner = p /\ deal' = "none" /\ partner' = NoProc
    BY <1>4 DEF Abort, GiveUp
  <2>2. PICK ended \in SUBSET Procs :
          /\ phase' = [q \in Procs |-> IF q \in ended THEN "gone" ELSE phase[q]]
          /\ \A q \in ended : phase[q] \in {"waiting", "locked", "merged", "ready"}
          /\ \A q \in Procs : phase'[q] \notin {"waiting", "locked", "merged"}
    BY <2>1, GiveUpDoes
  <2>3. \A q \in Procs : phase[q] # "stopping"
    BY <1>0, <2>1
  <2> QED
    BY <1>0, <2>1, <2>2, <2>3
<1>5. ASSUME NEW p \in Procs, TakeLock(p) PROVE RolesOK'
  <2>1. /\ phase' = [phase EXCEPT ![p] = "locked"] /\ phase[p] = "waiting"
        /\ lock = NoProc /\ lock' = p /\ UNCHANGED partner
        /\ \/ deal = "sealed" /\ deal' = "begun"
           \/ deal = "none" /\ deal' = "none" /\ \A q \in Procs : phase[q] # "ready"
    BY <1>5 DEF TakeLock
  <2> QED
    BY <1>0, <2>1
<1>6. ASSUME NEW p \in Procs, InsertMissing(p) PROVE RolesOK'
  <2>1. /\ phase' = [phase EXCEPT ![p] = "merged"] /\ phase[p] = "locked"
        /\ UNCHANGED <<deal, partner, lock>>
    BY <1>6 DEF InsertMissing
  <2> QED
    BY <1>0, <2>1
<1>7. ASSUME NEW p \in Procs, Announce(p) PROVE RolesOK'
  <2>1. /\ phase' = [phase EXCEPT ![p] = "ready"] /\ phase[p] = "merged" /\ lock = p
        /\ deal' = (IF deal = "begun" THEN "ready" ELSE deal) /\ UNCHANGED <<partner, lock>>
    BY <1>0, <1>7 DEF Announce
  <2> QED
    BY <1>0, <2>1
<1>8. ASSUME NEW p \in Procs, Commit(p) PROVE RolesOK'
  <2>1. /\ phase' = [phase EXCEPT ![p] = "stopping"] /\ phase[p] = "ready"
        /\ deal = "ready" /\ deal' = "none" /\ partner' = NoProc /\ lock' = lock
    BY <1>8 DEF Commit
  <2>2. \A q \in Procs : ~Successor(q) /\ phase[q] # "stopping"
    BY <1>0, <2>1 DEF LockOK
  <2> QED
    BY <1>0, <2>1, <2>2
<1>9. ASSUME NEW p \in Procs, ControlFails(p) PROVE RolesOK'
  <2>1. /\ phase[p] = "ready" /\ phase'[p] = "failing" /\ UNCHANGED <<deal, partner>>
        /\ lock' = (IF lock = p THEN NoProc ELSE lock)
        /\ \A q \in Procs : q # p => phase'[q] = phase[q] \/ (Successor(q) /\ phase'[q] = "gone")
    BY <1>0, <1>9 DEF ControlFails
  <2>2. \A q \in Procs : /\ phase'[q] = "absent" <=> phase[q] = "absent"
                         /\ phase'[q] \in {"waiting", "locked", "merged", "stopping"} =>
                              q # p /\ phase'[q] = phase[q]
    BY <2>1
  <2>3. \A q \in Procs : phase[q] \in {"ready", "failing", "gone"} => phase'[q] \in {"ready", "failing", "gone"}
    BY <2>1
  <2>4. \A q \in Procs : phase'[q] \in {"locked", "merged"} => lock' = q /\ deal' = "begun"
    BY <1>0, <2>1, <2>2
  <2> QED
    BY <1>0, <2>1, <2>2, <2>3, <2>4
<1>10. ASSUME NEW p \in Procs, Exit(p) PROVE RolesOK'
  <2>1. /\ phase' = [phase EXCEPT ![p] = "gone"] /\ phase[p] \in {"stopping", "failing"}
        /\ UNCHANGED <<deal, partner, lock>>
    BY <1>10 DEF Exit
  <2> QED
    BY <1>0, <2>1
<1>11. ASSUME UNCHANGED <<phase, deal, partner, lock>> PROVE RolesOK'
  BY <1>0, <1>11
<1>12. UNCHANGED vars => UNCHANGED <<phase, deal, partner, lock>>
  BY DEF vars, procVars
<1> QED
  BY ONLY NextCases, [Next]_vars, TrafficStays, <1>1, <1>2, <1>3, <1>4, <1>5, <1>6, <1>7,
     <1>8, <1>9, <1>10, <1>11, <1>12 DEF Advance

LEMMA LockStep ==
    ASSUME Inv, [Next]_vars
    PROVE  LockOK'
<1> USE ProcsOrdered DEF LockOK, Successor
<1>0. /\ phase \in [Procs -> Phases] /\ partner \in Procs \cup {NoProc} /\ RolesOK /\ LockOK
  BY DEF Inv, TypeOK
<1>1. ASSUME NEW p \in Procs, Spawn(p) PROVE LockOK'
  BY <1>0, <1>1 DEF Spawn
<1>2. ASSUME NEW p \in Procs, Drain(p) PROVE LockOK'
  BY <1>0, <1>2 DEF Drain, Incumbent
<1>3. ASSUME NEW p \in Procs, Drained(p) \/ Seal(p) PROVE LockOK'
  BY <1>0, <1>3 DEF Drained, Seal
<1>4. ASSUME NEW p \in Procs, Abort(p) PROVE LockOK'
  <2>1. GiveUp(p) /\ deal' = "none" /\ partner' = NoProc
    BY <1>4 DEF Abort, GiveUp
  <2>2. PICK ended \in SUBSET Procs :
          /\ phase' = [q \in Procs |-> IF q \in ended THEN "gone" ELSE phase[q]]
          /\ \/ UNCHANGED lock
             \/ lock' \in {p, NoProc} /\ \A q \in Procs : phase'[q] = "ready" => q < p \/ q = p
    BY <2>1, GiveUpDoes
  <2>3. \A q \in Procs : phase'[q] = "ready" => phase[q] = "ready"
    BY <2>2
  <2> QED
    BY <1>0, <2>1, <2>2, <2>3
<1>5. ASSUME NEW p \in Procs, TakeLock(p) PROVE LockOK'
  <2>1. /\ phase' = [phase EXCEPT ![p] = "locked"] /\ phase[p] = "waiting"
        /\ lock' = p /\ UNCHANGED partner /\ deal \in {"sealed", "none"} /\ deal' \in {"begun", "none"}
    BY <1>5 DEF TakeLock
  <2> QED
    BY <1>0, <2>1 DEF RolesOK
<1>6. ASSUME NEW p \in Procs, InsertMissing(p) PROVE LockOK'
  BY <1>0, <1>6 DEF InsertMissing
<1>7. ASSUME NEW p \in Procs, Announce(p) PROVE LockOK'
  <2>1. /\ phase' = [phase EXCEPT ![p] = "ready"] /\ phase[p] = "merged" /\ lock = p
        /\ deal \in {"begun", "none"}
        /\ deal' = (IF deal = "begun" THEN "ready" ELSE deal) /\ UNCHANGED <<partner, lock>>
    BY <1>0, <1>7 DEF Announce, RolesOK
  <2>2. \A q \in Procs : phase[q] # "absent" => q < p \/ q = p
    BY <1>0, <2>1 DEF RolesOK
  <2>3. \A q \in Procs : Successor(q) => q = p
    BY <1>0, <2>1, <2>2 DEF RolesOK
  <2> QED
    BY <1>0, <2>1, <2>2, <2>3 DEF RolesOK
<1>8. ASSUME NEW p \in Procs, Commit(p) PROVE LockOK'
  BY <1>0, <1>8 DEF Commit
<1>9. ASSUME NEW p \in Procs, ControlFails(p) PROVE LockOK'
  <2>1. /\ phase[p] = "ready" /\ phase'[p] = "failing" /\ UNCHANGED <<deal, partner>>
        /\ lock' = (IF lock = p THEN NoProc ELSE lock)
        /\ \A q \in Procs : q # p => phase'[q] = phase[q] \/ phase'[q] = "gone"
    BY <1>0, <1>9 DEF ControlFails
  <2> QED
    BY <1>0, <2>1
<1>10. ASSUME NEW p \in Procs, Exit(p) PROVE LockOK'
  BY <1>0, <1>10 DEF Exit
<1>11. ASSUME UNCHANGED <<phase, deal, partner, lock>> PROVE LockOK'
  BY <1>0, <1>11
<1>12. UNCHANGED vars => UNCHANGED <<phase, deal, partner, lock>>
  BY DEF vars, procVars
<1> QED
  BY ONLY NextCases, [Next]_vars, TrafficStays, <1>1, <1>2, <1>3, <1>4, <1>5, <1>6, <1>7,
     <1>8, <1>9, <1>10, <1>11, <1>12 DEF Advance

LEMMA GateStep ==
    ASSUME Inv, [Next]_vars
    PROVE  GateOK'
<1> USE DEF GateOK
<1>0. /\ phase \in [Procs -> Phases] /\ closed \in [Procs -> BOOLEAN]
      /\ gate \in [Procs -> {"check", "await"}] /\ slipped \in Nat /\ GateOK
      /\ NoProc \notin Procs
  BY ProcsOrdered DEF Inv, TypeOK
<1>a. /\ deal = "none" <=> partner = NoProc
      /\ \A p, q \in Procs : phase[p] = "stopping" => deal = "none" /\ ~Successor(q)
      /\ \A p, q \in Procs : phase[p] = "stopping" /\ phase[q] = "stopping" => p = q
      /\ partner # NoProc => phase[partner] \in {"ready", "failing", "gone"}
  BY DEF Inv, RolesOK
<1>1. ASSUME NEW p \in Procs, Spawn(p) PROVE GateOK'
  <2>1. /\ phase' = [phase EXCEPT ![p] = "waiting"] /\ phase[p] = "absent"
        /\ UNCHANGED <<partner, closed, gate, slipped>>
    BY <1>1 DEF Spawn, historyVars
  <2> QED
    BY <1>0, <2>1
<1>2. ASSUME NEW p \in Procs, Drain(p) PROVE GateOK'
  <2>1. /\ phase[p] = "ready" /\ deal = "none" /\ partner' = p
        /\ closed' = [closed EXCEPT ![p] = TRUE]
        /\ UNCHANGED <<phase, gate, slipped>> /\ \E q \in Procs : Successor(q)
    BY <1>2 DEF Drain, Incumbent, historyVars
  <2>2. slipped = 0 /\ partner = NoProc
    BY <1>0, <1>a, <2>1
  <2> QED
    BY <1>0, <2>1, <2>2
<1>3. ASSUME NEW p \in Procs, Drained(p) \/ Seal(p) \/ InsertMissing(p) PROVE GateOK'
  <2>1. CASE Drained(p) \/ Seal(p)
    BY <1>0, <2>1 DEF Drained, Seal, historyVars
  <2>2. CASE InsertMissing(p)
    BY <1>0, <2>2 DEF InsertMissing, historyVars
  <2> QED
    BY <1>3, <2>1, <2>2
<1>4. ASSUME NEW p \in Procs, Abort(p) PROVE GateOK'
  <2>1. /\ GiveUp(p) /\ partner = p /\ slipped' = 0
        /\ closed' = [closed EXCEPT ![p] = FALSE]
    BY <1>4 DEF Abort, GiveUp
  <2>2. PICK ended \in SUBSET Procs :
          phase' = [q \in Procs |-> IF q \in ended THEN "gone" ELSE phase[q]]
    BY <2>1, GiveUpDoes
  <2> QED
    BY <1>0, <2>1, <2>2
<1>5. ASSUME NEW p \in Procs, TakeLock(p) PROVE GateOK'
  BY <1>0, <1>5 DEF TakeLock, historyVars
<1>6. ASSUME NEW p \in Procs, Announce(p) PROVE GateOK'
  <2>1. /\ phase' = [phase EXCEPT ![p] = "ready"] /\ phase[p] = "merged"
        /\ UNCHANGED <<partner, closed, gate, slipped>>
    BY <1>6 DEF Announce, historyVars
  <2>2. ~closed[p]
    BY <1>0, <2>1
  <2> QED
    BY <1>0, <2>1, <2>2
<1>7. ASSUME NEW p \in Procs, Commit(p) PROVE GateOK'
  <2>1. /\ phase' = [phase EXCEPT ![p] = "stopping"] /\ phase[p] = "ready" /\ partner = p
        /\ UNCHANGED <<closed, gate, slipped>>
    BY <1>7 DEF Commit, historyVars
  <2> QED
    BY <1>0, <2>1
<1>8. ASSUME NEW p \in Procs, ControlFails(p) PROVE GateOK'
  <2>1. /\ phase[p] = "ready" /\ UNCHANGED <<partner, closed, gate, slipped>>
        /\ \A q \in Procs : /\ phase'[q] = "ready" => phase[q] = "ready"
                            /\ phase[q] = "stopping" => phase'[q] = "stopping"
                            /\ phase[q] \in {"ready", "failing", "gone"} =>
                                  phase'[q] \in {"ready", "failing", "gone"}
    BY <1>0, <1>8 DEF ControlFails, Successor, historyVars
  <2> QED
    BY <1>0, <2>1
<1>9. ASSUME NEW p \in Procs, Exit(p) PROVE GateOK'
  <2>1. /\ phase[p] \in {"stopping", "failing"} /\ phase' = [phase EXCEPT ![p] = "gone"]
        /\ closed' = [closed EXCEPT ![p] = FALSE] /\ UNCHANGED partner
        /\ slipped' = IF phase[p] = "stopping" THEN 0 ELSE slipped
        /\ End({p})
    BY <1>9 DEF Exit
  <2>2. \A q \in Procs : gate'[q] = "await" => gate[q] = "await"
    BY <2>1, EndDoes DEF Inv
  <2>3. slipped' <= 1
    BY <1>0, <2>1
  <2> QED
    BY <1>0, <2>1, <2>2, <2>3
<1>10. ASSUME NEW p \in Procs, Look(p) PROVE GateOK'
  BY <1>0, <1>10 DEF Look, historyVars
<1>11. ASSUME NEW p \in Procs, NEW r \in Requests, Accept(p, r) PROVE GateOK'
  <2>1. /\ gate[p] = "await" /\ gate' = [gate EXCEPT ![p] = "check"] /\ phase[p] = "ready"
        /\ slipped' = IF closed[p] THEN slipped + 1 ELSE slipped
        /\ UNCHANGED <<phase, partner, closed>>
    BY <1>11 DEF Accept, RequestStep
  <2>2. CASE ~closed[p]
    BY <1>0, <2>1, <2>2
  <2>3. CASE closed[p]
    <3>1. p = partner /\ slipped' = 1
      BY <1>0, <2>1, <2>3
    <3> QED
      BY <1>0, <2>1, <3>1
  <2> QED
    BY <2>2, <2>3
<1>12. ASSUME NEW r \in Requests,
              Connect(r) \/ Dispatch(r) \/ Store(r) \/ Enter(r) \/ Abandon(r)
       PROVE  GateOK'
  BY <1>0, <1>12 DEF Connect, Dispatch, Store, Enter, Abandon, RequestStep, historyVars
<1>13. ASSUME UNCHANGED vars PROVE GateOK'
  BY <1>0, <1>13 DEF vars, procVars, historyVars
<1> QED
  BY ONLY NextCases, [Next]_vars, <1>1, <1>2, <1>3, <1>4, <1>5, <1>6, <1>7, <1>8, <1>9,
     <1>10, <1>11, <1>12, <1>13 DEF Advance, Traffic

-----------------------------------------------------------------------------
\* Where the connections are.
LEMMA PlaceStep ==
    ASSUME Inv, [Next]_vars
    PROVE  PlaceOK'
<1> DEFINE Here == {"ready", "stopping", "failing"}
<1> USE DEF PlaceOK
<1>0. /\ phase \in [Procs -> Phases] /\ PlaceOK /\ TypeOK
      /\ DOMAIN pc = Requests /\ at \in [Requests -> Procs \cup {NoProc}]
  BY DEF Inv, TypeOK
<1>1. ASSUME UNCHANGED <<pc, at>>,
             \A q \in Procs : /\ phase[q] \in Here => phase'[q] \in Here
                              /\ phase[q] = "gone" => phase'[q] = "gone"
      PROVE  PlaceOK'
  BY <1>0, <1>1
<1>2. ASSUME NEW p \in Procs, Quiet(p) PROVE PlaceOK'
  <2>1. ASSUME NEW q \in Procs
        PROVE  /\ phase[q] \in Here => phase'[q] \in Here
               /\ phase[q] = "gone" => phase'[q] = "gone"
    <3>1. CASE Spawn(p) \/ Drain(p) \/ Drained(p) \/ Seal(p)
      BY <1>0, <3>1 DEF Spawn, Drain, Drained, Seal
    <3>2. CASE TakeLock(p) \/ InsertMissing(p) \/ Announce(p) \/ Commit(p)
      BY <1>0, <3>2 DEF TakeLock, InsertMissing, Announce, Commit
    <3>3. CASE ControlFails(p)
      BY <1>0, <3>3 DEF ControlFails, Successor
    <3> QED
      BY <1>2, <3>1, <3>2, <3>3 DEF Quiet
  <2> QED
    BY <1>1, <1>2, <2>1, QuietStays
<1>3. ASSUME NEW ended \in SUBSET Procs, End(ended), UNCHANGED at,
             \A q \in Procs : /\ q \in ended => phase'[q] = "gone"
                              /\ q \notin ended => phase'[q] = phase[q]
      PROVE  PlaceOK'
  <2>1. \A r \in Requests : /\ at[r] \notin ended => pc'[r] = pc[r]
                            /\ at[r] \in ended => pc'[r] \notin {"open"} \cup Handling
                            /\ pc'[r] \in {"new", "queued"} => pc'[r] = pc[r]
    BY <1>0, <1>3, EndDoes
  <2> QED
    BY <1>0, <1>3, <2>1, ProcsOrdered
<1>4. ASSUME NEW p \in Procs, Abort(p) PROVE PlaceOK'
  <2>1. GiveUp(p) /\ UNCHANGED at
    BY <1>4 DEF Abort, GiveUp
  <2>2. PICK ended \in SUBSET Procs :
          End(ended) /\ phase' = [q \in Procs |-> IF q \in ended THEN "gone" ELSE phase[q]]
    BY <2>1, GiveUpDoes
  <2> QED
    BY <1>3, <2>1, <2>2
<1>5. ASSUME NEW p \in Procs, Exit(p) PROVE PlaceOK'
  <2>1. phase' = [phase EXCEPT ![p] = "gone"] /\ UNCHANGED at /\ End({p})
    BY <1>5 DEF Exit
  <2> QED
    BY <1>0, <1>3, <2>1
<1>6. ASSUME NEW p \in Procs, NEW r \in Requests, Accept(p, r) PROVE PlaceOK'
  <2>1. /\ pc' = [pc EXCEPT ![r] = "open"] /\ at' = [at EXCEPT ![r] = p]
        /\ pc[r] = "queued" /\ phase[p] = "ready" /\ UNCHANGED phase
    BY <1>6 DEF Accept, Goto, RequestStep
  <2> QED
    BY <1>0, <2>1, ProcsOrdered
<1>7. ASSUME NEW r \in Requests,
             Connect(r) \/ Dispatch(r) \/ Store(r) \/ Enter(r) \/ Abandon(r)
      PROVE  PlaceOK'
  <2>1. CASE Connect(r)
    BY <1>0, <2>1 DEF Connect, Goto, RequestStep, Handling
  <2>2. CASE Abandon(r)
    <3>1. pc' = [pc EXCEPT ![r] = "lost"] /\ UNCHANGED <<at, phase>>
      BY <2>2 DEF Abandon, Goto, RequestStep
    <3> QED
      BY <1>0, <3>1 DEF Handling
  <2>3. CASE Dispatch(r) \/ Store(r) \/ Enter(r)
    <3>1. /\ pc[r] \in {"open", "handling", "stored"} /\ UNCHANGED <<at, phase>>
          /\ \/ pc' = [pc EXCEPT ![r] = "handling"] \/ pc' = [pc EXCEPT ![r] = "stored"]
             \/ pc' = [pc EXCEPT ![r] = "ok"]
      BY <2>3 DEF Dispatch, Store, Enter, Goto, RequestStep
    <3> QED
      BY <1>0, <3>1 DEF Handling
  <2> QED
    BY <1>7, <2>1, <2>2, <2>3
<1>8. ASSUME NEW p \in Procs, Look(p) PROVE PlaceOK'
  BY <1>0, <1>8 DEF Look, requestVars
<1>9. ASSUME UNCHANGED vars PROVE PlaceOK'
  BY <1>0, <1>9 DEF vars, procVars, requestVars
<1> QED
  BY ONLY NextCases, [Next]_vars, <1>2, <1>4, <1>5, <1>6, <1>7, <1>8, <1>9
     DEF Advance, Quiet, Traffic

\* The handlers that the gauge counts, after the steps that change them.
LEMMA WaitedSteps ==
    ASSUME Inv
    PROVE  /\ UNCHANGED <<pc, at>> => \A p \in Procs : Waited(p)' = Waited(p)
           /\ \A r \in Requests : Connect(r) \/ Store(r) \/ (\E q \in Procs : Accept(q, r))
                 => \A p \in Procs : Waited(p)' = Waited(p)
           /\ \A r \in Requests : Abandon(r)
                 => \A p \in Procs : Waited(p)' \subseteq Waited(p)
           /\ \A r \in Requests : Enter(r)
                 => \A p \in Procs : Waited(p)' = Waited(p) \ {r}
           /\ \A r \in Requests : Dispatch(r)
                 => /\ \A p \in Procs : p # at[r] \/ r \in S3 => Waited(p)' = Waited(p)
                    /\ \A p \in Procs : /\ r \notin Waited(p)
                                        /\ p = at[r] /\ r \notin S3 => Waited(p)' = Waited(p) \cup {r}
           /\ \A ended \in SUBSET Procs : End(ended) /\ at' = at
                 => \A p \in Procs : Waited(p)' = IF p \in ended THEN {} ELSE Waited(p)
<1> USE DEF Waited, Handling
<1>0. /\ DOMAIN pc = Requests /\ at \in [Requests -> Procs \cup {NoProc}] /\ TypeOK
      /\ \A r \in Requests : pc[r] = "open" => at[r] \in Procs
  BY DEF Inv, TypeOK, PlaceOK
<1>1. UNCHANGED <<pc, at>> => \A p \in Procs : Waited(p)' = Waited(p)
  OBVIOUS
<1>2. ASSUME NEW r \in Requests, Connect(r) \/ Store(r)
      PROVE  \A p \in Procs : Waited(p)' = Waited(p)
  BY <1>0, <1>2 DEF Connect, Store, Goto
<1>3. ASSUME NEW r \in Requests, NEW q \in Procs, Accept(q, r)
      PROVE  \A p \in Procs : Waited(p)' = Waited(p)
  BY <1>0, <1>3 DEF Accept, Goto
<1>4. ASSUME NEW r \in Requests, Abandon(r)
      PROVE  \A p \in Procs : Waited(p)' \subseteq Waited(p)
  BY <1>0, <1>4 DEF Abandon, Goto
<1>5. ASSUME NEW r \in Requests, Enter(r)
      PROVE  \A p \in Procs : Waited(p)' = Waited(p) \ {r}
  BY <1>0, <1>5 DEF Enter, Goto
<1>6. ASSUME NEW r \in Requests, Dispatch(r)
      PROVE  /\ \A p \in Procs : p # at[r] \/ r \in S3 => Waited(p)' = Waited(p)
             /\ \A p \in Procs : /\ r \notin Waited(p)
                                 /\ p = at[r] /\ r \notin S3 => Waited(p)' = Waited(p) \cup {r}
  <2>1. pc' = [pc EXCEPT ![r] = "handling"] /\ pc[r] = "open" /\ at' = at
    BY <1>6 DEF Dispatch, Goto
  <2> QED
    BY <1>0, <2>1
<1>7. ASSUME NEW ended \in SUBSET Procs, End(ended), at' = at, NEW p \in Procs
      PROVE  Waited(p)' = IF p \in ended THEN {} ELSE Waited(p)
  <2>1. \A r \in Requests : /\ at[r] \notin ended => pc'[r] = pc[r]
                            /\ at[r] \in ended => pc'[r] \notin Handling
    BY <1>0, <1>7, EndDoes
  <2> QED
    BY <1>7, <2>1
<1> QED
  BY <1>1, <1>2, <1>3, <1>4, <1>5, <1>6, <1>7

LEMMA GaugeStep ==
    ASSUME Inv, [Next]_vars
    PROVE  GaugeOK'
<1> USE DEF GaugeOK
<1>0. GaugeOK /\ gauge \in [Procs -> Nat] /\ TypeOK
  BY DEF Inv, TypeOK
<1>a. ASSUME NEW p \in Procs PROVE Cardinality(Waited(p)) \in Nat
  BY <1>0, FS_CardinalityType
<1>1. ASSUME UNCHANGED gauge, \A p \in Procs : Waited(p)' = Waited(p) PROVE GaugeOK'
  BY <1>0, <1>1
<1>2. ASSUME NEW p \in Procs, Quiet(p) PROVE GaugeOK'
  BY <1>1, <1>2, QuietStays, WaitedSteps
<1>3. ASSUME NEW ended \in SUBSET Procs, End(ended), at' = at PROVE GaugeOK'
  <2>1. \A p \in Procs : /\ Waited(p)' = IF p \in ended THEN {} ELSE Waited(p)
                         /\ gauge'[p] = IF p \in ended THEN 0 ELSE gauge[p]
    BY <1>0, <1>3, EndDoes, WaitedSteps
  <2>2. IsFiniteSet({}) /\ Cardinality({}) = 0
    BY FS_EmptySet
  <2> QED
    BY <1>0, <2>1, <2>2
<1>4. ASSUME NEW p \in Procs, Abort(p) PROVE GaugeOK'
  <2>1. GiveUp(p) /\ at' = at
    BY <1>4 DEF Abort, GiveUp
  <2>2. \E ended \in SUBSET Procs : End(ended)
    BY <2>1, GiveUpDoes
  <2> QED
    BY <1>3, <2>1, <2>2
<1>5. ASSUME NEW p \in Procs, Exit(p) PROVE GaugeOK'
  BY <1>3, <1>5 DEF Exit
<1>6. ASSUME NEW r \in Requests, Connect(r) \/ Store(r) \/ \E q \in Procs : Accept(q, r)
      PROVE  GaugeOK'
  <2>1. UNCHANGED gauge
    BY <1>6 DEF Connect, Store, Accept
  <2>2. \A p \in Procs : Waited(p)' = Waited(p)
    BY <1>6, WaitedSteps
  <2> QED
    BY <1>1, <2>1, <2>2
<1>7. ASSUME NEW r \in Requests, Abandon(r) PROVE GaugeOK'
  <2>1. UNCHANGED gauge
    BY <1>7 DEF Abandon
  <2>2. ASSUME NEW p \in Procs
        PROVE  IsFiniteSet(Waited(p)') /\ Cardinality(Waited(p)') <= gauge[p]
    <3>1. Waited(p)' \subseteq Waited(p)
      BY <1>7, WaitedSteps
    <3>2. /\ Cardinality(Waited(p)') <= Cardinality(Waited(p))
          /\ IsFiniteSet(Waited(p)')
      BY <1>0, <3>1, FS_Subset
    <3>3. Cardinality(Waited(p)') \in Nat
      BY <3>2, FS_CardinalityType
    <3> QED
      BY <1>0, <1>a, <3>2, <3>3
  <2> QED
    BY <2>1, <2>2
<1>8. ASSUME NEW r \in Requests, Enter(r) PROVE GaugeOK'
  <2>1. gauge' = [gauge EXCEPT ![at[r]] = IF r \in S3 THEN @ ELSE @ - 1]
    BY <1>8 DEF Enter
  <2>2. ASSUME NEW p \in Procs
        PROVE  IsFiniteSet(Waited(p)') /\ Cardinality(Waited(p)') <= gauge'[p]
    <3>1. Waited(p)' = Waited(p) \ {r}
      BY <1>8, WaitedSteps
    <3>2. /\ IsFiniteSet(Waited(p)')
          /\ Cardinality(Waited(p)') = IF r \in Waited(p) THEN Cardinality(Waited(p)) - 1
                                       ELSE Cardinality(Waited(p))
      BY <1>0, <3>1, FS_RemoveElement
    <3>3. r \in Waited(p) <=> p = at[r] /\ r \notin S3
      BY <1>8 DEF Waited, Enter, Handling
    <3> QED
      BY <1>0, <1>a, <2>1, <3>2, <3>3
  <2> QED
    BY <2>2
<1>9. ASSUME NEW r \in Requests, Dispatch(r) PROVE GaugeOK'
  <2>1. CASE r \in S3
    <3>1. UNCHANGED gauge
      BY <1>9, <2>1 DEF Dispatch
    <3>2. \A p \in Procs : Waited(p)' = Waited(p)
      BY <1>9, <2>1, WaitedSteps
    <3> QED
      BY <1>1, <3>1, <3>2
  <2>2. CASE r \notin S3
    <3>1. gauge' = [gauge EXCEPT ![at[r]] = @ + 1]
      BY <1>9, <2>2 DEF Dispatch
    <3>2. ASSUME NEW p \in Procs, p # at[r]
          PROVE  IsFiniteSet(Waited(p)') /\ Cardinality(Waited(p)') <= gauge'[p]
      <4>1. Waited(p)' = Waited(p)
        BY <1>9, <3>2, WaitedSteps
      <4> QED
        BY <1>0, <3>1, <3>2, <4>1
    <3>3. ASSUME NEW p \in Procs, p = at[r]
          PROVE  IsFiniteSet(Waited(p)') /\ Cardinality(Waited(p)') <= gauge'[p]
      <4>1. r \notin Waited(p) /\ Waited(p)' = Waited(p) \cup {r}
        BY <1>9, <2>2, <3>3, WaitedSteps
      <4>2. /\ IsFiniteSet(Waited(p)')
            /\ Cardinality(Waited(p)') = Cardinality(Waited(p)) + 1
        BY <1>0, <4>1, FS_AddElement
      <4> QED
        BY <1>0, <1>a, <3>1, <3>3, <4>2
    <3> QED
      BY <3>2, <3>3
  <2> QED
    BY <2>1, <2>2
<1>10. ASSUME NEW p \in Procs, Look(p) PROVE GaugeOK'
  BY <1>1, <1>10, WaitedSteps DEF Look, requestVars
<1>11. ASSUME UNCHANGED vars PROVE GaugeOK'
  BY <1>1, <1>11, WaitedSteps DEF vars, procVars, requestVars
<1> QED
  BY ONLY NextCases, [Next]_vars, <1>2, <1>4, <1>5, <1>6, <1>7, <1>8, <1>9, <1>10, <1>11
     DEF Advance, Quiet, Traffic

\* What the drain found at zero has only late comers.
LEMMA DrainStep ==
    ASSUME Inv, [Next]_vars
    PROVE  DrainOK'
<1> USE DEF DrainOK, DrainOver
<1>0. /\ DrainOK /\ TypeOK /\ phase \in [Procs -> Phases] /\ gauge \in [Procs -> Nat]
      /\ deal = "none" <=> partner = NoProc
      /\ \A p \in Procs : phase[p] = "stopping" => deal = "none"
      /\ NoProc \notin Procs
  BY ProcsOrdered DEF Inv, TypeOK, RolesOK
<1>1. ASSUME \A p \in Procs : DrainOver(p)' => DrainOver(p),
             \A p \in Procs : Waited(p)' \subseteq Waited(p), UNCHANGED missed
      PROVE  DrainOK'
  BY <1>0, <1>1
<1>2. ASSUME NEW p \in Procs,
             \/ Spawn(p) \/ Drain(p) \/ Seal(p) \/ TakeLock(p) \/ InsertMissing(p)
             \/ Announce(p) \/ Commit(p) \/ ControlFails(p)
      PROVE  DrainOK'
  <2>1. \A q \in Procs : Waited(q)' = Waited(q)
    BY <1>2, QuietStays, WaitedSteps DEF Quiet
  <2>2. UNCHANGED missed
    BY <1>2 DEF Spawn, Drain, Seal, TakeLock, InsertMissing, Announce, Commit, ControlFails,
       historyVars
  <2>3. ASSUME NEW q \in Procs, DrainOver(q)' PROVE DrainOver(q)
    <3>1. CASE Spawn(p) \/ Drain(p) \/ Seal(p)
      BY <1>0, <2>3, <3>1 DEF Spawn, Drain, Seal
    <3>2. CASE TakeLock(p) \/ InsertMissing(p) \/ Announce(p)
      BY <1>0, <2>3, <3>2 DEF TakeLock, InsertMissing, Announce
    <3>3. CASE Commit(p)
      BY <1>0, <2>3, <3>3 DEF Commit
    <3>4. CASE ControlFails(p)
      BY <1>0, <2>3, <3>4 DEF ControlFails
    <3> QED
      BY <1>2, <3>1, <3>2, <3>3, <3>4
  <2> QED
    BY <1>1, <2>1, <2>2, <2>3
<1>3. ASSUME NEW p \in Procs, Drained(p) PROVE DrainOK'
  <2>1. /\ partner = p /\ deal = "draining" /\ UNCHANGED <<phase, partner>>
        /\ missed' = IF gauge[p] > 0
                     THEN {r \in Requests \ S3 : at[r] = p /\ pc[r] \in Handling} ELSE {}
    BY <1>3 DEF Drained
  <2>2. \A q \in Procs : Waited(q)' = Waited(q)
    BY <1>3, QuietStays, WaitedSteps DEF Quiet
  <2>3. ASSUME NEW q \in Procs, DrainOver(q)' PROVE q = p
    BY <1>0, <2>1, <2>3
  <2>4. CASE gauge[p] > 0
    BY <2>1, <2>2, <2>3, <2>4 DEF Waited
  <2>5. CASE ~(gauge[p] > 0)
    <3>1. Cardinality(Waited(p)) <= 0 /\ IsFiniteSet(Waited(p))
      BY <1>0, <2>5 DEF Inv, GaugeOK
    <3>2. Cardinality(Waited(p)) = 0
      BY <3>1, FS_CardinalityType
    <3>3. Waited(p) = {}
      BY <3>1, <3>2, FS_EmptySet
    <3> QED
      BY <2>2, <2>3, <3>3
  <2> QED
    BY <2>4, <2>5
<1>4. ASSUME NEW p \in Procs, Abort(p) PROVE DrainOK'
  <2>1. GiveUp(p) /\ partner = p /\ partner' = NoProc
    BY <1>4 DEF Abort, GiveUp
  <2>2. PICK ended \in SUBSET Procs :
          phase' = [q \in Procs |-> IF q \in ended THEN "gone" ELSE phase[q]]
    BY <2>1, GiveUpDoes
  <2> QED
    BY <1>0, <2>1, <2>2
<1>5. ASSUME NEW p \in Procs, Exit(p) PROVE DrainOK'
  <2>1. /\ phase' = [phase EXCEPT ![p] = "gone"] /\ UNCHANGED <<deal, partner, at>> /\ End({p})
        /\ missed' = IF phase[p] = "stopping" THEN {} ELSE missed
        /\ phase[p] \in {"stopping", "failing"}
    BY <1>5 DEF Exit
  <2>2. \A q \in Procs : Waited(q)' = IF q = p THEN {} ELSE Waited(q)
    BY <2>1, WaitedSteps
  <2>3. CASE phase[p] = "stopping"
    <3>1. \A q \in Procs : phase[q] = "stopping" => q = p
      BY <2>3 DEF Inv, RolesOK
    <3> QED
      BY <1>0, <2>1, <2>2, <2>3, <3>1
  <2>4. CASE phase[p] = "failing"
    BY <1>0, <1>1, <2>1, <2>2, <2>4
  <2> QED
    BY <2>1, <2>3, <2>4
<1>6. ASSUME NEW r \in Requests, Connect(r) \/ Store(r) \/ \E q \in Procs : Accept(q, r)
      PROVE  DrainOK'
  <2>1. UNCHANGED <<phase, deal, partner, missed>>
    BY <1>6 DEF Connect, Store, Accept, RequestStep, historyVars
  <2>2. \A p \in Procs : Waited(p)' = Waited(p)
    BY <1>6, WaitedSteps
  <2> QED
    BY <1>1, <2>1, <2>2
<1>7. ASSUME NEW r \in Requests, Enter(r) \/ Abandon(r) PROVE DrainOK'
  <2>1. UNCHANGED <<phase, deal, partner>> /\ missed' = missed \ {r} /\ pc'[r] \notin Handling
        /\ UNCHANGED at
    BY <1>0, <1>7 DEF Enter, Abandon, RequestStep, Goto, Handling, TypeOK
  <2>2. \A p \in Procs : Waited(p)' \subseteq Waited(p)
    BY <1>7, WaitedSteps
  <2>3. \A p \in Procs : r \notin Waited(p)'
    BY <2>1 DEF Waited
  <2> QED
    BY <1>0, <2>1, <2>2, <2>3
<1>8. ASSUME NEW r \in Requests, Dispatch(r) PROVE DrainOK'
  <2>1. /\ UNCHANGED <<phase, deal, partner>> /\ missed \subseteq missed' /\ phase[at[r]] = "ready"
        /\ r \notin S3 /\ at[r] = partner /\ deal # "draining" => r \in missed'
    BY <1>8 DEF Dispatch, RequestStep
  <2>2. ASSUME NEW p \in Procs, DrainOver(p) PROVE Waited(p)' \subseteq missed'
    <3>1. CASE p = at[r] /\ r \notin S3
      <4>1. Waited(p)' = Waited(p) \cup {r}
        BY <1>8, <3>1, WaitedSteps
      <4>2. r \in missed'
        BY <2>1, <2>2, <3>1
      <4> QED
        BY <1>0, <2>1, <2>2, <4>1, <4>2
    <3>2. CASE p # at[r] \/ r \in S3
      <4>1. Waited(p)' = Waited(p)
        BY <1>8, <3>2, WaitedSteps
      <4> QED
        BY <1>0, <2>1, <2>2, <4>1
    <3> QED
      BY <3>1, <3>2
  <2> QED
    BY <2>1, <2>2
<1>9. ASSUME NEW p \in Procs, Look(p) PROVE DrainOK'
  BY <1>1, <1>9, WaitedSteps DEF Look, requestVars, historyVars
<1>10. ASSUME UNCHANGED vars PROVE DrainOK'
  BY <1>1, <1>10, WaitedSteps DEF vars, procVars, requestVars, historyVars
<1> QED
  BY ONLY NextCases, [Next]_vars, <1>2, <1>3, <1>4, <1>5, <1>6, <1>7, <1>8, <1>9, <1>10
     DEF Advance, Traffic

LEMMA LateStep ==
    ASSUME Inv, [Next]_vars
    PROVE  LateOK'
<1> DEFINE After == {"locked", "merged", "ready"}
<1> USE DEF LateOK
<1>0. /\ LateOK /\ PlaceOK /\ TypeOK /\ phase \in [Procs -> Phases] /\ DOMAIN pc = Requests
      /\ at \in [Requests -> Procs \cup {NoProc}] /\ late \subseteq Requests
      /\ NoProc \notin Procs
  BY ProcsOrdered DEF Inv, TypeOK
<1>1. ASSUME UNCHANGED at, late \subseteq late', lock' \in {lock, NoProc},
             \A q \in Procs : phase'[q] \in After => phase[q] \in After,
             \A r \in Requests : pc'[r] \in Handling => pc[r] \in Handling
      PROVE  LateOK'
  BY <1>0, <1>1
<1>2. ASSUME NEW p \in Procs,
             \/ Spawn(p) \/ Drain(p) \/ Drained(p) \/ Seal(p) \/ InsertMissing(p)
             \/ Announce(p) \/ Commit(p) \/ ControlFails(p)
      PROVE  LateOK'
  <2>1. UNCHANGED <<pc, at>>
    BY <1>2, QuietStays DEF Quiet
  <2>2. UNCHANGED late
    BY <1>2 DEF Spawn, Drain, Drained, Seal, InsertMissing, Announce, Commit, ControlFails,
       historyVars
  <2>3. lock' \in {lock, NoProc}
    BY <1>2 DEF Spawn, Drain, Drained, Seal, InsertMissing, Announce, Commit, ControlFails
  <2>4. ASSUME NEW q \in Procs, phase'[q] \in After PROVE phase[q] \in After
    <3>1. CASE Spawn(p) \/ Drain(p) \/ Drained(p) \/ Seal(p)
      BY <1>0, <2>4, <3>1 DEF Spawn, Drain, Drained, Seal
    <3>2. CASE InsertMissing(p) \/ Announce(p) \/ Commit(p)
      BY <1>0, <2>4, <3>2 DEF InsertMissing, Announce, Commit
    <3>3. CASE ControlFails(p)
      BY <1>0, <2>4, <3>3 DEF ControlFails
    <3> QED
      BY <1>2, <3>1, <3>2, <3>3
  <2> QED
    BY <1>1, <2>1, <2>2, <2>3, <2>4
<1>3. ASSUME NEW p \in Procs, Abort(p) PROVE LateOK'
  <2>1. GiveUp(p) /\ UNCHANGED at
    BY <1>3 DEF Abort, GiveUp
  <2>2. PICK ended \in SUBSET Procs :
          /\ End(ended)
          /\ phase' = [q \in Procs |-> IF q \in ended THEN "gone" ELSE phase[q]]
          /\ \A q \in Procs : phase'[q] \notin {"waiting", "locked", "merged"}
          /\ \/ UNCHANGED <<lock, late>>
             \/ /\ lock' \in {p, NoProc} /\ \A q \in Procs : phase'[q] = "ready" => q < p \/ q = p
                /\ late' = {r \in late : at[r] # p}
                              \cup {r \in Requests : at[r] \in Procs /\ at[r] > p}
    BY <2>1, GiveUpDoes
  <2>3. \A r \in Requests : pc'[r] \in Handling => pc[r] \in Handling
    BY <1>0, <2>2, EndDoes
  <2>4. \A q \in Procs : phase'[q] \in After => phase'[q] = "ready" /\ phase[q] = "ready"
    BY <2>2
  <2>5. CASE UNCHANGED <<lock, late>>
    BY <1>1, <2>1, <2>3, <2>4, <2>5
  <2>6. CASE /\ lock' \in {p, NoProc} /\ \A q \in Procs : phase'[q] = "ready" => q < p \/ q = p
             /\ late' = {r \in late : at[r] # p}
                           \cup {r \in Requests : at[r] \in Procs /\ at[r] > p}
    <3>1. ASSUME NEW r \in Requests, NEW q \in Procs, pc'[r] \in Handling,
                 at'[r] \in Procs, at'[r] < q, phase'[q] \in After
          PROVE  r \in late'
      <4>1. at[r] < q /\ at[r] \in Procs /\ phase[q] = "ready" /\ (q < p \/ q = p)
        BY <2>1, <2>4, <2>6, <3>1
      <4>2. at[r] # p
        BY <4>1, ProcsOrdered
      <4>3. r \in late
        BY <1>0, <2>3, <3>1, <4>1
      <4> QED
        BY <2>6, <4>2, <4>3
    <3>2. ASSUME NEW r \in Requests, lock' \in Procs, at'[r] \in Procs, lock' < at'[r]
          PROVE  r \in late'
      BY <1>0, <2>1, <2>6, <3>2, ProcsOrdered
    <3> QED
      BY <3>1, <3>2
  <2> QED
    BY <2>2, <2>5, <2>6
<1>4. ASSUME NEW p \in Procs, TakeLock(p) PROVE LateOK'
  <2>1. /\ late' = late \cup {r \in Requests : pc[r] \in Handling} /\ UNCHANGED <<pc, at>>
        /\ lock' = p /\ phase[p] = "waiting"
    BY <1>4 DEF TakeLock, requestVars
  <2>2. \A q \in Procs : phase[q] # "absent" => ~(p < q)
    BY <2>1, ProcsOrdered DEF Inv, RolesOK, Successor
  <2>3. \A r \in Requests : at[r] \in Procs => ~(p < at[r])
    BY <1>0, <2>2 DEF PlaceOK
  <2> QED
    BY <2>1, <2>3
<1>5. ASSUME NEW p \in Procs, Exit(p) PROVE LateOK'
  <2>1. /\ phase' = [phase EXCEPT ![p] = "gone"] /\ UNCHANGED <<at, lock, late>> /\ End({p})
    BY <1>5 DEF Exit
  <2>2. \A r \in Requests : pc'[r] \in Handling => pc[r] \in Handling
    BY <1>0, <2>1, EndDoes
  <2> QED
    BY <1>0, <1>1, <2>1, <2>2
<1>6. ASSUME NEW r \in Requests, Connect(r) \/ Store(r) \/ Enter(r) \/ Abandon(r)
      PROVE  LateOK'
  <2>1. UNCHANGED <<phase, lock, at, late>>
    BY <1>6 DEF Connect, Store, Enter, Abandon, RequestStep, historyVars
  <2>2. \A q \in Requests : pc'[q] \in Handling => pc[q] \in Handling
    BY <1>0, <1>6 DEF Connect, Store, Enter, Abandon, Goto, Handling
  <2> QED
    BY <1>1, <2>1, <2>2
<1>7. ASSUME NEW r \in Requests, NEW p \in Procs, Accept(p, r) PROVE LateOK'
  <2>1. /\ pc' = [pc EXCEPT ![r] = "open"] /\ at' = [at EXCEPT ![r] = p]
        /\ phase[p] = "ready" /\ UNCHANGED <<phase, lock, late>>
    BY <1>7 DEF Accept, Goto, RequestStep
  <2>2. lock \in Procs => ~(lock < p)
    BY <2>1, ProcsOrdered DEF Inv, LockOK
  <2> QED
    BY <1>0, <2>1, <2>2 DEF Handling
<1>8. ASSUME NEW r \in Requests, Dispatch(r) PROVE LateOK'
  <2>1. /\ phase[at[r]] = "ready" /\ pc' = [pc EXCEPT ![r] = "handling"] /\ late \subseteq late'
        /\ ~(Incumbent(at[r]) /\ lock \in {at[r], NoProc}) => r \in late'
        /\ UNCHANGED <<phase, lock, at>>
    BY <1>8 DEF Dispatch, Goto, RequestStep
  <2>2. ASSUME NEW p \in Procs, at[r] \in Procs, at[r] < p, phase[p] \in After
        PROVE  r \in late'
    <3>1. CASE phase[p] = "ready"
      BY <2>1, <2>2, <3>1, ProcsOrdered DEF Incumbent
    <3>2. CASE phase[p] \in {"locked", "merged"}
      <4>1. lock = p
        BY <3>2 DEF Inv, RolesOK
      <4> QED
        BY <2>1, <2>2, <4>1, ProcsOrdered
    <3> QED
      BY <2>2, <3>1, <3>2
  <2> QED
    BY <1>0, <2>1, <2>2
<1>9. ASSUME NEW p \in Procs, Look(p) PROVE LateOK'
  BY <1>1, <1>9 DEF Look, requestVars, historyVars
<1>10. ASSUME UNCHANGED vars PROVE LateOK'
  BY <1>1, <1>10 DEF vars, procVars, requestVars, historyVars
<1> QED
  BY ONLY NextCases, [Next]_vars, <1>2, <1>3, <1>4, <1>5, <1>6, <1>7, <1>8, <1>9, <1>10
     DEF Advance, Traffic

-----------------------------------------------------------------------------
\* The steps of an attempt change no object, and the index only of a process that does
\* not serve, or will not.
LEMMA IndexAdvance ==
    ASSUME Inv, NEW p \in Procs, Advance(p)
    PROVE  IndexOK'
<1> USE DEF IndexOK
<1>0. /\ IndexOK /\ TypeOK /\ phase \in [Procs -> Phases]
      /\ at \in [Requests -> Procs \cup {NoProc}] /\ listed \in [Procs -> SUBSET Requests]
      /\ NoProc \notin Procs
  BY ProcsOrdered DEF Inv, TypeOK
<1>1. ASSUME UNCHANGED <<at, files>>, late \subseteq late',
             \A r \in Requests : pc'[r] \in {"ok", "stored"} => pc'[r] = pc[r],
             \A q \in Procs : /\ phase'[q] = "ready" => phase[q] = "ready" /\ listed'[q] = listed[q]
                              /\ phase'[q] = "merged" => phase[q] = "merged" /\ listed'[q] = listed[q]
      PROVE  IndexOK'
  BY <1>0, <1>1 DEF Agree
<1>2. ASSUME Spawn(p) \/ Drain(p) \/ Drained(p) \/ Seal(p) \/ Commit(p) PROVE IndexOK'
  <2>1. UNCHANGED <<pc, at, files>>
    BY <1>2, QuietStays DEF Quiet
  <2>2. UNCHANGED <<late, listed>>
    BY <1>2 DEF Spawn, Drain, Drained, Seal, Commit, historyVars
  <2>3. ASSUME NEW q \in Procs, phase'[q] \in {"ready", "merged"} PROVE phase'[q] = phase[q]
    BY <1>0, <1>2, <2>3 DEF Spawn, Drain, Drained, Seal, Commit
  <2> QED
    BY <1>1, <2>1, <2>2, <2>3
<1>3. ASSUME ControlFails(p) PROVE IndexOK'
  <2>1. UNCHANGED <<pc, at, files, late, listed>>
    BY <1>3 DEF ControlFails, requestVars, historyVars
  <2>2. ASSUME NEW q \in Procs, phase'[q] \in {"ready", "merged"} PROVE phase'[q] = phase[q]
    BY <1>0, <1>3, <2>2 DEF ControlFails
  <2> QED
    BY <1>1, <2>1, <2>2
<1>4. ASSUME TakeLock(p) PROVE IndexOK'
  <2>1. /\ phase[p] = "waiting" /\ phase' = [phase EXCEPT ![p] = "locked"]
        /\ UNCHANGED <<pc, at, files>> /\ late \subseteq late'
        /\ \E x : listed' = [listed EXCEPT ![p] = x]
    BY <1>4 DEF TakeLock, requestVars
  <2> QED
    BY <1>0, <1>1, <2>1
<1>5. ASSUME InsertMissing(p) PROVE IndexOK'
  <2>1. /\ phase[p] = "locked" /\ phase' = [phase EXCEPT ![p] = "merged"]
        /\ UNCHANGED <<pc, at, files, late>>
        /\ listed' = [listed EXCEPT ![p] = @ \cup files]
    BY <1>5 DEF InsertMissing, requestVars, historyVars
  <2> QED
    BY <1>0, <2>1 DEF Agree
<1>6. ASSUME Announce(p) PROVE IndexOK'
  <2>1. /\ phase[p] = "merged" /\ phase' = [phase EXCEPT ![p] = "ready"]
        /\ UNCHANGED <<pc, at, files, late>>
        /\ listed' = [listed EXCEPT ![p] = @ \cap files]
    BY <1>6 DEF Announce, requestVars, historyVars
  <2>2. \A r \in Requests : at[r] # p
    BY <1>0, <2>1 DEF Inv, PlaceOK
  <2>3. ASSUME NEW r \in Requests, r \notin late PROVE Agree(p, r)'
    BY <1>0, <2>1, <2>3 DEF Agree
  <2>4. ASSUME NEW q \in Procs, q # p, NEW r \in Requests PROVE Agree(q, r)' <=> Agree(q, r)
    BY <1>0, <2>1, <2>4 DEF Agree
  <2>5. ASSUME NEW q \in Procs, q # p PROVE phase'[q] = phase[q] /\ listed'[q] = listed[q]
    BY <1>0, <2>1, <2>5
  <2> QED
    BY <1>0, <2>1, <2>2, <2>3, <2>4, <2>5
<1>7. ASSUME Exit(p) PROVE IndexOK'
  <2>1. /\ phase' = [phase EXCEPT ![p] = "gone"] /\ UNCHANGED <<at, files, late>> /\ End({p})
    BY <1>7 DEF Exit
  <2>2. /\ \A r \in Requests : pc'[r] \in {"ok", "stored"} => pc'[r] = pc[r]
        /\ \A q \in Procs : q # p => listed'[q] = listed[q]
    BY <1>0, <2>1, EndDoes DEF Handling
  <2> QED
    BY <1>0, <1>1, <2>1, <2>2
<1>8. ASSUME Abort(p) PROVE IndexOK'
  <2>1. GiveUp(p) /\ UNCHANGED <<at, files>>
    BY <1>8 DEF Abort, GiveUp
  <2>2. PICK ended \in SUBSET Procs :
          /\ End(ended)
          /\ phase' = [q \in Procs |-> IF q \in ended THEN "gone" ELSE phase[q]]
          /\ \A q \in Procs : phase'[q] \notin {"waiting", "locked", "merged"}
          /\ \/ UNCHANGED <<lock, late>>
             \/ /\ \A q \in Procs : phase'[q] = "ready" => q < p \/ q = p
                /\ late' = {r \in late : at[r] # p}
                              \cup {r \in Requests : at[r] \in Procs /\ at[r] > p}
    BY <2>1, GiveUpDoes
  <2>3. /\ \A r \in Requests : pc'[r] \in {"ok", "stored"} => pc'[r] = pc[r]
        /\ \A q \in Procs : q \notin ended => listed'[q] = listed[q]
    BY <1>0, <2>2, EndDoes DEF Handling
  <2>4. \A q \in Procs : phase'[q] = "ready" => phase[q] = "ready" /\ listed'[q] = listed[q]
    BY <2>2, <2>3
  <2>5. CASE UNCHANGED late
    BY <1>1, <2>1, <2>2, <2>3, <2>4, <2>5
  <2>6. CASE /\ \A q \in Procs : phase'[q] = "ready" => q < p \/ q = p
             /\ late' = {r \in late : at[r] # p}
                           \cup {r \in Requests : at[r] \in Procs /\ at[r] > p}
    <3>1. ASSUME NEW q \in Procs, NEW r \in Requests, phase'[q] = "ready",
                 at'[r] = NoProc \/ at'[r] < q
          PROVE  r \in late' \/ Agree(q, r)'
      <4>1. at[r] # p
        BY <1>0, <2>1, <2>6, <3>1, ProcsOrdered
      <4>2. r \in late \/ Agree(q, r)
        BY <1>0, <2>1, <2>4, <3>1
      <4> QED
        BY <2>1, <2>4, <2>6, <3>1, <4>1, <4>2 DEF Agree
    <3>2. ASSUME NEW q \in Procs, NEW r \in Requests, phase'[q] = "ready", at'[r] = q, pc'[r] = "ok"
          PROVE  Agree(q, r)'
      BY <1>0, <2>1, <2>3, <2>4, <3>2 DEF Agree
    <3>3. \A r \in Requests : pc'[r] = "stored" => (r \in files' <=> r \in Makers)
      BY <1>0, <2>1, <2>3
    <3> QED
      BY <2>2, <3>1, <3>2, <3>3
  <2> QED
    BY <2>2, <2>5, <2>6
<1> QED
  BY <1>2, <1>3, <1>4, <1>5, <1>6, <1>7, <1>8 DEF Advance

\* A handler that is not late enters what it stored where it is looked for.
LEMMA IndexTraffic ==
    ASSUME Inv, Traffic
    PROVE  IndexOK'
<1> USE DEF IndexOK
<1>0. /\ IndexOK /\ DOMAIN pc = Requests /\ at \in [Requests -> Procs \cup {NoProc}]
      /\ listed \in [Procs -> SUBSET Requests] /\ NoProc \notin Procs /\ late \subseteq Requests
  BY ProcsOrdered DEF Inv, TypeOK
<1>1. UNCHANGED phase
  BY TrafficStays
<1>2. ASSUME NEW r \in Requests, NEW x, pc' = [pc EXCEPT ![r] = x], x \notin {"ok", "stored"},
             UNCHANGED <<files, listed, at>>, late \subseteq late'
      PROVE  IndexOK'
  BY <1>0, <1>1, <1>2 DEF Agree
<1>3. ASSUME NEW r \in Requests, Connect(r) \/ Dispatch(r) \/ Abandon(r) PROVE IndexOK'
  <2>1. /\ pc' = [pc EXCEPT ![r] = "queued"] \/ pc' = [pc EXCEPT ![r] = "handling"]
              \/ pc' = [pc EXCEPT ![r] = "lost"]
        /\ UNCHANGED <<files, listed, at>> /\ late \subseteq late'
    BY <1>3 DEF Connect, Dispatch, Abandon, Goto, historyVars
  <2> QED
    BY <1>2, <2>1
<1>4. ASSUME NEW p \in Procs, NEW r \in Requests, Accept(p, r) PROVE IndexOK'
  <2>1. /\ pc' = [pc EXCEPT ![r] = "open"] /\ at' = [at EXCEPT ![r] = p]
        /\ UNCHANGED <<files, listed, late>> /\ pc[r] = "queued"
    BY <1>4 DEF Accept, Goto
  <2>2. at[r] = NoProc
    BY <2>1 DEF Inv, PlaceOK
  <2> QED
    BY <1>0, <1>1, <2>1, <2>2 DEF Agree
<1>5. ASSUME NEW r \in Requests, Store(r) PROVE IndexOK'
  <2>1. /\ pc' = [pc EXCEPT ![r] = "stored"] /\ pc[r] = "handling"
        /\ files' = IF r \in Makers THEN files \cup {r} ELSE files \ {r}
        /\ UNCHANGED <<at, listed, late>>
    BY <1>5 DEF Store, Goto, historyVars
  <2>2. at[r] \in Procs /\ phase[at[r]] \in {"ready", "stopping", "failing"}
    BY <1>0, <2>1 DEF Inv, PlaceOK, Handling
  <2>3. ASSUME NEW p \in Procs, phase[p] = "merged" PROVE r \in late
    <3>1. at[r] < p
      BY <2>2, <2>3, ProcsOrdered DEF Inv, RolesOK, Successor
    <3> QED
      BY <2>1, <2>2, <2>3, <3>1 DEF Inv, LateOK, Handling
  <2>4. ASSUME NEW p \in Procs, phase[p] = "ready", at[r] < p PROVE r \in late
    BY <2>1, <2>2, <2>4 DEF Inv, LateOK, Handling
  <2>5. ASSUME NEW p \in Procs, NEW o \in Requests, o # r PROVE Agree(p, o)' <=> Agree(p, o)
    BY <2>1, <2>5 DEF Agree
  <2> QED
    BY <1>0, <1>1, <2>1, <2>2, <2>3, <2>4, <2>5
<1>6. ASSUME NEW r \in Requests, Enter(r) PROVE IndexOK'
  <2>1. /\ pc' = [pc EXCEPT ![r] = "ok"] /\ pc[r] = "stored" /\ UNCHANGED <<at, files, late>>
        /\ listed' = [listed EXCEPT ![at[r]] = IF r \in Makers THEN @ \cup {r} ELSE @ \ {r}]
    BY <1>6 DEF Enter, Goto, historyVars
  <2>2. at[r] \in Procs /\ phase[at[r]] \in {"ready", "stopping", "failing"}
    BY <1>0, <2>1 DEF Inv, PlaceOK, Handling
  <2>3. Agree(at[r], r)'
    BY <1>0, <2>1, <2>2 DEF Agree
  <2>4. ASSUME NEW p \in Procs, NEW o \in Requests, p # at[r] \/ o # r
        PROVE  o \in listed'[p] <=> o \in listed[p]
    BY <1>0, <2>1, <2>2, <2>4
  <2>5. ASSUME NEW p \in Procs, NEW o \in Requests, p # at[r] \/ o # r
        PROVE  Agree(p, o)' <=> Agree(p, o)
    BY <2>1, <2>4, <2>5 DEF Agree
  <2>6. \A p \in Procs : at[r] < p => p # at[r]
    BY <2>2, ProcsOrdered
  <2> QED
    BY <1>0, <1>1, <2>1, <2>2, <2>3, <2>4, <2>5, <2>6
<1>7. ASSUME NEW p \in Procs, Look(p) PROVE IndexOK'
  BY <1>0, <1>1, <1>7 DEF Look, requestVars, historyVars, Agree
<1> QED
  BY <1>3, <1>4, <1>5, <1>6, <1>7 DEF Traffic

LEMMA IndexStep ==
    ASSUME Inv, [Next]_vars
    PROVE  IndexOK'
<1>1. CASE UNCHANGED vars
  BY <1>1 DEF vars, procVars, requestVars, historyVars, Inv, IndexOK, Agree
<1> QED
  BY <1>1, NextCases, IndexAdvance, IndexTraffic

-----------------------------------------------------------------------------
\* All of it, in every reachable state.
LEMMA Invariant == Spec => []Inv
<1>1. Init => Inv
  BY InitInv
<1>2. Inv /\ [Next]_vars => Inv'
  <2> SUFFICES ASSUME Inv, [Next]_vars PROVE Inv'
    OBVIOUS
  <2> QED
    BY TypeStep, RolesStep, LockStep, GateStep, PlaceStep, GaugeStep, DrainStep, LateStep,
       IndexStep DEF Inv
<1> QED
  BY <1>1, <1>2, PTL DEF Spec

\* Every variable keeps its type; http_connections_active never goes below zero.
THEOREM TypeCorrect == Spec => []TypeOK
<1>1. Inv => TypeOK
  BY DEF Inv
<1> QED
  BY <1>1, Invariant, PTL

\* One connection at most slips through a closed gate (PausableListener::accept).
THEOREM OneSlipsThrough == Spec => []OneSlips
<1>1. Inv => OneSlips
  BY DEF Inv, GateOK, OneSlips
<1> QED
  BY <1>1, Invariant, PTL

\* The process in charge lists what is stored, after any number of swaps, aborts, errors
\* and cold starts, but for what ran beside it in another process (reconcile, put_object,
\* delete_object).
THEOREM ChargeListsStored == Spec => []ListedAsStored
<1>1. Inv => ListedAsStored
  <2> SUFFICES ASSUME Inv, NEW p \in Procs, NEW r \in Requests,
                      phase[p] = "ready", p = lock, r \notin late, pc[r] = "ok" \/ at[r] # p
               PROVE  Agree(p, r)
    BY DEF ListedAsStored, Serving, Agree
  <2>1. at[r] \in Procs \cup {NoProc}
    BY DEF Inv, TypeOK
  <2>2. CASE at[r] = p
    BY <2>2 DEF Inv, IndexOK
  <2>3. CASE at[r] = NoProc \/ at[r] < p
    BY <2>3 DEF Inv, IndexOK
  <2>4. ~(at[r] \in Procs /\ p < at[r])
    BY DEF Inv, LateOK
  <2> QED
    BY <2>1, <2>2, <2>3, <2>4, ProcsOrdered
<1> QED
  BY <1>1, Invariant, PTL

\* The exit that follows a Commit (wait_for_commit_then_wind_down, process::exit) cuts off
\* only requests that the drain could not wait for.
THEOREM ExitCutsOnlyUnseen == Spec => CutOnlyUnseen
<1> DEFINE Allowed == \A r \in Requests :
          /\ pc[r] # "cut" /\ pc'[r] = "cut"
          /\ \E p \in Procs : at[r] = p /\ phase[p] = "stopping"
          => r \in missed \cup S3
<1>1. Inv /\ [Next]_vars => Allowed
  <2> SUFFICES ASSUME Inv, [Next]_vars, NEW r \in Requests, pc[r] # "cut", pc'[r] = "cut",
                      NEW s \in Procs, at[r] = s, phase[s] = "stopping"
               PROVE  r \in missed \cup S3
    OBVIOUS
  <2>0. DOMAIN pc = Requests /\ TypeOK
    BY DEF Inv, TypeOK
  <2>1. ASSUME NEW p \in Procs, Quiet(p) \/ Look(p) PROVE FALSE
    BY <2>1, QuietStays DEF Look, requestVars
  <2>2. ASSUME NEW q \in Requests,
               \/ Connect(q) \/ Dispatch(q) \/ Store(q) \/ Enter(q) \/ Abandon(q)
               \/ \E p \in Procs : Accept(p, q)
        PROVE  FALSE
    BY <2>0, <2>2 DEF Connect, Dispatch, Store, Enter, Abandon, Accept, Goto
  <2>3. ASSUME NEW p \in Procs, Abort(p) PROVE FALSE
    <3>1. PICK ended \in SUBSET Procs :
            End(ended) /\ \A q \in ended : phase[q] \in {"waiting", "locked", "merged", "ready"}
      BY <2>3, GiveUpDoes DEF Abort
    <3>2. s \in ended
      BY <2>0, <3>1, EndDoes
    <3> QED
      BY <3>1, <3>2
  <2>4. ~UNCHANGED vars
    BY DEF vars, requestVars
  <2>5. PICK p \in Procs : Exit(p)
    BY ONLY NextCases, [Next]_vars, <2>1, <2>2, <2>3, <2>4 DEF Advance, Quiet, Traffic
  <2>6. End({p})
    BY <2>5 DEF Exit
  <2>7. s = p /\ pc[r] \in Handling
    BY <2>0, <2>6, EndDoes
  <2> QED
    BY <2>7 DEF Inv, DrainOK, DrainOver, Waited
<1>2. Allowed => [Allowed]_vars
  OBVIOUS
<1> HIDE DEF Allowed
<1>3. Spec => [][Allowed]_vars
  BY <1>1, Invariant, PTL DEF Spec
<1> QED
  BY <1>3, PTL DEF CutOnlyUnseen, Allowed
================================================================================
