------------------------------- MODULE Handoff -------------------------------
(***************************************************************************)
(* A binary swap: the incumbent drains, seals and exits, its successor     *)
(* takes the lock of the data directory, reconciles its own index with the *)
(* files and serves from the listening socket that both have.  An attempt  *)
(* may be given up, and another process started for the next one.  A       *)
(* process whose control thread ends with an error leaves with no drain.   *)
(*                                                                         *)
(* The supervisor and the handoff library are external: what they do is    *)
(* taken from how serve() and ObjectsHandoff use them.  Each request makes *)
(* or removes an object of its own, over a connection of its own, which    *)
(* may be open for long before the request comes.                          *)
(***************************************************************************)
EXTENDS Naturals

CONSTANTS
    Requests,   \* the clients' requests
    Makers,     \* those that make their object; the others remove it
    S3,         \* those of the S3 surface, which do not pass through record_metrics
    MaxProcs,   \* bound: how many processes are ever started, numbered from 1
    Patient,    \* the processes whose exit waits for handlers: no TLS, DRAIN_TIMEOUT_SECS is 0
    Faulty,     \* bound: the processes whose control thread may end with an error
    NoProc      \* nobody

ASSUME BoundAssumption == MaxProcs \in Nat \ {0}
ASSUME MakersAssumption == Makers \subseteq Requests /\ S3 \subseteq Requests
ASSUME NoProcAssumption == NoProc \notin Nat

Procs == 1..MaxProcs

VARIABLES
    phase,      \* phase[p]: where a process is in serve()
    deal,       \* what the supervisor has come to in the attempt ...
    partner,    \* ... and the incumbent that it is made with
    lock,       \* who has the flock of the data directory
    closed,     \* closed[p]: its accept_closed
    gate,       \* gate[p]: where its PausableListener::accept is
    gauge,      \* gauge[p]: its http_connections_active
    pc, at,     \* each request, and the process its connection is with
    files,      \* the objects on disk
    listed,     \* listed[p]: the index as this process sees it
    late,       \* history: requests that ran beside the process in charge
    slipped,    \* history: how many connections were accepted since accept_closed was set
    missed      \* history: counted requests that the drain gave up on, or that came after it

procVars == <<phase, deal, partner, lock, closed, gate, gauge>>
requestVars == <<pc, at>>
historyVars == <<late, slipped, missed>>
vars == <<procVars, requestVars, files, listed, historyVars>>

Phases == {"absent", "waiting", "locked", "merged", "ready", "stopping", "failing", "gone"}
Deals == {"none", "draining", "drained", "sealed", "begun", "ready"}
Handling == {"handling", "stored"}

Serving(p) == phase[p] = "ready" /\ p = lock

TypeOK ==
    /\ phase \in [Procs -> Phases]
    /\ deal \in Deals /\ partner \in Procs \cup {NoProc}
    /\ lock \in Procs \cup {NoProc}
    /\ closed \in [Procs -> BOOLEAN]
    /\ gate \in [Procs -> {"check", "await"}]
    /\ gauge \in [Procs -> Nat]
    /\ pc \in [Requests -> {"new", "queued", "open", "ok", "lost", "cut"} \cup Handling]
    /\ at \in [Requests -> Procs \cup {NoProc}]
    /\ files \subseteq Requests /\ slipped \in Nat
    /\ listed \in [Procs -> SUBSET Requests]
    /\ late \subseteq Requests /\ missed \subseteq Requests

Init ==
    /\ phase = [p \in Procs |-> IF p = 1 THEN "ready" ELSE "absent"]
    /\ deal = "none" /\ partner = NoProc /\ lock = 1
    /\ closed = [p \in Procs |-> FALSE]
    /\ gate = [p \in Procs |-> "check"]
    /\ gauge = [p \in Procs |-> 0]
    /\ pc = [r \in Requests |-> "new"]
    /\ at = [r \in Requests |-> NoProc]
    /\ files = Requests \ Makers
    /\ listed = [p \in Procs |-> IF p = 1 THEN files ELSE {}]
    /\ late = {} /\ slipped = 0 /\ missed = {}

-----------------------------------------------------------------------------
\* The incumbent is the process that has the control socket.
Incumbent(p) == phase[p] = "ready" /\ \A q \in Procs : q > p => phase[q] # "ready"

\* The successor is the one being started.
Successor(p) == phase[p] \in {"waiting", "locked", "merged"}

\* A process and its connections end.
End(ps) ==
    /\ pc' = [r \in Requests |->
                IF at[r] \notin ps THEN pc[r]
                ELSE IF pc[r] \in Handling THEN "cut" ELSE IF pc[r] = "open" THEN "lost" ELSE pc[r]]
    /\ gate' = [p \in Procs |-> IF p \in ps THEN "check" ELSE gate[p]]
    /\ gauge' = [p \in Procs |-> IF p \in ps THEN 0 ELSE gauge[p]]
    /\ listed' = [p \in Procs |-> IF p \in ps THEN {} ELSE listed[p]]

\* Steps 1 and 2: fork and exec; the new process handshakes and waits for Begin.  With
\* nobody to succeed it is a cold start.
Spawn(p) ==
    /\ deal = "none" /\ phase[p] = "absent"
    /\ \A q \in Procs : q < p => phase[q] # "absent"
    /\ \A q \in Procs : ~Successor(q) /\ phase[q] # "stopping"
    /\ phase' = [phase EXCEPT ![p] = "waiting"]
    /\ UNCHANGED <<deal, partner, lock, closed, gate, gauge, requestVars, files, listed,
                   historyVars>>

\* PrepareHandoff: drain closes the gate first.
Drain(p) ==
    /\ deal = "none" /\ Incumbent(p) /\ \E q \in Procs : Successor(q)
    /\ deal' = "draining" /\ partner' = p
    /\ closed' = [closed EXCEPT ![p] = TRUE]
    /\ UNCHANGED <<phase, lock, gate, gauge, requestVars, files, listed, historyVars>>

\* Bug: the drain does not look at the gauge.
DrainedUnlooked(p) ==
    /\ deal = "draining" /\ partner = p /\ phase[p] = "ready"
    /\ deal' = "drained"
    /\ UNCHANGED <<phase, partner, lock, closed, gate, gauge, requestVars, files,
                   listed, historyVars>>

\* It then waits for the gauge to come down, or for its deadline.
Drained(p) ==
    /\ deal = "draining" /\ partner = p /\ phase[p] = "ready"
    /\ deal' = "drained"
    /\ missed' = IF gauge[p] > 0 THEN {r \in Requests \ S3 : at[r] = p /\ pc[r] \in Handling} ELSE {}
    /\ UNCHANGED <<phase, partner, lock, closed, gate, gauge, requestVars, files, listed,
                   late, slipped>>

\* SealRequest: the index is persisted, and the library lets go of the lock.
Seal(p) ==
    /\ deal = "drained" /\ partner = p /\ phase[p] = "ready"
    /\ deal' = "sealed" /\ lock' = NoProc
    /\ UNCHANGED <<phase, partner, closed, gate, gauge, requestVars, files, listed,
                   historyVars>>

\* The successor of the incumbent in the attempt that is being made with it.
Started(p) == {q \in Procs : Successor(q) \/ (deal = "ready" /\ phase[q] = "ready" /\ q > p)}

\* What the library does in an attempt that is given up, at any time until Commit: the
\* seal or the successor fails, or the supervisor goes away.  A successor that has not
\* told that it is Ready ends; one that has ends or goes on serving.  The incumbent
\* takes the lock back, or fails to.
GiveUp(p) ==
    /\ partner = p /\ deal' = "none" /\ partner' = NoProc
    /\ \E ended \in {Started(p), {q \in Started(p) : Successor(q)}} :
          /\ phase' = [q \in Procs |-> IF q \in ended THEN "gone" ELSE phase[q]]
          /\ End(ended)
          /\ IF lock \in ended \cup {p, NoProc}
             THEN /\ lock' \in (CASE phase[p] # "ready" -> {NoProc}
                                  [] phase[p] = "ready" /\ lock = p -> {p}
                                  [] OTHER -> {p, NoProc})
                  /\ late' = {r \in late : at[r] # p}
                                \cup {r \in Requests : at[r] \in Procs /\ at[r] > p}
             ELSE UNCHANGED <<lock, late>>
    /\ slipped' = 0 /\ missed' = {}
    /\ UNCHANGED <<at, files>>

\* Bug: resume_after_abort leaves the gate closed.
AbortStaysClosed(p) == GiveUp(p) /\ UNCHANGED closed

\* resume_after_abort opens the gate, and does nothing else.
Abort(p) == GiveUp(p) /\ closed' = [closed EXCEPT ![p] = FALSE]

-----------------------------------------------------------------------------
\* Begin, or a cold start with no other process left: the process takes the lock, and
\* opens the index with what the earlier ones left in it.
TakeLock(p) ==
    /\ phase[p] = "waiting" /\ lock = NoProc
    /\ \/ deal = "sealed" /\ deal' = "begun"
       \/ deal = "none" /\ (\A q \in Procs : phase[q] # "ready") /\ UNCHANGED deal
    /\ phase' = [phase EXCEPT ![p] = "locked"] /\ lock' = p
    /\ \E q \in Procs : listed' = [listed EXCEPT ![p] = listed[q]]
    /\ late' = late \cup {r \in Requests : pc[r] \in Handling}
    /\ UNCHANGED <<partner, closed, gate, gauge, requestVars, files, slipped, missed>>

\* Bug: the successor serves what the index held when it was opened.
InsertMissingSkipped(p) ==
    /\ phase[p] = "locked"
    /\ phase' = [phase EXCEPT ![p] = "merged"]
    /\ UNCHANGED <<deal, partner, lock, closed, gate, gauge, requestVars, files,
                   listed, historyVars>>

\* The two passes of the reconcile.  The collections come after them.
InsertMissing(p) ==
    /\ phase[p] = "locked"
    /\ phase' = [phase EXCEPT ![p] = "merged"]
    /\ listed' = [listed EXCEPT ![p] = @ \cup files]
    /\ UNCHANGED <<deal, partner, lock, closed, gate, gauge, requestVars, files,
                   historyVars>>

\* Pass 2, then announce_and_bind: Ready is sent, and serving begins.
Announce(p) ==
    /\ phase[p] = "merged"
    /\ phase' = [phase EXCEPT ![p] = "ready"]
    /\ listed' = [listed EXCEPT ![p] = @ \cap files]
    /\ deal' = IF deal = "begun" THEN "ready" ELSE deal
    /\ UNCHANGED <<partner, lock, closed, gate, gauge, requestVars, files, historyVars>>

\* Commit: the control thread of the predecessor ends well, and it stops accepting.
Commit(p) ==
    /\ deal = "ready" /\ partner = p /\ phase[p] = "ready"
    /\ phase' = [phase EXCEPT ![p] = "stopping"]
    /\ deal' = "none" /\ partner' = NoProc
    /\ UNCHANGED <<lock, closed, gate, gauge, requestVars, files, listed, historyVars>>

\* The control thread ends with an error: it drops the sender of commit_rx, which reads
\* as a commit, and the lock.  A successor that is still to be drained for goes, too.
ControlFails(p) ==
    /\ phase[p] = "ready" /\ p \in Faulty
    /\ phase' = [q \in Procs |->
                   IF q = p THEN "failing"
                   ELSE IF deal = "none" /\ Incumbent(p) /\ Successor(q) THEN "gone" ELSE phase[q]]
    /\ lock' = IF lock = p THEN NoProc ELSE lock
    /\ UNCHANGED <<deal, partner, closed, gate, gauge, requestVars, files, listed,
                   historyVars>>

\* Either way process::exit follows, at once unless the process is patient, and cuts
\* what still runs.
Exit(p) ==
    /\ phase[p] \in {"stopping", "failing"}
    /\ p \in Patient => \A r \in Requests : at[r] = p => pc[r] \notin Handling
    /\ phase' = [phase EXCEPT ![p] = "gone"]
    /\ closed' = [closed EXCEPT ![p] = FALSE]
    /\ End({p})
    /\ IF phase[p] = "stopping" THEN slipped' = 0 /\ missed' = {}
       ELSE UNCHANGED <<slipped, missed>>
    /\ UNCHANGED <<deal, partner, lock, at, files, late>>

-----------------------------------------------------------------------------
Goto(r, step) == pc' = [pc EXCEPT ![r] = step]
RequestStep(r) == UNCHANGED <<phase, deal, partner, lock, closed>>

\* A connection arrives in the kernel's queue.
Connect(r) ==
    /\ pc[r] = "new" /\ Goto(r, "queued")
    /\ RequestStep(r) /\ UNCHANGED <<gate, gauge, at, files, listed, historyVars>>

\* Bug: the flag is looked at once, when serving begins.
LookOnce(p) ==
    /\ phase[p] = "ready" /\ gate[p] = "check"
    /\ gate' = [gate EXCEPT ![p] = "await"]
    /\ UNCHANGED <<phase, deal, partner, lock, closed, gauge, requestVars, files,
                   listed, historyVars>>

\* PausableListener::accept: the flag is looked at, then the queue is awaited.
Look(p) ==
    /\ phase[p] = "ready" /\ gate[p] = "check" /\ ~closed[p]
    /\ gate' = [gate EXCEPT ![p] = "await"]
    /\ UNCHANGED <<phase, deal, partner, lock, closed, gauge, requestVars, files,
                   listed, historyVars>>

Accept(p, r) ==
    /\ phase[p] = "ready" /\ gate[p] = "await" /\ pc[r] = "queued"
    /\ gate' = [gate EXCEPT ![p] = "check"]
    /\ Goto(r, "open") /\ at' = [at EXCEPT ![r] = p]
    /\ slipped' = IF closed[p] THEN slipped + 1 ELSE slipped
    /\ RequestStep(r) /\ UNCHANGED <<gauge, files, listed, late, missed>>

\* The request comes over its connection, and the gauge counts it.
Dispatch(r) ==
    /\ pc[r] = "open" /\ phase[at[r]] = "ready"
    /\ Goto(r, "handling")
    /\ IF r \in S3 THEN UNCHANGED <<gauge, missed>>
       ELSE /\ gauge' = [gauge EXCEPT ![at[r]] = @ + 1]
            /\ missed' = IF at[r] = partner /\ deal # "draining" THEN missed \cup {r} ELSE missed
    /\ late' = IF Incumbent(at[r]) /\ lock \in {at[r], NoProc} THEN late ELSE late \cup {r}
    /\ RequestStep(r) /\ UNCHANGED <<gate, at, files, listed, slipped>>

\* The handler: the storage first, the index of its own process second.
Store(r) ==
    /\ pc[r] = "handling" /\ Goto(r, "stored")
    /\ files' = IF r \in Makers THEN files \cup {r} ELSE files \ {r}
    /\ RequestStep(r) /\ UNCHANGED <<gate, gauge, at, listed, historyVars>>

\* ... and then it answers, and record_metrics counts it out.
Enter(r) ==
    /\ pc[r] = "stored" /\ Goto(r, "ok")
    /\ listed' = [listed EXCEPT ![at[r]] = IF r \in Makers THEN @ \cup {r} ELSE @ \ {r}]
    /\ gauge' = [gauge EXCEPT ![at[r]] = IF r \in S3 THEN @ ELSE @ - 1]
    /\ missed' = missed \ {r}
    /\ RequestStep(r) /\ UNCHANGED <<gate, at, files, late, slipped>>

\* The client goes away and the handler's future is dropped, with no dec.
Abandon(r) ==
    /\ pc[r] \in Handling \cup {"queued", "open"} /\ Goto(r, "lost")
    /\ missed' = missed \ {r}
    /\ RequestStep(r) /\ UNCHANGED <<gate, gauge, at, files, listed, late, slipped>>

Supervise(p) == Spawn(p) \/ Drain(p) \/ Seal(p) \/ Abort(p) \/ Commit(p)
Progress(p) == Drained(p) \/ TakeLock(p) \/ InsertMissing(p) \/ Announce(p) \/ Exit(p) \/ Look(p)
Handle(r) == Store(r) \/ Enter(r)

Next ==
    \/ \E p \in Procs : Supervise(p) \/ Progress(p) \/ ControlFails(p) \/ \E r \in Requests : Accept(p, r)
    \/ \E r \in Requests : Connect(r) \/ Dispatch(r) \/ Handle(r) \/ Abandon(r)

Spec == Init /\ [][Next]_vars

Supervisor == \E p \in Procs : Drain(p) \/ Seal(p) \/ Commit(p)
Runs(p) == Progress(p) \/ \E r \in Requests : Accept(p, r) \/ (at[r] = p /\ Handle(r))

\* The supervisor goes on with what it began, and every process runs.  Whether an attempt
\* is begun or given up, whether a control thread fails, whether clients come, speak or
\* leave, is open.
Fairness == WF_vars(Supervisor) /\ \A p \in Procs : WF_vars(Runs(p))

FairSpec == Spec /\ Fairness

-----------------------------------------------------------------------------
\* What was answered, and whatever was left half done in another process, is listed by
\* the process in charge as it is on disk, across any number of swaps, aborts, errors and
\* cold starts, unless the request ran beside that process in another one (reconcile in
\* serve, put_object and delete_object).
ListedAsStored ==
    \A p \in Procs, r \in Requests :
        Serving(p) /\ r \notin late /\ (pc[r] = "ok" \/ at[r] # p)
            => (r \in listed[p] <=> r \in files)

\* A process that was told to Commit cuts off only requests that its drain could not wait
\* for: it gave up on them, they came after it had looked, or the gauge does not count
\* them.  (A process whose control thread ended with an error had no drain.)
CutOnlyUnseen ==
    [][\A r \in Requests :
          /\ pc[r] # "cut" /\ pc'[r] = "cut"
          /\ \E p \in Procs : at[r] = p /\ phase[p] = "stopping"
          => r \in missed \cup S3]_vars

\* One connection at most is accepted after the gate is closed, the one that
\* `accept` was waiting for already (PausableListener::accept).
OneSlips == slipped <= 1

\* A client in the queue is accepted by somebody, however the attempts end, unless
\* errors of the control threads have left nobody who serves.
QueuedAreAccepted ==
    \A r \in Requests : pc[r] = "queued" ~> pc[r] # "queued" \/ \A p \in Procs : phase[p] # "ready"
=============================================================================
