------------------------------ MODULE SyncGroup ------------------------------
(***************************************************************************)
(* SyncGroup: how the uploads get their files to the disk, each by itself  *)
(* or, with a linger window, together.  A writer hands its file to the     *)
(* background task through a bounded channel and waits for the answer; the *)
(* task collects a batch until the window ends, syncs its files at once    *)
(* and tells each writer the result.                                       *)
(*                                                                         *)
(* A writer stands for a connection: it uploads one file after the other.  *)
(***************************************************************************)
EXTENDS Naturals, Sequences

CONSTANTS
    Writers,    \* the uploads that run at one time
    Capacity    \* of the channel; 16384 in the code

ASSUME CapacityAssumption == Capacity \in Nat \ {0}

VARIABLES
    batched,    \* SyncGroup::Batched, as opposed to Inline
    pc,         \* what the writer does with its file
    result,     \* what sync_file told the writer of that file
    dirty,      \* writers with bytes in their file that are not on the disk
    phase,      \* the background task
    queue,      \* the channel
    batch,
    results     \* results[i]: how the sync of batch[i] ended

taskVars == <<phase, queue, batch, results>>
vars == <<batched, pc, result, dirty, taskVars>>

Outcomes == {"ok", "error"}

TypeOK ==
    /\ batched \in BOOLEAN
    /\ pc \in [Writers -> {"idle", "sending", "waiting", "done", "gone"}]
    /\ result \in [Writers -> Outcomes \cup {"none"}]
    /\ dirty \subseteq Writers
    /\ phase \in {"recv", "linger", "late", "flush", "stopped"}
    /\ queue \in Seq(Writers) /\ Len(queue) <= Capacity
    /\ batch \in Seq(Writers)
    /\ results \in Seq(Outcomes \cup {"none"}) /\ Len(results) <= Len(batch)

Init ==
    /\ batched \in BOOLEAN
    /\ pc = [w \in Writers |-> "idle"]
    /\ result = [w \in Writers |-> "none"]
    /\ dirty = {}
    /\ phase = "recv" /\ queue = <<>> /\ batch = <<>> /\ results = <<>>

-----------------------------------------------------------------------------
(* The writers: sync_file *)

\* The next upload streams its bytes into a new file.
Write(w) ==
    /\ pc[w] \in {"idle", "done"}
    /\ pc' = [pc EXCEPT ![w] = "sending"]
    /\ result' = [result EXCEPT ![w] = "none"]
    /\ dirty' = dirty \cup {w}
    /\ UNCHANGED <<batched, taskVars>>

Answer(w, o) ==
    /\ pc' = [pc EXCEPT ![w] = "done"]
    /\ result' = [result EXCEPT ![w] = o]

\* sync_data of one file: after an error nobody knows what reached the disk.
SyncData(w, o) == dirty' = IF o = "ok" THEN dirty \ {w} ELSE dirty

SyncInline(w) ==
    /\ ~batched /\ pc[w] = "sending"
    /\ \E o \in Outcomes : SyncData(w, o) /\ Answer(w, o)
    /\ UNCHANGED <<batched, taskVars>>

\* Bug: the channel takes one more than it should.
SendOneMore(w) ==
    /\ batched /\ pc[w] = "sending" /\ phase # "stopped"
    /\ Len(queue) <= Capacity
    /\ queue' = Append(queue, w)
    /\ pc' = [pc EXCEPT ![w] = "waiting"]
    /\ UNCHANGED <<batched, result, dirty, phase, batch, results>>

\* A full channel makes the writer wait.
Send(w) ==
    /\ batched /\ pc[w] = "sending" /\ phase # "stopped"
    /\ Len(queue) < Capacity
    /\ queue' = Append(queue, w)
    /\ pc' = [pc EXCEPT ![w] = "waiting"]
    /\ UNCHANGED <<batched, result, dirty, phase, batch, results>>

SendClosed(w) ==
    /\ batched /\ pc[w] = "sending" /\ phase = "stopped"
    /\ Answer(w, "error")
    /\ UNCHANGED <<batched, dirty, taskVars>>

\* The handler is dropped while it waits; its file stays where it is.
Cancel(w) ==
    /\ pc[w] \in {"sending", "waiting"}
    /\ pc' = [pc EXCEPT ![w] = "gone"]
    /\ UNCHANGED <<batched, result, dirty, taskVars>>

-----------------------------------------------------------------------------
(* The background task: run and flush *)

\* Bug: the request that opened the window is not in the batch.
FirstForgotten ==
    /\ phase = "recv" /\ queue # <<>>
    /\ phase' = "linger" /\ queue' = Tail(queue) /\ batch' = <<>>
    /\ UNCHANGED <<batched, pc, result, dirty, results>>

First ==
    /\ phase = "recv" /\ queue # <<>>
    /\ phase' = "linger" /\ queue' = Tail(queue) /\ batch' = <<Head(queue)>>
    /\ UNCHANGED <<batched, pc, result, dirty, results>>

\* timeout_at looks into the channel before it looks at the clock, so requests
\* may still be taken when the window is over.
Collect ==
    /\ phase \in {"linger", "late"} /\ queue # <<>>
    /\ batch' = Append(batch, Head(queue)) /\ queue' = Tail(queue)
    /\ UNCHANGED <<batched, pc, result, dirty, phase, results>>

Expire ==
    /\ phase = "linger"
    /\ phase' = "late"
    /\ UNCHANGED <<batched, pc, result, dirty, queue, batch, results>>

Close ==
    /\ phase = "late"
    /\ phase' = "flush"
    /\ results' = [i \in 1..Len(batch) |-> "none"]
    /\ UNCHANGED <<batched, pc, result, dirty, queue, batch>>

\* Bug: results are kept in the order in which the syncs end.
SyncUnordered(i) ==
    /\ phase = "flush" /\ i \in 1..Len(results)
    /\ \E o \in Outcomes, j \in 1..Len(results) :
          /\ results[j] = "none" /\ \A k \in 1..(j - 1) : results[k] # "none"
          /\ SyncData(batch[i], o)
          /\ results' = [results EXCEPT ![j] = o]
    /\ UNCHANGED <<batched, pc, result, phase, queue, batch>>

\* join_all: the syncs end in any order, the results are in that of the files.
Sync(i) ==
    /\ phase = "flush" /\ i \in 1..Len(results) /\ results[i] = "none"
    /\ \E o \in Outcomes :
          /\ SyncData(batch[i], o)
          /\ results' = [results EXCEPT ![i] = o]
    /\ UNCHANGED <<batched, pc, result, phase, queue, batch>>

InBatch(w) == \E i \in 1..Len(batch) : batch[i] = w
Position(w) == CHOOSE i \in 1..Len(batch) : batch[i] = w

\* Bug: who is not the first is not told.
ReplyFirst ==
    /\ phase = "flush" /\ \A i \in 1..Len(results) : results[i] # "none"
    /\ phase' = "recv" /\ batch' = <<>> /\ results' = <<>>
    /\ pc' = [pc EXCEPT ![batch[1]] = IF @ = "waiting" THEN "done" ELSE @]
    /\ result' = [result EXCEPT ![batch[1]] = results[1]]
    /\ UNCHANGED <<batched, dirty, queue>>

\* Every writer of the batch that still waits is told.
Reply ==
    /\ phase = "flush" /\ \A i \in 1..Len(results) : results[i] # "none"
    /\ phase' = "recv" /\ batch' = <<>> /\ results' = <<>>
    /\ LET told == {w \in Writers : InBatch(w) /\ pc[w] = "waiting"} IN
          /\ pc' = [w \in Writers |-> IF w \in told THEN "done" ELSE pc[w]]
          /\ result' = [w \in Writers |-> IF w \in told THEN results[Position(w)] ELSE result[w]]
    /\ UNCHANGED <<batched, dirty, queue>>

\* The runtime shuts down and drops the task with all it holds: who waits for an
\* answer gets an error.
Stop ==
    /\ phase # "stopped"
    /\ phase' = "stopped" /\ queue' = <<>> /\ batch' = <<>> /\ results' = <<>>
    /\ pc' = [w \in Writers |-> IF pc[w] = "waiting" THEN "done" ELSE pc[w]]
    /\ result' = [w \in Writers |-> IF pc[w] = "waiting" THEN "error" ELSE result[w]]
    /\ UNCHANGED <<batched, dirty>>

-----------------------------------------------------------------------------
Writer(w) == Write(w) \/ SyncInline(w) \/ Send(w) \/ SendClosed(w) \/ Cancel(w)

SyncOne == \E i \in 1..Len(results) : Sync(i)
Task == First \/ Collect \/ Expire \/ Close \/ SyncOne \/ Reply

Next == (\E w \in Writers : Writer(w)) \/ Task \/ Stop

Spec == Init /\ [][Next]_vars

\* The runtime polls the task, the clock runs and every sync ends; the channel
\* serves who waits for room in order, so that nobody is passed over for ever.
FairSpec ==
    /\ Spec
    /\ WF_vars(First) /\ WF_vars(Expire) /\ WF_vars(Close)
    /\ WF_vars(SyncOne) /\ WF_vars(Reply)
    /\ \A w \in Writers :
          SF_vars(Send(w)) /\ WF_vars(SendClosed(w)) /\ WF_vars(SyncInline(w))

-----------------------------------------------------------------------------
(* Correctness *)

\* A writer that is told its file is on the disk has it there: batching answers
\* nobody early and nobody with the result of another file.
OkIsDurable == \A w \in Writers : result[w] = "ok" => w \notin dirty

\* Who waits for an answer is in the channel or in the batch, once.
NoneForgotten ==
    \A w \in Writers : pc[w] = "waiting" =>
        LET held == queue \o batch IN
        \E i \in 1..Len(held) : \A j \in 1..Len(held) : held[j] = w <=> j = i

\* Every sync_file ends, whatever the others do, however full the channel is.
EveryWriterAnswered ==
    \A w \in Writers : pc[w] = "sending" ~> pc[w] \in {"done", "gone"}
=============================================================================
