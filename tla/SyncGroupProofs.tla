--------------------------- MODULE SyncGroupProofs ---------------------------
(***************************************************************************)
(* The safety of SyncGroup for any number of writers and any capacity of   *)
(* the channel.                                                            *)
(***************************************************************************)
EXTENDS SyncGroup, TLAPS

\* When there is a batch and when there are results.
Phases ==
    /\ phase \notin {"linger", "late", "flush"} => batch = <<>>
    /\ phase # "flush" => results = <<>>
    /\ phase = "flush" => Len(results) = Len(batch)

\* What the task holds belongs to writers that wait, or have gone away waiting.
HeldWait ==
    /\ \A i \in 1..Len(queue) : pc[queue[i]] \in {"waiting", "gone"}
    /\ \A i \in 1..Len(batch) : pc[batch[i]] \in {"waiting", "gone"}

\* No writer is held twice.
HeldOnce ==
    /\ \A i, j \in 1..Len(queue) : queue[i] = queue[j] => i = j
    /\ \A i, j \in 1..Len(batch) : batch[i] = batch[j] => i = j
    /\ \A i \in 1..Len(queue), j \in 1..Len(batch) : queue[i] # batch[j]

\* Who waits is held.
WaitersHeld ==
    \A w \in Writers : pc[w] = "waiting" =>
        \/ \E i \in 1..Len(queue) : queue[i] = w
        \/ \E i \in 1..Len(batch) : batch[i] = w

\* A result is that of the file at its place.
ResultsRight ==
    /\ \A i \in 1..Len(results) : results[i] = "ok" => batch[i] \notin dirty
    /\ \A w \in Writers : result[w] = "ok" => w \notin dirty

IInv == TypeOK /\ Phases /\ HeldWait /\ HeldOnce /\ WaitersHeld /\ ResultsRight

USE DEF taskVars, Outcomes

\* What a request does to the channel.
LEMMA AppendFacts ==
    ASSUME NEW S, NEW s \in Seq(S), NEW e \in S
    PROVE  /\ Append(s, e) \in Seq(S)
           /\ Len(Append(s, e)) = Len(s) + 1
           /\ \A i \in 1..Len(s) : Append(s, e)[i] = s[i]
           /\ Append(s, e)[Len(s) + 1] = e
OBVIOUS

LEMMA HeadTailFacts ==
    ASSUME NEW S, NEW s \in Seq(S), s # <<>>
    PROVE  /\ Len(s) \in Nat \ {0}
           /\ Head(s) = s[1] /\ Head(s) \in S
           /\ Tail(s) \in Seq(S)
           /\ Len(Tail(s)) = Len(s) - 1
           /\ \A i \in 1..Len(Tail(s)) : Tail(s)[i] = s[i + 1]
OBVIOUS

LEMMA InitHolds == Init => IInv
BY CapacityAssumption
   DEF Init, IInv, TypeOK, Phases, HeldWait, HeldOnce, WaitersHeld, ResultsRight

\* A step of one writer that touches neither the channel nor the batch.
LEMMA WriterStep ==
    ASSUME IInv, NEW w \in Writers,
           Write(w) \/ SyncInline(w) \/ SendClosed(w) \/ Cancel(w)
    PROVE  IInv'
<1> USE DEF IInv, TypeOK, Phases, HeldWait, HeldOnce, WaitersHeld, ResultsRight, Answer, SyncData
<1>h. /\ \A i \in 1..Len(queue) : queue[i] \in Writers
      /\ \A i \in 1..Len(batch) : batch[i] \in Writers
    OBVIOUS
<1>1. CASE Write(w)
    <2>1. \A i \in 1..Len(batch) : batch[i] # w
        BY <1>1, <1>h DEF Write
    <2>2. \A i \in 1..Len(queue) : queue[i] # w
        BY <1>1, <1>h DEF Write
    <2>3. \A v \in Writers \ {w} : pc'[v] = pc[v] /\ result'[v] = result[v]
        BY <1>1 DEF Write
    <2>4. pc'[w] = "sending" /\ result'[w] = "none" /\ dirty' = dirty \cup {w} /\ TypeOK'
        BY <1>1 DEF Write
    <2>5. UNCHANGED taskVars
        BY <1>1 DEF Write
    <2>6. Phases' /\ HeldWait' /\ HeldOnce'
        <3>1. \A i \in 1..Len(queue) : pc'[queue[i]] = pc[queue[i]]
            BY <1>h, <2>2, <2>3
        <3>2. \A i \in 1..Len(batch) : pc'[batch[i]] = pc[batch[i]]
            BY <1>h, <2>1, <2>3
        <3>3. HeldWait'
            BY <2>5, <3>1, <3>2
        <3>4. Phases' /\ HeldOnce'
            BY <2>5
        <3> QED
            BY <3>3, <3>4
    <2>7. WaitersHeld'
        BY <2>3, <2>4, <2>5
    <2>8. ResultsRight'
        <3>1. Len(results) <= Len(batch) /\ Len(results) \in Nat /\ Len(batch) \in Nat
            OBVIOUS
        <3>2. \A i \in 1..Len(results) : i \in 1..Len(batch)
            BY <3>1
        <3> QED
            BY <2>1, <2>3, <2>4, <2>5, <3>2
    <2> QED
        BY <2>4, <2>6, <2>7, <2>8
<1>2. ASSUME SyncInline(w) \/ SendClosed(w) \/ Cancel(w) PROVE IInv'
    <2>1. UNCHANGED taskVars /\ dirty' \subseteq dirty
        BY <1>2 DEF SyncInline, SendClosed, Cancel
    <2>2. TypeOK'
        BY <1>2 DEF SyncInline, SendClosed, Cancel
    <2>3. \A v \in Writers \ {w} : pc'[v] = pc[v] /\ result'[v] = result[v]
        BY <1>2 DEF SyncInline, SendClosed, Cancel
    <2>4. pc'[w] = "done" => pc[w] = "sending"
        BY <1>2 DEF SyncInline, SendClosed, Cancel
    <2>5. pc'[w] \in {"done", "gone"}
        BY <1>2 DEF SyncInline, SendClosed, Cancel
    <2>6. result'[w] = "ok" => w \notin dirty'
        BY <1>2 DEF SyncInline, SendClosed, Cancel
    <2>7. Phases' /\ HeldWait' /\ HeldOnce'
        <3>1. \A v \in Writers : pc[v] \in {"waiting", "gone"} => pc'[v] \in {"waiting", "gone"}
            BY <2>3, <2>4, <2>5
        <3>2. \A i \in 1..Len(queue) : pc'[queue[i]] \in {"waiting", "gone"}
            BY <1>h, <3>1
        <3>3. \A i \in 1..Len(batch) : pc'[batch[i]] \in {"waiting", "gone"}
            BY <1>h, <3>1
        <3>4. HeldWait'
            BY <2>1, <3>2, <3>3
        <3>5. Phases' /\ HeldOnce'
            BY <2>1
        <3> QED
            BY <3>4, <3>5
    <2>8. WaitersHeld' /\ ResultsRight'
        BY <2>1, <2>3, <2>5, <2>6
    <2> QED
        BY <2>2, <2>7, <2>8
<1> QED
    BY <1>1, <1>2

\* A writer enters the channel.
LEMMA SendStep == ASSUME IInv, NEW w \in Writers, Send(w) PROVE IInv'
<1>w. pc[w] = "sending"
    BY DEF Send
<1>h. /\ \A i \in 1..Len(queue) : pc[queue[i]] # "sending" /\ queue[i] \in Writers
      /\ \A i \in 1..Len(batch) : pc[batch[i]] # "sending" /\ batch[i] \in Writers
    BY DEF IInv, TypeOK, HeldWait
<1> USE CapacityAssumption DEF IInv, TypeOK, Phases, HeldWait, HeldOnce, WaitersHeld, ResultsRight, Send
<1>1. /\ queue' \in Seq(Writers)
      /\ Len(queue') = Len(queue) + 1 /\ Len(queue) \in Nat
      /\ \A i \in 1..Len(queue) : queue'[i] = queue[i]
      /\ queue'[Len(queue) + 1] = w
    BY AppendFacts
<1>2. \A i \in 1..Len(queue') : i \in 1..Len(queue) \/ i = Len(queue) + 1
    BY <1>1
<1>3. /\ \A i \in 1..Len(queue) : queue[i] # w /\ queue[i] \in Writers
      /\ \A i \in 1..Len(batch) : batch[i] # w /\ batch[i] \in Writers
    BY <1>w, <1>h
<1>4. pc'[w] = "waiting" /\ \A v \in Writers \ {w} : pc'[v] = pc[v]
    OBVIOUS
<1>5. UNCHANGED <<batch, results, phase, dirty, result>>
    OBVIOUS
<1>6. TypeOK'
    BY <1>1
<1>7. Phases' /\ HeldWait'
    BY <1>1, <1>2, <1>3, <1>4, <1>5
<1>8. HeldOnce'
    BY <1>1, <1>2, <1>3, <1>5
<1>9. WaitersHeld'
    <2>1. \A v \in Writers : (\E i \in 1..Len(queue) : queue[i] = v) => \E i \in 1..Len(queue') : queue'[i] = v
        BY <1>1
    <2>2. \E i \in 1..Len(queue') : queue'[i] = w
        BY <1>1
    <2> QED
        BY <1>4, <1>5, <2>1, <2>2
<1>10. ResultsRight'
    BY <1>5
<1> QED
    BY <1>6, <1>7, <1>8, <1>9, <1>10

\* A request moves from the channel to the batch: First and Collect.
LEMMA TakeStep == ASSUME IInv, First \/ Collect PROVE IInv'
<1> USE CapacityAssumption DEF IInv, TypeOK, Phases, HeldWait, HeldOnce, WaitersHeld, ResultsRight
<1>1. queue # <<>> /\ queue' = Tail(queue) /\ UNCHANGED <<batched, pc, result, dirty, results>>
    BY DEF First, Collect
<1>2. /\ Len(queue) \in Nat \ {0} /\ Head(queue) = queue[1] /\ Head(queue) \in Writers
      /\ queue' \in Seq(Writers) /\ Len(queue') = Len(queue) - 1
      /\ \A i \in 1..Len(queue') : queue'[i] = queue[i + 1]
    BY <1>1, HeadTailFacts
<1>3. batch' = Append(batch, Head(queue))
    <2>1. CASE First
        <3>1. batch = <<>> /\ batch' = <<Head(queue)>>
            BY <2>1 DEF First
        <3> QED
            BY <3>1, <1>2
    <2>2. CASE Collect
        BY <2>2 DEF Collect
    <2> QED
        BY <2>1, <2>2
<1>4. /\ batch' \in Seq(Writers)
      /\ Len(batch') = Len(batch) + 1 /\ Len(batch) \in Nat
      /\ \A i \in 1..Len(batch) : batch'[i] = batch[i]
      /\ batch'[Len(batch) + 1] = queue[1]
    BY <1>2, <1>3, AppendFacts
<1>5. \A i \in 1..Len(batch') : i \in 1..Len(batch) \/ i = Len(batch) + 1
    BY <1>4
<1>6. \A i \in 1..Len(queue') : i + 1 \in 1..Len(queue) /\ i + 1 # 1
    BY <1>2
<1>7. phase' \in {"linger", "late"} /\ results = <<>> /\ results' = <<>> /\ 1 \in 1..Len(queue)
    BY <1>1, <1>2 DEF First, Collect
<1>8. TypeOK'
    BY <1>1, <1>2, <1>4, <1>7
<1>9. Phases' /\ ResultsRight'
    BY <1>1, <1>7
<1>10. HeldWait'
    <2>1. \A i \in 1..Len(queue') : pc[queue'[i]] \in {"waiting", "gone"}
        <3> SUFFICES ASSUME NEW i \in 1..Len(queue') PROVE pc[queue'[i]] \in {"waiting", "gone"}
            OBVIOUS
        <3>1. i + 1 \in 1..Len(queue) /\ queue'[i] = queue[i + 1]
            BY <1>2, <1>6
        <3> QED
            BY <3>1
    <2>2. \A i \in 1..Len(batch') : pc[batch'[i]] \in {"waiting", "gone"}
        BY <1>4, <1>5, <1>7
    <2> QED
        BY <1>1, <2>1, <2>2
<1>11. HeldOnce'
    <2>1. \A i, j \in 1..Len(queue') : queue'[i] = queue'[j] => i = j
        BY <1>2, <1>6
    <2>2. \A i, j \in 1..Len(batch') : batch'[i] = batch'[j] => i = j
        BY <1>4, <1>5, <1>7
    <2>3. ASSUME NEW i \in 1..Len(queue'), NEW j \in 1..Len(batch') PROVE queue'[i] # batch'[j]
        <3>1. i + 1 \in 1..Len(queue) /\ i + 1 # 1 /\ queue'[i] = queue[i + 1]
            BY <1>2, <1>6
        <3>2. CASE j \in 1..Len(batch)
            BY <3>1, <3>2, <1>4
        <3>3. CASE j = Len(batch) + 1
            BY <3>1, <3>3, <1>4, <1>7
        <3> QED
            BY <3>2, <3>3, <1>5
    <2> QED
        BY <2>1, <2>2, <2>3
<1>12. WaitersHeld'
    <2>1. ASSUME NEW w \in Writers, NEW i \in 1..Len(queue), queue[i] = w
          PROVE  \/ \E j \in 1..Len(queue') : queue'[j] = w
                 \/ \E j \in 1..Len(batch') : batch'[j] = w
        <3>1. CASE i = 1
            BY <2>1, <3>1, <1>4
        <3>2. CASE i # 1
            <4>1. i - 1 \in 1..Len(queue') /\ queue'[i - 1] = w
                BY <2>1, <3>2, <1>2
            <4> QED
                BY <4>1
        <3> QED
            BY <3>1, <3>2
    <2>2. ASSUME NEW w \in Writers, NEW i \in 1..Len(batch), batch[i] = w
          PROVE  \E j \in 1..Len(batch') : batch'[j] = w
        BY <2>2, <1>4
    <2> QED
        BY <1>1, <2>1, <2>2
<1> QED
    BY <1>8, <1>9, <1>10, <1>11, <1>12

\* The other steps of the task.
LEMMA TaskStep == ASSUME IInv, Expire \/ Close \/ SyncOne \/ Reply PROVE IInv'
<1> USE DEF IInv, TypeOK, Phases, HeldWait, HeldOnce, WaitersHeld, ResultsRight, SyncData
<1>h. /\ \A i \in 1..Len(queue) : queue[i] \in Writers
      /\ \A i \in 1..Len(batch) : batch[i] \in Writers
      /\ Len(batch) \in Nat
    OBVIOUS
<1>1. CASE Expire
    BY <1>1 DEF Expire
<1>2. CASE Close
    <2>1. results' \in Seq({"none"}) /\ Len(results') = Len(batch)
        BY <1>2, <1>h DEF Close
    <2>2. \A i \in 1..Len(results') : results'[i] = "none"
        BY <1>2, <1>h DEF Close
    <2>3. results' \in Seq(Outcomes \cup {"none"})
        BY <1>2, <1>h DEF Close
    <2>4. UNCHANGED <<batched, pc, result, dirty, queue, batch>> /\ phase' = "flush"
        BY <1>2 DEF Close
    <2>5. TypeOK' /\ Phases'
        BY <2>1, <2>3, <2>4, <1>h
    <2>6. HeldWait' /\ HeldOnce' /\ WaitersHeld'
        BY <2>4
    <2>7. ResultsRight'
        BY <2>2, <2>4
    <2> QED
        BY <2>5, <2>6, <2>7
<1>3. CASE SyncOne
    <2>1. PICK i \in 1..Len(results) : Sync(i)
        BY <1>3 DEF SyncOne
    <2>2. PICK o \in Outcomes : SyncData(batch[i], o) /\ results' = [results EXCEPT ![i] = o]
        BY <2>1 DEF Sync
    <2>3. UNCHANGED <<batched, pc, result, phase, queue, batch>> /\ dirty' \subseteq dirty
        BY <2>1, <2>2 DEF Sync
    <2>4. results' \in Seq(Outcomes \cup {"none"}) /\ Len(results') = Len(results)
        BY <2>2
    <2>5. results'[i] = o /\ \A j \in 1..Len(results) \ {i} : results'[j] = results[j]
        BY <2>2
    <2>6. o = "ok" => batch[i] \notin dirty'
        BY <2>2
    <2>7. TypeOK' /\ Phases'
        BY <2>1, <2>3, <2>4 DEF Sync
    <2>8. HeldWait' /\ HeldOnce' /\ WaitersHeld'
        BY <2>3
    <2>9. ResultsRight'
        BY <2>3, <2>4, <2>5, <2>6
    <2> QED
        BY <2>7, <2>8, <2>9
<1>4. CASE Reply
    <2>1. /\ phase = "flush" /\ phase' = "recv" /\ batch' = <<>> /\ results' = <<>>
          /\ UNCHANGED <<batched, dirty, queue>>
          /\ \A i \in 1..Len(results) : results[i] \in Outcomes
        BY <1>4 DEF Reply
    <2>2. \A w \in Writers :
              IF InBatch(w) /\ pc[w] = "waiting"
                THEN pc'[w] = "done" /\ result'[w] = results[Position(w)]
                ELSE pc'[w] = pc[w] /\ result'[w] = result[w]
        BY <1>4 DEF Reply
    <2>3. \A w \in Writers : InBatch(w) =>
              Position(w) \in 1..Len(results) /\ batch[Position(w)] = w
        BY <2>1 DEF InBatch, Position
    <2>4. pc' \in [Writers -> {"idle", "sending", "waiting", "done", "gone"}]
        BY <1>4 DEF Reply
    <2>5. result' \in [Writers -> Outcomes \cup {"none"}]
        <3>1. \A w \in Writers : result'[w] \in Outcomes \cup {"none"}
            BY <2>1, <2>2, <2>3
        <3>2. \E f : result' = [w \in Writers |-> f[w]]
            BY <1>4 DEF Reply
        <3> QED
            BY <3>1, <3>2
    <2>6. TypeOK' /\ Phases'
        BY <2>1, <2>4, <2>5
    <2>7. HeldWait'
        BY <2>1, <2>2, <1>h DEF InBatch
    <2>8. HeldOnce'
        BY <2>1
    <2>9. WaitersHeld'
        BY <2>1, <2>2 DEF InBatch
    <2>10. ResultsRight'
        BY <2>1, <2>2, <2>3
    <2> QED
        BY <2>6, <2>7, <2>8, <2>9, <2>10
<1> QED
    BY <1>1, <1>2, <1>3, <1>4

LEMMA StopStep == ASSUME IInv, Stop PROVE IInv'
BY CapacityAssumption
   DEF Stop, IInv, TypeOK, Phases, HeldWait, HeldOnce, WaitersHeld, ResultsRight

\* The invariant holds throughout.
LEMMA Invariant == Spec => []IInv
<1>1. IInv /\ [Next]_vars => IInv'
    <2> SUFFICES ASSUME IInv, [Next]_vars PROVE IInv'
        OBVIOUS
    <2>1. ASSUME NEW w \in Writers, Writer(w) PROVE IInv'
        BY <2>1, WriterStep, SendStep DEF Writer
    <2>2. CASE Task
        BY <2>2, TakeStep, TaskStep DEF Task
    <2>3. CASE Stop
        BY <2>3, StopStep
    <2>4. CASE UNCHANGED vars
        BY <2>4 DEF vars, IInv, TypeOK, Phases, HeldWait, HeldOnce, WaitersHeld, ResultsRight
    <2> QED
        BY <2>1, <2>2, <2>3, <2>4 DEF Next
<1> QED
    BY InitHolds, <1>1, PTL DEF Spec

\* Every variable keeps to its range, and the channel to its capacity.
THEOREM TypeCorrect == Spec => []TypeOK
<1>1. IInv => TypeOK
    BY DEF IInv
<1> QED
    BY Invariant, <1>1, PTL

\* A writer whose sync_file succeeded has its bytes on the disk, whoever else was
\* in the batch and however their syncs ended.
THEOREM SuccessIsDurable == Spec => []OkIsDurable
<1>1. IInv => OkIsDurable
    BY DEF IInv, ResultsRight, OkIsDurable
<1> QED
    BY Invariant, <1>1, PTL

\* Every writer that waits is in the channel or in the batch, at one place.
THEOREM NobodyForgotten == Spec => []NoneForgotten
<1>1. ASSUME IInv PROVE NoneForgotten
    <2> DEFINE held == queue \o batch
    <2> USE <1>1 DEF IInv, TypeOK
    <2>1. /\ Len(queue) \in Nat /\ Len(batch) \in Nat
          /\ Len(held) = Len(queue) + Len(batch)
        OBVIOUS
    <2>2. \A i \in 1..Len(queue) : held[i] = queue[i]
        OBVIOUS
    <2>3. \A i \in 1..Len(batch) : held[Len(queue) + i] = batch[i]
        OBVIOUS
    <2> HIDE DEF held
    <2>4. \A i \in 1..Len(held) : i \in 1..Len(queue) \/ \E k \in 1..Len(batch) : i = Len(queue) + k
        <3> SUFFICES ASSUME NEW i \in 1..Len(held), i \notin 1..Len(queue)
                     PROVE  \E k \in 1..Len(batch) : i = Len(queue) + k
            OBVIOUS
        <3>1. i - Len(queue) \in 1..Len(batch) /\ i = Len(queue) + (i - Len(queue))
            BY <2>1
        <3> QED
            BY <3>1
    <2>5. \A i, j \in 1..Len(held) : held[i] = held[j] => i = j
        <3> SUFFICES ASSUME NEW i \in 1..Len(held), NEW j \in 1..Len(held), held[i] = held[j]
                     PROVE  i = j
            OBVIOUS
        <3>1. CASE i \in 1..Len(queue) /\ j \in 1..Len(queue)
            BY <3>1, <2>2 DEF HeldOnce
        <3>2. CASE i \in 1..Len(queue) /\ j \notin 1..Len(queue)
            <4>1. PICK k \in 1..Len(batch) : j = Len(queue) + k
                BY <3>2, <2>4
            <4>2. queue[i] = batch[k]
                BY <3>2, <4>1, <2>2, <2>3
            <4> QED
                BY <3>2, <4>2 DEF HeldOnce
        <3>3. CASE i \notin 1..Len(queue) /\ j \in 1..Len(queue)
            <4>1. PICK k \in 1..Len(batch) : i = Len(queue) + k
                BY <3>3, <2>4
            <4>2. queue[j] = batch[k]
                BY <3>3, <4>1, <2>2, <2>3
            <4> QED
                BY <3>3, <4>2 DEF HeldOnce
        <3>4. CASE i \notin 1..Len(queue) /\ j \notin 1..Len(queue)
            <4>1. PICK k \in 1..Len(batch) : i = Len(queue) + k
                BY <3>4, <2>4
            <4>2. PICK l \in 1..Len(batch) : j = Len(queue) + l
                BY <3>4, <2>4
            <4>3. batch[k] = batch[l]
                BY <4>1, <4>2, <2>3
            <4>4. k = l
                BY <4>3 DEF HeldOnce
            <4> QED
                BY <4>1, <4>2, <4>4
        <3> QED
            BY <3>1, <3>2, <3>3, <3>4
    <2>6. \A w \in Writers : pc[w] = "waiting" => \E i \in 1..Len(held) : held[i] = w
        <3> SUFFICES ASSUME NEW w \in Writers, pc[w] = "waiting"
                     PROVE  \E i \in 1..Len(held) : held[i] = w
            OBVIOUS
        <3>1. CASE \E i \in 1..Len(queue) : queue[i] = w
            BY <3>1, <2>1, <2>2
        <3>2. CASE \E i \in 1..Len(batch) : batch[i] = w
            <4>1. PICK i \in 1..Len(batch) : batch[i] = w
                BY <3>2
            <4>2. Len(queue) + i \in 1..Len(held) /\ held[Len(queue) + i] = w
                BY <4>1, <2>1, <2>3
            <4> QED
                BY <4>2
        <3>3. (\E i \in 1..Len(queue) : queue[i] = w) \/ (\E i \in 1..Len(batch) : batch[i] = w)
            BY Zenon DEF WaitersHeld
        <3> QED
            BY <3>1, <3>2, <3>3
    <2>7. \A w \in Writers : pc[w] = "waiting" =>
              \E i \in 1..Len(held) : \A j \in 1..Len(held) : held[j] = w <=> j = i
        <3> SUFFICES ASSUME NEW w \in Writers, pc[w] = "waiting"
                     PROVE  \E i \in 1..Len(held) : \A j \in 1..Len(held) : held[j] = w <=> j = i
            OBVIOUS
        <3>1. PICK i \in 1..Len(held) : held[i] = w
            BY <2>6
        <3>2. \A j \in 1..Len(held) : held[j] = w <=> j = i
            BY <3>1, <2>5
        <3> QED
            BY <3>2
    <2> QED
        BY <2>7 DEF held, NoneForgotten
<1> QED
    BY Invariant, <1>1, PTL
=============================================================================
