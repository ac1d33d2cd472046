-------------------------- MODULE ListingProofs --------------------------
(***************************************************************************)
(* Theorems about ListingIndex, for every set of requests and keys, and    *)
(* about ListPages, for every set of names, neighbours, prefixes,          *)
(* delimiters and page sizes.                                              *)
(*                                                                         *)
(* ListedExactly is not inductive: while requests are in flight files and  *)
(* index do differ.  Lag says how: on a key nothing disturbed, a file      *)
(* without an entry is owed to a request about to insert it, an entry      *)
(* without a file to a move about to arrive or a removal about to finish.  *)
(* That the debtor still finds the file as it left it (Progress) rests on  *)
(* Overlap: no other request both runs now and changes the key the other   *)
(* way, or the key counts as disturbed.                                    *)
(*                                                                         *)
(* A listing is right because its pages meet: a page holds what the range  *)
(* of its scan held between its cursor and the next (PageOK, StableOK),    *)
(* and the range, which the code takes by comparing bytes, is the keys of  *)
(* this bucket with the prefix (RangeIsRight).  So all that is shown lies  *)
(* up to the cursor, all of the page behind it, and a key that was there   *)
(* throughout is shown, on the page, or ahead.  Groups keep the order of   *)
(* their keys (GroupsInOrder), so the same holds of them.                  *)
(***************************************************************************)
EXTENDS ListPages, FiniteSetTheorems, SequenceTheorems, TLAPS

\* Every handler is in a step of its own operation.
OwnSteps ==
    \A r \in Requests :
        /\ pc[r] \in {"write", "insert"} => op[r] \in {"put", "copy"}
        /\ pc[r] = "read" => op[r] = "copy"
        /\ pc[r] = "unlink" => op[r] = "delete"
        /\ pc[r] = "remove" => op[r] \in {"delete", "move"}
        /\ pc[r] \in {"announce", "rename", "head"} => op[r] = "move"

\* Nothing is served before the reconcile is over.
Quiet == server # "up" => \A r \in Requests : ~InFlight(r)

Repaired == server = "removeStale" => files \subseteq index

Overlap ==
    \A q, t \in Requests : InFlight(q) /\ InFlight(t) => Makes(q) \cap Removes(t) \subseteq disturbed

\* Whatever an abandoned request still does, it does to disturbed keys.
Orphans ==
    \A r \in abandoned :
        pc[r] # "idle" /\ (InFlight(r) => Changes(r) \subseteq disturbed)

Progress ==
    \A r \in Requests :
        /\ pc[r] = "insert" /\ dst[r] \notin disturbed => dst[r] \in files
        /\ pc[r] = "rename" /\ dst[r] \notin disturbed => dst[r] \in index
        /\ pc[r] = "remove" /\ src[r] \notin disturbed => src[r] \notin files
        /\ pc[r] \in {"remove", "head"} /\ op[r] = "move" /\ dst[r] \notin disturbed
              => dst[r] \in files \cap index

Lag ==
    server = "up" =>
        \A k \in Keys \ disturbed :
            /\ k \in files \ index => \E r \in Requests : pc[r] = "insert" /\ dst[r] = k
            /\ k \in index \ files =>
                  \E r \in Requests : \/ pc[r] = "rename" /\ dst[r] = k
                                      \/ pc[r] = "remove" /\ src[r] = k

IInv == OwnSteps /\ Quiet /\ Repaired /\ Overlap /\ Orphans /\ Progress /\ Lag

-----------------------------------------------------------------------------
\* The variables keep their types (TypeOK), whatever requests arrive and
\* whenever the process dies.
THEOREM TypeCorrect == Spec => []TypeOK
<1> USE OpsAssumption, BoundAssumption
<1>1. Init => TypeOK
  BY DEF Init, TypeOK, Steps
<1>2. TypeOK /\ [Next]_vars => TypeOK'
  <2> SUFFICES ASSUME TypeOK, [Next]_vars PROVE TypeOK'
    OBVIOUS
  <2> USE DEF TypeOK, Steps, reqVars, Continue, Answer, Disturb, Changes, Makes, Removes
  <2>1. ASSUME NEW r \in Requests, Start(r) PROVE TypeOK'
    BY <2>1 DEF Start, First
  <2>2. ASSUME NEW r \in Requests, Step(r) PROVE TypeOK'
    BY <2>2 DEF Step, WriteFile, IndexInsert, ReadSource, Unlink, IndexDelete,
                AnnounceMove, Rename, HeadMoved
  <2>3. ASSUME NEW r \in Requests, WriteRefused(r) \/ StepFails(r) \/ Abandon(r) PROVE TypeOK'
    BY <2>3 DEF WriteRefused, StepFails, Abandon, InFlight
  <2>4. ASSUME Die PROVE TypeOK'
    BY <2>4 DEF Die, InFlight
  <2>5. ASSUME IndexWriteback \/ Reconcile PROVE TypeOK'
    BY <2>5 DEF IndexWriteback, Reconcile, InsertMissing, RemoveStale
  <2>6. CASE UNCHANGED vars
    BY <2>6 DEF vars
  <2> QED
    BY <2>1, <2>2, <2>3, <2>4, <2>5, <2>6 DEF Next
<1> QED
  BY <1>1, <1>2, PTL DEF Spec

-----------------------------------------------------------------------------
LEMMA InvariantHolds == Spec => []IInv
<1> USE OpsAssumption, BoundAssumption
<1>1. Init => IInv
  BY DEF Init, IInv, OwnSteps, Quiet, Repaired, Overlap, Orphans, Progress, Lag, InFlight
<1>2. TypeOK /\ IInv /\ [Next]_vars => IInv'
  <2> SUFFICES ASSUME TypeOK, IInv, [Next]_vars PROVE IInv'
    OBVIOUS
  <2> USE DEF TypeOK, reqVars, InFlight, Changes, Makes, Removes, Disturb
  <2>1. ASSUME NEW r \in Requests, Start(r) PROVE IInv'
    <3> USE <2>1 DEF Start, First
    <3>1. pc[r] = "idle" /\ InFlight(r)' /\ \A q \in Requests \ {r} : pc'[q] = pc[q] /\ op'[q] = op[q]
                                               /\ src'[q] = src[q] /\ dst'[q] = dst[q]
      OBVIOUS
    <3>2. OwnSteps' /\ Quiet' /\ Repaired'
      BY DEF IInv, OwnSteps, Quiet, Repaired
    <3>3. Overlap'
      BY <3>1 DEF IInv, Overlap
    <3>4. Orphans'
      BY <3>1 DEF IInv, Orphans
    <3>5. Progress' /\ Lag'
      BY <3>1 DEF IInv, Progress, Lag
    <3> QED
      BY <3>2, <3>3, <3>4, <3>5 DEF IInv
  <2>2. ASSUME NEW r \in Requests, Step(r) PROVE IInv'
    <3> USE DEF Continue, Answer
    <3>1. CASE WriteFile(r)
      BY <3>1 DEF WriteFile, IInv, OwnSteps, Quiet, Repaired, Overlap, Orphans, Progress, Lag
    <3>2. CASE IndexInsert(r)
      BY <3>2 DEF IndexInsert, IInv, OwnSteps, Quiet, Repaired, Overlap, Orphans, Progress, Lag
    <3>3. CASE ReadSource(r)
      BY <3>3 DEF ReadSource, IInv, OwnSteps, Quiet, Repaired, Overlap, Orphans, Progress, Lag
    <3>4. CASE Unlink(r)
      BY <3>4 DEF Unlink, IInv, OwnSteps, Quiet, Repaired, Overlap, Orphans, Progress, Lag
    <3>5. CASE IndexDelete(r)
      BY <3>5 DEF IndexDelete, IInv, OwnSteps, Quiet, Repaired, Overlap, Orphans, Progress, Lag
    <3>6. CASE AnnounceMove(r)
      BY <3>6 DEF AnnounceMove, IInv, OwnSteps, Quiet, Repaired, Overlap, Orphans, Progress, Lag
    <3>7. CASE Rename(r)
      BY <3>7 DEF Rename, IInv, OwnSteps, Quiet, Repaired, Overlap, Orphans, Progress, Lag
    <3>8. CASE HeadMoved(r)
      BY <3>8 DEF HeadMoved, IInv, OwnSteps, Quiet, Repaired, Overlap, Orphans, Progress, Lag
    <3> QED
      BY <2>2, <3>1, <3>2, <3>3, <3>4, <3>5, <3>6, <3>7, <3>8 DEF Step
  <2>3. ASSUME NEW r \in Requests, WriteRefused(r) PROVE IInv'
    BY <2>3 DEF WriteRefused, Answer, IInv, OwnSteps, Quiet, Repaired, Overlap, Orphans, Progress, Lag
  <2>4. ASSUME NEW r \in Requests, StepFails(r) PROVE IInv'
    BY <2>4 DEF StepFails, Answer, IInv, OwnSteps, Quiet, Repaired, Overlap, Orphans, Progress, Lag
  <2>5. ASSUME NEW r \in Requests, Abandon(r) PROVE IInv'
    BY <2>5 DEF Abandon, IInv, OwnSteps, Quiet, Repaired, Overlap, Orphans, Progress, Lag
  <2>6. ASSUME Die PROVE IInv'
    BY <2>6 DEF Die, IInv, OwnSteps, Quiet, Repaired, Overlap, Orphans, Progress, Lag
  <2>7. ASSUME IndexWriteback PROVE IInv'
    BY <2>7 DEF IndexWriteback, IInv, OwnSteps, Quiet, Repaired, Overlap, Orphans, Progress, Lag
  <2>8. ASSUME Reconcile PROVE IInv'
    BY <2>8 DEF Reconcile, InsertMissing, RemoveStale, IInv, OwnSteps, Quiet, Repaired,
                Overlap, Orphans, Progress, Lag
  <2>9. CASE UNCHANGED vars
    BY <2>9 DEF vars, IInv, OwnSteps, Quiet, Repaired, Overlap, Orphans, Progress, Lag
  <2> QED
    BY <2>1, <2>2, <2>3, <2>4, <2>5, <2>6, <2>7, <2>8, <2>9 DEF Next
<1> QED
  BY <1>1, <1>2, TypeCorrect, PTL DEF Spec

-----------------------------------------------------------------------------
\* However many requests run, fail or are abandoned in whatever order, a key
\* that nothing disturbed is listed exactly if its file is there.
THEOREM IndexFollowsFiles == Spec => []ListedExactly
<1>1. TypeOK /\ IInv => ListedExactly
  BY DEF TypeOK, IInv, Lag, OwnSteps, ListedExactly, Touched, InFlight, Changes, Makes, Removes
<1> QED
  BY <1>1, TypeCorrect, InvariantHolds, PTL

\* A move never leaves its object unlisted on the way, for any number of other
\* requests on other keys.
THEOREM MovesStayListed == Spec => []MoveStaysListed
<1>1. TypeOK /\ IInv => MoveStaysListed
  BY DEF TypeOK, IInv, Lag, Overlap, Progress, OwnSteps, MoveStaysListed, InFlight,
         Changes, Makes, Removes
<1> QED
  BY <1>1, TypeCorrect, InvariantHolds, PTL

\* The start-up reconcile ends with an index that lists the files exactly, from
\* whatever state the previous process left.
THEOREM RestartRepairs == Spec => ReconcileExact
<1>1. IInv /\ [Next]_vars => [server # "up" /\ server' = "up" => index' = files']_vars
  BY DEF IInv, Repaired, Next, Start, Step, WriteFile, IndexInsert, ReadSource, Unlink,
         IndexDelete, AnnounceMove, Rename, HeadMoved, WriteRefused, StepFails, Abandon,
         Die, IndexWriteback, Reconcile, InsertMissing, RemoveStale, Continue, Answer, vars
<1> QED
  BY <1>1, InvariantHolds, PTL DEF Spec, ReconcileExact

-----------------------------------------------------------------------------
(* Strings *)

\* The strings s and t have n bytes in common, and t goes on with a larger one.
Agree(s, t, n) == n <= Len(s) /\ n <= Len(t) /\ \A i \in 1..n : s[i] = t[i]
LessAt(s, t, n) == Agree(s, t, n) /\ n < Len(t) /\ (n < Len(s) => s[n + 1] < t[n + 1])

\* A string is a function on its length.
LEMMA SeqFacts ==
    ASSUME NEW s \in Seq(Nat)
    PROVE  Len(s) \in Nat /\ s \in [1..Len(s) -> Nat] /\ DOMAIN s = 1..Len(s)
OBVIOUS

\* Two strings have the same first n bytes if they agree on each.
LEMMA SamePrefix ==
    ASSUME NEW s \in Seq(Nat), NEW t \in Seq(Nat), NEW n \in Nat, n <= Len(s), n <= Len(t)
    PROVE  SubSeq(s, 1, n) = SubSeq(t, 1, n) <=> \A i \in 1..n : s[i] = t[i]
<1>1. ASSUME SubSeq(s, 1, n) = SubSeq(t, 1, n), NEW i \in 1..n PROVE s[i] = t[i]
    <2>1. SubSeq(s, 1, n)[i] = s[i] /\ SubSeq(t, 1, n)[i] = t[i]
        OBVIOUS
    <2> QED
        BY <1>1, <2>1
<1>2. ASSUME \A i \in 1..n : s[i] = t[i] PROVE SubSeq(s, 1, n) = SubSeq(t, 1, n)
    <2>1. \A i \in 1..n : SubSeq(s, 1, n)[i] = SubSeq(t, 1, n)[i]
        BY <1>2
    <2>2. SubSeq(s, 1, n) \in Seq(Nat) /\ SubSeq(t, 1, n) \in Seq(Nat)
        OBVIOUS
    <2>3. Len(SubSeq(s, 1, n)) = n /\ Len(SubSeq(t, 1, n)) = n
        OBVIOUS
    <2> QED
        BY <2>1, <2>2, <2>3, SeqEqual
<1> QED
    BY <1>1, <1>2

\* Less is decided at the first byte where the strings differ, or where the
\* first of them ends.
LEMMA LessIs ==
    ASSUME NEW s \in Seq(Nat), NEW t \in Seq(Nat)
    PROVE  Less(s, t) <=> \E n \in Nat : LessAt(s, t, n)
<1>1. ASSUME Less(s, t) PROVE \E n \in Nat : LessAt(s, t, n)
    <2>1. PICK n \in 0..Len(s) : /\ n < Len(t) /\ SubSeq(s, 1, n) = SubSeq(t, 1, n)
                                 /\ n = Len(s) \/ s[n + 1] < t[n + 1]
        BY <1>1 DEF Less
    <2>2. n \in Nat /\ n <= Len(s) /\ n <= Len(t)
        BY <2>1
    <2>3. Agree(s, t, n)
        BY <2>1, <2>2, SamePrefix DEF Agree
    <2> QED
        BY <2>1, <2>2, <2>3 DEF LessAt
<1>2. ASSUME NEW n \in Nat, LessAt(s, t, n) PROVE Less(s, t)
    <2>1. SubSeq(s, 1, n) = SubSeq(t, 1, n)
        BY <1>2, SamePrefix DEF Agree, LessAt
    <2>2. n \in 0..Len(s) /\ (n = Len(s) \/ s[n + 1] < t[n + 1])
        BY <1>2 DEF Agree, LessAt
    <2> QED
        BY <1>2, <2>1, <2>2 DEF Less, LessAt
<1> QED
    BY <1>1, <1>2

\* A prefix is a string all of whose bytes agree.
LEMMA PrefixIs ==
    ASSUME NEW s \in Seq(Nat), NEW t \in Seq(Nat)
    PROVE  IsPrefix(s, t) <=> Agree(s, t, Len(s))
<1>1. Len(s) \in Nat
    BY SeqFacts
<1>2. Len(s) <= Len(t) => (SubSeq(s, 1, Len(s)) = SubSeq(t, 1, Len(s)) <=> \A i \in 1..Len(s) : s[i] = t[i])
    BY <1>1, SamePrefix
<1>3. IsPrefix(s, t) <=> Len(s) <= Len(t) /\ SubSeq(s, 1, Len(s)) = SubSeq(t, 1, Len(s))
    BY DEF IsPrefix
<1>4. Agree(s, t, Len(s)) <=> Len(s) <= Len(t) /\ \A i \in 1..Len(s) : s[i] = t[i]
    BY <1>1 DEF Agree
<1> QED
    BY <1>2, <1>3, <1>4

\* Less orders the strings: never both ways ...
LEMMA LessAsym ==
    ASSUME NEW s \in Seq(Nat), NEW t \in Seq(Nat), Less(s, t)
    PROVE  ~Less(t, s)
<1>1. PICK n \in Nat : LessAt(s, t, n)
    BY LessIs
<1> SUFFICES ASSUME NEW m \in Nat, LessAt(t, s, m)
             PROVE  FALSE
    BY LessIs
<1>2. Len(s) \in Nat /\ s \in [1..Len(s) -> Nat] /\ Len(t) \in Nat /\ t \in [1..Len(t) -> Nat]
    BY SeqFacts
<1>3. CASE n < m
    <2>1. n + 1 \in 1..m /\ n + 1 \in 1..Len(s) /\ n + 1 \in 1..Len(t)
        BY <1>1, <1>2, <1>3 DEF Agree, LessAt
    <2> QED
        BY <1>1, <1>2, <1>3, <2>1 DEF Agree, LessAt
<1>4. CASE m < n
    <2>1. m + 1 \in 1..n /\ m + 1 \in 1..Len(s) /\ m + 1 \in 1..Len(t)
        BY <1>1, <1>2, <1>4 DEF Agree, LessAt
    <2> QED
        BY <1>1, <1>2, <1>4, <2>1 DEF Agree, LessAt
<1>5. CASE m = n
    BY <1>1, <1>2, <1>5 DEF Agree, LessAt
<1> QED
    BY <1>3, <1>4, <1>5

\* ... transitively ...
LEMMA LessTrans ==
    ASSUME NEW s \in Seq(Nat), NEW t \in Seq(Nat), NEW u \in Seq(Nat), Less(s, t), Less(t, u)
    PROVE  Less(s, u)
<1>1. PICK n \in Nat : LessAt(s, t, n)
    BY LessIs
<1>2. PICK m \in Nat : LessAt(t, u, m)
    BY LessIs
<1>3. /\ Len(s) \in Nat /\ s \in [1..Len(s) -> Nat] /\ Len(t) \in Nat /\ t \in [1..Len(t) -> Nat]
      /\ Len(u) \in Nat /\ u \in [1..Len(u) -> Nat]
    BY SeqFacts
<1>4. CASE n < m
    <2>1. n + 1 \in 1..m /\ t[n + 1] = u[n + 1] /\ n < Len(u)
        BY <1>2, <1>3, <1>4 DEF Agree, LessAt
    <2>2. Agree(s, u, n)
        BY <1>1, <1>2, <1>3, <1>4 DEF Agree, LessAt
    <2> QED
        BY <1>1, <2>1, <2>2, LessIs DEF LessAt
<1>5. CASE m < n
    <2>1. m + 1 \in 1..n /\ s[m + 1] = t[m + 1] /\ m < Len(s) /\ m < Len(t)
        BY <1>1, <1>3, <1>5 DEF Agree, LessAt
    <2>2. Agree(s, u, m)
        BY <1>1, <1>2, <1>3, <1>5 DEF Agree, LessAt
    <2> QED
        BY <1>2, <2>1, <2>2, LessIs DEF LessAt
<1>6. CASE m = n
    <2>1. Agree(s, u, n)
        BY <1>1, <1>2, <1>3, <1>6 DEF Agree, LessAt
    <2>2. n < Len(u) /\ (n < Len(s) => s[n + 1] < u[n + 1])
        BY <1>1, <1>2, <1>3, <1>6 DEF LessAt, Agree
    <2> QED
        BY <2>1, <2>2, LessIs DEF LessAt
<1> QED
    BY <1>4, <1>5, <1>6

\* Every set of numbers has a least one, which stands in for an induction.
LEMMA LeastNumber ==
    ASSUME NEW S, S \subseteq Nat, S # {}
    PROVE  \E m \in S : \A k \in S : m <= k
<1>1. PICK m \in S : \A k \in S : ~(<<k, m>> \in OpToRel(<, Nat))
    BY NatLessThanWellFounded, WFMin
<1>2. ASSUME NEW k \in S PROVE m <= k
    <2>1. k \in Nat /\ m \in Nat
        OBVIOUS
    <2>2. k < m => <<k, m>> \in OpToRel(<, Nat)
        BY <2>1 DEF OpToRel
    <2>3. ~(k < m)
        BY <1>1, <2>2
    <2> QED
        BY <2>1, <2>3
<1> QED
    BY <1>2

\* ... and any two that differ.
LEMMA LessTotal ==
    ASSUME NEW s \in Seq(Nat), NEW t \in Seq(Nat), s # t
    PROVE  Less(s, t) \/ Less(t, s)
<1> DEFINE D == {i \in Nat : i + 1 <= Len(s) /\ i + 1 <= Len(t) /\ s[i + 1] # t[i + 1]}
<1>0. Len(s) \in Nat /\ s \in [1..Len(s) -> Nat] /\ Len(t) \in Nat /\ t \in [1..Len(t) -> Nat]
    BY SeqFacts
<1>1. CASE D = {}
    <2>1. ASSUME NEW i \in 1..Len(s), i <= Len(t) PROVE s[i] = t[i]
        <3>1. i - 1 \in Nat /\ (i - 1) + 1 = i
            BY <1>0
        <3>2. i - 1 \notin D
            BY <1>1
        <3> QED
            BY <1>0, <2>1, <3>1, <3>2
    <2>2. CASE Len(s) = Len(t)
        BY <1>0, <2>1, <2>2, SeqEqual
    <2>3. CASE Len(s) < Len(t)
        <3>1. LessAt(s, t, Len(s))
            BY <1>0, <2>1, <2>3 DEF Agree, LessAt
        <3> QED
            BY <1>0, <3>1, LessIs
    <2>4. CASE Len(t) < Len(s)
        <3>1. LessAt(t, s, Len(t))
            BY <1>0, <2>1, <2>4 DEF Agree, LessAt
        <3> QED
            BY <1>0, <3>1, LessIs
    <2>5. Len(s) \in Nat /\ Len(t) \in Nat
        BY <1>0
    <2> QED
        BY <2>2, <2>3, <2>4, <2>5
<1>2. CASE D # {}
    <2>1. PICK n \in D : \A k \in D : n <= k
        <3> HIDE DEF D
        <3>1. D \subseteq Nat
            BY DEF D
        <3> QED
            BY <1>2, <3>1, LeastNumber
    <2>2. n \in Nat /\ n < Len(s) /\ n < Len(t) /\ s[n + 1] # t[n + 1]
        BY <1>0
    <2>3. ASSUME NEW i \in 1..n PROVE s[i] = t[i]
        <3>1. i - 1 \in Nat /\ (i - 1) + 1 = i /\ i - 1 < n
            BY <2>2
        <3>2. i - 1 \notin D
            <4> HIDE DEF D
            <4> QED
                BY <2>1, <2>2, <3>1
        <3> QED
            BY <1>0, <2>2, <3>1, <3>2
    <2>4. Agree(s, t, n) /\ Agree(t, s, n)
        BY <1>0, <2>2, <2>3 DEF Agree
    <2>5. s[n + 1] \in Nat /\ t[n + 1] \in Nat
        BY <1>0, <2>2
    <2>6. CASE s[n + 1] < t[n + 1]
        BY <2>2, <2>4, <2>6, LessIs DEF LessAt
    <2>7. CASE t[n + 1] < s[n + 1]
        BY <2>2, <2>4, <2>7, LessIs DEF LessAt
    <2> QED
        BY <2>2, <2>5, <2>6, <2>7
<1> QED
    BY <1>1, <1>2

-----------------------------------------------------------------------------
(* The bytes of the entries, and the bounds of a scan *)

BucketPart == Len(Bucket) + 1

\* The bytes of a name are numbers.
LEMMA StringsAreNat ==
    ASSUME NEW s \in Seq(1..254)
    PROVE  s \in Seq(Nat) /\ s \in Seq(0..254)
<1>1. 1..254 \subseteq Nat /\ 1..254 \subseteq 0..254
    OBVIOUS
<1>2. s \in Seq(Nat)
    BY <1>1, SeqMonotonic
<1>3. s \in Seq(0..254)
    BY <1>1, SeqMonotonic
<1> QED
    BY <1>2, <1>3

\* The bytes of an encoded key: the bucket, the 0, the key.
LEMMA EncodeFacts ==
    ASSUME NEW key \in Seq(1..254)
    PROVE  /\ Encode(key) \in Seq(0..254) /\ Encode(key) \in Seq(Nat)
           /\ Len(Encode(key)) = BucketPart + Len(key)
           /\ \A i \in 1..Len(Bucket) : Encode(key)[i] = Bucket[i]
           /\ Encode(key)[BucketPart] = 0
           /\ \A i \in 1..Len(key) : Encode(key)[BucketPart + i] = key[i]
<1>1. Bucket \in Seq(0..254) /\ key \in Seq(0..254)
    BY StringsAreNat, BytesAssumption
<1>2. <<0>> \in Seq(0..254) /\ Len(<<0>>) = 1 /\ <<0>>[1] = 0
    OBVIOUS
<1> DEFINE B == Bucket \o <<0>>
<1>3. /\ B \in Seq(0..254) /\ Len(B) = BucketPart
      /\ \A i \in 1..BucketPart : B[i] = IF i <= Len(Bucket) THEN Bucket[i] ELSE 0
    <2>1. B \in Seq(0..254) /\ Len(B) = Len(Bucket) + Len(<<0>>)
        BY <1>1, <1>2, ConcatProperties
    <2>2. \A i \in 1..Len(Bucket) + Len(<<0>>) : B[i] = IF i <= Len(Bucket) THEN Bucket[i] ELSE <<0>>[i - Len(Bucket)]
        BY <1>1, <1>2, ConcatProperties
    <2>3. Len(Bucket) \in Nat
        BY <1>1
    <2> HIDE DEF B
    <2>4. ASSUME NEW i \in 1..BucketPart PROVE B[i] = IF i <= Len(Bucket) THEN Bucket[i] ELSE 0
        <3>1. ~(i <= Len(Bucket)) => i - Len(Bucket) = 1
            BY <2>3 DEF BucketPart
        <3> QED
            BY <1>2, <2>2, <2>3, <3>1 DEF BucketPart
    <2> QED
        BY <1>2, <2>1, <2>3, <2>4 DEF BucketPart
<1>4. Encode(key) = B \o key
    BY DEF Encode
<1> HIDE DEF B
<1>5. /\ Encode(key) \in Seq(0..254) /\ Len(Encode(key)) = Len(B) + Len(key)
      /\ \A i \in 1..Len(B) + Len(key) : Encode(key)[i] = IF i <= Len(B) THEN B[i] ELSE key[i - Len(B)]
    BY <1>1, <1>3, <1>4, ConcatProperties
<1>6. Len(Bucket) \in Nat /\ Len(key) \in Nat
    BY <1>1
<1>7. Encode(key) \in Seq(Nat)
    <2>1. 0..254 \subseteq Nat
        OBVIOUS
    <2> QED
        BY <1>5, <2>1, SeqMonotonic
<1>8. \A i \in 1..Len(Bucket) : Encode(key)[i] = Bucket[i]
    BY <1>3, <1>5, <1>6 DEF BucketPart
<1>9. Encode(key)[BucketPart] = 0
    BY <1>3, <1>5, <1>6 DEF BucketPart
<1>10. ASSUME NEW i \in 1..Len(key) PROVE Encode(key)[BucketPart + i] = key[i]
    <2>1. BucketPart + i \in 1..Len(B) + Len(key) /\ ~(BucketPart + i <= Len(B)) /\ (BucketPart + i) - Len(B) = i
        BY <1>3, <1>6 DEF BucketPart
    <2> QED
        BY <1>5, <2>1
<1> QED
    BY <1>3, <1>5, <1>7, <1>8, <1>9, <1>10

\* hi_bound is the string itself with a byte made larger by one: the last, which is
\* never 255 here, or the 0 behind the bucket.
LEMMA HiBoundFacts ==
    ASSUME NEW p \in Seq(1..254)
    PROVE  /\ HiBound(p) \in Seq(Nat) /\ Len(HiBound(p)) = Len(Encode(p))
           /\ \A i \in 1..Len(Encode(p)) : i < Len(Encode(p)) => HiBound(p)[i] = Encode(p)[i]
           /\ HiBound(p)[Len(Encode(p))] = Encode(p)[Len(Encode(p))] + 1
<1> DEFINE P == Encode(p)
           n == Len(P)
           front == SubSeq(P, 1, n - 1)
           end == <<P[n] + 1>>
<1>1. P \in Seq(Nat) /\ P \in Seq(0..254) /\ n = BucketPart + Len(p) /\ n \in Nat /\ n > 0
    <2>1. Len(Bucket) \in Nat /\ Len(p) \in Nat
        BY BytesAssumption
    <2> QED
        BY <2>1, EncodeFacts DEF BucketPart
<1>2. P \in [1..n -> 0..254] /\ DOMAIN P = 1..n
    <2>1. P \in Seq(0..254)
        BY <1>1
    <2> HIDE DEF P
    <2> QED
        BY <2>1, LenProperties
<1>3. HiBound(p) = front \o end
    <2>1. CASE p = <<>>
        <3>1. Len(p) = 0 /\ n = Len(Bucket) + 1 /\ P[n] = 0 /\ Len(Bucket) \in Nat
            <4>1. Len(p) = 0 /\ Len(Bucket) \in Nat
                BY <2>1, BytesAssumption
            <4>2. n = BucketPart
                BY <1>1, <4>1 DEF BucketPart
            <4>3. P[BucketPart] = 0
                BY EncodeFacts
            <4> QED
                BY <4>1, <4>2, <4>3 DEF BucketPart
        <3>2. front = Bucket
            <4>1. Bucket \in Seq(Nat) /\ front \in Seq(Nat) /\ Len(front) = Len(Bucket)
                BY <1>1, <3>1, StringsAreNat, BytesAssumption
            <4>2. ASSUME NEW i \in 1..Len(front) PROVE front[i] = Bucket[i]
                <5>1. front[i] = P[i]
                    BY <1>1, <3>1, <4>1
                <5> QED
                    BY <4>1, <5>1, EncodeFacts
            <4> HIDE DEF front
            <4> QED
                BY <4>1, <4>2, SeqEqual
        <3>3. end = <<1>>
            BY <3>1
        <3> HIDE DEF front, end
        <3> QED
            BY <2>1, <3>2, <3>3 DEF HiBound
    <2>2. CASE p # <<>>
        <3> DEFINE I == {i \in DOMAIN P : P[i] < 255}
        <3>1. I = 1..n
            <4> HIDE DEF P
            <4>1. ASSUME NEW i \in 1..n PROVE P[i] < 255
                <5>1. PICK byte \in 0..254 : P[i] = byte
                    BY <1>2
                <5> QED
                    BY <5>1
            <4> QED
                BY <1>2, <4>1
        <3>2. Max(I) = n
            <4> DEFINE Top(x) == x \in I /\ \A y \in I : x >= y
            <4>1. Top(n) /\ \A x : Top(x) => x = n
                <5> HIDE DEF n, I
                <5> QED
                    BY <1>1, <3>1
            <4>2. Max(I) = CHOOSE x \in I : \A y \in I : x >= y
                BY DEF Max
            <4> HIDE DEF I, n
            <4> QED
                BY <4>1, <4>2
        <3>3. HiBound(p) = SubSeq(P, 1, Max(I) - 1) \o <<P[Max(I)] + 1>>
            BY <2>2 DEF HiBound
        <3> HIDE DEF I, P
        <3> QED
            BY <3>2, <3>3
    <2> QED
        BY <2>1, <2>2
<1>4. front \in Seq(Nat) /\ Len(front) = n - 1 /\ \A i \in 1..n - 1 : front[i] = P[i]
    <2> HIDE DEF P
    <2> QED
        BY <1>1
<1>5. end \in Seq(Nat) /\ Len(end) = 1 /\ end[1] = P[n] + 1
    <2>1. P[n] + 1 \in Nat
        BY <1>1, <1>2
    <2> HIDE DEF P
    <2> QED
        BY <2>1
<1> HIDE DEF P, front, end
<1>50. front \in Seq(Nat) /\ end \in Seq(Nat)
    BY <1>4, <1>5
<1>6. /\ HiBound(p) \in Seq(Nat)
      /\ Len(HiBound(p)) = Len(front) + Len(end)
      /\ \A i \in 1..Len(front) + Len(end) :
            HiBound(p)[i] = IF i <= Len(front) THEN front[i] ELSE end[i - Len(front)]
    BY <1>3, <1>50, ConcatProperties
<1>7. Len(front) + Len(end) = n
    BY <1>1, <1>4, <1>5
<1>8. \A i \in 1..n : i < n => HiBound(p)[i] = P[i]
    <2>1. ASSUME NEW i \in 1..n, i < n PROVE HiBound(p)[i] = P[i]
        <3>1. i \in 1..Len(front) + Len(end) /\ i <= Len(front) /\ i \in 1..n - 1
            BY <1>1, <1>4, <1>7, <2>1
        <3> QED
            BY <1>4, <1>6, <3>1
    <2> QED
        BY <2>1
<1>9. HiBound(p)[n] = P[n] + 1
    BY <1>1, <1>4, <1>5, <1>6, <1>7
<1> QED
    BY <1>6, <1>7, <1>8, <1>9 DEF P

\* A string is between Encode(p) and its bound exactly if it begins with Encode(p).
LEMMA BoundsArePrefix ==
    ASSUME NEW p \in Seq(1..254), NEW e \in Seq(Nat)
    PROVE  (~Less(e, Encode(p)) /\ Less(e, HiBound(p))) <=> Agree(Encode(p), e, Len(Encode(p)))
<1> DEFINE P == Encode(p)
           H == HiBound(p)
           n == Len(P)
<1>1. P \in Seq(Nat) /\ n \in Nat /\ n > 0
    <2>1. Len(Bucket) \in Nat /\ Len(p) \in Nat
        BY BytesAssumption
    <2> QED
        BY <2>1, EncodeFacts DEF BucketPart
<1>2. H \in Seq(Nat) /\ Len(H) = n /\ (\A i \in 1..n : i < n => H[i] = P[i]) /\ H[n] = P[n] + 1
    BY HiBoundFacts
<1> HIDE DEF P, H
<1>3. P \in [1..n -> Nat] /\ e \in [1..Len(e) -> Nat] /\ Len(e) \in Nat
    BY <1>1, SeqFacts
<1>4. ASSUME ~Less(e, P), Less(e, H) PROVE Agree(P, e, n)
    <2>1. PICK m \in Nat : LessAt(e, H, m)
        BY <1>2, <1>4, LessIs
    <2>2. ~LessAt(e, P, m)
        BY <1>1, <1>4, LessIs
    <2>3. m < n /\ m <= Len(e) /\ \A i \in 1..m : e[i] = H[i]
        BY <1>2, <2>1 DEF LessAt, Agree
    <2>4. ASSUME NEW i \in 1..m PROVE e[i] = P[i]
        <3>1. i \in 1..n /\ i < n
            BY <1>1, <2>3
        <3> QED
            BY <1>2, <2>3, <3>1
    <2>5. Agree(e, P, m)
        BY <2>3, <2>4 DEF Agree
    <2>6. m < Len(e) /\ ~(e[m + 1] < P[m + 1])
        BY <1>3, <2>2, <2>3, <2>5 DEF LessAt
    <2>7. e[m + 1] < H[m + 1]
        BY <2>1, <2>6 DEF LessAt
    <2>8. m + 1 \in 1..n /\ (m + 1 < n => H[m + 1] = P[m + 1])
        BY <1>1, <1>2, <2>3
    <2>9. m + 1 = n
        BY <1>1, <2>6, <2>7, <2>8
    <2>10. e[n] < P[n] + 1 /\ ~(e[n] < P[n]) /\ e[n] \in Nat /\ P[n] \in Nat
        <3>1. n \in 1..Len(e) /\ n \in 1..n
            BY <1>1, <1>3, <2>6, <2>9
        <3> QED
            BY <1>2, <1>3, <2>6, <2>7, <2>9, <3>1
    <2>11. e[n] = P[n]
        BY <2>10
    <2>12. ASSUME NEW i \in 1..n PROVE P[i] = e[i]
        <3>1. i \in 1..m \/ i = n
            BY <1>1, <2>9
        <3> QED
            BY <2>4, <2>11, <3>1
    <2> QED
        BY <1>1, <1>3, <2>6, <2>9, <2>12 DEF Agree
<1>5. ASSUME Agree(P, e, n) PROVE ~Less(e, P) /\ Less(e, H)
    <2>01. n <= Len(e) /\ \A i \in 1..n : e[i] = P[i]
        BY <1>5 DEF Agree
    <2>02. n \in 1..n
        BY <1>1
    <2>0. n <= Len(e) /\ (\A i \in 1..n : e[i] = P[i]) /\ n \in 1..n
        BY <2>01, <2>02
    <2>1. LessAt(e, H, n - 1)
        <3>1. n - 1 \in Nat /\ (n - 1) + 1 = n /\ P[n] \in Nat
            BY <1>1, <1>3, <2>0
        <3>2. ASSUME NEW i \in 1..n - 1 PROVE e[i] = H[i]
            <4>1. i \in 1..n /\ i < n
                BY <1>1
            <4> QED
                BY <1>2, <2>0, <4>1
        <3>3. Agree(e, H, n - 1)
            BY <1>1, <1>2, <1>3, <2>0, <3>2 DEF Agree
        <3>4. e[n] < H[n]
            BY <1>2, <2>0, <3>1
        <3> QED
            BY <1>1, <1>2, <3>1, <3>3, <3>4 DEF LessAt
    <2>2. ASSUME NEW m \in Nat, LessAt(e, P, m) PROVE FALSE
        <3>1. m < n /\ m < Len(e) /\ m + 1 \in 1..n
            BY <1>1, <1>3, <1>5, <2>2 DEF Agree, LessAt
        <3>2. e[m + 1] = P[m + 1] /\ e[m + 1] < P[m + 1] /\ P[m + 1] \in Nat
            BY <1>3, <1>5, <2>2, <3>1 DEF Agree, LessAt
        <3> QED
            BY <3>2
    <2>3. n - 1 \in Nat
        BY <1>1
    <2> QED
        BY <1>1, <1>2, <2>1, <2>2, <2>3, LessIs
<1> QED
    BY <1>4, <1>5 DEF P, H

\* Keys and neighbours have their own entries.
LEMMA EntryFacts ==
    /\ \A n \in Keys \cup Neighbours : Entry[n] \in Seq(Nat) /\ n \in Nat
    /\ \A k \in Keys : Entry[k] = Encode(Name[k]) /\ Name[k] \in Seq(1..254) /\ Name[k] \in Seq(Nat)
    /\ \A n \in Neighbours : Entry[n] = Others[n] /\ n \notin Keys
<1>1. ASSUME NEW k \in Keys
      PROVE  Entry[k] = Encode(Name[k]) /\ Name[k] \in Seq(1..254) /\ Name[k] \in Seq(Nat)
             /\ Encode(Name[k]) \in Seq(Nat)
    <2>1. Name[k] \in Seq(1..254)
        BY BytesAssumption
    <2>2. Entry[k] = Encode(Name[k])
        BY DEF Entry
    <2> QED
        BY <2>1, <2>2, StringsAreNat, EncodeFacts
<1>2. ASSUME NEW n \in Neighbours
      PROVE  Entry[n] = Others[n] /\ n \notin Keys /\ Entry[n] \in Seq(Nat)
    <2>1. Others[n] \in Seq(0..254) /\ n \notin Keys
        BY BytesAssumption, PageAssumption
    <2>2. Entry[n] = Others[n]
        BY <2>1 DEF Entry
    <2>3. 0..254 \subseteq Nat
        OBVIOUS
    <2> QED
        BY <2>1, <2>2, <2>3, SeqMonotonic
<1>3. ASSUME NEW n \in Keys \cup Neighbours PROVE Entry[n] \in Seq(Nat) /\ n \in Nat
    BY <1>1, <1>2, PageAssumption
<1> QED
    BY <1>1, <1>2, <1>3

\* A key has the prefix exactly if its entry begins like the encoded prefix.
LEMMA EncodedPrefix ==
    ASSUME NEW p \in Seq(1..254), NEW key \in Seq(1..254)
    PROVE  Agree(Encode(p), Encode(key), Len(Encode(p))) <=> IsPrefix(p, key)
<1>1. p \in Seq(Nat) /\ key \in Seq(Nat) /\ Len(p) \in Nat /\ Len(key) \in Nat
    BY StringsAreNat
<1>2. BucketPart \in Nat /\ Len(Bucket) \in Nat /\ BucketPart = Len(Bucket) + 1
    BY BytesAssumption DEF BucketPart
<1>3. /\ Len(Encode(p)) = BucketPart + Len(p) /\ Len(Encode(key)) = BucketPart + Len(key)
      /\ \A i \in 1..Len(Bucket) : Encode(p)[i] = Bucket[i] /\ Encode(key)[i] = Bucket[i]
      /\ Encode(p)[BucketPart] = 0 /\ Encode(key)[BucketPart] = 0
      /\ \A i \in 1..Len(p) : Encode(p)[BucketPart + i] = p[i]
      /\ \A i \in 1..Len(key) : Encode(key)[BucketPart + i] = key[i]
    BY EncodeFacts
<1>4. ASSUME Agree(Encode(p), Encode(key), Len(Encode(p))) PROVE Agree(p, key, Len(p))
    <2>1. Len(p) <= Len(key)
        BY <1>1, <1>2, <1>3, <1>4 DEF Agree
    <2>2. ASSUME NEW i \in 1..Len(p) PROVE p[i] = key[i]
        <3>1. BucketPart + i \in 1..Len(Encode(p)) /\ i \in 1..Len(key)
            BY <1>1, <1>2, <1>3, <2>1
        <3>2. Encode(p)[BucketPart + i] = Encode(key)[BucketPart + i]
            BY <1>4, <3>1 DEF Agree
        <3> QED
            BY <1>3, <3>1, <3>2
    <2> QED
        BY <1>1, <2>1, <2>2 DEF Agree
<1>5. ASSUME Agree(p, key, Len(p)) PROVE Agree(Encode(p), Encode(key), Len(Encode(p)))
    <2>1. Len(p) <= Len(key) /\ \A i \in 1..Len(p) : p[i] = key[i]
        BY <1>5 DEF Agree
    <2>2. ASSUME NEW i \in 1..Len(Encode(p)) PROVE Encode(p)[i] = Encode(key)[i]
        <3>1. CASE i \in 1..Len(Bucket)
            BY <1>3, <3>1
        <3>2. CASE i = BucketPart
            BY <1>3, <3>2
        <3>3. CASE i > BucketPart
            <4>1. i - BucketPart \in 1..Len(p) /\ i - BucketPart \in 1..Len(key)
                  /\ BucketPart + (i - BucketPart) = i
                BY <1>1, <1>2, <1>3, <2>1, <3>3
            <4>2. Encode(p)[BucketPart + (i - BucketPart)] = p[i - BucketPart]
                BY <1>3, <4>1
            <4>3. Encode(key)[BucketPart + (i - BucketPart)] = key[i - BucketPart]
                BY <1>3, <4>1
            <4> QED
                BY <2>1, <4>1, <4>2, <4>3
        <3> QED
            BY <1>1, <1>2, <1>3, <3>1, <3>2, <3>3
    <2>3. Len(Encode(p)) <= Len(Encode(key)) /\ Len(Encode(p)) <= Len(Encode(p))
        BY <1>1, <1>2, <1>3, <2>1
    <2> QED
        BY <2>2, <2>3 DEF Agree
<1> QED
    BY <1>1, <1>4, <1>5, PrefixIs

\* No entry of another bucket begins like one of this.
LEMMA NeighboursApart ==
    ASSUME NEW n \in Neighbours, NEW p \in Seq(1..254)
    PROVE  ~Agree(Encode(p), Others[n], Len(Encode(p)))
<1> DEFINE B == Bucket \o <<0>>
<1>1. Bucket \in Seq(0..254) /\ <<0>> \in Seq(0..254) /\ Len(<<0>>) = 1 /\ Len(Bucket) \in Nat
    BY StringsAreNat, BytesAssumption
<1>2. /\ B \in Seq(0..254) /\ Len(B) = BucketPart
      /\ \A i \in 1..BucketPart : B[i] = IF i <= Len(Bucket) THEN Bucket[i] ELSE 0
    <2>1. B \in Seq(0..254) /\ Len(B) = Len(Bucket) + Len(<<0>>)
        BY <1>1, ConcatProperties
    <2>2. \A i \in 1..Len(Bucket) + Len(<<0>>) : B[i] = IF i <= Len(Bucket) THEN Bucket[i] ELSE <<0>>[i - Len(Bucket)]
        BY <1>1, ConcatProperties
    <2> HIDE DEF B
    <2>4. ASSUME NEW i \in 1..BucketPart PROVE B[i] = IF i <= Len(Bucket) THEN Bucket[i] ELSE 0
        <3>1. ~(i <= Len(Bucket)) => i - Len(Bucket) = 1
            BY <1>1 DEF BucketPart
        <3> QED
            BY <1>1, <2>2, <3>1 DEF BucketPart
    <2> QED
        BY <1>1, <2>1, <2>4 DEF BucketPart
<1>3. B \in Seq(Nat) /\ Others[n] \in Seq(Nat)
    <2>1. 0..254 \subseteq Nat /\ Others[n] \in Seq(0..254)
        BY BytesAssumption
    <2> HIDE DEF B
    <2> QED
        BY <1>2, <2>1, SeqMonotonic
<1>4. ~IsPrefix(B, Others[n])
    BY BytesAssumption
<1> HIDE DEF B
<1>5. SUFFICES ASSUME Agree(Encode(p), Others[n], Len(Encode(p))) PROVE Agree(B, Others[n], Len(B))
    BY <1>3, <1>4, PrefixIs
<1>6. BucketPart \in Nat /\ BucketPart = Len(Bucket) + 1 /\ Len(p) \in Nat
    BY <1>1 DEF BucketPart
<1>7. /\ Len(Encode(p)) = BucketPart + Len(p) /\ Encode(p)[BucketPart] = 0
      /\ \A i \in 1..Len(Bucket) : Encode(p)[i] = Bucket[i]
    BY EncodeFacts
<1>8. ASSUME NEW i \in 1..BucketPart PROVE B[i] = Others[n][i]
    <2>1. i \in 1..Len(Encode(p)) /\ (i \in 1..Len(Bucket) \/ i = BucketPart)
        BY <1>1, <1>6, <1>7
    <2>2. B[i] = Encode(p)[i]
        BY <1>1, <1>2, <1>6, <1>7, <2>1
    <2> QED
        BY <1>5, <2>1, <2>2 DEF Agree
<1>9. BucketPart <= Len(Others[n])
    BY <1>3, <1>5, <1>6, <1>7 DEF Agree
<1> QED
    BY <1>2, <1>6, <1>8, <1>9 DEF Agree

\* The numbers of the entries are in the order of their bytes.
LEMMA OrderIs ==
    ASSUME NEW m \in Keys \cup Neighbours, NEW n \in Keys \cup Neighbours
    PROVE  Less(Entry[m], Entry[n]) <=> m < n
<1>1. m \in Nat /\ n \in Nat /\ Entry[m] \in Seq(Nat) /\ Entry[n] \in Seq(Nat)
    BY EntryFacts
<1>2. (m < n => Less(Entry[m], Entry[n])) /\ (n < m => Less(Entry[n], Entry[m]))
    BY OrderAssumption
<1>3. Less(Entry[m], Entry[n]) => ~Less(Entry[n], Entry[m])
    BY <1>1, LessAsym
<1> QED
    BY <1>1, <1>2, <1>3

\* What is not below a string with a 0 appended is above the string.
LEMMA JustAfter ==
    ASSUME NEW s \in Seq(Nat), NEW e \in Seq(Nat)
    PROVE  ~Less(e, s \o <<0>>) <=> Less(s, e)
<1> DEFINE t == s \o <<0>>
<1>1. t \in Seq(Nat) /\ Len(t) = Len(s) + 1 /\ (\A i \in 1..Len(s) : t[i] = s[i]) /\ t[Len(s) + 1] = 0
    OBVIOUS
<1>2. Len(s) \in Nat /\ Len(e) \in Nat /\ e \in [1..Len(e) -> Nat] /\ s \in [1..Len(s) -> Nat]
    BY SeqFacts
<1> HIDE DEF t
<1>l. Len(s) \in Nat /\ Len(e) \in Nat /\ Len(t) = Len(s) + 1
    BY <1>1, <1>2
<1>3. LessAt(s, t, Len(s))
    BY <1>1, <1>2 DEF LessAt, Agree
<1>4. Less(s, t)
    BY <1>1, <1>2, <1>3, LessIs
<1>5. ASSUME ~Less(e, t) PROVE Less(s, e)
    <2>1. e # s
        BY <1>4, <1>5
    <2>2. ~Less(e, s)
        BY <1>1, <1>4, <1>5, LessTrans
    <2> QED
        BY <2>1, <2>2, LessTotal
<1>6. ASSUME Less(s, e), Less(e, t) PROVE FALSE
    <2>1. PICK m \in Nat : LessAt(e, t, m)
        BY <1>1, <1>6, LessIs
    <2>2. CASE m < Len(s)
        <3>1. m + 1 \in 1..Len(s)
            BY <1>2, <2>2
        <3>2. ASSUME NEW i \in 1..m PROVE e[i] = s[i]
            BY <1>1, <1>2, <2>1, <2>2 DEF LessAt, Agree
        <3>3. m < Len(e) => e[m + 1] < s[m + 1]
            BY <1>1, <2>1, <3>1 DEF LessAt
        <3>4. LessAt(e, s, m)
            BY <1>2, <2>1, <2>2, <3>2, <3>3 DEF LessAt, Agree
        <3>5. Less(e, s)
            BY <3>4, LessIs
        <3> QED
            BY <1>6, <3>5, LessAsym
    <2>3. CASE m = Len(s)
        <3>1. ~(m < Len(e))
            <4>1. m < Len(e) => e[m + 1] < 0 /\ e[m + 1] \in Nat
                BY <1>1, <1>2, <2>1, <2>3 DEF LessAt
            <4> QED
                BY <4>1
        <3>2. Len(e) = Len(s) /\ \A i \in 1..Len(e) : e[i] = s[i]
            <4>1. m <= Len(e) /\ \A i \in 1..m : e[i] = t[i]
                BY <2>1 DEF LessAt, Agree
            <4>2. Len(e) = Len(s)
                BY <1>l, <2>3, <3>1, <4>1
            <4> QED
                BY <1>1, <2>3, <4>1, <4>2
        <3>3. e = s
            BY <3>2, SeqEqual
        <3> QED
            BY <1>6, <3>3, LessAsym
    <2>4. m < Len(s) \/ m = Len(s)
        BY <1>l, <2>1 DEF LessAt
    <2> QED
        BY <2>2, <2>3, <2>4
<1> QED
    BY <1>5, <1>6 DEF t

\* The range of a scan holds the keys with the prefix behind the cursor, and nothing of
\* another bucket (Index::scan, hi_bound).
LEMMA RangeIsRight ==
    ASSUME NEW p \in AskedPrefixes, NEW c \in Keys \cup {0}, c # 0 => IsPrefix(p, Name[c])
    PROVE  InRange[p][c] = {k \in Keys : IsPrefix(p, Name[k]) /\ c < k}
<1>1. p \in Seq(1..254)
    BY BytesAssumption
<1>2. 0 \notin Keys /\ Keys \subseteq Nat
    BY PageAssumption
<1>3. ASSUME NEW n \in Keys \cup Neighbours
      PROVE  /\ ~Less(Entry[n], Encode(p)) /\ Less(Entry[n], HiBound(p))
             <=> n \in Keys /\ IsPrefix(p, Name[n])
    <2>1. Entry[n] \in Seq(Nat)
        BY EntryFacts
    <2>2. (~Less(Entry[n], Encode(p)) /\ Less(Entry[n], HiBound(p)))
            <=> Agree(Encode(p), Entry[n], Len(Encode(p)))
        BY <1>1, <2>1, BoundsArePrefix
    <2>3. CASE n \in Keys
        <3>1. Entry[n] = Encode(Name[n]) /\ Name[n] \in Seq(1..254)
            BY <2>3, EntryFacts
        <3> QED
            BY <1>1, <2>2, <2>3, <3>1, EncodedPrefix
    <2>4. CASE n \in Neighbours
        <3>1. Entry[n] = Others[n] /\ n \notin Keys
            BY <2>4, EntryFacts
        <3> QED
            BY <1>1, <2>2, <2>4, <3>1, NeighboursApart
    <2> QED
        BY <2>3, <2>4
<1>4. ASSUME NEW k \in Keys PROVE Len(Entry[k]) > Len(Bucket) + 1
    <2>1. Entry[k] = Encode(Name[k]) /\ Name[k] \in Seq(1..254) /\ Name[k] # <<>>
        BY EntryFacts, BytesAssumption
    <2>2. Len(Name[k]) \in Nat /\ Len(Name[k]) # 0 /\ Len(Bucket) \in Nat
        BY <2>1, EmptySeq, BytesAssumption
    <2> QED
        BY <2>1, <2>2, EncodeFacts DEF BucketPart
<1>5. ASSUME NEW n \in Keys \cup Neighbours
      PROVE  (~Less(Entry[n], LoBound(p, c)) /\ Less(Entry[n], HiBound(p)))
             <=> (n \in Keys /\ IsPrefix(p, Name[n]) /\ c < n)
    <2>1. CASE c = 0
        <3>1. n \in Keys => 0 < n
            BY PageAssumption
        <3>2. LoBound(p, c) = Encode(p)
            BY <2>1 DEF LoBound
        <3> QED
            BY <1>3, <2>1, <3>1, <3>2
    <2>2. CASE c # 0
        <3>1. c \in Keys /\ IsPrefix(p, Name[c]) /\ Entry[c] = Encode(Name[c])
              /\ Entry[c] \in Seq(Nat) /\ Entry[n] \in Seq(Nat)
            BY <2>2, EntryFacts
        <3>2. LoBound(p, c) = Entry[c] \o <<0>>
            BY <2>2, <3>1 DEF LoBound
        <3>3. ~Less(Entry[n], LoBound(p, c)) <=> c < n
            BY <3>1, <3>2, JustAfter, OrderIs
        <3>4. ~Less(Entry[c], Encode(p))
            BY <1>3, <3>1
        <3>5. c < n => ~Less(Entry[n], Encode(p))
            <4>1. Encode(p) \in Seq(Nat)
                BY <1>1, EncodeFacts
            <4>2. c < n => Less(Entry[c], Entry[n])
                BY <3>1, OrderIs
            <4>3. Less(Entry[c], Entry[n]) /\ Less(Entry[n], Encode(p)) => Less(Entry[c], Encode(p))
                BY <3>1, <4>1, LessTrans
            <4> QED
                BY <3>4, <4>2, <4>3
        <3> QED
            BY <1>3, <3>3, <3>5
    <2> QED
        BY <2>1, <2>2
<1>i. <<p, c>> \in AskedPrefixes \X (Keys \cup {0}) /\ <<p, c>>[1] = p /\ <<p, c>>[2] = c
    OBVIOUS
<1>6. InRange[p][c] = {n \in Keys \cup Neighbours : /\ ~Less(Entry[n], LoBound(p, c))
                                                   /\ Less(Entry[n], HiBound(p))
                                                   /\ Len(Entry[n]) > Len(Bucket) + 1}
    BY <1>i DEF InRange
<1>7. ASSUME NEW n PROVE n \in InRange[p][c] <=> n \in {k \in Keys : IsPrefix(p, Name[k]) /\ c < k}
    BY <1>4, <1>5, <1>6
<1> QED
    BY <1>7

-----------------------------------------------------------------------------
(* Sorting *)

\* R orders the elements of S, each before or after each other.
Orders(R, S) ==
    /\ \A x, y \in S : x # y => <<x, y>> \in R \/ <<y, x>> \in R
    /\ \A x, y \in S : <<x, y>> \in R => <<y, x>> \notin R
    /\ \A x, y, z \in S : <<x, y>> \in R /\ <<y, z>> \in R => <<x, z>> \in R

\* What comes later has more before it.
LEMMA OrderCounts ==
    ASSUME NEW S, IsFiniteSet(S), NEW R, Orders(R, S), NEW x \in S, NEW y \in S, <<x, y>> \in R
    PROVE  Cardinality({z \in S : <<z, x>> \in R}) < Cardinality({z \in S : <<z, y>> \in R})
<1> DEFINE X == {z \in S : <<z, x>> \in R}
           Y == {z \in S : <<z, y>> \in R}
<1>1. IsFiniteSet(Y) /\ IsFiniteSet(X)
    <2>1. X \in SUBSET S /\ Y \in SUBSET S
        OBVIOUS
    <2> HIDE DEF X, Y
    <2> QED
        BY <2>1, FS_Subset
<1>2. X \subseteq Y /\ x \in Y /\ x \notin X
    BY DEF Orders
<1> HIDE DEF X, Y
<1>3. Cardinality(X) <= Cardinality(Y) /\ (Cardinality(Y) = Cardinality(X) => Y = X)
    BY <1>1, <1>2, FS_Subset
<1>4. Cardinality(X) \in Nat /\ Cardinality(Y) \in Nat
    BY <1>1, FS_CardinalityType
<1>5. Cardinality(X) < Cardinality(Y)
    BY <1>2, <1>3, <1>4
<1> QED
    BY <1>5 DEF X, Y

\* A finite set can be put in order: each element at the number of those before it.
LEMMA SortedExists ==
    ASSUME NEW S, IsFiniteSet(S), NEW R, Orders(R, S)
    PROVE  \E q \in [1..Cardinality(S) -> S] :
              \A i, j \in 1..Cardinality(S) : i < j => <<q[i], q[j]>> \in R
<1> DEFINE n == Cardinality(S)
           Below(x) == {z \in S : <<z, x>> \in R}
           rank == [x \in S |-> 1 + Cardinality(Below(x))]
<1>1. n \in Nat
    BY FS_CardinalityType
<1>2. ASSUME NEW x \in S PROVE rank[x] \in 1..n
    <2>1. Below(x) \subseteq S /\ x \notin Below(x)
        BY DEF Orders
    <2>2. Below(x) \in SUBSET S /\ Below(x) # S
        BY <2>1
    <2> HIDE DEF Below
    <2>3. IsFiniteSet(Below(x)) /\ Cardinality(Below(x)) <= Cardinality(S)
          /\ (Cardinality(S) = Cardinality(Below(x)) => S = Below(x))
        BY <2>2, FS_Subset
    <2>4. Cardinality(Below(x)) \in Nat
        BY <2>3, FS_CardinalityType
    <2>5. Cardinality(Below(x)) < n
        BY <1>1, <2>2, <2>3, <2>4
    <2> HIDE DEF n
    <2>6. 1 + Cardinality(Below(x)) \in 1..n
        BY <1>1, <2>4, <2>5
    <2> QED
        BY <2>6
<1>3. ASSUME NEW x \in S, NEW y \in S, <<x, y>> \in R PROVE rank[x] < rank[y]
    <2>1. Cardinality(Below(x)) < Cardinality(Below(y))
        BY <1>3, OrderCounts
    <2>2. Below(x) \in SUBSET S /\ Below(y) \in SUBSET S
        OBVIOUS
    <2> HIDE DEF Below
    <2>3. Cardinality(Below(x)) \in Nat /\ Cardinality(Below(y)) \in Nat
        BY <2>2, FS_Subset, FS_CardinalityType
    <2> QED
        BY <2>1, <2>3
<1> HIDE DEF rank
<1>4. rank \in [S -> 1..n]
    BY <1>2 DEF rank
<1>5. ASSUME NEW x \in S, NEW y \in S, rank[x] = rank[y] PROVE x = y
    <2>1. rank[x] \in Nat
        BY <1>1, <1>2
    <2>2. x # y => rank[x] < rank[y] \/ rank[y] < rank[x]
        BY <1>3 DEF Orders
    <2> QED
        BY <1>5, <2>1, <2>2
<1>6. rank \in Injection(S, 1..n)
    BY <1>4, <1>5 DEF Injection, IsInjective
<1>7. IsFiniteSet(1..n) /\ Cardinality(1..n) = n
    BY <1>1, FS_Interval
<1>8. rank \in Surjection(S, 1..n)
    BY <1>6, <1>7, FS_Injection
<1>9. ASSUME NEW k \in 1..n PROVE \E x \in S : rank[x] = k
    BY <1>8 DEF Surjection
<1> DEFINE q == [k \in 1..n |-> CHOOSE x \in S : rank[x] = k]
<1>10. ASSUME NEW k \in 1..n PROVE q[k] \in S /\ rank[q[k]] = k
    BY <1>9
<1>11. q \in [1..n -> S]
    BY <1>10
<1>12. ASSUME NEW i \in 1..n, NEW j \in 1..n, i < j PROVE <<q[i], q[j]>> \in R
    <2>1. q[i] \in S /\ rank[q[i]] = i /\ q[j] \in S /\ rank[q[j]] = j
        BY <1>10
    <2> HIDE DEF q
    <2>2. q[i] # q[j]
        BY <1>12, <2>1
    <2>3. <<q[j], q[i]>> \in R => j < i
        BY <1>3, <2>1
    <2>4. <<q[i], q[j]>> \in R \/ <<q[j], q[i]>> \in R
        BY <2>1, <2>2 DEF Orders
    <2> QED
        BY <1>1, <1>12, <2>3, <2>4
<1> QED
    BY <1>11, <1>12

\* A sequence in order that is as long as the set has all of its elements.
LEMMA SortedCovers ==
    ASSUME NEW S, IsFiniteSet(S), NEW R, Orders(R, S),
           NEW q \in [1..Cardinality(S) -> S],
           \A i, j \in 1..Cardinality(S) : i < j => <<q[i], q[j]>> \in R
    PROVE  \A x \in S : \E i \in 1..Cardinality(S) : q[i] = x
<1> DEFINE n == Cardinality(S)
<1>1. n \in Nat /\ IsFiniteSet(1..n) /\ Cardinality(1..n) = n
    BY FS_CardinalityType, FS_Interval
<1>2. ASSUME NEW i \in 1..n, NEW j \in 1..n, i < j PROVE q[i] # q[j]
    BY <1>2 DEF Orders
<1>3. ASSUME NEW i \in 1..n, NEW j \in 1..n, q[i] = q[j] PROVE i = j
    <2>1. i \in Nat /\ j \in Nat
        BY <1>1
    <2>2. ~(i < j) /\ ~(j < i)
        BY <1>2, <1>3
    <2> QED
        BY <2>1, <2>2
<1>4. q \in Injection(1..n, S)
    BY <1>3 DEF Injection, IsInjective
<1>5. q \in Surjection(1..n, S)
    BY <1>1, <1>4, FS_Injection
<1> QED
    BY <1>5 DEF Surjection

\* Sorted on keys.
LEMMA SortedNumbers ==
    ASSUME NEW S, S \subseteq Nat, IsFiniteSet(S)
    PROVE  LET q == Sorted(S, <)
           IN  /\ q \in Seq(S)
               /\ \A i, j \in DOMAIN q : i < j => q[i] < q[j]
               /\ \A x \in S : \E i \in DOMAIN q : q[i] = x
<1> DEFINE q == Sorted(S, <)
           n == Cardinality(S)
           R == {r \in S \X S : r[1] < r[2]}
<1>1. \A x, y \in S : <<x, y>> \in R <=> x < y
    OBVIOUS
<1>2. Orders(R, S)
    <2> HIDE DEF R
    <2> QED
        BY <1>1 DEF Orders
<1>3. \E s \in [1..n -> S] : \A i, j \in 1..n : i < j => s[i] < s[j]
    <2> HIDE DEF R
    <2>1. PICK s \in [1..n -> S] : \A i, j \in 1..n : i < j => <<s[i], s[j]>> \in R
        BY <1>2, SortedExists
    <2>2. \A i, j \in 1..n : i < j => s[i] < s[j]
        BY <1>1, <2>1
    <2> QED
        BY <2>2
<1>4. q \in [1..n -> S] /\ \A i, j \in 1..n : i < j => q[i] < q[j]
    BY <1>3 DEF Sorted
<1> HIDE DEF q, R
<1>5. \A i, j \in 1..n : i < j => <<q[i], q[j]>> \in R
    BY <1>1, <1>4
<1>6. \A x \in S : \E i \in 1..n : q[i] = x
    BY <1>2, <1>4, <1>5, SortedCovers
<1>7. n \in Nat
    BY FS_CardinalityType
<1>8. DOMAIN q = 1..n /\ q \in Seq(S)
    BY <1>4, <1>7
<1>9. /\ q \in Seq(S)
      /\ \A i, j \in DOMAIN q : i < j => q[i] < q[j]
      /\ \A x \in S : \E i \in DOMAIN q : q[i] = x
    BY <1>4, <1>6, <1>8
<1> QED
    BY <1>9 DEF q

\* Sorted on groups.
LEMMA SortedStrings ==
    ASSUME NEW S, S \subseteq Seq(Nat), IsFiniteSet(S)
    PROVE  LET q == Sorted(S, Less)
           IN  /\ q \in Seq(S)
               /\ \A i, j \in DOMAIN q : i < j => Less(q[i], q[j])
               /\ \A x \in S : \E i \in DOMAIN q : q[i] = x
<1> DEFINE q == Sorted(S, Less)
           n == Cardinality(S)
           R == {r \in S \X S : Less(r[1], r[2])}
<1>1. \A x, y \in S : <<x, y>> \in R <=> Less(x, y)
    OBVIOUS
<1>2. Orders(R, S)
    <2>1. \A x \in S : x \in Seq(Nat)
        OBVIOUS
    <2> HIDE DEF R
    <2>2. ASSUME NEW x \in S, NEW y \in S
          PROVE  (x # y => Less(x, y) \/ Less(y, x)) /\ (Less(x, y) => ~Less(y, x))
        BY <2>1, LessTotal, LessAsym
    <2>3. ASSUME NEW x \in S, NEW y \in S, NEW z \in S, Less(x, y), Less(y, z) PROVE Less(x, z)
        BY <2>1, <2>3, LessTrans
    <2> QED
        BY <1>1, <2>2, <2>3 DEF Orders
<1>3. \E s \in [1..n -> S] : \A i, j \in 1..n : i < j => Less(s[i], s[j])
    <2> HIDE DEF R
    <2>1. PICK s \in [1..n -> S] : \A i, j \in 1..n : i < j => <<s[i], s[j]>> \in R
        BY <1>2, SortedExists
    <2>2. \A i, j \in 1..n : i < j => Less(s[i], s[j])
        BY <1>1, <2>1
    <2> QED
        BY <2>2
<1>4. q \in [1..n -> S] /\ \A i, j \in 1..n : i < j => Less(q[i], q[j])
    BY <1>3 DEF Sorted
<1> HIDE DEF q, R
<1>5. \A i, j \in 1..n : i < j => <<q[i], q[j]>> \in R
    BY <1>1, <1>4
<1>6. \A x \in S : \E i \in 1..n : q[i] = x
    BY <1>2, <1>4, <1>5, SortedCovers
<1>7. n \in Nat
    BY FS_CardinalityType
<1>8. DOMAIN q = 1..n /\ q \in Seq(S)
    BY <1>4, <1>7
<1>9. /\ q \in Seq(S)
      /\ \A i, j \in DOMAIN q : i < j => Less(q[i], q[j])
      /\ \A x \in S : \E i \in DOMAIN q : q[i] = x
    BY <1>4, <1>6, <1>8
<1> QED
    BY <1>9 DEF q

-----------------------------------------------------------------------------
(* The first entries of a range *)

\* Every finite set of numbers has a greatest one.
LEMMA GreatestNumber ==
    ASSUME NEW S, S \subseteq Nat, IsFiniteSet(S), S # {}
    PROVE  Max(S) \in S /\ \A k \in S : k <= Max(S)
<1> DEFINE Above(m) == {k \in S : m < k}
           C == {Cardinality(Above(m)) : m \in S}
<1>1. ASSUME NEW m \in S PROVE Cardinality(Above(m)) \in Nat /\ IsFiniteSet(Above(m))
    <2>1. Above(m) \in SUBSET S
        OBVIOUS
    <2> HIDE DEF Above
    <2> QED
        BY <2>1, FS_Subset, FS_CardinalityType
<1>2. C \subseteq Nat /\ C # {}
    BY <1>1
<1>3. PICK c \in C : \A d \in C : c <= d
    <2> HIDE DEF C
    <2> QED
        BY <1>2, LeastNumber
<1>4. PICK m \in S : c = Cardinality(Above(m))
    OBVIOUS
<1>5. ASSUME NEW k \in S, m < k PROVE FALSE
    <2>1. Above(k) \subseteq Above(m) /\ k \in Above(m) /\ k \notin Above(k)
        <3>1. k \in Nat /\ m \in Nat
            OBVIOUS
        <3>2. ASSUME NEW z \in S, k < z PROVE m < z
            <4>1. z \in Nat
                OBVIOUS
            <4> QED
                BY <1>5, <3>1, <3>2, <4>1
        <3>3. ~(k < k) /\ m < k
            BY <1>5, <3>1
        <3> QED
            BY <3>2, <3>3
    <2>2. Cardinality(Above(m)) <= Cardinality(Above(k))
        BY <1>3, <1>4
    <2>3. Cardinality(Above(m)) \in Nat /\ Cardinality(Above(k)) \in Nat /\ IsFiniteSet(Above(m))
        BY <1>1
    <2> HIDE DEF Above
    <2>4. Cardinality(Above(k)) <= Cardinality(Above(m))
          /\ (Cardinality(Above(m)) = Cardinality(Above(k)) => Above(m) = Above(k))
        BY <2>1, <2>3, FS_Subset
    <2> QED
        BY <2>1, <2>2, <2>3, <2>4
<1>6. m \in S /\ \A k \in S : m >= k
    BY <1>5
<1>7. Max(S) \in S /\ \A k \in S : Max(S) >= k
    <2>1. Max(S) = CHOOSE x \in S : \A y \in S : x >= y
        BY DEF Max
    <2> QED
        BY <1>6, <2>1
<1> QED
    BY <1>7

\* The first entries of a range are all of it, or as many as were asked for, up to
\* the last of them.
LEMMA SmallestFacts ==
    ASSUME NEW S, S \subseteq Nat, IsFiniteSet(S), NEW n \in Nat \ {0}
    PROVE  LET F == Smallest(S, n)
           IN  IF Cardinality(F) = n THEN Max(F) \in S /\ F = {k \in S : k <= Max(F)} ELSE F = S
<1> DEFINE F == Smallest(S, n)
           Below(e) == {d \in S : d < e}
<1>1. F = {e \in S : Cardinality(Below(e)) < n}
    BY DEF Smallest
<1>2. ASSUME NEW e \in S PROVE IsFiniteSet(Below(e)) /\ Cardinality(Below(e)) \in Nat
    <2>1. Below(e) \in SUBSET S
        OBVIOUS
    <2> HIDE DEF Below
    <2> QED
        BY <2>1, FS_Subset, FS_CardinalityType
<1>3. F \in SUBSET S
    BY <1>1
<1> HIDE DEF F
<1>4. IsFiniteSet(F) /\ Cardinality(F) \in Nat
    BY <1>3, FS_Subset, FS_CardinalityType
<1>5. ASSUME NEW e \in F, NEW d \in S, d < e PROVE d \in F
    <2>1. Below(d) \subseteq Below(e) /\ e \in S
        <3>1. e \in S /\ e \in Nat /\ d \in Nat
            BY <1>3
        <3>2. ASSUME NEW z \in S, z < d PROVE z < e
            <4>1. z \in Nat
                OBVIOUS
            <4> QED
                BY <1>5, <3>1, <3>2, <4>1
        <3> QED
            BY <3>1, <3>2
    <2>2. IsFiniteSet(Below(e)) /\ Cardinality(Below(e)) \in Nat /\ Cardinality(Below(d)) \in Nat
        BY <1>2, <2>1
    <2>3. Cardinality(Below(e)) < n
        BY <1>1
    <2> HIDE DEF Below
    <2>4. Cardinality(Below(d)) <= Cardinality(Below(e))
        BY <2>1, <2>2, FS_Subset
    <2>5. Cardinality(Below(d)) < n
        BY <2>2, <2>3, <2>4
    <2> QED
        BY <1>1, <2>5
<1>6. ASSUME F # S PROVE Cardinality(F) >= n
    <2>1. PICK e \in S : e \notin F /\ \A d \in S \ F : e <= d
        <3>1. S \ F \subseteq Nat /\ S \ F # {}
            BY <1>3, <1>6
        <3> QED
            BY <3>1, LeastNumber
    <2>2. Below(e) \subseteq F
        <3>1. SUFFICES ASSUME NEW z \in S, z < e, z \notin F PROVE FALSE
            OBVIOUS
        <3>2. e <= z /\ e \in Nat /\ z \in Nat
            BY <2>1, <3>1
        <3> QED
            BY <3>1, <3>2
    <2>3. ~(Cardinality(Below(e)) < n)
        BY <1>1, <2>1
    <2>4. Cardinality(Below(e)) \in Nat
        BY <1>2
    <2> HIDE DEF Below
    <2>5. Cardinality(Below(e)) <= Cardinality(F)
        BY <1>4, <2>2, FS_Subset
    <2> QED
        BY <1>4, <2>3, <2>4, <2>5
<1>7. ASSUME F # {} PROVE Max(F) \in F /\ (\A k \in F : k <= Max(F)) /\ Cardinality(F) <= n
    <2>1. Max(F) \in F /\ \A k \in F : k <= Max(F)
        BY <1>3, <1>4, <1>7, GreatestNumber
    <2>2. Below(Max(F)) = F \ {Max(F)}
        <3>1. Max(F) \in S /\ F \subseteq Nat /\ S \subseteq Nat
            BY <1>3, <2>1
        <3>2. ASSUME NEW d \in S, d < Max(F) PROVE d \in F \ {Max(F)}
            <4>1. d \in Nat /\ Max(F) \in Nat
                BY <3>1
            <4> HIDE DEF Max
            <4>2. d # Max(F)
                BY <3>2, <4>1
            <4> QED
                BY <1>5, <2>1, <3>2, <4>2
        <3>3. ASSUME NEW d \in F, d # Max(F) PROVE d \in S /\ d < Max(F)
            <4>1. d \in S /\ d \in Nat /\ Max(F) \in Nat /\ d <= Max(F)
                BY <1>3, <2>1, <3>1
            <4> QED
                BY <3>3, <4>1
        <3> QED
            BY <3>2, <3>3
    <2>3. Cardinality(Below(Max(F))) < n
        BY <1>1, <2>1
    <2> HIDE DEF Below
    <2>4. Cardinality(F \ {Max(F)}) = Cardinality(F) - 1
        BY <1>4, <2>1, FS_RemoveElement
    <2> QED
        BY <1>4, <2>1, <2>2, <2>3, <2>4
<1>8. CASE Cardinality(F) = n
    <2>1. F # {}
        BY <1>4, <1>8, FS_EmptySet
    <2>2. Max(F) \in F /\ \A k \in F : k <= Max(F)
        BY <1>7, <2>1
    <2>3. ASSUME NEW k \in S, k <= Max(F) PROVE k \in F
        <3>1. Max(F) \in Nat /\ k \in Nat
            BY <1>3, <2>2
        <3>2. k = Max(F) \/ k < Max(F)
            BY <2>3, <3>1
        <3> QED
            BY <1>5, <2>2, <3>2
    <2>4. Max(F) \in S /\ F = {k \in S : k <= Max(F)}
        BY <1>3, <2>2, <2>3
    <2> QED
        BY <1>8, <2>4 DEF F
<1>9. CASE Cardinality(F) # n
    <2>1. F = S
        <3>1. SUFFICES ASSUME F # S PROVE FALSE
            OBVIOUS
        <3>2. Cardinality(F) >= n
            BY <1>6, <3>1
        <3>3. F # {}
            BY <1>4, <3>2, FS_EmptySet
        <3> QED
            BY <1>4, <1>7, <1>9, <3>2, <3>3
    <2> QED
        BY <1>9, <2>1 DEF F
<1> QED
    BY <1>8, <1>9

-----------------------------------------------------------------------------
(* Groups *)

\* The group of a key is the key up to its first delimiter behind the prefix.
LEMMA GroupFacts ==
    ASSUME NEW k \in Keys, prefix \in AskedPrefixes, IsPrefix(prefix, Name[k]), Grouped(k)
    PROVE  /\ Group(k) \in Seq(1..254) /\ Group(k) \in Seq(Nat)
           /\ Len(Group(k)) \in 1..Len(Name[k]) /\ Len(prefix) < Len(Group(k))
           /\ \A i \in 1..Len(Group(k)) : Group(k)[i] = Name[k][i]
           /\ Name[k][Len(Group(k))] = delimiter
           /\ \A i \in 1..Len(Group(k)) : Len(prefix) < i /\ i < Len(Group(k)) => Name[k][i] # delimiter
<1> DEFINE C == Cuts(prefix, delimiter, Name[k])
           c == Min(C)
<1>1. Name[k] \in Seq(1..254) /\ Name[k] \in Seq(Nat) /\ prefix \in Seq(1..254)
    BY EntryFacts, BytesAssumption
<1>2. DOMAIN Name[k] = 1..Len(Name[k]) /\ Len(Name[k]) \in Nat /\ Len(prefix) \in Nat
    BY <1>1
<1>3. C = {i \in 1..Len(Name[k]) : i > Len(prefix) /\ Name[k][i] = delimiter} /\ C # {} /\ C \subseteq Nat
    BY <1>2 DEF Cuts, Grouped
<1> HIDE DEF C
<1>4. c \in C /\ \A i \in C : c <= i
    <2>1. \E m \in C : \A i \in C : m <= i
        BY <1>3, LeastNumber
    <2>2. c = CHOOSE x \in C : \A y \in C : x =< y
        BY DEF Min
    <2> QED
        BY <2>1, <2>2
<1>5. Group(k) = SubSeq(Name[k], 1, c)
    BY DEF Group, C
<1> HIDE DEF c
<1>6. c \in 1..Len(Name[k]) /\ c > Len(prefix) /\ Name[k][c] = delimiter
    BY <1>3, <1>4
<1>7. Group(k) \in Seq(1..254) /\ Len(Group(k)) = c /\ \A i \in 1..c : Group(k)[i] = Name[k][i]
    <2>1. c \in Nat /\ c <= Len(Name[k])
        BY <1>2, <1>6
    <2>2. SubSeq(Name[k], 1, c) \in Seq(1..254)
        <3>1. 1 \in Int /\ c \in Int
            BY <2>1
        <3>2. ASSUME NEW i \in 1..c PROVE Name[k][i] \in 1..254
            <4>1. i \in 1..Len(Name[k])
                BY <1>2, <2>1
            <4> QED
                BY <1>1, <4>1, ElementOfSeq
        <3> QED
            BY <3>1, <3>2, SubSeqProperties
    <2>3. Len(SubSeq(Name[k], 1, c)) = c /\ \A i \in 1..c : SubSeq(Name[k], 1, c)[i] = Name[k][i]
        BY <1>1, <2>1, SeqFacts
    <2> QED
        BY <1>5, <2>2, <2>3
<1>8. ASSUME NEW i \in 1..c, Len(prefix) < i, i < c PROVE Name[k][i] # delimiter
    BY <1>2, <1>3, <1>4, <1>6, <1>8
<1> QED
    BY <1>2, <1>6, <1>7, <1>8, StringsAreNat

\* So it has the prefix, the key has it as a prefix, and its only delimiter behind the
\* prefix is its last byte.
LEMMA GroupIsAsked ==
    ASSUME NEW k \in Keys, prefix \in AskedPrefixes, IsPrefix(prefix, Name[k]), Grouped(k)
    PROVE  /\ IsPrefix(prefix, Group(k)) /\ IsPrefix(Group(k), Name[k])
           /\ Cuts(prefix, delimiter, Group(k)) = {Len(Group(k))}
<1> DEFINE g == Group(k)
<1>1. /\ g \in Seq(1..254) /\ g \in Seq(Nat) /\ Len(g) \in 1..Len(Name[k]) /\ Len(prefix) < Len(g)
      /\ \A i \in 1..Len(g) : g[i] = Name[k][i]
      /\ Name[k][Len(g)] = delimiter
      /\ \A i \in 1..Len(g) : Len(prefix) < i /\ i < Len(g) => Name[k][i] # delimiter
    BY GroupFacts
<1>2. /\ Name[k] \in Seq(Nat) /\ Len(Name[k]) \in Nat
      /\ prefix \in Seq(Nat) /\ Len(prefix) \in Nat
    BY EntryFacts, BytesAssumption, StringsAreNat
<1> HIDE DEF g
<1>3. Len(prefix) <= Len(Name[k]) /\ \A i \in 1..Len(prefix) : prefix[i] = Name[k][i]
    BY <1>2, PrefixIs DEF Agree
<1>4. Agree(prefix, g, Len(prefix))
    <2>1. ASSUME NEW i \in 1..Len(prefix) PROVE prefix[i] = g[i]
        <3>1. i \in 1..Len(g)
            BY <1>1, <1>2
        <3> QED
            BY <1>1, <1>3, <3>1
    <2> QED
        BY <1>1, <1>2, <2>1 DEF Agree
<1>5. Agree(g, Name[k], Len(g))
    BY <1>1, <1>2 DEF Agree
<1>6. DOMAIN g = 1..Len(g)
    BY <1>1
<1>7. Cuts(prefix, delimiter, g) = {Len(g)}
    <2>1. Len(g) \in 1..Len(g) /\ Len(g) > Len(prefix) /\ g[Len(g)] = delimiter
        <3>1. Len(g) \in Nat /\ Len(g) >= 1
            BY <1>1, <1>2
        <3>2. Len(g) \in 1..Len(g)
            BY <3>1
        <3>3. g[Len(g)] = Name[k][Len(g)]
            BY <1>1, <3>2
        <3>4. Len(g) > Len(prefix)
            BY <1>1, <1>2, <3>1
        <3> QED
            BY <1>1, <3>2, <3>3, <3>4
    <2>2. ASSUME NEW i \in 1..Len(g), i > Len(prefix), g[i] = delimiter PROVE i = Len(g)
        <3>1. Name[k][i] = delimiter
            BY <1>1, <2>2
        <3>2. ~(i < Len(g))
            BY <1>1, <1>2, <2>2, <3>1
        <3> QED
            BY <1>1, <3>2
    <2> QED
        BY <1>6, <2>1, <2>2 DEF Cuts
<1> QED
    BY <1>1, <1>2, <1>4, <1>5, <1>7, PrefixIs DEF g

\* The groups of a listing come in the order of their keys.
LEMMA GroupsInOrder ==
    ASSUME NEW k \in Keys, NEW j \in Keys, k < j, prefix \in AskedPrefixes,
           IsPrefix(prefix, Name[k]), Grouped(k), IsPrefix(prefix, Name[j]), Grouped(j)
    PROVE  ~Less(Group(j), Group(k))
<1> DEFINE a == Group(k)
           b == Group(j)
<1>1. /\ a \in Seq(Nat) /\ Len(a) \in 1..Len(Name[k]) /\ Len(prefix) < Len(a)
      /\ \A i \in 1..Len(a) : a[i] = Name[k][i]
      /\ \A i \in 1..Len(a) : Len(prefix) < i /\ i < Len(a) => Name[k][i] # delimiter
    BY GroupFacts
<1>2. /\ b \in Seq(Nat) /\ Len(b) \in 1..Len(Name[j]) /\ Len(prefix) < Len(b)
      /\ \A i \in 1..Len(b) : b[i] = Name[j][i]
      /\ Name[j][Len(b)] = delimiter
    BY GroupFacts
<1>3. Name[k] \in Seq(1..254) /\ Name[j] \in Seq(1..254) /\ Len(prefix) \in Nat
    BY EntryFacts, BytesAssumption
<1>l. Len(Name[k]) \in Nat /\ Len(Name[j]) \in Nat
    BY <1>3
<1> HIDE DEF a, b
<1>4. SUFFICES ASSUME NEW m \in Nat, LessAt(b, a, m) PROVE FALSE
    BY <1>1, <1>2, LessIs DEF a, b
<1>5. m <= Len(b) /\ m < Len(a) /\ \A i \in 1..m : b[i] = a[i]
    BY <1>4 DEF LessAt, Agree
<1>6. m < Len(b)
    <2>1. SUFFICES ASSUME m = Len(b) PROVE FALSE
        BY <1>2, <1>5
    <2>2. m \in 1..Len(a) /\ m \in 1..m
        BY <1>1, <1>2, <1>5, <2>1
    <2>3. Name[k][m] = delimiter
        BY <1>1, <1>2, <1>5, <2>1, <2>2
    <2> QED
        BY <1>1, <1>2, <1>5, <2>1, <2>2, <2>3
<1>7. b[m + 1] < a[m + 1]
    BY <1>4, <1>6 DEF LessAt
<1>8. Name[j][m + 1] < Name[k][m + 1] /\ m < Len(Name[j]) /\ m < Len(Name[k])
    <2>1. m + 1 \in 1..Len(a) /\ m + 1 \in 1..Len(b)
        BY <1>1, <1>2, <1>5, <1>6
    <2> QED
        BY <1>1, <1>2, <1>7, <1>l, <1>5, <1>6, <2>1
<1>9. ASSUME NEW i \in 1..m PROVE Name[j][i] = Name[k][i]
    <2>1. i \in 1..Len(a) /\ i \in 1..Len(b)
        BY <1>1, <1>2, <1>5, <1>6
    <2> QED
        BY <1>1, <1>2, <1>5, <2>1
<1> DEFINE E == Encode(Name[j])
           D == Encode(Name[k])
<1>10. /\ E \in Seq(Nat) /\ Len(E) = BucketPart + Len(Name[j])
       /\ \A i \in 1..Len(Bucket) : E[i] = Bucket[i]
       /\ E[BucketPart] = 0
       /\ \A i \in 1..Len(Name[j]) : E[BucketPart + i] = Name[j][i]
    BY <1>3, EncodeFacts
<1>11. /\ D \in Seq(Nat) /\ Len(D) = BucketPart + Len(Name[k])
       /\ \A i \in 1..Len(Bucket) : D[i] = Bucket[i]
       /\ D[BucketPart] = 0
       /\ \A i \in 1..Len(Name[k]) : D[BucketPart + i] = Name[k][i]
    BY <1>3, EncodeFacts
<1>12. BucketPart \in Nat /\ BucketPart = Len(Bucket) + 1 /\ Len(Bucket) \in Nat
    BY BytesAssumption DEF BucketPart
<1> HIDE DEF E, D
<1>13. ASSUME NEW i \in 1..BucketPart + m PROVE E[i] = D[i]
    <2>1. CASE i \in 1..Len(Bucket)
        BY <1>10, <1>11, <2>1
    <2>2. CASE i = BucketPart
        BY <1>10, <1>11, <2>2
    <2>3. CASE i > BucketPart
        <3>1. i - BucketPart \in 1..m /\ BucketPart + (i - BucketPart) = i
            BY <1>12, <2>3
        <3>2. i - BucketPart \in 1..Len(Name[j]) /\ i - BucketPart \in 1..Len(Name[k])
            BY <1>8, <1>l, <3>1
        <3>3. E[BucketPart + (i - BucketPart)] = Name[j][i - BucketPart]
            BY <1>10, <3>2
        <3>4. D[BucketPart + (i - BucketPart)] = Name[k][i - BucketPart]
            BY <1>11, <3>2
        <3> QED
            BY <1>9, <3>1, <3>3, <3>4
    <2> QED
        BY <1>12, <2>1, <2>2, <2>3
<1>14. E[(BucketPart + m) + 1] < D[(BucketPart + m) + 1]
    <2>1. m + 1 \in 1..Len(Name[j]) /\ m + 1 \in 1..Len(Name[k]) /\ (BucketPart + m) + 1 = BucketPart + (m + 1)
        BY <1>8, <1>l, <1>12
    <2>2. E[BucketPart + (m + 1)] = Name[j][m + 1] /\ D[BucketPart + (m + 1)] = Name[k][m + 1]
        BY <1>10, <1>11, <2>1
    <2> QED
        BY <1>8, <2>1, <2>2
<1>15. LessAt(E, D, BucketPart + m)
    <2>1. BucketPart + m <= Len(E) /\ BucketPart + m < Len(D)
        <3>1. Len(E) = BucketPart + Len(Name[j]) /\ Len(D) = BucketPart + Len(Name[k])
            BY <1>10, <1>11
        <3>2. m < Len(Name[j]) /\ m < Len(Name[k])
            BY <1>8
        <3>3. BucketPart \in Nat
            BY <1>12
        <3> QED
            BY <1>l, <3>1, <3>2, <3>3
    <2>2. Agree(E, D, BucketPart + m)
        <3>1. BucketPart + m \in Nat /\ Len(E) \in Nat /\ Len(D) \in Nat
            <4>1. Len(E) \in Nat /\ Len(D) \in Nat
                BY <1>10, <1>11, SeqFacts
            <4> QED
                BY <1>12, <4>1
        <3>2. BucketPart + m <= Len(E) /\ BucketPart + m <= Len(D)
            BY <2>1, <3>1
        <3> QED
            BY <1>13, <3>2 DEF Agree
    <2> QED
        BY <1>14, <2>1, <2>2 DEF LessAt
<1>16. Less(E, D)
    <2>1. BucketPart + m \in Nat
        BY <1>12
    <2> QED
        BY <1>10, <1>11, <1>15, <2>1, LessIs
<1>17. j < k
    <2>1. Less(Entry[j], Entry[k])
        BY <1>16, EntryFacts DEF E, D
    <2> QED
        BY <2>1, OrderIs
<1> QED
    BY <1>17, PageAssumption
Asked(k) == IsPrefix(prefix, Name[k])

\* The client has got the page that k belongs to.
Behind(k) == lister = "done" \/ k <= cursor

Covered(k) == \/ \E i \in DOMAIN shown : shown[i] = k
              \/ \E i \in DOMAIN groups : IsPrefix(groups[i], Name[k])

\* A cursor is a key that was asked for, and goes forward.
CursorsOK ==
    /\ lister = "idle" => cursor = 0
    /\ cursor # 0 => Asked(cursor)
    /\ lister = "heads" /\ next # 0 => Asked(next) /\ cursor < next

\* A page lies between its cursor and the next.
PageOK ==
    lister = "heads" =>
        (\A k \in page \cup statted \cup items :
            Asked(k) /\ cursor < k /\ (next = 0 \/ k <= next))

ShownOK ==
    /\ \A i \in DOMAIN shown : Asked(shown[i]) /\ ~Grouped(shown[i]) /\ Behind(shown[i])
    /\ \A i, j \in DOMAIN shown : i < j => shown[i] < shown[j]

\* A group is that of a key the client has got the page of.
GroupOf(g, k) == Asked(k) /\ Grouped(k) /\ Behind(k) /\ g = Group(k)
GroupsOK ==
    /\ \A i \in DOMAIN groups : \E k \in Keys : GroupOf(groups[i], k)
    /\ \A i, j \in DOMAIN groups : i < j => ~Less(groups[j], groups[i])

\* What was there throughout is shown, or on the page, or still ahead.
StableOK ==
    /\ stable \subseteq files \cap index
    /\ \A k \in stable : Asked(k) =>
           /\ Behind(k) => Covered(k)
           /\ lister = "heads" /\ cursor < k /\ (next = 0 \/ k <= next) =>
                  k \in page \cup statted \cup items

PagesInv == CursorsOK /\ PageOK /\ ShownOK /\ GroupsOK /\ StableOK

-----------------------------------------------------------------------------
\* The elements of a sequence followed by another, and the places they have in it.
LEMMA ConcatFacts ==
    ASSUME NEW T, NEW s \in Seq(T), NEW t \in Seq(T)
    PROVE  /\ s \o t \in Seq(T)
           /\ \A i \in DOMAIN (s \o t) : \/ i \in DOMAIN s /\ (s \o t)[i] = s[i]
                                         \/ i - Len(s) \in DOMAIN t /\ i > Len(s) /\ (s \o t)[i] = t[i - Len(s)]
           /\ \A i \in DOMAIN s : i \in DOMAIN (s \o t) /\ (s \o t)[i] = s[i]
           /\ \A i \in DOMAIN t : Len(s) + i \in DOMAIN (s \o t) /\ (s \o t)[Len(s) + i] = t[i]
<1>1. /\ s \o t \in Seq(T) /\ Len(s \o t) = Len(s) + Len(t)
      /\ \A i \in 1..Len(s) + Len(t) : (s \o t)[i] = IF i <= Len(s) THEN s[i] ELSE t[i - Len(s)]
    BY ConcatProperties
<1>2. Len(s) \in Nat /\ DOMAIN s = 1..Len(s) /\ Len(t) \in Nat /\ DOMAIN t = 1..Len(t)
    BY LenProperties
<1>3. DOMAIN (s \o t) = 1..Len(s) + Len(t)
    BY <1>1, LenProperties
<1> DEFINE u == s \o t
<1> HIDE DEF u
<1>4. ASSUME NEW i \in 1..Len(s) + Len(t)
      PROVE  \/ i \in 1..Len(s) /\ u[i] = s[i]
             \/ i - Len(s) \in 1..Len(t) /\ i > Len(s) /\ u[i] = t[i - Len(s)]
    <2>1. CASE i <= Len(s)
        BY <1>1, <1>2, <2>1 DEF u
    <2>2. CASE i > Len(s)
        <3>1. i - Len(s) \in 1..Len(t) /\ ~(i <= Len(s))
            BY <1>2, <2>2
        <3> QED
            BY <1>1, <2>2, <3>1 DEF u
    <2> QED
        BY <1>2, <2>1, <2>2
<1>5. ASSUME NEW i \in 1..Len(s) PROVE i \in 1..Len(s) + Len(t) /\ u[i] = s[i]
    <2>1. i \in 1..Len(s) + Len(t) /\ i <= Len(s)
        BY <1>2
    <2> QED
        BY <1>1, <2>1 DEF u
<1>6. ASSUME NEW i \in 1..Len(t) PROVE Len(s) + i \in 1..Len(s) + Len(t) /\ u[Len(s) + i] = t[i]
    <2>1. Len(s) + i \in 1..Len(s) + Len(t) /\ ~(Len(s) + i <= Len(s)) /\ Len(s) + i - Len(s) = i
        BY <1>2
    <2> QED
        BY <1>1, <2>1 DEF u
<1> QED
    BY <1>1, <1>2, <1>3, <1>4, <1>5, <1>6 DEF u

\* Two ordered sequences, all of the first before all of the second, make one.
LEMMA ConcatOrdered ==
    ASSUME NEW T, NEW s \in Seq(T), NEW t \in Seq(T), NEW R,
           \A i, j \in DOMAIN s : i < j => <<s[i], s[j]>> \in R,
           \A i, j \in DOMAIN t : i < j => <<t[i], t[j]>> \in R,
           \A i \in DOMAIN s, j \in DOMAIN t : <<s[i], t[j]>> \in R
    PROVE  \A i, j \in DOMAIN (s \o t) : i < j => <<(s \o t)[i], (s \o t)[j]>> \in R
<1> DEFINE u == s \o t
<1>1. \A i \in DOMAIN u : \/ i \in DOMAIN s /\ u[i] = s[i]
                          \/ i - Len(s) \in DOMAIN t /\ i > Len(s) /\ u[i] = t[i - Len(s)]
    BY ConcatFacts
<1>2. /\ Len(s) \in Nat /\ DOMAIN s = 1..Len(s) /\ DOMAIN t = 1..Len(t)
      /\ u \in Seq(T)
    BY LenProperties, ConcatFacts
<1>3. DOMAIN u = 1..Len(u) /\ Len(u) \in Nat
    BY <1>2, LenProperties
<1> HIDE DEF u
<1>4. ASSUME NEW i \in DOMAIN u, NEW j \in DOMAIN u, i < j PROVE <<u[i], u[j]>> \in R
    <2>0. i \in Nat /\ j \in Nat
        BY <1>3
    <2>1. CASE j \in DOMAIN s
        <3>1. i \in DOMAIN s /\ ~(i > Len(s)) /\ ~(j > Len(s))
            <4>1. j <= Len(s) /\ i >= 1
                BY <1>2, <1>3, <2>1
            <4>2. i <= Len(s)
                BY <1>2, <1>4, <2>0, <4>1
            <4> QED
                BY <1>2, <2>0, <4>1, <4>2
        <3>2. u[i] = s[i] /\ u[j] = s[j]
            BY <1>1, <3>1
        <3> QED
            BY <1>4, <2>1, <3>1, <3>2
    <2>2. CASE j \notin DOMAIN s
        <3>1. j - Len(s) \in DOMAIN t /\ u[j] = t[j - Len(s)]
            BY <1>1, <2>2
        <3>2. CASE i \in DOMAIN s /\ u[i] = s[i]
            BY <3>1, <3>2
        <3>3. CASE i - Len(s) \in DOMAIN t /\ u[i] = t[i - Len(s)]
            <4>1. i - Len(s) < j - Len(s)
                BY <1>2, <1>4, <2>0
            <4> QED
                BY <3>1, <3>3, <4>1
        <3> QED
            BY <1>1, <3>2, <3>3
    <2> QED
        BY <2>1, <2>2
<1> QED
    BY <1>4 DEF u

\* While the listing gets no page, what it has got stays as it is.
LEMMA Kept ==
    ASSUME ShownOK, GroupsOK, UNCHANGED <<askVars, cursor, shown, groups>>,
           lister = "done" <=> lister' = "done"
    PROVE  /\ ShownOK' /\ GroupsOK'
           /\ \A k : (Asked(k)' <=> Asked(k)) /\ (Behind(k)' <=> Behind(k)) /\ (Covered(k)' <=> Covered(k))
<1> USE DEF askVars
<1>1. \A k : (Asked(k)' <=> Asked(k)) /\ (Behind(k)' <=> Behind(k)) /\ (Covered(k)' <=> Covered(k))
    BY DEF Asked, Behind, Covered
<1>2. \A k : (Grouped(k)' <=> Grouped(k)) /\ Group(k)' = Group(k)
    BY DEF Grouped, Group
<1>3. ShownOK'
    BY <1>1, <1>2 DEF ShownOK
<1>4. GroupsOK'
    BY <1>1, <1>2 DEF GroupsOK, GroupOf
<1> QED
    BY <1>1, <1>3, <1>4

-----------------------------------------------------------------------------
(* The actions, one by one *)

AllOK == PagesTypeOK /\ PagesInv

\* Index::scan: the page is what the range holds next, and the cursor its last key.
LEMMA ScanKeeps ==
    ASSUME TypeOK, AllOK, Scan, UNCHANGED stable PROVE AllOK'
<1> USE DEF AllOK, PagesInv
<1>1. /\ lister = "scan" /\ lister' = "heads" /\ statted' = {} /\ items' = {}
      /\ page' = Found(Limit)
      /\ next' = IF Cardinality(Found(Limit)) = Limit THEN Max(Found(Limit)) ELSE 0
      /\ UNCHANGED <<files, index, askVars, cursor, shown, groups, stable>>
    BY DEF Scan, vars
<1> DEFINE R == {k \in index : Asked(k) /\ cursor < k}
           F == Found(Limit)
<1>2. R \subseteq Keys /\ R \subseteq Nat /\ IsFiniteSet(R) /\ 0 \notin R
    <2>1. R \in SUBSET Keys
        BY DEF TypeOK
    <2> HIDE DEF R
    <2> QED
        BY <2>1, PageAssumption, FS_Subset
<1>3. F = Smallest(R, Limit)
    <2>1. prefix \in AskedPrefixes /\ cursor \in Keys \cup {0} /\ (cursor # 0 => IsPrefix(prefix, Name[cursor]))
        BY DEF PagesTypeOK, CursorsOK, Asked
    <2>2. InRange[prefix][cursor] = {k \in Keys : IsPrefix(prefix, Name[k]) /\ cursor < k}
        BY <2>1, RangeIsRight
    <2>3. index \subseteq Keys /\ Neighbours \cap Keys = {}
        BY PageAssumption DEF TypeOK
    <2>4. (index \cup Neighbours) \cap InRange[prefix][cursor] = R
        BY <2>2, <2>3 DEF Asked
    <2> QED
        BY <2>4 DEF Found
<1>4. IF Cardinality(F) = Limit THEN Max(F) \in R /\ F = {k \in R : k <= Max(F)} ELSE F = R
    <2> HIDE DEF R, F
    <2> QED
        BY <1>2, <1>3, PageAssumption, SmallestFacts
<1>5. \/ next' = 0 /\ F = R
      \/ next' \in R /\ next' # 0 /\ F = {k \in R : k <= next'}
    <2> HIDE DEF R, F
    <2> QED
        BY <1>1, <1>2, <1>4 DEF F
<1>6. /\ ShownOK' /\ GroupsOK'
      /\ \A k : (Asked(k)' <=> Asked(k)) /\ (Behind(k)' <=> Behind(k)) /\ (Covered(k)' <=> Covered(k))
    BY <1>1, Kept
<1>7. F \subseteq R
    BY <1>5
<1>8. page' = F
    BY <1>1
<1> HIDE DEF F
<1>9. PagesTypeOK'
    BY <1>1, <1>2, <1>5, <1>7, <1>8 DEF PagesTypeOK, askVars
<1>10. CursorsOK'
    BY <1>1, <1>2, <1>5, <1>6 DEF CursorsOK
<1>11. PageOK'
    BY <1>1, <1>2, <1>5, <1>6, <1>7, <1>8 DEF PageOK
<1>12. StableOK'
    <2>1. stable' \subseteq files' \cap index'
        BY <1>1 DEF StableOK
    <2>2. ASSUME NEW k \in stable', Asked(k)' PROVE Behind(k)' => Covered(k)'
        BY <1>1, <1>6, <2>2 DEF StableOK
    <2>3. ASSUME NEW k \in stable', Asked(k)', cursor' < k, next' = 0 \/ k <= next' PROVE k \in page'
        <3>1. k \in R
            BY <1>1, <1>6, <2>3 DEF StableOK
        <3> QED
            BY <1>2, <1>5, <1>8, <2>3, <3>1
    <2> QED
        BY <2>1, <2>2, <2>3 DEF StableOK
<1> QED
    BY <1>6, <1>9, <1>10, <1>11, <1>12

\* The listing begins before the first key.
LEMMA BeginKeeps ==
    ASSUME TypeOK, AllOK, Begin PROVE AllOK'
<1> USE DEF AllOK, PagesInv
<1>1. /\ lister = "idle" /\ lister' = "scan" /\ cursor = 0
      /\ stable' = files \cap index /\ files' = files /\ index' = index
      /\ UNCHANGED <<askVars, cursor, next, page, statted, items, shown, groups>>
    BY DEF Begin, vars, CursorsOK, pageVars
<1>2. /\ ShownOK' /\ GroupsOK'
      /\ \A k : (Asked(k)' <=> Asked(k)) /\ (Behind(k)' <=> Behind(k)) /\ (Covered(k)' <=> Covered(k))
    BY <1>1, Kept
<1>3. PagesTypeOK'
    BY <1>1 DEF PagesTypeOK, TypeOK, askVars
<1>4. CursorsOK' /\ PageOK'
    BY <1>1, <1>2 DEF CursorsOK, PageOK
<1>5. StableOK'
    <2>1. ASSUME NEW k \in stable' PROVE ~Behind(k)'
        <3>1. k \in Nat /\ k # 0
            BY <1>1, PageAssumption DEF TypeOK
        <3>2. ~(k <= 0)
            BY <3>1
        <3> QED
            BY <1>1, <3>2 DEF Behind
    <2> QED
        BY <1>1, <2>1 DEF StableOK
<1> QED
    BY <1>2, <1>3, <1>4, <1>5

\* head_object only takes keys off the page that have no file.
LEMMA StatKeeps ==
    ASSUME TypeOK, AllOK, NEW k \in Keys, Stat(k) \/ ReadAttrs(k), UNCHANGED stable PROVE AllOK'
<1> USE DEF AllOK, PagesInv
<1>1. /\ lister = "heads" /\ lister' \in {"heads", "failed"}
      /\ UNCHANGED <<files, index, askVars, cursor, next, shown, groups, stable>>
    BY DEF Stat, ReadAttrs, vars
<1>2. /\ page' \cup statted' \cup items' \subseteq page \cup statted \cup items
      /\ \A j \in page \cup statted \cup items :
            \/ j \in page' \cup statted' \cup items' 
            \/ j \notin files
    BY DEF Stat, ReadAttrs
<1>3. /\ ShownOK' /\ GroupsOK'
      /\ \A j : (Asked(j)' <=> Asked(j)) /\ (Behind(j)' <=> Behind(j)) /\ (Covered(j)' <=> Covered(j))
    BY <1>1, Kept
<1>4. PagesTypeOK'
    BY <1>1, <1>2 DEF PagesTypeOK, askVars
<1>5. CursorsOK'
    BY <1>1, <1>3 DEF CursorsOK
<1>6. PageOK'
    BY <1>1, <1>2, <1>3 DEF PageOK
<1>7. StableOK'
    BY <1>1, <1>2, <1>3 DEF StableOK
<1> QED
    BY <1>3, <1>4, <1>5, <1>6, <1>7

\* A page that failed is scanned again from the same cursor.
LEMMA RetryKeeps ==
    ASSUME TypeOK, AllOK, Retry, UNCHANGED stable PROVE AllOK'
<1> USE DEF AllOK, PagesInv
<1>1. /\ lister = "failed" /\ lister' = "scan"
      /\ UNCHANGED <<files, index, askVars, cursor, next, page, statted, items, shown, groups, stable>>
    BY DEF Retry, vars, pageVars
<1>2. /\ ShownOK' /\ GroupsOK'
      /\ \A j : (Asked(j)' <=> Asked(j)) /\ (Behind(j)' <=> Behind(j)) /\ (Covered(j)' <=> Covered(j))
    BY <1>1, Kept
<1>3. PagesTypeOK'
    BY <1>1 DEF PagesTypeOK, askVars
<1> QED
    BY <1>1, <1>2, <1>3 DEF CursorsOK, PageOK, StableOK

\* Other requests change the bucket, never the listing; what they remove is no longer
\* stable.
LEMMA ChangeKeeps ==
    ASSUME TypeOK, AllOK, Change PROVE AllOK'
<1> USE DEF AllOK, PagesInv
<1>1. /\ lister' = lister \/ (lister = "heads" /\ lister' = "failed")
      /\ stable' = stable \cap files' \cap index'
      /\ UNCHANGED <<askVars, cursor, next, page, statted, items, shown, groups>>
    BY DEF Change, pageVars
<1>2. /\ ShownOK' /\ GroupsOK'
      /\ \A j : (Asked(j)' <=> Asked(j)) /\ (Behind(j)' <=> Behind(j)) /\ (Covered(j)' <=> Covered(j))
    BY <1>1, Kept
<1>3. PagesTypeOK'
    BY <1>1 DEF PagesTypeOK, askVars
<1> QED
    BY <1>1, <1>2, <1>3 DEF CursorsOK, PageOK, StableOK

-----------------------------------------------------------------------------
\* What AnswerPage adds to the listing: the keys of the page in their order, and
\* their groups in that of the strings.
LEMMA AnswerAdds ==
    ASSUME PagesTypeOK, PageOK, AnswerPage
    PROVE  \E q \in Seq(Keys), h \in Seq(Seq(1..254)) :
              /\ shown' = shown \o q /\ groups' = groups \o h
              /\ \A i \in DOMAIN q : q[i] \in items /\ ~Grouped(q[i])
              /\ \A i, j \in DOMAIN q : i < j => q[i] < q[j]
              /\ \A k \in items : ~Grouped(k) => \E i \in DOMAIN q : q[i] = k
              /\ \A i \in DOMAIN h : \E k \in items : Grouped(k) /\ h[i] = Group(k)
              /\ \A i, j \in DOMAIN h : i < j => ~Less(h[j], h[i])
              /\ \A k \in items : Grouped(k) => \E i \in DOMAIN h : h[i] = Group(k)
<1> DEFINE S == {k \in items : ~Grouped(k)}
           T == {k \in items : Grouped(k)}
           G == {Group(k) : k \in T}
           q == Sorted(S, <)
           h == Sorted(G, Less)
<1>1. items \subseteq Keys /\ prefix \in AskedPrefixes /\ lister = "heads"
      /\ (\A k \in items : IsPrefix(prefix, Name[k]))
    BY DEF PagesTypeOK, PageOK, Asked, AnswerPage
<1>2. S \subseteq Keys /\ S \subseteq Nat /\ IsFiniteSet(S) /\ IsFiniteSet(T)
    <2>1. S \in SUBSET Keys /\ T \in SUBSET Keys
        BY <1>1
    <2> HIDE DEF S, T
    <2> QED
        BY <2>1, PageAssumption, FS_Subset
<1>3. \A k \in T : Group(k) \in Seq(1..254) /\ Group(k) \in Seq(Nat)
    BY <1>1, GroupFacts
<1>4. G \subseteq Seq(1..254) /\ G \subseteq Seq(Nat)
    BY <1>3
<1>5. IsFiniteSet(G)
    <2> DEFINE f == [k \in T |-> Group(k)]
    <2>1. f \in Surjection(T, G)
        BY DEF Surjection
    <2> HIDE DEF f, T, G
    <2> QED
        BY <1>2, <2>1, FS_Surjection
<1>6. /\ q \in Seq(S)
      /\ \A i, j \in DOMAIN q : i < j => q[i] < q[j]
      /\ \A x \in S : \E i \in DOMAIN q : q[i] = x
    <2> HIDE DEF S
    <2> QED
        BY <1>2, SortedNumbers
<1>7. /\ h \in Seq(G)
      /\ \A i, j \in DOMAIN h : i < j => Less(h[i], h[j])
      /\ \A x \in G : \E i \in DOMAIN h : h[i] = x
    <2> HIDE DEF G
    <2> QED
        BY <1>4, <1>5, SortedStrings
<1>8. shown' = shown \o q /\ groups' = groups \o h
    BY DEF AnswerPage
<1> HIDE DEF q, h
<1>9. q \in Seq(Keys) /\ h \in Seq(Seq(1..254))
    <2> HIDE DEF S, G
    <2>1. q \in Seq(Keys)
        BY <1>2, <1>6, SeqMonotonic
    <2>2. h \in Seq(Seq(1..254))
        BY <1>4, <1>7, SeqMonotonic
    <2> QED
        BY <2>1, <2>2
<1>10. (\A i \in DOMAIN q : q[i] \in S) /\ (\A i \in DOMAIN h : h[i] \in G)
    <2> HIDE DEF S, G
    <2>1. DOMAIN q = 1..Len(q) /\ DOMAIN h = 1..Len(h)
        BY <1>6, <1>7, LenProperties
    <2> QED
        BY <1>6, <1>7, <2>1, ElementOfSeq
<1>11. \A i, j \in DOMAIN h : i < j => ~Less(h[j], h[i])
    <2> HIDE DEF G
    <2> QED
        BY <1>4, <1>7, <1>10, LessAsym
<1>12. \A k \in items : ~Grouped(k) => \E i \in DOMAIN q : q[i] = k
    BY <1>6
<1>13. \A k \in items : Grouped(k) => \E i \in DOMAIN h : h[i] = Group(k)
    BY <1>7
<1>14. \A i \in DOMAIN h : \E k \in items : Grouped(k) /\ h[i] = Group(k)
    BY <1>10
<1>15. \A i \in DOMAIN q : q[i] \in items /\ ~Grouped(q[i])
    BY <1>10
<1> QED
    BY <1>6, <1>8, <1>9, <1>11, <1>12, <1>13, <1>14, <1>15

\* collapse_with_delimiter and the answer: all of this page comes behind all of the
\* pages before.
LEMMA AnswerKeeps ==
    ASSUME TypeOK, AllOK, AnswerPage, UNCHANGED stable PROVE AllOK'
<1> USE DEF AllOK, PagesInv
<1>1. /\ lister = "heads" /\ page = {} /\ statted = {}
      /\ lister' = IF next = 0 THEN "done" ELSE "scan"
      /\ cursor' = next
      /\ UNCHANGED <<files, index, askVars, next, page, statted, items, stable>>
    BY DEF AnswerPage, vars
<1>2. PICK q \in Seq(Keys), h \in Seq(Seq(1..254)) :
         /\ shown' = shown \o q /\ groups' = groups \o h
         /\ \A i \in DOMAIN q : q[i] \in items /\ ~Grouped(q[i])
         /\ \A i, j \in DOMAIN q : i < j => q[i] < q[j]
         /\ \A k \in items : ~Grouped(k) => \E i \in DOMAIN q : q[i] = k
         /\ \A i \in DOMAIN h : \E k \in items : Grouped(k) /\ h[i] = Group(k)
         /\ \A i, j \in DOMAIN h : i < j => ~Less(h[j], h[i])
         /\ \A k \in items : Grouped(k) => \E i \in DOMAIN h : h[i] = Group(k)
    BY AnswerAdds
<1>3. /\ \A k : (Asked(k)' <=> Asked(k)) /\ (Grouped(k)' <=> Grouped(k)) /\ Group(k)' = Group(k)
    BY <1>1 DEF askVars, Asked, Grouped, Group
<1>4. /\ shown \in Seq(Keys) /\ groups \in Seq(Seq(1..254))
      /\ items \subseteq Keys /\ stable \subseteq Keys /\ prefix \in AskedPrefixes
      /\ Keys \subseteq Nat \ {0} /\ cursor \in Nat /\ next \in Nat
    BY PageAssumption DEF PagesTypeOK
<1>5. (\A k \in items : Asked(k) /\ cursor < k /\ (next = 0 \/ k <= next)) /\ (next # 0 => cursor < next)
    BY <1>1 DEF PageOK, CursorsOK
\* The keys of a page are behind the next cursor.
<1>6. ASSUME NEW k \in items PROVE Behind(k)'
    BY <1>1, <1>5 DEF Behind
<1>7. ASSUME NEW k \in Keys, Behind(k) PROVE Behind(k)' /\ k <= cursor
    <2>1. k <= cursor /\ k \in Nat
        BY <1>1, <1>4, <1>7 DEF Behind
    <2>2. next # 0 => k <= next
        BY <1>4, <1>5, <2>1
    <2> QED
        BY <1>1, <2>1, <2>2 DEF Behind
<1>8. PagesTypeOK'
    <2>1. shown' \in Seq(Keys) /\ groups' \in Seq(Seq(1..254))
        BY <1>2, <1>4, ConcatFacts
    <2> QED
        BY <1>1, <2>1 DEF PagesTypeOK, askVars
<1>9. CursorsOK' /\ PageOK'
    BY <1>1, <1>3 DEF CursorsOK, PageOK
<1>10. (\A i \in DOMAIN shown : shown[i] \in Keys) /\ (\A i \in DOMAIN q : q[i] \in Keys)
    <2>1. DOMAIN shown = 1..Len(shown)
        BY <1>4, LenProperties
    <2> QED
        BY <1>2, <1>4, <2>1, ElementOfSeq
<1>11. ShownOK'
    <2>1. ASSUME NEW i \in DOMAIN shown'
          PROVE  Asked(shown'[i]) /\ ~Grouped(shown'[i]) /\ (lister' = "done" \/ shown'[i] <= cursor')
        <3>1. CASE i \in DOMAIN shown /\ shown'[i] = shown[i]
            BY <1>7, <1>10, <3>1 DEF ShownOK, Behind
        <3>2. CASE i - Len(shown) \in DOMAIN q /\ shown'[i] = q[i - Len(shown)]
            BY <1>2, <1>5, <1>6, <3>2 DEF Behind
        <3> QED
            BY <1>2, <1>4, <3>1, <3>2, ConcatFacts
    <2>2. \A i, j \in DOMAIN shown' : i < j => shown'[i] < shown'[j]
        <3> DEFINE R == {r \in Keys \X Keys : r[1] < r[2]}
        <3>1. \A x, y \in Keys : <<x, y>> \in R <=> x < y
            OBVIOUS
        <3>2. \A i, j \in DOMAIN shown : i < j => <<shown[i], shown[j]>> \in R
            BY <1>10, <3>1 DEF ShownOK
        <3>3. \A i, j \in DOMAIN q : i < j => <<q[i], q[j]>> \in R
            BY <1>2, <1>10, <3>1
        <3>4. ASSUME NEW i \in DOMAIN shown, NEW j \in DOMAIN q PROVE <<shown[i], q[j]>> \in R
            <4>1. shown[i] \in Keys /\ q[j] \in Keys /\ shown[i] <= cursor /\ cursor < q[j]
                BY <1>2, <1>5, <1>7, <1>10 DEF ShownOK
            <4>2. shown[i] < q[j]
                <5>1. shown[i] \in Nat /\ q[j] \in Nat
                    BY <1>4, <4>1
                <5> QED
                    BY <1>4, <4>1, <5>1
            <4> QED
                BY <3>1, <4>1, <4>2
        <3> HIDE DEF R
        <3>5. \A i, j \in DOMAIN shown' : i < j => <<shown'[i], shown'[j]>> \in R
            BY <1>2, <1>4, <3>2, <3>3, <3>4, ConcatOrdered
        <3>6. \A i \in DOMAIN shown' : shown'[i] \in Keys
            BY <1>2, <1>4, <1>10, ConcatFacts
        <3> QED
            BY <3>1, <3>5, <3>6
    <2> QED
        BY <1>1, <2>1, <2>2 DEF ShownOK, Asked, Grouped, Behind, askVars
<1>12. (\A i \in DOMAIN groups : groups[i] \in Seq(1..254)) /\ (\A i \in DOMAIN h : h[i] \in Seq(1..254))
    <2>1. DOMAIN groups = 1..Len(groups) /\ DOMAIN h = 1..Len(h)
        BY <1>2, <1>4, LenProperties
    <2> QED
        BY <1>2, <1>4, <2>1, ElementOfSeq
<1>13. GroupsOK'
    <2>1. ASSUME NEW i \in DOMAIN groups' 
          PROVE  \E k \in Keys : /\ Asked(k) /\ Grouped(k) /\ groups'[i] = Group(k)
                                /\ Behind(k)'
        <3>1. CASE i \in DOMAIN groups /\ groups'[i] = groups[i]
            <4>1. PICK k \in Keys : GroupOf(groups[i], k)
                BY <3>1 DEF GroupsOK
            <4> QED
                BY <1>7, <3>1, <4>1 DEF GroupOf
        <3>2. CASE i - Len(groups) \in DOMAIN h /\ groups'[i] = h[i - Len(groups)]
            <4>1. PICK k \in items : Grouped(k) /\ groups'[i] = Group(k)
                BY <1>2, <3>2
            <4> QED
                BY <1>4, <1>5, <1>6, <4>1
        <3> QED
            BY <1>2, <1>4, <3>1, <3>2, ConcatFacts
    <2>2. \A i, j \in DOMAIN groups' : i < j => ~Less(groups'[j], groups'[i])
        <3> DEFINE T == Seq(1..254)
                   R == {r \in T \X T : ~Less(r[2], r[1])}
        <3>1. \A x, y \in T : <<x, y>> \in R <=> ~Less(y, x)
            OBVIOUS
        <3>2. \A i, j \in DOMAIN groups : i < j => <<groups[i], groups[j]>> \in R
            <4> HIDE DEF R
            <4> QED
                BY <1>12, <3>1 DEF GroupsOK
        <3>3. \A i, j \in DOMAIN h : i < j => <<h[i], h[j]>> \in R
            <4> HIDE DEF R
            <4> QED
                BY <1>2, <1>12, <3>1
        <3>4. ASSUME NEW i \in DOMAIN groups, NEW j \in DOMAIN h PROVE <<groups[i], h[j]>> \in R
            <4>1. PICK k \in Keys : GroupOf(groups[i], k)
                BY DEF GroupsOK
            <4>2. PICK l \in items : Grouped(l) /\ h[j] = Group(l)
                BY <1>2
            <4>3. k \in Keys /\ l \in Keys /\ k < l
                <5>1. k \in Nat /\ l \in Nat /\ k <= cursor /\ cursor < l
                    BY <1>4, <1>5, <1>7, <4>1 DEF GroupOf
                <5> QED
                    BY <1>4, <5>1
            <4>4. IsPrefix(prefix, Name[k]) /\ Grouped(k) /\ IsPrefix(prefix, Name[l]) /\ Grouped(l)
                BY <1>5, <4>1, <4>2 DEF GroupOf, Asked
            <4>5. ~Less(Group(l), Group(k))
                BY <1>4, <4>3, <4>4, GroupsInOrder
            <4>6. ~Less(h[j], groups[i])
                BY <4>1, <4>2, <4>5 DEF GroupOf
            <4> HIDE DEF R
            <4> QED
                BY <1>12, <3>1, <4>6
        <3> HIDE DEF R
        <3>5. \A i, j \in DOMAIN groups' : i < j => <<groups'[i], groups'[j]>> \in R
            BY <1>2, <1>4, <3>2, <3>3, <3>4, ConcatOrdered
        <3>6. \A i \in DOMAIN groups' : groups'[i] \in T
            BY <1>2, <1>4, <1>12, ConcatFacts
        <3> QED
            BY <3>1, <3>5, <3>6
    <2> QED
        BY <1>3, <2>1, <2>2 DEF GroupsOK, GroupOf
\* What the page adds is in its place in the listing.
<1>14. /\ \A i \in DOMAIN q : Len(shown) + i \in DOMAIN shown' /\ shown'[Len(shown) + i] = q[i]
       /\ \A i \in DOMAIN h : Len(groups) + i \in DOMAIN groups' /\ groups'[Len(groups) + i] = h[i]
    <2>1. \A i \in DOMAIN q : /\ Len(shown) + i \in DOMAIN (shown \o q)
                            /\ (shown \o q)[Len(shown) + i] = q[i]
        BY <1>4, ConcatFacts
    <2>2. \A i \in DOMAIN h : /\ Len(groups) + i \in DOMAIN (groups \o h)
                            /\ (groups \o h)[Len(groups) + i] = h[i]
        BY <1>4, ConcatFacts
    <2> QED
        BY <1>2, <2>1, <2>2
<1>15. StableOK'
    <2>1. stable' \subseteq files' \cap index' /\ lister' # "heads"
        BY <1>1 DEF StableOK
    <2>2. ASSUME NEW k \in stable, Asked(k), Behind(k)' PROVE Covered(k)'
        <3>0. k \in Keys /\ k \in Nat
            BY <1>4
        <3>1. CASE k <= cursor
            <4>1. Covered(k)
                BY <2>2, <3>1 DEF StableOK, Behind
            <4>2. CASE \E i \in DOMAIN shown : shown[i] = k
                <5>1. \E i \in DOMAIN shown' : shown'[i] = k
                    BY <1>2, <1>4, <4>2, ConcatFacts
                <5> QED
                    BY <5>1 DEF Covered
            <4>3. CASE \E i \in DOMAIN groups : IsPrefix(groups[i], Name[k])
                <5>1. \E i \in DOMAIN groups' : IsPrefix(groups'[i], Name[k])
                    BY <1>2, <1>4, <4>3, ConcatFacts
                <5> QED
                    BY <5>1 DEF Covered
            <4> QED
                BY <4>1, <4>2, <4>3 DEF Covered
        <3>2. CASE cursor < k
            <4>1. k \in items
                <5>1. next = 0 \/ k <= next
                    BY <1>1, <2>2 DEF Behind
                <5> QED
                    BY <1>1, <2>2, <3>2, <5>1 DEF StableOK
            <4>2. CASE ~Grouped(k)
                <5>1. PICK i \in DOMAIN q : q[i] = k
                    BY <1>2, <4>1, <4>2
                <5>2. Len(shown) + i \in DOMAIN shown' /\ shown'[Len(shown) + i] = k
                    BY <1>14, <5>1
                <5> QED
                    BY <5>2 DEF Covered
            <4>3. CASE Grouped(k)
                <5>1. IsPrefix(Group(k), Name[k])
                    BY <1>4, <2>2, <3>0, <4>3, GroupIsAsked DEF Asked
                <5>2. PICK i \in DOMAIN h : h[i] = Group(k)
                    BY <1>2, <4>1, <4>3
                <5>3. Len(groups) + i \in DOMAIN groups' /\ groups'[Len(groups) + i] = Group(k)
                    BY <1>14, <5>2
                <5> QED
                    BY <5>1, <5>3 DEF Covered
            <4> QED
                BY <4>2, <4>3
        <3> QED
            BY <1>4, <3>0, <3>1, <3>2
    <2> QED
        BY <1>1, <1>3, <2>1, <2>2 DEF StableOK
<1> QED
    BY <1>8, <1>9, <1>11, <1>13, <1>15

-----------------------------------------------------------------------------
\* The bucket that a client pages through is the one of ListingIndex: to the other
\* requests and the reconcile a listing is invisible.
THEOREM PagesDoNotDisturb == PagesSpec => Spec
<1>1. PagesInit => Init
    BY DEF PagesInit
<1>2. [PagesNext]_allVars => [Next]_vars
    BY DEF PagesNext, Begin, List, Scan, Stat, ReadAttrs, AnswerPage, Retry, Change, allVars
<1> QED
    BY <1>1, <1>2, PTL DEF PagesSpec, Spec

\* The invariant holds of every listing.
LEMMA PagesAllOK == PagesSpec => []AllOK
<1>1. PagesInit => AllOK
    <2> SUFFICES ASSUME PagesInit PROVE AllOK
        OBVIOUS
    <2>1. \A k \in Keys : ~(k <= 0)
        <3>1. \A k \in Keys : k \in Nat /\ k # 0
            BY PageAssumption
        <3> QED
            BY <3>1
    <2> QED
        BY <2>1 DEF PagesInit, AllOK, PagesTypeOK, PagesInv, CursorsOK, PageOK, ShownOK, GroupsOK, StableOK, Behind
<1>2. TypeOK /\ AllOK /\ [PagesNext]_allVars => AllOK'
    <2> SUFFICES ASSUME TypeOK, AllOK, [PagesNext]_allVars PROVE AllOK'
        OBVIOUS
    <2>1. CASE Begin
        BY <2>1, BeginKeeps
    <2>2. CASE List
        <3>1. CASE Scan
            BY <2>2, <3>1, ScanKeeps DEF List
        <3>2. ASSUME NEW k \in Keys, Stat(k) \/ ReadAttrs(k) PROVE AllOK'
            BY <2>2, <3>2, StatKeeps DEF List
        <3>3. CASE AnswerPage
            BY <2>2, <3>3, AnswerKeeps DEF List
        <3>4. CASE Retry
            BY <2>2, <3>4, RetryKeeps DEF List
        <3> QED
            BY <2>2, <3>1, <3>2, <3>3, <3>4 DEF List
    <2>3. CASE Change
        BY <2>3, ChangeKeeps
    <2>4. CASE UNCHANGED allVars
        <3>1. /\ UNCHANGED <<files, index, lister, askVars, cursor, next, page, statted, items, shown, groups, stable>>
            BY <2>4 DEF allVars, vars, listVars, pageVars
        <3>2. /\ ShownOK' /\ GroupsOK'
              /\ \A j : (Asked(j)' <=> Asked(j)) /\ (Behind(j)' <=> Behind(j)) /\ (Covered(j)' <=> Covered(j))
            BY <3>1, Kept DEF AllOK, PagesInv
        <3> QED
            BY <3>1, <3>2 DEF AllOK, PagesTypeOK, askVars, PagesInv, CursorsOK, PageOK, StableOK
    <2> QED
        BY <2>1, <2>2, <2>3, <2>4 DEF PagesNext
<1> QED
    BY <1>1, <1>2, PagesDoNotDisturb, TypeCorrect, PTL DEF PagesSpec

\* The variables of a listing keep their types (PagesTypeOK): every page, cursor and
\* next cursor is of keys of this bucket, whatever else the partition holds.
THEOREM PagesTypeCorrect == PagesSpec => []PagesTypeOK
<1>1. AllOK => PagesTypeOK
    BY DEF AllOK
<1> QED
    BY <1>1, PagesAllOK, PTL

\* A listing ascends over all of its pages, and repeats no key, whatever the other
\* requests do meanwhile and whatever the names, the prefix and the page size are.
THEOREM ListingsAscend == PagesSpec => []ShownAscending
<1>1. AllOK => ShownAscending
    BY DEF AllOK, PagesInv, ShownOK, GroupsOK, ShownAscending
<1> QED
    BY <1>1, PagesAllOK, PTL

\* A listing has nothing of another bucket or without the prefix, and its groups end
\* at the first delimiter behind it (Index::scan, hi_bound, collapse_with_delimiter).
THEOREM ListingsAreAsked == PagesSpec => []ShownIsAsked
<1>1. AllOK => ShownIsAsked
    <2> SUFFICES ASSUME AllOK PROVE ShownIsAsked
        OBVIOUS
    <2>1. \A i \in DOMAIN shown : shown[i] \in Keys
        <3>1. shown \in Seq(Keys)
            BY DEF AllOK, PagesTypeOK
        <3> QED
            BY <3>1, LenProperties, ElementOfSeq
    <2>2. ASSUME NEW i \in DOMAIN groups
          PROVE  IsPrefix(prefix, groups[i]) /\ Cuts(prefix, delimiter, groups[i]) = {Len(groups[i])}
        <3>1. PICK k \in Keys : GroupOf(groups[i], k)
            BY DEF AllOK, PagesInv, GroupsOK
        <3> QED
            BY <3>1, GroupIsAsked DEF GroupOf, Asked, AllOK, PagesTypeOK
    <2> QED
        BY <2>1, <2>2 DEF AllOK, PagesInv, ShownOK, Asked, ShownIsAsked
<1> QED
    BY <1>1, PagesAllOK, PTL

\* A listing that comes to its end misses no object that was there throughout.
THEOREM ListingsMissNothing == PagesSpec => []StableShown
<1>1. AllOK => StableShown
    BY DEF AllOK, PagesInv, StableOK, Asked, Behind, Covered, StableShown
<1> QED
    BY <1>1, PagesAllOK, PTL
=============================================================================
