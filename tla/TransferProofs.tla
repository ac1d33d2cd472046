---------------------------- MODULE TransferProofs ----------------------------
(***************************************************************************)
(* Theorems about what clients transfer and what they make of the answers: *)
(* Downloads, for every set of sizes, every width of the numbers in a      *)
(* header and however many files and requests, and, from "Clients that     *)
(* write" on, UploadClients, for any number of calls, uploads and retries. *)
(***************************************************************************)
EXTENDS Downloads, UploadClients, TLAPS

\* The files that somebody may still get or compare with.
Versions == ({object, staged, handle} \cap Files)
                \cup (IF held = None THEN {} ELSE {held.file})

\* No two of them were written at the same time, for the clock goes on with each.
VersionsOK ==
    /\ \A f \in Versions : f.mtime < now
    /\ \A f, g \in Versions : f.mtime = g.mtime => f = g

\* What a request says is what the client holds; only a resumed download has both
\* a range and something to join its bytes to.
RequestOK ==
    request # None =>
        /\ request.noneMatch # None => held # None /\ request.noneMatch = held.file.size
        /\ request.since # None => held # None /\ request.since = Second(held.file.mtime)
        /\ request.match # None => held # None /\ request.match = held.file.size
        /\ purpose = "resume" /\ request.range # None => held # None

\* Why the answer is what it is.
AnswerOK ==
    answer # None =>
        /\ request # None
        /\ answer.from = handle.size
        /\ answer.status \in {200, 206, 304, 412, 416} => handle \in Files
        /\ answer.status = 304 => NotModified(request, handle)
        /\ answer.status = 206 => request.range # None
        /\ answer.status = 206 /\ surface = "s3" => ~Refused(request, handle)

\* All bytes that the client holds are of the version it takes them for.
HeldOK == held # None => \A b \in held.bytes : b[1] = held.file.size

Inv == TypeOK /\ VersionsOK /\ RequestOK /\ AnswerOK /\ HeldOK /\ WindowIsRight

-----------------------------------------------------------------------------
\* A date is the first instant of its second.
LEMMA SecondIsBefore ==
    ASSUME NEW t \in Nat
    PROVE  Second(t) \in Nat /\ 2 * Second(t) <= t
BY DEF Second

LEMMA Distinct ==
    /\ \A n \in Nat : n # None
    /\ \A a, b \in Nat : [first |-> a, last |-> b] # None /\ [start |-> a, end |-> b] # None
    /\ Nothing \notin Files
<1>1. \A n \in Nat : n # None
  BY NoneAssumption
<1>2. ASSUME NEW a \in Nat, NEW b \in Nat
      PROVE  [first |-> a, last |-> b] # None /\ [start |-> a, end |-> b] # None
  <2>1. [first |-> a, last |-> b] \in [first : Nat, last : Nat]
        /\ [start |-> a, end |-> b] \in [start : Nat, end : Nat]
    OBVIOUS
  <2> QED
    BY <2>1, NoneAssumption
<1>3. Nothing \notin Files
  BY <1>1, SizesAssumption, BoundsAssumption DEF Nothing, Files
<1> QED
  BY <1>1, <1>2, <1>3

\* parse_range: the window is exactly what the range names, and there is none only if
\* the range names nothing or has a number too great to be read.
LEMMA ParseRangeIsRight ==
    ASSUME NEW r \in Ranges, NEW size \in 0..MaxWord
    PROVE  \/ /\ ParseRange(r, size) = None
              /\ Named(r, size) = {} \/ r.first = MaxWord + 1 \/ r.last = MaxWord + 1
           \/ \E a, b \in Nat :
                 /\ ParseRange(r, size) = [first |-> a, last |-> b]
                 /\ a <= b /\ b < size /\ a..b = Named(r, size)
<1> USE BoundsAssumption, NoneAssumption
<1>0. size \in Nat /\ r.first \in Nat \cup {None} /\ r.last \in Nat \cup {None}
      /\ (r.first # None => r.first \in 0..(MaxWord + 1))
      /\ (r.last # None => r.last \in 0..(MaxWord + 1))
  BY DEF Ranges, Numbers
<1>1. CASE ~Readable(r, size)
  <2>1. ParseRange(r, size) = None
    BY <1>1 DEF ParseRange
  <2>2. CASE size = 0
    BY <1>0, <2>1, <2>2 DEF Named, Whole
  <2>3. CASE ~Word(r.first) \/ ~Word(r.last)
    BY <1>0, <2>1, <2>3 DEF Word
  <2>4. CASE r.first = None /\ r.last \in {None, 0}
    <3>1. CASE r.last = None
      BY <2>1, <2>4, <3>1 DEF Named
    <3>2. CASE r.last = 0 /\ r.last # None
      <4>1. Named(r, size) = {i \in 0..(size - 1) : i >= size - 0}
        BY <2>4, <3>2 DEF Named, Whole
      <4> QED
        BY <1>0, <2>1, <4>1
    <3> QED
      BY <2>4, <3>1, <3>2
  <2> QED
    BY <1>0, <1>1, <2>2, <2>3, <2>4 DEF Readable
<1>2. CASE Readable(r, size)
  <2> DEFINE w == Window(r, size)
  <2>1. size > 0 /\ (r.first = None => r.last \in Nat /\ r.last > 0)
    BY <1>0, <1>2 DEF Readable
  <2>2. /\ w = [first |-> w.first, last |-> w.last] /\ w.first \in Nat /\ w.last \in Nat
        /\ w.last < size
        /\ Named(r, size) = w.first..w.last
    <3>1. CASE r.first = None
      <4> DEFINE n == r.last
      <4>1. n \in Nat /\ n > 0 /\ n # None
        BY <1>0, <2>1, <3>1
      <4>2. w = [first |-> IF n > size THEN 0 ELSE size - n, last |-> size - 1]
        BY <3>1, <4>1 DEF Window, Suffix
      <4>3. Named(r, size) = {i \in 0..(size - 1) : i >= size - n}
        BY <3>1, <4>1 DEF Named, Whole
      <4> HIDE DEF w, n
      <4> QED
        BY <1>0, <2>1, <4>1, <4>2, <4>3
    <3>2. CASE r.first # None /\ r.last = None
      BY <1>0, <2>1, <3>2 DEF Window, Named, Whole
    <3>3. CASE r.first # None /\ r.last # None
      <4>1. w = [first |-> r.first, last |-> IF r.last < size THEN r.last ELSE size - 1]
        BY <3>3 DEF Window
      <4>2. Named(r, size) = {i \in 0..(size - 1) : i >= r.first /\ i <= r.last}
        BY <3>3 DEF Named, Whole
      <4> HIDE DEF w
      <4> QED
        BY <1>0, <2>1, <3>3, <4>1, <4>2
    <3> QED
      BY <3>1, <3>2, <3>3
  <2>3. ParseRange(r, size) = IF w.first > w.last \/ w.first >= size THEN None ELSE w
    BY <1>2 DEF ParseRange
  <2> HIDE DEF w
  <2>4. CASE w.first > w.last
    BY <2>2, <2>3, <2>4
  <2>5. CASE ~(w.first > w.last)
    BY <1>0, <2>2, <2>3, <2>5
  <2> QED
    BY <2>4, <2>5
<1> QED
  BY <1>1, <1>2

\* The exclusive end of the S3 library is one past the same window.
LEMMA CheckRangeIsRight ==
    ASSUME NEW r \in Ranges, NEW size \in 0..MaxWord
    PROVE  \/ /\ CheckRange(r, size) = None
              /\ Named(r, size) = {} \/ r.first = MaxWord + 1 \/ r.last = MaxWord + 1
           \/ \E a, b \in Nat :
                 /\ CheckRange(r, size) = [start |-> a, end |-> b + 1]
                 /\ a <= b /\ b < size /\ a..b = Named(r, size)
<1>1. CASE ParseRange(r, size) = None
  BY <1>1, ParseRangeIsRight, Distinct DEF CheckRange
<1>2. CASE ParseRange(r, size) # None
  <2>1. PICK a, b \in Nat :
           /\ ParseRange(r, size) = [first |-> a, last |-> b]
           /\ a <= b /\ b < size /\ a..b = Named(r, size)
    BY <1>2, ParseRangeIsRight
  <2>2. CheckRange(r, size) = [start |-> a, end |-> b + 1]
    BY <1>2, <2>1 DEF CheckRange
  <2> QED
    BY <2>1, <2>2
<1> QED
  BY <1>1, <1>2

\* get_window and the mmap: of the whole, or of an inclusive window.
LEMMA WindowIsMapped ==
    ASSUME NEW size \in Nat
    PROVE  /\ Mapped(GetWindow(size, None)) = Whole(size)
           /\ \A a, b \in Nat : Mapped(GetWindow(size, [first |-> a, last |-> b])) = a..b
<1>1. Mapped(GetWindow(size, None)) = Whole(size)
  BY DEF Mapped, GetWindow, Whole
<1>2. ASSUME NEW a \in Nat, NEW b \in Nat
      PROVE  Mapped(GetWindow(size, [first |-> a, last |-> b])) = a..b
  <2>1. GetWindow(size, [first |-> a, last |-> b]) = [start |-> a, length |-> b - a + 1]
    BY Distinct DEF GetWindow
  <2>2. a + (b - a + 1) - 1 = b
    OBVIOUS
  <2> QED
    BY <2>1, <2>2 DEF Mapped
<1> QED
  BY <1>1, <1>2

-----------------------------------------------------------------------------
LEMMA InitInv == Init => Inv
<1> SUFFICES ASSUME Init PROVE Inv
  OBVIOUS
<1> USE Distinct DEF Init
<1>1. TypeOK
  BY BoundsAssumption DEF TypeOK
<1>2. Versions = {}
  BY DEF Versions
<1> QED
  BY <1>1, <1>2 DEF Inv, VersionsOK, RequestOK, AnswerOK, HeldOK, WindowIsRight

\* The steps of the server: a file that was not there before has a time of its own.
LEMMA ServerStep ==
    ASSUME Inv, (\E s \in Sizes : Stage(s) \/ Overtake(s)) \/ Place \/ Delete
    PROVE  Inv'
<1>0. UNCHANGED clientVars
  BY DEF Stage, Overtake, Place, Delete
<1>1. TypeOK'
  <2>1. ASSUME NEW s \in Sizes, Stage(s) \/ Overtake(s)
        PROVE  [size |-> s, mtime |-> now] \in Files /\ now' \in 0..MaxTime
    BY <2>1, BoundsAssumption DEF Stage, Overtake, Files, Inv, TypeOK
  <2>2. object' \in Files \cup {Nothing} /\ staged' \in Files \cup {Nothing} /\ now' \in 0..MaxTime
    BY <2>1 DEF Stage, Overtake, Place, Delete, Inv, TypeOK
  <2> QED
    BY <1>0, <2>2 DEF clientVars, Inv, TypeOK
<1>2. RequestOK' /\ AnswerOK' /\ HeldOK' /\ WindowIsRight'
  BY <1>0 DEF clientVars, Inv, RequestOK, AnswerOK, HeldOK, WindowIsRight, NotModified, Refused
<1>3. VersionsOK'
  <2>0. now \in Nat /\ (\A f \in Files : f.mtime \in Nat) /\ \A f \in Versions : f \in Files
    BY BoundsAssumption DEF Inv, TypeOK, Files, Versions
  <2>1. CASE Place \/ Delete
    <3>1. Versions' \subseteq Versions /\ now' = now
      BY <1>0, <2>1, Distinct DEF Place, Delete, Versions, clientVars
    <3> QED
      BY <3>1 DEF Inv, VersionsOK
  <2>2. ASSUME NEW s \in Sizes, Stage(s) \/ Overtake(s) PROVE VersionsOK'
    <3> DEFINE new == [size |-> s, mtime |-> now]
    <3>1. Versions' \subseteq Versions \cup {new} /\ now' = now + 1 /\ new.mtime = now
      BY <1>0, <2>2 DEF Stage, Overtake, Versions, clientVars
    <3> HIDE DEF new
    <3>2. \A f \in Versions : f.mtime < now + 1 /\ f.mtime # now
      BY <2>0 DEF Inv, VersionsOK
    <3> QED
      BY <2>0, <3>1, <3>2 DEF Inv, VersionsOK
  <2> QED
    BY <2>1, <2>2
<1> QED
  BY <1>1, <1>2, <1>3 DEF Inv

\* The requests a client makes.
LEMMA OpenStep ==
    ASSUME Inv, Probe \/ Fetch \/ Revalidate \/ Resume
    PROVE  Inv'
<1> USE DEF Open, Idle
<1>0. /\ UNCHANGED <<serverVars, surface, purpose, answer, held>> /\ handle' = object
      /\ answer = None
  BY DEF Probe, Fetch, Revalidate, Resume
<1>1. /\ request' \in [head : BOOLEAN, range : Ranges \cup {None}, match : Sizes \cup {None},
                       noneMatch : Sizes \cup {None}, since : Nat \cup {None},
                       unmodified : Nat \cup {None}]
      /\ RequestOK'
  <2>0. held # None => /\ held.file \in Files /\ held.file.size \in Sizes
                       /\ Second(held.file.mtime) \in Nat
    <3>1. held # None => held.file \in Files
      BY DEF Inv, TypeOK
    <3> QED
      BY <3>1, SecondIsBefore, BoundsAssumption DEF Files
  <2>1. CASE Probe
    BY <2>1 DEF Probe, Plain, RequestOK
  <2>2. CASE Fetch
    BY <2>2 DEF Fetch, Plain, RequestOK
  <2>3. CASE Revalidate
    <3>1. PICK v \in Validators, h \in BOOLEAN :
             Open([Plain EXCEPT !.head = h, !.noneMatch = v.noneMatch, !.since = v.since])
      BY <2>3 DEF Revalidate
    <3>2. v.noneMatch \in {None, held.file.size} /\ v.since \in {None, Second(held.file.mtime)}
      BY DEF Validators
    <3>3. request' = [head |-> h, range |-> None, match |-> None, noneMatch |-> v.noneMatch,
                      since |-> v.since, unmodified |-> None]
      BY <3>1 DEF Plain
    <3> QED
      BY <1>0, <2>0, <2>3, <3>2, <3>3 DEF Revalidate, RequestOK
  <2>4. CASE Resume
    <3> DEFINE r == [first |-> 1, last |-> None]
    <3>1. r \in Ranges
      BY BoundsAssumption DEF Ranges, Numbers
    <3>2. PICK m \in {None, held.file.size}, u \in {None, Second(held.file.mtime)} :
             request' = [head |-> FALSE, range |-> r, match |-> m, noneMatch |-> None,
                         since |-> None, unmodified |-> u]
      BY <2>4 DEF Resume, Plain
    <3> HIDE DEF r
    <3> QED
      BY <1>0, <2>0, <2>4, <3>1, <3>2 DEF Resume, RequestOK
  <2> QED
    BY <2>1, <2>2, <2>3, <2>4
<1>2. TypeOK'
  BY <1>0, <1>1 DEF serverVars, Inv, TypeOK
<1>3. Versions' \subseteq Versions /\ now' = now
  BY <1>0 DEF serverVars, Versions
<1>4. VersionsOK'
  BY <1>3 DEF Inv, VersionsOK
<1> QED
  BY <1>0, <1>1, <1>2, <1>4 DEF Inv, AnswerOK, HeldOK, WindowIsRight

LEMMA ReplyIs ==
    ASSUME TypeOK, NEW code \in {200, 206, 304, 404, 412, 416},
           NEW positions \in SUBSET (0..MaxWord)
    PROVE  /\ Reply(code, positions) \in Answers
           /\ Reply(code, positions).status = code
           /\ Reply(code, positions).bytes = positions
           /\ Reply(code, positions).from = handle.size
<1>1. handle.size \in Sizes \cup {None} /\ (handle # Nothing => Second(handle.mtime) \in Nat)
  BY SecondIsBefore, BoundsAssumption DEF TypeOK, Files, Nothing
<1> QED
  BY <1>1 DEF Reply, Answers

\* What is to be shown of an answer from the file that was opened.
Sound(a) ==
    /\ a \in Answers /\ a.from = handle.size
    /\ a.status = 304 => NotModified(request, handle)
    /\ a.status = 206 => request.range # None
    /\ a.status = 206 /\ surface = "s3" => ~Refused(request, handle)
    /\ a.status = 200 => a.bytes = IF request.head THEN {} ELSE Whole(handle.size)
    /\ a.status = 206 => a.bytes = Named(request.range, handle.size) /\ a.bytes # {}
    /\ a.status = 416 => \/ Named(request.range, handle.size) = {}
                         \/ request.range.first = MaxWord + 1
                         \/ request.range.last = MaxWord + 1
    /\ a.status \in {304, 404, 412} => a.bytes = {}

\* The answer has the bytes that were asked for, from the file that was opened.
LEMMA RespondStep ==
    ASSUME Inv, Respond
    PROVE  Inv'
<1> DEFINE q == request
           f == handle
           r == request.range
<1>0. /\ request # None /\ q.head \in BOOLEAN /\ (r # None => r \in Ranges)
      /\ UNCHANGED <<serverVars, surface, purpose, request, handle, held>>
  BY DEF Respond, Inv, TypeOK
<1>1. CASE f = Nothing
  <2>1. answer' = Reply(404, {})
    BY <1>1 DEF Respond, Fail
  <2> QED
    <3>1. answer' \in Answers /\ answer'.status = 404 /\ answer'.from = handle.size
      BY <2>1, ReplyIs DEF Inv
    <3>2. TypeOK'
      BY <1>0, <3>1 DEF serverVars, Inv, TypeOK
    <3> QED
      BY <1>0, <1>1, <3>1, <3>2
      DEF serverVars, Inv, VersionsOK, Versions, RequestOK, AnswerOK, HeldOK, WindowIsRight
<1>2. CASE f # Nothing
  <2>0. f \in Files /\ f.size \in Nat /\ f.size \in 0..MaxWord /\ Whole(f.size) \subseteq 0..MaxWord
    <3>1. f \in Files
      BY <1>2 DEF Inv, TypeOK
    <3>2. f.size \in 0..MaxWord
      BY <3>1, SizesAssumption DEF Files
    <3> HIDE DEF f
    <3> QED
      BY <3>1, <3>2, BoundsAssumption DEF Whole
  <2>1. ASSUME NEW a, a = Fail(412) \/ (a = Fail(304) /\ NotModified(q, f))
                          \/ (a = Reply(200, {}) /\ q.head)
        PROVE  Sound(a)
    BY <2>0, <2>1, ReplyIs DEF Fail, Inv, Sound
  <2>2. ASSUME NEW a, a = Reply(200, Whole(f.size)), ~q.head PROVE Sound(a)
    BY <2>0, <2>2, ReplyIs DEF Inv, Sound
  <2>3. ASSUME NEW a, a = Fail(416),
               Named(r, f.size) = {} \/ r.first = MaxWord + 1 \/ r.last = MaxWord + 1
        PROVE  Sound(a)
    BY <2>0, <2>3, ReplyIs DEF Fail, Inv, Sound
  <2>4. ASSUME NEW a, NEW i \in Nat, NEW j \in Nat, a = Reply(206, i..j), r # None, i <= j, j < f.size,
               i..j = Named(r, f.size), surface = "s3" => ~Refused(q, f)
        PROVE  Sound(a)
    <3>1. i..j \in SUBSET (0..MaxWord) /\ i \in i..j
      BY <2>0, <2>4, BoundsAssumption
    <3>2. a \in Answers /\ a.status = 206 /\ a.bytes = i..j /\ a.from = f.size
      BY <2>4, <3>1, ReplyIs DEF Inv
    <3>3. a.bytes # {}
      BY <3>1, <3>2
    <3> QED
      BY <2>4, <3>2, <3>3 DEF Sound
  <2>5. ASSUME surface = "rest" PROVE Sound(answer')
    <3>1. CASE q.head
      BY <1>2, <2>1, <2>5, <3>1 DEF Respond, RestHead
    <3>2. CASE ~q.head /\ r = None
      <4>1. answer' = Reply(200, Whole(f.size))
        BY <1>2, <2>0, <2>5, <3>2, WindowIsMapped DEF Respond, RestGet
      <4> QED
        BY <2>2, <3>2, <4>1
    <3>3. CASE ~q.head /\ r # None
      <4>1. answer' = LET window == ParseRange(r, f.size)
                      IN  IF window = None THEN Fail(416)
                          ELSE Reply(206, Mapped(GetWindow(f.size, window)))
        BY <1>2, <2>5, <3>3 DEF Respond, RestGet
      <4>2. CASE ParseRange(r, f.size) = None
        <5>1. Named(r, f.size) = {} \/ r.first = MaxWord + 1 \/ r.last = MaxWord + 1
          BY <1>0, <2>0, <3>3, <4>2, ParseRangeIsRight, Distinct
        <5> QED
          BY <2>3, <4>1, <4>2, <5>1
      <4>3. CASE ParseRange(r, f.size) # None
        <5>1. PICK i, j \in Nat : /\ ParseRange(r, f.size) = [first |-> i, last |-> j]
                                  /\ i <= j /\ j < f.size /\ i..j = Named(r, f.size)
          BY <1>0, <2>0, <3>3, <4>3, ParseRangeIsRight
        <5>2. answer' = Reply(206, i..j)
          BY <2>0, <4>1, <4>3, <5>1, WindowIsMapped
        <5> QED
          BY <2>4, <2>5, <3>3, <5>1, <5>2
      <4> QED
        BY <4>2, <4>3
    <3> QED
      BY <1>0, <3>1, <3>2, <3>3
  <2>6. ASSUME surface = "s3" PROVE Sound(answer')
    <3>1. CASE Refused(q, f)
      BY <1>2, <2>1, <2>6, <3>1 DEF Respond, S3Head, S3Get
    <3>2. CASE ~Refused(q, f) /\ NotModified(q, f)
      BY <1>2, <2>1, <2>6, <3>2 DEF Respond, S3Head, S3Get
    <3>3. CASE ~Refused(q, f) /\ ~NotModified(q, f) /\ q.head
      BY <1>2, <2>1, <2>6, <3>3 DEF Respond, S3Head
    <3>4. CASE ~Refused(q, f) /\ ~NotModified(q, f) /\ ~q.head /\ r = None
      BY <1>2, <2>2, <2>6, <3>4 DEF Respond, S3Get
    <3>5. CASE ~Refused(q, f) /\ ~NotModified(q, f) /\ ~q.head /\ r # None
      <4>1. answer' = LET w == CheckRange(r, f.size)
                      IN  IF w = None THEN Fail(416) ELSE Reply(206, w.start..(w.end - 1))
        BY <1>2, <2>6, <3>5 DEF Respond, S3Get
      <4>2. CASE CheckRange(r, f.size) = None
        <5>1. Named(r, f.size) = {} \/ r.first = MaxWord + 1 \/ r.last = MaxWord + 1
          <6>1. \A i, j \in Nat : [start |-> i, end |-> j + 1] # None
            BY Distinct
          <6> QED
            BY <1>0, <2>0, <3>5, <4>2, <6>1, CheckRangeIsRight
        <5> QED
          BY <2>3, <4>1, <4>2, <5>1
      <4>3. CASE CheckRange(r, f.size) # None
        <5>1. PICK i, j \in Nat : /\ CheckRange(r, f.size) = [start |-> i, end |-> j + 1]
                                  /\ i <= j /\ j < f.size /\ i..j = Named(r, f.size)
          BY <1>0, <2>0, <3>5, <4>3, CheckRangeIsRight
        <5>2. j + 1 - 1 = j
          OBVIOUS
        <5>3. answer' = Reply(206, i..j)
          BY <4>1, <4>3, <5>1, <5>2
        <5> QED
          BY <2>4, <3>5, <5>1, <5>3
      <4> QED
        BY <4>2, <4>3
    <3> QED
      BY <1>0, <3>1, <3>2, <3>3, <3>4, <3>5
  <2>7. Sound(answer')
    BY <2>5, <2>6 DEF Inv, TypeOK
  <2>8. TypeOK'
    BY <1>0, <2>7 DEF Sound, serverVars, Inv, TypeOK
  <2>9. AnswerOK'
    BY <1>0, <2>0, <2>7 DEF Sound, AnswerOK, NotModified, Refused
  <2>10. WindowIsRight'
    <3>1. answer'.status \in {200, 206, 304, 404, 412, 416}
      BY <2>7 DEF Sound, Answers
    <3> QED
      BY <1>0, <2>7, <3>1 DEF Sound, WindowIsRight
  <2> QED
    BY <1>0, <2>8, <2>9, <2>10 DEF serverVars, Inv, VersionsOK, Versions, RequestOK, HeldOK
<1> QED
  BY <1>1, <1>2

\* What is joined to what the client holds is of the same version.
LEMMA KeepStep ==
    ASSUME Inv, Keep
    PROVE  Inv'
<1>0. /\ UNCHANGED <<serverVars, surface, purpose>>
      /\ request' = None /\ handle' = Nothing /\ answer' = None
      /\ answer # None /\ answer \in Answers /\ request # None
  BY DEF Keep, Inv, TypeOK, AnswerOK
<1>1. /\ held' = None \/ held' \in [file : Files, bytes : SUBSET ({None} \cup Sizes \X (0..MaxWord))]
      /\ held' # None => held'.file \in Versions /\ \A b \in held'.bytes : b[1] = held'.file.size
  <2>0. /\ HeldOK
        /\ held # None =>
              held \in [file : Files, bytes : SUBSET ({None} \cup Sizes \X (0..MaxWord))]
    BY DEF Inv, TypeOK
  <2>1. CASE held' = None \/ held' = held
    BY <2>0, <2>1 DEF HeldOK, Versions, Inv
  <2>2. CASE purpose # "probe" /\ answer.status = 200 /\ ~request.head
    <3>1. handle \in Files /\ answer.from = handle.size /\ handle.size \in Sizes
          /\ answer.bytes \in SUBSET (0..MaxWord)
      BY <1>0, <2>2 DEF Inv, AnswerOK, Files, Answers
    <3>2. PICK x \in SUBSET (0..MaxWord) :
             held' = [file |-> handle, bytes |-> {handle.size} \X x]
      <4>1. CASE purpose = "cache"
        <5>1. held' = [file |-> handle, bytes |-> Bytes(answer)]
          BY <2>2, <4>1 DEF Keep
        <5> QED
          BY <3>1, <5>1 DEF Bytes
      <4>2. CASE purpose # "cache"
        <5>1. [answer EXCEPT !.bytes = @ \cap {0}].from = handle.size
              /\ [answer EXCEPT !.bytes = @ \cap {0}].bytes = answer.bytes \cap {0}
          BY <1>0, <3>1 DEF Answers
        <5> QED
          <6>1. held' = [file |-> handle,
                         bytes |-> Bytes([answer EXCEPT !.bytes = @ \cap {0}])]
            BY <2>2, <4>2 DEF Keep
          <6>2. answer.bytes \cap {0} \in SUBSET (0..MaxWord)
            BY <3>1
          <6> QED
            BY <5>1, <6>1, <6>2 DEF Bytes
      <4> QED
        BY <4>1, <4>2
    <3>3. handle \in Versions
      BY <3>1 DEF Versions
    <3>4. \A b \in {handle.size} \X x : b[1] = handle.size /\ b \in Sizes \X (0..MaxWord)
      BY <3>1
    <3>5. held'.file = handle /\ held'.bytes = {handle.size} \X x
      BY <3>2
    <3> QED
      BY <3>1, <3>2, <3>3, <3>4, <3>5
  <2>3. CASE answer.status = 206 /\ purpose = "resume"
                /\ (Trusted \/ answer.from = held.file.size)
    <3>1. held # None
      BY <1>0, <2>3 DEF Inv, RequestOK, AnswerOK
    <3>2. handle \in Files /\ answer.from = handle.size /\ handle.size \in Sizes
          /\ answer.bytes \in SUBSET (0..MaxWord)
      BY <1>0, <2>3 DEF Inv, AnswerOK, Files, Answers
    <3>3. handle.size = held.file.size
      BY <1>0, <2>3, <3>2 DEF Trusted, Refused, Inv, AnswerOK, RequestOK
    <3>4. held' = [held EXCEPT !.bytes = @ \cup {handle.size} \X answer.bytes]
      BY <2>3, <3>2 DEF Keep, Bytes
    <3>5. \A b \in {handle.size} \X answer.bytes :
             b[1] = handle.size /\ b \in Sizes \X (0..MaxWord)
      BY <3>2
    <3>6. /\ held'.file = held.file
          /\ held'.bytes = held.bytes \cup {handle.size} \X answer.bytes
          /\ held' = [file |-> held'.file, bytes |-> held'.bytes]
      BY <2>0, <3>1, <3>4
    <3>7. held.file \in Versions
      BY <3>1 DEF Versions
    <3>9. \A b \in held'.bytes : b[1] = held'.file.size
      <4> SUFFICES ASSUME NEW b \in held'.bytes PROVE b[1] = held.file.size
        BY <3>6
      <4>1. b \in held.bytes => b[1] = held.file.size
        BY <2>0, <3>1 DEF HeldOK
      <4>2. b \in {handle.size} \X answer.bytes => b[1] = held.file.size
        BY <3>3, <3>5
      <4> QED
        BY <3>6, <4>1, <4>2
    <3>10. held'.file \in Files
      BY <2>0, <3>1, <3>6
    <3>8. held'.bytes \in SUBSET ({None} \cup Sizes \X (0..MaxWord))
      BY <2>0, <3>1, <3>5, <3>6
    <3> QED
      BY <3>6, <3>7, <3>8, <3>9, <3>10
  <2> QED
    BY <2>1, <2>2, <2>3 DEF Keep
<1>2. TypeOK'
  BY <1>0, <1>1 DEF serverVars, Inv, TypeOK
<1>3. Versions' \subseteq Versions /\ now' = now
  BY <1>0, <1>1, Distinct DEF Versions, serverVars
<1>4. VersionsOK'
  BY <1>3 DEF Inv, VersionsOK
<1> QED
  BY <1>0, <1>1, <1>2, <1>4 DEF Inv, RequestOK, AnswerOK, HeldOK, WindowIsRight

-----------------------------------------------------------------------------
\* All of it, in every reachable state.
LEMMA Invariant == Spec => []Inv
<1>1. Init => Inv
  BY InitInv
<1>2. Inv /\ [Next]_vars => Inv'
  <2> SUFFICES ASSUME Inv, [Next]_vars PROVE Inv'
    OBVIOUS
  <2>1. CASE UNCHANGED vars
    BY <2>1 DEF vars, serverVars, Inv, TypeOK, VersionsOK, Versions, RequestOK, AnswerOK, HeldOK,
       WindowIsRight, NotModified, Refused
  <2> QED
    BY <2>1, ServerStep, OpenStep, RespondStep, KeepStep DEF Next
<1> QED
  BY <1>1, <1>2, PTL DEF Spec

\* Every variable keeps its type.
THEOREM TypeCorrect == Spec => []TypeOK
<1>1. Inv => TypeOK
  BY DEF Inv
<1> QED
  BY <1>1, Invariant, PTL

\* A GET is answered with the bytes that its range names, and refused only if there
\* are none or a number cannot be read (parse_range, get_window).
THEOREM RangesAreServed == Spec => []WindowIsRight
<1>1. Inv => WindowIsRight
  BY DEF Inv
<1> QED
  BY <1>1, Invariant, PTL

\* A 304 is given for the client's own bytes, but for a request with a date where an
\* older file has taken the path (check_read_conditions).
THEOREM CurrentIfNotModified == Spec => []NotModifiedIsCurrent
<1>1. Inv => NotModifiedIsCurrent
  <2> SUFFICES ASSUME Inv, answer # None, answer.status = 304,
                      handle.size # held.file.size
               PROVE  request.since # None /\ handle.mtime < held.file.mtime
    BY DEF NotModifiedIsCurrent
  <2>1. request # None /\ handle \in Files /\ NotModified(request, handle)
    BY DEF Inv, AnswerOK
  <2>2. /\ request.since # None /\ handle.mtime <= 2 * request.since
        /\ held # None /\ request.since = Second(held.file.mtime)
    BY <2>1 DEF NotModified, Inv, RequestOK
  <2>3. held.file \in Files /\ handle.mtime \in Nat /\ held.file.mtime \in Nat
    BY <2>1, <2>2, BoundsAssumption DEF Inv, TypeOK, Files
  <2>4. handle.mtime <= held.file.mtime
    BY <2>2, <2>3, SecondIsBefore
  <2>5. handle.mtime # held.file.mtime
    BY <2>1, <2>2 DEF Inv, VersionsOK, Versions
  <2> QED
    BY <2>2, <2>3, <2>4, <2>5
<1> QED
  BY <1>1, Invariant, PTL

\* A download that was resumed is of one version (get_object, If-Match).
THEOREM ResumedVersionIsOne == Spec => []ResumedIsOneVersion
<1>1. Inv => ResumedIsOneVersion
  BY DEF Inv, HeldOK, ResumedIsOneVersion
<1> QED
  BY <1>1, Invariant, PTL

-----------------------------------------------------------------------------
(* Clients that write *)

\* The call holds the answer to an attempt that was, or may have been, carried out.
Holds(c) == reply[c] = "ok" \/ (pc[c] = "sent" /\ reply[c] = "failed")

\* What took effect or still may is no more than the attempts of unknown outcome, and
\* the one whose answer the call holds; and an attempt is counted once.
SdkCallOK(c) ==
    /\ pc[c] \in {"idle", "sent", "backoff", "reading", "done"}
    /\ pc[c] \in {"idle", "backoff"} => reply[c] = "none"
    /\ pc[c] = "reading" => reply[c] # "none"
    /\ wrote[c] + orphans[c] <= unlearned[c] + (IF Holds(c) THEN 1 ELSE 0)
    /\ unlearned[c] + (IF reply[c] = "ok" THEN 1 ELSE 0) <= attempt[c] + 1
    /\ pc[c] \in {"idle", "sent", "backoff"} => unlearned[c] <= attempt[c]
    /\ reply[c] = "ok" => wrote[c] > 0
    /\ reply[c] = "missing" => op[c] = "delete"
    /\ told[c] # {} => pc[c] = "done"
    /\ "ok" \in told[c] => reply[c] = "ok" \/ (op[c] = "delete" /\ reply[c] # "none")
    /\ "refused" \in told[c] => reply[c] = "refused"

\* An upload sends once, and until it ends it is told at most of an abort.
UploadCallOK(u) ==
    /\ pc[u] \in {"idle", "begun", "token", "sent", "reading", "done"}
    /\ pc[u] \in {"idle", "begun", "token"} => reply[u] = "none"
    /\ pc[u] \in {"idle", "begun", "token"} \/ (pc[u] = "sent" /\ reply[u] = "none")
          => wrote[u] = 0 /\ orphans[u] = 0
    /\ wrote[u] + orphans[u] <= 1
    /\ reply[u] = "ok" => wrote[u] = 1
    /\ pc[u] \in {"idle", "begun"} => told[u] = {}
    /\ pc[u] # "done" => told[u] \subseteq {"aborted"}
    /\ "aborted" \in told[u] => aborted

\* An abort is for good; only the failure of an upload takes its status away, and only
\* an upload that ends without a word makes it "uploading" again.
StatusOK ==
    aborted =>
        /\ status # "aborted" => \E v \in Uploads : "error" \in told[v]
        /\ status = "uploading" => \E w \in Uploads : pc[w] = "done" /\ told[w] = {}

\* The types, but for the bounds that follow from the rest.
CountsOK ==
    /\ op \in [Calls -> Ops]
    /\ pc \in [Calls -> Places]
    /\ attempt \in [SdkCalls -> 0..Retries]
    /\ timedOut \subseteq SdkCalls
    /\ reply \in [Calls -> Replies]
    /\ orphans \in [Calls -> Nat]
    /\ stored \in {Absent, Old, New}
    /\ status \in {"idle", "queued", "uploading", "success", "error", "aborted"}
    /\ aborted \in BOOLEAN
    /\ told \in [Calls -> SUBSET (Results \cup Callbacks)]
    /\ wrote \in [Calls -> Nat]
    /\ unlearned \in [SdkCalls -> Nat]

SdkOK == \A c \in SdkCalls : SdkCallOK(c)
UploadOK == \A u \in Uploads : UploadCallOK(u)
ClientsInv == CountsOK /\ SdkOK /\ UploadOK /\ StatusOK /\ SuccessIsExclusive

-----------------------------------------------------------------------------
(* Calls of put and delete *)

\* What nobody touched is as it was.
SameCalls(C) ==
    \A c \in C : /\ op'[c] = op[c] /\ pc'[c] = pc[c] /\ told'[c] = told[c] /\ reply'[c] = reply[c]
                 /\ orphans'[c] = orphans[c] /\ wrote'[c] = wrote[c]
SameCounts(C) == \A c \in C : attempt'[c] = attempt[c] /\ unlearned'[c] = unlearned[c]

\* A step of one SDK call leaves the rest of the invariant alone ...
LEMMA SdkStep ==
    ASSUME ClientsInv, CountsOK', NEW c \in SdkCalls, SdkCallOK(c)',
           SameCalls(Calls \ {c}), SameCounts(SdkCalls \ {c}), UNCHANGED fileVars
    PROVE  ClientsInv'
<1> USE DEF ClientsInv, SameCalls, SameCounts, Calls
<1>1. c \notin Uploads
    BY CallsAssumption
<1>2. SdkOK'
    BY DEF SdkOK, SdkCallOK, Holds
<1>3. UploadOK'
    BY <1>1 DEF UploadOK, UploadCallOK, fileVars
<1>4. \A u \in Uploads : u \in Calls \ {c}
    BY <1>1
<1>5. StatusOK'
    BY <1>4 DEF StatusOK, fileVars
<1>6. SuccessIsExclusive'
    BY <1>4 DEF SuccessIsExclusive, fileVars
<1> QED
    BY <1>2, <1>3, <1>5, <1>6

\* ... and so does a step of one upload, if it keeps the status and the exclusion.
LEMMA UploadStep ==
    ASSUME ClientsInv, CountsOK', NEW u \in Uploads, UploadCallOK(u)',
           SameCalls(Calls \ {u}), SameCounts(SdkCalls), aborted => aborted',
           StatusOK', SuccessIsExclusive'
    PROVE  ClientsInv'
<1> USE DEF ClientsInv, SameCalls, SameCounts, Calls
<1>1. u \notin SdkCalls
    BY CallsAssumption
<1>2. SdkOK'
    BY <1>1 DEF SdkOK, SdkCallOK, Holds
<1>3. UploadOK'
    BY <1>1 DEF UploadOK, UploadCallOK
<1> QED
    BY <1>2, <1>3

\* What Again does to the call.
LEMMA AgainDoes ==
    ASSUME CountsOK, NEW c \in SdkCalls, Again(c)
    PROVE  /\ pc' \in [Calls -> Places] /\ attempt' \in [SdkCalls -> 0..Retries]
           /\ told' \in [Calls -> SUBSET (Results \cup Callbacks)]
           /\ \A d \in Calls \ {c} : pc'[d] = pc[d] /\ told'[d] = told[d]
           /\ \A d \in SdkCalls \ {c} : attempt'[d] = attempt[d]
           /\ \/ pc'[c] = "backoff" /\ attempt'[c] = attempt[c] + 1 /\ told'[c] = told[c]
              \/ pc'[c] = "done" /\ attempt'[c] = attempt[c] /\ told'[c] = told[c] \cup {"thrown"}
<1> USE RetriesAssumption DEF CountsOK, Again, Goto, Tell, Tick, Calls, Places, Results
<1>1. CASE attempt[c] < Retries
    <2>1. attempt[c] + 1 \in 0..Retries
        BY <1>1
    <2> QED
        BY <1>1, <2>1
<1>2. CASE ~(attempt[c] < Retries)
    BY <1>2
<1> QED
    BY <1>1, <1>2

\* What Leave does to the call.
LEMMA LeaveDoes ==
    ASSUME CountsOK, NEW c \in Calls, Leave({c})
    PROVE  /\ orphans' \in [Calls -> Nat] /\ reply' \in [Calls -> Replies]
           /\ \A d \in Calls \ {c} : orphans'[d] = orphans[d] /\ reply'[d] = reply[d]
           /\ orphans'[c] = orphans[c] + (IF reply[c] = "none" THEN 1 ELSE 0) /\ reply'[c] = "none"
BY DEF CountsOK, Leave, Replies

\* The server carries an attempt out, or not.
LEMMA HandleKeeps ==
    ASSUME ClientsInv, NEW c \in Calls, Handle(c) PROVE ClientsInv'
<1> USE DEF ClientsInv
<1>0. CountsOK /\ pc[c] = "sent" /\ reply[c] = "none"
    BY DEF Handle
<1>1. /\ UNCHANGED <<op, pc, attempt, timedOut, orphans, status, aborted, told, unlearned>>
      /\ reply' \in [Calls -> Replies] /\ (\A d \in Calls \ {c} : reply'[d] = reply[d])
      /\ wrote' \in [Calls -> Nat] /\ (\A d \in Calls \ {c} : wrote'[d] = wrote[d])
      /\ stored' \in {Absent, Old, New}
      /\ \/ reply'[c] \in {"ok", "failed"} /\ wrote'[c] = wrote[c] + 1
         \/ reply'[c] \in {"failed", "refused", "missing"} /\ wrote'[c] = wrote[c]
      /\ reply'[c] = "missing" => op[c] = "delete"
    BY <1>0 DEF Handle, TakesEffect, Tick, Replies, CountsOK, sdkVars, fileVars, storeVars
<1>2. CountsOK'
    BY <1>1 DEF CountsOK
<1>3. SameCalls(Calls \ {c}) /\ SameCounts(SdkCalls) /\ UNCHANGED fileVars
    BY <1>1 DEF SameCalls, SameCounts, fileVars
<1>4. CASE c \in SdkCalls
    <2>1. SdkCallOK(c)
        BY <1>4 DEF SdkOK
    <2>2. wrote[c] \in Nat /\ orphans[c] \in Nat /\ unlearned[c] \in Nat /\ attempt[c] \in Nat
        BY <1>4, <1>0 DEF CountsOK
    <2>3. SdkCallOK(c)'
        BY <1>0, <1>1, <2>1, <2>2 DEF SdkCallOK, Holds
    <2> QED
        BY <1>2, <1>3, <1>4, <2>3, SdkStep DEF SameCounts
<1>5. CASE c \in Uploads
    <2>1. UploadCallOK(c)
        BY <1>5 DEF UploadOK
    <2>2. wrote[c] \in Nat /\ orphans[c] \in Nat
        BY <1>0 DEF CountsOK
    <2>3. UploadCallOK(c)'
        BY <1>0, <1>1, <2>1, <2>2 DEF UploadCallOK
    <2>4. StatusOK'
        BY <1>1 DEF StatusOK
    <2>5. SuccessIsExclusive'
        BY <1>0, <1>1, <1>5, <2>1 DEF SuccessIsExclusive, Calls, UploadCallOK
    <2> QED
        BY <1>1, <1>2, <1>3, <1>5, <2>3, <2>4, <2>5, UploadStep
<1> QED
    BY <1>4, <1>5 DEF Calls

\* ... or carries out one that nobody waits for.
LEMMA LateKeeps ==
    ASSUME ClientsInv, NEW c \in Calls, Late(c) PROVE ClientsInv'
<1> USE DEF ClientsInv
<1>0. CountsOK /\ orphans[c] > 0 /\ orphans[c] \in Nat /\ wrote[c] \in Nat
    BY DEF Late, CountsOK
<1>1. /\ UNCHANGED <<op, pc, attempt, timedOut, reply, status, aborted, told, unlearned>>
      /\ orphans' \in [Calls -> Nat] /\ (\A d \in Calls \ {c} : orphans'[d] = orphans[d])
      /\ wrote' \in [Calls -> Nat] /\ (\A d \in Calls \ {c} : wrote'[d] = wrote[d])
      /\ stored' \in {Absent, Old, New}
      /\ orphans'[c] = orphans[c] - 1 /\ wrote'[c] \in {wrote[c], wrote[c] + 1}
    BY <1>0 DEF Late, TakesEffect, Tick, CountsOK, sdkVars, fileVars, storeVars
<1>2. CountsOK'
    BY <1>1 DEF CountsOK
<1>3. SameCalls(Calls \ {c}) /\ SameCounts(SdkCalls) /\ UNCHANGED fileVars
    BY <1>1 DEF SameCalls, SameCounts, fileVars
<1>4. CASE c \in SdkCalls
    <2>1. SdkCallOK(c)
        BY <1>4 DEF SdkOK
    <2>2. unlearned[c] \in Nat /\ attempt[c] \in Nat
        BY <1>4, <1>0 DEF CountsOK
    <2>3. SdkCallOK(c)'
        BY <1>0, <1>1, <2>1, <2>2 DEF SdkCallOK, Holds
    <2> QED
        BY <1>2, <1>3, <1>4, <2>3, SdkStep DEF SameCounts
<1>5. CASE c \in Uploads
    <2>1. UploadCallOK(c)
        BY <1>5 DEF UploadOK
    <2>3. UploadCallOK(c)'
        BY <1>0, <1>1, <2>1 DEF UploadCallOK
    <2>4. StatusOK'
        BY <1>1 DEF StatusOK
    <2>5. SuccessIsExclusive'
        BY <1>0, <1>1, <1>5, <2>1 DEF SuccessIsExclusive, Calls, UploadCallOK
    <2> QED
        BY <1>1, <1>2, <1>3, <1>5, <2>3, <2>4, <2>5, UploadStep
<1> QED
    BY <1>4, <1>5 DEF Calls

-----------------------------------------------------------------------------
(* Calls of the SDK *)

\* An attempt is sent, again or for the first time, or its answer is read.
LEMMA SendingKeeps ==
    ASSUME ClientsInv, NEW c \in SdkCalls, Begin(c) \/ Resend(c) \/ ReadPut(c) \/ ReadDel(c) PROVE ClientsInv'
<1> USE DEF ClientsInv
<1>0. CountsOK /\ SdkCallOK(c) /\ c \in Calls /\ attempt[c] \in Nat /\ unlearned[c] \in Nat
    BY DEF SdkOK, Calls, CountsOK
<1>1. UNCHANGED <<op, timedOut, reply, orphans, stored, wrote, status, aborted, unlearned>>
    BY DEF Begin, Resend, ReadPut, ReadDel, ReadAs, SdkOnly, sdkVars, storeVars, fileVars
<1>2. /\ pc' \in [Calls -> Places] /\ attempt' \in [SdkCalls -> 0..Retries]
      /\ told' \in [Calls -> SUBSET (Results \cup Callbacks)]
      /\ \A d \in Calls \ {c} : pc'[d] = pc[d] /\ told'[d] = told[d]
      /\ \A d \in SdkCalls \ {c} : attempt'[d] = attempt[d]
      /\ \/ pc[c] \in {"idle", "backoff"} /\ pc'[c] = "sent" /\ attempt'[c] = attempt[c] /\ told'[c] = told[c]
         \/ pc[c] = "backoff" /\ pc'[c] = "backoff" /\ attempt'[c] = attempt[c] + 1 /\ told'[c] = told[c]
         \/ pc[c] = "backoff" /\ pc'[c] = "done" /\ attempt'[c] = attempt[c] /\ told'[c] = told[c] \cup {"thrown"}
         \/ /\ pc[c] = "reading" /\ pc'[c] = "done" /\ attempt'[c] = attempt[c]
            /\ \E a \in {"ok", "thrown", "refused", "failed"} :
                  /\ told'[c] = told[c] \cup {a}
                  /\ a = "ok" => reply[c] = "ok" \/ (op[c] = "delete" /\ reply[c] # "none")
                  /\ a = "refused" => reply[c] = "refused"
    <2>1. CASE Begin(c)
        BY <1>0, <2>1 DEF Begin, Goto, CountsOK, Places, sdkVars
    <2>2. CASE Resend(c)
        <3>1. CASE Again(c)
            BY <1>0, <2>2, <3>1, AgainDoes DEF Resend
        <3>2. CASE Goto(c, "sent") /\ UNCHANGED <<attempt, told>>
            BY <1>0, <2>2, <3>2 DEF Resend, Goto, CountsOK, Places
        <3> QED
            BY <2>2, <3>1, <3>2 DEF Resend
    <2>3. CASE ReadPut(c) \/ ReadDel(c)
        <3>1. /\ pc[c] = "reading" /\ Goto(c, "done") /\ UNCHANGED attempt
              /\ \E a \in {"ok", "thrown", "refused", "failed"} :
                    /\ Tell(c, a)
                    /\ a = "ok" => reply[c] = "ok" \/ (op[c] = "delete" /\ reply[c] # "none")
                    /\ a = "refused" => reply[c] = "refused"
            <4>1. pc[c] = "reading" /\ Goto(c, "done") /\ UNCHANGED attempt
                BY <2>3 DEF ReadPut, ReadDel, ReadAs, sdkVars
            <4>2. reply[c] \in {"ok", "refused", "missing", "failed"}
                BY <1>0, <4>1 DEF SdkCallOK, CountsOK, Replies
            <4>3. CASE ReadPut(c)
                <5>1. reply[c] # "missing"
                    BY <1>0, <4>1, <4>3 DEF SdkCallOK, ReadPut
                <5> QED
                    BY <4>1, <4>2, <4>3, <5>1 DEF ReadPut, ReadAs
            <4>4. CASE ReadDel(c)
                BY <4>1, <4>2, <4>4 DEF ReadDel, ReadAs
            <4> QED
                BY <2>3, <4>3, <4>4
        <3> QED
            BY <1>0, <3>1 DEF Goto, Tell, CountsOK, Places, Results
    <2> QED
        BY <2>1, <2>2, <2>3
<1>3. CountsOK'
    BY <1>0, <1>1, <1>2 DEF CountsOK
<1>4. SdkCallOK(c)'
    BY <1>0, <1>1, <1>2 DEF SdkCallOK, Holds
<1> QED
    BY <1>1, <1>2, <1>3, <1>4, SdkStep DEF SameCalls, SameCounts, fileVars

\* An attempt ends without a word on what it did.
LEMMA LossKeeps ==
    ASSUME ClientsInv, NEW c \in SdkCalls, Lose(c) \/ Timeout(c) PROVE ClientsInv'
<1> USE DEF ClientsInv
<1>0. CountsOK /\ SdkCallOK(c) /\ c \in Calls
      /\ attempt[c] \in Nat /\ unlearned[c] \in Nat /\ orphans[c] \in Nat /\ wrote[c] \in Nat
    BY DEF SdkOK, Calls, CountsOK
<1>1. UNCHANGED <<op, stored, wrote, status, aborted>> /\ timedOut' \subseteq SdkCalls
    BY DEF Lose, Timeout, SdkOnly, storeVars, fileVars, CountsOK
<1>2. CASE pc[c] = "sent" /\ Again(c) /\ Leave({c}) /\ unlearned' = Tick(unlearned, c)
    <2>1. unlearned' \in [SdkCalls -> Nat] /\ unlearned'[c] = unlearned[c] + 1
          /\ \A d \in SdkCalls \ {c} : unlearned'[d] = unlearned[d]
        BY <1>0, <1>2 DEF Tick, CountsOK
    <2>2. /\ pc' \in [Calls -> Places] /\ attempt' \in [SdkCalls -> 0..Retries]
          /\ told' \in [Calls -> SUBSET (Results \cup Callbacks)]
          /\ \A d \in Calls \ {c} : pc'[d] = pc[d] /\ told'[d] = told[d]
          /\ \A d \in SdkCalls \ {c} : attempt'[d] = attempt[d]
          /\ \/ pc'[c] = "backoff" /\ attempt'[c] = attempt[c] + 1 /\ told'[c] = told[c]
             \/ pc'[c] = "done" /\ attempt'[c] = attempt[c] /\ told'[c] = told[c] \cup {"thrown"}
        BY <1>0, <1>2, AgainDoes
    <2>3. /\ orphans' \in [Calls -> Nat] /\ reply' \in [Calls -> Replies]
          /\ \A d \in Calls \ {c} : orphans'[d] = orphans[d] /\ reply'[d] = reply[d]
          /\ orphans'[c] = orphans[c] + (IF reply[c] = "none" THEN 1 ELSE 0) /\ reply'[c] = "none"
        BY <1>0, <1>2, LeaveDoes
    <2>4. CountsOK'
        BY <1>0, <1>1, <2>1, <2>2, <2>3 DEF CountsOK
    <2>5. SdkCallOK(c)'
        BY <1>0, <1>1, <1>2, <2>1, <2>2, <2>3 DEF SdkCallOK, Holds
    <2> QED
        BY <1>1, <2>1, <2>2, <2>3, <2>4, <2>5, SdkStep DEF SameCalls, SameCounts, fileVars
<1>3. CASE UNCHANGED <<pc, attempt, reply, told, orphans, unlearned>>
    <2>1. CountsOK' /\ SdkCallOK(c)'
        BY <1>0, <1>1, <1>3 DEF CountsOK, SdkCallOK, Holds
    <2> QED
        BY <1>1, <1>3, <2>1, SdkStep DEF SameCalls, SameCounts, fileVars
<1> QED
    BY <1>2, <1>3 DEF Lose, Timeout

\* An answer arrives.
LEMMA ReceiveKeeps ==
    ASSUME ClientsInv, NEW c \in SdkCalls, Receive(c) PROVE ClientsInv'
<1> USE DEF ClientsInv
<1>0. CountsOK /\ SdkCallOK(c) /\ c \in Calls
      /\ attempt[c] \in Nat /\ unlearned[c] \in Nat /\ orphans[c] \in Nat /\ wrote[c] \in Nat
    BY DEF SdkOK, Calls, CountsOK
<1>1. UNCHANGED <<op, timedOut, stored, wrote, status, aborted>> /\ pc[c] = "sent" /\ reply[c] # "none"
    BY DEF Receive, SdkOnly, storeVars, fileVars
<1>2. unlearned' \in [SdkCalls -> Nat]
      /\ unlearned'[c] = unlearned[c] + (IF reply[c] = "failed" THEN 1 ELSE 0)
      /\ \A d \in SdkCalls \ {c} : unlearned'[d] = unlearned[d]
    BY <1>0 DEF Receive, Tick, CountsOK
<1>3. CASE reply[c] = "failed" /\ Again(c) /\ Leave({c})
    <2>2. /\ pc' \in [Calls -> Places] /\ attempt' \in [SdkCalls -> 0..Retries]
          /\ told' \in [Calls -> SUBSET (Results \cup Callbacks)]
          /\ \A d \in Calls \ {c} : pc'[d] = pc[d] /\ told'[d] = told[d]
          /\ \A d \in SdkCalls \ {c} : attempt'[d] = attempt[d]
          /\ \/ pc'[c] = "backoff" /\ attempt'[c] = attempt[c] + 1 /\ told'[c] = told[c]
             \/ pc'[c] = "done" /\ attempt'[c] = attempt[c] /\ told'[c] = told[c] \cup {"thrown"}
        BY <1>0, <1>3, AgainDoes
    <2>3. /\ orphans' \in [Calls -> Nat] /\ reply' \in [Calls -> Replies]
          /\ \A d \in Calls \ {c} : orphans'[d] = orphans[d] /\ reply'[d] = reply[d]
          /\ orphans'[c] = orphans[c] /\ reply'[c] = "none"
        BY <1>0, <1>1, <1>3, LeaveDoes
    <2>4. CountsOK'
        BY <1>0, <1>1, <1>2, <2>2, <2>3 DEF CountsOK
    <2>5. SdkCallOK(c)'
        BY <1>0, <1>1, <1>2, <1>3, <2>2, <2>3 DEF SdkCallOK, Holds
    <2> QED
        BY <1>1, <1>2, <2>2, <2>3, <2>4, <2>5, SdkStep DEF SameCalls, SameCounts, fileVars
<1>4. CASE Goto(c, "reading") /\ UNCHANGED <<attempt, reply, orphans, told>>
    <2>1. /\ pc' \in [Calls -> Places] /\ pc'[c] = "reading"
          /\ \A d \in Calls \ {c} : pc'[d] = pc[d]
        BY <1>0, <1>4 DEF Goto, CountsOK, Places
    <2>2. CountsOK'
        BY <1>0, <1>1, <1>2, <1>4, <2>1 DEF CountsOK
    <2>3. SdkCallOK(c)'
        BY <1>0, <1>1, <1>2, <1>4, <2>1 DEF SdkCallOK, Holds
    <2> QED
        BY <1>1, <1>2, <1>4, <2>1, <2>2, <2>3, SdkStep DEF SameCalls, SameCounts, fileVars
<1> QED
    BY <1>3, <1>4 DEF Receive

-----------------------------------------------------------------------------
(* Uploads *)

\* What the steps of an upload have in common.
UploadMoves(u) ==
    /\ UNCHANGED <<op, attempt, timedOut, stored, wrote, unlearned, aborted>>
    /\ pc' \in [Calls -> Places] /\ (\A d \in Calls \ {u} : pc'[d] = pc[d])
    /\ told' \in [Calls -> SUBSET (Results \cup Callbacks)] /\ (\A d \in Calls \ {u} : told'[d] = told[d])
    /\ status' \in {"idle", "queued", "uploading", "success", "error", "aborted"}

LEMMA MovesKeep ==
    ASSUME ClientsInv, NEW u \in Uploads, UploadMoves(u), UNCHANGED <<reply, orphans>>,
           UploadCallOK(u)', StatusOK', SuccessIsExclusive'
    PROVE  ClientsInv'
<1>1. CountsOK'
    BY DEF ClientsInv, CountsOK, UploadMoves
<1>2. SameCalls(Calls \ {u}) /\ SameCounts(SdkCalls) /\ (aborted => aborted')
    BY DEF SameCalls, SameCounts, UploadMoves
<1> QED
    BY <1>1, <1>2, UploadStep

\* As long as no upload is told of a success, none has to be alone with it.
LEMMA NoneSucceeds ==
    ASSUME SuccessIsExclusive, UploadOK, NEW u \in Uploads, pc[u] # "done",
           \A d \in Uploads \ {u} : /\ told'[d] = told[d] /\ pc'[d] = pc[d]
                                    /\ reply'[d] = reply[d] /\ wrote'[d] = wrote[d],
           "success" \notin told'[u], told[u] \subseteq told'[u], aborted' = aborted
    PROVE  SuccessIsExclusive'
<1>1. SUFFICES ASSUME NEW s \in Uploads, "success" \in told'[s]
               PROVE  /\ reply'[s] = "ok" /\ wrote'[s] = 1
                      /\ \/ told'[s] = {"success"}
                         \/ /\ told'[s] = {"success", "aborted"} /\ aborted'
                            /\ \E v, w \in Uploads \ {s} :
                                  "error" \in told'[v] /\ pc'[w] = "done" /\ told'[w] = {}
    BY DEF SuccessIsExclusive
<1>2. s # u /\ told'[s] = told[s] /\ reply'[s] = reply[s] /\ wrote'[s] = wrote[s]
    BY <1>1
<1>3. /\ reply[s] = "ok" /\ wrote[s] = 1
      /\ \/ told[s] = {"success"}
         \/ /\ told[s] = {"success", "aborted"} /\ aborted
            /\ \E v, w \in Uploads \ {s} : "error" \in told[v] /\ pc[w] = "done" /\ told[w] = {}
    BY <1>1, <1>2 DEF SuccessIsExclusive
<1>4. CASE told[s] = {"success"}
    BY <1>2, <1>3, <1>4
<1>5. CASE told[s] = {"success", "aborted"} /\ aborted
    <2>1. PICK v \in Uploads \ {s}, w \in Uploads \ {s} : "error" \in told[v] /\ pc[w] = "done" /\ told[w] = {}
        BY <1>3, <1>5
    <2>2. "error" \in told'[v] /\ pc'[w] = "done" /\ told'[w] = {}
        BY <2>1
    <2> QED
        BY <1>2, <1>3, <1>5, <2>2
<1> QED
    BY <1>3, <1>4, <1>5

\* The same of the status.
LEMMA StatusKept ==
    ASSUME StatusOK, UploadOK, NEW u \in Uploads, pc[u] # "done", aborted' = aborted,
           \A d \in Uploads \ {u} : told'[d] = told[d] /\ pc'[d] = pc[d],
           told[u] \subseteq told'[u],
           status' = status \/ "error" \in told'[u]
    PROVE  aborted' =>
             /\ status' # "aborted" => \E v \in Uploads : "error" \in told'[v]
             /\ status' = status /\ status' = "uploading" =>
                    \E w \in Uploads : pc'[w] = "done" /\ told'[w] = {}
<1> SUFFICES ASSUME aborted
             PROVE  /\ status' # "aborted" => \E v \in Uploads : "error" \in told'[v]
                    /\ status' = status /\ status' = "uploading" =>
                           \E w \in Uploads : pc'[w] = "done" /\ told'[w] = {}
    OBVIOUS
<1>1. ASSUME status' # "aborted" PROVE \E v \in Uploads : "error" \in told'[v]
    <2>1. CASE "error" \in told'[u]
        BY <2>1
    <2>2. CASE status' = status
        <3>1. PICK v \in Uploads : "error" \in told[v]
            BY <1>1, <2>2 DEF StatusOK
        <3>2. "error" \in told'[v]
            BY <3>1
        <3> QED
            BY <3>2
    <2> QED
        BY <2>1, <2>2
<1>2. ASSUME status' = status, status' = "uploading"
      PROVE  \E w \in Uploads : pc'[w] = "done" /\ told'[w] = {}
    <2>1. PICK w \in Uploads : pc[w] = "done" /\ told[w] = {}
        BY <1>2 DEF StatusOK
    <2>2. pc'[w] = "done" /\ told'[w] = {}
        BY <2>1
    <2> QED
        BY <2>2
<1> QED
    BY <1>1, <1>2

LEMMA AskKeeps ==
    ASSUME ClientsInv, NEW u \in Uploads, Ask(u) PROVE ClientsInv'
<1> USE DEF ClientsInv
<1>0. CountsOK /\ UploadCallOK(u) /\ u \in Calls /\ pc[u] = "idle" /\ told[u] = {}
    BY DEF Ask, UploadOK, UploadCallOK, Calls
<1>1. UNCHANGED <<reply, orphans, told>> /\ (pc'[u] = "done" \/ pc'[u] = "begun")
      /\ (status' = status \/ (status' = "queued" /\ ~aborted))
      /\ UploadMoves(u)
    BY <1>0 DEF Ask, Goto, HookOnly, UploadMoves, CountsOK, Places, sdkVars, storeVars
<1>2. UploadCallOK(u)'
    BY <1>0, <1>1 DEF UploadCallOK, UploadMoves
<1>3. SuccessIsExclusive'
    BY <1>0, <1>1, NoneSucceeds DEF UploadMoves, Calls
<1>4. StatusOK'
    <2>1. CASE status' = status
        BY <1>0, <1>1, <2>1, StatusKept DEF UploadMoves, Calls, StatusOK
    <2>2. CASE ~aborted
        BY <1>1, <2>2 DEF StatusOK, UploadMoves
    <2> QED
        BY <1>1, <2>1, <2>2
<1> QED
    BY <1>1, <1>2, <1>3, <1>4, MovesKeep

LEMMA StartKeeps ==
    ASSUME ClientsInv, NEW u \in Uploads, Start(u) PROVE ClientsInv'
<1> USE DEF ClientsInv
<1>0. CountsOK /\ UploadCallOK(u) /\ u \in Calls /\ pc[u] = "begun" /\ told[u] = {}
    BY DEF Start, UploadOK, UploadCallOK, Calls
<1>1. UNCHANGED <<reply, orphans, told>> /\ (pc'[u] = "done" \/ pc'[u] = "token")
      /\ \/ status' = status
         \/ status # "aborted" /\ status' = "uploading" /\ (aborted => pc'[u] = "done")
      /\ UploadMoves(u)
    BY <1>0 DEF Start, Goto, HookOnly, UploadMoves, CountsOK, Places, sdkVars, storeVars
<1>2. UploadCallOK(u)'
    BY <1>0, <1>1 DEF UploadCallOK, UploadMoves
<1>3. SuccessIsExclusive'
    BY <1>0, <1>1, NoneSucceeds DEF UploadMoves, Calls
<1>4. StatusOK'
    <2>1. CASE status' = status
        BY <1>0, <1>1, <2>1, StatusKept DEF UploadMoves, Calls, StatusOK
    <2>2. CASE status # "aborted" /\ status' = "uploading" /\ (aborted => pc'[u] = "done")
        BY <1>0, <1>1, <2>2 DEF StatusOK, UploadMoves
    <2> QED
        BY <1>1, <2>1, <2>2
<1> QED
    BY <1>1, <1>2, <1>3, <1>4, MovesKeep

LEMMA TokenKeeps ==
    ASSUME ClientsInv, NEW u \in Uploads, Token(u) PROVE ClientsInv'
<1> USE DEF ClientsInv
<1>0. CountsOK /\ UploadCallOK(u) /\ u \in Calls /\ pc[u] = "token" /\ told[u] \subseteq {"aborted"}
    BY DEF Token, UploadOK, UploadCallOK, Calls
<1>1. UNCHANGED <<reply, orphans, told, status>> /\ pc'[u] = "sent" /\ UploadMoves(u)
    BY <1>0 DEF Token, Goto, HookOnly, UploadMoves, CountsOK, Places, sdkVars, storeVars, fileVars
<1>2. UploadCallOK(u)'
    BY <1>0, <1>1 DEF UploadCallOK, UploadMoves
<1>3. SuccessIsExclusive'
    BY <1>0, <1>1, NoneSucceeds DEF UploadMoves, Calls
<1>4. StatusOK'
    BY <1>0, <1>1, StatusKept DEF UploadMoves, Calls, StatusOK
<1> QED
    BY <1>1, <1>2, <1>3, <1>4, MovesKeep

\* An upload that fails sets the status to "error", even that of an aborted file.
LEMMA FailKeeps ==
    ASSUME ClientsInv, NEW u \in Uploads,
           TooLarge(u) \/ TokenFails(u) \/ XhrError(u) \/ ErrorText(u)
    PROVE  ClientsInv'
<1> USE DEF ClientsInv
<1>0. CountsOK /\ UploadCallOK(u) /\ u \in Calls /\ u \notin SdkCalls
      /\ pc[u] \in {"begun", "token", "sent", "reading"} /\ told[u] \subseteq {"aborted"}
      /\ orphans[u] \in Nat /\ wrote[u] \in Nat
    BY CallsAssumption DEF TooLarge, TokenFails, XhrError, ErrorText, UploadOK, UploadCallOK, Calls, CountsOK
<1>1. pc'[u] = "done" /\ status' = "error" /\ told'[u] = told[u] \cup {"error"} /\ UploadMoves(u)
    <2>1. Fails(u) /\ HookOnly
        BY DEF TooLarge, TokenFails, XhrError, ErrorText
    <2> QED
        BY <1>0, <2>1 DEF Fails, Goto, Tell, HookOnly, UploadMoves, CountsOK, Places, Callbacks,
                          sdkVars, storeVars
<1>2. /\ reply' \in [Calls -> Replies] /\ orphans' \in [Calls -> Nat]
      /\ \A d \in Calls \ {u} : reply'[d] = reply[d] /\ orphans'[d] = orphans[d]
      /\ \/ reply'[u] = reply[u] /\ orphans'[u] = orphans[u]
         \/ /\ pc[u] = "sent" /\ reply'[u] = "none"
            /\ orphans'[u] = orphans[u] + (IF reply[u] = "none" THEN 1 ELSE 0)
    <2>1. CASE UNCHANGED <<reply, orphans>>
        BY <1>0, <2>1 DEF CountsOK
    <2>2. CASE pc[u] = "sent" /\ Leave({u})
        BY <1>0, <2>2, LeaveDoes
    <2> QED
        BY <2>1, <2>2 DEF TooLarge, TokenFails, XhrError, ErrorText
<1>3. UploadCallOK(u)'
    BY <1>0, <1>1, <1>2 DEF UploadCallOK, UploadMoves
<1>4. CountsOK'
    BY <1>0, <1>1, <1>2 DEF CountsOK, UploadMoves
<1>5. SameCalls(Calls \ {u}) /\ SameCounts(SdkCalls) /\ (aborted => aborted')
    BY <1>1, <1>2 DEF SameCalls, SameCounts, UploadMoves
<1>6. SuccessIsExclusive'
    BY <1>0, <1>1, <1>2, NoneSucceeds DEF UploadMoves, Calls
<1>7. StatusOK'
    BY <1>1 DEF StatusOK
<1> QED
    BY <1>3, <1>4, <1>5, <1>6, <1>7, UploadStep

\* A 201 is a success while the status is "uploading".
LEMMA LoadKeeps ==
    ASSUME ClientsInv, NEW u \in Uploads, Load(u) PROVE ClientsInv'
<1> USE DEF ClientsInv
<1>0. CountsOK /\ UploadCallOK(u) /\ u \in Calls /\ pc[u] = "sent" /\ told[u] \subseteq {"aborted"}
    BY DEF Load, UploadOK, UploadCallOK, Calls
<1>1. UNCHANGED <<reply, orphans>> /\ UploadMoves(u)
      /\ \/ pc'[u] = "reading" /\ UNCHANGED <<status, told>>
         \/ pc'[u] = "done" /\ UNCHANGED <<status, told>>
         \/ /\ reply[u] = "ok" /\ pc'[u] = "done" /\ status = "uploading"
            /\ status' = "success" /\ told'[u] = told[u] \cup {"success"}
    BY <1>0 DEF Load, Goto, Tell, HookOnly, UploadMoves, CountsOK, Places, Callbacks, sdkVars, storeVars
<1>2. UploadCallOK(u)'
    BY <1>0, <1>1 DEF UploadCallOK, UploadMoves
<1>3. CASE UNCHANGED <<status, told>>
    <2>1. SuccessIsExclusive'
        BY <1>0, <1>1, <1>3, NoneSucceeds DEF UploadMoves, Calls
    <2>2. StatusOK'
        BY <1>0, <1>1, <1>3, StatusKept DEF UploadMoves, Calls, StatusOK
    <2> QED
        BY <1>1, <1>2, <2>1, <2>2, MovesKeep
<1>4. CASE /\ reply[u] = "ok" /\ pc'[u] = "done" /\ status = "uploading"
           /\ status' = "success" /\ told'[u] = told[u] \cup {"success"}
    <2>1. aborted => \E v, w \in Uploads \ {u} : "error" \in told'[v] /\ pc'[w] = "done" /\ told'[w] = {}
        <3>1. SUFFICES ASSUME aborted
                       PROVE  \E v, w \in Uploads \ {u} : "error" \in told'[v] /\ pc'[w] = "done" /\ told'[w] = {}
            OBVIOUS
        <3>2. PICK v \in Uploads : "error" \in told[v]
            BY <1>4, <3>1 DEF StatusOK
        <3>3. PICK w \in Uploads : pc[w] = "done" /\ told[w] = {}
            BY <1>4, <3>1 DEF StatusOK
        <3>4. v # u /\ w # u
            BY <1>0, <3>2, <3>3
        <3>5. "error" \in told'[v] /\ pc'[w] = "done" /\ told'[w] = {}
            BY <1>1, <3>2, <3>3, <3>4 DEF UploadMoves, Calls
        <3> QED
            BY <3>4, <3>5
    <2>2. told[u] = {} \/ (told[u] = {"aborted"} /\ aborted)
        BY <1>0 DEF UploadCallOK
    <2>3. /\ reply'[u] = "ok" /\ wrote'[u] = 1
          /\ \/ told'[u] = {"success"}
             \/ /\ told'[u] = {"success", "aborted"} /\ aborted'
                /\ \E v, w \in Uploads \ {u} : "error" \in told'[v] /\ pc'[w] = "done" /\ told'[w] = {}
        BY <1>0, <1>1, <1>4, <2>1, <2>2 DEF UploadCallOK, UploadMoves
    <2>4. ASSUME NEW s \in Uploads \ {u}, "success" \in told'[s]
          PROVE  /\ reply'[s] = "ok" /\ wrote'[s] = 1
                 /\ \/ told'[s] = {"success"}
                    \/ /\ told'[s] = {"success", "aborted"} /\ aborted'
                       /\ \E v, w \in Uploads \ {s} : "error" \in told'[v] /\ pc'[w] = "done" /\ told'[w] = {}
        <3>1. told'[s] = told[s] /\ reply'[s] = reply[s] /\ wrote'[s] = wrote[s] /\ aborted' = aborted
            BY <1>1, <2>4 DEF UploadMoves, Calls
        <3>2. reply[s] = "ok" /\ wrote[s] = 1
            BY <2>4, <3>1 DEF SuccessIsExclusive
        <3>3. CASE told[s] = {"success"}
            BY <3>1, <3>2, <3>3
        <3>4. CASE told[s] # {"success"}
            <4>1. PICK v \in Uploads \ {s}, w \in Uploads \ {s} :
                     "error" \in told[v] /\ pc[w] = "done" /\ told[w] = {}
                BY <2>4, <3>1, <3>4 DEF SuccessIsExclusive
            <4>2. v # u /\ w # u
                BY <1>0, <4>1
            <4>3. "error" \in told'[v] /\ pc'[w] = "done" /\ told'[w] = {}
                BY <1>1, <4>1, <4>2 DEF UploadMoves, Calls
            <4>4. told[s] = {"success", "aborted"} /\ aborted
                BY <2>4, <3>1, <3>4 DEF SuccessIsExclusive
            <4> QED
                BY <3>1, <3>2, <4>3, <4>4
        <3> QED
            BY <3>3, <3>4
    <2>5. SuccessIsExclusive'
        BY <2>3, <2>4 DEF SuccessIsExclusive
    <2>6. StatusOK'
        BY <1>1, <1>4, <2>1 DEF StatusOK, UploadMoves
    <2> QED
        BY <1>1, <1>2, <2>5, <2>6, MovesKeep
<1> QED
    BY <1>1, <1>3, <1>4

\* An abort reaches the uploads that listen, once.
LEMMA AbortKeeps ==
    ASSUME ClientsInv, Abort PROVE ClientsInv'
<1> USE DEF ClientsInv
<1> DEFINE hear == {u \in Uploads : ~aborted /\ pc[u] \in {"token", "sent", "reading"}}
           cut == {u \in hear : pc[u] = "sent"}
<1>1. /\ UNCHANGED <<op, attempt, timedOut, stored, wrote, unlearned>>
      /\ status' = "aborted" /\ aborted' = TRUE
      /\ told' = [c \in Calls |-> IF c \in hear THEN told[c] \cup {"aborted"} ELSE told[c]]
      /\ pc' = [c \in Calls |-> IF c \in cut THEN "done" ELSE pc[c]]
      /\ orphans' = [c \in Calls |-> orphans[c] + (IF c \in cut /\ reply[c] = "none" THEN 1 ELSE 0)]
      /\ reply' = [c \in Calls |-> IF c \in cut THEN "none" ELSE reply[c]]
    BY DEF Abort, Leave, HookOnly, sdkVars, storeVars
<1>2. CountsOK'
    <2>1. \A c \in Calls : /\ reply'[c] \in Replies /\ pc'[c] \in Places /\ orphans'[c] \in Nat
                           /\ told'[c] \in SUBSET (Results \cup Callbacks)
        BY <1>1 DEF CountsOK, Places, Replies, Callbacks
    <2> QED
        BY <1>1, <2>1 DEF CountsOK
<1>3. SdkOK'
    <2>1. \A c \in SdkCalls : c \in Calls /\ c \notin hear /\ c \notin cut
        BY CallsAssumption DEF Calls
    <2>2. \A c \in SdkCalls : /\ pc'[c] = pc[c] /\ reply'[c] = reply[c] /\ told'[c] = told[c]
                              /\ orphans'[c] = orphans[c] + 0 /\ orphans[c] \in Nat
        BY <1>1, <2>1 DEF CountsOK
    <2>3. \A c \in SdkCalls : orphans'[c] = orphans[c]
        BY <2>2
    <2>4. ASSUME NEW c \in SdkCalls PROVE SdkCallOK(c)'
        <3>1. /\ pc'[c] = pc[c] /\ reply'[c] = reply[c] /\ told'[c] = told[c]
              /\ orphans'[c] = orphans[c] /\ wrote'[c] = wrote[c] /\ op'[c] = op[c]
              /\ attempt'[c] = attempt[c] /\ unlearned'[c] = unlearned[c]
            BY <1>1, <2>2, <2>3
        <3>2. SdkCallOK(c)
            BY DEF SdkOK
        <3> QED
            BY <3>1, <3>2 DEF SdkCallOK, Holds
    <2> QED
        BY <2>4 DEF SdkOK
<1>4. UploadOK'
    <2>1. ASSUME NEW u \in Uploads PROVE UploadCallOK(u)'
        <3>0. UploadCallOK(u) /\ u \in Calls /\ orphans[u] \in Nat /\ wrote[u] \in Nat
            BY DEF UploadOK, Calls, CountsOK
        <3>1. CASE u \in cut
            <4>1. pc'[u] = "done" /\ reply'[u] = "none" /\ wrote'[u] = wrote[u] /\ aborted'
                  /\ orphans'[u] = orphans[u] + (IF reply[u] = "none" THEN 1 ELSE 0)
                  /\ pc[u] = "sent"
                BY <1>1, <3>0, <3>1
            <4> QED
                BY <3>0, <4>1 DEF UploadCallOK
        <3>2. CASE u \notin cut
            <4>1. pc'[u] = pc[u] /\ reply'[u] = reply[u] /\ wrote'[u] = wrote[u] /\ aborted'
                  /\ orphans'[u] = orphans[u] + 0
                  /\ \/ told'[u] = told[u]
                     \/ told'[u] = told[u] \cup {"aborted"} /\ pc[u] \in {"token", "sent", "reading"}
                BY <1>1, <3>0, <3>2
            <4> QED
                BY <3>0, <4>1 DEF UploadCallOK
        <3> QED
            BY <3>1, <3>2
    <2> QED
        BY <2>1 DEF UploadOK
<1>5. StatusOK'
    BY <1>1 DEF StatusOK
<1>6. SuccessIsExclusive'
    <2>1. ASSUME NEW s \in Uploads, s \notin hear
          PROVE  /\ pc'[s] = pc[s] /\ reply'[s] = reply[s] /\ told'[s] = told[s] /\ wrote'[s] = wrote[s]
        BY <1>1, <2>1 DEF Calls
    <2>2. ASSUME NEW s \in hear PROVE "success" \notin told'[s] /\ "error" \notin told[s] /\ pc[s] # "done"
        BY <1>1, <2>2 DEF Calls, UploadOK, UploadCallOK
    <2>3. ASSUME NEW s \in Uploads, "success" \in told'[s]
          PROVE  /\ reply'[s] = "ok" /\ wrote'[s] = 1
                 /\ \/ told'[s] = {"success"}
                    \/ /\ told'[s] = {"success", "aborted"} /\ aborted'
                       /\ \E v, w \in Uploads \ {s} : "error" \in told'[v] /\ pc'[w] = "done" /\ told'[w] = {}
        <3>1. s \notin hear
            BY <2>2, <2>3
        <3>2. told'[s] = told[s] /\ reply'[s] = reply[s] /\ wrote'[s] = wrote[s] /\ aborted'
            BY <1>1, <2>1, <3>1
        <3>3. reply[s] = "ok" /\ wrote[s] = 1
            BY <2>3, <3>2 DEF SuccessIsExclusive
        <3>4. CASE told[s] = {"success"}
            BY <3>2, <3>3, <3>4
        <3>5. CASE told[s] # {"success"}
            <4>1. PICK v \in Uploads \ {s}, w \in Uploads \ {s} :
                     "error" \in told[v] /\ pc[w] = "done" /\ told[w] = {}
                BY <2>3, <3>2, <3>5 DEF SuccessIsExclusive
            <4>2. v \notin hear /\ w \notin hear
                BY <2>2, <4>1
            <4>3. "error" \in told'[v] /\ pc'[w] = "done" /\ told'[w] = {}
                BY <2>1, <4>1, <4>2
            <4>4. told[s] = {"success", "aborted"}
                BY <2>3, <3>2, <3>5 DEF SuccessIsExclusive
            <4> QED
                BY <3>2, <3>3, <4>3, <4>4
        <3> QED
            BY <3>4, <3>5
    <2> QED
        BY <2>3 DEF SuccessIsExclusive
<1> QED
    BY <1>2, <1>3, <1>4, <1>5, <1>6

-----------------------------------------------------------------------------
LEMMA ClientsInvHolds == ClientsSpec => []ClientsInv
<1>1. ClientsInit => ClientsInv
    <2> SUFFICES ASSUME ClientsInit PROVE ClientsInv
        OBVIOUS
    <2>1. CountsOK
        <3>1. op \in [Calls -> Ops]
            BY DEF ClientsInit
        <3>2. pc \in [Calls -> Places] /\ reply \in [Calls -> Replies]
            BY DEF ClientsInit, Places, Replies
        <3>3. attempt \in [SdkCalls -> 0..Retries] /\ unlearned \in [SdkCalls -> Nat]
            BY RetriesAssumption DEF ClientsInit
        <3>4. orphans \in [Calls -> Nat] /\ wrote \in [Calls -> Nat]
            BY DEF ClientsInit
        <3>5. /\ timedOut \subseteq SdkCalls /\ stored \in {Absent, Old, New} /\ aborted \in BOOLEAN
              /\ status \in {"idle", "queued", "uploading", "success", "error", "aborted"}
            BY DEF ClientsInit
        <3>6. told \in [Calls -> SUBSET (Results \cup Callbacks)]
            BY DEF ClientsInit
        <3> QED
            BY <3>1, <3>2, <3>3, <3>4, <3>5, <3>6 DEF CountsOK
    <2>2. SdkOK
        BY DEF ClientsInit, SdkOK, SdkCallOK, Holds, Calls
    <2>3. UploadOK
        BY DEF ClientsInit, UploadOK, UploadCallOK, Calls
    <2>4. StatusOK /\ SuccessIsExclusive
        BY DEF ClientsInit, StatusOK, SuccessIsExclusive, Calls
    <2> QED
        BY <2>1, <2>2, <2>3, <2>4 DEF ClientsInv
<1>2. ClientsInv /\ [ClientsNext]_callVars => ClientsInv'
    <2> SUFFICES ASSUME ClientsInv, [ClientsNext]_callVars PROVE ClientsInv'
        OBVIOUS
    <2>1. ASSUME NEW c \in Calls, Handle(c) \/ Late(c) PROVE ClientsInv'
        BY <2>1, HandleKeeps, LateKeeps
    <2>2. ASSUME NEW c \in SdkCalls, Begin(c) \/ SdkGoes(c) \/ Lose(c) \/ Timeout(c) PROVE ClientsInv'
        BY <2>2, SendingKeeps, LossKeeps, ReceiveKeeps DEF SdkGoes
    <2>3. ASSUME NEW u \in Uploads,
                 Ask(u) \/ HookGoes(u) \/ TooLarge(u) \/ TokenFails(u) \/ XhrError(u)
          PROVE  ClientsInv'
        BY <2>3, AskKeeps, StartKeeps, TokenKeeps, FailKeeps, LoadKeeps DEF HookGoes
    <2>4. CASE Abort
        BY <2>4, AbortKeeps
    <2>5. CASE UNCHANGED callVars
        <3>1. UNCHANGED <<op, pc, attempt, timedOut, reply, orphans>>
              /\ UNCHANGED <<stored, wrote, status, aborted, told, unlearned>>
            BY <2>5 DEF callVars, sdkVars, storeVars, fileVars
        <3>2. CountsOK'
            BY <3>1 DEF ClientsInv, CountsOK
        <3>3. SdkOK'
            BY <3>1 DEF ClientsInv, SdkOK, SdkCallOK, Holds
        <3>4. UploadOK'
            BY <3>1 DEF ClientsInv, UploadOK, UploadCallOK
        <3>5. StatusOK'
            BY <3>1 DEF ClientsInv, StatusOK
        <3>6. SuccessIsExclusive'
            BY <3>1 DEF ClientsInv, SuccessIsExclusive
        <3> QED
            BY <3>2, <3>3, <3>4, <3>5, <3>6 DEF ClientsInv
    <2> QED
        BY <2>1, <2>2, <2>3, <2>4, <2>5 DEF ClientsNext
<1> QED
    BY <1>1, <1>2, PTL DEF ClientsSpec

\* The variables of the clients keep their types (ClientsTypeOK): a call never sends
\* more attempts than it has retries for, and an upload sends one.
THEOREM ClientsTypeCorrect == ClientsSpec => []ClientsTypeOK
<1>1. ClientsInv => ClientsTypeOK
    <2> SUFFICES ASSUME ClientsInv PROVE ClientsTypeOK
        OBVIOUS
    <2>1. ASSUME NEW c \in SdkCalls
          PROVE  /\ wrote[c] \in 0..Retries + 1 /\ orphans[c] \in 0..Retries + 1
                 /\ unlearned[c] \in 0..Retries + 1
        <3>1. SdkCallOK(c)
            BY DEF ClientsInv, SdkOK
        <3>2. wrote[c] \in Nat /\ orphans[c] \in Nat /\ unlearned[c] \in Nat
              /\ attempt[c] \in Nat /\ attempt[c] <= Retries
            BY RetriesAssumption DEF ClientsInv, CountsOK, Calls
        <3> QED
            BY <3>1, <3>2, RetriesAssumption DEF SdkCallOK, Holds
    <2>2. ASSUME NEW u \in Uploads
          PROVE  wrote[u] \in 0..Retries + 1 /\ orphans[u] \in 0..Retries + 1
        <3>1. UploadCallOK(u)
            BY DEF ClientsInv, UploadOK
        <3>2. wrote[u] \in Nat /\ orphans[u] \in Nat
            BY DEF ClientsInv, CountsOK, Calls
        <3> QED
            BY <3>1, <3>2, RetriesAssumption DEF UploadCallOK
    <2> QED
        BY <2>1, <2>2 DEF ClientsInv, CountsOK, ClientsTypeOK, Calls
<1> QED
    BY <1>1, ClientsInvHolds, PTL

\* However often a call of put or delete is sent, loses its answer or times out, and
\* however late the server carries it out: what it reports is true as far as ToldTheTruth
\* says.
THEOREM ReportsAreTrue == ClientsSpec => []ToldTheTruth
<1>1. ClientsInv => ToldTheTruth
    <2> SUFFICES ASSUME ClientsInv, NEW c \in SdkCalls
                 PROVE  /\ "ok" \in told[c] =>
                              wrote[c] > 0 \/ (op[c] = "delete" /\ reply[c] \in {"missing", "refused", "failed"})
                        /\ "refused" \in told[c] /\ unlearned[c] = 0 => wrote[c] = 0
                        /\ wrote[c] <= 1 + unlearned[c]
        BY DEF ToldTheTruth
    <2>1. SdkCallOK(c)
        BY DEF ClientsInv, SdkOK
    <2>2. wrote[c] \in Nat /\ orphans[c] \in Nat /\ unlearned[c] \in Nat
        BY DEF ClientsInv, CountsOK, Calls
    <2>3. reply[c] \in Replies
        BY DEF ClientsInv, CountsOK, Calls
    <2> QED
        BY <2>1, <2>2, <2>3 DEF SdkCallOK, Holds, Replies
<1> QED
    BY <1>1, ClientsInvHolds, PTL

\* However many uploads of a file overlap and whenever it is aborted: success is told
\* once and alone, with the exception that SuccessIsExclusive names.
THEOREM SuccessIsTold == ClientsSpec => []SuccessIsExclusive
<1>1. ClientsInv => SuccessIsExclusive
    BY DEF ClientsInv
<1> QED
    BY <1>1, ClientsInvHolds, PTL
===============================================================================
