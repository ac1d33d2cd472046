------------------------------ MODULE Downloads ------------------------------
(***************************************************************************)
(* What a client puts together from several answers: a copy that it keeps  *)
(* and revalidates, and a download that it resumes with a Range, while     *)
(* other files take the object's path.  A request opens the object and is  *)
(* answered from that handle (ObjectReads); REST answers ranges, S3 ranges *)
(* and conditions.                                                         *)
(*                                                                         *)
(* A file has its bytes, which its etag stands for, and its mtime, which   *)
(* is when they were written and not when the file came to its path: PUTs  *)
(* may commit in another order than they wrote, and renames keep it.  The  *)
(* file system tells more than one time in a second, HTTP dates do not.    *)
(***************************************************************************)
EXTENDS Integers, FiniteSets

CONSTANTS
    Sizes,      \* the sizes of the objects that are written; the bytes differ with the size
    MaxTime,    \* bound: file times, two to a second
    MaxWord,    \* the greatest number a u64 holds, scaled down
    None        \* no file, no header, nothing

ASSUME SizesAssumption == Sizes \subseteq 0..MaxWord /\ IsFiniteSet(Sizes)
ASSUME BoundsAssumption == MaxTime \in Nat /\ MaxWord \in Nat
ASSUME NoneAssumption ==
    None \notin Nat \cup [first : Nat, last : Nat] \cup [start : Nat, end : Nat]

VARIABLES
    object,     \* the file at the object's path
    staged,     \* a file on its way to it: a PUT before its commit, or another key's
    now,        \* the clock of the file system
    surface,    \* the client speaks "rest" or "s3"
    purpose,    \* what it is after: "probe" ranges, "cache" a copy, "resume" a download
    request,    \* its request in flight
    handle,     \* what the request opened
    answer,     \* the answer the client got
    held        \* what the client holds: the version it is of, and which bytes

serverVars == <<object, staged, now>>
vars == <<serverVars, surface, purpose, request, handle, answer, held>>

Files == [size : Sizes, mtime : 0..MaxTime]
Nothing == [size |-> None, mtime |-> None]

Second(t) == t \div 2        \* Last-Modified
Whole(s) == 0..(s - 1)       \* the positions of the bytes of an object of size s

\* Range: bytes=first-last; one of them may be missing, and both may be words.
Numbers == 0..(MaxWord + 1) \cup {None}
Ranges == [first : Numbers, last : Numbers]

Plain == [head |-> FALSE, range |-> None, match |-> None, noneMatch |-> None, since |-> None,
          unmodified |-> None]

Answers == [status : {200, 206, 304, 404, 412, 416}, from : Sizes \cup {None},
            date : Nat \cup {None}, bytes : SUBSET (0..MaxWord)]

TypeOK ==
    /\ object \in Files \cup {Nothing} /\ staged \in Files \cup {Nothing}
    /\ now \in 0..MaxTime
    /\ surface \in {"rest", "s3"} /\ purpose \in {"probe", "cache", "resume"}
    /\ request = None \/ request \in [head : BOOLEAN, range : Ranges \cup {None},
           match : Sizes \cup {None}, noneMatch : Sizes \cup {None}, since : Nat \cup {None}, unmodified : Nat \cup {None}]
    /\ handle \in Files \cup {Nothing}
    /\ answer = None \/ answer \in Answers
    /\ held = None \/ held \in [file : Files, bytes : SUBSET ({None} \cup Sizes \X (0..MaxWord))]

Init ==
    /\ object = Nothing /\ staged = Nothing /\ now = 0
    /\ surface \in {"rest", "s3"} /\ purpose \in {"probe", "cache", "resume"}
    /\ request = None /\ handle = Nothing /\ answer = None /\ held = None

-----------------------------------------------------------------------------
clientVars == <<surface, purpose, request, handle, answer, held>>

\* The last bytes of a file are written, and it is closed; the clock goes on.
Stage(s) ==
    /\ staged = Nothing /\ now < MaxTime
    /\ staged' = [size |-> s, mtime |-> now]
    /\ now' = now + 1
    /\ UNCHANGED <<object, clientVars>>

\* A file written later overtakes the staged one: its PUT is over first.
Overtake(s) ==
    /\ now < MaxTime
    /\ object' = [size |-> s, mtime |-> now]
    /\ now' = now + 1
    /\ UNCHANGED <<staged, clientVars>>

\* commit_locked, or move_object: the staged file is renamed to the path.
Place ==
    /\ staged # Nothing
    /\ object' = staged /\ staged' = Nothing
    /\ UNCHANGED <<now, clientVars>>

Delete ==
    /\ object # Nothing /\ object' = Nothing
    /\ UNCHANGED <<staged, now, clientVars>>

-----------------------------------------------------------------------------
Idle == request = None /\ answer = None

\* The request reaches open_object, or head_object: what it finds answers it.
Open(q) ==
    /\ Idle
    /\ request' = q /\ handle' = object
    /\ UNCHANGED <<serverVars, surface, purpose, answer, held>>

\* The client tries a range out.
Probe == /\ purpose = "probe" /\ held = None
         /\ \E r \in Ranges : Open([Plain EXCEPT !.range = r])

\* It gets the whole object, or what it takes to know that its copy is current.
Fetch == purpose # "probe" /\ held = None /\ Open(Plain)
Validators == [noneMatch : {None, held.file.size}, since : {None, Second(held.file.mtime)}]
Revalidate ==
    /\ purpose = "cache" /\ held # None
    /\ \E v \in Validators, h \in BOOLEAN :
          Open([Plain EXCEPT !.head = h, !.noneMatch = v.noneMatch, !.since = v.since])

\* The connection broke after the first byte; the rest is asked for.
Resume ==
    /\ purpose = "resume" /\ held # None
    /\ LET rest == [Plain EXCEPT !.range = [first |-> 1, last |-> None]]
       IN  \/ Open([rest EXCEPT !.match = held.file.size])
           \/ Open([rest EXCEPT !.unmodified = Second(held.file.mtime)])

-----------------------------------------------------------------------------
Reply(status, positions) ==
    [status |-> status, from |-> handle.size, bytes |-> positions,
     date |-> IF handle = Nothing THEN None ELSE Second(handle.mtime)]
Fail(status) == Reply(status, {})

\* Its numbers can be read (str::parse::<u64>) and there is something to choose from.
Word(n) == n \in 0..MaxWord \cup {None}
Readable(r, size) ==
    /\ size > 0 /\ Word(r.first) /\ Word(r.last)
    /\ r.first = None => r.last \notin {None, 0}

Suffix(n, size) == [first |-> IF n > size THEN 0 ELSE size - n, last |-> size - 1]

Window(r, size) ==
    CASE r.first = None -> Suffix(r.last, size)
      [] r.first # None /\ r.last = None -> [first |-> r.first, last |-> size - 1]
      [] OTHER          -> [first |-> r.first,
                            last  |-> IF r.last < size THEN r.last ELSE size - 1]

\* parse_range: the inclusive window, or None for 416.
ParseRange(r, size) ==
    IF ~Readable(r, size) THEN None
    ELSE LET w == Window(r, size)
         IN  IF w.first > w.last \/ w.first >= size THEN None ELSE w

\* Bug: without a range the last position is what an empty object's would be.
GetWindowInclusive(size, window) ==
    IF window = None THEN [start |-> 0, length |-> IF size = 0 THEN 1 ELSE size]
    ELSE [start |-> window.first, length |-> window.last - window.first + 1]

\* get_window, and the bytes that mmap gives for it.
GetWindow(size, window) ==
    IF window = None THEN [start |-> 0, length |-> size]
    ELSE [start |-> window.first, length |-> window.last - window.first + 1]
Mapped(w) == w.start..(w.start + w.length - 1)

\* The range check of the S3 library, with an exclusive end: what RFC 9110 asks for.
CheckRange(r, size) ==
    LET inclusive == ParseRange(r, size)
    IN  IF inclusive = None THEN None ELSE [start |-> inclusive.first, end |-> inclusive.last + 1]

\* Bug: file times are compared as the dates they would be sent as.
NotModifiedByDate(q, f) ==
    \/ q.noneMatch # None /\ f.size = q.noneMatch
    \/ q.since # None /\ Second(f.mtime) <= q.since

\* check_read_conditions, those of 412 before those of 304; a date is the first
\* instant of its second.
Refused(q, f) == \/ q.match # None /\ f.size # q.match
                 \/ q.unmodified # None /\ f.mtime > 2 * q.unmodified
NotModified(q, f) == \/ q.noneMatch # None /\ f.size = q.noneMatch
                     \/ q.since # None /\ f.mtime <= 2 * q.since

\* The REST handlers look at no condition.
RestHead == Reply(200, {})

RestGet(q, f) ==
    IF q.range = None THEN Reply(200, Mapped(GetWindow(f.size, None)))
    ELSE LET window == ParseRange(q.range, f.size)
         IN  IF window = None THEN Fail(416)
             ELSE Reply(206, Mapped(GetWindow(f.size, window)))

\* head_object and get_object of S3.
S3Head(q, f) ==
    IF Refused(q, f) THEN Fail(412)
    ELSE IF NotModified(q, f) THEN Fail(304)
    ELSE Reply(200, {})

\* Bug: If-Match is held against the file that is at the path by now.
S3GetOfPath(q, f) ==
    IF object # Nothing /\ Refused(q, object) THEN Fail(412)
    ELSE IF NotModified(q, f) THEN Fail(304)
    ELSE IF q.range = None THEN Reply(200, Whole(f.size))
    ELSE LET w == CheckRange(q.range, f.size)
         IN  IF w = None THEN Fail(416) ELSE Reply(206, w.start..(w.end - 1))

S3Get(q, f) ==
    IF Refused(q, f) THEN Fail(412)
    ELSE IF NotModified(q, f) THEN Fail(304)
    ELSE IF q.range = None THEN Reply(200, Whole(f.size))
    ELSE LET w == CheckRange(q.range, f.size)
         IN  IF w = None THEN Fail(416) ELSE Reply(206, w.start..(w.end - 1))

\* The handlers after open_object or head_object, for a client that may see the object.
Respond ==
    /\ request # None /\ answer = None
    /\ answer' = IF handle = Nothing THEN Fail(404)
                 ELSE IF surface = "rest"
                 THEN IF request.head THEN RestHead ELSE RestGet(request, handle)
                 ELSE IF request.head THEN S3Head(request, handle) ELSE S3Get(request, handle)
    /\ UNCHANGED <<serverVars, surface, purpose, request, handle, held>>

-----------------------------------------------------------------------------
Bytes(a) == {a.from} \X a.bytes
Trusted == surface = "s3" /\ request.match # None

\* The client keeps what it got: a copy, or no more than its first byte if the
\* connection breaks.  A 304 leaves the copy, a HEAD that finds another drops it;
\* a 206 is joined to the first byte if its etag is the same.  Where If-Match was
\* sent and is looked at, which is by S3 alone, the client does not compare.
Keep ==
    /\ answer # None
    /\ held' = CASE purpose = "probe" -> None
                 [] purpose # "probe" /\ answer.status = 200 /\ ~request.head ->
                        [file |-> handle,
                         bytes |-> IF purpose = "cache" THEN Bytes(answer)
                                   ELSE Bytes([answer EXCEPT !.bytes = @ \cap {0}])]
                 [] answer.status = 206 /\ purpose = "resume"
                       /\ (Trusted \/ answer.from = held.file.size) ->
                        [held EXCEPT !.bytes = @ \cup Bytes(answer)]
                 [] answer.status = 304 /\ purpose # "probe" -> held
                 [] OTHER -> None
    /\ request' = None /\ handle' = Nothing /\ answer' = None
    /\ UNCHANGED <<serverVars, surface, purpose>>

Next ==
    \/ \E s \in Sizes : Stage(s) \/ Overtake(s)
    \/ Place \/ Delete
    \/ Probe \/ Fetch \/ Revalidate \/ Resume \/ Respond \/ Keep

Spec == Init /\ [][Next]_vars

-----------------------------------------------------------------------------
(* Correctness *)

\* The bytes a range names, by RFC 9110: from `first` to `last`, or the last
\* `last`, as far as there are any.
Named(r, size) ==
    CASE r.first = None /\ r.last = None -> {}
      [] r.first = None /\ r.last # None -> {i \in Whole(size) : i >= size - r.last}
      [] r.first # None /\ r.last = None -> {i \in Whole(size) : i >= r.first}
      [] OTHER          -> {i \in Whole(size) : i >= r.first /\ i <= r.last}

\* A GET is answered with all bytes, or with those its range names, and refused only
\* if there are none or a number is too great to be read: suffixes longer than the
\* object, empty objects and ends past the last byte included (parse_range,
\* get_window).
WindowIsRight ==
    answer # None /\ handle # Nothing =>
        LET r == request.range
        IN  CASE answer.status = 200 ->
                     answer.bytes = IF request.head THEN {} ELSE Whole(handle.size)
              [] answer.status = 206 -> answer.bytes = Named(r, handle.size) /\ answer.bytes # {}
              [] answer.status = 416 ->
                     Named(r, handle.size) = {} \/ r.first = MaxWord + 1 \/ r.last = MaxWord + 1
              [] OTHER -> answer.bytes = {}

\* A copy that was found current is: a 304 is not given for other bytes, unless the
\* request has a date and a file older than the copy has taken its place
\* (check_read_conditions).
NotModifiedIsCurrent ==
    answer # None /\ answer.status = 304 /\ handle.size # held.file.size =>
        request.since # None /\ handle.mtime < held.file.mtime

\* A download put together from two answers is of one version, whatever took the
\* path between and during them (get_object, If-Match).
ResumedIsOneVersion == held # None => \A b, c \in held.bytes : b[1] = c[1]
=============================================================================
