------------------------------ MODULE ListPages ------------------------------
(***************************************************************************)
(* A client pages through a bucket while other requests change it.         *)
(*                                                                         *)
(* AppState::list_page takes one range of the index and then looks at each *)
(* of its files: a stat, and the xattrs by path, up to 64 files at once.   *)
(* The client asks for the next page with the cursor of the last one until *)
(* there is none.  The bucket and the requests that change it are those of *)
(* ListingIndex.  One partition holds the entries of all buckets: they are *)
(* numbers here, in the order of their bytes, and the keys are those of    *)
(* the bucket's entries.                                                   *)
(***************************************************************************)
EXTENDS ListingIndex, SequencesExt

CONSTANTS Neighbours,  \* the entries of other buckets, which no request changes
          Bucket, Name,            \* the bytes of the bucket's name, and of each key
          Others,                  \* the bytes of each neighbour
          AskedPrefixes,           \* what a client may ask for
          AskedDelimiters,         \* ... one byte, or 0 for none
          Limit                    \* keys per page the client asks for

\* No string holds the byte 0 or, in UTF-8, the byte 255, and no other bucket has
\* this bucket's name.
ASSUME BytesAssumption ==
    /\ Bucket \in Seq(1..254) /\ Bucket # <<>>
    /\ Name \in [Keys -> Seq(1..254)] /\ \A k \in Keys : Name[k] # <<>>
    /\ Others \in [Neighbours -> Seq(0..254)]
    /\ \A n \in Neighbours : ~IsPrefix(Bucket \o <<0>>, Others[n])
    /\ AskedPrefixes \subseteq Seq(1..254) /\ AskedDelimiters \subseteq 0..254
ASSUME PageAssumption ==
    /\ Limit \in Nat \ {0}
    /\ Keys \subseteq Nat \ {0} /\ Neighbours \subseteq Nat \ Keys
    /\ IsFiniteSet(Keys)

VARIABLES prefix, delimiter,   \* what the client asks for
          lister,      \* what the client's current list request is doing
          cursor,      \* the cursor it carries
          next,        \* the next_cursor its answer will carry
          page,        \* the keys of the scan not yet looked at
          statted,     \* those whose stat succeeded
          items,       \* those whose xattrs were read
          shown,       \* the keys the client has got so far, in that order
          groups,      \* the common prefixes it has got so far, in that order
          stable       \* history: files and entries that were there throughout

askVars == <<prefix, delimiter>>
pageVars == <<cursor, next, page, statted, items>>
listVars == <<lister, askVars, pageVars, shown, groups>>
allVars == <<vars, listVars, stable>>

PagesTypeOK ==
    /\ lister \in {"idle", "scan", "heads", "failed", "done"}
    /\ prefix \in AskedPrefixes /\ delimiter \in AskedDelimiters
    /\ cursor \in Keys \cup {0} /\ next \in Keys \cup {0}
    /\ page \subseteq Keys /\ statted \subseteq Keys /\ items \subseteq Keys
    /\ shown \in Seq(Keys) /\ groups \in Seq(Seq(1..254))
    /\ stable \subseteq Keys

PagesInit ==
    /\ Init
    /\ prefix \in AskedPrefixes /\ delimiter \in AskedDelimiters
    /\ lister = "idle" /\ cursor = 0 /\ next = 0
    /\ page = {} /\ statted = {} /\ items = {} /\ shown = <<>> /\ groups = <<>>
    /\ stable = {}

-----------------------------------------------------------------------------
(* The entries of the partition, and the range that a scan takes *)

\* The order of byte strings, which is fjall's and that of String.
Less(s, t) ==
    \E n \in 0..Len(s) :
        /\ n < Len(t) /\ SubSeq(s, 1, n) = SubSeq(t, 1, n)
        /\ n = Len(s) \/ s[n + 1] < t[n + 1]

Encode(key) == Bucket \o <<0>> \o key
Entry == [n \in Keys \cup Neighbours |-> IF n \in Keys THEN Encode(Name[n]) ELSE Others[n]]

ASSUME OrderAssumption ==
    \A m, n \in Keys \cup Neighbours : m < n => Less(Entry[m], Entry[n])

\* Bug: the cursor key is part of the next page.
LoBoundInclusive(p, c) == IF c = 0 THEN Encode(p) ELSE Encode(Name[c])

\* Just after the cursor, if there is one.
LoBound(p, c) == IF c = 0 THEN Encode(p) ELSE Encode(Name[c]) \o <<0>>

\* Bug: the byte after the bucket's name is incremented whatever the prefix.
HiBoundOfBucket(p) == Bucket \o <<1>>

\* hi_bound: the last byte that has a successor is replaced by it.
HiBound(p) ==
    IF p = <<>> THEN Bucket \o <<1>>
    ELSE LET last == Max({i \in DOMAIN Encode(p) : Encode(p)[i] < 255})
         IN  SubSeq(Encode(p), 1, last - 1) \o <<Encode(p)[last] + 1>>

\* The entries in range for a prefix and a cursor.
InRange ==
    [p \in AskedPrefixes |-> [c \in Keys \cup {0} |->
        {n \in Keys \cup Neighbours : /\ ~Less(Entry[n], LoBound(p, c))
                                     /\ Less(Entry[n], HiBound(p))
                                     /\ Len(Entry[n]) > Len(Bucket) + 1}]]

\* The first n entries of E, all of it if there are fewer.
Smallest(E, n) == {e \in E : Cardinality({d \in E : d < e}) < n}
Found(n) == Smallest((index \cup Neighbours) \cap InRange[prefix][cursor], n)

-----------------------------------------------------------------------------
Begin ==
    /\ lister = "idle" /\ server = "up"
    /\ lister' = "scan"
    /\ stable' = files \cap index
    /\ UNCHANGED <<vars, askVars, pageVars, shown, groups>>

\* Bug: the page is cut after the scan, the cursor is that of the scan.
ScanOneMore ==
    /\ lister = "scan" /\ server = "up"
    /\ page' = Found(Limit)
    /\ next' = IF Cardinality(Found(Limit + 1)) > Limit THEN Max(Found(Limit + 1)) ELSE 0
    /\ lister' = "heads"
    /\ statted' = {} /\ items' = {}
    /\ UNCHANGED <<vars, askVars, cursor, shown, groups>>

\* Index::scan; a full page is taken to have a next.
Scan ==
    /\ lister = "scan" /\ server = "up"
    /\ page' = Found(Limit)
    /\ next' = IF Cardinality(Found(Limit)) = Limit THEN Max(Found(Limit)) ELSE 0
    /\ lister' = "heads"
    /\ statted' = {} /\ items' = {}
    /\ UNCHANGED <<vars, askVars, cursor, shown, groups>>

\* Bug: a file that is gone is looked for again.
StatAgain(k) ==
    /\ lister = "heads" /\ k \in page
    /\ k \in files /\ page' = page \ {k} /\ statted' = statted \cup {k}
    /\ UNCHANGED <<vars, lister, askVars, cursor, next, items, shown, groups>>

\* head_object: a file that is gone at the stat is skipped ...
Stat(k) ==
    /\ lister = "heads" /\ k \in page
    /\ page' = page \ {k}
    /\ statted' = IF k \in files THEN statted \cup {k} ELSE statted
    /\ UNCHANGED <<vars, lister, askVars, cursor, next, items, shown, groups>>

\* ... but one that goes between the stat and the xattrs fails the whole page.
ReadAttrs(k) ==
    /\ lister = "heads" /\ k \in statted
    /\ statted' = statted \ {k}
    /\ IF k \in files
         THEN items' = items \cup {k} /\ UNCHANGED lister
         ELSE lister' = "failed" /\ UNCHANGED items
    /\ UNCHANGED <<vars, askVars, cursor, next, page, shown, groups>>

\* Where the delimiter is after the prefix, and the group that a key falls into.
Cuts(p, d, key) == {i \in DOMAIN key : i > Len(p) /\ key[i] = d}
Group(k) == SubSeq(Name[k], 1, Min(Cuts(prefix, delimiter, Name[k])))
Grouped(k) == Cuts(prefix, delimiter, Name[k]) # {}

\* The elements of a finite set, one after the other in the order that Before is.
Sorted(S, Before(_, _)) ==
    CHOOSE s \in [1..Cardinality(S) -> S] :
        \A i, j \in 1..Cardinality(S) : i < j => Before(s[i], s[j])

\* collapse_with_delimiter, page by page.
AnswerPage ==
    /\ lister = "heads" /\ page = {} /\ statted = {}
    /\ shown' = shown \o Sorted({k \in items : ~Grouped(k)}, <)
    /\ groups' = groups \o Sorted({Group(k) : k \in {j \in items : Grouped(j)}}, Less)
    /\ cursor' = next
    /\ lister' = IF next = 0 THEN "done" ELSE "scan"
    /\ UNCHANGED <<vars, askVars, next, page, statted, items>>

\* The client asks for the same page again.
Retry ==
    /\ lister = "failed"
    /\ lister' = "scan"
    /\ UNCHANGED <<vars, askVars, pageVars, shown, groups>>

List ==
    /\ Scan \/ (\E k \in Keys : Stat(k) \/ ReadAttrs(k)) \/ AnswerPage \/ Retry
    /\ UNCHANGED stable

\* The other requests; a server that dies takes the list request with it.
Change ==
    /\ Next
    /\ lister' = IF server' # "up" /\ lister = "heads" THEN "failed" ELSE lister
    /\ stable' = stable \cap files' \cap index'
    /\ UNCHANGED <<askVars, pageVars, shown, groups>>

PagesNext == Begin \/ List \/ Change

PagesSpec == PagesInit /\ [][PagesNext]_allVars

\* The runtime polls the handler, a client that wants the listing asks for the
\* next page, and a starting server goes on with its reconcile.
Recover ==
    /\ Reconcile
    /\ stable' = stable \cap files' \cap index'
    /\ UNCHANGED listVars

FairSpec == PagesSpec /\ WF_allVars(List) /\ WF_allVars(Recover)

-----------------------------------------------------------------------------
(* Correctness *)

\* The listing a client puts together from its pages is in ascending order and
\* shows no key twice, whatever is changed while it pages; its groups ascend too,
\* and one can come again only where a page ends in the middle of it (Index::scan,
\* collapse_with_delimiter).
ShownAscending ==
    /\ \A i, j \in DOMAIN shown : i < j => shown[i] < shown[j]
    /\ \A i, j \in DOMAIN groups : i < j => ~Less(groups[j], groups[i])

\* It misses no object that has the prefix and that was there, and listed, from its
\* beginning to its end.
StableShown ==
    lister = "done" =>
        \A k \in stable : IsPrefix(prefix, Name[k]) =>
            \/ \E i \in DOMAIN shown : shown[i] = k
            \/ \E i \in DOMAIN groups : IsPrefix(groups[i], Name[k])

\* It shows what was asked for and nothing of another bucket: keys with the prefix
\* and no delimiter behind it, groups with the prefix and one (hi_bound, scan).
ShownIsAsked ==
    /\ \A i \in DOMAIN shown : /\ shown[i] \in Keys
                              /\ IsPrefix(prefix, Name[shown[i]]) /\ ~Grouped(shown[i])
    /\ \A i \in DOMAIN groups : /\ IsPrefix(prefix, groups[i])
                               /\ Cuts(prefix, delimiter, groups[i]) = {Len(groups[i])}

\* A listing that was begun comes to its end: each page starts after the last.
ListingEnds == lister = "scan" ~> lister = "done"
=============================================================================
