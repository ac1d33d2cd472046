----------------------------- MODULE AtomicObject -----------------------------
(***************************************************************************)
(* What the storage crate promises for one object path: every request      *)
(* takes effect at one instant between its arrival and its answer, on the  *)
(* version that is there at that instant; a request is refused only when   *)
(* its condition does not hold at some such instant; and the effect of an  *)
(* answered PUT, If-Match PUT or DELETE survives a power loss.             *)
(* (A create is the code's exception: it is answered before its directory  *)
(* entry is durable.)                                                      *)
(***************************************************************************)
CONSTANTS Requests, Kinds, Expected, Etags, InitialEtags,
          AnyEtag, NoEtag, Initial, NoObject

VARIABLES object,    \* the version at the path
          stable,    \* the version a power loss would leave
          volatile,  \* requests whose effect is not yet in `stable`
          phase, kind, expects, etag

vars == <<object, stable, volatile, phase, kind, expects, etag>>

Init ==
    /\ object \in {Initial, NoObject} /\ stable = object /\ volatile = {}
    /\ phase = [r \in Requests |-> "new"]
    /\ kind = [r \in Requests |-> "none"]
    /\ expects = [r \in Requests |-> AnyEtag]
    /\ \E e \in InitialEtags :
          etag = [v \in Requests \cup {Initial} |-> IF v = Initial THEN e ELSE NoEtag]

\* The condition of the request holds of the object as it is now.
Accepts(r) ==
    /\ kind[r] = "create" => object = NoObject
    /\ kind[r] = "ifMatch" => /\ object # NoObject
                              /\ etag[object] # NoEtag
                              /\ expects[r] \in {AnyEtag, etag[object]}

Move(r, p) == phase' = [phase EXCEPT ![r] = p]

Submit(r) ==
    /\ phase[r] = "new"
    /\ \E k \in Kinds, x \in Expected \cup {AnyEtag}, e \in Etags \cup {NoEtag} :
          /\ kind' = [kind EXCEPT ![r] = k]
          /\ expects' = [expects EXCEPT ![r] = x]
          /\ etag' = [etag EXCEPT ![r] = e]
    /\ Move(r, "open")
    /\ UNCHANGED <<object, stable, volatile>>

Apply(r) ==
    /\ phase[r] = "open" /\ Accepts(r)
    /\ object' = IF kind[r] = "delete" THEN NoObject ELSE r
    /\ volatile' = volatile \cup {r}
    /\ Move(r, IF kind[r] = "create" THEN "ok" ELSE "applied")
    /\ UNCHANGED <<stable, kind, expects, etag>>

DeleteNothing(r) ==
    /\ phase[r] = "open" /\ kind[r] = "delete" /\ object = NoObject
    /\ Move(r, "ok")
    /\ UNCHANGED <<object, stable, volatile, kind, expects, etag>>

Refuse(r) ==
    /\ phase[r] = "open" /\ ~Accepts(r)
    /\ Move(r, "refused")
    /\ UNCHANGED <<object, stable, volatile, kind, expects, etag>>

Persist ==
    /\ stable' = object /\ volatile' = {}
    /\ UNCHANGED <<object, phase, kind, expects, etag>>

\* The answer follows the moment the effect became durable.
Ack(r) ==
    /\ phase[r] = "applied" /\ r \notin volatile
    /\ Move(r, "ok")
    /\ UNCHANGED <<object, stable, volatile, kind, expects, etag>>

PersistAndAck(r) ==
    /\ phase[r] = "applied"
    /\ stable' = object /\ volatile' = {}
    /\ Move(r, "ok")
    /\ UNCHANGED <<object, kind, expects, etag>>

\* Requests that get no useful answer: their effect may or may not have happened.
Fail(S) ==
    /\ \A r \in S : phase[r] \in {"open", "applied"}
    /\ phase' = [r \in Requests |-> IF r \in S THEN "failed" ELSE phase[r]]
    /\ UNCHANGED <<object, stable, volatile, kind, expects, etag>>

PowerLoss ==
    /\ object' = stable /\ volatile' = {}
    /\ phase' = [r \in Requests |->
                    IF phase[r] \in {"open", "applied"} THEN "failed" ELSE phase[r]]
    /\ UNCHANGED <<stable, kind, expects, etag>>

Next ==
    \/ \E r \in Requests : Submit(r) \/ Apply(r) \/ DeleteNothing(r) \/ Refuse(r)
                           \/ Ack(r) \/ PersistAndAck(r)
    \/ \E S \in SUBSET Requests : Fail(S)
    \/ Persist \/ PowerLoss

Spec == Init /\ [][Next]_vars
=============================================================================
