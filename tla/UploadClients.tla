---------------------------- MODULE UploadClients ----------------------------
(***************************************************************************)
(* The two clients of the TypeScript SDK that write: put and delete of     *)
(* createObjectsClient, whose fetch sends an attempt again after a failure *)
(* or a 5xx, and uploadFile of the React hooks, of which several calls may *)
(* be about the same SelectedFile, aborted by useAbort.  All of them are   *)
(* about one object.  The server and the network are external: an attempt  *)
(* takes effect or not, and its answer arrives or not.                     *)
(***************************************************************************)
EXTENDS Naturals, FiniteSets

CONSTANTS
    SdkCalls,   \* calls of put and delete
    Uploads,    \* calls of uploadFile, about one SelectedFile
    Retries,    \* opts.retries
    Absent, Old, New    \* no object, the version whose etag the If-Match PUTs have, any other

ASSUME RetriesAssumption == Retries \in Nat
ASSUME CallsAssumption ==
    SdkCalls \cap Uploads = {} /\ Cardinality({Absent, Old, New}) = 3

Calls == SdkCalls \cup Uploads

VARIABLES
    op,         \* op[c]: a PUT, plain, of a ReadableStream, If-None-Match: * or If-Match, or a DELETE
    pc,         \* pc[c]: where the call is
    attempt,    \* attempt[c]: the loop variable of the retrying fetch
    timedOut,   \* the SDK calls whose AbortSignal.timeout has fired
    reply,      \* reply[c]: what the server made of the attempt in flight
    orphans,    \* orphans[c]: attempts that nobody waits for and the server may yet carry out
    stored,     \* the version that is stored
    status,     \* SelectedFile.status
    aborted,    \* SelectedFile.abortController.signal.aborted
    told,       \* told[c]: what the caller was told, by a result, an exception or a callback
    wrote,      \* history: how many attempts of a call took effect
    unlearned   \* history: how many attempts of an SDK call ended without a word on what they did

sdkVars == <<attempt, timedOut>>
fileVars == <<status, aborted>>
storeVars == <<stored, wrote>>
callVars == <<op, pc, sdkVars, reply, orphans, storeVars, fileVars, told, unlearned>>

Ops == {"put", "stream", "create", "replace", "delete"}
Places == {"idle", "begun", "backoff", "token", "sent", "reading", "done"}
Replies == {"none", "ok", "refused", "missing", "failed"}
Results == {"ok", "refused", "failed", "thrown"}
Callbacks == {"success", "error", "aborted"}

ClientsTypeOK ==
    /\ op \in [Calls -> Ops]
    /\ pc \in [Calls -> Places]
    /\ attempt \in [SdkCalls -> 0..Retries]
    /\ timedOut \subseteq SdkCalls
    /\ reply \in [Calls -> Replies]
    /\ orphans \in [Calls -> 0..Retries + 1]
    /\ stored \in {Absent, Old, New}
    /\ status \in {"idle", "queued", "uploading", "success", "error", "aborted"}
    /\ aborted \in BOOLEAN
    /\ told \in [Calls -> SUBSET (Results \cup Callbacks)]
    /\ wrote \in [Calls -> 0..Retries + 1]
    /\ unlearned \in [SdkCalls -> 0..Retries + 1]

ClientsInit ==
    /\ op \in {o \in [Calls -> Ops] : \A u \in Uploads : o[u] = "put"}
    /\ pc = [c \in Calls |-> "idle"]
    /\ attempt = [c \in SdkCalls |-> 0]
    /\ timedOut = {}
    /\ reply = [c \in Calls |-> "none"]
    /\ orphans = [c \in Calls |-> 0]
    /\ stored \in {Absent, Old}
    /\ status = "idle" /\ aborted = FALSE
    /\ told = [c \in Calls |-> {}]
    /\ wrote = [c \in Calls |-> 0]
    /\ unlearned = [c \in SdkCalls |-> 0]

Goto(c, l) == pc' = [pc EXCEPT ![c] = l]
Tell(c, what) == told' = [told EXCEPT ![c] = @ \cup {what}]
Tick(f, c) == [f EXCEPT ![c] = @ + 1]

-----------------------------------------------------------------------------
(* The server, as a client sees it. *)

Permitted(c) ==
    CASE op[c] \in {"put", "stream"} -> TRUE
      [] op[c] = "create" -> stored = Absent
      [] op[c] = "replace" -> stored = Old
      [] op[c] = "delete" -> stored # Absent

TakesEffect(c) ==
    /\ Permitted(c)
    /\ stored' = IF op[c] = "delete" THEN Absent ELSE New
    /\ wrote' = Tick(wrote, c)

\* A 5xx may come before the change or after it (a directory that does not sync).  A 4xx
\* is for a condition that does not hold, or for a token, a size or a name; anything on
\* the way may answer so too.  To an upload a 4xx is a failure like a 5xx.  A DELETE that
\* finds nothing is answered like any other.
Handle(c) ==
    /\ pc[c] = "sent" /\ reply[c] = "none"
    /\ \/ /\ TakesEffect(c)
          /\ \E a \in {"ok", "failed"} : reply' = [reply EXCEPT ![c] = a]
       \/ /\ UNCHANGED storeVars
          /\ \/ op[c] = "delete" /\ ~Permitted(c) /\ reply' = [reply EXCEPT ![c] = "missing"]
             \/ c \in SdkCalls /\ reply' = [reply EXCEPT ![c] = "refused"]
             \/ reply' = [reply EXCEPT ![c] = "failed"]
    /\ UNCHANGED <<op, pc, sdkVars, orphans, fileVars, told, unlearned>>

\* An attempt whose client went away is carried out late, or never.
Late(c) ==
    /\ orphans[c] > 0
    /\ orphans' = [orphans EXCEPT ![c] = @ - 1]
    /\ TakesEffect(c) \/ UNCHANGED storeVars
    /\ UNCHANGED <<op, pc, sdkVars, reply, fileVars, told, unlearned>>

\* Clients stop listening to their attempts in flight.
Leave(cs) ==
    /\ orphans' = [c \in Calls |-> orphans[c] + (IF c \in cs /\ reply[c] = "none" THEN 1 ELSE 0)]
    /\ reply' = [c \in Calls |-> IF c \in cs THEN "none" ELSE reply[c]]

-----------------------------------------------------------------------------
(* createObjectsClient *)

SdkOnly == UNCHANGED <<op, storeVars, fileVars>>

Begin(c) ==
    /\ pc[c] = "idle" /\ Goto(c, "sent")
    /\ SdkOnly /\ UNCHANGED <<sdkVars, reply, orphans, told, unlearned>>

\* Bug: the loop does not count its attempts.
AgainUncounted(c) ==
    /\ UNCHANGED attempt
    /\ IF attempt[c] < Retries THEN Goto(c, "backoff") /\ UNCHANGED told
       ELSE Goto(c, "done") /\ Tell(c, "thrown")

\* The attempt threw: back off, or throw in turn after the last one.
Again(c) ==
    IF attempt[c] < Retries
    THEN Goto(c, "backoff") /\ attempt' = Tick(attempt, c) /\ UNCHANGED told
    ELSE Goto(c, "done") /\ Tell(c, "thrown") /\ UNCHANGED attempt

\* The next attempt, with the same init: a signal that has fired or a stream that was
\* read makes fetch throw at once.
Resend(c) ==
    /\ pc[c] = "backoff"
    /\ IF c \in timedOut \/ op[c] = "stream" THEN Again(c)
       ELSE Goto(c, "sent") /\ UNCHANGED <<attempt, told>>
    /\ SdkOnly /\ UNCHANGED <<timedOut, reply, orphans, unlearned>>

\* The connection breaks, before or after the server has carried the attempt out.
Lose(c) ==
    /\ pc[c] = "sent" /\ Again(c)
    /\ Leave({c}) /\ unlearned' = Tick(unlearned, c)
    /\ SdkOnly /\ UNCHANGED timedOut

\* The one timer of all attempts fires.
Timeout(c) ==
    /\ pc[c] \in {"sent", "backoff"} /\ c \notin timedOut
    /\ timedOut' = timedOut \cup {c}
    /\ IF pc[c] = "sent"
       THEN Again(c) /\ Leave({c}) /\ unlearned' = Tick(unlearned, c)
       ELSE UNCHANGED <<pc, attempt, reply, told, orphans, unlearned>>
    /\ SdkOnly

\* The head of an answer arrives; a 5xx is thrown away while attempts are left.
Receive(c) ==
    /\ pc[c] = "sent" /\ reply[c] # "none"
    /\ IF reply[c] = "failed" /\ attempt[c] < Retries
       THEN Again(c) /\ Leave({c})
       ELSE Goto(c, "reading") /\ UNCHANGED <<attempt, reply, orphans, told>>
    /\ unlearned' = IF reply[c] = "failed" THEN Tick(unlearned, c) ELSE unlearned
    /\ SdkOnly /\ UNCHANGED timedOut

ReadAs(c, results) ==
    /\ pc[c] = "reading" /\ Goto(c, "done")
    /\ \E a \in results : Tell(c, a)
    /\ SdkOnly /\ UNCHANGED <<sdkVars, reply, orphans, unlearned>>

\* Bug: the status of the response is not looked at.
ReadPutUnchecked(c) == op[c] # "delete" /\ ReadAs(c, {"ok"})

\* put looks at the status.  When the body of a 201 breaks off it throws; the body of an
\* error is optional.
ReadPut(c) ==
    /\ op[c] # "delete"
    /\ ReadAs(c, IF reply[c] = "ok" THEN {"ok", "thrown"} ELSE {reply[c]})

\* del looks at the parsed body first: openapi-fetch reads none with a 204, and throws if
\* the body of an error breaks off.  An error whose body is empty counts as success,
\* like a 404.
ReadDel(c) ==
    /\ op[c] = "delete"
    /\ ReadAs(c, IF reply[c] \in {"ok", "missing"} THEN {"ok"} ELSE {reply[c], "ok", "thrown"})

-----------------------------------------------------------------------------
(* uploadFile and useAbort *)

HookOnly == UNCHANGED <<op, storeVars, sdkVars, unlearned>>

\* uploadFiles marks every file of its chunks first and skips an aborted one;
\* uploadFile itself awaits the key before it looks at anything.
Ask(u) ==
    /\ pc[u] = "idle"
    /\ \/ status = "aborted" /\ Goto(u, "done") /\ UNCHANGED status
       \/ aborted /\ Goto(u, "done") /\ UNCHANGED status
       \/ status # "aborted" /\ ~aborted /\ Goto(u, "begun") /\ status' = "queued"
       \/ Goto(u, "begun") /\ UNCHANGED status
    /\ HookOnly /\ UNCHANGED <<aborted, reply, orphans, told>>

\* The status is "uploading" before the signal is looked at, and is left so.
Start(u) ==
    /\ pc[u] = "begun"
    /\ IF status = "aborted" THEN Goto(u, "done") /\ UNCHANGED status
       ELSE status' = "uploading" /\ Goto(u, IF aborted THEN "done" ELSE "token")
    /\ HookOnly /\ UNCHANGED <<aborted, reply, orphans, told>>

\* The request goes out, whatever happened while the token was awaited.
Token(u) ==
    /\ pc[u] = "token" /\ Goto(u, "sent")
    /\ HookOnly /\ UNCHANGED <<fileVars, reply, orphans, told>>

\* What the four ways of failing have in common: file too large, no token, no
\* connection, and an answer that is not a 2xx, once its text was awaited.
Fails(u) == Goto(u, "done") /\ status' = "error" /\ Tell(u, "error") /\ UNCHANGED aborted

TooLarge(u) ==
    /\ pc[u] = "begun" /\ Fails(u)
    /\ HookOnly /\ UNCHANGED <<reply, orphans>>

TokenFails(u) ==
    /\ pc[u] = "token" /\ Fails(u)
    /\ HookOnly /\ UNCHANGED <<reply, orphans>>

XhrError(u) ==
    /\ pc[u] = "sent" /\ Fails(u)
    /\ Leave({u}) /\ HookOnly

ErrorText(u) ==
    /\ pc[u] = "reading" /\ Fails(u)
    /\ HookOnly /\ UNCHANGED <<reply, orphans>>

\* Bug: an answer that arrives is a success, whatever became of the file meanwhile.
LoadAlwaysTells(u) ==
    /\ pc[u] = "sent" /\ reply[u] # "none"
    /\ IF reply[u] = "ok"
       THEN Goto(u, "done") /\ status' = "success" /\ Tell(u, "success")
       ELSE Goto(u, "reading") /\ UNCHANGED <<status, told>>
    /\ HookOnly /\ UNCHANGED <<aborted, reply, orphans>>

\* An answer arrives; a 201 counts only while the status is "uploading".
Load(u) ==
    /\ pc[u] = "sent" /\ reply[u] # "none"
    /\ IF reply[u] # "ok" THEN Goto(u, "reading") /\ UNCHANGED <<status, told>>
       ELSE /\ Goto(u, "done")
            /\ IF status = "uploading" THEN status' = "success" /\ Tell(u, "success")
               ELSE UNCHANGED <<status, told>>
    /\ HookOnly /\ UNCHANGED <<aborted, reply, orphans>>

\* Every call that listens to the signal is told; the ones whose XHR is out end.  A
\* signal fires once, and what began to listen later never hears of it.
Abort ==
    LET hear == {u \in Uploads : ~aborted /\ pc[u] \in {"token", "sent", "reading"}}
        cut == {u \in hear : pc[u] = "sent"}
    IN /\ status \notin {"success", "error"}
       /\ status' = "aborted" /\ aborted' = TRUE
       /\ told' = [c \in Calls |-> IF c \in hear THEN told[c] \cup {"aborted"} ELSE told[c]]
       /\ pc' = [c \in Calls |-> IF c \in cut THEN "done" ELSE pc[c]]
       /\ Leave(cut) /\ HookOnly

-----------------------------------------------------------------------------
SdkGoes(c) == Resend(c) \/ Receive(c) \/ ReadPut(c) \/ ReadDel(c)
HookGoes(u) == Start(u) \/ Token(u) \/ ErrorText(u) \/ Load(u)

ClientsNext ==
    \/ \E c \in Calls : Handle(c) \/ Late(c)
    \/ \E c \in SdkCalls : Begin(c) \/ SdkGoes(c) \/ Lose(c) \/ Timeout(c)
    \/ \E u \in Uploads : Ask(u) \/ HookGoes(u) \/ TooLarge(u) \/ TokenFails(u) \/ XhrError(u)
    \/ Abort

\* A server that is asked answers, generateToken settles, timers and callbacks run.
\* That anything is asked for, breaks, times out or is aborted is left open.
Fairness ==
    /\ \A c \in Calls : WF_callVars(Handle(c))
    /\ \A c \in SdkCalls : WF_callVars(SdkGoes(c))
    /\ \A u \in Uploads : WF_callVars(HookGoes(u))

ClientsSpec == ClientsInit /\ [][ClientsNext]_callVars /\ Fairness

-----------------------------------------------------------------------------
\* What put and delete report of a retried call can be relied on as far as this: a
\* success was carried out (but for a DELETE that found nothing, or whose last answer was
\* an error that del takes for success), a refusal with no attempt of unknown outcome
\* before it means that nothing was written, and a call changes the object once more than
\* it has such attempts at most (buildFetch).
ToldTheTruth ==
    \A c \in SdkCalls :
        /\ "ok" \in told[c] =>
              wrote[c] > 0 \/ (op[c] = "delete" /\ reply[c] \in {"missing", "refused", "failed"})
        /\ "refused" \in told[c] /\ unlearned[c] = 0 => wrote[c] = 0
        /\ wrote[c] <= 1 + unlearned[c]

\* An upload that reported success had its own PUT carried out and answered, and
\* reported nothing else, whatever another upload of the file does and whenever the file
\* is aborted; but for this: it was told of the abort while its token was on its way,
\* another upload then failed, which takes the status out of "aborted", and a third set
\* it to "uploading" before it saw the abort and went away (uploadFile, useAbort).
SuccessIsExclusive ==
    \A u \in Uploads : "success" \in told[u] =>
        /\ reply[u] = "ok" /\ wrote[u] = 1
        /\ \/ told[u] = {"success"}
           \/ /\ told[u] = {"success", "aborted"} /\ aborted
              /\ \E v, w \in Uploads \ {u} : "error" \in told[v] /\ pc[w] = "done" /\ told[w] = {}

\* Every call that was begun ends, with an answer, an exception or a callback, or
\* silently for an upload that was aborted.
CallsEnd == \A c \in Calls : pc[c] # "idle" ~> pc[c] = "done"
=============================================================================
