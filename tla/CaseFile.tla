------------------------------ MODULE CaseFile ------------------------------
(***************************************************************************)
(* What analysts put on a case file: comments, observables and what is     *)
(* known of them, links, runbooks, attached files.  Every handler loads    *)
(* cases.json whole, changes its copy and saves that whole, in a thread of *)
(* its own and under no lock; the bytes of an attachment are a file beside *)
(* it.  Incidents has the same store with one request at a time.           *)
(***************************************************************************)
EXTENDS Integers, Sequences, FiniteSets, FiniteSetsExt

CONSTANTS Asked,       \* the operations asked for
          Named,       \* the numbers they name cases and entries by
          Start,       \* cases.json when the requests come in
          MaxRequests, MaxDeaths    \* bounds


Notes == {"comment", "summary", "runbook", "approval"}
Reads == {"download", "inspect"}
OfItems == Reads \cup {"enrich", "link"}
Ops == Notes \cup OfItems \cup {"create", "observable", "attach"}

ASSUME CaseFileAssumption ==
    {MaxRequests, MaxDeaths} \subseteq Nat /\ Asked \subseteq Ops /\ Named \subseteq Nat

Requests == 1..MaxRequests   \* in the order they come in

VARIABLES
    caseFile,    \* cases.json: [form, cases], case-n under n
    blobs,       \* case-blobs/<case>/<attachment>: who wrote it, and all of it?
    request,     \* the handler of each request
    overtaken,   \* those whose copy another saved over, or who found no JSON
    deaths       \* of the console

fileVars == <<caseFile, blobs, request, overtaken, deaths>>

\* It has no entries and files but those the requests make, and links that
\* add_case_link has made.
ASSUME StartAssumption ==
    /\ Start \in Seq([activity : {{}}, observables : Seq({"none", "advisory"}),
                     attachments : {<<>>}, links : SUBSET DOMAIN Start])
    /\ \A n \in DOMAIN Start : \A m \in Start[n].links : n \in Start[m].links

NoCases == [n \in {} |-> {}]

Json(cases) == [form |-> "json", cases |-> cases]
Torn(form) == [form |-> form, cases |-> NoCases]

\* Of an entry, by whom it was made tells which one it is.
Bare(r) ==
    [activity |-> {r}, observables |-> <<>>, attachments |-> <<>>, links |-> {}]

Idle == [at |-> "unsent", op |-> "comment", case |-> 0, item |-> 0,
         copy |-> NoCases, answer |-> 0, got |-> <<>>]

FileInit ==
    /\ caseFile = Json(Start)
    /\ blobs = [b \in {} |-> {}]
    /\ request = [r \in Requests |-> Idle]
    /\ overtaken = {}
    /\ deaths = 0

-----------------------------------------------------------------------------
(* soc._load: no JSON is no cases.                                          *)
Readable == caseFile.cases

Underway == {r \in Requests : request[r].at \notin {"unsent", "over"}}

\* max + 1
NextCase(cases) == IF cases = NoCases THEN 1 ELSE Max(DOMAIN cases) + 1

\* What was read stays of interest where bytes go with it.
Answered(q, code) ==
    [q EXCEPT !.at = "over", !.answer = code,
              !.copy = IF q.op \in Reads \cup {"attach"} THEN @ ELSE NoCases]

(* What a handler refuses once it has the case.  item: the number of an     *)
(* observable or an attachment, or another case.                            *)
Unfit(q) ==
    LET case == q.copy[q.case]
    IN  \/ q.op = "enrich" /\ q.item \notin DOMAIN case.observables
        \/ q.op = "link" /\ q.item \notin DOMAIN q.copy \ {q.case}

Unlisted(q) == q.op \in Reads /\ q.item \notin DOMAIN q.copy[q.case].attachments

Send(r, op, n, item) ==
    /\ request[r].at = "unsent"
    /\ \A s \in 1..r - 1 : request[s].at # "unsent"
    /\ LET q == [Idle EXCEPT !.at = "loaded", !.op = op, !.copy = Readable,
                             !.case = IF op = "create" THEN NextCase(Readable) ELSE n,
                             !.item = item]
       IN  request' = [request EXCEPT ![r] =
              CASE op = "create" -> q
                [] q.case \notin DOMAIN q.copy -> Answered(q, 404)
                [] Unfit(q) -> Answered(q, 400)
                [] Unlisted(q) -> Answered(q, 404)
                [] OTHER -> q]
    /\ overtaken' = IF caseFile.form = "json" THEN overtaken ELSE overtaken \cup {r}
    /\ UNCHANGED <<caseFile, blobs, deaths>>

Asks(r) ==
    \E op \in Asked : \E n, item \in Named :
        /\ op = "create" <=> n = 0
        /\ op \in OfItems <=> item # 0
        /\ Send(r, op, n, item)

\* A runbook that is not eligible, an approval that is not created.
Gated == {"runbook", "approval"}

Decline(r) ==
    /\ request[r].at = "loaded" /\ request[r].op \in Gated
    /\ request' = [request EXCEPT ![r] = Answered(@, 409)]
    /\ UNCHANGED <<caseFile, blobs, overtaken, deaths>>

-----------------------------------------------------------------------------
(* What each handler makes of the case in its copy.                         *)
Noted(case, r) == [case EXCEPT !.activity = @ \cup {r}]

WithObservable(case, r) ==
    [case EXCEPT !.activity = @ \cup {r}, !.observables = Append(@, "none")]

Enriched(case, r, item) ==
    [case EXCEPT !.activity = @ \cup {r}, !.observables[item] = "advisory"]

WithAttachment(case, r) ==
    [case EXCEPT !.activity = @ \cup {r}, !.attachments = Append(@, r)]

\* Mutant: the case that was linked is not told.
LinkedOneSided(cases, r, n, m) == [cases EXCEPT ![n] = [Noted(cases[n], r) EXCEPT !.links = @ \cup {m}]]

\* Both sides of a link are in one save.
Linked(cases, r, n, m) ==
    [cases EXCEPT ![n] = [Noted(cases[n], r) EXCEPT !.links = @ \cup {m}], ![m].links = @ \cup {n}]

Created(cases, r, n) == [k \in DOMAIN cases \cup {n} |-> IF k = n THEN Bare(r) ELSE cases[k]]

Changed(q, r) ==
    CASE q.op = "create" -> Created(q.copy, r, q.case)
      [] q.op = "link" -> Linked(q.copy, r, q.case, q.item)
      [] q.op = "observable" -> [q.copy EXCEPT ![q.case] = WithObservable(@, r)]
      [] q.op = "enrich" -> [q.copy EXCEPT ![q.case] = Enriched(@, r, q.item)]
      [] q.op = "attach" -> [q.copy EXCEPT ![q.case] = WithAttachment(@, r)]
      [] OTHER -> [q.copy EXCEPT ![q.case] = Noted(@, r)]

-----------------------------------------------------------------------------
(* add_case_attachment: case_store.put, "real file bytes" before the case.  *)
Draw(q) == <<q.case, Len(q.copy[q.case].attachments) + 1>>

Bytes(b, r, whole) ==
    blobs' = [k \in DOMAIN blobs \cup {b} |-> IF k = b THEN [by |-> r, whole |-> whole] ELSE blobs[k]]

OpenBlob(r) ==
    /\ request[r].at = "loaded" /\ request[r].op = "attach"
    /\ Bytes(Draw(request[r]), r, FALSE)
    /\ request' = [request EXCEPT ![r].at = "opened"]
    /\ UNCHANGED <<caseFile, overtaken, deaths>>

WriteBlob(r) ==
    /\ request[r].at = "opened"
    /\ Bytes(Draw(request[r]), r, TRUE)
    /\ request' = [request EXCEPT ![r].at = "stored"]
    /\ UNCHANGED <<caseFile, overtaken, deaths>>

\* put refuses a file that is too large before it touches one.
TooLarge(r) ==
    /\ request[r].at = "loaded" /\ request[r].op = "attach"
    /\ request' = [request EXCEPT ![r] = Answered(@, 413)]
    /\ UNCHANGED <<caseFile, blobs, overtaken, deaths>>

(* get_case_attachment: what is listed was read before the bytes are.       *)
Stored(q) ==
    LET b == <<q.case, q.item>> IN IF b \in DOMAIN blobs THEN <<blobs[b]>> ELSE <<>>

Downloaded(q) ==
    IF Stored(q) = <<>> THEN Answered(q, 404) ELSE [Answered(q, 200) EXCEPT !.got = Stored(q)]

\* inspect_attachment says so where the bytes are missing.
Inspected(q) == [Answered(q, 200) EXCEPT !.got = Stored(q)]

Fetch(r) ==
    LET q == request[r]
    IN  /\ q.at = "loaded" /\ q.op \in Reads
        /\ request' = [request EXCEPT ![r] =
              IF q.op = "inspect" THEN Inspected(q) ELSE Downloaded(q)]
        /\ UNCHANGED <<caseFile, blobs, overtaken, deaths>>

-----------------------------------------------------------------------------
(* _save: write_text truncates, then writes; of two at once the longer may  *)
(* leave its tail behind the shorter.                                       *)
Ready(q) ==
    \/ q.at = "loaded" /\ q.op \notin Reads \cup {"attach"}
    \/ q.at = "stored"

Outrun(r) == overtaken \cup (Underway \ {r})

Truncate(r) ==
    /\ Ready(request[r])
    /\ caseFile' = Torn("empty")
    /\ request' = [request EXCEPT ![r].at = "truncated"]
    /\ overtaken' = Outrun(r)
    /\ UNCHANGED <<blobs, deaths>>

Code(op) == IF op \in {"enrich", "runbook"} THEN 200 ELSE 201

Write(r) ==
    LET q == request[r]
    IN  /\ q.at = "truncated"
        /\ \/ caseFile' = Json(Changed(q, r))
           \/ caseFile.form # "empty" /\ caseFile' = Torn("garbled")
        /\ request' = [request EXCEPT ![r] = Answered(q, Code(q.op))]
        /\ overtaken' = Outrun(r)
        /\ UNCHANGED <<blobs, deaths>>

\* The console dies with whatever it was doing, and is started again.
Die ==
    /\ deaths < MaxDeaths /\ Underway # {}
    /\ deaths' = deaths + 1
    /\ request' = [r \in Requests |-> IF r \in Underway THEN Answered(request[r], 0) ELSE request[r]]
    /\ UNCHANGED <<caseFile, blobs, overtaken>>

FileNext ==
    \/ \E r \in Requests :
        \/ Asks(r)
        \/ Decline(r) \/ OpenBlob(r) \/ WriteBlob(r) \/ TooLarge(r) \/ Fetch(r)
        \/ Truncate(r) \/ Write(r)
    \/ Die

FileSpec == FileInit /\ [][FileNext]_fileVars

-----------------------------------------------------------------------------
(* What is listed in place k is the file that was uploaded as it, and all   *)
(* of it, unless another upload drew k from a copy of the case without it.  *)
IsItsFile(blob, r, n, k) ==
    \/ blob = [by |-> r, whole |-> TRUE]
    \/ /\ blob.by # r
       /\ LET copy == request[blob.by].copy
          IN  n \in DOMAIN copy =>
                 k \notin DOMAIN copy[n].attachments \/ copy[n].attachments[k] # r

Made(r) == request[r].answer \in {200, 201} /\ request[r].op \notin Reads

\* Whatever the requests overlap with and wherever the console dies: a listed
\* attachment has its bytes ("Attachment metadata exists but bytes are
\* missing" is never read), which are another's only if that one was uploaded
\* without knowing of it; cases link each other or not at all; and what was
\* answered as recorded is on file, unless one that was overtaken saved its
\* stale copy since, or a save was cut short.
CaseFilesHold ==
    LET cases == Readable
    IN  /\ \A n \in DOMAIN cases : \A k \in DOMAIN cases[n].attachments :
             /\ <<n, k>> \in DOMAIN blobs
             /\ IsItsFile(blobs[<<n, k>>], cases[n].attachments[k], n, k)
        /\ \A r \in Requests : LET q == request[r] IN
             q.op \in Reads /\ q.answer = 200 =>
                /\ q.got # <<>>
                /\ IsItsFile(q.got[1], q.copy[q.case].attachments[q.item], q.case, q.item)
        /\ \A n \in DOMAIN cases : \A m \in cases[n].links :
             m \in DOMAIN cases /\ n \in cases[m].links
        /\ \A r \in Requests : LET q == request[r] IN
             Made(r) /\ (\A s \in overtaken : ~Made(s)) /\ caseFile.form = "json" =>
                q.case \in DOMAIN cases /\ r \in cases[q.case].activity
=============================================================================
