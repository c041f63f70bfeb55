----------------------------- MODULE Delivery -----------------------------
(***************************************************************************)
(* The way of a device's shifts and documents to the cloud and into a Z:   *)
(* the ledger and outbox of the device (fiscal/ledger.ts, sync/outbox.ts), *)
(* the flush of its sync engine (sync/syncEngine.ts), and in the cloud the *)
(* opening, the closing and the documents of its shifts                    *)
(* (routers/sync.py, services/shifts.py, transactions.py,                  *)
(* document_filing.py, late_documents.py) and the Z over closed shifts     *)
(* (z_builder.py, z_completeness.py).                                      *)
(*                                                                         *)
(* One device.  Shift and document numbers are drawn in order, so a shift  *)
(* is its sequence number and a document its number in its series.  The    *)
(* network loses requests and answers, and a request given up may still be *)
(* served later.  The device may crash at any moment; each handler of an   *)
(* answer is one synchronous run of several commits, cut short only by a   *)
(* crash.  The cloud serves a request in one transaction.                  *)
(***************************************************************************)
EXTENDS Naturals, FiniteSets

CONSTANTS
    MaxShift,   \* shifts the device may open
    MaxDoc,     \* documents it may issue
    MaxZ,       \* Zs the cloud may build
    MaxStray,   \* requests given up that the cloud may still serve
    MaxParked,  \* rows that may back off at once
    Foreign,    \* shifts the cloud knows as another machine's, one this device never was
    Bucket,     \* the till's documents waiting for a shift
    Carry,      \* the till's late documents of a Z, bound for the next
    None

ASSUME BoundsAssumption == MaxShift \in Nat /\ MaxDoc \in Nat /\ MaxZ \in Nat /\ MaxStray \in Nat /\ MaxParked \in Nat
ASSUME ForeignAssumption == Foreign \subseteq 1..MaxShift

Shifts == 1..MaxShift
Docs == 1..MaxDoc
Zs == 1..MaxZ
Rows == {"open", "doc", "close"} \X (Shifts \cup Docs)
Requests == [kind : {"open", "doc", "close"}, shift : Shifts, docs : SUBSET Docs]

ASSUME NoneAssumption ==
    /\ {None, Bucket, Carry} \cap (Nat \cup Requests) = {}
    /\ None # Bucket /\ None # Carry /\ Bucket # Carry

VARIABLES
    \* The device, on disk.
    shift,      \* shifts.status
    doc,        \* documents.status
    docShift,   \* documents.shift_id
    payload,    \* the transactionIds of a shift's close_payload
    rows,       \* outbox: <<kind, ref>>
    parked,     \* rows whose next_at is to come
    \* The device, in memory.
    todo,       \* rows of the running flush not treated yet
    call,       \* its request, waiting for an answer,
    reply,      \*   and the answer
    \* The network.
    stray,      \* requests nobody waits for any more
    \* The cloud.
    cloud,      \* shifts.status
    counted,    \* till_totals.transactionsCount of a closed shift
    place,      \* the shift a document is filed in, Bucket or Carry
    zOf,        \* z_report_id of a shift
    boxZ,       \* z_report_id of the waiting or carry shift a document is in
    zDocs,      \* the documents in the figures of a Z
    refused     \* document_refusals not landed

disk == <<shift, doc, docShift, payload, rows, parked>>
flush == <<todo, call, reply>>
filing == <<cloud, counted, place, zOf, boxZ, zDocs, refused>>
vars == <<disk, flush, stray, filing>>

Reply(is, yes, no) == [is |-> is, yes |-> yes, no |-> no]
Said(is) == Reply(is, {}, {})

\* The types of what the device and the network hold, and of the filing.
DeviceOK ==
    /\ shift \in [Shifts -> {"none", "open", "closing", "closed", "retired"}]
    /\ doc \in [Docs -> {"none", "pending", "completed", "cancelled"}]
    /\ docShift \in [Docs -> Shifts \cup {None}]
    /\ \A d \in Docs : doc[d] = "none" <=> docShift[d] = None
    /\ payload \in [Shifts -> SUBSET Docs]
    /\ rows \in SUBSET Rows
    /\ parked \in SUBSET rows
    /\ todo \in SUBSET Rows
    /\ call \in Requests \cup {None}
    /\ reply \in [is : {"ok", "busy", "missing", "foreign", "invalid", "error"},
                  yes : SUBSET Docs, no : SUBSET Docs] \cup {None}
    /\ stray \in SUBSET Requests

FilingOK ==
    /\ cloud \in [Shifts -> {"none", "open", "closed"}]
    /\ counted \in [Shifts -> Nat]
    /\ place \in [Docs -> Shifts \cup {Bucket, Carry, None}]
    /\ zOf \in [Shifts -> Zs \cup {0}]
    /\ boxZ \in [Docs -> Zs \cup {0}]
    /\ zDocs \in [Zs -> SUBSET Docs]
    /\ refused \in SUBSET Docs

TypeOK == DeviceOK /\ FilingOK

Init ==
    /\ shift = [s \in Shifts |-> "none"]
    /\ doc = [d \in Docs |-> "none"]
    /\ docShift = [d \in Docs |-> None]
    /\ payload = [s \in Shifts |-> {}]
    /\ rows = {} /\ parked = {}
    /\ todo = {} /\ call = None /\ reply = None
    /\ stray = {}
    /\ cloud = [s \in Shifts |-> "none"]
    /\ counted = [s \in Shifts |-> 0]
    /\ place = [d \in Docs |-> None]
    /\ zOf = [s \in Shifts |-> 0]
    /\ boxZ = [d \in Docs |-> 0]
    /\ zDocs = [z \in Zs |-> {}]
    /\ refused = {}

Final == {"completed", "cancelled"}
DocsOf(s) == {d \in Docs : docShift[d] = s}
DocRows(ds) == {<<"doc", d>> : d \in ds}
OpenShifts == {s \in Shifts : shift[s] = "open"}

-----------------------------------------------------------------------------
(* The ledger.                                                             *)

\* openShift: the open shift, or the next one with its outbox row.
OpenShift ==
    /\ OpenShifts = {}
    /\ \E s \in Shifts :
        /\ shift[s] = "none" /\ \A t \in 1..(s - 1) : shift[t] # "none"
        /\ shift' = [shift EXCEPT ![s] = "open"]
        /\ rows' = rows \cup {<<"open", s>>}
    /\ UNCHANGED <<doc, docShift, payload, parked, flush, stray, filing>>

\* A mistake: the document does not name its shift.
InsertSaleUnstamped(status) ==
    /\ \E d \in Docs :
        /\ OpenShifts # {} /\ doc[d] = "none" /\ \A e \in 1..(d - 1) : doc[e] # "none"
        /\ doc' = [doc EXCEPT ![d] = status]
        /\ rows' = IF status = "completed" THEN rows \cup {<<"doc", d>>} ELSE rows
    /\ UNCHANGED <<shift, docShift, payload, parked, flush, stray, filing>>

\* insertSale: the next number, in the open shift; pending for a card
\* (openCardSale), or completed at once with its row (recordCashSale).
InsertSale(status) ==
    /\ \E s \in OpenShifts, d \in Docs :
        /\ doc[d] = "none" /\ \A e \in 1..(d - 1) : doc[e] # "none"
        /\ doc' = [doc EXCEPT ![d] = status]
        /\ docShift' = [docShift EXCEPT ![d] = s]
        /\ rows' = IF status = "completed" THEN rows \cup {<<"doc", d>>} ELSE rows
    /\ UNCHANGED <<shift, payload, parked, flush, stray, filing>>

\* completeCardSale, voidCardSale: only from pending, with the row.
SettleSale(d, status) ==
    /\ doc[d] = "pending"
    /\ doc' = [doc EXCEPT ![d] = status]
    /\ rows' = rows \cup {<<"doc", d>>}
    /\ UNCHANGED <<shift, docShift, payload, parked, flush, stray, filing>>

\* A mistake: the close does not look at the pending documents.
CloseShiftEarly ==
    /\ \E s \in OpenShifts :
        /\ shift' = [shift EXCEPT ![s] = "closing"]
        /\ payload' = [payload EXCEPT ![s] = {d \in DocsOf(s) : doc[d] = "completed"}]
        /\ rows' = rows \cup {<<"close", s>>}
    /\ UNCHANGED <<doc, docShift, parked, flush, stray, filing>>

\* closeShift: refused while a document of the shift is pending; the ids its
\* close will name are frozen here.
CloseShift ==
    /\ \E s \in OpenShifts :
        /\ \A d \in DocsOf(s) : doc[d] # "pending"
        /\ shift' = [shift EXCEPT ![s] = "closing"]
        /\ payload' = [payload EXCEPT ![s] = {d \in DocsOf(s) : doc[d] = "completed"}]
        /\ rows' = rows \cup {<<"close", s>>}
    /\ UNCHANGED <<doc, docShift, parked, flush, stray, filing>>

-----------------------------------------------------------------------------
(* The flush, up to its request.                                           *)

Flushing == todo # {} \/ call # None

\* flush: one at a time, over the rows that are due now; a parked row's backoff
\* may have ended meanwhile.
StartFlush ==
    /\ ~Flushing
    /\ \E over \in SUBSET parked :
        /\ parked' = parked \ over
        /\ todo' = (rows \ parked) \cup over
    /\ todo' # {}
    /\ UNCHANGED <<shift, doc, docShift, payload, rows, call, reply, stray, filing>>

ShiftOf(r) == IF r[1] = "doc" THEN docShift[r[2]] ELSE r[2]

\* plan: shift by shift, its open, its documents, its close.
StepShift == CHOOSE s \in Shifts :
                /\ \E r \in todo : ShiftOf(r) = s
                /\ \A r \in todo : s <= ShiftOf(r)
StepKind ==
    IF <<"open", StepShift>> \in todo THEN "open"
    ELSE IF \E r \in todo : r[1] = "doc" /\ ShiftOf(r) = StepShift THEN "doc"
    ELSE "close"
StepRows == {r \in todo : r[1] = StepKind /\ ShiftOf(r) = StepShift}

\* The request of the next step.  (doFlush drops the row of a document that is not
\* final; there is none, see QueuedIsFinal.)
StepRequest ==
    [kind |-> StepKind, shift |-> StepShift,
     docs |-> IF StepKind = "close" THEN payload[StepShift]
              ELSE {d \in Docs : <<"doc", d>> \in StepRows}]

-----------------------------------------------------------------------------
(* The cloud.                                                              *)

OpenInCloud == {s \in Shifts : cloud[s] = "open"}

\* The document is in a shift a Z has taken.
InZ(d) == IF place[d] \in Shifts THEN zOf[place[d]] # 0 ELSE boxZ[d] # 0

\* adopt_waiting_documents: what named the shift and waits in no Z.
Waiting(s) == {d \in DocsOf(s) : place[d] = Bucket /\ boxZ[d] = 0}

\* A mistake: a late open reopens its shift.
ServeOpenReopens(s) ==
    IF s \in Foreign \/ OpenInCloud # {}
    THEN UNCHANGED filing
    ELSE /\ cloud' = [cloud EXCEPT ![s] = "open"]
         /\ UNCHANGED <<counted, place, zOf, boxZ, zDocs, refused>>

\* report_shift_open: nothing for a known shift, 409 while another is open.
ServeOpen(s) ==
    IF s \in Foreign \/ cloud[s] # "none" \/ OpenInCloud # {}
    THEN UNCHANGED filing
    ELSE /\ cloud' = [cloud EXCEPT ![s] = "open"]
         /\ place' = [d \in Docs |-> IF d \in Waiting(s) THEN s ELSE place[d]]
         /\ UNCHANGED <<counted, zOf, boxZ, zDocs, refused>>

OpenReply(s) ==
    IF s \in Foreign THEN Said("foreign")
    ELSE IF cloud[s] = "none" /\ OpenInCloud # {} THEN Said("busy")
    ELSE Said("ok")

\* covering_shift, for a document of another machine's shift: the latest own
\* shift before it if open (or closed a moment before: near), else one open.
Covering(s, near) ==
    LET known == {t \in 1..(s - 1) : cloud[t] # "none"}
    IN  {t \in known : \/ cloud[t] = "open" /\ \A u \in known : u > t => cloud[u] = "closed" /\ ~near
                       \/ near /\ \A u \in known : u <= t}

\* A mistake: the open shift adopts a document of a shift not seen yet.
TargetAdopts(d, s, near) ==
    IF OpenInCloud = {} \/ (s \notin Foreign /\ cloud[s] # "none") THEN s
    ELSE IF place[d] # None THEN place[d]
    ELSE CHOOSE t \in OpenInCloud : TRUE

\* upsert_transactions, rule 2: where a document naming shift s goes.
Target(d, s, near) ==
    IF s \notin Foreign /\ (cloud[s] # "none" \/ OpenInCloud = {}) THEN s
    ELSE IF place[d] # None THEN place[d]
    ELSE IF s \in Foreign /\ Covering(s, near) # {} THEN CHOOSE t \in Covering(s, near) : TRUE
    ELSE Bucket

\* A document in a Z, or carried out of one, is not moved.
Stays(d) == place[d] # None /\ (InZ(d) \/ place[d] = Carry)

\* A mistake: a late document enters a shift a Z took.
FiledInPlace(d, s, near) == IF Stays(d) THEN place[d] ELSE Target(d, s, near)

\* note_documents_after_close, carry: new in a shift a Z took, it goes to the
\* carry shift of the next Z.
Filed(d, s, near) ==
    LET t == IF Stays(d) THEN place[d] ELSE Target(d, s, near)
    IN  IF t \in Shifts /\ t # place[d] /\ zOf[t] # 0 THEN Carry ELSE t

\* post_transactions: each document by itself; rej are refused and recorded.
\* A shift not seen is opened by its document, and those that waited move in.
ServeDocs(s, docs, rej, near) ==
    LET acc == docs \ rej
        opens == acc # {} /\ s \notin Foreign /\ cloud[s] = "none" /\ OpenInCloud = {}
    IN  /\ cloud' = IF opens THEN [cloud EXCEPT ![s] = "open"] ELSE cloud
        /\ place' = [d \in Docs |-> IF d \in acc THEN Filed(d, s, near)
                                    ELSE IF opens /\ d \in Waiting(s) THEN s
                                    ELSE place[d]]
        /\ refused' = (refused \ acc) \cup rej
        /\ UNCHANGED <<counted, zOf, boxZ, zDocs>>

\* A mistake: documents the cloud does not have are not asked for.
StaleOnly(s, docs) == {d \in docs : place[d] \notin {None, Carry, s} /\ ~InZ(d)}

\* check_close_preconditions.
MissingOrStale(s, docs) ==
    {d \in docs : \/ place[d] = None
                  \/ place[d] # s /\ ~InZ(d) /\ place[d] # Carry}

\* apply_shift_close: once, with what waited for the shift; a close of a shift
\* not seen creates it closed.
ServeClose(s, docs) ==
    IF s \in Foreign \/ MissingOrStale(s, docs) # {} \/ cloud[s] = "closed"
    THEN UNCHANGED filing
    ELSE /\ cloud' = [cloud EXCEPT ![s] = "closed"]
         /\ counted' = [counted EXCEPT ![s] = Cardinality(docs)]
         /\ place' = [d \in Docs |-> IF d \in Waiting(s) THEN s ELSE place[d]]
         /\ UNCHANGED <<zOf, boxZ, zDocs, refused>>

CloseReply(s, docs) ==
    IF s \in Foreign THEN Said("foreign")
    ELSE IF MissingOrStale(s, docs) # {} THEN Reply("missing", {}, MissingOrStale(s, docs))
    ELSE Said("ok")

Serve(r, rej, near) ==
    CASE r.kind = "open" -> ServeOpen(r.shift)
      [] r.kind = "doc" -> ServeDocs(r.shift, r.docs, rej, near)
      [] r.kind = "close" -> ServeClose(r.shift, r.docs)

ReplyTo(r, rej) ==
    CASE r.kind = "open" -> OpenReply(r.shift)
      [] r.kind = "doc" -> Reply("ok", r.docs \ rej, rej)
      [] r.kind = "close" -> CloseReply(r.shift, r.docs)

\* The cloud refuses a document by itself (validation, a write that fails).
Room(rs) == Cardinality(parked \cup rs) <= MaxParked
Rejections(r) ==
    IF r.kind = "doc" THEN {rej \in SUBSET r.docs : Room(DocRows(rej))} ELSE {{}}

\* doFlush, one step: its request leaves, ...
Send ==
    /\ todo # {} /\ call = None
    /\ UNCHANGED <<disk, todo>>

\* ... is served, and the answer is on its way.
Exchange(rej) ==
    /\ Send
    /\ call' = StepRequest
    /\ rej \in Rejections(StepRequest)
    /\ \E near \in BOOLEAN : Serve(StepRequest, rej, near)
    /\ reply' = ReplyTo(StepRequest, rej)
    /\ UNCHANGED stray

\* ... is answered with an error and nothing done: HTTP 5xx, 401, 429; or 400 or
\* 422 for a batch.
ExchangeError ==
    /\ Send
    /\ Room(StepRows)
    /\ call' = StepRequest
    /\ reply' \in {Said("error")} \cup (IF StepKind = "doc" THEN {Said("invalid")} ELSE {})
    /\ UNCHANGED <<stray, filing>>

\* A request nobody waits for is served.
ServeStray ==
    /\ \E r \in stray :
        /\ stray' = stray \ {r}
        /\ \E rej \in Rejections(r), near \in BOOLEAN : Serve(r, rej, near)
    /\ UNCHANGED <<disk, flush>>

-----------------------------------------------------------------------------
(* The flush, after its answer.                                            *)

Proceed == todo' = todo \ StepRows /\ call' = None /\ reply' = None
StopFlush == todo' = {} /\ call' = None /\ reply' = None

Drop(rs) == rows' = rows \ rs /\ parked' = parked \ rs
Park(rs) == rows' = rows /\ parked' = parked \cup (rs \cap rows)
Retire(s) == shift' = [shift EXCEPT ![s] = "retired"]

\* A mistake: the rows of a retired shift's documents go with its open.
OnOpenedClears ==
    /\ call # None /\ reply # None /\ call.kind = "open"
    /\ \/ reply.is = "ok" /\ Drop(StepRows) /\ UNCHANGED shift
       \/ reply.is = "foreign" /\ Retire(call.shift) /\ Drop({r \in rows : ShiftOf(r) = call.shift})
       \/ reply.is \in {"busy", "error"} /\ UNCHANGED <<shift, rows, parked>>
    /\ StopFlush
    /\ UNCHANGED <<doc, docShift, payload, stray, filing>>

OnOpened ==
    /\ call # None /\ reply # None /\ call.kind = "open"
    /\ \/ reply.is = "ok" /\ Drop(StepRows) /\ Proceed /\ UNCHANGED shift
       \/ reply.is = "foreign" /\ Retire(call.shift) /\ Drop(StepRows) /\ Proceed
       \/ reply.is = "busy" /\ StopFlush /\ UNCHANGED <<shift, rows, parked>>
       \/ reply.is = "error" /\ Park(StepRows) /\ StopFlush /\ UNCHANGED shift
    /\ UNCHANGED <<doc, docShift, payload, stray, filing>>

\* A mistake: an answered document counts as taken.
OnDocsAllTaken ==
    /\ call # None /\ reply # None /\ call.kind = "doc"
    /\ \/ reply.is = "ok" /\ Drop(DocRows(call.docs)) /\ Proceed
       \/ reply.is = "invalid" /\ Park(DocRows(call.docs)) /\ Proceed
       \/ reply.is = "error" /\ StopFlush /\ UNCHANGED <<rows, parked>>
    /\ UNCHANGED <<shift, doc, docShift, payload, stray, filing>>

\* Taken ones leave the outbox, rejected ones are parked; a document the answer
\* does not name stays and stops the flush.
OnDocs ==
    /\ call # None /\ reply # None /\ call.kind = "doc"
    /\ \/ /\ reply.is = "ok"
          /\ rows' = rows \ DocRows(reply.yes)
          /\ parked' = (parked \ DocRows(reply.yes)) \cup (DocRows(reply.no) \cap rows)
          /\ IF reply.yes \cup reply.no = call.docs THEN Proceed ELSE StopFlush
       \/ reply.is = "invalid" /\ Park(DocRows(call.docs)) /\ Proceed
       \/ reply.is = "error" /\ StopFlush /\ UNCHANGED <<rows, parked>>
    /\ UNCHANGED <<shift, doc, docShift, payload, stray, filing>>

\* Accepted: markCloseAccepted, then the row goes.  Missing documents are queued
\* again (enqueue leaves a row that is there as it is) and the close waits.
OnClosed ==
    /\ call # None /\ reply # None /\ call.kind = "close"
    /\ \/ /\ reply.is = "ok"
          /\ shift' = [shift EXCEPT ![call.shift] = "closed"]
          /\ Drop(StepRows) /\ Proceed
       \/ reply.is = "foreign" /\ Retire(call.shift) /\ Drop(StepRows) /\ Proceed
       \/ /\ reply.is = "missing"
          /\ rows' = rows \cup DocRows(reply.no)
          /\ StopFlush /\ UNCHANGED <<shift, parked>>
       \/ reply.is = "error" /\ Park(StepRows) /\ StopFlush /\ UNCHANGED shift
    /\ UNCHANGED <<doc, docShift, payload, stray, filing>>

\* The request is given up unserved: lost, or still on its way; the flush stops
\* (offline, or a crash).
Unserved ==
    /\ todo # {} /\ call = None
    /\ \/ stray' = stray
       \/ Cardinality(stray) < MaxStray /\ stray' = stray \cup {StepRequest}
    /\ StopFlush
    /\ UNCHANGED <<disk, filing>>

\* The answer is lost, or the device stops before it handles it.
AnswerLost ==
    /\ call # None
    /\ StopFlush
    /\ UNCHANGED <<disk, stray, filing>>

\* A mistake: the close's row goes before its acceptance is kept.
CrashAmidSwapped ==
    /\ call # None /\ reply # None
    /\ reply.is = "ok" /\ call.kind = "close" /\ Drop({<<"close", call.shift>>})
    /\ StopFlush
    /\ UNCHANGED <<shift, doc, docShift, payload, stray, filing>>

\* The same in the middle of a handler: some of its commits are done.
CrashAmid ==
    /\ call # None /\ reply # None
    /\ \/ /\ reply.is = "ok" /\ call.kind = "doc"
          /\ \E done \in SUBSET reply.yes : Drop(DocRows(done))
          /\ UNCHANGED shift
       \/ /\ reply.is = "ok" /\ call.kind = "close"
          /\ shift' = [shift EXCEPT ![call.shift] = "closed"]
          /\ UNCHANGED <<rows, parked>>
       \/ /\ reply.is = "foreign"
          /\ Retire(call.shift)
          /\ UNCHANGED <<rows, parked>>
       \/ /\ reply.is = "missing"
          /\ \E done \in SUBSET reply.no : rows' = rows \cup DocRows(done)
          /\ UNCHANGED <<shift, parked>>
    /\ StopFlush
    /\ UNCHANGED <<doc, docShift, payload, stray, filing>>

-----------------------------------------------------------------------------
(* The Z.                                                                  *)

Held(s) == {d \in Docs : place[d] = s /\ doc[d] = "completed"}

\* included_shifts: through s, oldest first, what the cloud built before them.
Included(s) == {t \in 1..s : cloud[t] # "none" /\ zOf[t] = 0}
\* A mistake: a box is taken by every Z.
BoxedAgain == {d \in Docs : place[d] \in {Bucket, Carry}}

Boxed == {d \in Docs : place[d] \in {Bucket, Carry} /\ boxZ[d] = 0}
Taken(s) == Boxed \cup {d \in Docs : place[d] \in Included(s)}

\* missing_for_z, 1: the till counted more than the cloud holds.
CountShort(t) == counted[t] > Cardinality(Held(t))

\* 2: a number held by nobody, after what was held before the Z's first one (if
\* anything was) and before the Z's last.
NumberGap(ds) ==
    LET held == {e \in Docs : place[e] # None}
        before == {e \in held : \A d \in ds : e < d}
    IN  \E n \in Docs \ held :
            /\ \E d \in ds : n < d
            /\ \E e \in held : e < n
            /\ \A e \in before : e < n

\* 4: a refusal of a document issued in the period of the Z's own shifts.
RefusedIn(ts) == \E d \in refused : \E t, u \in ts : t <= docShift[d] /\ docShift[d] <= u

\* finalise_if_ready, build_z: the next Z, over closed shifts with nothing known
\* to be missing and something to report.
TakeZ(s, z) ==
    /\ cloud[s] = "closed" /\ zOf[s] = 0
    /\ zDocs[z] = {} /\ \A y \in 1..(z - 1) : zDocs[y] # {}
    /\ \A t \in Included(s) : cloud[t] = "closed" /\ ~CountShort(t)
    /\ ~NumberGap(Taken(s)) /\ ~RefusedIn(Included(s))
    /\ Taken(s) # {}
    /\ zDocs' = [zDocs EXCEPT ![z] = Taken(s)]
    /\ zOf' = [t \in Shifts |-> IF t \in Included(s) THEN z ELSE zOf[t]]
    /\ boxZ' = [d \in Docs |-> IF d \in Boxed THEN z ELSE boxZ[d]]
    /\ UNCHANGED <<disk, flush, stray, cloud, counted, place, refused>>

-----------------------------------------------------------------------------
Next ==
    \/ OpenShift
    \/ \E status \in {"pending", "completed"} : InsertSale(status)
    \/ \E d \in Docs, status \in Final : SettleSale(d, status)
    \/ CloseShift
    \/ StartFlush
    \/ \E rej \in SUBSET Docs : Exchange(rej)
    \/ ExchangeError
    \/ ServeStray
    \/ OnOpened
    \/ OnDocs
    \/ OnClosed
    \/ Unserved
    \/ AnswerLost
    \/ CrashAmid
    \/ \E s \in Shifts, z \in Zs : TakeZ(s, z)

Spec == Init /\ [][Next]_vars

-----------------------------------------------------------------------------
(* What must hold.                                                         *)

\* Outbox rows are of final documents only: doFlush drops any other row, and
\* with it the document's only way to the cloud (syncEngine.ts:458).
QueuedIsFinal == \A d \in Docs : <<"doc", d>> \in rows => doc[d] \in Final

\* Nothing the device owes the cloud is forgotten by its outbox, whatever is
\* lost, repeated, parked or cut short by a crash: a final document without a
\* row is on the cloud, a shift without its open row is known there, and a shift
\* whose close is not accepted has its close row (sync/outbox.ts, doFlush).
NothingForgotten ==
    /\ \A d \in Docs : doc[d] \in Final => <<"doc", d>> \in rows \/ place[d] # None
    /\ \A s \in Shifts : shift[s] \in {"open", "closing"} =>
                            <<"open", s>> \in rows \/ cloud[s] # "none" \/ s \in Foreign
    /\ \A s \in Shifts : shift[s] = "closing" => <<"close", s>> \in rows

Sales(s) == {d \in DocsOf(s) : doc[d] = "completed"}

\* An accepted close stands for all the sales of its shift: each is in it, in a Z
\* or on its way to the next; and "closed" on the device means closed on the
\* cloud (closeShift, check_close_preconditions, apply_shift_close,
\* markCloseAccepted).
CloseIsWhole ==
    \A s \in Shifts :
        /\ shift[s] = "closed" => cloud[s] = "closed"
        /\ cloud[s] = "closed" =>
             \A d \in Sales(s) : place[d] = s \/ InZ(d) \/ place[d] = Carry

\* The Z of a document: of the shift it is filed in.
ZOf(d) == IF place[d] \in Shifts THEN zOf[place[d]] ELSE boxZ[d]

\* A Z's figures are those of the documents filed in it, for ever: none arrives
\* in it later, is moved out of it or is counted by two (build_z,
\* note_documents_after_close, carry, upsert_transactions).
ZIsItsDocuments == \A z \in Zs : zDocs[z] = {d \in Docs : ZOf(d) = z}

\* A Z leaves no sale of its shifts behind: each is in that Z or an earlier one
\* (closeShift, check_close_preconditions, missing_for_z).
ZLeavesNothing ==
    \A s \in Shifts : zOf[s] # 0 =>
        \A d \in Sales(s) : \E z \in 1..zOf[s] : d \in zDocs[z]

\* A document is never taken into another open shift of its till: it is in the
\* shift it names or in one the cloud built (resolve_shift_for_document).
NeverAdopted ==
    \A d \in Docs : place[d] \in Shifts /\ docShift[d] \notin Foreign => place[d] = docShift[d]

\* A closed shift stays closed with its count, and one in a Z stays in it: a
\* late or repeated open or close changes nothing (report_shift_open,
\* apply_shift_close).
ClosedIsFinal ==
    [][\A s \in Shifts : /\ cloud[s] = "closed" => cloud'[s] = "closed" /\ counted'[s] = counted[s]
                         /\ zOf[s] # 0 => zOf'[s] = zOf[s]]_vars

\* The abstract record: issued, stored once, reported once.
Record == INSTANCE FiscalRecord WITH
    issued <- {d \in Docs : doc[d] \in Final},
    stored <- {d \in Docs : place[d] # None},
    report <- zDocs

\* Every run of the device, the network and the cloud is one of the record.
RecordKept == Record!Spec

-----------------------------------------------------------------------------
(* What must happen, when the network and the cloud serve again and again. *)

\* The device flushes on every heartbeat and every new row, backoffs end, the
\* cloud takes what it is sent again and again, answers reach the device again
\* and again, and no request waits for ever (it times out).
Fairness ==
    /\ WF_vars(OnOpened \/ OnDocs \/ OnClosed \/ AnswerLost)
    /\ \A kind \in {"open", "close"}, s \in Shifts : SF_vars(StartFlush /\ <<kind, s>> \in todo')
    /\ \A d \in Docs : SF_vars(StartFlush /\ <<"doc", d>> \in todo')
    /\ \A kind \in {"open", "doc", "close"} : SF_vars(Exchange({}) /\ StepKind = kind)
    /\ SF_vars(OnOpened /\ reply.is = "ok")
    /\ SF_vars(OnDocs /\ reply.yes # {})
    /\ SF_vars(OnClosed /\ reply.is # "error")

FairSpec == Spec /\ Fairness

\* Every document that is final reaches the cloud (doFlush).
DocsArrive == \A d \in Docs : doc[d] \in Final ~> place[d] # None

\* Every shift closed on the device is accepted as closed (doFlush: the close
\* queues again what the cloud misses).
CloseAccepted == \A s \in Shifts : shift[s] = "closing" ~> shift[s] = "closed"

-----------------------------------------------------------------------------
(* What the code says of itself and does not keep.                         *)

\* z_completeness.py: a Z waits only for documents that are missing; once all
\* the documents of a closed shift are on the cloud its count does not hold the
\* Z back (docs/SHIFTS_API.md 2.6-bis: it is built when they arrive).
WaitsOnlyForMissing ==
    \A s \in Shifts :
        /\ cloud[s] = "closed" /\ zOf[s] = 0
        /\ \A d \in payload[s] : place[d] # None
        => ~CountShort(s)

=============================================================================
