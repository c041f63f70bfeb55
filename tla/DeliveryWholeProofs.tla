------------------------ MODULE DeliveryWholeProofs ------------------------
(***************************************************************************)
(* Nothing is lost on the way of a device's documents: the outbox forgets  *)
(* nothing the cloud does not have, an accepted close stands for all the   *)
(* sales of its shift, a Z leaves none of them behind, and no document is  *)
(* adopted by another shift.  For any number of shifts, documents and Zs.  *)
(***************************************************************************)
EXTENDS DeliveryProofs

\* A request names what is its shift's: a batch its documents, a close what was
\* frozen when the shift was closed.
SoundRequest(r) ==
    /\ r.kind = "doc" => r.docs \subseteq DocsOf(r.shift)
    /\ r.kind = "close" => shift[r.shift] \notin {"none", "open"} /\ r.docs = payload[r.shift]

StrayOwn == \A r \in stray : SoundRequest(r)

\* A close row is of a shift that was closed; what a close froze are the sales of
\* its shift, and stay so; only another machine's shift is retired.
CloseRows == \A s \in Shifts : <<"close", s>> \in rows \cup todo => shift[s] \notin {"none", "open"}
PayloadWhole ==
    \A s \in Shifts : shift[s] \in {"closing", "closed"} =>
        /\ payload[s] = Sales(s)
        /\ \A d \in DocsOf(s) : doc[d] # "pending"
NotRetired == \A s \in Shifts : s \notin Foreign => shift[s] # "retired"

\* The request of a flush is that of its next step, and its answer was true when
\* it was given and is still.
CallIsStep == call # None => todo # {} /\ call.kind = StepKind /\ call.shift = StepShift
AnswerTrue ==
    call # None /\ reply # None =>
        /\ reply.is = "foreign" => call.shift \in Foreign
        /\ reply.is = "ok" =>
              /\ call.kind = "open" => cloud[call.shift] # "none"
              /\ call.kind = "doc" => \A d \in reply.yes : place[d] # None
              /\ call.kind = "close" => cloud[call.shift] = "closed"

\* A shift closed in the cloud is the device's own and closed there; each of its
\* sales is accounted for.
CloudClosed ==
    \A s \in Shifts : cloud[s] = "closed" => s \notin Foreign /\ shift[s] \in {"closing", "closed"}
Whole ==
    \A s \in Shifts : cloud[s] = "closed" =>
        \A d \in Sales(s) : place[d] = s \/ InZ(d) \/ place[d] = Carry
ClosedIsKnown == \A s \in Shifts : shift[s] = "closed" => cloud[s] = "closed"

\* The Zs are built in order.
ZOrder == \A y, z \in Zs : y < z /\ zDocs[z] # {} => zDocs[y] # {}

\* In three parts: of the flush, of the filing, of the Zs.
FlushInv == StrayOwn /\ CloseRows /\ PayloadWhole /\ NotRetired /\ CallIsStep /\ AnswerTrue
CloudInv == CloudClosed /\ Whole /\ ClosedIsKnown /\ NeverAdopted /\ NothingForgotten
ZInv == ZOrder /\ ZLeavesNothing

KeptInv == FlushInv /\ CloudInv /\ ZInv

-----------------------------------------------------------------------------
(* The next step of a flush.                                               *)

\* It is of the least shift of the rows left.
LEMMA StepSpec ==
    DeviceOK /\ RowsSound /\ todo # {} =>
        /\ StepShift \in Shifts
        /\ \E r \in todo : ShiftOf(r) = StepShift
        /\ \A r \in todo : StepShift <= ShiftOf(r)
<1> SUFFICES ASSUME DeviceOK, RowsSound, todo # {}
             PROVE  /\ StepShift \in Shifts
                    /\ \E r \in todo : ShiftOf(r) = StepShift
                    /\ \A r \in todo : StepShift <= ShiftOf(r)
  OBVIOUS
<1> DEFINE T == {ShiftOf(r) : r \in todo}
<1>1. T \subseteq Shifts /\ T # {}
  BY RowShift
<1>2. PICK s \in T : \A t \in T : s <= t
  BY <1>1, LeastOf, Marks
<1>3. s \in Shifts /\ (\E r \in todo : ShiftOf(r) = s) /\ (\A r \in todo : s <= ShiftOf(r))
  BY <1>1, <1>2
<1> QED BY <1>3 DEF StepShift

\* The rows of an open or a close are that one row.
LEMMA StepRowsAre ==
    ASSUME DeviceOK, StepKind \in {"open", "close"}
    PROVE  StepRows \subseteq {<<StepKind, StepShift>>}
<1>1. \A r \in todo : r = <<r[1], r[2]>>
  BY DEF DeviceOK, Rows
<1> QED BY <1>1 DEF StepRows, ShiftOf

\* The request names what is its shift's.
LEMMA StepOwn ==
    ASSUME DeviceOK, RowsSound, CloseRows, todo # {}
    PROVE  SoundRequest(StepRequest)
<1>1. StepRequest.kind = StepKind /\ StepRequest.shift = StepShift
  BY DEF StepRequest
<1>2. CASE StepKind = "doc"
  <2>1. StepRequest.docs = {d \in Docs : <<"doc", d>> \in StepRows}
    BY <1>2 DEF StepRequest
  <2> QED BY <1>1, <1>2, <2>1 DEF SoundRequest, StepRows, ShiftOf, DocsOf
<1>3. CASE StepKind = "close"
  <2>1. PICK r \in todo : ShiftOf(r) = StepShift
    BY StepSpec
  <2>2. r = <<r[1], r[2]>> /\ r[1] \in {"open", "doc", "close"}
    BY DEF DeviceOK, Rows
  <2>3. r = <<"close", StepShift>>
    BY <1>3, <2>1, <2>2 DEF StepKind, ShiftOf
  <2>4. shift[StepShift] \notin {"none", "open"}
    BY <2>1, <2>3, StepSpec DEF CloseRows
  <2>5. StepRequest.docs = payload[StepShift]
    BY <1>3 DEF StepRequest
  <2> QED BY <1>1, <1>3, <2>4, <2>5 DEF SoundRequest
<1> QED BY <1>1, <1>2, <1>3 DEF StepKind, SoundRequest

-----------------------------------------------------------------------------
(* What serving a request does to its shift's documents.                   *)

\* A document of a shift of the device is filed in it, or stays; and one that is
\* accounted for stays.
LEMMA FiledOwn ==
    ASSUME FilingOK, BoxedIsInBox, NEW d \in Docs, NEW s \in Shifts, s \notin Foreign, NEW near \in BOOLEAN
    PROVE  /\ Filed(d, s, near) \in Shifts => Filed(d, s, near) \in {s, place[d]}
           /\ cloud[s] = "closed" /\ (place[d] = s \/ InZ(d) \/ place[d] = Carry)
              => Filed(d, s, near) = place[d]
<1> DEFINE g == Target(d, s, near)
<1>1. g \in {s, place[d], Bucket}
  BY DEF Target
<1>2. Carry \notin Shifts /\ Bucket \notin Shifts
  BY Marks
<1>3. CASE Stays(d)
  <2>1. Filed(d, s, near) = place[d]
    BY <1>3 DEF Filed
  <2> QED BY <2>1
<1>4. CASE ~Stays(d)
  <2>0. Filed(d, s, near) = IF g \in Shifts /\ g # place[d] /\ zOf[g] # 0 THEN Carry ELSE g
    BY <1>4 DEF Filed
  <2>1. Filed(d, s, near) \in {s, place[d], Bucket, Carry}
    BY <1>1, <2>0
  <2>2. ASSUME cloud[s] = "closed", place[d] = s \/ InZ(d) \/ place[d] = Carry
        PROVE  Filed(d, s, near) = place[d]
    <3>1. place[d] # None
      BY <2>2, Marks DEF InZ, BoxedIsInBox
    <3>2. place[d] = s
      BY <1>4, <2>2, <3>1 DEF Stays
    <3>3. g = s
      BY <2>2 DEF Target
    <3> QED BY <2>0, <3>2, <3>3
  <2> HIDE DEF g
  <2> QED BY <1>2, <2>1, <2>2
<1> QED BY <1>3, <1>4

\* How a request moves a document: into its shift when it waits for it and that
\* is not closed yet, or where it is filed when a batch names it.
Moves(r) ==
    /\ UNCHANGED <<zOf, boxZ, zDocs>>
    /\ \A d \in Docs :
          \/ place'[d] = place[d]
          \/ place'[d] = r.shift /\ docShift[d] = r.shift /\ cloud[r.shift] # "closed"
          \/ /\ r.kind = "doc" /\ docShift[d] = r.shift
             /\ \E near \in BOOLEAN : place'[d] = Filed(d, r.shift, near)
    /\ \A s \in Shifts :
          /\ cloud[s] # "none" => cloud'[s] # "none"
          /\ cloud[s] = "closed" => cloud'[s] = "closed"
          /\ cloud'[s] = "closed" /\ cloud[s] # "closed" =>
                /\ r.kind = "close" /\ s = r.shift /\ s \notin Foreign
                /\ \A d \in r.docs : place[d] = s \/ InZ(d) \/ place[d] = Carry

\* Each kind of request moves them so.
LEMMA ServeMoves ==
    ASSUME FilingOK, NEW r \in Requests, SoundRequest(r),
           NEW rej \in Rejections(r), NEW near \in BOOLEAN, Serve(r, rej, near)
    PROVE  Moves(r)
<1> DEFINE s == r.shift
<1>0. r.kind \in {"open", "doc", "close"} /\ s \in Shifts /\ r.docs \in SUBSET Docs /\ rej \in SUBSET r.docs
  BY DEF Requests, Rejections
<1>1. CASE UNCHANGED filing
  BY <1>1 DEF filing, Moves
<1>2. CASE r.kind = "open" /\ ~UNCHANGED filing
  <2>1. /\ cloud[s] = "none"
        /\ cloud' = [cloud EXCEPT ![s] = "open"]
        /\ place' = [d \in Docs |-> IF d \in Waiting(s) THEN s ELSE place[d]]
        /\ UNCHANGED <<zOf, boxZ, zDocs>>
    BY <1>2 DEF Serve, ServeOpen
  <2> QED BY <1>0, <2>1 DEF Moves, Waiting, DocsOf, FilingOK
<1>3. CASE r.kind = "doc"
  <2> DEFINE acc == r.docs \ rej
             opens == acc # {} /\ s \notin Foreign /\ cloud[s] = "none" /\ OpenInCloud = {}
  <2>1. /\ cloud' = IF opens THEN [cloud EXCEPT ![s] = "open"] ELSE cloud
        /\ place' = [d \in Docs |-> IF d \in acc THEN Filed(d, s, near)
                                    ELSE IF opens /\ d \in Waiting(s) THEN s
                                    ELSE place[d]]
        /\ UNCHANGED <<zOf, boxZ, zDocs>>
    BY <1>3 DEF Serve, ServeDocs
  <2>2. \A t \in Shifts : /\ cloud[t] # "none" => cloud'[t] # "none"
                          /\ cloud'[t] = "closed" <=> cloud[t] = "closed"
    BY <1>0, <2>1 DEF FilingOK
  <2>3. ASSUME NEW d \in Docs
        PROVE  \/ place'[d] = place[d]
               \/ place'[d] = s /\ docShift[d] = s /\ cloud[s] # "closed"
               \/ docShift[d] = s /\ \E n \in BOOLEAN : place'[d] = Filed(d, s, n)
    <3>1. CASE d \in acc
      <4>1. docShift[d] = s
        BY <1>3, <3>1 DEF SoundRequest, DocsOf
      <4>2. place'[d] = Filed(d, s, near)
        BY <2>1, <3>1
      <4> QED BY <4>1, <4>2
    <3>2. CASE d \notin acc /\ opens /\ d \in Waiting(s)
      <4>1. place'[d] = s /\ docShift[d] = s
        BY <2>1, <3>2 DEF Waiting, DocsOf
      <4> QED BY <3>2, <4>1
    <3>3. CASE d \notin acc /\ ~(opens /\ d \in Waiting(s))
      BY <2>1, <3>3
    <3> QED BY <3>1, <3>2, <3>3
  <2> HIDE DEF acc, opens
  <2> QED BY <1>3, <2>1, <2>2, <2>3 DEF Moves
<1>4. CASE r.kind = "close" /\ ~UNCHANGED filing
  <2>1. /\ s \notin Foreign /\ MissingOrStale(s, r.docs) = {} /\ cloud[s] # "closed"
        /\ cloud' = [cloud EXCEPT ![s] = "closed"]
        /\ place' = [d \in Docs |-> IF d \in Waiting(s) THEN s ELSE place[d]]
        /\ UNCHANGED <<zOf, boxZ, zDocs>>
    BY <1>4 DEF Serve, ServeClose
  <2>2. \A d \in r.docs : place[d] = s \/ InZ(d) \/ place[d] = Carry
    BY <2>1 DEF MissingOrStale
  <2>3. \A t \in Shifts : cloud'[t] = IF t = s THEN "closed" ELSE cloud[t]
    BY <1>0, <2>1 DEF FilingOK
  <2>4. \A d \in Docs : \/ place'[d] = place[d]
                        \/ place'[d] = s /\ docShift[d] = s
    BY <2>1 DEF Waiting, DocsOf
  <2> QED BY <1>4, <2>1, <2>2, <2>3, <2>4 DEF Moves
<1> QED BY <1>0, <1>1, <1>2, <1>3, <1>4

\* The answer is true when it is given.
TrueOf(r, ans) ==
    /\ ans.is = "foreign" => r.shift \in Foreign
    /\ ans.is = "ok" =>
          /\ r.kind = "open" => cloud'[r.shift] # "none"
          /\ r.kind = "doc" => \A d \in ans.yes : place'[d] # None
          /\ r.kind = "close" => cloud'[r.shift] = "closed"

\* Each kind of request.
LEMMA ReplyTrue ==
    ASSUME FilingOK, BoxedIsInBox, NEW r \in Requests,
           NEW rej \in Rejections(r), NEW near \in BOOLEAN, Serve(r, rej, near)
    PROVE  TrueOf(r, ReplyTo(r, rej))
<1> DEFINE s == r.shift
<1>0. r.kind \in {"open", "doc", "close"} /\ s \in Shifts /\ r.docs \in SUBSET Docs /\ rej \in SUBSET r.docs
  BY DEF Requests, Rejections
<1>1. CASE r.kind = "open"
  <2>1. ServeOpen(s) /\ ReplyTo(r, rej) = OpenReply(s)
    BY <1>1 DEF Serve, ReplyTo
  <2>2. CASE s \in Foreign \/ cloud[s] # "none" \/ OpenInCloud # {}
    BY <1>1, <2>1, <2>2 DEF ServeOpen, OpenReply, Said, Reply, TrueOf, filing
  <2>3. CASE ~(s \in Foreign \/ cloud[s] # "none" \/ OpenInCloud # {})
    <3>1. cloud'[s] = "open"
      BY <1>0, <2>1, <2>3 DEF ServeOpen, FilingOK
    <3> QED BY <1>1, <2>1, <2>3, <3>1 DEF OpenReply, Said, Reply, TrueOf
  <2> QED BY <2>2, <2>3
<1>2. CASE r.kind = "doc"
  <2>1. ServeDocs(s, r.docs, rej, near) /\ ReplyTo(r, rej) = Reply("ok", r.docs \ rej, rej)
    BY <1>2 DEF Serve, ReplyTo
  <2>2. ASSUME NEW d \in r.docs \ rej PROVE place'[d] # None
    <3>1. place'[d] = Filed(d, s, near)
      BY <1>0, <2>1 DEF ServeDocs
    <3> QED BY <1>0, <3>1, FiledSound, Marks
  <2> QED BY <1>2, <2>1, <2>2 DEF Reply, TrueOf
<1>3. CASE r.kind = "close"
  <2>1. ServeClose(s, r.docs) /\ ReplyTo(r, rej) = CloseReply(s, r.docs)
    BY <1>3 DEF Serve, ReplyTo
  <2>2. CASE s \in Foreign \/ MissingOrStale(s, r.docs) # {} \/ cloud[s] = "closed"
    BY <1>3, <2>1, <2>2 DEF ServeClose, CloseReply, Said, Reply, TrueOf, filing
  <2>3. CASE ~(s \in Foreign \/ MissingOrStale(s, r.docs) # {} \/ cloud[s] = "closed")
    <3>1. cloud'[s] = "closed"
      BY <1>0, <2>1, <2>3 DEF ServeClose, FilingOK
    <3> QED BY <1>3, <2>1, <2>3, <3>1 DEF CloseReply, Said, Reply, TrueOf
  <2> QED BY <2>2, <2>3
<1> QED BY <1>0, <1>1, <1>2, <1>3

\* A request served keeps what the cloud promises.
LEMMA ServeKept ==
    ASSUME IInv, PayloadWhole, NotRetired, CloudInv, ZInv,
           NEW r \in Requests, SoundRequest(r), Moves(r), Serving(r.docs),
           UNCHANGED <<shift, doc, docShift, payload, rows>>
    PROVE  CloudInv' /\ ZInv'
<1> DEFINE t == r.shift
<1>0. t \in Shifts /\ FilingOK /\ BoxedIsInBox
  BY DEF Requests, IInv, FilingInv
<1>1. NeverAdopted'
  <2>1. ASSUME NEW d \in Docs, place'[d] \in Shifts, docShift[d] \notin Foreign
        PROVE  place'[d] = docShift[d]
    <3>1. CASE place'[d] = place[d]
      BY <2>1, <3>1 DEF CloudInv, NeverAdopted
    <3>2. CASE place'[d] = t /\ docShift[d] = t
      BY <3>2
    <3>3. ASSUME docShift[d] = t, NEW near \in BOOLEAN, place'[d] = Filed(d, t, near)
          PROVE  place'[d] = docShift[d]
      <4>1. place'[d] \in {t, place[d]}
        BY <1>0, <2>1, <3>3, FiledOwn
      <4> QED BY <2>1, <3>3, <4>1 DEF CloudInv, NeverAdopted
    <3> QED BY <3>1, <3>2, <3>3 DEF Moves
  <2> QED BY <2>1 DEF NeverAdopted
<1>2. \A s \in Shifts : cloud'[s] = "closed" /\ cloud[s] # "closed" =>
          /\ r.kind = "close" /\ s = t /\ s \notin Foreign
          /\ shift[s] \in {"closing", "closed"}
          /\ \A d \in Sales(s) : place[d] = s \/ InZ(d) \/ place[d] = Carry
  <2>1. ASSUME NEW s \in Shifts, cloud'[s] = "closed", cloud[s] # "closed"
        PROVE  /\ r.kind = "close" /\ s = t /\ s \notin Foreign
               /\ shift[s] \in {"closing", "closed"}
               /\ \A d \in Sales(s) : place[d] = s \/ InZ(d) \/ place[d] = Carry
    <3>1. /\ r.kind = "close" /\ s = t /\ s \notin Foreign
          /\ \A d \in r.docs : place[d] = s \/ InZ(d) \/ place[d] = Carry
      BY <2>1 DEF Moves
    <3>2. shift[s] \notin {"none", "open"} /\ r.docs = payload[s]
      BY <3>1 DEF SoundRequest
    <3>3. shift[s] \in {"closing", "closed"}
      BY <3>1, <3>2 DEF NotRetired, IInv, DeviceInv, DeviceOK
    <3>4. r.docs = Sales(s)
      BY <3>2, <3>3 DEF PayloadWhole
    <3> QED BY <3>1, <3>3, <3>4
  <2> QED BY <2>1
<1>3. CloudClosed'
  BY <1>2 DEF CloudInv, CloudClosed
<1>4. Whole'
  <2>1. ASSUME NEW s \in Shifts, cloud'[s] = "closed", NEW d \in Sales(s)
        PROVE  \/ place'[d] = s
               \/ place'[d] = place[d] /\ (place[d] = s \/ InZ(d) \/ place[d] = Carry)
    <3>0. d \in Docs /\ docShift[d] = s
      BY DEF Sales, DocsOf
    <3>1. place[d] = s \/ InZ(d) \/ place[d] = Carry
      BY <1>2, <2>1 DEF CloudInv, Whole
    <3>2. CASE place'[d] = place[d]
      BY <3>1, <3>2
    <3>3. CASE place'[d] = t /\ docShift[d] = t
      BY <3>0, <3>3
    <3>4. ASSUME r.kind = "doc", docShift[d] = t, NEW near \in BOOLEAN, place'[d] = Filed(d, t, near)
          PROVE  place'[d] = place[d]
      <4>1. s = t /\ cloud[s] = "closed"
        BY <1>2, <2>1, <3>0, <3>4
      <4>2. s \notin Foreign
        BY <4>1 DEF CloudInv, CloudClosed
      <4>3. Filed(d, s, near) = place[d]
        BY <1>0, <3>0, <3>1, <4>1, <4>2, FiledOwn
      <4> QED BY <3>4, <4>1, <4>3
    <3> QED BY <3>0, <3>1, <3>2, <3>3, <3>4 DEF Moves
  <2>2. UNCHANGED <<zOf, boxZ>>
    BY DEF Moves
  <2> QED BY <2>1, <2>2 DEF Whole, InZ, Sales, DocsOf
<1>5. ClosedIsKnown'
  BY DEF CloudInv, ClosedIsKnown, Moves
<1>6. NothingForgotten'
  <2>1. \A d \in Docs : place[d] # None => place'[d] # None
    BY DEF Serving
  <2>2. \A s \in Shifts : cloud[s] # "none" => cloud'[s] # "none"
    BY DEF Moves
  <2> QED BY <2>1, <2>2 DEF CloudInv, NothingForgotten
<1>7. ZInv'
  BY DEF ZInv, ZOrder, ZLeavesNothing, Sales, DocsOf, Moves
<1> QED BY <1>1, <1>3, <1>4, <1>5, <1>6, <1>7 DEF CloudInv

-----------------------------------------------------------------------------
(* The ledger.                                                             *)

\* What a step of the ledger changes: a document of a shift that is not closed,
\* which gets its row when it is final; a shift, opened or closed with its row,
\* the closed one with its sales frozen.
LedgerMoves ==
    /\ UNCHANGED <<todo, call, reply, stray, filing>>
    /\ rows \subseteq rows'
    /\ \A d \in Docs :
          /\ doc[d] # "none" => docShift'[d] = docShift[d]
          /\ doc'[d] # doc[d] => /\ doc[d] \notin Final /\ docShift'[d] \in Shifts
                                 /\ shift[docShift'[d]] \notin {"closing", "closed"}
                                 /\ shift' = shift
                                 /\ doc'[d] \in Final => <<"doc", d>> \in rows'
    /\ \A s \in Shifts :
          /\ shift'[s] # shift[s] =>
                \/ shift[s] = "none" /\ shift'[s] = "open" /\ <<"open", s>> \in rows'
                \/ /\ shift[s] = "open" /\ shift'[s] = "closing" /\ <<"close", s>> \in rows'
                   /\ payload'[s] = Sales(s)
                   /\ \A d \in DocsOf(s) : doc[d] # "pending"
                   /\ docShift' = docShift
          /\ payload'[s] # payload[s] => shift[s] = "open"
          /\ <<"close", s>> \in rows' \ rows => shift'[s] = "closing"

\* Each operation of the ledger changes that.
LEMMA LedgerStepMoves ==
    ASSUME DeviceInv, PayloadWhole,
           \/ OpenShift
           \/ \E status \in {"pending", "completed"} : InsertSale(status)
           \/ \E d \in Docs, status \in Final : SettleSale(d, status)
           \/ CloseShift
    PROVE  LedgerMoves
<1>0. DeviceOK
  BY DEF DeviceInv
<1>1. CASE OpenShift
  <2>1. PICK s \in Shifts :
          /\ shift[s] = "none" /\ shift' = [shift EXCEPT ![s] = "open"]
          /\ rows' = rows \cup {<<"open", s>>}
          /\ UNCHANGED <<doc, docShift, payload, todo, call, reply, stray, filing>>
    BY <1>1 DEF OpenShift, flush
  <2>2. \A t \in Shifts : shift'[t] = IF t = s THEN "open" ELSE shift[t]
    BY <1>0, <2>1 DEF DeviceOK
  <2> QED BY <2>1, <2>2 DEF LedgerMoves
<1>2. ASSUME NEW status \in {"pending", "completed"}, InsertSale(status) PROVE LedgerMoves
  <2>1. PICK s \in OpenShifts, d \in Docs :
          /\ doc[d] = "none"
          /\ doc' = [doc EXCEPT ![d] = status]
          /\ docShift' = [docShift EXCEPT ![d] = s]
          /\ rows' = IF status = "completed" THEN rows \cup {<<"doc", d>>} ELSE rows
          /\ UNCHANGED <<shift, payload, todo, call, reply, stray, filing>>
    BY <1>2 DEF InsertSale, flush
  <2>2. s \in Shifts /\ shift[s] = "open"
    BY DEF OpenShifts
  <2>3. \A e \in Docs : /\ doc'[e] = IF e = d THEN status ELSE doc[e]
                        /\ docShift'[e] = IF e = d THEN s ELSE docShift[e]
    BY <1>0, <2>1 DEF DeviceOK
  <2> QED BY <1>2, <2>1, <2>2, <2>3 DEF LedgerMoves, Final
<1>3. ASSUME NEW d \in Docs, NEW status \in Final, SettleSale(d, status) PROVE LedgerMoves
  <2>1. /\ doc[d] = "pending"
        /\ doc' = [doc EXCEPT ![d] = status]
        /\ rows' = rows \cup {<<"doc", d>>}
        /\ UNCHANGED <<shift, docShift, payload, todo, call, reply, stray, filing>>
    BY <1>3 DEF SettleSale, flush
  <2>2. docShift[d] \in Shifts /\ shift[docShift[d]] \notin {"closing", "closed"}
    <3>1. docShift[d] \in Shifts
      BY <1>0, <2>1 DEF DeviceOK
    <3> QED BY <2>1, <3>1 DEF PayloadWhole, DocsOf
  <2>3. \A e \in Docs : doc'[e] = IF e = d THEN status ELSE doc[e]
    BY <1>0, <2>1 DEF DeviceOK
  <2> QED BY <2>1, <2>2, <2>3 DEF LedgerMoves, Final
<1>4. CASE CloseShift
  <2>1. PICK s \in OpenShifts :
          /\ \A d \in DocsOf(s) : doc[d] # "pending"
          /\ shift' = [shift EXCEPT ![s] = "closing"]
          /\ payload' = [payload EXCEPT ![s] = {d \in DocsOf(s) : doc[d] = "completed"}]
          /\ rows' = rows \cup {<<"close", s>>}
          /\ UNCHANGED <<doc, docShift, todo, call, reply, stray, filing>>
    BY <1>4 DEF CloseShift, flush
  <2>2. s \in Shifts /\ shift[s] = "open"
    BY DEF OpenShifts
  <2>3. \A t \in Shifts : /\ shift'[t] = IF t = s THEN "closing" ELSE shift[t]
                          /\ payload'[t] = IF t = s THEN Sales(s) ELSE payload[t]
    BY <1>0, <2>1, <2>2 DEF DeviceOK, Sales
  <2> QED BY <2>1, <2>2, <2>3 DEF LedgerMoves
<1> QED BY <1>1, <1>2, <1>3, <1>4

\* The sales of a closed shift stay, and none is pending.
LEMMA SalesStay ==
    ASSUME DeviceInv, DeviceInv', PayloadWhole, LedgerMoves,
           NEW s \in Shifts, shift[s] \in {"closing", "closed"}
    PROVE  /\ shift'[s] = shift[s] /\ payload'[s] = payload[s]
           /\ Sales(s)' = Sales(s)
           /\ \A d \in DocsOf(s)' : doc'[d] # "pending"
<1>1. shift'[s] = shift[s] /\ payload'[s] = payload[s]
  BY DEF LedgerMoves
<1>2. \A d \in Docs : docShift'[d] = s => doc'[d] = doc[d]
  BY DEF LedgerMoves
<1>3. \A d \in Docs : docShift'[d] = s <=> docShift[d] = s
  <2>1. ASSUME NEW d \in Docs, docShift'[d] = s PROVE docShift[d] = s
    <3>1. doc'[d] = doc[d] /\ doc'[d] # "none"
      BY <1>2, <2>1, Marks DEF DeviceInv, DeviceOK
    <3> QED BY <2>1, <3>1 DEF LedgerMoves
  <2>2. ASSUME NEW d \in Docs, docShift[d] = s PROVE docShift'[d] = s
    <3>1. doc[d] # "none"
      BY <2>2, Marks DEF DeviceInv, DeviceOK
    <3> QED BY <2>2, <3>1 DEF LedgerMoves
  <2> QED BY <2>1, <2>2
<1>4. Sales(s)' = Sales(s)
  BY <1>2, <1>3 DEF Sales, DocsOf
<1>5. \A d \in DocsOf(s)' : doc'[d] # "pending"
  BY <1>2, <1>3 DEF PayloadWhole, DocsOf
<1> QED BY <1>1, <1>4, <1>5

\* The next step of a running flush stays, whatever is issued or filed meanwhile.
LEMMA StepStays ==
    ASSUME DeviceInv, DeviceInv', todo # {}, todo' = todo,
           \A d \in Docs : doc[d] # "none" => docShift'[d] = docShift[d]
    PROVE  StepShift' = StepShift /\ StepKind' = StepKind
<1>1. \A r \in todo : ShiftOf(r)' = ShiftOf(r)
  <2>1. ASSUME NEW r \in todo, r[1] = "doc" PROVE docShift'[r[2]] = docShift[r[2]]
    BY <2>1 DEF DeviceInv, RowsSound, Final
  <2> QED BY <2>1 DEF ShiftOf
<1>2. /\ StepShift \in Shifts
      /\ \E r \in todo : ShiftOf(r) = StepShift
      /\ \A r \in todo : StepShift <= ShiftOf(r)
  BY StepSpec DEF DeviceInv
<1>3. (DeviceOK /\ RowsSound /\ todo # {} =>
        /\ StepShift \in Shifts
        /\ \E r \in todo : ShiftOf(r) = StepShift
        /\ \A r \in todo : StepShift <= ShiftOf(r))'
  BY StepSpec, PTL
<1>4. /\ StepShift' \in Shifts
      /\ \E r \in todo : ShiftOf(r)' = StepShift'
      /\ \A r \in todo : StepShift' <= ShiftOf(r)'
  BY <1>3 DEF DeviceInv
<1>5. StepShift' <= StepShift /\ StepShift <= StepShift'
  BY <1>1, <1>2, <1>4
<1>6. StepShift' = StepShift
  BY <1>2, <1>4, <1>5, Marks
<1>7. StepKind' = StepKind
  BY <1>1, <1>6 DEF StepKind
<1> QED BY <1>6, <1>7

\* A step of the ledger keeps everything.
LEMMA LedgerKept ==
    ASSUME IInv, KeptInv, DeviceInv', LedgerMoves
    PROVE  KeptInv'
<1> USE DEF KeptInv, FlushInv, CloudInv, ZInv, IInv
<1>0. /\ UNCHANGED <<todo, call, reply, stray, cloud, place, zOf, boxZ, zDocs>>
      /\ rows \subseteq rows'
  BY DEF LedgerMoves, filing
<1>1. \A s \in Shifts : shift[s] \notin {"none", "open"} => shift'[s] = shift[s] /\ payload'[s] = payload[s]
  BY DEF LedgerMoves
<1>2. \A s \in Shifts : shift[s] \in {"closing", "closed"} =>
          /\ Sales(s)' = Sales(s) /\ \A d \in DocsOf(s)' : doc'[d] # "pending"
  BY SalesStay
<1>3. \A d \in Docs : doc[d] # "none" => docShift'[d] = docShift[d]
  BY DEF LedgerMoves
<1>4. StrayOwn'
  <2>1. ASSUME NEW r \in stray PROVE SoundRequest(r)'
    <3>0. SoundRequest(r) /\ r \in Requests
      BY DEF StrayOwn, DeviceInv, DeviceOK
    <3>1. r.shift \in Shifts /\ r.docs \in SUBSET Docs
      BY <3>0 DEF Requests
    <3>2. r.kind = "doc" => r.docs \subseteq DocsOf(r.shift)'
      <4>1. ASSUME r.kind = "doc", NEW d \in r.docs PROVE docShift'[d] = r.shift
        <5>1. d \in Docs /\ docShift[d] = r.shift
          BY <3>0, <4>1 DEF SoundRequest, DocsOf
        <5>2. doc[d] # "none"
          BY <3>1, <5>1, Marks DEF DeviceInv, DeviceOK
        <5> QED BY <1>3, <5>1, <5>2
      <4> QED BY <3>1, <4>1 DEF DocsOf
    <3>3. r.kind = "close" => shift'[r.shift] \notin {"none", "open"} /\ r.docs = payload'[r.shift]
      BY <1>1, <3>0, <3>1 DEF SoundRequest
    <3> QED BY <3>2, <3>3 DEF SoundRequest
  <2> QED BY <1>0, <2>1 DEF StrayOwn
<1>5. CloseRows'
  <2>1. ASSUME NEW s \in Shifts, <<"close", s>> \in rows' \cup todo'
        PROVE  shift'[s] \notin {"none", "open"}
    <3>1. CASE <<"close", s>> \in rows \cup todo
      BY <1>1, <3>1 DEF CloseRows
    <3>2. CASE <<"close", s>> \in rows' \ rows
      BY <3>2 DEF LedgerMoves
    <3> QED BY <1>0, <2>1, <3>1, <3>2
  <2> QED BY <2>1 DEF CloseRows
<1>6. PayloadWhole'
  <2>1. ASSUME NEW s \in Shifts, shift'[s] \in {"closing", "closed"}
        PROVE  payload'[s] = Sales(s)' /\ \A d \in DocsOf(s)' : doc'[d] # "pending"
    <3>1. CASE shift'[s] = shift[s]
      BY <1>1, <1>2, <2>1, <3>1 DEF PayloadWhole
    <3>2. CASE shift'[s] # shift[s]
      <4>1. /\ payload'[s] = Sales(s) /\ docShift' = docShift
            /\ \A d \in DocsOf(s) : doc[d] # "pending"
        BY <2>1, <3>2 DEF LedgerMoves
      <4>2. \A d \in Docs : doc'[d] = doc[d]
        BY <3>2 DEF LedgerMoves, DeviceInv, DeviceOK
      <4> QED BY <4>1, <4>2 DEF Sales, DocsOf
    <3> QED BY <3>1, <3>2
  <2> QED BY <2>1 DEF PayloadWhole
<1>7. NotRetired'
  BY DEF NotRetired, LedgerMoves
<1>8. CallIsStep'
  BY <1>0, <1>3, StepStays DEF CallIsStep
<1>9. AnswerTrue'
  BY <1>0 DEF AnswerTrue
<1>10. CloudClosed'
  BY <1>0, <1>1 DEF CloudClosed
<1>11. Whole'
  <2>1. \A s \in Shifts : cloud[s] = "closed" => Sales(s)' = Sales(s)
    BY <1>2 DEF CloudClosed
  <2> QED BY <1>0, <2>1 DEF Whole, InZ
<1>12. ClosedIsKnown'
  BY <1>0 DEF ClosedIsKnown, LedgerMoves
<1>13. NeverAdopted'
  <2>1. \A d \in Docs : place[d] \in Shifts => docShift'[d] = docShift[d]
    BY <1>3, Marks DEF FilingInv, StoredIsFinal, Final
  <2> QED BY <1>0, <2>1 DEF NeverAdopted
<1>14. NothingForgotten'
  <2>1. \A d \in Docs : doc'[d] \in Final => <<"doc", d>> \in rows' \/ place'[d] # None
    BY <1>0 DEF NothingForgotten, LedgerMoves
  <2>2. \A s \in Shifts : shift'[s] \in {"open", "closing"} =>
            <<"open", s>> \in rows' \/ cloud'[s] # "none" \/ s \in Foreign
    BY <1>0 DEF NothingForgotten, LedgerMoves
  <2>3. \A s \in Shifts : shift'[s] = "closing" => <<"close", s>> \in rows'
    BY <1>0 DEF NothingForgotten, LedgerMoves
  <2> QED BY <2>1, <2>2, <2>3 DEF NothingForgotten
<1>15. ZInv'
  <2>1. \A s \in Shifts : zOf[s] # 0 => Sales(s)' = Sales(s)
    BY <1>2 DEF CloudClosed, FilingInv, ZsAreClosed
  <2> QED BY <1>0, <2>1 DEF ZOrder, ZLeavesNothing
<1> QED BY <1>4, <1>5, <1>6, <1>7, <1>8, <1>9, <1>10, <1>11, <1>12, <1>13, <1>14, <1>15

-----------------------------------------------------------------------------
(* The answers.                                                            *)

\* What the handling of an answer changes, wherever it is cut short: a row goes
\* when the cloud has what it stands for, or its shift is another machine's; a
\* shift is retired or closed as the answer says; a request may be given up.
AnswerMoves ==
    /\ UNCHANGED <<doc, docShift, payload, filing>>
    /\ todo' \subseteq todo /\ call' = None /\ reply' = None
    /\ \A r \in stray' : r \in stray \/ (r = StepRequest /\ todo # {})
    /\ \A r \in rows' \ rows : r[1] = "doc"
    /\ \A d \in Docs : <<"doc", d>> \in rows \ rows' => place[d] # None
    /\ \A s \in Shifts :
          /\ \/ shift'[s] = shift[s]
             \/ shift'[s] = "retired" /\ s \in Foreign
             \/ shift'[s] = "closed" /\ cloud[s] = "closed"
          /\ <<"open", s>> \in rows \ rows' => cloud[s] # "none" \/ s \in Foreign
          /\ <<"close", s>> \in rows \ rows' => shift'[s] # "closing"

\* The update of the shift that was answered about.
LEMMA ShiftAnswered ==
    ASSUME DeviceOK, NEW c \in Requests, NEW status, shift' = [shift EXCEPT ![c.shift] = status]
    PROVE  \A s \in Shifts : shift'[s] = IF s = c.shift THEN status ELSE shift[s]
  BY DEF DeviceOK, Requests

\* Each handler, and each way to lose it, changes that.
LEMMA AnswerStepMoves ==
    ASSUME DeviceInv, FlushInv, OnOpened \/ OnDocs \/ OnClosed \/ Unserved \/ AnswerLost \/ CrashAmid
    PROVE  AnswerMoves
<1>0. /\ DeviceOK
      /\ call # None => call \in Requests /\ call.kind = StepKind /\ call.shift = StepShift
      /\ call # None /\ reply # None =>
            /\ reply.is = "foreign" => call.shift \in Foreign
            /\ reply.is = "ok" /\ call.kind = "open" => cloud[call.shift] # "none"
            /\ reply.is = "ok" /\ call.kind = "doc" => \A d \in reply.yes : place[d] # None
            /\ reply.is = "ok" /\ call.kind = "close" => cloud[call.shift] = "closed"
  BY DEF DeviceInv, DeviceOK, FlushInv, CallIsStep, AnswerTrue
<1>1. Proceed \/ StopFlush => todo' \subseteq todo /\ call' = None /\ reply' = None
  BY DEF Proceed, StopFlush
<1>2. CASE OnOpened
  <2>1. /\ call # None /\ reply # None /\ call.kind = "open"
        /\ \/ /\ reply.is = "ok"
              /\ rows' = rows \ StepRows /\ UNCHANGED shift
           \/ /\ reply.is = "foreign"
              /\ shift' = [shift EXCEPT ![call.shift] = "retired"] /\ rows' = rows \ StepRows
           \/ UNCHANGED <<shift, rows>>
        /\ Proceed \/ StopFlush
        /\ UNCHANGED <<doc, docShift, payload, stray, filing>>
    BY <1>2 DEF OnOpened, Drop, Park, Retire
  <2>2. StepRows \subseteq {<<"open", call.shift>>}
    BY <1>0, <2>1, StepRowsAre
  <2>3. CASE reply.is = "ok" /\ rows' = rows \ StepRows /\ UNCHANGED shift
    BY <1>0, <1>1, <2>1, <2>2, <2>3 DEF AnswerMoves
  <2>4. CASE reply.is = "foreign" /\ shift' = [shift EXCEPT ![call.shift] = "retired"] /\ rows' = rows \ StepRows
    <3>1. \A s \in Shifts : shift'[s] = IF s = call.shift THEN "retired" ELSE shift[s]
      BY <1>0, <2>1, <2>4, ShiftAnswered
    <3> QED BY <1>0, <1>1, <2>1, <2>2, <2>4, <3>1 DEF AnswerMoves
  <2>5. CASE UNCHANGED <<shift, rows>>
    BY <1>1, <2>1, <2>5 DEF AnswerMoves
  <2> QED BY <2>1, <2>3, <2>4, <2>5
<1>3. CASE OnDocs
  <2>1. /\ call # None /\ reply # None /\ call.kind = "doc"
        /\ \/ reply.is = "ok" /\ rows' = rows \ DocRows(reply.yes)
           \/ rows' = rows
        /\ Proceed \/ StopFlush
        /\ UNCHANGED <<shift, doc, docShift, payload, stray, filing>>
    BY <1>3 DEF OnDocs, Park
  <2> QED BY <1>0, <1>1, <2>1 DEF AnswerMoves, DocRows
<1>4. CASE OnClosed
  <2>1. /\ call # None /\ reply # None /\ call.kind = "close"
        /\ \/ /\ reply.is = "ok"
              /\ shift' = [shift EXCEPT ![call.shift] = "closed"] /\ rows' = rows \ StepRows
           \/ /\ reply.is = "foreign"
              /\ shift' = [shift EXCEPT ![call.shift] = "retired"] /\ rows' = rows \ StepRows
           \/ rows' = rows \cup DocRows(reply.no) /\ UNCHANGED shift
           \/ UNCHANGED <<shift, rows>>
        /\ Proceed \/ StopFlush
        /\ UNCHANGED <<doc, docShift, payload, stray, filing>>
    BY <1>4 DEF OnClosed, Drop, Park, Retire
  <2>2. StepRows \subseteq {<<"close", call.shift>>}
    BY <1>0, <2>1, StepRowsAre
  <2>3. CASE reply.is = "ok" /\ shift' = [shift EXCEPT ![call.shift] = "closed"] /\ rows' = rows \ StepRows
    <3>1. \A s \in Shifts : shift'[s] = IF s = call.shift THEN "closed" ELSE shift[s]
      BY <1>0, <2>1, <2>3, ShiftAnswered
    <3> QED BY <1>0, <1>1, <2>1, <2>2, <2>3, <3>1 DEF AnswerMoves
  <2>4. CASE reply.is = "foreign" /\ shift' = [shift EXCEPT ![call.shift] = "retired"] /\ rows' = rows \ StepRows
    <3>1. \A s \in Shifts : shift'[s] = IF s = call.shift THEN "retired" ELSE shift[s]
      BY <1>0, <2>1, <2>4, ShiftAnswered
    <3> QED BY <1>0, <1>1, <2>1, <2>2, <2>4, <3>1 DEF AnswerMoves
  <2>5. CASE rows' = rows \cup DocRows(reply.no) /\ UNCHANGED shift
    BY <1>1, <2>1, <2>5 DEF AnswerMoves, DocRows
  <2>6. CASE UNCHANGED <<shift, rows>>
    BY <1>1, <2>1, <2>6 DEF AnswerMoves
  <2> QED BY <2>1, <2>3, <2>4, <2>5, <2>6
<1>5. CASE Unserved \/ AnswerLost
  <2>1. /\ \A r \in stray' : r \in stray \/ (r = StepRequest /\ todo # {})
        /\ StopFlush
        /\ UNCHANGED <<shift, doc, docShift, payload, rows, filing>>
    BY <1>5 DEF Unserved, AnswerLost, disk
  <2> QED BY <1>1, <2>1 DEF AnswerMoves
<1>6. CASE CrashAmid
  <2>1. /\ call # None /\ reply # None
        /\ \/ /\ reply.is = "ok" /\ call.kind = "doc"
              /\ \E done \in SUBSET reply.yes : rows' = rows \ DocRows(done)
              /\ UNCHANGED shift
           \/ /\ reply.is = "ok" /\ call.kind = "close"
              /\ shift' = [shift EXCEPT ![call.shift] = "closed"] /\ UNCHANGED rows
           \/ /\ reply.is = "foreign"
              /\ shift' = [shift EXCEPT ![call.shift] = "retired"] /\ UNCHANGED rows
           \/ (\E done \in SUBSET reply.no : rows' = rows \cup DocRows(done)) /\ UNCHANGED shift
        /\ StopFlush
        /\ UNCHANGED <<doc, docShift, payload, stray, filing>>
    BY <1>6 DEF CrashAmid, Drop, Retire
  <2>2. CASE /\ reply.is = "ok" /\ call.kind = "doc"
             /\ \E done \in SUBSET reply.yes : rows' = rows \ DocRows(done)
             /\ UNCHANGED shift
    BY <1>0, <1>1, <2>1, <2>2 DEF AnswerMoves, DocRows
  <2>3. CASE /\ reply.is = "ok" /\ call.kind = "close"
             /\ shift' = [shift EXCEPT ![call.shift] = "closed"] /\ UNCHANGED rows
    <3>1. \A s \in Shifts : shift'[s] = IF s = call.shift THEN "closed" ELSE shift[s]
      BY <1>0, <2>1, <2>3, ShiftAnswered
    <3> QED BY <1>0, <1>1, <2>1, <2>3, <3>1 DEF AnswerMoves
  <2>4. CASE /\ reply.is = "foreign"
             /\ shift' = [shift EXCEPT ![call.shift] = "retired"] /\ UNCHANGED rows
    <3>1. \A s \in Shifts : shift'[s] = IF s = call.shift THEN "retired" ELSE shift[s]
      <4>1. call \in Requests /\ shift' = [shift EXCEPT ![call.shift] = "retired"]
        BY <1>0, <2>1, <2>4
      <4> QED BY <1>0, <4>1, ShiftAnswered
    <3> QED BY <1>0, <1>1, <2>1, <2>4, <3>1 DEF AnswerMoves
  <2>5. CASE (\E done \in SUBSET reply.no : rows' = rows \cup DocRows(done)) /\ UNCHANGED shift
    BY <1>1, <2>1, <2>5 DEF AnswerMoves, DocRows
  <2> QED BY <2>1, <2>2, <2>3, <2>4, <2>5
<1> QED BY <1>2, <1>3, <1>4, <1>5, <1>6

\* An answer handled, lost or cut short keeps everything.
LEMMA AnswerKept ==
    ASSUME IInv, KeptInv, AnswerMoves
    PROVE  KeptInv'
<1> USE DEF KeptInv, FlushInv, CloudInv, ZInv, IInv
<1>0. UNCHANGED <<doc, docShift, payload, cloud, place, zOf, boxZ, zDocs>>
  BY DEF AnswerMoves, filing
<1>1. \A s \in Shifts : shift[s] \notin {"none", "open"} => shift'[s] \notin {"none", "open"}
  BY DEF AnswerMoves
<1>2. StrayOwn'
  <2>1. ASSUME NEW r \in stray' PROVE SoundRequest(r)'
    <3>1. SoundRequest(r) /\ r \in Requests
      BY <2>1, StepOwn, StepRequestSound DEF StrayOwn, AnswerMoves, DeviceInv, DeviceOK
    <3>2. r.shift \in Shifts
      BY <3>1 DEF Requests
    <3> QED BY <1>0, <1>1, <3>1, <3>2 DEF SoundRequest, DocsOf
  <2> QED BY <2>1 DEF StrayOwn
<1>3. CloseRows'
  BY <1>1 DEF CloseRows, AnswerMoves
<1>4. PayloadWhole'
  <2>1. \A s \in Shifts : shift'[s] \in {"closing", "closed"} => shift[s] \in {"closing", "closed"}
    BY DEF AnswerMoves, CloudClosed
  <2> QED BY <1>0, <2>1 DEF PayloadWhole, Sales, DocsOf
<1>5. NotRetired'
  BY DEF NotRetired, AnswerMoves
<1>6. CallIsStep' /\ AnswerTrue'
  BY DEF CallIsStep, AnswerTrue, AnswerMoves
<1>7. CloudClosed'
  BY <1>0 DEF CloudClosed, AnswerMoves
<1>8. ClosedIsKnown'
  BY <1>0 DEF ClosedIsKnown, AnswerMoves
<1>9. Whole' /\ NeverAdopted' /\ ZInv'
  BY <1>0 DEF Whole, NeverAdopted, ZOrder, ZLeavesNothing, InZ, Sales, DocsOf
<1>10. NothingForgotten'
  <2>1. \A d \in Docs : doc'[d] \in Final => <<"doc", d>> \in rows' \/ place'[d] # None
    BY <1>0 DEF NothingForgotten, AnswerMoves
  <2>2. \A s \in Shifts : shift'[s] \in {"open", "closing"} => shift'[s] = shift[s]
    BY DEF AnswerMoves
  <2>3. \A s \in Shifts : shift'[s] \in {"open", "closing"} =>
            <<"open", s>> \in rows' \/ cloud'[s] # "none" \/ s \in Foreign
    BY <1>0, <2>2 DEF NothingForgotten, AnswerMoves
  <2>4. \A s \in Shifts : shift'[s] = "closing" => <<"close", s>> \in rows'
    BY <2>2 DEF NothingForgotten, AnswerMoves
  <2> QED BY <2>1, <2>3, <2>4 DEF NothingForgotten
<1> QED BY <1>2, <1>3, <1>4, <1>5, <1>6, <1>7, <1>8, <1>9, <1>10

-----------------------------------------------------------------------------
(* The requests and the Z.                                                 *)

\* A flush begins with rows of the outbox.
LEMMA StartKept ==
    ASSUME IInv, KeptInv, StartFlush
    PROVE  KeptInv'
<1>1. /\ call = None /\ todo' \subseteq rows
      /\ UNCHANGED <<shift, doc, docShift, payload, rows, call, reply, stray, cloud, place, zOf, boxZ, zDocs>>
  BY DEF StartFlush, Flushing, filing, IInv, DeviceInv, DeviceOK
<1>2. FlushInv'
  BY <1>1 DEF KeptInv, FlushInv, StrayOwn, SoundRequest, CloseRows, PayloadWhole, NotRetired,
              CallIsStep, AnswerTrue, Sales, DocsOf
<1>3. CloudInv' /\ ZInv'
  BY <1>1 DEF KeptInv, CloudInv, CloudClosed, Whole, ClosedIsKnown, NeverAdopted, NothingForgotten,
              ZInv, ZOrder, ZLeavesNothing, InZ, Sales, DocsOf
<1> QED BY <1>2, <1>3 DEF KeptInv

\* Its request is its next step's, its answer true.
LEMMA ExchangeKept ==
    ASSUME IInv, KeptInv, DeviceInv', NEW rej \in SUBSET Docs, Exchange(rej)
    PROVE  KeptInv'
<1>1. /\ todo # {} /\ UNCHANGED <<shift, doc, docShift, payload, rows, todo, stray>>
      /\ call' = StepRequest /\ reply' = ReplyTo(StepRequest, rej)
      /\ rej \in Rejections(StepRequest)
  BY DEF Exchange, Send, disk
<1>2. PICK near \in BOOLEAN : Serve(StepRequest, rej, near)
  BY DEF Exchange
<1>3. StepRequest \in Requests /\ SoundRequest(StepRequest)
  BY <1>1, StepOwn, StepRequestSound DEF IInv, DeviceInv, KeptInv, FlushInv
<1>4. FilingOK /\ ZsAreClosed /\ BoxedIsInBox
  BY DEF IInv, FilingInv
<1>5. Serving(StepRequest.docs)
  BY <1>1, <1>2, <1>3, <1>4, ServeSound
<1>6. Moves(StepRequest)
  BY <1>1, <1>2, <1>3, <1>4, ServeMoves
<1>7. TrueOf(StepRequest, reply')
  BY <1>1, <1>2, <1>3, <1>4, ReplyTrue
<1>8. CloudInv' /\ ZInv'
  BY <1>1, <1>3, <1>5, <1>6, ServeKept DEF KeptInv, FlushInv
<1>9. StrayOwn' /\ CloseRows' /\ PayloadWhole' /\ NotRetired'
  BY <1>1 DEF KeptInv, FlushInv, StrayOwn, SoundRequest, CloseRows, PayloadWhole, NotRetired, Sales, DocsOf
<1>10. CallIsStep'
  <2>1. StepShift' = StepShift /\ StepKind' = StepKind
    BY <1>1, StepStays DEF IInv
  <2> QED BY <1>1, <2>1 DEF CallIsStep, StepRequest
<1>11. AnswerTrue'
  BY <1>1, <1>7 DEF AnswerTrue, TrueOf
<1> QED BY <1>8, <1>9, <1>10, <1>11 DEF KeptInv, FlushInv

\* An error says nothing.
LEMMA ErrorKept ==
    ASSUME IInv, KeptInv, DeviceInv', ExchangeError
    PROVE  KeptInv'
<1>1. /\ todo # {} /\ call' = StepRequest /\ reply'.is \in {"error", "invalid"}
      /\ UNCHANGED <<shift, doc, docShift, payload, rows, todo, stray, cloud, place, zOf, boxZ, zDocs>>
  BY DEF ExchangeError, Send, disk, filing, Said, Reply
<1>2. StrayOwn' /\ CloseRows' /\ PayloadWhole' /\ NotRetired'
  BY <1>1 DEF KeptInv, FlushInv, StrayOwn, SoundRequest, CloseRows, PayloadWhole, NotRetired, Sales, DocsOf
<1>3. CallIsStep'
  <2>1. StepShift' = StepShift /\ StepKind' = StepKind
    BY <1>1, StepStays DEF IInv
  <2> QED BY <1>1, <2>1 DEF CallIsStep, StepRequest
<1>4. AnswerTrue'
  BY <1>1 DEF AnswerTrue
<1>5. CloudInv' /\ ZInv'
  BY <1>1 DEF KeptInv, CloudInv, CloudClosed, Whole, ClosedIsKnown, NeverAdopted, NothingForgotten,
              ZInv, ZOrder, ZLeavesNothing, InZ, Sales, DocsOf
<1> QED BY <1>2, <1>3, <1>4, <1>5 DEF KeptInv, FlushInv

\* A request that nobody waits for makes no answer untrue.
LEMMA StrayKept ==
    ASSUME IInv, KeptInv, DeviceInv', ServeStray
    PROVE  KeptInv'
<1>1. PICK r \in stray : /\ stray' = stray \ {r}
                         /\ \E rej \in Rejections(r), near \in BOOLEAN : Serve(r, rej, near)
  BY DEF ServeStray
<1>2. PICK rej \in Rejections(r), near \in BOOLEAN : Serve(r, rej, near)
  BY <1>1
<1>3. UNCHANGED <<shift, doc, docShift, payload, rows, todo, call, reply>>
  BY DEF ServeStray, disk, flush
<1>4. r \in Requests /\ SoundRequest(r) /\ FilingOK /\ ZsAreClosed /\ BoxedIsInBox
  BY DEF IInv, DeviceInv, DeviceOK, FilingInv, KeptInv, FlushInv, StrayOwn
<1>5. Serving(r.docs)
  BY <1>2, <1>4, ServeSound
<1>6. Moves(r)
  BY <1>2, <1>4, ServeMoves
<1>7. CloudInv' /\ ZInv'
  BY <1>3, <1>4, <1>5, <1>6, ServeKept DEF KeptInv, FlushInv
<1>8. StrayOwn' /\ CloseRows' /\ PayloadWhole' /\ NotRetired'
  BY <1>1, <1>3 DEF KeptInv, FlushInv, StrayOwn, SoundRequest, CloseRows, PayloadWhole, NotRetired, Sales, DocsOf
<1>9. CallIsStep'
  <2>1. call # None => StepShift' = StepShift /\ StepKind' = StepKind
    BY <1>3, StepStays DEF IInv, KeptInv, FlushInv, CallIsStep
  <2> QED BY <1>3, <2>1 DEF KeptInv, FlushInv, CallIsStep
<1>10. AnswerTrue'
  <2>1. \A t \in Shifts : /\ cloud[t] # "none" => cloud'[t] # "none"
                          /\ cloud[t] = "closed" => cloud'[t] = "closed"
    BY <1>6 DEF Moves
  <2>2. \A d \in Docs : place[d] # None => place'[d] # None
    BY <1>5 DEF Serving
  <2>3. ASSUME call # None, reply # None, reply.is = "ok"
        PROVE  /\ call.kind = "open" => cloud'[call.shift] # "none"
               /\ call.kind = "doc" => \A d \in reply.yes : place'[d] # None
               /\ call.kind = "close" => cloud'[call.shift] = "closed"
    <3>1. call.shift \in Shifts
      BY <2>3 DEF IInv, DeviceInv, DeviceOK, Requests
    <3>2. call.kind = "doc" => \A d \in reply.yes : place'[d] # None
      BY <2>2, <2>3 DEF KeptInv, FlushInv, AnswerTrue, IInv, DeviceInv, DeviceOK
    <3> QED BY <2>1, <2>3, <3>1, <3>2 DEF KeptInv, FlushInv, AnswerTrue
  <2> QED BY <1>3, <2>3 DEF KeptInv, FlushInv, AnswerTrue
<1> QED BY <1>7, <1>8, <1>9, <1>10 DEF KeptInv, FlushInv

\* The next Z takes all that is accounted for and in no Z.
LEMMA ZKept ==
    ASSUME IInv, KeptInv, DeviceInv', NEW s \in Shifts, NEW z \in Zs, TakeZ(s, z)
    PROVE  KeptInv'
<1>1. /\ zDocs[z] = {} /\ \A y \in 1..(z - 1) : zDocs[y] # {}
      /\ \A t \in Included(s) : cloud[t] = "closed"
      /\ zDocs' = [zDocs EXCEPT ![z] = Taken(s)]
      /\ zOf' = [t \in Shifts |-> IF t \in Included(s) THEN z ELSE zOf[t]]
      /\ boxZ' = [d \in Docs |-> IF d \in Boxed THEN z ELSE boxZ[d]]
      /\ UNCHANGED <<shift, doc, docShift, payload, rows, todo, call, reply, stray, cloud, place>>
  BY DEF TakeZ, disk, flush
<1>2. z \in Nat \ {0} /\ Zs \subseteq Nat
  BY Marks
<1>3. \A w \in Zs : zDocs'[w] = IF w = z THEN Taken(s) ELSE zDocs[w]
  BY <1>1 DEF IInv, FilingInv, FilingOK
<1>4. FlushInv'
  <2>1. StrayOwn' /\ CloseRows' /\ PayloadWhole' /\ NotRetired'
    BY <1>1 DEF KeptInv, FlushInv, StrayOwn, SoundRequest, CloseRows, PayloadWhole, NotRetired, Sales, DocsOf
  <2>2. CallIsStep'
    <3>1. call # None => StepShift' = StepShift /\ StepKind' = StepKind
      BY <1>1, StepStays DEF IInv, KeptInv, FlushInv, CallIsStep
    <3> QED BY <1>1, <3>1 DEF KeptInv, FlushInv, CallIsStep
  <2>3. AnswerTrue'
    BY <1>1 DEF KeptInv, FlushInv, AnswerTrue
  <2> QED BY <2>1, <2>2, <2>3 DEF FlushInv
<1>5. CloudInv'
  <2>1. \A d \in Docs : InZ(d) => InZ(d)'
    BY <1>1, <1>2 DEF InZ
  <2>2. Whole'
    BY <1>1, <2>1 DEF KeptInv, CloudInv, Whole, Sales, DocsOf
  <2> QED BY <1>1, <2>2 DEF KeptInv, CloudInv, CloudClosed, ClosedIsKnown, NeverAdopted, NothingForgotten
<1>6. ZOrder'
  <2>1. ASSUME NEW y \in Zs, NEW w \in Zs, y < w, zDocs'[w] # {} PROVE zDocs'[y] # {}
    <3>1. CASE w = z
      <4>1. y \in 1..(z - 1) /\ y # z
        BY <1>2, <2>1, <3>1 DEF Zs
      <4> QED BY <1>1, <1>3, <4>1
    <3>2. CASE w # z
      <4>1. zDocs[w] # {}
        BY <1>3, <2>1, <3>2
      <4>2. zDocs[y] # {}
        BY <2>1, <4>1 DEF KeptInv, ZInv, ZOrder
      <4> QED BY <1>1, <1>3, <4>2
    <3> QED BY <3>1, <3>2
  <2> QED BY <2>1 DEF ZOrder
<1>7. ZLeavesNothing'
  \* What is in a Z is in an earlier one.
  <2>1. ASSUME NEW d \in Docs, ZOf(d) \in Zs PROVE \E y \in 1..z : d \in zDocs'[y]
    <3>1. d \in zDocs[ZOf(d)]
      BY <2>1 DEF IInv, FilingInv, ZIsItsDocuments
    <3>2. ZOf(d) # z /\ ~(z < ZOf(d))
      BY <1>1, <2>1, <3>1 DEF KeptInv, ZInv, ZOrder
    <3>3. ZOf(d) \in 1..z
      BY <1>2, <2>1, <3>2 DEF Zs
    <3>4. d \in zDocs'[ZOf(d)]
      BY <1>3, <2>1, <3>1, <3>2
    <3> QED BY <3>3, <3>4
  <2>2. ASSUME NEW t \in Included(s), NEW d \in Sales(t) PROVE \E y \in 1..z : d \in zDocs'[y]
    <3>1. t \in Shifts /\ d \in Docs /\ cloud[t] = "closed"
      BY <1>1, BoundsAssumption DEF Included, Shifts, Sales, DocsOf
    <3>2. place[d] = t \/ InZ(d) \/ place[d] = Carry
      BY <3>1 DEF KeptInv, CloudInv, Whole
    <3>3. CASE place[d] = t
      <4>1. d \in zDocs'[z]
        BY <1>3, <3>1, <3>3 DEF Taken
      <4> QED BY <1>2, <4>1
    <3>4. CASE InZ(d)
      <4>1. ZOf(d) \in Zs
        BY <3>1, <3>4 DEF InZ, ZOf, IInv, FilingInv, FilingOK
      <4> QED BY <2>1, <3>1, <4>1
    <3>5. CASE place[d] = Carry /\ ~InZ(d)
      <4>1. d \in Boxed
        <5>1. place[d] \notin Shifts /\ boxZ[d] = 0
          BY <3>5, Marks DEF InZ
        <5> QED BY <3>1, <3>5, <5>1 DEF Boxed
      <4>2. d \in zDocs'[z]
        BY <1>3, <4>1 DEF Taken
      <4> QED BY <1>2, <4>2
    <3> QED BY <3>2, <3>3, <3>4, <3>5
  <2>3. ASSUME NEW t \in Shifts, zOf'[t] # 0, NEW d \in Sales(t)
        PROVE  \E y \in 1..zOf'[t] : d \in zDocs'[y]
    <3>1. CASE t \in Included(s)
      BY <1>1, <2>2, <2>3, <3>1
    <3>2. CASE t \notin Included(s)
      <4>1. zOf'[t] = zOf[t] /\ zOf[t] \in Zs
        BY <1>1, <2>3, <3>2 DEF IInv, FilingInv, FilingOK
      <4>2. PICK y \in 1..zOf[t] : d \in zDocs[y]
        BY <2>3, <4>1 DEF KeptInv, ZInv, ZLeavesNothing
      <4>3. y \in Zs
        BY <4>1, BoundsAssumption DEF Zs
      <4>4. d \in zDocs'[y]
        BY <1>1, <1>3, <4>2, <4>3
      <4> QED BY <4>1, <4>4
    <3> QED BY <3>1, <3>2
  <2>4. \A t \in Shifts : Sales(t)' = Sales(t)
    BY <1>1 DEF Sales, DocsOf
  <2> QED BY <2>3, <2>4 DEF ZLeavesNothing
<1> QED BY <1>4, <1>5, <1>6, <1>7 DEF KeptInv, ZInv

-----------------------------------------------------------------------------
(* The invariant.                                                          *)

\* KeptInv holds at first, ...
LEMMA KeptInit == Init => KeptInv
<1> SUFFICES ASSUME Init PROVE KeptInv
  OBVIOUS
<1> USE DEF Init
<1>1. FlushInv
  BY DEF FlushInv, StrayOwn, CloseRows, PayloadWhole, NotRetired, CallIsStep, AnswerTrue
<1>2. CloudInv
  BY Marks DEF CloudInv, CloudClosed, Whole, ClosedIsKnown, NeverAdopted, NothingForgotten, Final
<1>3. ZInv
  BY DEF ZInv, ZOrder, ZLeavesNothing
<1> QED BY <1>1, <1>2, <1>3 DEF KeptInv

\* ... when nothing happens, ...
LEMMA KeptStutter ==
    ASSUME IInv, IInv', KeptInv, UNCHANGED vars
    PROVE  KeptInv'
<1>1. UNCHANGED <<shift, doc, docShift, payload, rows, todo, call, reply, stray, cloud, place, zOf, boxZ, zDocs>>
  BY DEF vars, disk, flush, filing
<1>2. StrayOwn' /\ CloseRows' /\ PayloadWhole' /\ NotRetired' /\ AnswerTrue'
  BY <1>1 DEF KeptInv, FlushInv, StrayOwn, SoundRequest, CloseRows, PayloadWhole, NotRetired, AnswerTrue,
              Sales, DocsOf
<1>3. CallIsStep'
  <2>1. call # None => StepShift' = StepShift /\ StepKind' = StepKind
    BY <1>1, StepStays DEF IInv, KeptInv, FlushInv, CallIsStep
  <2> QED BY <1>1, <2>1 DEF KeptInv, FlushInv, CallIsStep
<1>4. CloudInv' /\ ZInv'
  BY <1>1 DEF KeptInv, CloudInv, CloudClosed, Whole, ClosedIsKnown, NeverAdopted, NothingForgotten,
              ZInv, ZOrder, ZLeavesNothing, InZ, Sales, DocsOf
<1> QED BY <1>2, <1>3, <1>4 DEF KeptInv, FlushInv

\* ... and after every step.
LEMMA KeptStep == IInv /\ IInv' /\ KeptInv /\ [Next]_vars => KeptInv'
<1> SUFFICES ASSUME IInv, IInv', KeptInv, Next PROVE KeptInv'
  BY KeptStutter
<1>0. DeviceInv /\ DeviceInv' /\ FlushInv /\ PayloadWhole
  BY DEF IInv, KeptInv, FlushInv
<1>1. CASE \/ OpenShift
           \/ \E status \in {"pending", "completed"} : InsertSale(status)
           \/ \E d \in Docs, status \in Final : SettleSale(d, status)
           \/ CloseShift
  <2>1. LedgerMoves
    BY <1>0, <1>1, LedgerStepMoves
  <2> QED BY <1>0, <2>1, LedgerKept
<1>2. CASE StartFlush
  BY <1>2, StartKept
<1>3. CASE \E rej \in SUBSET Docs : Exchange(rej)
  BY <1>0, <1>3, ExchangeKept
<1>4. CASE ExchangeError
  BY <1>0, <1>4, ErrorKept
<1>5. CASE ServeStray
  BY <1>0, <1>5, StrayKept
<1>6. CASE OnOpened \/ OnDocs \/ OnClosed \/ Unserved \/ AnswerLost \/ CrashAmid
  <2>1. AnswerMoves
    BY <1>0, <1>6, AnswerStepMoves
  <2> QED BY <2>1, AnswerKept
<1>7. CASE \E s \in Shifts, z \in Zs : TakeZ(s, z)
  BY <1>0, <1>7, ZKept
<1> QED BY <1>1, <1>2, <1>3, <1>4, <1>5, <1>6, <1>7 DEF Next

\* KeptInv is an invariant of the delivery.
LEMMA KeptInvariance == Spec => []KeptInv
  BY KeptInit, KeptStep, Invariance, PTL DEF Spec

-----------------------------------------------------------------------------
(* The theorems.                                                           *)

\* A document with no row is on the cloud, and a shift owed to it has its row,
\* whatever is lost, repeated, parked or cut short by a crash (sync/outbox.ts,
\* doFlush).
THEOREM NothingLost == Spec => []NothingForgotten
<1>1. KeptInv => NothingForgotten
  BY DEF KeptInv, CloudInv
<1> QED BY <1>1, KeptInvariance, PTL

\* A shift closed in the cloud has all its sales there, in it, in a Z or on their
\* way to the next (closeShift, check_close_preconditions, apply_shift_close).
THEOREM CloseWhole == Spec => []CloseIsWhole
<1>1. KeptInv => CloseIsWhole
  BY DEF KeptInv, CloudInv, Whole, ClosedIsKnown, CloseIsWhole
<1> QED BY <1>1, KeptInvariance, PTL

\* No sale of a shift in a Z is outside that Z and the earlier ones (build_z,
\* missing_for_z).
THEOREM ZWhole == Spec => []ZLeavesNothing
<1>1. KeptInv => ZLeavesNothing
  BY DEF KeptInv, ZInv
<1> QED BY <1>1, KeptInvariance, PTL

\* A document is filed in no shift but its own, save where its shift is another
\* machine's (upsert_transactions, resolve_shift_for_document).
THEOREM OwnShiftOnly == Spec => []NeverAdopted
<1>1. KeptInv => NeverAdopted
  BY DEF KeptInv, CloudInv
<1> QED BY <1>1, KeptInvariance, PTL

=============================================================================
