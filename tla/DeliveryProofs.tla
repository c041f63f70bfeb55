-------------------------- MODULE DeliveryProofs --------------------------
(***************************************************************************)
(* Delivery for any number of shifts, documents and Zs: type correctness,  *)
(* the safety invariants that follow from IInv, what a closed shift keeps, *)
(* and that the delivery implements FiscalRecord.                          *)
(***************************************************************************)
EXTENDS Delivery, FiniteSetTheorems, WellFoundedInduction, TLAPS

\* Rows are of final documents and of shifts, those of the running flush too.
RowsSound ==
    \A r \in rows \cup todo :
        IF r[1] = "doc" THEN r[2] \in Docs /\ doc[r[2]] \in Final
        ELSE r[2] \in Shifts

\* Only final documents are named: by a close, by a request on its way or
\* given up, by the answer that asks for them again.
NamedIsFinal ==
    /\ \A s \in Shifts : \A d \in payload[s] : doc[d] \in Final
    /\ call # None => \A d \in call.docs : doc[d] \in Final
    /\ \A r \in stray : \A d \in r.docs : doc[d] \in Final
    /\ reply # None => \A d \in reply.no : doc[d] \in Final

\* An answer does not both take and refuse a document.
AnswerSplits == reply # None => reply.yes \cap reply.no = {}

\* A shift in a Z is closed; only a waiting or a carried document is in the
\* box of a Z; what no document is filed under is in no Z.
ZsAreClosed == \A s \in Shifts : zOf[s] # 0 => cloud[s] = "closed"
BoxedIsInBox == \A d \in Docs : boxZ[d] # 0 => place[d] \in {Bucket, Carry}

\* What the cloud holds was final on the device.
StoredIsFinal == \A d \in Docs : place[d] # None => doc[d] \in Final

\* The invariant in two halves, of the device and of the filing.
DeviceInv == DeviceOK /\ RowsSound /\ NamedIsFinal /\ AnswerSplits
FilingInv == FilingOK /\ ZsAreClosed /\ BoxedIsInBox /\ ZIsItsDocuments /\ StoredIsFinal

IInv == DeviceInv /\ FilingInv

-----------------------------------------------------------------------------
(* The next step of a flush.                                               *)

Less == OpToRel(<, Nat)

\* Less has no endless descent.
LEMMA LessWellFounded == IsWellFoundedOn(Less, Nat)
  BY NatLessThanWellFounded, Zenon DEF Less

\* A set of numbers that is not empty has a least one.
LEMMA LeastOf ==
    ASSUME NEW T \in SUBSET Nat, T # {}
    PROVE  \E x \in T : \A y \in T : x <= y
<1>1. \E x \in T : \A y \in T : ~(<<y, x>> \in Less)
  BY WFMin, LessWellFounded, Zenon
<1>2. \A x, y \in Nat : x < y => <<x, y>> \in Less
  BY Zenon DEF OpToRel, Less
<1>3. PICK x \in T : \A y \in T : ~(<<y, x>> \in Less)
  BY <1>1, Zenon
<1>4. \A y \in T : ~(y < x)
  BY <1>2, <1>3, Zenon
<1>5. \A y \in T : x <= y
  BY <1>4, SMT
<1> QED BY <1>5

\* Documents and shifts are numbers, and the marks are not.
LEMMA Marks ==
    /\ None \notin Shifts /\ Bucket \notin Shifts /\ Carry \notin Shifts
    /\ None # Bucket /\ None # Carry /\ Bucket # Carry
    /\ Shifts \subseteq Nat /\ Docs \subseteq Nat /\ Zs \subseteq Nat /\ 0 \notin Zs
    /\ None \notin Requests
  BY BoundsAssumption, NoneAssumption DEF Shifts, Docs, Zs

\* A set of documents is finite.
LEMMA DocsFinite == \A ds \in SUBSET Docs : Cardinality(ds) \in Nat
<1>1. IsFiniteSet(Docs)
  BY BoundsAssumption, FS_Interval DEF Docs
<1> QED BY <1>1, FS_Subset, FS_CardinalityType

\* The shift of a sound row.
LEMMA RowShift ==
    ASSUME DeviceOK, RowsSound, NEW r \in rows \cup todo
    PROVE  ShiftOf(r) \in Shifts
  BY Marks DEF DeviceOK, RowsSound, ShiftOf, Final

\* A flush with rows left has a next step, of a shift of one of them.
LEMMA StepShiftType ==
    ASSUME DeviceOK, RowsSound, todo # {}
    PROVE  StepShift \in Shifts
<1> DEFINE T == {ShiftOf(r) : r \in todo}
<1>1. T \subseteq Shifts /\ T # {}
  BY RowShift
<1>2. PICK s \in T : \A t \in T : s <= t
  BY <1>1, LeastOf, Marks
<1>3. s \in Shifts /\ (\E r \in todo : ShiftOf(r) = s) /\ (\A r \in todo : s <= ShiftOf(r))
  BY <1>1, <1>2
<1> QED BY <1>3 DEF StepShift

\* Its request is well formed and names final documents only.
LEMMA StepRequestSound ==
    ASSUME DeviceOK, RowsSound, NamedIsFinal, todo # {}
    PROVE  /\ StepRequest \in Requests
           /\ \A d \in StepRequest.docs : doc[d] \in Final
<1>1. StepShift \in Shifts /\ StepKind \in {"open", "doc", "close"}
  BY StepShiftType DEF StepKind
<1> DEFINE ds == IF StepKind = "close" THEN payload[StepShift]
                 ELSE {d \in Docs : <<"doc", d>> \in StepRows}
<1>2. ds \subseteq Docs
  BY <1>1 DEF DeviceOK
<1>3. \A d \in Docs : <<"doc", d>> \in todo => doc[d] \in Final
  BY DEF RowsSound
<1>4. \A d \in ds : doc[d] \in Final
  BY <1>1, <1>3 DEF NamedIsFinal, StepRows
<1> QED BY <1>1, <1>2, <1>4 DEF StepRequest, Requests

-----------------------------------------------------------------------------
(* What serving a request does to the filing.                              *)

\* Rule 2 names a shift of the till or the bucket, or leaves the document.
LEMMA TargetType ==
    ASSUME FilingOK, NEW d \in Docs, NEW s \in Shifts, NEW near \in BOOLEAN
    PROVE  \/ Target(d, s, near) \in Shifts \cup {Bucket}
           \/ place[d] # None /\ Target(d, s, near) = place[d]
<1> DEFINE cover == Covering(s, near)
           c == CHOOSE t \in cover : TRUE
<1>1. cover \subseteq Shifts
  BY BoundsAssumption DEF Covering, Shifts
<1>2. cover # {} => c \in Shifts
  BY <1>1
<1> QED BY <1>2 DEF Target

\* Filing keeps a document in its Z, or out of all of them.
LEMMA FiledSound ==
    ASSUME FilingOK, BoxedIsInBox, NEW d \in Docs, NEW s \in Shifts, NEW near \in BOOLEAN
    PROVE  LET t == Filed(d, s, near)
           IN  /\ t \in Shifts \cup {Bucket, Carry}
               /\ (IF t \in Shifts THEN zOf[t] ELSE boxZ[d]) = ZOf(d)
               /\ boxZ[d] # 0 => t \in {Bucket, Carry}
<1> DEFINE g == Target(d, s, near)
<1>1. /\ place[d] \in Shifts \cup {Bucket, Carry, None}
      /\ boxZ[d] # 0 => place[d] \in {Bucket, Carry}
  BY DEF FilingOK, BoxedIsInBox
<1>2. CASE Stays(d)
  <2>1. Filed(d, s, near) = place[d]
    BY <1>2 DEF Filed
  <2> QED BY <1>1, <1>2, <2>1, Marks DEF Stays, ZOf, FilingOK, BoxedIsInBox
<1>3. CASE ~Stays(d)
  <2>1. ZOf(d) = 0 /\ boxZ[d] = 0
    BY <1>1, <1>3, Marks DEF Stays, InZ, ZOf, FilingOK, BoxedIsInBox
  <2>2. Filed(d, s, near) = IF g \in Shifts /\ g # place[d] /\ zOf[g] # 0 THEN Carry ELSE g
    BY <1>3 DEF Filed
  <2>3. CASE g = place[d]
    BY <1>1, <2>1, <2>2, <2>3, TargetType, Marks DEF ZOf
  <2>4. CASE g # place[d]
    BY <2>1, <2>2, <2>4, TargetType, Marks
  <2> QED BY <2>3, <2>4
<1> QED BY <1>2, <1>3

\* A shift that is not closed is in no Z, and what waits for it is in none.
LEMMA AdoptionSound ==
    ASSUME FilingOK, ZsAreClosed, NEW s \in Shifts, cloud[s] # "closed", NEW d \in Waiting(s)
    PROVE  zOf[s] = 0 /\ ZOf(d) = 0 /\ boxZ[d] = 0 /\ place[d] # None
  BY Marks DEF FilingOK, ZsAreClosed, Waiting, ZOf, DocsOf

\* Serving a request moves no document from Z to Z, stores what it names and
\* nothing else, and leaves a closed shift as it was.
Serving(ds) ==
    /\ UNCHANGED <<zOf, boxZ, zDocs>>
    /\ cloud' \in [Shifts -> {"none", "open", "closed"}]
    /\ counted' \in [Shifts -> Nat]
    /\ place' \in [Docs -> Shifts \cup {Bucket, Carry, None}]
    /\ refused' \in SUBSET Docs
    /\ \A s \in Shifts : cloud[s] = "closed" => cloud'[s] = "closed" /\ counted'[s] = counted[s]
    /\ \A d \in Docs :
          /\ (IF place'[d] \in Shifts THEN zOf[place'[d]] ELSE boxZ[d]) = ZOf(d)
          /\ boxZ[d] # 0 => place'[d] \in {Bucket, Carry}
          /\ place[d] # None => place'[d] # None
          /\ place'[d] # None => place[d] # None \/ d \in ds

\* A request that changes nothing is served soundly.
LEMMA ServeNothing ==
    ASSUME FilingOK, BoxedIsInBox, NEW ds, UNCHANGED filing
    PROVE  Serving(ds)
  BY DEF FilingOK, BoxedIsInBox, Serving, ZOf, filing

\* Each kind of request.
LEMMA ServeSound ==
    ASSUME FilingOK, ZsAreClosed, BoxedIsInBox,
           NEW r \in Requests, NEW rej \in Rejections(r), NEW near \in BOOLEAN,
           Serve(r, rej, near)
    PROVE  Serving(r.docs)
<1> DEFINE s == r.shift
<1>0. r.kind \in {"open", "doc", "close"} /\ s \in Shifts /\ r.docs \in SUBSET Docs /\ rej \in SUBSET r.docs
  BY DEF Requests, Rejections
<1>1. CASE r.kind = "open"
  <2>1. ServeOpen(s)
    BY <1>1 DEF Serve
  <2>2. CASE s \in Foreign \/ cloud[s] # "none" \/ OpenInCloud # {}
    BY <2>1, <2>2, ServeNothing DEF ServeOpen
  <2>3. CASE ~(s \in Foreign \/ cloud[s] # "none" \/ OpenInCloud # {})
    <3>1. /\ cloud' = [cloud EXCEPT ![s] = "open"]
          /\ place' = [d \in Docs |-> IF d \in Waiting(s) THEN s ELSE place[d]]
          /\ UNCHANGED <<counted, zOf, boxZ, zDocs, refused>>
      BY <2>1, <2>3 DEF ServeOpen
    <3> QED BY <1>0, <2>3, <3>1, AdoptionSound, Marks DEF Serving, FilingOK, BoxedIsInBox, ZOf
  <2> QED BY <2>2, <2>3
<1>2. CASE r.kind = "doc"
  <2> DEFINE acc == r.docs \ rej
             opens == acc # {} /\ s \notin Foreign /\ cloud[s] = "none" /\ OpenInCloud = {}
  <2>1. /\ cloud' = IF opens THEN [cloud EXCEPT ![s] = "open"] ELSE cloud
        /\ place' = [d \in Docs |-> IF d \in acc THEN Filed(d, s, near)
                                    ELSE IF opens /\ d \in Waiting(s) THEN s
                                    ELSE place[d]]
        /\ refused' = (refused \ acc) \cup rej
        /\ UNCHANGED <<counted, zOf, boxZ, zDocs>>
    BY <1>2 DEF Serve, ServeDocs
  <2>2. /\ cloud' \in [Shifts -> {"none", "open", "closed"}]
        /\ \A t \in Shifts : cloud[t] = "closed" => cloud'[t] = "closed"
    BY <1>0, <2>1 DEF FilingOK
  <2>3. ASSUME NEW d \in Docs
        PROVE  /\ place'[d] \in Shifts \cup {Bucket, Carry, None}
               /\ (IF place'[d] \in Shifts THEN zOf[place'[d]] ELSE boxZ[d]) = ZOf(d)
               /\ boxZ[d] # 0 => place'[d] \in {Bucket, Carry}
               /\ place[d] # None => place'[d] # None
               /\ place'[d] # None => place[d] # None \/ d \in r.docs
    <3>1. CASE d \in acc
      <4>1. place'[d] = Filed(d, s, near)
        BY <2>1, <3>1
      <4> HIDE DEF acc
      <4> QED BY <1>0, <3>1, <4>1, FiledSound, Marks DEF acc
    <3>2. CASE d \notin acc /\ opens /\ d \in Waiting(s)
      BY <1>0, <2>1, <3>2, AdoptionSound, Marks
    <3>3. CASE d \notin acc /\ ~(opens /\ d \in Waiting(s))
      <4>1. place'[d] = place[d]
        BY <2>1, <3>3
      <4> QED BY <4>1 DEF FilingOK, BoxedIsInBox, ZOf
    <3> QED BY <3>1, <3>2, <3>3
  <2>4. place' \in [Docs -> Shifts \cup {Bucket, Carry, None}]
    BY <2>1, <2>3
  <2>5. refused' \in SUBSET Docs /\ UNCHANGED counted
    BY <1>0, <2>1 DEF FilingOK
  <2> QED BY <2>1, <2>2, <2>3, <2>4, <2>5 DEF Serving, FilingOK
<1>3. CASE r.kind = "close"
  <2>1. ServeClose(s, r.docs)
    BY <1>3 DEF Serve
  <2>2. CASE s \in Foreign \/ MissingOrStale(s, r.docs) # {} \/ cloud[s] = "closed"
    BY <2>1, <2>2, ServeNothing DEF ServeClose
  <2>3. CASE ~(s \in Foreign \/ MissingOrStale(s, r.docs) # {} \/ cloud[s] = "closed")
    <3>1. /\ cloud' = [cloud EXCEPT ![s] = "closed"]
          /\ counted' = [counted EXCEPT ![s] = Cardinality(r.docs)]
          /\ place' = [d \in Docs |-> IF d \in Waiting(s) THEN s ELSE place[d]]
          /\ UNCHANGED <<zOf, boxZ, zDocs, refused>>
      BY <2>1, <2>3 DEF ServeClose
    <3>2. Cardinality(r.docs) \in Nat
      BY <1>0, DocsFinite
    <3> QED BY <1>0, <2>3, <3>1, <3>2, AdoptionSound, Marks DEF Serving, FilingOK, BoxedIsInBox, ZOf
  <2> QED BY <2>2, <2>3
<1> QED BY <1>0, <1>1, <1>2, <1>3

-----------------------------------------------------------------------------
(* The invariant.                                                          *)

\* The answer of a request: well formed, and it asks only for its documents.
LEMMA ReplySound ==
    ASSUME NEW r \in Requests, NEW rej \in Rejections(r)
    PROVE  /\ ReplyTo(r, rej) \in [is : {"ok", "busy", "missing", "foreign", "invalid", "error"},
                                   yes : SUBSET Docs, no : SUBSET Docs]
           /\ ReplyTo(r, rej).no \subseteq r.docs
           /\ ReplyTo(r, rej).yes \cap ReplyTo(r, rej).no = {}
<1>1. r.kind \in {"open", "doc", "close"} /\ r.docs \in SUBSET Docs /\ rej \in SUBSET r.docs
  BY DEF Requests, Rejections
<1>2. MissingOrStale(r.shift, r.docs) \in SUBSET r.docs
  BY DEF MissingOrStale
<1>3. CASE r.kind = "open"
  BY <1>3 DEF ReplyTo, OpenReply, Said, Reply
<1>4. CASE r.kind = "doc"
  BY <1>1, <1>4 DEF ReplyTo, Reply
<1>5. CASE r.kind = "close"
  BY <1>1, <1>2, <1>5 DEF ReplyTo, CloseReply, Said, Reply
<1> QED BY <1>1, <1>3, <1>4, <1>5

\* What is final stays final.
FinalStays == \A d \in Docs : doc[d] \in Final => doc'[d] \in Final

\* The filing's half outlives a step of the device, ...
LEMMA FilingIdle ==
    ASSUME FilingInv, UNCHANGED filing, FinalStays
    PROVE  FilingInv'
<1>1. FilingOK' /\ ZsAreClosed' /\ BoxedIsInBox'
  BY DEF FilingInv, FilingOK, ZsAreClosed, BoxedIsInBox, filing
<1>2. ZIsItsDocuments'
  BY DEF FilingInv, ZIsItsDocuments, ZOf, filing
<1>3. StoredIsFinal'
  BY DEF FilingInv, StoredIsFinal, FinalStays, filing
<1> QED BY <1>1, <1>2, <1>3 DEF FilingInv

\* ... and a request served.
LEMMA FilingServed ==
    ASSUME FilingInv, NEW ds \in SUBSET Docs, Serving(ds),
           \A d \in ds : doc[d] \in Final, doc' = doc
    PROVE  FilingInv'
<1>1. FilingOK' /\ ZsAreClosed' /\ BoxedIsInBox'
  BY DEF FilingInv, FilingOK, ZsAreClosed, BoxedIsInBox, Serving
<1>2. ZIsItsDocuments'
  <2>1. \A d \in Docs : (IF place'[d] \in Shifts THEN zOf'[place'[d]] ELSE boxZ'[d]) = ZOf(d)
    BY DEF Serving
  <2> QED BY <2>1 DEF FilingInv, ZIsItsDocuments, Serving, ZOf
<1>3. StoredIsFinal'
  BY DEF FilingInv, StoredIsFinal, Serving
<1> QED BY <1>1, <1>2, <1>3 DEF FilingInv

\* A Z takes exactly what it reports.
LEMMA FilingZ ==
    ASSUME FilingInv, NEW s \in Shifts, NEW z \in Zs, TakeZ(s, z)
    PROVE  FilingInv'
<1>1. /\ zDocs[z] = {}
      /\ \A t \in Included(s) : cloud[t] = "closed"
      /\ zDocs' = [zDocs EXCEPT ![z] = Taken(s)]
      /\ zOf' = [t \in Shifts |-> IF t \in Included(s) THEN z ELSE zOf[t]]
      /\ boxZ' = [d \in Docs |-> IF d \in Boxed THEN z ELSE boxZ[d]]
      /\ UNCHANGED <<doc, cloud, counted, place, refused>>
  BY DEF TakeZ, disk
<1>2. Taken(s) \in SUBSET Docs /\ (\A t \in Included(s) : zOf[t] = 0)
  BY DEF Taken, Boxed, Included
<1>2a. Included(s) \subseteq Shifts
  BY BoundsAssumption DEF Included, Shifts
<1>3. FilingOK'
  BY <1>1, <1>2 DEF FilingInv, FilingOK
<1>4. ZsAreClosed' /\ BoxedIsInBox' /\ StoredIsFinal'
  BY <1>1 DEF FilingInv, ZsAreClosed, BoxedIsInBox, StoredIsFinal, Boxed
<1>5. ASSUME NEW y \in Zs, NEW d \in Docs
      PROVE  d \in zDocs'[y] <=> ZOf(d)' = y
  <2>1. d \in zDocs[y] <=> ZOf(d) = y
    BY DEF FilingInv, ZIsItsDocuments
  <2>2. ZOf(d) # z
    BY <1>1 DEF FilingInv, ZIsItsDocuments
  <2>3. ZOf(d)' = IF place[d] \in Shifts THEN zOf'[place[d]] ELSE boxZ'[d]
    BY <1>1 DEF ZOf
  <2>4. d \in Taken(s) => ZOf(d) = 0 /\ ZOf(d)' = z
    <3>1. CASE d \in Boxed
      BY <1>1, <2>3, <3>1, Marks DEF Boxed, ZOf
    <3>2. CASE place[d] \in Included(s)
      BY <1>1, <1>2, <1>2a, <2>3, <3>2 DEF ZOf
    <3> QED BY <3>1, <3>2 DEF Taken
  <2>5. d \notin Taken(s) => ZOf(d)' = ZOf(d)
    BY <1>1, <2>3 DEF Taken, ZOf
  <2>6. zDocs'[y] = IF y = z THEN Taken(s) ELSE zDocs[y]
    BY <1>1 DEF FilingInv, FilingOK
  <2> QED BY <2>1, <2>2, <2>4, <2>5, <2>6, Marks
<1>6. ZIsItsDocuments'
  BY <1>3, <1>5 DEF FilingOK, ZIsItsDocuments
<1> QED BY <1>3, <1>4, <1>6 DEF FilingInv

\* A sound row: of a final document, or of a shift.
SoundRow(r) ==
    /\ r \in Rows
    /\ IF r[1] = "doc" THEN r[2] \in Docs /\ doc[r[2]] \in Final ELSE r[2] \in Shifts

\* Rows of final documents are sound.
LEMMA DocRowsSound ==
    ASSUME NEW ds \in SUBSET Docs, \A d \in ds : doc[d] \in Final
    PROVE  \A r \in DocRows(ds) : SoundRow(r)
  BY DEF DocRows, SoundRow, Rows

\* The device's half outlives the end of a step of the flush that keeps or adds
\* sound rows only.
LEMMA FlushEnds ==
    ASSUME DeviceInv, Proceed \/ StopFlush,
           UNCHANGED <<doc, docShift, payload>>, stray' \in SUBSET (stray \cup {StepRequest}),
           todo # {} \/ stray' \subseteq stray,
           shift' \in [Shifts -> {"none", "open", "closing", "closed", "retired"}],
           \A r \in rows' : r \in rows \/ SoundRow(r),
           parked' \subseteq rows'
    PROVE  DeviceInv'
<1>1. todo' \subseteq todo /\ call' = None /\ reply' = None
  BY DEF Proceed, StopFlush
<1>2. \A r \in stray' : r \in Requests /\ \A d \in r.docs : doc[d] \in Final
  <2>1. todo # {} => StepRequest \in Requests /\ \A d \in StepRequest.docs : doc[d] \in Final
    BY StepRequestSound DEF DeviceInv
  <2> QED BY <2>1 DEF DeviceInv, DeviceOK, NamedIsFinal
<1>3. DeviceOK'
  BY <1>1, <1>2 DEF DeviceInv, DeviceOK, SoundRow
<1>4. RowsSound'
  BY <1>1 DEF DeviceInv, RowsSound, SoundRow
<1>5. NamedIsFinal' /\ AnswerSplits'
  BY <1>1, <1>2 DEF DeviceInv, NamedIsFinal, AnswerSplits
<1> QED BY <1>3, <1>4, <1>5 DEF DeviceInv

\* A step of the ledger keeps rows, payloads and what is on its way sound, and
\* what is final final.
LEMMA LedgerStep ==
    ASSUME DeviceInv,
           \/ OpenShift
           \/ \E status \in {"pending", "completed"} : InsertSale(status)
           \/ \E d \in Docs, status \in Final : SettleSale(d, status)
           \/ CloseShift
    PROVE  DeviceInv' /\ FinalStays /\ UNCHANGED filing
<1> USE DEF DeviceInv, AnswerSplits
<1>1. CASE OpenShift
  <2>1. PICK s \in Shifts : shift' = [shift EXCEPT ![s] = "open"] /\ rows' = rows \cup {<<"open", s>>}
    BY <1>1 DEF OpenShift
  <2>2. UNCHANGED <<doc, docShift, payload, parked, todo, call, reply, stray, filing>>
    BY <1>1 DEF OpenShift, flush
  <2>3. DeviceOK'
    BY <2>1, <2>2 DEF DeviceOK, Rows
  <2>4. RowsSound' /\ NamedIsFinal' /\ FinalStays
    BY <2>1, <2>2 DEF RowsSound, NamedIsFinal, FinalStays
  <2> QED BY <2>2, <2>3, <2>4
<1>2. ASSUME NEW status \in {"pending", "completed"}, InsertSale(status)
      PROVE  DeviceInv' /\ FinalStays /\ UNCHANGED filing
  <2>1. PICK s \in OpenShifts, d \in Docs :
          /\ doc[d] = "none"
          /\ doc' = [doc EXCEPT ![d] = status]
          /\ docShift' = [docShift EXCEPT ![d] = s]
          /\ rows' = IF status = "completed" THEN rows \cup {<<"doc", d>>} ELSE rows
    BY <1>2 DEF InsertSale
  <2>2. UNCHANGED <<shift, payload, parked, todo, call, reply, stray, filing>>
    BY <1>2 DEF InsertSale, flush
  <2>3. DeviceOK'
    BY <2>1, <2>2, Marks DEF DeviceOK, Rows, OpenShifts
  <2>4. FinalStays
    BY <2>1 DEF DeviceOK, FinalStays, Final
  <2>5. RowsSound'
    BY <2>1, <2>2, <2>4 DEF DeviceOK, RowsSound, FinalStays, Final
  <2>6. NamedIsFinal'
    BY <2>2, <2>4 DEF DeviceOK, NamedIsFinal, FinalStays, Requests
  <2> QED BY <2>2, <2>3, <2>4, <2>5, <2>6
<1>3. ASSUME NEW d \in Docs, NEW status \in Final, SettleSale(d, status)
      PROVE  DeviceInv' /\ FinalStays /\ UNCHANGED filing
  <2>1. /\ doc[d] = "pending"
        /\ doc' = [doc EXCEPT ![d] = status]
        /\ rows' = rows \cup {<<"doc", d>>}
        /\ UNCHANGED <<shift, docShift, payload, parked, todo, call, reply, stray, filing>>
    BY <1>3 DEF SettleSale, flush
  <2>2. DeviceOK'
    BY <2>1 DEF DeviceOK, Rows, Final
  <2>3. FinalStays
    BY <2>1 DEF DeviceOK, FinalStays, Final
  <2>4. RowsSound'
    BY <2>1, <2>3 DEF DeviceOK, RowsSound, FinalStays
  <2>5. NamedIsFinal'
    BY <2>1, <2>3 DEF DeviceOK, NamedIsFinal, FinalStays, Requests
  <2> QED BY <2>1, <2>2, <2>3, <2>4, <2>5
<1>4. CASE CloseShift
  <2>1. PICK s \in OpenShifts :
          /\ shift' = [shift EXCEPT ![s] = "closing"]
          /\ payload' = [payload EXCEPT ![s] = {d \in DocsOf(s) : doc[d] = "completed"}]
          /\ rows' = rows \cup {<<"close", s>>}
    BY <1>4 DEF CloseShift
  <2>2. UNCHANGED <<doc, docShift, parked, todo, call, reply, stray, filing>>
    BY <1>4 DEF CloseShift, flush
  <2>3. DeviceOK'
    BY <2>1, <2>2 DEF DeviceOK, Rows, OpenShifts, DocsOf
  <2>4. RowsSound' /\ FinalStays
    BY <2>1, <2>2 DEF RowsSound, FinalStays, OpenShifts
  <2>5. NamedIsFinal'
    BY <2>1, <2>2 DEF DeviceOK, NamedIsFinal, OpenShifts, DocsOf, Final
  <2> QED BY <2>2, <2>3, <2>4, <2>5
<1> QED BY <1>1, <1>2, <1>3, <1>4

\* The start of a flush and its request.
LEMMA RequestStep ==
    ASSUME DeviceInv,
           \/ StartFlush
           \/ \E rej \in SUBSET Docs : Exchange(rej)
           \/ ExchangeError
           \/ ServeStray
    PROVE  DeviceInv' /\ UNCHANGED doc
<1> USE DEF DeviceInv
<1>1. CASE StartFlush
  <2>1. /\ parked' \subseteq parked
        /\ todo' \subseteq rows
        /\ UNCHANGED <<shift, doc, docShift, payload, rows, call, reply, stray>>
    BY <1>1 DEF StartFlush, DeviceOK
  <2> QED BY <2>1 DEF DeviceOK, RowsSound, NamedIsFinal, AnswerSplits
<1>2. ASSUME NEW rej \in SUBSET Docs, Exchange(rej)
      PROVE  DeviceInv' /\ UNCHANGED doc
  <2>1. /\ todo # {} /\ rej \in Rejections(StepRequest)
        /\ call' = StepRequest /\ reply' = ReplyTo(StepRequest, rej)
        /\ UNCHANGED <<shift, doc, docShift, payload, rows, parked, todo, stray>>
    BY <1>2 DEF Exchange, Send, disk
  <2>2. StepRequest \in Requests /\ \A d \in StepRequest.docs : doc[d] \in Final
    BY <2>1, StepRequestSound
  <2>3. /\ ReplyTo(StepRequest, rej) \in [is : {"ok", "busy", "missing", "foreign", "invalid", "error"},
                                          yes : SUBSET Docs, no : SUBSET Docs]
        /\ ReplyTo(StepRequest, rej).no \subseteq StepRequest.docs
        /\ ReplyTo(StepRequest, rej).yes \cap ReplyTo(StepRequest, rej).no = {}
    BY <2>1, <2>2, ReplySound
  <2> QED BY <2>1, <2>2, <2>3 DEF DeviceOK, RowsSound, NamedIsFinal, AnswerSplits
<1>3. CASE ExchangeError
  <2>1. /\ todo # {} /\ call' = StepRequest
        /\ reply' \in {Said("error"), Said("invalid")}
        /\ UNCHANGED <<shift, doc, docShift, payload, rows, parked, todo, stray>>
    BY <1>3 DEF ExchangeError, Send, disk
  <2>2. StepRequest \in Requests /\ \A d \in StepRequest.docs : doc[d] \in Final
    BY <2>1, StepRequestSound
  <2> QED BY <2>1, <2>2 DEF DeviceOK, RowsSound, NamedIsFinal, AnswerSplits, Said, Reply
<1>4. CASE ServeStray
  <2>1. stray' \subseteq stray /\ UNCHANGED <<shift, doc, docShift, payload, rows, parked, todo, call, reply>>
    BY <1>4 DEF ServeStray, disk, flush
  <2> QED BY <2>1 DEF DeviceOK, RowsSound, NamedIsFinal, AnswerSplits
<1> QED BY <1>1, <1>2, <1>3, <1>4

\* What a handler does to the rows: some go, some sound ones are added.
LEMMA HandlerRows ==
    ASSUME DeviceInv, NEW gone,
           \/ Drop(gone)
           \/ Park(gone)
           \/ UNCHANGED <<rows, parked>>
    PROVE  parked' \subseteq rows' /\ rows' \subseteq rows
  BY DEF DeviceInv, DeviceOK, Drop, Park

\* The handling of an answer, and what cuts a flush short.
LEMMA AnswerStep ==
    ASSUME DeviceInv,
           \/ OnOpened
           \/ OnDocs
           \/ OnClosed
           \/ Unserved
           \/ AnswerLost
           \/ CrashAmid
    PROVE  DeviceInv' /\ UNCHANGED <<doc, filing>>
<1> USE DEF DeviceInv
<1>1. CASE OnOpened
  <2>1. /\ call \in Requests
        /\ \/ Drop(StepRows) /\ UNCHANGED shift
           \/ Drop(StepRows) /\ Retire(call.shift)
           \/ UNCHANGED <<shift, rows, parked>>
           \/ Park(StepRows) /\ UNCHANGED shift
        /\ Proceed \/ StopFlush
        /\ UNCHANGED <<doc, docShift, payload, stray, filing>>
    BY <1>1 DEF OnOpened, DeviceOK
  <2>2. shift' \in [Shifts -> {"none", "open", "closing", "closed", "retired"}]
    BY <2>1 DEF Retire, DeviceOK, Requests
  <2>3. parked' \subseteq rows' /\ rows' \subseteq rows
    BY <2>1, HandlerRows
  <2> QED BY <2>1, <2>2, <2>3, FlushEnds
<1>2. CASE OnDocs
  <2>1. /\ Proceed \/ StopFlush
        /\ UNCHANGED <<shift, doc, docShift, payload, stray, filing>>
    BY <1>2 DEF OnDocs
  <2>2. parked' \subseteq rows' /\ rows' \subseteq rows
    <3>1. CASE rows' = rows \ DocRows(reply.yes)
               /\ parked' = (parked \ DocRows(reply.yes)) \cup (DocRows(reply.no) \cap rows)
      <4>1. DocRows(reply.yes) \cap DocRows(reply.no) = {}
        BY <1>2 DEF OnDocs, AnswerSplits, DocRows
      <4> QED BY <3>1, <4>1 DEF DeviceOK
    <3>2. CASE Park(DocRows(call.docs)) \/ UNCHANGED <<rows, parked>>
      BY <3>2, HandlerRows
    <3> QED BY <1>2, <3>1, <3>2 DEF OnDocs
  <2> QED BY <2>1, <2>2, FlushEnds DEF DeviceOK
<1>3. CASE OnClosed
  <2>1. /\ call \in Requests /\ reply # None
        /\ \/ Drop(StepRows) /\ shift' = [shift EXCEPT ![call.shift] = "closed"]
           \/ Drop(StepRows) /\ Retire(call.shift)
           \/ rows' = rows \cup DocRows(reply.no) /\ UNCHANGED <<shift, parked>>
           \/ Park(StepRows) /\ UNCHANGED shift
        /\ Proceed \/ StopFlush
        /\ UNCHANGED <<doc, docShift, payload, stray, filing>>
    BY <1>3 DEF OnClosed, DeviceOK
  <2>2. shift' \in [Shifts -> {"none", "open", "closing", "closed", "retired"}]
    BY <2>1 DEF Retire, DeviceOK, Requests
  <2>3. \A r \in DocRows(reply.no) : SoundRow(r)
    BY <2>1, DocRowsSound DEF DeviceOK, NamedIsFinal
  <2>4. parked' \subseteq rows' /\ (\A r \in rows' : r \in rows \/ SoundRow(r))
    BY <2>1, <2>3, HandlerRows DEF DeviceOK
  <2> QED BY <2>1, <2>2, <2>4, FlushEnds
<1>4. CASE Unserved
  <2>1. /\ todo # {} /\ stray' \in SUBSET (stray \cup {StepRequest})
        /\ StopFlush
        /\ UNCHANGED <<shift, doc, docShift, payload, rows, parked, filing>>
    BY <1>4 DEF Unserved, disk
  <2> QED BY <2>1, FlushEnds DEF DeviceOK
<1>5. CASE AnswerLost
  <2>1. StopFlush /\ UNCHANGED <<shift, doc, docShift, payload, rows, parked, stray, filing>>
    BY <1>5 DEF AnswerLost, disk
  <2> QED BY <2>1, FlushEnds DEF DeviceOK
<1>6. CASE CrashAmid
  <2>1. /\ call \in Requests /\ reply # None
        /\ \/ (\E done \in SUBSET reply.yes : Drop(DocRows(done))) /\ UNCHANGED shift
           \/ shift' = [shift EXCEPT ![call.shift] = "closed"] /\ UNCHANGED <<rows, parked>>
           \/ Retire(call.shift) /\ UNCHANGED <<rows, parked>>
           \/ (\E done \in SUBSET reply.no : rows' = rows \cup DocRows(done)) /\ UNCHANGED <<shift, parked>>
        /\ StopFlush
        /\ UNCHANGED <<doc, docShift, payload, stray, filing>>
    BY <1>6 DEF CrashAmid, DeviceOK
  <2>2. shift' \in [Shifts -> {"none", "open", "closing", "closed", "retired"}]
    BY <2>1 DEF Retire, DeviceOK, Requests
  <2>3. \A done \in SUBSET reply.no : \A r \in DocRows(done) : SoundRow(r)
    BY <2>1, DocRowsSound DEF DeviceOK, NamedIsFinal
  <2>4. parked' \subseteq rows' /\ (\A r \in rows' : r \in rows \/ SoundRow(r))
    BY <2>1, <2>3, HandlerRows DEF DeviceOK
  <2> QED BY <2>1, <2>2, <2>4, FlushEnds
<1> QED BY <1>1, <1>2, <1>3, <1>4, <1>5, <1>6

\* IInv holds at first, ...
LEMMA IInvInit == Init => IInv
<1> SUFFICES ASSUME Init PROVE IInv
  OBVIOUS
<1> USE Marks DEF Init
<1>1. DeviceInv
  BY DEF DeviceInv, DeviceOK, RowsSound, NamedIsFinal, AnswerSplits
<1>2. FilingOK /\ ZsAreClosed /\ BoxedIsInBox /\ StoredIsFinal
  BY DEF FilingOK, ZsAreClosed, BoxedIsInBox, StoredIsFinal
<1>3. ZIsItsDocuments
  BY DEF ZIsItsDocuments, ZOf
<1> QED BY <1>1, <1>2, <1>3 DEF IInv, FilingInv

\* An exchange and a request that nobody waits for are served the same way.
LEMMA ServedStep ==
    ASSUME IInv, (\E rej \in SUBSET Docs : Exchange(rej)) \/ ServeStray
    PROVE  \E ds \in SUBSET Docs : Serving(ds) /\ \A d \in ds : doc[d] \in Final
<1> USE DEF IInv, DeviceInv, FilingInv
<1>1. ASSUME NEW rej \in SUBSET Docs, Exchange(rej)
      PROVE  \E ds \in SUBSET Docs : Serving(ds) /\ \A d \in ds : doc[d] \in Final
  <2>1. StepRequest \in Requests /\ \A d \in StepRequest.docs : doc[d] \in Final
    BY <1>1, StepRequestSound DEF Exchange, Send
  <2>2. PICK near \in BOOLEAN : Serve(StepRequest, rej, near)
    BY <1>1 DEF Exchange
  <2>3. rej \in Rejections(StepRequest)
    BY <1>1 DEF Exchange
  <2>4. Serving(StepRequest.docs)
    BY <2>1, <2>2, <2>3, ServeSound
  <2> QED BY <2>1, <2>4 DEF Requests
<1>2. CASE ServeStray
  <2>1. PICK r \in stray : \E rej \in Rejections(r), near \in BOOLEAN : Serve(r, rej, near)
    BY <1>2 DEF ServeStray
  <2>2. PICK rej \in Rejections(r), near \in BOOLEAN : Serve(r, rej, near)
    BY <2>1
  <2>3. r \in Requests /\ \A d \in r.docs : doc[d] \in Final
    BY DEF DeviceOK, NamedIsFinal
  <2>4. Serving(r.docs)
    BY <2>2, <2>3, ServeSound
  <2> QED BY <2>3, <2>4 DEF Requests
<1> QED BY <1>1, <1>2

\* The groups of steps: what each leaves alone.
LEMMA StepGroups ==
    ASSUME IInv, Next
    PROVE  \/ DeviceInv' /\ FinalStays /\ UNCHANGED filing
           \/ /\ DeviceInv' /\ UNCHANGED doc
              /\ \E ds \in SUBSET Docs : Serving(ds) /\ \A d \in ds : doc[d] \in Final
           \/ /\ DeviceInv' /\ UNCHANGED doc
              /\ \E s \in Shifts, z \in Zs : TakeZ(s, z)
<1>1. CASE \/ OpenShift
           \/ \E status \in {"pending", "completed"} : InsertSale(status)
           \/ \E d \in Docs, status \in Final : SettleSale(d, status)
           \/ CloseShift
  BY <1>1, LedgerStep DEF IInv
<1>2. CASE StartFlush \/ ExchangeError
  <2>1. UNCHANGED filing
    BY <1>2 DEF StartFlush, ExchangeError
  <2> QED BY <1>2, <2>1, RequestStep DEF IInv, FinalStays
<1>3. CASE (\E rej \in SUBSET Docs : Exchange(rej)) \/ ServeStray
  BY <1>3, RequestStep, ServedStep DEF IInv
<1>4. CASE OnOpened \/ OnDocs \/ OnClosed \/ Unserved \/ AnswerLost \/ CrashAmid
  BY <1>4, AnswerStep DEF IInv, FinalStays
<1>5. CASE \E s \in Shifts, z \in Zs : TakeZ(s, z)
  <2>1. UNCHANGED <<shift, doc, docShift, payload, rows, parked, todo, call, reply, stray>>
    BY <1>5 DEF TakeZ, disk, flush
  <2>2. DeviceInv'
    BY <2>1 DEF IInv, DeviceInv, DeviceOK, RowsSound, NamedIsFinal, AnswerSplits
  <2> QED BY <1>5, <2>1, <2>2
<1> QED BY <1>1, <1>2, <1>3, <1>4, <1>5 DEF Next

\* A stutter leaves everything alone.
LEMMA IInvStutter == IInv /\ UNCHANGED vars => IInv' /\ UNCHANGED <<doc, filing>>
<1> SUFFICES ASSUME IInv, UNCHANGED vars PROVE IInv' /\ UNCHANGED <<doc, filing>>
  OBVIOUS
<1>1. UNCHANGED <<shift, doc, docShift, payload, rows, parked, todo, call, reply, stray, filing>>
  BY DEF vars, disk, flush
<1>2. DeviceInv'
  BY <1>1 DEF IInv, DeviceInv, DeviceOK, RowsSound, NamedIsFinal, AnswerSplits
<1>3. FilingInv'
  BY <1>1, FilingIdle DEF IInv, FinalStays
<1> QED BY <1>1, <1>2, <1>3 DEF IInv

\* ... and after every step.
LEMMA IInvStep == IInv /\ [Next]_vars => IInv'
<1> SUFFICES ASSUME IInv, Next PROVE IInv'
  BY IInvStutter
<1>1. CASE DeviceInv' /\ FinalStays /\ UNCHANGED filing
  BY <1>1, FilingIdle DEF IInv
<1>2. CASE /\ DeviceInv' /\ UNCHANGED doc
           /\ \E ds \in SUBSET Docs : Serving(ds) /\ \A d \in ds : doc[d] \in Final
  BY <1>2, FilingServed DEF IInv
<1>3. CASE /\ DeviceInv' /\ UNCHANGED doc
           /\ \E s \in Shifts, z \in Zs : TakeZ(s, z)
  BY <1>3, FilingZ DEF IInv
<1> QED BY <1>1, <1>2, <1>3, StepGroups

\* IInv is an invariant of the delivery.
LEMMA Invariance == Spec => []IInv
  BY IInvInit, IInvStep, PTL DEF Spec

-----------------------------------------------------------------------------
(* The theorems.                                                           *)

\* Every variable keeps its type.
THEOREM TypeCorrect == Spec => []TypeOK
<1>1. IInv => TypeOK
  BY DEF IInv, DeviceInv, FilingInv, TypeOK
<1> QED BY <1>1, Invariance, PTL

\* A document in the outbox is final, also one queued again because a close
\* asked for it: doFlush never drops a row (syncEngine.ts:458).
THEOREM QueuedFinal == Spec => []QueuedIsFinal
<1>1. IInv => QueuedIsFinal
  BY DEF IInv, DeviceInv, RowsSound, QueuedIsFinal
<1> QED BY <1>1, Invariance, PTL

\* The figures of a Z are those of the documents filed in it, whatever arrives
\* late, twice or out of order (upsert_transactions, carry, build_z).
THEOREM ZExact == Spec => []ZIsItsDocuments
<1>1. IInv => ZIsItsDocuments
  BY DEF IInv, FilingInv
<1> QED BY <1>1, Invariance, PTL

\* A closed shift keeps its state and its count, and one in a Z stays in it
\* (report_shift_open, apply_shift_close, build_z).
THEOREM ClosedFinal == Spec => ClosedIsFinal
<1> DEFINE A == \A s \in Shifts :
                  /\ cloud[s] = "closed" => cloud'[s] = "closed" /\ counted'[s] = counted[s]
                  /\ zOf[s] # 0 => zOf'[s] = zOf[s]
<1>1. ASSUME IInv, [Next]_vars PROVE A
  <2>1. CASE UNCHANGED filing
    BY <2>1 DEF filing
  <2>2. CASE \E ds \in SUBSET Docs : Serving(ds)
    BY <2>2 DEF Serving
  <2>3. CASE \E s \in Shifts, z \in Zs : TakeZ(s, z)
    BY <2>3 DEF TakeZ, Included
  <2> QED BY <1>1, <2>1, <2>2, <2>3, IInvStutter, StepGroups
<1>2. IInv /\ [Next]_vars => [A]_vars
  BY <1>1
<1> HIDE DEF A
<1>3. Spec => [][A]_vars
  BY <1>2, Invariance, PTL DEF Spec
<1> QED BY <1>3 DEF ClosedIsFinal, A

-----------------------------------------------------------------------------
(* The delivery implements the record.                                     *)

Issued == {d \in Docs : doc[d] \in Final}
Stored == {d \in Docs : place[d] # None}

\* A step of the ledger issues one document or none.
LEMMA IssueStep ==
    ASSUME DeviceInv,
           \/ OpenShift
           \/ \E status \in {"pending", "completed"} : InsertSale(status)
           \/ \E d \in Docs, status \in Final : SettleSale(d, status)
           \/ CloseShift
    PROVE  \/ Issued' = Issued
           \/ \E d \in Docs : d \notin Issued /\ Issued' = Issued \cup {d}
<1>1. CASE OpenShift \/ CloseShift
  <2>1. UNCHANGED doc
    BY <1>1 DEF OpenShift, CloseShift
  <2> QED BY <2>1 DEF Issued
<1>2. ASSUME NEW status \in {"pending", "completed"}, InsertSale(status)
      PROVE  Issued' = Issued \/ \E d \in Docs : d \notin Issued /\ Issued' = Issued \cup {d}
  <2>1. PICK d \in Docs : doc[d] = "none" /\ doc' = [doc EXCEPT ![d] = status]
    BY <1>2 DEF InsertSale
  <2>2. d \notin Issued
    BY <2>1 DEF Issued, Final
  <2>3. CASE status = "pending"
    BY <2>1, <2>2, <2>3 DEF DeviceInv, DeviceOK, Issued, Final
  <2>4. CASE status = "completed"
    <3>1. Issued' = Issued \cup {d}
      BY <2>1, <2>4 DEF DeviceInv, DeviceOK, Issued, Final
    <3> QED BY <2>2, <3>1
  <2> QED BY <2>3, <2>4
<1>3. ASSUME NEW d \in Docs, NEW status \in Final, SettleSale(d, status)
      PROVE  d \notin Issued /\ Issued' = Issued \cup {d}
  BY <1>3 DEF SettleSale, DeviceInv, DeviceOK, Issued, Final
<1> QED BY <1>1, <1>2, <1>3

\* Nothing is issued, stored or reported at first.
LEMMA RecordInit == Init => Record!Init
<1> SUFFICES ASSUME Init PROVE Record!Init
  OBVIOUS
<1>1. Issued = {} /\ Stored = {}
  BY DEF Init, Issued, Stored, Final
<1> QED BY <1>1 DEF Init, Record!Init, Issued, Stored

\* The ledger issues, a request served stores, TakeZ builds; every other step
\* is a stutter of the record.
LEMMA RecordStep == IInv /\ [Next]_vars => [Record!Next]_Record!vars
<1> SUFFICES ASSUME IInv, [Next]_vars
             PROVE  Record!Next \/ UNCHANGED Record!vars
  OBVIOUS
<1> USE DEF Issued, Stored
<1>1. CASE Issued' = Issued /\ UNCHANGED filing
  BY <1>1 DEF filing, Record!vars
<1>2. CASE /\ \E d \in Docs : d \notin Issued /\ Issued' = Issued \cup {d}
           /\ UNCHANGED filing
  <2>1. PICK d \in Docs : d \notin Issued /\ Issued' = Issued \cup {d}
    BY <1>2
  <2>2. Stored' = Stored /\ zDocs' = zDocs
    BY <1>2 DEF filing
  <2>3. Record!Issue(d)
    BY <2>1, <2>2 DEF Record!Issue
  <2> QED BY <2>3 DEF Record!Next
<1>3. CASE /\ UNCHANGED doc
           /\ \E ds \in SUBSET Docs : Serving(ds) /\ \A d \in ds : doc[d] \in Final
  <2>1. PICK ds \in SUBSET Docs : Serving(ds) /\ \A d \in ds : doc[d] \in Final
    BY <1>3
  <2>2. PICK new \in SUBSET Docs :
          /\ new \subseteq Issued \ Stored
          /\ Stored' = Stored \cup new
          /\ Issued' = Issued /\ zDocs' = zDocs
    <3>1. Stored' \ Stored \in SUBSET Docs /\ Stored' \ Stored \subseteq Issued \ Stored
      BY <2>1 DEF Serving
    <3>2. /\ Stored' = Stored \cup (Stored' \ Stored)
          /\ Issued' = Issued /\ zDocs' = zDocs
      BY <1>3, <2>1 DEF Serving
    <3> HIDE DEF Issued, Stored
    <3> QED BY <3>1, <3>2
  <2>3. CASE new = {}
    BY <2>2, <2>3 DEF Record!vars
  <2>4. CASE new # {}
    <3>1. Record!Store(new)
      BY <2>2, <2>4 DEF Record!Store
    <3> QED BY <3>1 DEF Record!Next
  <2> QED BY <2>3, <2>4
<1>4. CASE /\ UNCHANGED doc
           /\ \E s \in Shifts, z \in Zs : TakeZ(s, z)
  <2>1. PICK s \in Shifts, z \in Zs : TakeZ(s, z)
    BY <1>4
  <2>2. /\ Taken(s) # {} /\ zDocs[z] = {}
        /\ \A y \in 1..(z - 1) : zDocs[y] # {}
        /\ zDocs' = [zDocs EXCEPT ![z] = Taken(s)]
        /\ Issued' = Issued /\ Stored' = Stored
    BY <1>4, <2>1 DEF TakeZ
  <2>3. Taken(s) \in SUBSET Docs /\ Taken(s) \subseteq Stored
    BY Marks, BoundsAssumption DEF Taken, Boxed, Included, Shifts
  <2>4. \A y \in Zs, d \in Taken(s) : d \notin zDocs[y]
    <3>1. \A d \in Boxed : ZOf(d) = 0
      BY Marks DEF Boxed, ZOf
    <3>2. \A d \in Docs : place[d] \in Included(s) => ZOf(d) = 0
      BY BoundsAssumption DEF Included, Shifts, ZOf
    <3> QED BY <3>1, <3>2, Marks DEF Taken, Boxed, IInv, FilingInv, ZIsItsDocuments
  <2>5. \A y \in Zs : y < z => zDocs[y] # {}
    BY <2>2, BoundsAssumption DEF Zs
  <2>6. Record!Build(z, Taken(s))
    BY <2>2, <2>3, <2>4, <2>5 DEF Record!Build, Record!Reported
  <2> QED BY <2>3, <2>6 DEF Record!Next
<1>5. CASE UNCHANGED vars
  BY <1>1, <1>5, IInvStutter
<1>6. CASE Next
  <2>1. CASE \/ OpenShift
             \/ \E status \in {"pending", "completed"} : InsertSale(status)
             \/ \E d \in Docs, status \in Final : SettleSale(d, status)
             \/ CloseShift
    BY <1>1, <1>2, <2>1, IssueStep, LedgerStep DEF IInv
  <2>2. CASE StartFlush \/ ExchangeError
    <3>1. UNCHANGED <<doc, filing>>
      BY <2>2, RequestStep DEF StartFlush, ExchangeError, IInv
    <3> QED BY <1>1, <3>1
  <2>3. CASE (\E rej \in SUBSET Docs : Exchange(rej)) \/ ServeStray
    BY <1>3, <2>3, RequestStep, ServedStep DEF IInv
  <2>4. CASE OnOpened \/ OnDocs \/ OnClosed \/ Unserved \/ AnswerLost \/ CrashAmid
    BY <1>1, <2>4, AnswerStep DEF IInv
  <2>5. CASE \E s \in Shifts, z \in Zs : TakeZ(s, z)
    <3>1. UNCHANGED doc
      BY <2>5 DEF TakeZ, disk
    <3> QED BY <1>4, <2>5, <3>1
  <2> QED BY <1>6, <2>1, <2>2, <2>3, <2>4, <2>5 DEF Next
<1> QED BY <1>5, <1>6

\* Every run of the device, the network and the cloud is a run of the record: a
\* document that was issued is stored once and reported in one Z, the next one.
THEOREM Implements == Spec => RecordKept
<1>1. Spec => Record!Init /\ [][Record!Next]_Record!vars
  BY RecordInit, RecordStep, Invariance, PTL DEF Spec
<1> QED BY <1>1 DEF RecordKept, Record!Spec

=============================================================================
