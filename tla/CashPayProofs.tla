--------------------------- MODULE CashPayProofs ---------------------------
(***************************************************************************)
(* A kiosk's payment at the cash station: for any kiosks, payments, prices *)
(* and coins, the document agrees with what the station and the card took. *)
(*                                                                         *)
(* The station's steps are CashStationProofs': whatever a kiosk does is a  *)
(* step of the station or leaves it alone.  What the kiosk has to know of  *)
(* such a step is Moves; what it keeps of its own is Payment.              *)
(***************************************************************************)
EXTENDS CashPay, CashStationProofs

-----------------------------------------------------------------------------
(* What the station keeps of the parts of a sale. *)

\* An open row was not acknowledged and counts no more than came in; a split was asked for
\* by a customer with money in, and one that ran out had a cash part.
Parted(r, in) ==
    /\ IsOpen(r) => ~r.acked /\ r.inserted <= in
    /\ IsOpen(r) /\ (r.splitAsked \/ r.state = "PARTIAL") => in > 0
    /\ r.heldReason = "split_timeout" => r.split > 0

\* The row a tick will write keeps the cash part of the one it is written over.
PartsKept ==
    Writes =>
        /\ Parted(tick.row, gave[tick.on]) /\ ~tick.row.acked
        /\ tx[tick.on].split > 0 => tick.row.split > 0
        /\ Final(tx[tick.on]) => tx[tick.on].split > 0

PartInv == PartsKept /\ \A p \in Txs : Parted(tx[p], gave[p])

-----------------------------------------------------------------------------
(* The inductive invariant of a payment. *)

Settled(p) == doc[p] \in {"completed", "cancelled"}

\* A payment the kiosk does nothing about any more.
Dead(p) == ~pending[p] /\ pc[p] \notin Live \cup {"apply"} /\ looked[p] = "no" /\ ask[p] = "none"

\* A payment not begun, and one not settled.
Begun(p) ==
    /\ doc[p] = "none" => /\ pc[p] \notin Live \cup {"apply"} /\ ~pending[p] /\ ~attempt[p] /\ decision[p] = "none"
                          /\ looked[p] = "no" /\ ask[p] = "none"
    /\ doc[p] = "pending" => pending[p]

\* The card is asked once, for the rest of a cash part.
CardAsked(p) ==
    /\ decision[p] = "none" => ~attempt[p] /\ term[p] = "none" /\ card[p] = "none"
    /\ decision[p] # "none" => tx[p].split > 0
    /\ pc[p] \in {"queue", "start"} => decision[p] = "none"
    /\ pc[p] = "card" => decision[p] # "none" /\ ~attempt[p] /\ term[p] = "none" /\ card[p] = "none"
    /\ pc[p] = "charging" => decision[p] # "none" /\ attempt[p] /\ card[p] = "none"
    /\ pc[p] \in Live /\ (decision[p] = "none" \/ pc[p] \in {"card", "charging"}) => doc[p] = "pending"
    /\ card[p] = "approved" =>
         /\ term[p] = "approved" /\ doc[p] # "cancelled"
         /\ doc[p] = "pending" => attempt[p]

\* While the customer stands there, settleCash leaves the payment alone.
OneHand(p) ==
    /\ looked[p] # "no" \/ ask[p] # "none" => pc[p] \notin Live
    /\ looked[p] \in {"completed", "cancelled"} => doc[p] = looked[p]

\* v, the station's word of an ended row, is still true of it.
StillTrue(v, r) ==
    /\ Final(r)
    /\ v.split <=> r.split > 0
    /\ r.split = 0 => v.outcome = r.outcome
    /\ ~CashPaid(v) => ~Paid(r)

Heard(p) ==
    /\ pc[p] = "apply" => seen[p].state \in FinalStates
    /\ seen[p].state \in FinalStates => StillTrue(seen[p], tx[p])

\* What the station is going to be told.
Told(p) ==
    ask[p] \in {"ack", "void"} =>
        /\ Final(tx[p]) /\ Settled(p)
        /\ ask[p] = "ack" /\ Paid(tx[p]) => doc[p] = "completed"
        /\ ask[p] = "void" => tx[p].split > 0

\* What the document says is what was paid.
Owed(p) ==
    /\ doc[p] = "cancelled" => Dead(p) \/ tx[p].split > 0 \/ (Final(tx[p]) /\ ~Paid(tx[p]))
    /\ tx[p].acked /\ Paid(tx[p]) => doc[p] = "completed"
    /\ doc[p] = "completed" => IF tx[p].split = 0 THEN tx[p].outcome = "paid" ELSE term[p] = "approved"
    /\ doc[p] = "completed" /\ tx[p].split = 0 => tx[p].document \/ pending[p]

Payment(p) == Begun(p) /\ CardAsked(p) /\ OneHand(p) /\ Heard(p) /\ Told(p) /\ Owed(p)

PayInv == StationInv /\ PartInv /\ KioskTypeOK /\ \A p \in Txs : Payment(p)

-----------------------------------------------------------------------------
(* What the station's steps do to a row, as a kiosk sees it. *)

\* An ended row stays what it was told to be, and a cash part stays a cash part.
Moves(r, s) ==
    /\ r.split > 0 => s.split > 0
    /\ Final(r) => /\ Final(s)
                   /\ ~Paid(r) => ~Paid(s)
                   /\ r.split = 0 => s.split = 0 /\ s.outcome = r.outcome /\ (r.document => s.document)

\* No row becomes paid and acknowledged but by an acknowledgement.
NotAcked(r, s) == s.acked /\ Paid(s) => r.acked /\ Paid(r)

\* What the drive of an open row r, with i put in, may leave.
Fit(s, r, i) ==
    /\ ~s.acked /\ s.inserted <= i
    /\ r.split > 0 => s.split > 0
    /\ s.splitAsked \/ s.state = "PARTIAL" => i > 0
    /\ s.heldReason = "split_timeout" => s.split > 0

LEMMA FitParted == ASSUME NEW r, NEW s, NEW i, Fit(s, r, i) PROVE Parted(s, i)
BY DEF Fit, Parted

LEMMA FitSelf ==
    ASSUME NEW r \in Row, IsOpen(r), NEW i \in Nat, NEW o, NEW c, Agrees(r, i, o, c), Parted(r, i)
    PROVE  Fit(r, r, i) /\ Fit([r EXCEPT !.inserted = i], r, i) /\ (r.state = "PARTIAL" => r.split > 0)
BY DEF Fit, Parted, Agrees, StepAgrees, IsOpen, Row

LEMMA FitRows ==
    ASSUME NEW r, NEW i \in Nat, NEW z \in Row, Fit(z, r, i), NEW n \in Nat, NEW m \in Nat
    PROVE  /\ Fit([z EXCEPT !.paid = n], r, i)
           /\ Fit([z EXCEPT !.changeOwed = n], r, i)
           /\ Fit(Refund(z), r, i)
           /\ Fit(PaidUp(z), r, i)
           /\ Fit(Hold(z, "short", n), r, i)
           /\ z.split > 0 => Fit(Hold(z, "split_timeout", n), r, i)
           /\ Fit([z EXCEPT !.state = "DONE", !.outcome = "refunded", !.step = "none"], r, i)
           /\ Fit([z EXCEPT !.state = "SETTLING", !.step = "closing"], r, i)
           /\ Fit([z EXCEPT !.state = "PAYING_CHANGE", !.step = "paying", !.changeDue = n], r, i)
           /\ Fit([z EXCEPT !.step = "paying"], r, i)
           /\ Fit([z EXCEPT !.state = "ACCEPTING", !.start = n, !.startPaid = m], r, i)
           /\ z.splitAsked => Fit([z EXCEPT !.state = "PARTIAL", !.step = "none", !.split = i, !.due = i], r, i)
<1> USE DEF Fit, Row
<1>1. Fit([z EXCEPT !.paid = n], r, i) /\ Fit([z EXCEPT !.changeOwed = n], r, i)
  OBVIOUS
<1>2. Fit(Refund(z), r, i)  BY DEF Refund
<1>3. Fit(PaidUp(z), r, i)  BY DEF PaidUp
<1>4. Fit(Hold(z, "short", n), r, i)  BY DEF Hold
<1>5. z.split > 0 => Fit(Hold(z, "split_timeout", n), r, i)  BY DEF Hold
<1>6. Fit([z EXCEPT !.state = "DONE", !.outcome = "refunded", !.step = "none"], r, i)  OBVIOUS
<1>7. Fit([z EXCEPT !.state = "SETTLING", !.step = "closing"], r, i)  OBVIOUS
<1>8. Fit([z EXCEPT !.state = "PAYING_CHANGE", !.step = "paying", !.changeDue = n], r, i)  OBVIOUS
<1>9. Fit([z EXCEPT !.step = "paying"], r, i)  OBVIOUS
<1>10. Fit([z EXCEPT !.state = "ACCEPTING", !.start = n, !.startPaid = m], r, i)  OBVIOUS
<1>11. z.splitAsked => Fit([z EXCEPT !.state = "PARTIAL", !.step = "none", !.split = i, !.due = i], r, i)
  OBVIOUS
<1> QED  BY <1>1, <1>2, <1>3, <1>4, <1>5, <1>6, <1>7, <1>8, <1>9, <1>10, <1>11

LEMMA FitRefunded ==
    ASSUME NEW r, NEW i \in Nat, NEW z \in Row, Fit(z, r, i) PROVE Fit(Refunded(z), r, i)
<1>1. z.inserted > z.paid => z.inserted - z.paid \in Nat
  BY DEF Row
<1>2. Fit([z EXCEPT !.state = "DONE", !.outcome = "refunded", !.step = "none"], r, i)
  BY FitRows
<1>3. \A n \in Nat : Fit(Hold(z, "short", n), r, i)
  BY FitRows
<1> QED  BY <1>1, <1>2, <1>3 DEF Refunded

LEMMA DriveFits ==
    ASSUME TypeOK, NEW r \in Row, IsOpen(r), NEW i \in Nat, NEW o \in Nat, NEW c \in Nat,
           Agrees(r, i, o, c), Counts(r, i, o), Parted(r, i), NEW l \in BOOLEAN, NEW d \in Drive(r, l)
    PROVE  Fit(d.row, r, i)
<1> DEFINE s == [r EXCEPT !.inserted = i]
           u == [s EXCEPT !.paid = o]
           change == AtLeast0(i - r.due)
           owed == AtLeast0(r.changeDue - o)
<1>1. /\ Seen(r) = s /\ PaidSince(r) = o /\ s.inserted = i /\ u.inserted = i /\ u.paid = o
      /\ s.splitAsked = r.splitAsked /\ s.split = r.split
      /\ s \in Row /\ u \in Row /\ valueIn \in Nat /\ paidOut \in Nat
  <2>1. Seen(r) = s /\ PaidSince(r) = o
    BY SeenIs
  <2>2. valueIn \in Nat /\ paidOut \in Nat
    BY DEF TypeOK
  <2> QED  BY <2>1, <2>2 DEF Row
<1>2. change \in Nat /\ owed \in Nat
  BY RowFields DEF AtLeast0
<1>3. Fit(r, r, i) /\ Fit(s, r, i) /\ (r.state = "PARTIAL" => s.split > 0)
  BY <1>1, FitSelf
<1> HIDE DEF s
<1>4. Fit(u, r, i)
  BY <1>1, <1>3, FitRows
<1> HIDE DEF u, change, owed
<1>5. Fit([r EXCEPT !.state = "ACCEPTING", !.start = valueIn, !.startPaid = paidOut], r, i)
  BY <1>1, <1>3, FitRows
<1>6. Fit([s EXCEPT !.state = "SETTLING", !.step = "closing"], r, i)
  BY <1>1, <1>3, FitRows
<1>7. Fit(Refund(s), r, i) /\ Fit(PaidUp(s), r, i)
  BY <1>1, <1>3, FitRows
<1>8. r.splitAsked => Fit([s EXCEPT !.state = "PARTIAL", !.step = "none", !.split = i, !.due = i], r, i)
  BY <1>1, <1>3, FitRows
<1>9. Fit([s EXCEPT !.state = "PAYING_CHANGE", !.step = "paying", !.changeDue = change], r, i)
  BY <1>1, <1>2, <1>3, FitRows
<1>10. Fit(PaidUp([u EXCEPT !.changeOwed = owed]), r, i)
  <2>1. [u EXCEPT !.changeOwed = owed] \in Row
    BY <1>1, <1>2, RowTypes
  <2>2. Fit([u EXCEPT !.changeOwed = owed], r, i)
    BY <1>1, <1>2, <1>4, FitRows
  <2> QED  BY <2>1, <2>2, FitRows
<1>11. r.state = "PARTIAL" => Fit(Hold(s, "split_timeout", r.split), r, i)
  BY <1>1, <1>3, FitRows, RowFields
<1>12. Fit(Refunded(u), r, i)
  BY <1>1, <1>4, FitRefunded
<1>13. Fit([u EXCEPT !.step = "paying"], r, i)
  BY <1>1, <1>4, FitRows
<1>14. /\ Seen(r) = s /\ [Seen(r) EXCEPT !.paid = PaidSince(r)] = u
       /\ AtLeast0(Seen(r).inserted - r.due) = change
       /\ AtLeast0(r.changeDue - u.paid) = owed
  BY <1>1 DEF u, change, owed
<1>15. r.state = "LEASED" =>
          d = Driven([r EXCEPT !.state = "ACCEPTING", !.start = valueIn, !.startPaid = paidOut], r.due, 0, TRUE)
  BY DriveCases
<1>16. r.state = "ACCEPTING" =>
         \/ d = Driven([s EXCEPT !.state = "SETTLING", !.step = "closing"], Closed, 0, FALSE)
         \/ d = Driven(Refund(s), Closed, 0, FALSE)
         \/ d = Driven(s, Closed, 0, FALSE)
         \/ d = Quietly(Refund(s))
         \/ d = Driven(s, r.due - s.inserted, 0, FALSE)
  BY <1>14, DriveCases
<1>17. r.state = "SETTLING" =>
         \/ d = Driven(r, Closed, 0, FALSE)
         \/ /\ r.splitAsked
            /\ d = Quietly([s EXCEPT !.state = "PARTIAL", !.step = "none", !.split = i, !.due = i])
         \/ d = Quietly(PaidUp(s))
         \/ d = Driven([s EXCEPT !.state = "PAYING_CHANGE", !.step = "paying", !.changeDue = change],
                       Closed, change, TRUE)
  BY <1>1, <1>14, DriveCases
<1>18. r.state = "PAYING_CHANGE" => d = Quietly(u) \/ d = Quietly(PaidUp([u EXCEPT !.changeOwed = owed]))
  BY <1>14, DriveCases
<1>19. r.state = "PARTIAL" =>
         \/ d = Driven(s, Closed, 0, FALSE)
         \/ d = Driven(Hold(s, "split_timeout", r.split), Closed, 0, FALSE)
         \/ d = Driven(Refund(s), Closed, 0, FALSE)
  BY <1>14, DriveCases
<1>20. r.state = "REFUNDING" =>
         \/ d = Quietly(u) \/ d = Quietly(Refunded(u)) \/ d = Driven(r, Closed, 0, FALSE)
         \/ d = Driven([u EXCEPT !.step = "paying"], Closed, u.inserted - u.paid, TRUE)
  BY <1>14, DriveCases
<1>21. r.state = "LEASED" => Fit(d.row, r, i)
  BY <1>5, <1>15 DEF Driven
<1>22. r.state = "ACCEPTING" => Fit(d.row, r, i)
  BY <1>3, <1>6, <1>7, <1>16 DEF Driven, Quietly
<1>23. r.state = "SETTLING" => Fit(d.row, r, i)
  BY <1>3, <1>7, <1>8, <1>9, <1>17 DEF Driven, Quietly
<1>24. r.state = "PAYING_CHANGE" => Fit(d.row, r, i)
  BY <1>4, <1>10, <1>18 DEF Driven, Quietly
<1>25. r.state = "PARTIAL" => Fit(d.row, r, i)
  BY <1>3, <1>7, <1>11, <1>19 DEF Driven, Quietly
<1>26. r.state = "REFUNDING" => Fit(d.row, r, i)
  BY <1>3, <1>4, <1>12, <1>13, <1>20 DEF Driven, Quietly
<1> QED  BY <1>21, <1>22, <1>23, <1>24, <1>25, <1>26 DEF IsOpen, OpenStates

-----------------------------------------------------------------------------
(* Every step of the station keeps the parts. *)

\* What a kiosk has to know of a step of the station, which acknowledges none but A.
Follows(A) ==
    /\ PartInv'
    /\ \A x \in Txs : Moves(tx[x], tx'[x]) /\ (NotAcked(tx[x], tx'[x]) \/ x \in A)

\* The calls but for the acknowledgement.
Asking ==
    \/ \E c \in Clients : Lease(c) \/ Release(c) \/ \E p \in Txs : Start(c, p)
    \/ \E p \in Txs : Cancel(p) \/ Split(p) \/ Finish(p)

LEMMA SameMoves == ASSUME NEW r PROVE Moves(r, r) /\ NotAcked(r, r)
BY DEF Moves, NotAcked

LEMMA PartOf ==
    ASSUME StationInv, PartInv, NEW p \in Txs
    PROVE  /\ tx[p] \in Row /\ gave[p] \in Nat
           /\ Parted(tx[p], gave[p])
           /\ tx[p].state = "PARTIAL" => tx[p].split > 0
<1>1. tx[p] \in Row /\ gave[p] \in Nat /\ Agrees(tx[p], gave[p], got[p], Coming(p)) /\ Parted(tx[p], gave[p])
  BY RowOf DEF PartInv
<1>2. tx[p].state = "PARTIAL" => tx[p].split > 0
  BY <1>1 DEF Agrees, Parted, IsOpen, OpenStates
<1> QED  BY <1>1, <1>2

\* A step that writes no row.
LEMMA RowsFollow ==
    ASSUME StationInv, PartInv, UNCHANGED tx, \A p \in Txs : gave'[p] \in Nat /\ gave'[p] >= gave[p],
           Writes' => Writes /\ tick'.row = tick.row /\ tick'.on = tick.on
    PROVE  Follows({})
<1>1. ASSUME NEW r \in Row, NEW i \in Nat, NEW k \in Nat, k >= i, Parted(r, i) PROVE Parted(r, k)
  BY <1>1 DEF Parted, Row
<1>2. \A p \in Txs : tx[p] \in Row /\ gave[p] \in Nat /\ Parted(tx[p], gave[p])
  BY PartOf
<1>3. \A p \in Txs : Parted(tx[p], gave'[p])
  BY <1>1, <1>2
<1>4. ASSUME Writes' PROVE PartsKept'
  <2>1. Writes /\ tick'.row = tick.row /\ tick'.on = tick.on /\ PartsKept
    BY <1>4 DEF PartInv
  <2>2. tick.on \in Txs /\ tick.row \in Row
    BY <2>1 DEF StationInv, MoneyInv, SaveSafe, TypeOK
  <2>3. Parted(tick.row, gave[tick.on]) /\ gave[tick.on] \in Nat
    BY <1>2, <2>1, <2>2 DEF PartsKept
  <2>4. Parted(tick.row, gave'[tick.on])
    BY <1>1, <2>2, <2>3
  <2> QED  BY <2>1, <2>4 DEF PartsKept
<1>5. PartsKept'
  BY <1>4 DEF PartsKept
<1> QED  BY <1>3, <1>5, SameMoves DEF Follows, PartInv

\* A call writes one row.
LEMMA OneRowFollows ==
    ASSUME StationInv, PartInv, NEW A, NEW p \in Txs, NEW q, tx' = [tx EXCEPT ![p] = q],
           UNCHANGED <<tick, gave>>, Moves(tx[p], q), Parted(q, gave[p]),
           NotAcked(tx[p], q) \/ p \in A,
           Writes /\ tick.on = p => (Final(q) => q.split > 0) /\ (q.split > 0 => tick.row.split > 0)
    PROVE  Follows(A)
<1>1. tx'[p] = q /\ \A x \in Txs : x # p => tx'[x] = tx[x]
  BY TxType DEF StationInv
<1>2. \A x \in Txs : Parted(tx'[x], gave[x])
  BY <1>1, PartOf
<1>3. PartsKept'
  <2> SUFFICES ASSUME Writes
               PROVE  /\ Parted(tick.row, gave[tick.on]) /\ ~tick.row.acked
                      /\ tx'[tick.on].split > 0 => tick.row.split > 0
                      /\ Final(tx'[tick.on]) => tx'[tick.on].split > 0
    BY DEF PartsKept, Writes
  <2>1. tick.on \in Txs
    BY DEF StationInv, MoneyInv, SaveSafe, TypeOK
  <2>2. PartsKept
    BY DEF PartInv
  <2>3. CASE tick.on = p
    BY <1>1, <2>2, <2>3 DEF PartsKept
  <2>4. CASE tick.on # p
    BY <1>1, <2>1, <2>2, <2>4 DEF PartsKept
  <2> QED  BY <2>3, <2>4
<1>4. \A x \in Txs : Moves(tx[x], tx'[x]) /\ (NotAcked(tx[x], tx'[x]) \/ x \in A)
  BY <1>1, SameMoves
<1> QED  BY <1>2, <1>3, <1>4 DEF Follows, PartInv

\* The rows the calls write.
LEMMA OpenMoves ==
    ASSUME NEW r, NEW s, ~Final(r), r.split > 0 => s.split > 0, ~s.acked
    PROVE  Moves(r, s) /\ NotAcked(r, s)
BY DEF Moves, NotAcked

LEMMA CallRows ==
    ASSUME NEW r \in Row, NEW i \in Nat, Parted(r, i), IsOpen(r)
    PROVE  /\ Parted(Refund(r), i) /\ ~Refund(r).acked /\ Refund(r).split = r.split /\ ~Final(Refund(r))
           /\ LET q == PaidUp([r EXCEPT !.changeDue = 0]) IN
              /\ ~q.acked /\ q.split = r.split /\ (r.heldReason = "none" => Parted(q, i))
           /\ LET q == [r EXCEPT !.grace = FALSE] IN
              /\ Parted(q, i) /\ ~q.acked /\ q.split = r.split /\ ~Final(q)
           /\ r.inserted > 0 =>
                LET q == [r EXCEPT !.splitAsked = TRUE, !.state = "SETTLING", !.step = "closing"] IN
                /\ Parted(q, i) /\ ~q.acked /\ q.split = r.split /\ ~Final(q)
<1> USE DEF Row, Parted, IsOpen, OpenStates, Final, FinalStates
<1>1. Parted(Refund(r), i) /\ ~Refund(r).acked /\ Refund(r).split = r.split /\ ~Final(Refund(r))
  BY DEF Refund
<1>2. LET q == PaidUp([r EXCEPT !.changeDue = 0]) IN
      /\ ~q.acked /\ q.split = r.split /\ (r.heldReason = "none" => Parted(q, i))
  BY DEF PaidUp
<1>3. LET q == [r EXCEPT !.grace = FALSE] IN Parted(q, i) /\ ~q.acked /\ q.split = r.split /\ ~Final(q)
  OBVIOUS
<1>4. r.inserted > 0 =>
        LET q == [r EXCEPT !.splitAsked = TRUE, !.state = "SETTLING", !.step = "closing"] IN
        Parted(q, i) /\ ~q.acked /\ q.split = r.split /\ ~Final(q)
  OBVIOUS
<1> QED  BY <1>1, <1>2, <1>3, <1>4

LEMMA AckMoves ==
    ASSUME NEW r \in Row, NEW i \in Nat, NEW o, NEW c, Agrees(r, i, o, c), Parted(r, i), Final(r),
           NEW d \in BOOLEAN, NEW v \in BOOLEAN
    PROVE  /\ Moves(r, Acked(r, d, v)) /\ Parted(Acked(r, d, v), i)
           /\ Final(Acked(r, d, v)) /\ Acked(r, d, v).split = r.split
<1> DEFINE a == [r EXCEPT !.acked = TRUE]
           h == Hold(a, "split_void", r.split)
           n == [r EXCEPT !.acked = TRUE, !.document = r.document \/ d]
<1>1. CASE v /\ Paid(r) /\ r.split > 0
  <2>1. Acked(r, d, v) = h
    BY <1>1 DEF Acked
  <2>2. Moves(r, h) /\ Parted(h, i) /\ Final(h) /\ h.split = r.split
    BY <1>1 DEF Row, Hold, Moves, Parted, Final, FinalStates, IsOpen, OpenStates, Paid
  <2> QED  BY <2>1, <2>2
<1>2. CASE ~(v /\ Paid(r) /\ r.split > 0)
  <2>1. Acked(r, d, v) = n
    BY <1>2 DEF Acked
  <2>2. Moves(r, n) /\ Parted(n, i) /\ Final(n) /\ n.split = r.split
    BY DEF Row, Moves, Parted, Final, FinalStates, IsOpen, OpenStates, Paid
  <2> QED  BY <2>1, <2>2
<1> QED  BY <1>1, <1>2

LEMMA AskingFollows == ASSUME StationInv, PartInv, Asking PROVE Follows({})
<1> USE DEF StationInv
<1>0. \A p \in Txs : gave[p] \in Nat
  BY PartOf
<1>1. ASSUME UNCHANGED <<tx, tick, gave>> PROVE Follows({})
  <2>1. \A n \in Nat : n >= n
    OBVIOUS
  <2> QED  BY <1>0, <1>1, <2>1, RowsFollow DEF Writes
<1>2. ASSUME NEW p \in Txs, NEW q, tx' = [tx EXCEPT ![p] = q], UNCHANGED <<tick, gave>>,
             IsOpen(tx[p]), ~q.acked, q.split = tx[p].split, Parted(q, gave[p]),
             Final(q) => q.split > 0
      PROVE  Follows({})
  <2>1. ~Final(tx[p])
    BY <1>2 DEF IsOpen, OpenStates, Final, FinalStates
  <2>2. Moves(tx[p], q) /\ NotAcked(tx[p], q)
    BY <1>2, <2>1, OpenMoves
  <2>3. Writes /\ tick.on = p => (tx[p].split > 0 => tick.row.split > 0)
    BY DEF PartInv, PartsKept
  <2> QED  BY <1>2, <2>2, <2>3, OneRowFollows
<1>3. ASSUME NEW p \in Txs, Cancel(p) PROVE Follows({})
  <2>1. IsOpen(tx[p])
    BY <1>3 DEF Cancel, IsOpen, OpenStates
  <2> QED  BY <1>2, <1>3, <2>1, PartOf, CallRows DEF Cancel, memory, unit
<1>4. ASSUME NEW p \in Txs, Finish(p) PROVE Follows({})
  <2> DEFINE q == PaidUp([tx[p] EXCEPT !.changeDue = 0])
  <2>1. IsOpen(tx[p]) /\ tx[p].heldReason = "none" /\ tx[p].split > 0
    BY <1>4, PartOf, RowOf DEF Finish, IsOpen, OpenStates, Agrees, StepAgrees
  <2>2. ~q.acked /\ q.split = tx[p].split /\ Parted(q, gave[p])
    BY <2>1, PartOf, CallRows
  <2>3. tx' = [tx EXCEPT ![p] = q] /\ UNCHANGED <<tick, gave>>
    BY <1>4 DEF Finish, memory, unit
  <2> HIDE DEF q
  <2> QED  BY <1>2, <2>1, <2>2, <2>3
<1>5. ASSUME NEW p \in Txs, Split(p) PROVE Follows({})
  <2> DEFINE q == [tx[p] EXCEPT !.splitAsked = TRUE, !.state = "SETTLING", !.step = "closing"]
  <2>1. IsOpen(tx[p]) /\ tx[p].inserted > 0
    BY <1>5 DEF Split, IsOpen, OpenStates
  <2>2. ~q.acked /\ q.split = tx[p].split /\ Parted(q, gave[p]) /\ ~Final(q)
    BY <2>1, PartOf, CallRows
  <2>3. tx' = [tx EXCEPT ![p] = q] /\ UNCHANGED <<tick, gave>>
    BY <1>5 DEF Split, unit
  <2> HIDE DEF q
  <2> QED  BY <1>2, <2>1, <2>2, <2>3
<1>6. ASSUME NEW c \in Clients, NEW p \in Txs, Start(c, p) PROVE Follows({})
  <2> DEFINE q == [NoRow EXCEPT !.client = c, !.state = "LEASED", !.due = Due,
                                !.start = valueIn, !.startPaid = paidOut]
  <2>1. tx' = [tx EXCEPT ![p] = q] /\ UNCHANGED <<tick, gave>> /\ tx[p] = NoRow
    BY <1>6 DEF Start, unit
  <2>2. ~Final(tx[p]) /\ tx[p].split = 0 /\ tx[p].state = "none"
    BY <2>1 DEF NoRow, Final, FinalStates
  <2>3. ~q.acked /\ q.split = 0 /\ ~Final(q) /\ Parted(q, gave[p])
    BY PartOf DEF NoRow, Final, FinalStates, Parted
  <2> HIDE DEF q
  <2>4. Moves(tx[p], q) /\ NotAcked(tx[p], q)
    BY <2>2, <2>3, OpenMoves
  <2>5. ~(Writes /\ tick.on = p)
    BY <2>2 DEF MoneyInv, SaveSafe
  <2> QED  BY <2>1, <2>3, <2>4, <2>5, OneRowFollows
<1>7. ASSUME NEW c \in Clients, Lease(c) PROVE Follows({})
  <2>1. UNCHANGED <<tick, gave>>
    BY <1>7 DEF Lease, unit
  <2>2. CASE Renew(c) /\ ~UNCHANGED tx
    <3>1. PICK p \in Txs : IsOpen(tx[p]) /\ tx' = [tx EXCEPT ![p].grace = FALSE]
      BY <2>2 DEF Renew, TypeOK
    <3> DEFINE q == [tx[p] EXCEPT !.grace = FALSE]
    <3>2. tx' = [tx EXCEPT ![p] = q]
      BY <3>1, TxType
    <3>3. ~q.acked /\ q.split = tx[p].split /\ Parted(q, gave[p]) /\ ~Final(q)
      BY <3>1, PartOf, CallRows
    <3> HIDE DEF q
    <3> QED  BY <1>2, <2>1, <3>1, <3>2, <3>3
  <2> QED  BY <1>1, <1>7, <2>1, <2>2 DEF Lease
<1>8. ASSUME NEW c \in Clients, Release(c) PROVE Follows({})
  BY <1>1, <1>8 DEF Release, unit
<1> QED  BY <1>3, <1>4, <1>5, <1>6, <1>7, <1>8 DEF Asking

LEMMA AckFollows ==
    ASSUME StationInv, PartInv, NEW p \in Txs, NEW d \in BOOLEAN, NEW v \in BOOLEAN, Ack(p, d, v)
    PROVE  Follows({p})
<1> DEFINE q == Acked(tx[p], d, v)
<1>1. Moves(tx[p], q) /\ Parted(q, gave[p]) /\ Final(q) /\ q.split = tx[p].split
  BY PartOf, RowOf, AckMoves DEF Ack
<1>2. tx' = [tx EXCEPT ![p] = q] /\ UNCHANGED <<tick, gave>> /\ Final(tx[p])
  BY DEF Ack, unit
<1> HIDE DEF q
<1>3. Writes /\ tick.on = p => q.split > 0 /\ tick.row.split > 0
  BY <1>1, <1>2 DEF PartInv, PartsKept
<1> QED  BY <1>1, <1>2, <1>3, OneRowFollows

\* The rows the host's steps write.
LEMMA GraceParted ==
    ASSUME NEW r \in Row, NEW i, NEW b \in BOOLEAN, Parted(r, i)
    PROVE  LET q == [r EXCEPT !.grace = b] IN
           Parted(q, i) /\ q.split = r.split /\ q.acked = r.acked /\ q.state = r.state
BY DEF Row, Parted, IsOpen

LEMMA ExpiredFollows ==
    ASSUME StationInv, PartInv, NEW gone, NEW p \in Txs
    PROVE  LET q == Expired(gone)[p] IN
           /\ q \in Row /\ Parted(q, gave[p]) /\ q.split = tx[p].split
           /\ Moves(tx[p], q) /\ NotAcked(tx[p], q)
           /\ IsOpen(q) <=> IsOpen(tx[p])
<1> DEFINE q == Expired(gone)[p]
<1> SUFFICES /\ q \in Row /\ Parted(q, gave[p]) /\ q.split = tx[p].split
             /\ Moves(tx[p], q) /\ NotAcked(tx[p], q)
             /\ IsOpen(q) <=> IsOpen(tx[p])
  OBVIOUS
<1>1. q \in Row /\ tx[p] \in Row /\ Parted(tx[p], gave[p])
  BY ExpiredRow, PartOf DEF StationInv
<1>2. CASE q = tx[p]
  BY <1>1, <1>2, SameMoves
<1>3. CASE q # tx[p]
  <2>1. q = [tx[p] EXCEPT !.grace = TRUE] /\ tx[p].state \in Graceful
    BY <1>3 DEF Expired
  <2>2. IsOpen(tx[p]) /\ ~Final(tx[p])
    BY <2>1 DEF Graceful, IsOpen, OpenStates, Final, FinalStates
  <2>3. Parted(q, gave[p]) /\ q.split = tx[p].split /\ q.acked = tx[p].acked /\ q.state = tx[p].state
    BY <1>1, <2>1, GraceParted
  <2> HIDE DEF q
  <2>4. ~q.acked /\ (IsOpen(q) <=> IsOpen(tx[p]))
    BY <1>1, <2>2, <2>3 DEF Parted, IsOpen
  <2>5. Moves(tx[p], q) /\ NotAcked(tx[p], q)
    BY <2>2, <2>3, <2>4, OpenMoves
  <2> QED  BY <1>1, <2>3, <2>4, <2>5
<1> QED  BY <1>2, <1>3

LEMMA UnackedFollows ==
    ASSUME NEW r \in Row, Paid(r), NEW i, NEW n \in Nat
    PROVE  LET q == Hold(r, "unacked", n) IN
           Moves(r, q) /\ Parted(q, i) /\ ~Paid(q) /\ Final(q) /\ q.split = r.split /\ q.outcome = r.outcome
BY DEF Row, Hold, Moves, Parted, Paid, Final, FinalStates, IsOpen, OpenStates

LEMMA RecoveredFollows ==
    ASSUME TypeOK, NEW r \in Row, IsOpen(r), NEW i, Parted(r, i), NEW b \in BOOLEAN
    PROVE  LET q == RecoveredRow(r, b) IN
           q.split = r.split /\ q.acked = r.acked /\ Parted(q, i) /\ ~Paid(q)
<1> DEFINE s == Seen(r)
           net == s.inserted - PaidSince(r)
           held == Hold([r EXCEPT !.inserted = 0], "consistency", AtLeast0(r.inserted - r.paid))
           lost == Hold(s, "power_loss", net)
           back == [s EXCEPT !.state = "DONE", !.outcome = "refunded", !.step = "none", !.paid = PaidSince(r)]
           Good(q) == q.split = r.split /\ q.acked = r.acked /\ Parted(q, i) /\ ~Paid(q)
<1>1. s \in Row /\ s.split = r.split /\ s.acked = r.acked /\ s.heldReason = r.heldReason
  <2>1. s \in Row
    BY SeenType
  <2> QED  BY <2>1 DEF Seen, Row
<1>2. Good(held)
  BY DEF Row, Hold, Parted, Paid, IsOpen, OpenStates
<1>3. Good(lost)
  <2> HIDE DEF s, net
  <2> QED  BY <1>1 DEF Row, Hold, Parted, Paid, IsOpen, OpenStates
<1>4. r.heldReason = "split_timeout" => r.split > 0
  BY DEF Parted
<1>5. Good(back)
  <2> HIDE DEF s
  <2> QED  BY <1>1, <1>4 DEF Row, Parted, Paid, IsOpen, OpenStates
<1>6. RecoveredRow(r, b) \in {held, lost, back}
  BY DEF RecoveredRow
<1> HIDE DEF held, lost, back
<1> QED  BY <1>2, <1>3, <1>5, <1>6

LEMMA MovesOn ==
    ASSUME NEW r, NEW s, NEW q, Moves(r, s), Moves(s, q)
    PROVE  Moves(r, q)
BY DEF Moves

LEMMA TickDriveFollows ==
    ASSUME StationInv, PartInv, NEW gone, NEW l \in BOOLEAN, TickBegin(gone, l), NEW p \in OpenTxs,
           NEW d \in Drive(Expired(gone)[p], l /\ (Expired(gone)[p].grace => tx[p].grace)),
           TickDrive(gone, p, Expired(gone)[p], d)
    PROVE  Follows({})
<1> DEFINE r == Expired(gone)[p]  ll == l /\ (r.grace => tx[p].grace)
<1>1. recovered /\ ~tick.busy /\ UNCHANGED gave
  BY DEF TickBegin
<1>2. p \in Txs /\ IsOpen(tx[p]) /\ Expired(gone) \in [Txs -> Row] /\ TypeOK /\ ll \in BOOLEAN
  BY ExpiredRow DEF OpenTxs, StationInv
<1>3. /\ r \in Row /\ Parted(r, gave[p]) /\ r.split = tx[p].split /\ IsOpen(r)
      /\ Moves(tx[p], r) /\ NotAcked(tx[p], r)
  BY <1>2, ExpiredFollows
<1>4. /\ gave[p] \in Nat /\ got[p] \in Nat /\ Coming(p) \in Nat
      /\ Agrees(r, gave[p], got[p], Coming(p)) /\ Counts(r, gave[p], got[p])
  BY <1>2, ExpiredAgrees, RowOf
<1>5. d \in Drive(r, ll)
  OBVIOUS
<1>6. DriveSafe(r, d, gave[p], got[p], payout.left) /\ d.row \in Row
  BY <1>1, TickDriveSafe DEF DriveType
<1>7. /\ tx'[p] = IF d.first THEN d.row ELSE r
      /\ \A q \in Txs : q # p => tx'[q] = Expired(gone)[q]
      /\ Writes' => tick'.on = p /\ tick'.row = d.row
  BY <1>2 DEF TickDrive, Writes
<1>8. \A q \in Txs : q # p => Parted(tx'[q], gave[q]) /\ Moves(tx[q], tx'[q]) /\ NotAcked(tx[q], tx'[q])
  BY <1>7, ExpiredFollows
<1> HIDE DEF r, ll
<1>9. Fit(d.row, r, gave[p])
  BY <1>2, <1>3, <1>4, <1>5, DriveFits
<1>10. Parted(d.row, gave[p]) /\ ~d.row.acked /\ (r.split > 0 => d.row.split > 0)
  BY <1>9, FitParted DEF Fit
<1>11. ~Final(tx[p]) /\ ~Final(r)
  BY <1>2, <1>3 DEF IsOpen, OpenStates, Final, FinalStates
<1>12. Parted(tx'[p], gave[p]) /\ Moves(tx[p], tx'[p]) /\ NotAcked(tx[p], tx'[p])
  BY <1>3, <1>7, <1>10, <1>11, OpenMoves
<1>13. ~Final(tx'[p])
  <2>1. d.first => ~Final(d.row)
    BY <1>6 DEF DriveSafe, IsOpen, OpenStates, Final, FinalStates
  <2> QED  BY <1>7, <1>11, <2>1
<1>14. tx'[p].split > 0 => d.row.split > 0
  BY <1>7, <1>10
<1>15. PartsKept'
  BY <1>1, <1>7, <1>10, <1>13, <1>14 DEF PartsKept
<1> QED  BY <1>1, <1>8, <1>12, <1>15 DEF Follows, PartInv

LEMMA TickEndFollows == ASSUME StationInv, PartInv, TickEnd PROVE Follows({})
<1>1. UNCHANGED gave /\ ~Writes'
  BY DEF TickEnd, unit, NoTick, Writes
<1>2. ASSUME NEW p \in Txs
      PROVE  Parted(tx'[p], gave[p]) /\ Moves(tx[p], tx'[p]) /\ NotAcked(tx[p], tx'[p])
  <2>1. PICK s \in Row : /\ s = (IF Writes /\ p = tick.on THEN tick.row ELSE tx[p])
                         /\ \/ tx'[p] = s
                            \/ Paid(s) /\ tx'[p] = Hold(s, "unacked", AtLeast0(s.due - s.changeOwed))
    BY TickEnds
  <2>2. Parted(s, gave[p]) /\ Moves(tx[p], s) /\ NotAcked(tx[p], s)
    <3>1. CASE ~(Writes /\ p = tick.on)
      BY <2>1, <3>1, SameMoves, PartOf
    <3>2. CASE Writes /\ p = tick.on
      <4>1. s = tick.row /\ Parted(s, gave[p]) /\ ~s.acked /\ (tx[p].split > 0 => s.split > 0)
            /\ (Final(tx[p]) => tx[p].split > 0)
        BY <2>1, <3>2 DEF PartInv, PartsKept
      <4>2. Final(tx[p]) => s.state = "HELD"
        BY <3>2, <4>1 DEF StationInv, MoneyInv, SaveSafe
      <4>3. tx[p].split > 0 => tx[p].split # 0
        OBVIOUS
      <4> QED  BY <4>1, <4>2, <4>3 DEF Moves, NotAcked, Final, FinalStates, Paid
    <3> QED  BY <3>1, <3>2
  <2>3. CASE tx'[p] = s
    BY <2>2, <2>3
  <2>4. CASE Paid(s) /\ tx'[p] = Hold(s, "unacked", AtLeast0(s.due - s.changeOwed))
    <3> DEFINE n == AtLeast0(s.due - s.changeOwed)
               q == Hold(s, "unacked", n)
    <3>1. n \in Nat
      BY RowFields DEF AtLeast0
    <3> HIDE DEF n
    <3>2. Moves(s, q) /\ Parted(q, gave[p]) /\ ~Paid(q)
      BY <2>4, <3>1, UnackedFollows
    <3>3. tx'[p] = q
      BY <2>4 DEF n
    <3> HIDE DEF q
    <3> QED  BY <2>2, <3>2, <3>3, MovesOn DEF NotAcked
  <2> QED  BY <2>1, <2>3, <2>4
<1>3. PartsKept'
  BY <1>1 DEF PartsKept
<1> QED  BY <1>1, <1>2, <1>3 DEF Follows, PartInv

LEMMA RecoverFollows == ASSUME StationInv, PartInv, Recover PROVE Follows({})
<1>1. ~tick.busy /\ UNCHANGED <<tick, gave>>
  BY DEF Recover, StationInv, Control, unit
<1>2. PICK b \in BOOLEAN : tx' = [p \in Txs |-> IF IsOpen(tx[p]) THEN RecoveredRow(tx[p], b) ELSE tx[p]]
  BY DEF Recover
<1>3. ASSUME NEW p \in Txs
      PROVE  Parted(tx'[p], gave[p]) /\ Moves(tx[p], tx'[p]) /\ NotAcked(tx[p], tx'[p])
  <2> DEFINE r == tx[p]  q == RecoveredRow(r, b)
  <2>1. r \in Row /\ Parted(r, gave[p])
    BY PartOf
  <2>2. CASE IsOpen(r)
    <3>1. q.split = r.split /\ q.acked = r.acked /\ Parted(q, gave[p]) /\ ~Paid(q)
      BY <2>1, <2>2, RecoveredFollows DEF StationInv
    <3>2. ~Final(r) /\ ~r.acked
      BY <2>1, <2>2 DEF Parted, IsOpen, OpenStates, Final, FinalStates
    <3>3. tx'[p] = q
      BY <1>2, <2>2
    <3> HIDE DEF q, r
    <3>4. Moves(r, q) /\ NotAcked(r, q)
      BY <3>1, <3>2, OpenMoves
    <3> QED  BY <3>1, <3>3, <3>4 DEF r
  <2>3. CASE ~IsOpen(r)
    BY <1>2, <2>1, <2>3, SameMoves
  <2> QED  BY <2>2, <2>3
<1>4. PartsKept'
  BY <1>1 DEF PartsKept, Writes
<1> QED  BY <1>1, <1>3, <1>4 DEF Follows, PartInv

LEMMA HostFollows == ASSUME StationInv, PartInv, HostStep PROVE Follows({})
<1>1. \A p \in Txs : gave[p] \in Nat
  BY PartOf
<1>2. ASSUME UNCHANGED <<tx, gave>>, Writes' => UNCHANGED tick PROVE Follows({})
  <2>1. \A n \in Nat : n >= n
    OBVIOUS
  <2> QED  BY <1>1, <1>2, <2>1, RowsFollow DEF Writes
<1>3. ASSUME NEW gone, NEW l \in BOOLEAN, TickBegin(gone, l) PROVE Follows({})
  <2>1. CASE TickIdle
    <3>1. ~Writes'
      BY <2>1 DEF TickIdle, NoTick, Writes
    <3> QED  BY <1>2, <1>3, <2>1, <3>1 DEF TickBegin, TickIdle
  <2>2. CASE ~TickIdle
    <3>1. PICK p \in OpenTxs : LET r == Expired(gone)[p] IN
            \E d \in Drive(r, l /\ (r.grace => tx[p].grace)) : TickDrive(gone, p, r, d)
      BY <1>3, <2>2 DEF TickBegin
    <3> QED  BY <1>3, <3>1, TickDriveFollows
  <2> QED  BY <2>1, <2>2
<1>4. CASE Crash
  BY <1>2, <1>4 DEF Crash, unit, NoTick, Writes
<1>5. CASE LoseDevice \/ OpenDevice \/ Boot
  BY <1>2, <1>5 DEF LoseDevice, OpenDevice, Boot, unit, memory
<1> QED  BY <1>3, <1>4, <1>5, TickEndFollows, RecoverFollows DEF HostStep

LEMMA UnitFollows == ASSUME StationInv, PartInv, UnitStep PROVE Follows({})
<1>1. \A p \in Txs : gave[p] \in Nat
  BY PartOf
<1>2. UNCHANGED tx
  BY DEF UnitStep, Insert, PayoutBegins, PayOut, PayoutEnds, Watchdog
<1>3. Writes' => Writes /\ tick'.row = tick.row /\ tick'.on = tick.on
  BY DEF UnitStep, Insert, PayoutBegins, PayOut, PayoutEnds, Watchdog, memory, Writes, StationInv, TypeOK
<1>4. \A p \in Txs : gave'[p] \in Nat /\ gave'[p] >= gave[p]
  <2>1. \A n \in Nat : n >= n
    OBVIOUS
  <2>2. ASSUME NEW p \in Txs, NEW v \in Coins, Insert(p, v) PROVE \A x \in Txs : gave'[x] \in Nat /\ gave'[x] >= gave[x]
    <3>1. v \in Nat /\ gave \in [Txs -> Nat] /\ gave' = [gave EXCEPT ![p] = @ + v]
      BY <2>2, MoneyAssumption DEF Insert, StationInv, TypeOK
    <3> QED  BY <3>1
  <2> QED  BY <1>1, <2>1, <2>2 DEF UnitStep, PayoutBegins, PayOut, PayoutEnds, Watchdog
<1> QED  BY <1>2, <1>3, <1>4, RowsFollow

LEMMA StillFollows == ASSUME StationInv, PartInv, UNCHANGED stationVars PROVE Follows({})
<1>1. \A p \in Txs : gave[p] \in Nat
  BY PartOf
<1>2. \A n \in Nat : n >= n
  OBVIOUS
<1> QED  BY <1>1, <1>2, RowsFollow DEF stationVars, unit, memory, Writes

LEMMA InitParts == Init => PartInv
BY DEF Init, PartInv, PartsKept, Writes, NoTick, Parted, NoRow, IsOpen, OpenStates

-----------------------------------------------------------------------------
(* Whatever a kiosk does, the station takes a step of its own or none. *)

LEMMA PayStepCalls ==
    ASSUME NEW p \in Txs, PayStep(p)
    PROVE  \/ Asking
           \/ UNCHANGED stationVars
           \/ Asked(p) /\ ask[p] \in {"ack", "void"} /\ Ack(p, doc[p] = "completed", ask[p] = "void")
<1>1. KioskOf[p] \in Clients
  BY KioskAssumption
<1>2. ASSUME \/ Lease(KioskOf[p]) \/ Release(KioskOf[p]) \/ Start(KioskOf[p], p)
             \/ Cancel(p) \/ Split(p) \/ Finish(p)
      PROVE  Asking
  BY <1>1, <1>2 DEF Asking
<1>4. CASE Begin(p) \/ StartUnheard(p) \/ Poll(p) \/ Lost(p) \/ ChargeRest(p) \/ TerminalDecides(p) \/ CardAnswers(p)
  BY <1>4 DEF Begin, StartUnheard, Poll, Lost, ChargeRest, TerminalDecides, CardAnswers
<1>5. CASE ApplyOutcome(p) \/ SettleBegin(p) \/ SettleCash(p) \/ SettleOrphan(p)
  BY <1>5 DEF ApplyOutcome, SettleBegin, SettleCash, SettleOrphan
<1>6. CASE AskLease(p) \/ LeaveQueue(p) \/ StartRefused(p) \/ RenewLease(p)
  BY <1>2, <1>6 DEF AskLease, LeaveQueue, StartRefused, RenewLease
<1>7. CASE AskStart(p) \/ LateStart(p) \/ CustomerCancels(p) \/ CustomerSplits(p) \/ TellDecision(p)
  BY <1>2, <1>7 DEF AskStart, LateStart, CustomerCancels, CustomerSplits, TellDecision
<1>8. CASE Asked(p)
  BY <1>2, <1>8 DEF Asked
<1> QED  BY <1>4, <1>5, <1>6, <1>7, <1>8 DEF PayStep

LEMMA PayStepFollows ==
    ASSUME StationInv, PartInv, NEW p \in Txs, PayStep(p)
    PROVE  StationInv' /\ Follows({p}) /\ (~Asked(p) => Follows({}))
<1>1. Ack(p, doc[p] = "completed", ask[p] = "void") => \E d \in BOOLEAN, v \in BOOLEAN : Ack(p, d, v)
  OBVIOUS
<1>2. [Step]_stationVars
  BY <1>1, PayStepCalls DEF Step, Asking, Call
<1>3. CASE Asking \/ UNCHANGED stationVars
  <2>1. Follows({})
    BY <1>3, AskingFollows, StillFollows
  <2> QED  BY <1>2, <2>1, StationStep DEF Follows
<1>4. CASE Asked(p) /\ Ack(p, doc[p] = "completed", ask[p] = "void")
  BY <1>1, <1>2, <1>4, AckFollows, StationStep
<1> QED  BY <1>3, <1>4, PayStepCalls

LEMMA OtherStepFollows ==
    ASSUME StationInv, PartInv, [PayNext]_vars, ~\E p \in Txs : PayStep(p)
    PROVE  StationInv' /\ Follows({})
<1>1. ASSUME NEW c \in Clients, KioskStops(c) \/ KioskStarts(c) PROVE UNCHANGED stationVars
  BY <1>1 DEF KioskStops, KioskStarts
<1>2. HostStep \/ UnitStep \/ UNCHANGED stationVars
  BY <1>1 DEF PayNext, vars
<1>3. [Step]_stationVars
  BY <1>2 DEF Step
<1> QED  BY <1>2, <1>3, StationStep, HostFollows, UnitFollows, StillFollows

\* With its kiosks the station keeps what it keeps with any clients.
LEMMA PayStationInv == PaySpec => [](StationInv /\ PartInv)
<1>1. PayInit => StationInv /\ PartInv
  BY InitInv, InitParts DEF PayInit
<1>2. StationInv /\ PartInv /\ [PayNext]_vars => (StationInv /\ PartInv)'
  BY PayStepFollows, OtherStepFollows DEF Follows
<1> QED  BY <1>1, <1>2, PTL DEF PaySpec

\* Whatever the kiosks of the shop do, and whatever the network loses, what a customer put in
\* and did not get back is the price, or a credit (cashPay.ts over station.ts).
THEOREM KioskLosesNoCoin == PaySpec => []MoneyAccounted
BY PayStationInv, InvMoneyAccounted, PTL

-----------------------------------------------------------------------------
(* Types. *)

Docs == {"none", "pending", "completed", "cancelled"}
Words == {"none", "finish", "cancel", "ack", "void"}
Views == [state : OpenStates \cup FinalStates \cup {"none"},
          outcome : {"none", "paid", "refunded"}, split : BOOLEAN]

LEMMA SettleType ==
    ASSUME KioskTypeOK, NEW p \in Txs, NEW to \in {"completed", "cancelled"}, Settle(p, to)
    PROVE  /\ doc' \in [Txs -> Docs]
           /\ doc'[p] = (IF doc[p] = "pending" THEN to ELSE doc[p])
           /\ \A x \in Txs : x # p => doc'[x] = doc[x]
BY DEF KioskTypeOK, Settle, Docs

LEMMA ViewType == ASSUME NEW r \in Row PROVE View(r) \in Views
BY DEF Row, View, Views

LEMMA NoViewType == NoView \in Views /\ [NoView EXCEPT !.state = "LEASED"] \in Views
BY DEF NoView, Views, OpenStates

LEMMA ApplyType ==
    ASSUME KioskTypeOK, NEW p \in Txs, NEW v, NEW w, Apply(p, v, w)
    PROVE  doc' \in [Txs -> Docs] /\ ask' \in [Txs -> Words] /\ attempt' \in [Txs -> BOOLEAN]
<1>1. doc \in [Txs -> Docs] /\ ask \in [Txs -> Words] /\ attempt \in [Txs -> BOOLEAN]
  BY DEF KioskTypeOK, Docs, Words
<1>2. SplitWord(doc[p]) \in Words
  BY DEF SplitWord, Words
<1>3. doc' \in [Txs -> Docs]
  BY <1>1, SettleType DEF Apply
<1>4. ask' \in [Txs -> Words]
  BY <1>1, <1>2 DEF Apply, Words
<1>5. attempt' \in [Txs -> BOOLEAN]
  BY <1>1 DEF Apply
<1> QED  BY <1>3, <1>4, <1>5

\* What settleCash looks at was begun.
LEMMA PayStepType ==
    ASSUME TypeOK, KioskTypeOK, NEW p \in Txs, pending[p] => doc[p] # "none", PayStep(p)
    PROVE  KioskTypeOK'
<1> USE DEF KioskTypeOK
<1>1. CASE Begin(p)
  BY <1>1 DEF Begin, Live
<1>2. CASE AskLease(p)
  BY <1>2 DEF AskLease, Live, kioskDisk
<1>3. ASSUME NotTaken(p) PROVE KioskTypeOK'
  <2>1. doc' \in [Txs -> Docs]
    BY <1>3, SettleType DEF NotTaken
  <2> QED  BY <1>3, <2>1 DEF NotTaken, Live, Docs
<1>4. CASE AskStart(p)
  <2>1. seen' \in [Txs -> Views]
    BY <1>4, NoViewType DEF AskStart, Views
  <2> QED  BY <1>4, <2>1 DEF AskStart, Live, kioskDisk, Views
<1>5. CASE StartUnheard(p)
  BY <1>5 DEF StartUnheard, kioskDisk
<1>6. CASE LateStart(p)
  BY <1>6 DEF LateStart, kioskDisk
<1>7. CASE UNCHANGED kioskVars
  BY <1>7 DEF kioskVars, kioskDisk
<1>8. CASE Poll(p)
  <2>1. seen' \in [Txs -> Views]
    <3>1. View(tx[p]) \in Views
      BY ViewType DEF TypeOK
    <3> QED  BY <1>8, <3>1 DEF Poll, Views
  <2>2. decision' \in [Txs -> {"none", "open", "finish", "cancel"}]
    BY <1>8 DEF Poll
  <2>3. pc' \in [Txs -> Live \cup {"idle", "apply", "over"}]
    BY <1>8 DEF Poll, Live
  <2> QED  BY <1>8, <2>1, <2>2, <2>3 DEF Poll, Views
<1>9. CASE Lost(p)
  BY <1>9 DEF Lost, kioskDisk
<1>10. CASE ChargeRest(p)
  <2>1. card' \in [Txs -> {"none", "approved", "declined", "unknown"}]
    BY <1>10 DEF ChargeRest, Decide
  <2>a. decision' \in [Txs -> {"none", "open", "finish", "cancel"}]
    BY <1>10 DEF ChargeRest, Decide
  <2>b. pc' \in [Txs -> Live \cup {"idle", "apply", "over"}]
    BY <1>10 DEF ChargeRest, Decide, Live
  <2>2. attempt' \in [Txs -> BOOLEAN]
    BY <1>10 DEF ChargeRest
  <2>3. term' \in [Txs -> {"none", "open", "approved", "declined"}]
    BY <1>10 DEF ChargeRest
  <2> QED  BY <1>10, <2>1, <2>a, <2>b, <2>2, <2>3 DEF ChargeRest
<1>11. CASE TerminalDecides(p)
  BY <1>11 DEF TerminalDecides, kioskDisk
<1>12. CASE CardAnswers(p)
  <2>1. PICK w \in {"approved", "declined", "unknown"}, d \in {"finish", "cancel"} : Decide(p, w, d)
    BY <1>12 DEF CardAnswers
  <2>2. /\ card' \in [Txs -> {"none", "approved", "declined", "unknown"}]
        /\ decision' \in [Txs -> {"none", "open", "finish", "cancel"}]
        /\ pc' \in [Txs -> Live \cup {"idle", "apply", "over"}]
    BY <2>1 DEF Decide, Live
  <2>3. attempt' \in [Txs -> BOOLEAN]
    BY <1>12 DEF CardAnswers
  <2> QED  BY <1>12, <2>2, <2>3 DEF CardAnswers
<1>13. CASE ApplyOutcome(p)
  <2>1. doc' \in [Txs -> Docs] /\ ask' \in [Txs -> Words] /\ attempt' \in [Txs -> BOOLEAN]
    BY <1>13, ApplyType DEF ApplyOutcome
  <2> QED  BY <1>13, <2>1 DEF ApplyOutcome, Docs, Words
<1>14. CASE SettleBegin(p)
  <2>1. looked' \in [Txs -> {"no", "pending", "completed", "cancelled"}]
    BY <1>14 DEF SettleBegin
  <2> QED  BY <1>14, <2>1 DEF SettleBegin, kioskDisk
<1>15. CASE SettleCash(p)
  <2> DEFINE r == tx[p]
             splitPaid == r.split > 0 /\ Paid(r)
  <2>1. looked' \in [Txs -> {"no", "pending", "completed", "cancelled"}]
    BY <1>15 DEF SettleCash
  <2>2. UNCHANGED <<decision, running, pc, seen, late, term>>
    BY <1>15 DEF SettleCash
  <2>3. CASE Settle(p, "cancelled") /\ pending' = [pending EXCEPT ![p] = FALSE] /\ UNCHANGED <<ask, attempt, card>>
    <3>1. doc' \in [Txs -> Docs]
      BY <2>3, SettleType
    <3> QED  BY <2>1, <2>2, <2>3, <3>1 DEF Docs
  <2>4. CASE /\ ask' = [ask EXCEPT ![p] = IF r.state = "PARTIAL" /\ CardMayHave(p) THEN "finish" ELSE "cancel"]
             /\ UNCHANGED <<doc, pending, attempt, card>>
    <3>1. ask' \in [Txs -> Words]
      BY <2>4 DEF Words
    <3> QED  BY <2>1, <2>2, <2>4, <3>1 DEF Words
  <2>5. CASE /\ ask' = [ask EXCEPT ![p] = IF splitPaid THEN SplitWord(looked[p]) ELSE "ack"]
             /\ UNCHANGED <<doc, pending, attempt, card>>
    <3>1. ask' \in [Txs -> Words]
      BY <2>5 DEF Words, SplitWord
    <3> QED  BY <2>1, <2>2, <2>5, <3>1 DEF Words
  <2>6. CASE /\ IF attempt[p] THEN UNCHANGED <<doc, ask>>
                ELSE Settle(p, "cancelled") /\ ask' = [ask EXCEPT ![p] = "void"]
             /\ UNCHANGED <<pending, attempt, card>>
    <3>1. doc' \in [Txs -> Docs]
      BY <2>6, SettleType DEF Docs
    <3>2. ask' \in [Txs -> Words]
      BY <2>6 DEF Words
    <3> QED  BY <2>1, <2>2, <2>6, <3>1, <3>2 DEF Words, Docs
  <2>7. CASE Apply(p, View(r), card[p]) /\ card' = [card EXCEPT ![p] = "none"] /\ UNCHANGED pending
    <3>1. doc' \in [Txs -> Docs] /\ ask' \in [Txs -> Words] /\ attempt' \in [Txs -> BOOLEAN]
      BY <2>7, ApplyType
    <3>2. card' \in [Txs -> {"none", "approved", "declined", "unknown"}]
      BY <2>7
    <3> QED  BY <2>1, <2>2, <2>7, <3>1, <3>2 DEF Words, Docs
  <2> QED  BY <1>15, <2>3, <2>4, <2>5, <2>6, <2>7 DEF SettleCash
<1>16. CASE Asked(p)
  <2>1. ask' \in [Txs -> Words]
    BY <1>16 DEF Asked, Words
  <2>2. pending' \in [Txs -> BOOLEAN]
    <3>1. CASE UNCHANGED pending
      BY <3>1
    <3>2. ASSUME NEW heard \in BOOLEAN, pending' = [pending EXCEPT ![p] = @ /\ ~heard]
          PROVE  pending' \in [Txs -> BOOLEAN]
      <4>1. (pending[p] /\ ~heard) \in BOOLEAN
        BY Zenon
      <4>2. \A b \in BOOLEAN : [pending EXCEPT ![p] = b] \in [Txs -> BOOLEAN]
        OBVIOUS
      <4> QED  BY <3>2, <4>1, <4>2, Zenon
    <3> QED  BY <1>16, <3>1, <3>2 DEF Asked
  <2> QED  BY <1>16, <2>1, <2>2 DEF Asked, Words
<1>17. CASE SettleOrphan(p)
  <2>1. doc' \in [Txs -> Docs]
    BY <1>17, SettleType DEF SettleOrphan, Docs
  <2>2. attempt' \in [Txs -> BOOLEAN]
    BY <1>17 DEF SettleOrphan
  <2> QED  BY <1>17, <2>1, <2>2 DEF SettleOrphan, Docs
<1>18. NotTaken(p) \/ UNCHANGED kioskVars => KioskTypeOK'
  BY <1>3, <1>7
<1>19. CASE LeaveQueue(p) \/ StartRefused(p) \/ RenewLease(p) \/ CustomerCancels(p) \/ CustomerSplits(p) \/ TellDecision(p)
  BY <1>18, <1>19 DEF LeaveQueue, StartRefused, RenewLease, CustomerCancels, CustomerSplits, TellDecision
<1> QED  BY <1>1, <1>2, <1>4, <1>5, <1>6, <1>8, <1>9, <1>10, <1>11, <1>12, <1>13, <1>14, <1>15, <1>16, <1>17,
             <1>19 DEF PayStep

LEMMA StopType == ASSUME KioskTypeOK, NEW c \in Clients, KioskStops(c) \/ KioskStarts(c) PROVE KioskTypeOK'
<1> USE DEF KioskTypeOK
<1>1. CASE KioskStops(c)
  <2>1. running' \in [Clients -> BOOLEAN]
    BY <1>1 DEF KioskStops
  <2>2. pc' \in [Txs -> Live \cup {"idle", "apply", "over"}]
    BY <1>1 DEF KioskStops
  <2>3. seen' \in [Txs -> Views]
    BY <1>1, NoViewType DEF KioskStops, Views
  <2>4. /\ card' \in [Txs -> {"none", "approved", "declined", "unknown"}]
        /\ looked' \in [Txs -> {"no", "pending", "completed", "cancelled"}]
        /\ ask' \in [Txs -> Words]
        /\ late' \in SUBSET Txs
    BY <1>1 DEF KioskStops, Words
  <2> QED  BY <1>1, <2>1, <2>2, <2>3, <2>4 DEF KioskStops, kioskDisk, Views, Words
<1>2. CASE KioskStarts(c)
  BY <1>2 DEF KioskStarts, kioskDisk
<1> QED  BY <1>1, <1>2

LEMMA PayInitType == PayInit => KioskTypeOK
<1> SUFFICES ASSUME PayInit PROVE KioskTypeOK
  OBVIOUS
<1>1. seen \in [Txs -> Views]
  BY NoViewType DEF PayInit
<1> QED  BY <1>1 DEF PayInit, KioskTypeOK, Views, Live

-----------------------------------------------------------------------------
(* A payment the step does not touch. *)

Untouched(p) ==
    /\ doc'[p] = doc[p] /\ pending'[p] = pending[p] /\ decision'[p] = decision[p] /\ attempt'[p] = attempt[p]
    /\ pc'[p] = pc[p] /\ seen'[p] = seen[p] /\ card'[p] = card[p] /\ looked'[p] = looked[p]
    /\ ask'[p] = ask[p] /\ term'[p] = term[p]

LEMMA PaidIsFinal ==
    ASSUME StationInv, NEW p \in Txs
    PROVE  /\ tx[p].outcome = "paid" => Final(tx[p])
           /\ tx[p].split \in Nat
<1>1. Agrees(tx[p], gave[p], got[p], Coming(p)) /\ tx[p] \in Row
  BY RowOf
<1>2. CASE tx[p].state = "none"
  <2>1. tx[p] = NoRow
    BY <1>1, <1>2 DEF Agrees
  <2> QED  BY <1>1, <2>1, RowFields DEF NoRow
<1>3. CASE tx[p].state # "none"
  <2>1. IsOpen(tx[p]) \/ Final(tx[p])
    BY <1>1, <1>3 DEF Row, IsOpen, Final
  <2>2. IsOpen(tx[p]) => tx[p].outcome = "none"
    BY <1>1 DEF Agrees, StepAgrees
  <2> QED  BY <1>1, <2>1, <2>2, RowFields
<1> QED  BY <1>2, <1>3

\* What the station's word and the document say stays true of a row that moves.
LEMMA HeardMoves ==
    ASSUME NEW v, NEW r, NEW s, StillTrue(v, r), Moves(r, s), r.split \in Nat PROVE StillTrue(v, s)
<1>1. r.split = 0 \/ r.split > 0
  OBVIOUS
<1>2. r.split = 0 => ~(r.split > 0) /\ (s.split = 0 => ~(s.split > 0))
  OBVIOUS
<1>3. s.split > 0 => s.split # 0
  OBVIOUS
<1> QED  BY <1>1, <1>2, <1>3 DEF StillTrue, Moves

LEMMA PaymentKept ==
    ASSUME StationInv, NEW p \in Txs, Payment(p), Untouched(p), Moves(tx[p], tx'[p]), NotAcked(tx[p], tx'[p])
    PROVE  Payment(p)'
<1>1. Begun(p)' /\ OneHand(p)'
  BY DEF Payment, Begun, OneHand, Untouched
<1>2. CardAsked(p)'
  BY DEF Payment, CardAsked, Untouched, Moves
<1>3. Heard(p)'
  BY PaidIsFinal, HeardMoves DEF Payment, Heard, Untouched
<1>4. Told(p)'
  BY DEF Payment, Told, Settled, Untouched, Moves
<1>5. Owed(p)'
  <2>1. tx[p].split \in Nat /\ (tx[p].outcome = "paid" => Final(tx[p]))
    BY PaidIsFinal
  <2>2. doc[p] = "cancelled" => Dead(p)' \/ tx'[p].split > 0 \/ (Final(tx'[p]) /\ ~Paid(tx'[p]))
    BY DEF Payment, Owed, Dead, Untouched, Moves
  <2>3. tx'[p].acked /\ Paid(tx'[p]) => doc[p] = "completed"
    BY DEF Payment, Owed, NotAcked
  <2>4. ASSUME doc[p] = "completed"
        PROVE  /\ IF tx'[p].split = 0 THEN tx'[p].outcome = "paid" ELSE term[p] = "approved"
               /\ tx'[p].split = 0 => tx'[p].document \/ pending[p]
    <3>1. CASE tx[p].split = 0
      BY <2>1, <2>4, <3>1 DEF Payment, Owed, Moves
    <3>2. CASE tx[p].split # 0
      <4>1. tx[p].split > 0
        BY <2>1, <3>2
      <4>2. tx'[p].split > 0 => tx'[p].split # 0
        OBVIOUS
      <4> QED  BY <2>4, <3>2, <4>1, <4>2 DEF Payment, Owed, Moves
    <3> QED  BY <3>1, <3>2
  <2> QED  BY <2>2, <2>3, <2>4 DEF Owed, Untouched
<1> QED  BY <1>1, <1>2, <1>3, <1>4, <1>5 DEF Payment

\* A step on one payment touches no other.
LEMMA PayStepOthers ==
    ASSUME KioskTypeOK, NEW p \in Txs, PayStep(p), NEW x \in Txs, x # p
    PROVE  Untouched(x)
<1> USE DEF Untouched, kioskDisk, kioskVars
<1>1. CASE Begin(p) \/ AskLease(p) \/ AskStart(p) \/ StartUnheard(p) \/ LateStart(p)
  BY <1>1 DEF KioskTypeOK, Begin, AskLease, AskStart, StartUnheard, LateStart
<1>2. NotTaken(p) \/ UNCHANGED kioskVars => Untouched(x)
  BY DEF KioskTypeOK, NotTaken, Settle
<1>3. CASE LeaveQueue(p) \/ StartRefused(p) \/ RenewLease(p) \/ CustomerCancels(p) \/ CustomerSplits(p) \/ TellDecision(p)
  BY <1>2, <1>3 DEF LeaveQueue, StartRefused, RenewLease, CustomerCancels, CustomerSplits, TellDecision
<1>4. CASE Poll(p) \/ Lost(p) \/ TerminalDecides(p) \/ SettleBegin(p)
  BY <1>4 DEF KioskTypeOK, Poll, Lost, TerminalDecides, SettleBegin
<1>5. CASE ChargeRest(p) \/ CardAnswers(p)
  BY <1>5 DEF KioskTypeOK, ChargeRest, CardAnswers, Decide
<1>6. ASSUME NEW v, NEW w, Apply(p, v, w)
      PROVE  doc'[x] = doc[x] /\ ask'[x] = ask[x] /\ attempt'[x] = attempt[x]
  BY <1>6 DEF KioskTypeOK, Apply, Settle
<1>7. CASE ApplyOutcome(p)
  BY <1>6, <1>7 DEF KioskTypeOK, ApplyOutcome
<1>8. CASE SettleCash(p)
  <2>1. /\ looked'[x] = looked[x] /\ decision'[x] = decision[x] /\ pc'[x] = pc[x] /\ seen'[x] = seen[x]
        /\ term'[x] = term[x] /\ pending'[x] = pending[x] /\ card'[x] = card[x]
    BY <1>8 DEF KioskTypeOK, SettleCash
  <2>2. doc'[x] = doc[x] /\ ask'[x] = ask[x] /\ attempt'[x] = attempt[x]
    BY <1>6, <1>8 DEF KioskTypeOK, SettleCash, Settle
  <2> QED  BY <2>1, <2>2
<1>9. CASE Asked(p)
  BY <1>9 DEF KioskTypeOK, Asked
<1>10. CASE SettleOrphan(p)
  BY <1>10 DEF KioskTypeOK, SettleOrphan, Settle
<1> QED  BY <1>1, <1>3, <1>4, <1>5, <1>7, <1>8, <1>9, <1>10 DEF PayStep

-----------------------------------------------------------------------------
(* The payment a step is about. *)

\* What is known before a step of p at the station; no acknowledgement.
Before(p) ==
    /\ StationInv /\ PartInv /\ KioskTypeOK /\ Payment(p)
    /\ Moves(tx[p], tx'[p]) /\ NotAcked(tx[p], tx'[p])

\* A document that waits was not acknowledged as paid.
LEMMA WaitingOwed ==
    ASSUME NEW p \in Txs, Before(p), doc'[p] = "pending", doc[p] # "completed" PROVE Owed(p)'
<1>1. ~(tx'[p].acked /\ Paid(tx'[p]))
  BY DEF Before, Payment, Owed, NotAcked
<1> QED  BY <1>1 DEF Owed

LEMMA SeenStays ==
    ASSUME NEW p \in Txs, Before(p), seen'[p] = seen[p], pc'[p] = "apply" => pc[p] = "apply" PROVE Heard(p)'
BY PaidIsFinal, HeardMoves DEF Before, Payment, Heard

LEMMA BeginKeeps == ASSUME NEW p \in Txs, Before(p), Begin(p) PROVE Payment(p)'
<1>1. /\ doc'[p] = "pending" /\ pending'[p] = TRUE /\ pc'[p] = "queue" /\ decision' = decision /\ attempt' = attempt
      /\ seen' = seen /\ card' = card /\ looked' = looked /\ ask' = ask /\ term' = term /\ doc[p] = "none"
  BY DEF Begin, Before, KioskTypeOK
<1>2. decision[p] = "none" /\ looked[p] = "no" /\ ask[p] = "none"
  BY <1>1 DEF Before, Payment, Begun
<1>3. Begun(p)' /\ OneHand(p)' /\ Told(p)'
  BY <1>1, <1>2 DEF Begun, OneHand, Told
<1>4. CardAsked(p)'
  BY <1>1, <1>2 DEF Before, Payment, CardAsked
<1>5. Heard(p)' /\ Owed(p)'
  BY <1>1, SeenStays, WaitingOwed
<1> QED  BY <1>3, <1>4, <1>5 DEF Payment

\* The customer waits, in the queue or for the start.
LEMMA AskLeaseKeeps == ASSUME NEW p \in Txs, Before(p), AskLease(p) PROVE Payment(p)'
<1>1. /\ doc' = doc /\ pending' = pending /\ pc'[p] \in {"queue", "start"} /\ decision' = decision
      /\ attempt' = attempt /\ seen' = seen /\ card' = card /\ looked' = looked /\ ask' = ask /\ term' = term
      /\ pc[p] = "queue"
  BY DEF AskLease, kioskDisk, Before, KioskTypeOK
<1>2. decision[p] = "none" /\ doc[p] = "pending" /\ looked[p] = "no" /\ ask[p] = "none"
  BY <1>1 DEF Before, Payment, CardAsked, OneHand, Live
<1>3. Begun(p)' /\ OneHand(p)' /\ Told(p)'
  BY <1>1, <1>2 DEF Before, Payment, Begun, OneHand, Told
<1>4. CardAsked(p)'
  BY <1>1, <1>2 DEF Before, Payment, CardAsked
<1>5. Heard(p)' /\ Owed(p)'
  BY <1>1, <1>2, SeenStays, WaitingOwed
<1> QED  BY <1>3, <1>4, <1>5 DEF Payment

LEMMA AskStartKeeps == ASSUME NEW p \in Txs, Before(p), AskStart(p) PROVE Payment(p)'
<1>1. /\ doc' = doc /\ pending' = pending /\ pc'[p] \in {"start", "follow"} /\ decision' = decision
      /\ attempt' = attempt /\ card' = card /\ looked' = looked /\ ask' = ask /\ term' = term
      /\ pc[p] = "start"
  BY DEF AskStart, kioskDisk, Before, KioskTypeOK
<1>2. decision[p] = "none" /\ doc[p] = "pending" /\ looked[p] = "no" /\ ask[p] = "none"
  BY <1>1 DEF Before, Payment, CardAsked, OneHand, Live
<1>3. Begun(p)' /\ OneHand(p)' /\ Told(p)'
  BY <1>1, <1>2 DEF Before, Payment, Begun, OneHand, Told
<1>4. CardAsked(p)'
  BY <1>1, <1>2 DEF Before, Payment, CardAsked
<1>5. Heard(p)'
  <2>1. CASE seen' = seen
    BY <1>1, <2>1, SeenStays
  <2>2. CASE seen' = [seen EXCEPT ![p] = [NoView EXCEPT !.state = "LEASED"]]
    <3>1. seen'[p].state = "LEASED"
      BY <2>2 DEF Before, KioskTypeOK, NoView
    <3> QED  BY <1>1, <3>1 DEF Heard, FinalStates
  <2> QED  BY <2>1, <2>2 DEF AskStart
<1>6. Owed(p)'
  BY <1>1, <1>2, WaitingOwed
<1> QED  BY <1>3, <1>4, <1>5, <1>6 DEF Payment

\* Nothing taken: refused, silent or cancelled before the start.
LEMMA NotTakenKeeps ==
    ASSUME NEW p \in Txs, Before(p), pc[p] \in {"queue", "start"}, NotTaken(p) PROVE Payment(p)'
<1>1. decision[p] = "none" /\ doc[p] = "pending" /\ looked[p] = "no" /\ ask[p] = "none"
  BY DEF Before, Payment, CardAsked, OneHand, Live
<1>2. /\ doc'[p] = "cancelled" /\ pending'[p] = FALSE /\ pc'[p] = "over" /\ decision' = decision
      /\ attempt' = attempt /\ seen' = seen /\ card' = card /\ looked' = looked /\ ask' = ask /\ term' = term
  BY <1>1, SettleType DEF NotTaken, Before, KioskTypeOK
<1>3. Begun(p)' /\ OneHand(p)' /\ Told(p)'
  BY <1>1, <1>2 DEF Begun, OneHand, Told, Live
<1>4. CardAsked(p)'
  BY <1>1, <1>2 DEF Before, Payment, CardAsked, Live
<1>5. Heard(p)'
  BY <1>2, SeenStays
<1>6. Dead(p)'
  BY <1>1, <1>2 DEF Dead, Live
<1>7. ~(tx'[p].acked /\ Paid(tx'[p]))
  BY <1>1 DEF Before, Payment, Owed, NotAcked
<1>8. Owed(p)'
  BY <1>2, <1>6, <1>7 DEF Owed
<1> QED  BY <1>3, <1>4, <1>5, <1>8 DEF Payment

\* The document stays; so does what it says, but for a payment the kiosk was done with.
LEMMA OwedStays ==
    ASSUME NEW p \in Txs, Before(p), doc'[p] = doc[p], pending'[p] = pending[p],
           term[p] = "approved" => term'[p] = "approved", Dead(p) => Dead(p)'
    PROVE  Owed(p)'
<1>1. tx[p].split \in Nat /\ (tx[p].outcome = "paid" => Final(tx[p]))
  BY PaidIsFinal DEF Before
<1>2. doc[p] = "cancelled" => Dead(p)' \/ tx'[p].split > 0 \/ (Final(tx'[p]) /\ ~Paid(tx'[p]))
  BY DEF Before, Payment, Owed, Moves
<1>3. tx'[p].acked /\ Paid(tx'[p]) => doc[p] = "completed"
  BY DEF Before, Payment, Owed, NotAcked
<1>4. ASSUME doc[p] = "completed"
      PROVE  /\ IF tx'[p].split = 0 THEN tx'[p].outcome = "paid" ELSE term'[p] = "approved"
             /\ tx'[p].split = 0 => tx'[p].document \/ pending[p]
  <2>1. CASE tx[p].split = 0
    BY <1>1, <1>4, <2>1 DEF Before, Payment, Owed, Moves
  <2>2. CASE tx[p].split # 0
    <3>1. tx[p].split > 0
      BY <1>1, <2>2
    <3>2. tx'[p].split > 0 => tx'[p].split # 0
      OBVIOUS
    <3> QED  BY <1>4, <2>2, <3>1, <3>2 DEF Before, Payment, Owed, Moves
  <2> QED  BY <2>1, <2>2
<1> QED  BY <1>2, <1>3, <1>4 DEF Owed

\* The station's word is heard.
LEMMA PollKeeps == ASSUME NEW p \in Txs, Before(p), Poll(p) PROVE Payment(p)'
<1>1. /\ doc' = doc /\ pending' = pending /\ attempt' = attempt /\ card' = card /\ looked' = looked
      /\ ask' = ask /\ term' = term /\ tx' = tx /\ pc[p] = "follow" /\ seen'[p] = View(tx[p])
      /\ \/ /\ Final(tx[p]) /\ pc'[p] = "apply" /\ (decision'[p] = decision[p] \/ tx[p].state = "PARTIAL")
         \/ /\ ~Final(tx[p]) /\ tx[p].state = "PARTIAL" /\ decision[p] = "none" /\ decision'[p] = "open"
            /\ pc'[p] = "card"
         \/ ~Final(tx[p]) /\ decision'[p] = decision[p] /\ pc'[p] = "follow"
  BY DEF Poll, Before, KioskTypeOK, stationVars
<1>2. looked[p] = "no" /\ ask[p] = "none" /\ (decision[p] = "none" => doc[p] = "pending") /\ ~Dead(p)
  BY <1>1 DEF Before, Payment, CardAsked, OneHand, Live, Dead
<1>3. tx[p].state = "PARTIAL" => tx[p].split > 0 /\ ~Final(tx[p])
  BY PartOf DEF Before, Final, FinalStates
<1>4. Begun(p)' /\ OneHand(p)' /\ Told(p)'
  BY <1>1, <1>2 DEF Before, Payment, Begun, OneHand, Told, Live
<1>5. CardAsked(p)'
  BY <1>1, <1>2, <1>3 DEF Before, Payment, CardAsked, Live
<1>6. Heard(p)'
  <2>1. View(tx[p]).state = tx[p].state /\ View(tx[p]).outcome = tx[p].outcome
        /\ (View(tx[p]).split <=> tx[p].split > 0)
    BY DEF View
  <2>2. Final(tx[p]) => StillTrue(View(tx[p]), tx[p])
    BY <2>1 DEF StillTrue, CashPaid, Paid
  <2> QED  BY <1>1, <2>1, <2>2 DEF Heard, Final
<1>7. Owed(p)'
  BY <1>1, <1>2, OwedStays
<1> QED  BY <1>4, <1>5, <1>6, <1>7 DEF Payment

LEMMA LostKeeps == ASSUME NEW p \in Txs, Before(p), Lost(p) PROVE Payment(p)'
<1>1. /\ doc' = doc /\ pending' = pending /\ attempt' = attempt /\ card' = card /\ looked' = looked
      /\ ask' = ask /\ term' = term /\ tx' = tx /\ pc[p] \in {"start", "follow"} /\ seen' = seen
      /\ decision' = decision /\ pc'[p] = "over"
  BY DEF Lost, Before, KioskTypeOK, stationVars, kioskDisk
<1>2. looked[p] = "no" /\ ask[p] = "none" /\ ~Dead(p)
  BY <1>1 DEF Before, Payment, OneHand, Live, Dead
<1>3. Begun(p)' /\ OneHand(p)' /\ Told(p)'
  BY <1>1, <1>2 DEF Before, Payment, Begun, OneHand, Told, Live
<1>4. CardAsked(p)'
  BY <1>1 DEF Before, Payment, CardAsked, Live
<1>5. Heard(p)' /\ Owed(p)'
  BY <1>1, <1>2, SeenStays, OwedStays
<1> QED  BY <1>3, <1>4, <1>5 DEF Payment

\* The card is asked for the rest.
LEMMA ChargeRestKeeps == ASSUME NEW p \in Txs, Before(p), ChargeRest(p) PROVE Payment(p)'
<1>1. /\ doc' = doc /\ pending' = pending /\ looked' = looked /\ ask' = ask /\ tx' = tx /\ seen' = seen
      /\ pc[p] = "card"
      /\ \/ /\ attempt'[p] = TRUE /\ term'[p] = "open" /\ pc'[p] = "charging"
            /\ card' = card /\ decision' = decision
         \/ /\ attempt' = attempt /\ term' = term /\ pc'[p] = "follow"
            /\ card'[p] = "declined" /\ decision'[p] = "cancel"
  BY DEF ChargeRest, Decide, Before, KioskTypeOK, stationVars
<1>2. /\ looked[p] = "no" /\ ask[p] = "none" /\ doc[p] = "pending" /\ decision[p] # "none"
      /\ ~attempt[p] /\ card[p] = "none" /\ tx[p].split > 0 /\ pending[p]
  BY <1>1 DEF Before, Payment, Begun, CardAsked, OneHand, Live
<1>3. Begun(p)' /\ OneHand(p)' /\ Told(p)'
  BY <1>1, <1>2 DEF Begun, OneHand, Told
<1>4. CardAsked(p)'
  BY <1>1, <1>2 DEF CardAsked
<1>5. Heard(p)' /\ Owed(p)'
  BY <1>1, <1>2, SeenStays, WaitingOwed
<1> QED  BY <1>3, <1>4, <1>5 DEF Payment

LEMMA TerminalKeeps == ASSUME NEW p \in Txs, Before(p), TerminalDecides(p) PROVE Payment(p)'
<1>1. /\ doc' = doc /\ pending' = pending /\ attempt' = attempt /\ card' = card /\ looked' = looked
      /\ ask' = ask /\ tx' = tx /\ seen' = seen /\ decision' = decision /\ pc' = pc
      /\ term[p] = "open" /\ term'[p] \in {"approved", "declined"}
  BY DEF TerminalDecides, Before, KioskTypeOK, stationVars, kioskDisk
<1>2. decision[p] # "none" /\ card[p] # "approved" /\ pc[p] # "card"
  BY <1>1 DEF Before, Payment, CardAsked
<1>3. Begun(p)' /\ OneHand(p)' /\ Told(p)'
  BY <1>1 DEF Before, Payment, Begun, OneHand, Told, Settled
<1>4. CardAsked(p)'
  BY <1>1, <1>2 DEF Before, Payment, CardAsked
<1>5. Heard(p)' /\ Owed(p)'
  BY <1>1, SeenStays, OwedStays DEF Dead
<1> QED  BY <1>3, <1>4, <1>5 DEF Payment

LEMMA CardAnswersKeeps == ASSUME NEW p \in Txs, Before(p), CardAnswers(p) PROVE Payment(p)'
<1>1. /\ doc' = doc /\ pending' = pending /\ looked' = looked /\ ask' = ask /\ tx' = tx /\ seen' = seen
      /\ term' = term /\ pc[p] = "charging" /\ pc'[p] = "follow" /\ decision'[p] \in {"finish", "cancel"}
      /\ \/ attempt' = attempt /\ term[p] = "approved" /\ card'[p] = "approved"
         \/ card'[p] # "approved"
  BY DEF CardAnswers, Decide, Before, KioskTypeOK, stationVars
<1>2. /\ looked[p] = "no" /\ ask[p] = "none" /\ doc[p] = "pending" /\ decision[p] # "none"
      /\ attempt[p] /\ tx[p].split > 0 /\ pending[p]
  BY <1>1 DEF Before, Payment, Begun, CardAsked, OneHand, Live
<1>3. Begun(p)' /\ OneHand(p)' /\ Told(p)'
  BY <1>1, <1>2 DEF Begun, OneHand, Told
<1>4. CardAsked(p)'
  BY <1>1, <1>2 DEF CardAsked
<1>5. Heard(p)' /\ Owed(p)'
  BY <1>1, <1>2, SeenStays, WaitingOwed
<1> QED  BY <1>3, <1>4, <1>5 DEF Payment

\* The station's word v of an ended row, and the card's, become the document's end.
LEMMA ApplyKeeps ==
    ASSUME NEW p \in Txs, Before(p), ~Dead(p), doc[p] # "none", NEW v, StillTrue(v, tx[p]), Apply(p, v, card[p]),
           UNCHANGED tx, pending'[p] = pending[p], term'[p] = term[p]
    PROVE  /\ doc[p] # "pending" => doc'[p] = doc[p]
           /\ doc'[p] # "none"
           /\ doc'[p] = "pending" => doc[p] = "pending"
           /\ attempt'[p] => attempt[p]
           /\ ask'[p] = ask[p] \/ ask'[p] \in {"ack", "void"}
           /\ Told(p)' /\ Owed(p)'
<1> DEFINE r == tx[p]
<1>1. /\ Final(r) /\ r.split \in Nat /\ doc[p] \in {"pending", "completed", "cancelled"}
      /\ doc[p] = "pending" => pending[p]
      /\ doc[p] = "cancelled" => r.split > 0 \/ ~Paid(r)
      /\ tx'[p] = r
  BY PaidIsFinal DEF Before, StillTrue, KioskTypeOK, Payment, Owed, Begun
<1>2. r.split > 0 => r.split # 0
  OBVIOUS
<1>3. r.acked /\ Paid(r) => doc[p] = "completed"
  BY DEF Before, Payment, Owed
<1>4. doc[p] = "completed" => /\ IF r.split = 0 THEN r.outcome = "paid" ELSE term[p] = "approved"
                              /\ r.split = 0 => r.document \/ pending[p]
  BY DEF Before, Payment, Owed
<1> HIDE DEF r
<1>5. ASSUME doc'[p] = (IF doc[p] = "pending" THEN "completed" ELSE doc[p]),
             IF r.split = 0 THEN r.outcome = "paid" ELSE term[p] = "approved"
      PROVE  Owed(p)'
  BY <1>1, <1>3, <1>4, <1>5 DEF Owed
<1>6. CASE CashPaid(v) /\ ~v.split /\ Settle(p, "completed") /\ ask' = [ask EXCEPT ![p] = "ack"] /\ UNCHANGED attempt
  <2>1. doc'[p] = (IF doc[p] = "pending" THEN "completed" ELSE doc[p]) /\ ask'[p] = "ack"
    BY <1>6, SettleType DEF Before, KioskTypeOK
  <2>2. r.split = 0 /\ r.outcome = "paid"
    BY <1>1, <1>6 DEF StillTrue, CashPaid, r
  <2>3. Owed(p)'
    BY <1>5, <2>1, <2>2
  <2>4. doc[p] = "cancelled" => ~Paid(r)
    BY <1>1, <2>2
  <2>5. Told(p)'
    BY <1>1, <2>1, <2>4 DEF Told, Settled
  <2> QED  BY <1>1, <1>6, <2>1, <2>3, <2>5
<1>7. CASE /\ CashPaid(v) /\ v.split /\ CardPaid(card[p]) /\ Settle(p, "completed")
           /\ attempt' = [attempt EXCEPT ![p] = FALSE] /\ ask' = [ask EXCEPT ![p] = "ack"]
  <2>1. doc'[p] = (IF doc[p] = "pending" THEN "completed" ELSE doc[p]) /\ ask'[p] = "ack" /\ ~attempt'[p]
    BY <1>7, SettleType DEF Before, KioskTypeOK
  <2>2. r.split > 0 /\ term[p] = "approved" /\ doc[p] # "cancelled"
    BY <1>7 DEF StillTrue, CardPaid, Before, Payment, CardAsked, r
  <2>3. Owed(p)'
    BY <1>2, <1>5, <2>1, <2>2
  <2>4. Told(p)'
    BY <1>1, <2>1, <2>2 DEF Told, Settled
  <2> QED  BY <1>1, <2>1, <2>3, <2>4
<1>8. CASE /\ CashPaid(v) /\ v.split /\ ~CardPaid(card[p])
           /\ ask' = [ask EXCEPT ![p] = IF doc[p] = "pending" THEN @ ELSE SplitWord(doc[p])]
           /\ UNCHANGED <<doc, attempt>>
  <2>1. /\ doc' = doc /\ attempt' = attempt
        /\ ask'[p] = IF doc[p] = "pending" THEN ask[p] ELSE SplitWord(doc[p])
    BY <1>8 DEF Before, KioskTypeOK
  <2>2. r.split > 0
    BY <1>8 DEF StillTrue, r
  <2>3. ask[p] \in {"ack", "void"} => doc[p] # "pending"
    BY DEF Before, Payment, Told, Settled
  <2>4. Told(p)'
    BY <1>1, <2>1, <2>2, <2>3 DEF Told, Settled, SplitWord
  <2>5. Owed(p)'
    BY <1>1, <1>3, <1>4, <2>1, <2>2 DEF Owed
  <2> QED  BY <1>1, <2>1, <2>4, <2>5 DEF SplitWord
<1>9. CASE ~CashPaid(v) /\ Settle(p, "cancelled") /\ ask' = [ask EXCEPT ![p] = "ack"] /\ UNCHANGED attempt
  <2>1. doc'[p] = (IF doc[p] = "pending" THEN "cancelled" ELSE doc[p]) /\ ask'[p] = "ack"
    BY <1>9, SettleType DEF Before, KioskTypeOK
  <2>2. ~Paid(r)
    BY <1>9 DEF StillTrue, r
  <2>3. Told(p)'
    BY <1>1, <2>1, <2>2 DEF Told, Settled
  <2>4. Owed(p)'
    BY <1>1, <1>4, <2>1, <2>2 DEF Owed
  <2> QED  BY <1>1, <1>9, <2>1, <2>3, <2>4
<1> QED  BY <1>6, <1>7, <1>8, <1>9 DEF Apply

LEMMA ApplyOutcomeKeeps == ASSUME NEW p \in Txs, Before(p), ApplyOutcome(p) PROVE Payment(p)'
<1>1. /\ pending' = pending /\ looked' = looked /\ tx' = tx /\ seen' = seen /\ decision' = decision
      /\ term' = term /\ pc[p] = "apply" /\ pc'[p] = "over" /\ card'[p] = "none" /\ Apply(p, seen[p], card[p])
  BY DEF ApplyOutcome, Before, KioskTypeOK, stationVars
<1>2. ~Dead(p) /\ doc[p] # "none" /\ StillTrue(seen[p], tx[p])
  BY <1>1 DEF Before, Payment, Dead, Begun, Heard
<1>3. /\ doc[p] # "pending" => doc'[p] = doc[p]
      /\ doc'[p] # "none" /\ (doc'[p] = "pending" => doc[p] = "pending") /\ (attempt'[p] => attempt[p])
      /\ Told(p)' /\ Owed(p)'
  BY <1>1, <1>2, ApplyKeeps
<1>4. Begun(p)' /\ OneHand(p)'
  BY <1>1, <1>3 DEF Before, Payment, Begun, OneHand, Live
<1>5. CardAsked(p)'
  BY <1>1, <1>3 DEF Before, Payment, CardAsked, Live
<1>6. Heard(p)'
  BY <1>1, SeenStays
<1> QED  BY <1>3, <1>4, <1>5, <1>6 DEF Payment

LEMMA SettleBeginKeeps == ASSUME NEW p \in Txs, Before(p), SettleBegin(p) PROVE Payment(p)'
<1>1. /\ doc' = doc /\ pending' = pending /\ attempt' = attempt /\ card' = card /\ looked'[p] = doc[p]
      /\ ask' = ask /\ term' = term /\ tx' = tx /\ seen' = seen /\ decision' = decision /\ pc' = pc
      /\ pending[p] /\ pc[p] \notin Live /\ ask[p] = "none"
  BY DEF SettleBegin, Before, KioskTypeOK, stationVars, kioskDisk
<1>2. Begun(p)' /\ OneHand(p)' /\ Told(p)'
  BY <1>1 DEF Before, Payment, Begun, OneHand, Told
<1>3. CardAsked(p)'
  BY <1>1 DEF Before, Payment, CardAsked
<1>4. Heard(p)' /\ Owed(p)'
  BY <1>1, SeenStays, OwedStays DEF Dead
<1> QED  BY <1>2, <1>3, <1>4 DEF Payment

\* settleCash asks the station, with the document it read before.
LEMMA SettleCashKeeps == ASSUME NEW p \in Txs, Before(p), SettleCash(p) PROVE Payment(p)'
<1> DEFINE r == tx[p]
           splitPaid == r.split > 0 /\ Paid(r)
<1>1. /\ looked[p] # "no" /\ ask[p] = "none" /\ looked'[p] = "no" /\ tx' = tx /\ decision' = decision
      /\ pc' = pc /\ seen' = seen /\ term' = term
  BY DEF SettleCash, Before, KioskTypeOK, stationVars
<1>2. /\ pc[p] \notin Live /\ ~Dead(p) /\ doc[p] \in {"pending", "completed", "cancelled"}
      /\ looked[p] \in {"pending", "completed", "cancelled"}
      /\ looked[p] \in {"completed", "cancelled"} => doc[p] = looked[p]
      /\ doc[p] = "pending" => pending[p]
  BY <1>1 DEF Before, Payment, Begun, OneHand, Dead, KioskTypeOK
<1>3. /\ Paid(r) => Final(r)
      /\ r.split \in Nat
      /\ r.split > 0 => r.split # 0
      /\ r.split = 0 => ~(r.split > 0)
      /\ doc[p] = "cancelled" => r.split > 0 \/ ~Paid(r)
      /\ r.acked /\ Paid(r) => doc[p] = "completed"
  BY <1>2, PaidIsFinal DEF Before, Payment, Owed, Paid
<1>4. Heard(p)'
  BY <1>1, SeenStays
\* What every branch leaves: no card word gained, and a document that only gets its end.
<1>5. ASSUME doc[p] # "pending" => doc'[p] = doc[p],
             doc'[p] \in {"completed", "cancelled"} \/ (doc'[p] = "pending" /\ pending'[p]),
             attempt'[p] => attempt[p], card'[p] = "none"
      PROVE  Begun(p)' /\ CardAsked(p)' /\ OneHand(p)'
  BY <1>1, <1>2, <1>5 DEF Before, Payment, Begun, CardAsked, OneHand, Live
<1>6. ASSUME attempt' = attempt, card' = card, doc' = doc, pending' = pending
      PROVE  Begun(p)' /\ CardAsked(p)' /\ OneHand(p)' /\ Owed(p)'
  <2>1. Begun(p)' /\ CardAsked(p)' /\ OneHand(p)'
    BY <1>1, <1>2, <1>6 DEF Before, Payment, Begun, CardAsked, OneHand
  <2>2. Owed(p)'
    BY <1>1, <1>2, <1>6, OwedStays
  <2> QED  BY <2>1, <2>2
<1>7. CASE r = NoRow /\ Settle(p, "cancelled") /\ pending' = [pending EXCEPT ![p] = FALSE] /\ UNCHANGED <<ask, attempt, card>>
  <2>1. /\ doc'[p] = (IF doc[p] = "pending" THEN "cancelled" ELSE doc[p])
        /\ pending'[p] = FALSE /\ ask' = ask /\ attempt' = attempt /\ card' = card
    BY <1>7, SettleType DEF Before, KioskTypeOK
  <2>2. r.state = "none" /\ r.split = 0 /\ r.outcome = "none" /\ r.acked = FALSE
    BY <1>7 DEF NoRow
  <2>3. decision[p] = "none" /\ ~attempt[p] /\ term[p] = "none" /\ card[p] = "none" /\ pc[p] # "apply" /\ doc[p] # "completed"
    BY <1>3, <2>2 DEF Before, Payment, CardAsked, Heard, StillTrue, Final, FinalStates, Owed
  <2>4. Begun(p)' /\ CardAsked(p)' /\ OneHand(p)'
    BY <1>2, <1>5, <2>1, <2>3
  <2>5. Told(p)'
    BY <1>1, <2>1 DEF Told
  <2>6. Dead(p)'
    BY <1>1, <1>2, <2>1, <2>3 DEF Dead
  <2>7. Owed(p)'
    BY <1>1, <1>2, <2>1, <2>2, <2>3, <2>6 DEF Owed
  <2> QED  BY <1>4, <2>4, <2>5, <2>7 DEF Payment
<1>8. CASE /\ ask' = [ask EXCEPT ![p] = IF r.state = "PARTIAL" /\ CardMayHave(p) THEN "finish" ELSE "cancel"]
           /\ UNCHANGED <<doc, pending, attempt, card>>
  <2>1. ask'[p] \in {"finish", "cancel"}
    BY <1>8 DEF Before, KioskTypeOK
  <2>2. Told(p)'
    BY <2>1 DEF Told
  <2> QED  BY <1>4, <1>6, <1>8, <2>2 DEF Payment
<1>9. CASE /\ Final(r) /\ looked[p] # "pending"
           /\ ask' = [ask EXCEPT ![p] = IF splitPaid THEN SplitWord(looked[p]) ELSE "ack"]
           /\ UNCHANGED <<doc, pending, attempt, card>>
  <2>1. ask'[p] = IF splitPaid THEN SplitWord(looked[p]) ELSE "ack"
    BY <1>9 DEF Before, KioskTypeOK
  <2>2. doc[p] = looked[p] /\ doc[p] \in {"completed", "cancelled"}
    BY <1>2, <1>9
  <2>3. Told(p)'
    BY <1>1, <1>3, <1>9, <2>1, <2>2 DEF Told, Settled, SplitWord
  <2> QED  BY <1>4, <1>6, <1>9, <2>3 DEF Payment
<1>10. CASE splitPaid /\ attempt[p] /\ UNCHANGED <<doc, ask, pending, attempt, card>>
  <2>1. Told(p)'
    BY <1>1, <1>10 DEF Told
  <2> QED  BY <1>4, <1>6, <1>10, <2>1 DEF Payment
<1>11. CASE /\ splitPaid /\ ~attempt[p]
            /\ Settle(p, "cancelled") /\ ask' = [ask EXCEPT ![p] = "void"] /\ UNCHANGED <<pending, attempt, card>>
  <2>1. /\ doc'[p] = (IF doc[p] = "pending" THEN "cancelled" ELSE doc[p])
        /\ pending' = pending /\ ask'[p] = "void" /\ attempt' = attempt /\ card' = card
    BY <1>11, SettleType DEF Before, KioskTypeOK
  <2>2. card[p] = "approved" => doc[p] = "completed"
    BY <1>2, <1>11 DEF Before, Payment, CardAsked
  <2>3. Begun(p)' /\ OneHand(p)'
    BY <1>1, <1>2, <2>1 DEF Begun, OneHand
  <2>4. CardAsked(p)'
    BY <1>1, <1>2, <2>1, <2>2 DEF Before, Payment, CardAsked
  <2>5. Told(p)'
    BY <1>1, <1>2, <1>3, <1>11, <2>1 DEF Told, Settled
  <2>6. doc[p] = "completed" => term[p] = "approved"
    BY <1>3, <1>11 DEF Before, Payment, Owed
  <2>7. Owed(p)'
    BY <1>1, <1>2, <1>3, <1>11, <2>1, <2>6 DEF Owed
  <2> QED  BY <1>4, <2>3, <2>4, <2>5, <2>7 DEF Payment
<1>12. CASE Final(r) /\ Apply(p, View(r), card[p]) /\ card' = [card EXCEPT ![p] = "none"] /\ UNCHANGED pending
  <2>1. card'[p] = "none" /\ pending' = pending
    BY <1>12 DEF Before, KioskTypeOK
  <2>2. View(r).state = r.state /\ View(r).outcome = r.outcome /\ (View(r).split <=> r.split > 0)
    BY DEF View
  <2>3. StillTrue(View(r), r)
    BY <1>12, <2>2 DEF StillTrue, CashPaid, Paid
  <2>4. /\ doc[p] # "pending" => doc'[p] = doc[p]
        /\ doc'[p] # "none" /\ (attempt'[p] => attempt[p])
        /\ Told(p)' /\ Owed(p)'
    BY <1>1, <1>2, <1>12, <2>1, <2>3, ApplyKeeps
  <2>5. doc'[p] \in Docs
    <3>1. doc' \in [Txs -> Docs]
      BY <1>12, ApplyType DEF Before
    <3> QED  BY <3>1
  <2>6. doc'[p] = "pending" => pending'[p]
    BY <1>2, <2>1, <2>4
  <2>7. Begun(p)' /\ CardAsked(p)' /\ OneHand(p)'
    BY <1>5, <2>1, <2>4, <2>5, <2>6 DEF Docs
  <2> QED  BY <1>4, <2>4, <2>7 DEF Payment
<1> QED  BY <1>7, <1>8, <1>9, <1>10, <1>11, <1>12 DEF SettleCash

\* The attempt of a card whose word was not known gets the terminal's.
LEMMA SettleOrphanKeeps == ASSUME NEW p \in Txs, Before(p), SettleOrphan(p) PROVE Payment(p)'
<1>1. /\ pending' = pending /\ decision' = decision /\ pc' = pc /\ seen' = seen /\ card' = card
      /\ looked' = looked /\ ask' = ask /\ term' = term /\ tx' = tx
      /\ attempt[p] /\ pc[p] # "charging" /\ attempt'[p] = FALSE
      /\ doc[p] # "pending" => doc'[p] = doc[p]
      /\ \/ doc[p] # "pending"
         \/ doc[p] = "pending" /\ term[p] = "approved" /\ doc'[p] = "completed"
         \/ doc[p] = "pending" /\ term[p] = "declined" /\ doc'[p] = "cancelled"
  BY SettleType DEF SettleOrphan, Before, KioskTypeOK, stationVars
<1>2. decision[p] # "none" /\ tx[p].split > 0 /\ pc[p] # "card" /\ doc[p] # "none"
      /\ pc[p] \notin {"queue", "start", "card", "charging"}
  BY <1>1 DEF Before, Payment, Begun, CardAsked
<1>3. doc'[p] # "pending" /\ doc'[p] # "none"
  BY <1>1, <1>2
<1>4. Begun(p)'
  BY <1>3 DEF Begun
<1>5. CardAsked(p)'
  BY <1>1, <1>2, <1>3 DEF Before, Payment, CardAsked
<1>6. OneHand(p)'
  BY <1>1 DEF Before, Payment, OneHand
<1>7. Told(p)'
  BY <1>1 DEF Before, Payment, Told, Settled
<1>8. Heard(p)'
  BY <1>1, SeenStays
<1>9. Owed(p)'
  <2>1. tx[p].split # 0
    BY <1>2
  <2> QED  BY <1>1, <1>2, <2>1 DEF Before, Payment, Owed
<1> QED  BY <1>4, <1>5, <1>6, <1>7, <1>8, <1>9 DEF Payment

\* The call it awaited, but for an acknowledgement that was served.
LEMMA AskedKeeps == ASSUME NEW p \in Txs, Before(p), Asked(p), pending' = pending PROVE Payment(p)'
<1>1. /\ doc' = doc /\ attempt' = attempt /\ card' = card /\ looked' = looked /\ ask[p] # "none" /\ ask'[p] = "none"
      /\ term' = term /\ seen' = seen /\ decision' = decision /\ pc' = pc
  BY DEF Asked, Before, KioskTypeOK
<1>2. Begun(p)' /\ OneHand(p)' /\ Told(p)'
  BY <1>1 DEF Before, Payment, Begun, OneHand, Told
<1>3. CardAsked(p)'
  BY <1>1 DEF Before, Payment, CardAsked, Moves
<1>4. Heard(p)'
  BY <1>1, SeenStays
<1>5. Owed(p)'
  BY <1>1, OwedStays DEF Dead
<1> QED  BY <1>2, <1>3, <1>4, <1>5 DEF Payment

\* The acknowledgement: the station is told of the document, and keeps what it then owes.
LEMMA AckKeeps ==
    ASSUME NEW p \in Txs, StationInv, KioskTypeOK, Payment(p), Moves(tx[p], tx'[p]), Asked(p),
           ask[p] \in {"ack", "void"}, Ack(p, doc[p] = "completed", ask[p] = "void")
    PROVE  Payment(p)'
<1> DEFINE r == tx[p]
           s == tx'[p]
<1>1. /\ doc' = doc /\ attempt' = attempt /\ card' = card /\ looked' = looked /\ ask'[p] = "none"
      /\ term' = term /\ seen' = seen /\ decision' = decision /\ pc' = pc
  BY DEF Asked, KioskTypeOK
<1>2. /\ Final(r) /\ Settled(p) /\ ~Dead(p)
      /\ ask[p] = "ack" /\ Paid(r) => doc[p] = "completed"
      /\ ask[p] = "void" => r.split > 0
  BY DEF Payment, Told, Dead
<1>3. r.split \in Nat /\ (r.split > 0 => r.split # 0) /\ (s.split > 0 => s.split # 0) /\ (r.split # 0 => r.split > 0)
  <2>1. r.split \in Nat
    BY PaidIsFinal
  <2> HIDE DEF r, s
  <2> QED  BY <2>1
<1>4. s = Acked(r, doc[p] = "completed", ask[p] = "void")
  BY TxType DEF Ack, StationInv
<1>5. r \in Row
  BY TxType DEF StationInv
<1>6. Paid(s) => Paid(r) /\ ~(ask[p] = "void" /\ r.split > 0)
  <2>1. CASE ask[p] = "void" /\ Paid(r) /\ r.split > 0
    <3>1. s.state = "HELD"
      BY <1>4, <1>5, <2>1 DEF Acked, Hold, Row
    <3> QED  BY <3>1 DEF Paid
  <2>2. CASE ~(ask[p] = "void" /\ Paid(r) /\ r.split > 0)
    <3>1. s.state = r.state /\ s.outcome = r.outcome
      BY <1>4, <1>5, <2>2 DEF Acked, Row
    <3> QED  BY <2>2, <3>1 DEF Paid
  <2> QED  BY <2>1, <2>2
<1>7. doc[p] = "completed" /\ r.split = 0 => s.document
  BY <1>3, <1>4, <1>5 DEF Acked, Row
<1>8. Moves(r, s)
  OBVIOUS
<1>9. Heard(p)'
  BY <1>1, <1>3, <1>8, HeardMoves DEF Payment, Heard
<1>10. s = tx[p]'
  OBVIOUS
<1> HIDE DEF r, s
<1>11. Begun(p)' /\ OneHand(p)' /\ Told(p)'
  BY <1>1, <1>2 DEF Payment, Begun, OneHand, Told, Settled
<1>12. CardAsked(p)'
  BY <1>1, <1>8, <1>10 DEF Payment, CardAsked, Moves, r
<1>13. Owed(p)'
  <2>1. doc[p] = "cancelled" => s.split > 0 \/ (Final(s) /\ ~Paid(s))
    BY <1>2, <1>8 DEF Payment, Owed, Moves, r
  <2>2. s.acked /\ Paid(s) => doc[p] = "completed"
    BY <1>2, <1>6
  <2>3. doc[p] = "completed" => IF s.split = 0 THEN s.outcome = "paid" ELSE term[p] = "approved"
    BY <1>2, <1>3, <1>8 DEF Payment, Owed, Moves, r
  <2>4. doc[p] = "completed" /\ s.split = 0 => s.document
    BY <1>3, <1>7, <1>8 DEF Moves
  <2> QED  BY <1>1, <1>10, <2>1, <2>2, <2>3, <2>4 DEF Owed
<1> QED  BY <1>9, <1>11, <1>12, <1>13 DEF Payment

-----------------------------------------------------------------------------
(* The invariant of every payment. *)

\* A step on a payment that is about something else of it: the lease, a late start, a word to the station.
LEMMA AsideKeeps ==
    ASSUME NEW p \in Txs, Before(p),
           \/ StartUnheard(p) \/ LateStart(p) \/ RenewLease(p) \/ CustomerCancels(p) \/ CustomerSplits(p)
           \/ TellDecision(p)
    PROVE  Payment(p)'
<1>1. Untouched(p)
  BY DEF StartUnheard, LateStart, RenewLease, CustomerCancels, CustomerSplits, TellDecision, Untouched,
         kioskVars, kioskDisk
<1> QED  BY <1>1, PaymentKept DEF Before

LEMMA PayStepKeeps ==
    ASSUME StationInv, PartInv, KioskTypeOK, NEW p \in Txs, Payment(p), PayStep(p)
    PROVE  Payment(p)'
<1>1. Follows({p}) /\ (~Asked(p) => Follows({}))
  BY PayStepFollows
<1>2. Moves(tx[p], tx'[p])
  BY <1>1 DEF Follows
<1>3. Follows({}) => Before(p)
  BY <1>2 DEF Follows, Before
<1>4. CASE Asked(p)
  <2>1. CASE Asking \/ UNCHANGED stationVars
    <3>1. Before(p)
      BY <1>3, <2>1, AskingFollows, StillFollows
    <3>2. CASE pending' = pending
      BY <1>4, <3>1, <3>2, AskedKeeps
    <3>3. CASE ask[p] \in {"ack", "void"} /\ Ack(p, doc[p] = "completed", ask[p] = "void")
      BY <1>2, <1>4, <3>3, AckKeeps
    <3> QED  BY <1>4, <3>2, <3>3 DEF Asked
  <2>2. CASE ask[p] \in {"ack", "void"} /\ Ack(p, doc[p] = "completed", ask[p] = "void")
    BY <1>2, <1>4, <2>2, AckKeeps
  <2> QED  BY <2>1, <2>2, PayStepCalls
<1>5. CASE ~Asked(p)
  <2>1. Before(p)
    BY <1>1, <1>3, <1>5
  <2>2. CASE LeaveQueue(p) \/ StartRefused(p)
    <3>1. NotTaken(p) /\ pc[p] \in {"queue", "start"}
      BY <2>2 DEF LeaveQueue, StartRefused
    <3> QED  BY <2>1, <3>1, NotTakenKeeps
  <2>3. CASE \/ StartUnheard(p) \/ LateStart(p) \/ RenewLease(p) \/ CustomerCancels(p) \/ CustomerSplits(p)
             \/ TellDecision(p)
    BY <2>1, <2>3, AsideKeeps
  <2>4. CASE Begin(p) \/ AskLease(p) \/ AskStart(p)
    BY <2>1, <2>4, BeginKeeps, AskLeaseKeeps, AskStartKeeps
  <2>5. CASE Poll(p) \/ Lost(p) \/ ChargeRest(p) \/ TerminalDecides(p) \/ CardAnswers(p)
    BY <2>1, <2>5, PollKeeps, LostKeeps, ChargeRestKeeps, TerminalKeeps, CardAnswersKeeps
  <2>6. CASE ApplyOutcome(p) \/ SettleBegin(p) \/ SettleCash(p) \/ SettleOrphan(p)
    BY <2>1, <2>6, ApplyOutcomeKeeps, SettleBeginKeeps, SettleCashKeeps, SettleOrphanKeeps
  <2> QED  BY <1>5, <2>2, <2>3, <2>4, <2>5, <2>6 DEF PayStep
<1> QED  BY <1>4, <1>5

\* The kiosk's app stops: what was in its memory is gone, and nothing else.
LEMMA StopKeeps ==
    ASSUME NEW p \in Txs, Before(p), UNCHANGED tx, NEW c \in Clients, KioskStops(c) \/ KioskStarts(c)
    PROVE  Payment(p)'
<1>1. CASE Untouched(p)
  BY <1>1, PaymentKept DEF Before
<1>2. CASE KioskStops(c) /\ KioskOf[p] = c
  <2>1. /\ doc' = doc /\ pending' = pending /\ decision' = decision /\ attempt' = attempt /\ term' = term /\ tx' = tx
        /\ pc'[p] \in {"idle", "over"} /\ seen'[p] = NoView /\ card'[p] = "none"
        /\ looked'[p] = "no" /\ ask'[p] = "none"
    BY <1>2 DEF KioskStops, kioskDisk
  <2>2. Begun(p)' /\ OneHand(p)' /\ Told(p)' /\ Heard(p)'
    BY <2>1 DEF Before, Payment, Begun, OneHand, Told, Heard, Live, NoView, FinalStates
  <2>3. CardAsked(p)'
    BY <2>1 DEF Before, Payment, CardAsked, Live
  <2>4. Owed(p)'
    BY <2>1, OwedStays DEF Dead, Live
  <2> QED  BY <2>2, <2>3, <2>4 DEF Payment
<1>3. CASE KioskStops(c) /\ KioskOf[p] # c
  BY <1>1, <1>3 DEF KioskStops, kioskDisk, Untouched
<1>4. CASE KioskStarts(c)
  BY <1>1, <1>4 DEF KioskStarts, kioskDisk, Untouched
<1> QED  BY <1>2, <1>3, <1>4

LEMMA PayInitInv == PayInit => PayInv
<1> SUFFICES ASSUME PayInit PROVE PayInv
  OBVIOUS
<1>1. StationInv /\ PartInv /\ KioskTypeOK
  BY InitInv, InitParts, PayInitType DEF PayInit
<1>2. ASSUME NEW p \in Txs PROVE Payment(p)
  <2>1. tx[p] = NoRow
    BY <1>2 DEF PayInit, Init
  <2>2. tx[p].acked = FALSE
    BY <2>1 DEF NoRow
  <2> QED  BY <1>2, <2>2 DEF PayInit, Payment, Begun, CardAsked, OneHand, Heard, Told, Owed, Settled, Live, NoView,
                              FinalStates
<1> QED  BY <1>1, <1>2 DEF PayInv

LEMMA PayStepInv == PayInv /\ [PayNext]_vars => PayInv'
<1> SUFFICES ASSUME PayInv, [PayNext]_vars PROVE PayInv'
  OBVIOUS
<1> USE DEF PayInv
<1>1. ASSUME NEW p \in Txs, PayStep(p) PROVE PayInv'
  <2>1. StationInv' /\ Follows({p})
    BY <1>1, PayStepFollows
  <2>2. KioskTypeOK'
    <3>1. pending[p] => doc[p] # "none"
      BY DEF Payment, Begun
    <3>2. TypeOK
      BY DEF StationInv
    <3> QED  BY <1>1, <3>1, <3>2, PayStepType
  <2>3. ASSUME NEW x \in Txs, x # p PROVE Payment(x)'
    <3>1. Untouched(x)
      BY <1>1, <2>3, PayStepOthers
    <3>2. Moves(tx[x], tx'[x]) /\ NotAcked(tx[x], tx'[x])
      BY <2>1, <2>3 DEF Follows
    <3> QED  BY <3>1, <3>2, PaymentKept
  <2>4. Payment(p)'
    BY <1>1, PayStepKeeps
  <2>5. \A x \in Txs : Payment(x)'
    BY <2>3, <2>4
  <2> QED  BY <2>1, <2>2, <2>5 DEF Follows
<1>2. ASSUME ~\E p \in Txs : PayStep(p) PROVE PayInv'
  <2>1. StationInv' /\ Follows({})
    BY <1>2, OtherStepFollows
  <2>2. \A x \in Txs : Before(x)
    BY <2>1 DEF Follows, Before
  <2>3. CASE UNCHANGED kioskVars
    <3>1. KioskTypeOK'
      BY <2>3 DEF KioskTypeOK, kioskVars, kioskDisk
    <3>2. ASSUME NEW x \in Txs PROVE Payment(x)'
      <4>1. Untouched(x)
        BY <2>3 DEF kioskVars, kioskDisk, Untouched
      <4> QED  BY <2>2, <4>1, PaymentKept DEF Before
    <3> QED  BY <2>1, <3>1, <3>2 DEF Follows
  <2>4. ASSUME NEW c \in Clients, KioskStops(c) \/ KioskStarts(c) PROVE PayInv'
    <3>1. KioskTypeOK'
      BY <2>4, StopType
    <3>2. UNCHANGED tx
      BY <2>4 DEF KioskStops, KioskStarts, stationVars
    <3>3. ASSUME NEW x \in Txs PROVE Payment(x)'
      BY <2>2, <2>4, <3>2, StopKeeps
    <3> QED  BY <2>1, <3>1, <3>3 DEF Follows
  <2> QED  BY <1>2, <2>3, <2>4 DEF PayNext, vars
<1> QED  BY <1>1, <1>2

\* The inductive invariant: what the station keeps of its rows and of the parts of a sale, and what the
\* kiosk keeps of every payment (service.ts runCash, applyCashOutcome, settleCash, settleOrphans).
THEOREM PaymentsCorrect == PaySpec => []PayInv
BY PayInitInv, PayStepInv, PTL DEF PaySpec

\* Everything a kiosk keeps of its payments, on its disk and in its memory, stays what its types say.
THEOREM PayTypeCorrect == PaySpec => []KioskTypeOK
<1>1. PayInv => KioskTypeOK
  BY DEF PayInv
<1> QED  BY <1>1, PaymentsCorrect, PTL

\* A document is completed only on money that was taken: the station's cash, or the card's for the
\* rest of a split, whatever calls were lost and whenever the app stopped (applyCashOutcome, settleCash,
\* settleOrphans in main/service.ts).
THEOREM NoDocumentUnpaid == PaySpec => []CompletedWasPaid
<1>1. PayInv => CompletedWasPaid
  BY DEF PayInv, Payment, Owed, CompletedWasPaid
<1> QED  BY <1>1, PaymentsCorrect, PTL

\* The station is never told it may forget money of a sale whose document was cancelled: it is given
\* back or kept as the customer's credit (the ack and void words of applySplitPaid and settleCash).
THEOREM NoMoneyUnowed == PaySpec => []CancelledIsOwed
<1>1. ASSUME PayInv, NEW p \in Txs, doc[p] = "cancelled", Paid(tx[p]) PROVE ~tx[p].acked
  BY <1>1 DEF PayInv, Payment, Owed
<1>2. PayInv => CancelledIsOwed
  BY <1>1 DEF CancelledIsOwed
<1> QED  BY <1>2, PaymentsCorrect, PTL

\* A credit held for a cash sale that has its document has the station told of it, or a kiosk that
\* still has to tell it (cash.pending is only removed on an acknowledgement that was heard).
THEOREM NoCreditTwice == PaySpec => []HeldKnowsDocument
<1>1. PayInv => HeldKnowsDocument
  BY DEF PayInv, Payment, Owed, HeldKnowsDocument
<1> QED  BY <1>1, PaymentsCorrect, PTL

-----------------------------------------------------------------------------
(* The kiosks are clients of the station. *)

\* A transaction, and the row a tick will write of it, is of the kiosk that makes the payment.
Owned ==
    /\ \A p \in Txs : tx[p].state # "none" => tx[p].client = KioskOf[p]
    /\ Writes => tick.row.client = KioskOf[tick.on]

\* A row written over another is of the same client.
SameClient(r, s) == s = r \/ (r.state # "none" /\ s.client = r.client)

LEMMA RowsOfClient ==
    ASSUME NEW z \in Row, NEW n \in Nat, NEW m \in Nat, NEW why
    PROVE  /\ [z EXCEPT !.paid = n].client = z.client
           /\ [z EXCEPT !.inserted = n].client = z.client
           /\ [z EXCEPT !.changeOwed = n].client = z.client
           /\ [z EXCEPT !.acked = TRUE].client = z.client
           /\ [z EXCEPT !.grace = m].client = z.client
           /\ Refund(z).client = z.client
           /\ PaidUp(z).client = z.client
           /\ Hold(z, why, n).client = z.client
           /\ Refunded(z).client = z.client
           /\ [z EXCEPT !.state = "DONE", !.outcome = "refunded", !.step = "none", !.paid = n].client = z.client
           /\ [z EXCEPT !.state = "SETTLING", !.step = "closing"].client = z.client
           /\ [z EXCEPT !.splitAsked = TRUE, !.state = "SETTLING", !.step = "closing"].client = z.client
           /\ [z EXCEPT !.state = "PAYING_CHANGE", !.step = "paying", !.changeDue = n].client = z.client
           /\ [z EXCEPT !.step = "paying"].client = z.client
           /\ [z EXCEPT !.state = "ACCEPTING", !.start = n, !.startPaid = m].client = z.client
           /\ [z EXCEPT !.state = "PARTIAL", !.step = "none", !.split = n, !.due = n].client = z.client
<1> USE DEF Row
<1>1. /\ [z EXCEPT !.paid = n].client = z.client /\ [z EXCEPT !.inserted = n].client = z.client
      /\ [z EXCEPT !.changeOwed = n].client = z.client /\ [z EXCEPT !.acked = TRUE].client = z.client
      /\ [z EXCEPT !.grace = m].client = z.client /\ [z EXCEPT !.step = "paying"].client = z.client
  OBVIOUS
<1>2. Refund(z).client = z.client /\ PaidUp(z).client = z.client
  BY DEF Refund, PaidUp
<1>3. Hold(z, why, n).client = z.client
  BY DEF Hold
<1>4. Refunded(z).client = z.client
  BY DEF Refunded, Hold
<1>5. /\ [z EXCEPT !.state = "DONE", !.outcome = "refunded", !.step = "none", !.paid = n].client = z.client
      /\ [z EXCEPT !.state = "SETTLING", !.step = "closing"].client = z.client
      /\ [z EXCEPT !.splitAsked = TRUE, !.state = "SETTLING", !.step = "closing"].client = z.client
      /\ [z EXCEPT !.state = "PAYING_CHANGE", !.step = "paying", !.changeDue = n].client = z.client
  OBVIOUS
<1>6. /\ [z EXCEPT !.state = "ACCEPTING", !.start = n, !.startPaid = m].client = z.client
      /\ [z EXCEPT !.state = "PARTIAL", !.step = "none", !.split = n, !.due = n].client = z.client
  OBVIOUS
<1> QED  BY <1>1, <1>2, <1>3, <1>4, <1>5, <1>6

LEMMA DriveOfClient ==
    ASSUME TypeOK, NEW r \in Row, IsOpen(r), NEW l \in BOOLEAN, NEW d \in Drive(r, l)
    PROVE  d.row.client = r.client
<1> DEFINE s == Seen(r)
           o == PaidSince(r)
           u == [s EXCEPT !.paid = o]
           change == AtLeast0(s.inserted - r.due)
           owed == AtLeast0(r.changeDue - u.paid)
           Of(z) == z.client = r.client
<1>1. s \in Row /\ u \in Row /\ o \in Nat /\ valueIn \in Nat /\ paidOut \in Nat /\ s.inserted \in Nat
  BY SeenType, RowTypes, RowFields DEF TypeOK
<1>2. Of(r) /\ Of(s)
  BY DEF Seen, Row
<1>3. Of(u)
  BY <1>1, <1>2, RowsOfClient
<1>4. change \in Nat /\ owed \in Nat /\ r.split \in Nat
  BY <1>1, RowFields DEF AtLeast0
<1> DEFINE w == [u EXCEPT !.changeOwed = owed]
<1>5. w \in Row
  BY <1>1, <1>4, RowTypes
<1>6. Of(w)
  BY <1>1, <1>3, <1>4, RowsOfClient
<1> HIDE DEF s, u, o, change, owed, w
<1>7. /\ Of([r EXCEPT !.state = "ACCEPTING", !.start = valueIn, !.startPaid = paidOut])
      /\ Of([s EXCEPT !.state = "SETTLING", !.step = "closing"])
      /\ Of(Refund(s)) /\ Of(PaidUp(s))
      /\ Of([s EXCEPT !.state = "PARTIAL", !.step = "none", !.split = s.inserted, !.due = s.inserted])
      /\ Of([s EXCEPT !.state = "PAYING_CHANGE", !.step = "paying", !.changeDue = change])
      /\ Of(PaidUp(w))
      /\ Of(Hold(s, "split_timeout", r.split))
      /\ Of(Refunded(u))
      /\ Of([u EXCEPT !.step = "paying"])
  BY <1>1, <1>2, <1>3, <1>4, <1>5, <1>6, RowsOfClient
<1> HIDE DEF Of
<1>8. r.state = "LEASED" =>
          d = Driven([r EXCEPT !.state = "ACCEPTING", !.start = valueIn, !.startPaid = paidOut], r.due, 0, TRUE)
  BY DriveCases
<1>9. r.state = "ACCEPTING" =>
         \/ d = Driven([s EXCEPT !.state = "SETTLING", !.step = "closing"], Closed, 0, FALSE)
         \/ d = Driven(Refund(s), Closed, 0, FALSE)
         \/ d = Driven(s, Closed, 0, FALSE)
         \/ d = Quietly(Refund(s))
         \/ d = Driven(s, r.due - s.inserted, 0, FALSE)
  BY DriveCases DEF s
<1>10. r.state = "SETTLING" =>
         \/ d = Driven(r, Closed, 0, FALSE)
         \/ d = Quietly([s EXCEPT !.state = "PARTIAL", !.step = "none", !.split = s.inserted, !.due = s.inserted])
         \/ d = Quietly(PaidUp(s))
         \/ d = Driven([s EXCEPT !.state = "PAYING_CHANGE", !.step = "paying", !.changeDue = change],
                       Closed, change, TRUE)
  BY DriveCases DEF s, change
<1>11. r.state = "PAYING_CHANGE" => d = Quietly(u) \/ d = Quietly(PaidUp(w))
  BY DriveCases DEF w, owed, u, s, o
<1>12. r.state = "PARTIAL" =>
         \/ d = Driven(s, Closed, 0, FALSE)
         \/ d = Driven(Hold(s, "split_timeout", r.split), Closed, 0, FALSE)
         \/ d = Driven(Refund(s), Closed, 0, FALSE)
  BY DriveCases DEF s
<1>13. r.state = "REFUNDING" =>
         \/ d = Quietly(u) \/ d = Quietly(Refunded(u)) \/ d = Driven(r, Closed, 0, FALSE)
         \/ d = Driven([u EXCEPT !.step = "paying"], Closed, u.inserted - u.paid, TRUE)
  BY DriveCases DEF u, s, o
<1> USE DEF Driven, Quietly
<1>14. r.state = "LEASED" => Of(d.row)
  BY <1>7, <1>8
<1>15. r.state = "ACCEPTING" => Of(d.row)
  BY <1>2, <1>7, <1>9
<1>16. r.state = "SETTLING" => Of(d.row)
  BY <1>2, <1>7, <1>10
<1>17. r.state = "PAYING_CHANGE" => Of(d.row)
  BY <1>3, <1>7, <1>11
<1>18. r.state = "PARTIAL" => Of(d.row)
  BY <1>2, <1>7, <1>12
<1>19. r.state = "REFUNDING" => Of(d.row)
  BY <1>2, <1>3, <1>7, <1>13
<1> QED  BY <1>14, <1>15, <1>16, <1>17, <1>18, <1>19 DEF IsOpen, OpenStates, Of

LEMMA ClientKept ==
    ASSUME Owned, \A p \in Txs : SameClient(tx[p], tx'[p]), Writes' => Writes /\ UNCHANGED tick PROVE Owned'
<1>1. \A p \in Txs : tx'[p].state # "none" => tx'[p].client = KioskOf[p]
  BY DEF Owned, SameClient
<1>2. Writes' => tick'.row.client = KioskOf[tick'.on]
  BY DEF Owned
<1> QED  BY <1>1, <1>2 DEF Owned

LEMMA TickOfClient ==
    ASSUME StationInv, Owned, NEW gone, NEW l \in BOOLEAN, TickBegin(gone, l) PROVE Owned'
<1>1. TypeOK
  BY DEF StationInv
<1>2. ASSUME NEW x \in Txs
      PROVE  /\ SameClient(tx[x], Expired(gone)[x]) /\ Expired(gone)[x] \in Row
             /\ IsOpen(Expired(gone)[x]) <=> IsOpen(tx[x])
  <2>1. tx[x] \in Row /\ Expired(gone)[x] \in Row /\ (IsOpen(Expired(gone)[x]) <=> IsOpen(tx[x]))
    BY <1>1, TxType, ExpiredRow
  <2>2. Expired(gone)[x] = tx[x] \/ (Expired(gone)[x] = [tx[x] EXCEPT !.grace = TRUE] /\ tx[x].state \in Graceful)
    BY DEF Expired
  <2>3. [tx[x] EXCEPT !.grace = TRUE].client = tx[x].client
    BY <2>1 DEF Row
  <2> QED  BY <2>1, <2>2, <2>3 DEF SameClient, Graceful
<1>3. CASE TickIdle
  <2>1. ~Writes' /\ tx' = tx
    BY <1>3 DEF TickIdle, NoTick, Writes
  <2> QED  BY <2>1, ClientKept DEF SameClient
<1>4. CASE ~TickIdle
  <2>1. PICK p \in OpenTxs : LET r == Expired(gone)[p] IN
          \E d \in Drive(r, l /\ (r.grace => tx[p].grace)) : TickDrive(gone, p, r, d)
    BY <1>4 DEF TickBegin
  <2> DEFINE r == Expired(gone)[p]  ll == l /\ (r.grace => tx[p].grace)
  <2>2. PICK d \in Drive(r, ll) : TickDrive(gone, p, r, d)
    BY <2>1
  <2>3. p \in Txs /\ IsOpen(tx[p]) /\ ll \in BOOLEAN /\ Expired(gone) \in [Txs -> Row]
    BY <1>1, ExpiredRow DEF OpenTxs
  <2>4. r \in Row /\ IsOpen(r) /\ SameClient(tx[p], r) /\ tx[p].state # "none"
    BY <1>2, <2>3 DEF IsOpen, OpenStates
  <2>5. r.client = KioskOf[p]
    BY <2>3, <2>4 DEF SameClient, Owned
  <2>6. /\ tx'[p] = IF d.first THEN d.row ELSE r
        /\ \A x \in Txs : x # p => tx'[x] = Expired(gone)[x]
        /\ Writes' => tick'.on = p /\ tick'.row = d.row
    BY <2>2, <2>3 DEF TickDrive, Writes
  <2> HIDE DEF r, ll
  <2>7. d.row.client = KioskOf[p]
    BY <1>1, <2>2, <2>3, <2>4, <2>5, DriveOfClient
  <2>8. \A x \in Txs : x # p => SameClient(tx[x], tx'[x])
    BY <1>2, <2>6
  <2>9. \A x \in Txs : tx'[x].state # "none" => tx'[x].client = KioskOf[x]
    BY <2>5, <2>6, <2>7, <2>8 DEF SameClient, Owned
  <2> QED  BY <2>6, <2>7, <2>9 DEF Owned
<1> QED  BY <1>3, <1>4

LEMMA TickEndOfClient == ASSUME StationInv, Owned, TickEnd PROVE Owned'
<1>1. ~Writes'
  BY DEF TickEnd, NoTick, Writes
<1>2. ASSUME NEW p \in Txs PROVE tx'[p].state # "none" => tx'[p].client = KioskOf[p]
  <2>1. PICK s \in Row : /\ s = (IF Writes /\ p = tick.on THEN tick.row ELSE tx[p])
                         /\ \/ tx'[p] = s
                            \/ Paid(s) /\ tx'[p] = Hold(s, "unacked", AtLeast0(s.due - s.changeOwed))
    BY TickEnds
  <2>2. s.state # "none" => s.client = KioskOf[p]
    BY <2>1 DEF Owned
  <2>3. AtLeast0(s.due - s.changeOwed) \in Nat
    BY RowFields DEF AtLeast0
  <2>4. Hold(s, "unacked", AtLeast0(s.due - s.changeOwed)).client = s.client
    BY <2>3, RowsOfClient
  <2> QED  BY <2>1, <2>2, <2>4 DEF Paid
<1> QED  BY <1>1, <1>2 DEF Owned

LEMMA RecoverOfClient == ASSUME StationInv, Owned, Recover PROVE Owned'
<1>1. ~Writes'
  BY DEF Recover, StationInv, Control, Writes
<1>2. PICK b \in BOOLEAN : tx' = [p \in Txs |-> IF IsOpen(tx[p]) THEN RecoveredRow(tx[p], b) ELSE tx[p]]
  BY DEF Recover
<1>3. ASSUME NEW p \in Txs PROVE SameClient(tx[p], tx'[p])
  <2> DEFINE r == tx[p]
  <2>1. r \in Row /\ tx'[p] = IF IsOpen(r) THEN RecoveredRow(r, b) ELSE r
    BY <1>2, TxType DEF StationInv
  <2>2. RecoveredRow(r, b).client = r.client
    BY <2>1 DEF RecoveredRow, Hold, Seen, Row
  <2>3. IsOpen(r) => r.state # "none"
    BY DEF IsOpen, OpenStates
  <2> QED  BY <2>1, <2>2, <2>3 DEF SameClient
<1> QED  BY <1>1, <1>3, ClientKept

LEMMA HostOfClient == ASSUME StationInv, Owned, HostStep \/ UnitStep PROVE Owned'
<1>1. ASSUME NEW p \in Txs PROVE SameClient(tx[p], tx[p])
  BY DEF SameClient
<1>2. CASE Crash \/ LoseDevice \/ OpenDevice \/ Boot
  <2>1. tx' = tx /\ (Writes' => Writes /\ UNCHANGED tick)
    BY <1>2 DEF Crash, LoseDevice, OpenDevice, Boot, unit, memory, NoTick, Writes
  <2> QED  BY <1>1, <2>1, ClientKept
<1>3. CASE UnitStep
  <2>1. tx' = tx
    BY <1>3 DEF UnitStep, Insert, PayoutBegins, PayOut, PayoutEnds, Watchdog
  <2>2. Writes' => Writes /\ tick'.row = tick.row /\ tick'.on = tick.on
    BY <1>3 DEF UnitStep, Insert, PayoutBegins, PayOut, PayoutEnds, Watchdog, memory, Writes, StationInv, TypeOK
  <2> QED  BY <2>1, <2>2 DEF Owned
<1> QED  BY <1>2, <1>3, TickOfClient, TickEndOfClient, RecoverOfClient DEF HostStep

\* What a kiosk calls, of its own payment.
LEMMA KioskCalls ==
    ASSUME NEW p \in Txs, PayStep(p)
    PROVE  \/ UNCHANGED stationVars
           \/ Lease(KioskOf[p]) \/ Release(KioskOf[p]) \/ Start(KioskOf[p], p)
           \/ Cancel(p) \/ Split(p) \/ Finish(p)
           \/ Ack(p, doc[p] = "completed", ask[p] = "void")
<1>1. CASE Begin(p) \/ StartUnheard(p) \/ Poll(p) \/ Lost(p) \/ ChargeRest(p) \/ TerminalDecides(p) \/ CardAnswers(p)
  BY <1>1 DEF Begin, StartUnheard, Poll, Lost, ChargeRest, TerminalDecides, CardAnswers
<1>2. CASE ApplyOutcome(p) \/ SettleBegin(p) \/ SettleCash(p) \/ SettleOrphan(p)
  BY <1>2 DEF ApplyOutcome, SettleBegin, SettleCash, SettleOrphan
<1>3. CASE AskLease(p) \/ LeaveQueue(p) \/ StartRefused(p) \/ RenewLease(p)
  BY <1>3 DEF AskLease, LeaveQueue, StartRefused, RenewLease
<1>4. CASE AskStart(p) \/ LateStart(p) \/ CustomerCancels(p) \/ CustomerSplits(p) \/ TellDecision(p)
  BY <1>4 DEF AskStart, LateStart, CustomerCancels, CustomerSplits, TellDecision
<1>5. CASE Asked(p)
  BY <1>5 DEF Asked
<1> QED  BY <1>1, <1>2, <1>3, <1>4, <1>5 DEF PayStep

LEMMA CallOfClient ==
    ASSUME StationInv, Owned, NEW p \in Txs, PayStep(p)
    PROVE  Owned' /\ ((\E c \in Clients : Calls(c)) \/ UNCHANGED stationVars)
<1> DEFINE k == KioskOf[p]
<1>1. k \in Clients /\ tx \in [Txs -> Row] /\ tx[p] \in Row
  BY KioskAssumption, TxType DEF StationInv
<1>2. ASSUME UNCHANGED tick, NEW q, tx' = [tx EXCEPT ![p] = q], q.client = k PROVE Owned'
  BY <1>1, <1>2 DEF Owned, Writes
<1>3. ASSUME UNCHANGED <<tick, tx>> PROVE Owned'
  BY <1>3 DEF Owned, Writes
<1>4. tx[p].state # "none" => tx[p].client = k
  BY DEF Owned
<1>5. CASE UNCHANGED stationVars
  BY <1>3, <1>5 DEF stationVars, memory
<1>6. CASE Start(k, p)
  <2> DEFINE q == [NoRow EXCEPT !.client = k, !.state = "LEASED", !.due = Due, !.start = valueIn, !.startPaid = paidOut]
  <2>1. tx' = [tx EXCEPT ![p] = q] /\ UNCHANGED tick
    BY <1>6 DEF Start
  <2>2. q.client = k
    BY DEF NoRow
  <2> HIDE DEF q
  <2>3. Owned'
    BY <1>2, <2>1, <2>2
  <2> QED  BY <1>1, <1>6, <2>3 DEF Calls
<1>7. CASE Release(k)
  BY <1>1, <1>3, <1>7 DEF Release, Calls
<1>8. CASE Lease(k)
  <2>1. Writes' => Writes /\ UNCHANGED tick
    BY <1>8 DEF Lease, Writes
  <2>2. ASSUME NEW x \in Txs PROVE SameClient(tx[x], tx'[x])
    <3>1. CASE UNCHANGED tx
      BY <3>1 DEF SameClient
    <3>2. CASE ~UNCHANGED tx
      <4>1. PICK y \in Txs : IsOpen(tx[y]) /\ tx' = [tx EXCEPT ![y].grace = FALSE]
        BY <1>1, <1>8, <3>2 DEF Lease, Renew, StationInv, TypeOK
      <4>2. [tx[y] EXCEPT !.grace = FALSE].client = tx[y].client /\ tx[y].state # "none"
        BY <1>1, <4>1 DEF Row, IsOpen, OpenStates
      <4>3. tx'[x] = tx[x] \/ (x = y /\ tx'[x] = [tx[y] EXCEPT !.grace = FALSE])
        BY <1>1, <4>1
      <4> QED  BY <4>2, <4>3 DEF SameClient
    <3> QED  BY <3>1, <3>2
  <2>3. Owned'
    BY <2>1, <2>2, ClientKept
  <2> QED  BY <1>1, <1>8, <2>3 DEF Calls
<1>9. ASSUME Cancel(p) \/ Split(p) \/ Finish(p) \/ Ack(p, doc[p] = "completed", ask[p] = "void")
      PROVE  Owned' /\ Calls(k)
  <2>1. tx[p].client = k
    BY <1>4, <1>9 DEF Cancel, Split, Finish, Ack, Final, FinalStates
  <2>2. PICK q : tx' = [tx EXCEPT ![p] = q] /\ q.client = k /\ UNCHANGED tick
    <3>1. CASE Cancel(p)
      BY <1>1, <2>1, <3>1, RowsOfClient DEF Cancel, memory
    <3>2. CASE Split(p)
      BY <1>1, <2>1, <3>2, RowsOfClient DEF Split
    <3>3. CASE Finish(p)
      <4>1. [tx[p] EXCEPT !.changeDue = 0] \in Row /\ [tx[p] EXCEPT !.changeDue = 0].client = k
        <5>1. [tx[p] EXCEPT !.changeDue = 0] \in Row
          BY <1>1, RowTypes
        <5> QED  BY <1>1, <2>1, <5>1 DEF Row
      <4>2. PaidUp([tx[p] EXCEPT !.changeDue = 0]).client = k
        BY <4>1, RowsOfClient
      <4> QED  BY <3>3, <4>2 DEF Finish, memory
    <3>4. CASE Ack(p, doc[p] = "completed", ask[p] = "void")
      <4>1. Acked(tx[p], doc[p] = "completed", ask[p] = "void").client = k
        BY <1>1, <2>1 DEF Acked, Hold, Row
      <4> QED  BY <3>4, <4>1 DEF Ack
    <3> QED  BY <1>9, <3>1, <3>2, <3>3, <3>4
  <2>3. Ack(p, doc[p] = "completed", ask[p] = "void") => \E d \in BOOLEAN, v \in BOOLEAN : Ack(p, d, v)
    OBVIOUS
  <2> QED  BY <1>2, <1>9, <2>1, <2>2, <2>3 DEF Calls
<1> QED  BY <1>1, <1>5, <1>6, <1>7, <1>8, <1>9, KioskCalls

\* The shop with its kiosks takes no step at the station that the station's specification does not
\* allow: every call is a client's, on its own lease or its own transaction, however late it arrives
\* (host.ts and client.ts between cashPay.ts and station.ts).
THEOREM KiosksAreClients == PaySpec => Spec
<1> DEFINE I == StationInv /\ Owned
<1>1. PayInit => Init /\ I
  <2>1. Init => Owned
    BY DEF Init, Owned, NoRow, NoTick, Writes
  <2> QED  BY <2>1, InitInv DEF PayInit
<1>2. I /\ [PayNext]_vars => I' /\ [Next]_stationVars
  <2> SUFFICES ASSUME StationInv, Owned, [PayNext]_vars PROVE I' /\ [Next]_stationVars
    OBVIOUS
  <2>1. [Next]_stationVars /\ Owned'
    <3>1. CASE HostStep \/ UnitStep
      BY <3>1, HostOfClient DEF Next
    <3>2. ASSUME NEW p \in Txs, PayStep(p) PROVE [Next]_stationVars /\ Owned'
      BY <3>2, CallOfClient DEF Next
    <3>3. CASE UNCHANGED stationVars
      <4>1. UNCHANGED <<tick, tx>>
        BY <3>3 DEF stationVars, memory
      <4> QED  BY <3>3, <4>1 DEF Owned, Writes
    <3>4. ASSUME NEW c \in Clients, KioskStops(c) \/ KioskStarts(c) PROVE UNCHANGED stationVars
      BY <3>4 DEF KioskStops, KioskStarts
    <3> QED  BY <3>1, <3>2, <3>3, <3>4 DEF PayNext, vars
  <2>2. StationInv'
    BY <2>1, StationStep, NextIsStep
  <2> QED  BY <2>1, <2>2
<1> HIDE DEF I
<1> QED  BY <1>1, <1>2, PTL DEF PaySpec, Spec

\* So what is proved of the station is true of a shop with kiosks: one customer's money at a time, nothing
\* paid twice or without the journal, and an end that stays (station.ts under cashPay.ts and service.ts).
THEOREM StationHolds == PaySpec => []OneCustomer /\ []NeverPaysMore /\ []PaysFromJournal /\ EndsForGood
BY KiosksAreClients, OneAtATime, NothingPaidTwice, PaidFromJournal, EndIsTheEnd, PTL

=============================================================================
