------------------------- MODULE CashStationProofs -------------------------
(***************************************************************************)
(* The money of the cash station: for any clients, transactions, prices    *)
(* and coins, the machine holds one customer's money at a time, and the    *)
(* rows of the journal agree with what went in and out.                    *)
(*                                                                         *)
(* What is proved of the station's steps is proved of Step, which leaves   *)
(* out who calls: CashPay's kiosks take no other steps at the station.     *)
(***************************************************************************)
EXTENDS CashStation, FiniteSetTheorems, TLAPS

-----------------------------------------------------------------------------
(* The inductive invariant, in parts. *)

\* The host reads the unit before it ticks; until it has read it, no money moves.
Control ==
    /\ recovered => opened
    /\ opened => up
    /\ tick.busy => recovered
    /\ ~tick.busy => tick = NoTick
    /\ opened /\ ~recovered => ~accepting /\ payout.left = 0

\* Those who joined before a client hold a lease, any two are in order, and a
\* transaction a lease is on was started.
LeaseOrder ==
    /\ \A c \in Clients : \A d \in leases[c].ahead : Holds(d)
    /\ \A c, d \in Clients : Holds(c) /\ Holds(d) /\ c # d
                               => c \in leases[d].ahead \/ d \in leases[c].ahead
    /\ \A c \in Clients : leases[c].on # None => Holds(c) /\ tx[leases[c].on].state # "none"

\* An open transaction is its client's, at the head of the queue.
OpenIsLeased ==
    recovered => \A p \in Txs : IsOpen(tx[p]) => \E c \in Clients : leases[c].on = p /\ AtHead(c)

\* While money may move, one transaction is open.
OneOpen ==
    recovered \/ accepting \/ payout.left > 0 =>
        \A p, q \in Txs : IsOpen(tx[p]) /\ IsOpen(tx[q]) => p = q

\* The row a tick is going to write.
Writes == tick.busy /\ tick.save

Paying(r) == r.state \in {"PAYING_CHANGE", "REFUNDING"} /\ r.step = "paying"

\* A row that may still be given money.
Taking(r) == r.state \in {"ACCEPTING", "SETTLING"} \/ (r.state = "REFUNDING" /\ r.step = "closing")

\* What is on its way out to the customer of p.
Coming(p) == (IF payout.on = p THEN payout.left ELSE 0) + (IF tick.on = p THEN tick.pay ELSE 0)

\* The row's step is that of its state.
StepAgrees(r) ==
    /\ r.state \in {"none", "LEASED", "ACCEPTING", "PARTIAL", "DONE", "HELD"} => r.step = "none"
    /\ r.state = "SETTLING" => r.step = "closing"
    /\ r.state = "PAYING_CHANGE" => r.step = "paying"
    /\ r.state = "REFUNDING" => r.step \in {"closing", "paying"}
    /\ IsOpen(r) => r.outcome = "none" /\ r.changeOwed = 0 /\ r.heldReason = "none"
    /\ r.state = "DONE" => r.outcome \in {"paid", "refunded"} /\ r.heldReason = "none"

\* The row agrees with what its customer put in, got back and is about to get.
Agrees(r, in, out, coming) ==
    /\ StepAgrees(r)
    /\ out + coming <= in
    /\ coming > 0 => Paying(r)
    /\ r.state = "none" => r = NoRow /\ in = 0
    /\ r.state = "LEASED" => in = 0
    /\ r.state \in {"LEASED", "ACCEPTING", "SETTLING", "PARTIAL"} => out = 0
    /\ r.state \in {"LEASED", "ACCEPTING", "SETTLING", "PAYING_CHANGE"} => r.split = 0
    /\ r.state = "SETTLING" => r.splitAsked \/ in >= r.due
    /\ r.state = "PARTIAL" => r.inserted = in /\ r.split = in /\ r.due = in
    /\ r.state = "PAYING_CHANGE" => r.changeDue + r.due = in /\ out + coming <= r.changeDue
    /\ Paid(r) => in - out = r.due + r.changeOwed
    /\ Paid(r) /\ r.split > 0 => r.due = r.split /\ r.changeOwed = 0
    /\ r.state = "DONE" /\ r.outcome = "refunded" => in = out
    /\ r.state = "HELD" /\ r.heldReason # "consistency" /\ (r.heldReason = "unacked" => r.changeOwed = 0)
         => in - out = r.held

\* An open row counts from where the counters stood.
Counts(r, in, out) == IsOpen(r) => valueIn - r.start = in /\ paidOut - r.startPaid = out

RowsAgree ==
    /\ \A p \in Txs : Agrees(tx[p], gave[p], got[p], Coming(p)) /\ Counts(tx[p], gave[p], got[p])
    /\ Writes => /\ Agrees(tick.row, gave[tick.on], got[tick.on], Coming(tick.on))
                 /\ Counts(tick.row, gave[tick.on], got[tick.on])

\* The acceptors are open for the open transaction, while it may be given money, and
\* the station knows.
Acceptance ==
    accepting =>
        /\ \E p \in Txs : IsOpen(tx[p])
        /\ \A p \in Txs : IsOpen(tx[p]) => Taking(tx[p])
        /\ Writes => Taking(tick.row)
        /\ IF tick.sent THEN tick.wants # Closed ELSE lastAcceptance # Closed

\* A tick asks for a payout of the row it wrote, with none running.
Asks ==
    /\ tick.pay > 0 => Writes /\ payout.left = 0
    /\ payout.left > 0 => payout.on # None

\* What a tick writes over what the calls did meanwhile.
SaveSafe ==
    Writes =>
        /\ tick.on # None /\ tx[tick.on].state # "none"
        /\ tick.row.state \notin {"none", "LEASED"}
        /\ IsOpen(tick.row) => IsOpen(tx[tick.on])
        /\ tick.row.state = "PARTIAL" => ~tick.io /\ ~tick.sent /\ lastAcceptance = Closed
        /\ tick.io /\ tx[tick.on].state = "PARTIAL"
             => tick.row.state = "HELD" /\ tick.row.heldReason = "split_timeout"
        /\ Final(tx[tick.on]) =>
             /\ tick.row.state = "HELD" /\ tick.row.heldReason = "split_timeout"
             /\ Paid(tx[tick.on]) \/ (tx[tick.on].state = "HELD" /\ tx[tick.on].held = tick.row.held)

\* A grace that runs out on a cash part finds the acceptors closed: such a tick awaits nothing.
GraceClosed ==
    recovered => \A p \in Txs : tx[p].state = "PARTIAL" /\ tx[p].grace =>
        IF tick.sent THEN tick.wants = Closed ELSE lastAcceptance = Closed

LeaseInv == LeaseOrder /\ OpenIsLeased /\ OneOpen
MoneyInv == RowsAgree /\ Acceptance /\ Asks /\ SaveSafe /\ GraceClosed

StationInv == TypeOK /\ Control /\ LeaseInv /\ MoneyInv
-----------------------------------------------------------------------------
(* The steps, whoever calls. *)

Call ==
    \/ \E c \in Clients : Lease(c) \/ Release(c) \/ \E p \in Txs : Start(c, p)
    \/ \E p \in Txs : Cancel(p) \/ Split(p) \/ Finish(p)
                        \/ \E d \in BOOLEAN, v \in BOOLEAN : Ack(p, d, v)

Step == HostStep \/ UnitStep \/ Call

LEMMA NextIsStep == Next => Step
<1> SUFFICES ASSUME NEW c \in Clients, Calls(c) PROVE Call
  BY DEF Next, Step
<1> QED  BY DEF Calls, Call

-----------------------------------------------------------------------------
(* Types. *)

LEMMA UnsureType == Unsure \in Int /\ Unsure # Closed
BY SMT DEF Unsure, Closed

LEMMA NoRowType == NoRow \in Row /\ NoRow.state = "none" /\ ~IsOpen(NoRow) /\ ~Paying(NoRow)
BY DEF NoRow, Row, IsOpen, OpenStates, Paying

\* What the rows become is typed.
LEMMA SeenType ==
    ASSUME TypeOK, NEW r \in Row
    PROVE  Seen(r) \in Row /\ PaidSince(r) \in Nat
BY DEF TypeOK, Row, Seen, PaidSince, AtLeast0

LEMMA RowTypes ==
    ASSUME NEW r \in Row
    PROVE  /\ Refund(r) \in Row
           /\ PaidUp(r) \in Row
           /\ \A n \in Nat : \A why \in {"power_loss", "consistency", "short", "unacked",
                                          "split_timeout", "split_void"} : Hold(r, why, n) \in Row
           /\ \A n \in Nat : [r EXCEPT !.paid = n] \in Row /\ [r EXCEPT !.changeDue = n] \in Row
                                /\ [r EXCEPT !.changeOwed = n] \in Row /\ [r EXCEPT !.inserted = n] \in Row
           /\ \A b \in BOOLEAN : [r EXCEPT !.acked = b] \in Row /\ [r EXCEPT !.grace = b] \in Row
                                    /\ [r EXCEPT !.document = b] \in Row
<1>1. Refund(r) \in Row  BY DEF Row, Refund, OpenStates
<1>2. PaidUp(r) \in Row  BY DEF Row, PaidUp, FinalStates
<1>3. ASSUME NEW n \in Nat, NEW why \in {"power_loss", "consistency", "short", "unacked",
                                          "split_timeout", "split_void"}
      PROVE  Hold(r, why, n) \in Row
  BY DEF Row, Hold, FinalStates
<1>4. ASSUME NEW n \in Nat
      PROVE  /\ [r EXCEPT !.paid = n] \in Row /\ [r EXCEPT !.changeDue = n] \in Row
             /\ [r EXCEPT !.changeOwed = n] \in Row /\ [r EXCEPT !.inserted = n] \in Row
  <2>1. [r EXCEPT !.paid = n] \in Row  BY DEF Row
  <2>2. [r EXCEPT !.changeDue = n] \in Row  BY DEF Row
  <2>3. [r EXCEPT !.changeOwed = n] \in Row  BY DEF Row
  <2>4. [r EXCEPT !.inserted = n] \in Row  BY DEF Row
  <2> QED  BY <2>1, <2>2, <2>3, <2>4
<1>5. ASSUME NEW b \in BOOLEAN
      PROVE  /\ [r EXCEPT !.acked = b] \in Row /\ [r EXCEPT !.grace = b] \in Row
             /\ [r EXCEPT !.document = b] \in Row
  <2>1. [r EXCEPT !.acked = b] \in Row  BY DEF Row
  <2>2. [r EXCEPT !.grace = b] \in Row  BY DEF Row
  <2>3. [r EXCEPT !.document = b] \in Row  BY DEF Row
  <2> QED  BY <2>1, <2>2, <2>3
<1> QED  BY <1>1, <1>2, <1>3, <1>4, <1>5

LEMMA DriveRowTypes ==
    ASSUME NEW r \in Row, NEW n \in Nat, NEW m \in Nat
    PROVE  /\ [r EXCEPT !.state = "ACCEPTING", !.start = n, !.startPaid = m] \in Row
           /\ [r EXCEPT !.state = "SETTLING", !.step = "closing"] \in Row
           /\ [r EXCEPT !.state = "PARTIAL", !.step = "none", !.split = n, !.due = n] \in Row
           /\ [r EXCEPT !.state = "PAYING_CHANGE", !.step = "paying", !.changeDue = n] \in Row
           /\ [r EXCEPT !.state = "DONE", !.outcome = "refunded", !.step = "none"] \in Row
           /\ [r EXCEPT !.step = "paying"] \in Row
<1>1. [r EXCEPT !.state = "ACCEPTING", !.start = n, !.startPaid = m] \in Row
  BY DEF Row, OpenStates
<1>2. [r EXCEPT !.state = "SETTLING", !.step = "closing"] \in Row
  BY DEF Row, OpenStates
<1>3. [r EXCEPT !.state = "PARTIAL", !.step = "none", !.split = n, !.due = n] \in Row
  BY DEF Row, OpenStates
<1>4. [r EXCEPT !.state = "PAYING_CHANGE", !.step = "paying", !.changeDue = n] \in Row
  BY DEF Row, OpenStates
<1>5. [r EXCEPT !.state = "DONE", !.outcome = "refunded", !.step = "none"] \in Row
  BY DEF Row, FinalStates
<1>6. [r EXCEPT !.step = "paying"] \in Row
  BY DEF Row
<1> QED  BY <1>1, <1>2, <1>3, <1>4, <1>5, <1>6

DriveType(d) ==
    /\ d.row \in Row /\ d.pay \in Nat /\ d.first \in BOOLEAN
    /\ d.wants \in Nat \/ d.wants = lastAcceptance

LEMMA DrivenType ==
    ASSUME NEW r \in Row, NEW w, w \in Nat \/ w = lastAcceptance, NEW n \in Nat, NEW f \in BOOLEAN
    PROVE  DriveType(Driven(r, w, n, f))
BY DEF DriveType, Driven

\* What each drive leaves, case by case.
LEMMA DriveCases ==
    ASSUME NEW r, NEW l \in BOOLEAN, IsOpen(r), NEW d \in Drive(r, l)
    PROVE  LET s == Seen(r)
               u == [s EXCEPT !.paid = PaidSince(r)]
               change == AtLeast0(s.inserted - r.due)
           IN
           \/ /\ r.state = "LEASED"
              /\ d = Driven([r EXCEPT !.state = "ACCEPTING", !.start = valueIn, !.startPaid = paidOut],
                            r.due, 0, TRUE)
           \/ /\ r.state = "ACCEPTING"
              /\ \/ /\ s.inserted >= r.due
                    /\ d = Driven([s EXCEPT !.state = "SETTLING", !.step = "closing"], Closed, 0, FALSE)
                 \/ l /\ r.grace /\ d = Driven(Refund(s), Closed, 0, FALSE)
                 \/ r.grace /\ d = Driven(s, Closed, 0, FALSE)
                 \/ l /\ d = Quietly(Refund(s))
                 \/ ~(s.inserted >= r.due) /\ d = Driven(s, r.due - s.inserted, 0, FALSE)
           \/ /\ r.state = "SETTLING"
              /\ \/ d = Driven(r, Closed, 0, FALSE)
                 \/ /\ lastAcceptance = Closed
                    /\ \/ /\ r.splitAsked /\ s.inserted < r.due
                          /\ d = Quietly([s EXCEPT !.state = "PARTIAL", !.step = "none",
                                                   !.split = s.inserted, !.due = s.inserted])
                       \/ /\ ~(r.splitAsked /\ s.inserted < r.due)
                          /\ change = 0 /\ d = Quietly(PaidUp(s))
                       \/ /\ change # 0
                          /\ d = Driven([s EXCEPT !.state = "PAYING_CHANGE", !.step = "paying", !.changeDue = change],
                                        Closed, change, TRUE)
           \/ /\ r.state = "PAYING_CHANGE"
              /\ \/ payout.left > 0 /\ d = Quietly(u)
                 \/ /\ ~(payout.left > 0)
                    /\ d = Quietly(PaidUp([u EXCEPT !.changeOwed = AtLeast0(r.changeDue - u.paid)]))
           \/ /\ r.state = "PARTIAL"
              /\ \/ d = Driven(s, Closed, 0, FALSE)
                 \/ d = Driven(Hold(s, "split_timeout", r.split), Closed, 0, FALSE)
                 \/ l /\ r.grace /\ d = Driven(Refund(s), Closed, 0, FALSE)
           \/ /\ r.state = "REFUNDING"
              /\ \/ r.step = "paying" /\ payout.left > 0 /\ d = Quietly(u)
                 \/ r.step = "paying" /\ ~(payout.left > 0) /\ d = Quietly(Refunded(u))
                 \/ r.step # "paying" /\ d = Driven(r, Closed, 0, FALSE)
                 \/ /\ r.step # "paying" /\ lastAcceptance = Closed
                    /\ \/ u.inserted > u.paid
                          /\ d = Driven([u EXCEPT !.step = "paying"], Closed, u.inserted - u.paid, TRUE)
                       \/ ~(u.inserted > u.paid) /\ d = Quietly(Refunded(u))
<1>1. CASE r.state = "LEASED"
  BY <1>1 DEF Drive, DriveLeased
<1>2. CASE r.state = "ACCEPTING"
  <2>1. d \in DriveAccepting(r, l)
    BY <1>2 DEF Drive
  <2> QED  BY <1>2, <2>1 DEF DriveAccepting
<1>3. CASE r.state = "SETTLING"
  <2>1. d \in DriveSettling(r, l)
    BY <1>3 DEF Drive
  <2> QED  BY <1>3, <2>1 DEF DriveSettling
<1>4. CASE r.state = "PAYING_CHANGE"
  <2>1. d \in DrivePaying(r)
    BY <1>4 DEF Drive
  <2> QED  BY <1>4, <2>1 DEF DrivePaying
<1>5. CASE r.state = "PARTIAL"
  <2>1. d \in DrivePartial(r, l)
    BY <1>5 DEF Drive
  <2> QED  BY <1>5, <2>1 DEF DrivePartial
<1>6. CASE r.state = "REFUNDING"
  <2>1. d \in DriveRefunding(r, l)
    BY <1>6 DEF Drive
  <2> QED  BY <1>6, <2>1 DEF DriveRefunding
<1> QED  BY <1>1, <1>2, <1>3, <1>4, <1>5, <1>6 DEF IsOpen, OpenStates

LEMMA DriveTypes ==
    ASSUME TypeOK, NEW r \in Row, IsOpen(r), NEW l \in BOOLEAN, NEW d \in Drive(r, l)
    PROVE  DriveType(d)
<1> DEFINE s == Seen(r)
           u == [s EXCEPT !.paid = PaidSince(r)]
           change == AtLeast0(s.inserted - r.due)
           owed == AtLeast0(r.changeDue - u.paid)
<1>1. s \in Row /\ u \in Row /\ PaidSince(r) \in Nat
  BY SeenType, RowTypes
<1>2. /\ lastAcceptance \in Int /\ valueIn \in Nat /\ paidOut \in Nat
      /\ r.due \in Nat /\ r.split \in Nat /\ r.changeDue \in Nat
      /\ s.inserted \in Nat /\ u.inserted \in Nat /\ u.paid \in Nat
  BY <1>1 DEF TypeOK, Row
<1>3. change \in Nat /\ owed \in Nat
  BY <1>2 DEF AtLeast0
<1>4. Refunded(u) \in Row
  <2>1. u.inserted > u.paid => u.inserted - u.paid \in Nat
    BY <1>2
  <2>2. [u EXCEPT !.state = "DONE", !.outcome = "refunded", !.step = "none"] \in Row
    BY <1>1, <1>3, DriveRowTypes
  <2> HIDE DEF s, u
  <2> QED  BY <1>1, <2>1, <2>2, RowTypes DEF Refunded
<1>5. /\ [r EXCEPT !.state = "ACCEPTING", !.start = valueIn, !.startPaid = paidOut] \in Row
      /\ [s EXCEPT !.state = "SETTLING", !.step = "closing"] \in Row
      /\ [s EXCEPT !.state = "PARTIAL", !.step = "none", !.split = s.inserted, !.due = s.inserted] \in Row
      /\ [s EXCEPT !.state = "PAYING_CHANGE", !.step = "paying", !.changeDue = change] \in Row
      /\ [u EXCEPT !.step = "paying"] \in Row
  BY <1>1, <1>2, <1>3, DriveRowTypes
<1>6. /\ Refund(s) \in Row /\ PaidUp(s) \in Row
      /\ Hold(s, "split_timeout", r.split) \in Row
      /\ PaidUp([u EXCEPT !.changeOwed = owed]) \in Row
  BY <1>1, <1>2, <1>3, RowTypes
<1>7. /\ ~(s.inserted >= r.due) => r.due - s.inserted \in Nat
      /\ u.inserted > u.paid => u.inserted - u.paid \in Nat
  BY <1>2
<1> HIDE DEF s, u, change, owed
<1>a. \A q \in Row : \A n \in Nat : \A w, f :
        (w \in Nat \/ w = lastAcceptance) /\ f \in BOOLEAN => DriveType(Driven(q, w, n, f))
  BY DrivenType
<1>b. \A q \in Row : /\ DriveType(Quietly(q))
                     /\ \A n \in Nat, f \in BOOLEAN : DriveType(Driven(q, Closed, n, f))
  BY <1>a DEF Quietly, Closed
<1>8. CASE r.state = "LEASED"
  <2>1. DriveType(Driven([r EXCEPT !.state = "ACCEPTING", !.start = valueIn, !.startPaid = paidOut],
                         r.due, 0, TRUE))
    BY <1>2, <1>5, <1>a
  <2> QED  BY <2>1, <1>8, DriveCases
<1>9. CASE r.state = "ACCEPTING"
  <2>1. /\ DriveType(Driven([s EXCEPT !.state = "SETTLING", !.step = "closing"], Closed, 0, FALSE))
        /\ DriveType(Driven(Refund(s), Closed, 0, FALSE)) /\ DriveType(Quietly(Refund(s)))
        /\ DriveType(Driven(s, Closed, 0, FALSE))
    BY <1>1, <1>5, <1>6, <1>b
  <2>2. ~(s.inserted >= r.due) => DriveType(Driven(s, r.due - s.inserted, 0, FALSE))
    BY <1>1, <1>7, <1>a
  <2> QED  BY <2>1, <2>2, <1>9, DriveCases DEF s
<1>10. CASE r.state = "SETTLING"
  <2>1. /\ DriveType(Driven(r, Closed, 0, FALSE))
        /\ DriveType(Quietly([s EXCEPT !.state = "PARTIAL", !.step = "none", !.split = s.inserted,
                                       !.due = s.inserted]))
        /\ DriveType(Quietly(PaidUp(s)))
        /\ DriveType(Driven([s EXCEPT !.state = "PAYING_CHANGE", !.step = "paying", !.changeDue = change],
                            Closed, change, TRUE))
    BY <1>3, <1>5, <1>6, <1>b
  <2> QED  BY <2>1, <1>10, DriveCases DEF s, change
<1>11. CASE r.state = "PAYING_CHANGE"
  <2>1. DriveType(Quietly(u)) /\ DriveType(Quietly(PaidUp([u EXCEPT !.changeOwed = owed])))
    BY <1>1, <1>6, <1>b
  <2> QED  BY <2>1, <1>11, DriveCases DEF s, u, owed
<1>12. CASE r.state = "PARTIAL"
  <2>1. /\ DriveType(Driven(s, Closed, 0, FALSE)) /\ DriveType(Driven(Refund(s), Closed, 0, FALSE))
        /\ DriveType(Driven(Hold(s, "split_timeout", r.split), Closed, 0, FALSE))
    BY <1>1, <1>6, <1>b
  <2> QED  BY <2>1, <1>12, DriveCases DEF s
<1>13. CASE r.state = "REFUNDING"
  <2>1. /\ DriveType(Quietly(u)) /\ DriveType(Quietly(Refunded(u)))
        /\ DriveType(Driven(r, Closed, 0, FALSE))
    BY <1>1, <1>4, <1>b
  <2>2. u.inserted > u.paid =>
          DriveType(Driven([u EXCEPT !.step = "paying"], Closed, u.inserted - u.paid, TRUE))
    BY <1>5, <1>7, <1>b
  <2> QED  BY <2>1, <2>2, <1>13, DriveCases DEF s, u
<1> QED  BY <1>8, <1>9, <1>10, <1>11, <1>12, <1>13 DEF IsOpen, OpenStates

LeaseType == [held : BOOLEAN, on : Txs \cup {None}, ahead : SUBSET Clients]
TickType == [busy : BOOLEAN, io : BOOLEAN, on : Txs \cup {None}, row : Row,
             save : BOOLEAN, sent : BOOLEAN, wants : Nat, pay : Nat]

LEMMA WithoutType == TypeOK => \A G : Without(G) \in [Clients -> LeaseType]
BY DEF TypeOK, Without, LeaseType, NoLease

LEMMA ExpiredRow ==
    ASSUME TypeOK, NEW gone, NEW p \in Txs
    PROVE  /\ Expired(gone) \in [Txs -> Row]
           /\ Expired(gone)[p] = tx[p] \/ Expired(gone)[p] = [tx[p] EXCEPT !.grace = TRUE]
           /\ IsOpen(Expired(gone)[p]) <=> IsOpen(tx[p])
<1>1. tx \in [Txs -> Row]
  BY DEF TypeOK
<1>2. \A q \in Txs : [tx[q] EXCEPT !.grace = TRUE] \in Row
  BY <1>1, RowTypes
<1>3. \A q \in Txs : Expired(gone)[q] = tx[q] \/ Expired(gone)[q] = [tx[q] EXCEPT !.grace = TRUE]
  BY DEF Expired
<1>4. Expired(gone) \in [Txs -> Row]
  BY <1>1, <1>2 DEF Expired
<1>5. [tx[p] EXCEPT !.grace = TRUE].state = tx[p].state
  BY <1>1 DEF Row
<1> QED  BY <1>3, <1>4, <1>5 DEF IsOpen

\* What the calls make of a row is typed.
LEMMA AckedType == ASSUME NEW r \in Row, NEW d \in BOOLEAN, NEW v \in BOOLEAN PROVE Acked(r, d, v) \in Row
<1>1. r.split \in Nat /\ r.document \in BOOLEAN
  BY DEF Row
<1>2. [r EXCEPT !.acked = TRUE] \in Row
  BY RowTypes
<1>3. Hold([r EXCEPT !.acked = TRUE], "split_void", r.split) \in Row
  BY <1>1, <1>2, RowTypes
<1>4. [r EXCEPT !.acked = TRUE, !.document = @ \/ d] \in Row
  BY DEF Row
<1> QED  BY <1>3, <1>4 DEF Acked

LEMMA RecoveredType ==
    ASSUME TypeOK, NEW r \in Row, NEW back \in BOOLEAN PROVE RecoveredRow(r, back) \in Row
<1> DEFINE s == Seen(r)
<1>1. s \in Row /\ PaidSince(r) \in Nat /\ s.inserted \in Nat
  BY SeenType DEF Row
<1>2. [r EXCEPT !.inserted = 0] \in Row /\ AtLeast0(r.inserted - r.paid) \in Nat
  <2>1. r.inserted \in Nat /\ r.paid \in Nat
    BY DEF Row
  <2>2. AtLeast0(r.inserted - r.paid) \in Nat
    BY <2>1 DEF AtLeast0
  <2> QED  BY <2>1, <2>2, RowTypes
<1>3. Hold([r EXCEPT !.inserted = 0], "consistency", AtLeast0(r.inserted - r.paid)) \in Row
  BY <1>2, RowTypes
<1> DEFINE net == s.inserted - PaidSince(r)
<1>4. net > 0 => Hold(s, "power_loss", net) \in Row
  <2>1. net > 0 => net \in Nat
    BY <1>1
  <2> HIDE DEF s, net
  <2> QED  BY <1>1, <2>1, RowTypes
<1>5. [s EXCEPT !.state = "DONE", !.outcome = "refunded", !.step = "none", !.paid = PaidSince(r)] \in Row
  BY <1>1 DEF Row, FinalStates
<1> HIDE DEF s, net
<1> QED  BY <1>3, <1>4, <1>5 DEF RecoveredRow, s, net

\* A change of one row.
LEMMA OneRowType ==
    ASSUME TypeOK, NEW p \in Txs, NEW r \in Row PROVE [tx EXCEPT ![p] = r] \in [Txs -> Row]
BY DEF TypeOK

LEMMA TxType == TypeOK => tx \in [Txs -> Row]
BY DEF TypeOK

LEMMA CallType == TypeOK /\ Call => TypeOK'
<1> SUFFICES ASSUME TypeOK, Call PROVE TypeOK'
  OBVIOUS
<1>1. ASSUME NEW c \in Clients, Lease(c) PROVE TypeOK'
  <2>1. tx' \in [Txs -> Row] /\ lastAcceptance' \in Int
    <3>1. CASE UNCHANGED <<tx, lastAcceptance>>
      BY <3>1 DEF TypeOK
    <3>2. CASE Renew(c)
      <4> DEFINE p == leases[c].on
      <4>1. CASE p # None /\ IsOpen(tx[p]) /\ tx[p].grace
        <5>1. p \in Txs /\ tx[p] \in Row
          BY <4>1 DEF TypeOK
        <5>2. [tx[p] EXCEPT !.grace = FALSE] \in Row
          BY <5>1, RowTypes
        <5>3. tx' = [tx EXCEPT ![p] = [tx[p] EXCEPT !.grace = FALSE]] /\ lastAcceptance' = Unsure
          BY <3>2, <4>1, <5>1, TxType DEF Renew
        <5> QED  BY <5>1, <5>2, <5>3, OneRowType, UnsureType
      <4>2. CASE ~(p # None /\ IsOpen(tx[p]) /\ tx[p].grace)
        BY <3>2, <4>2 DEF TypeOK, Renew
      <4> QED  BY <4>1, <4>2
    <3> QED  BY <1>1, <3>1, <3>2 DEF Lease
  <2>2. leases' \in [Clients -> LeaseType]
    <3>1. leases \in [Clients -> LeaseType]
      BY DEF TypeOK, LeaseType
    <3>2. [held |-> TRUE, on |-> None, ahead |-> {d \in Clients : Holds(d)}] \in LeaseType
      BY DEF LeaseType
    <3> QED  BY <1>1, <3>1, <3>2 DEF Lease
  <2>3. UNCHANGED <<up, opened, recovered, tick, accepting, payout, valueIn, paidOut, gave, got>>
    BY <1>1 DEF Lease, unit
  <2> QED  BY <2>1, <2>2, <2>3 DEF TypeOK, LeaseType
<1>2. ASSUME NEW c \in Clients, Release(c) PROVE TypeOK'
  <2>1. leases' \in [Clients -> LeaseType]
    BY <1>2, WithoutType DEF Release
  <2> QED  BY <1>2, <2>1 DEF Release, unit, TypeOK, LeaseType
<1>3. ASSUME NEW c \in Clients, NEW p \in Txs, Start(c, p) PROVE TypeOK'
  <2>1. leases' \in [Clients -> LeaseType]
    BY <1>3 DEF Start, TypeOK, LeaseType
  <2>2. [NoRow EXCEPT !.client = c, !.state = "LEASED", !.due = Due, !.start = valueIn, !.startPaid = paidOut]
          \in Row
    BY MoneyAssumption DEF NoRow, Row, OpenStates, TypeOK
  <2>3. tx' \in [Txs -> Row]
    BY <1>3, <2>2, OneRowType DEF Start
  <2> QED  BY <1>3, <2>1, <2>3 DEF Start, unit, TypeOK, LeaseType
<1>4. ASSUME NEW p \in Txs, NEW r \in Row, tx' = [tx EXCEPT ![p] = r],
             leases' \in [Clients -> LeaseType], lastAcceptance' \in Int,
             UNCHANGED <<up, opened, recovered, tick, accepting, payout, valueIn, paidOut, gave, got>>
      PROVE  TypeOK'
  BY <1>4, OneRowType DEF TypeOK, LeaseType
<1>5. leases \in [Clients -> LeaseType] /\ lastAcceptance \in Int
  BY DEF TypeOK, LeaseType
<1>6. ASSUME NEW p \in Txs, Cancel(p) PROVE TypeOK'
  <2>1. Refund(tx[p]) \in Row
    BY TxType, RowTypes
  <2> QED  BY <1>4, <1>5, <1>6, <2>1 DEF Cancel, unit, memory
<1>7. ASSUME NEW p \in Txs, Split(p) PROVE TypeOK'
  <2>1. [tx[p] EXCEPT !.splitAsked = TRUE, !.state = "SETTLING", !.step = "closing"] \in Row
    <3>1. tx[p] \in Row
      BY TxType
    <3> QED  BY <3>1 DEF Row, OpenStates
  <2>2. tx' = [tx EXCEPT ![p] = [tx[p] EXCEPT !.splitAsked = TRUE, !.state = "SETTLING", !.step = "closing"]]
    BY <1>7 DEF Split
  <2>3. PICK r \in Row : tx' = [tx EXCEPT ![p] = r]
    BY <2>1, <2>2
  <2> QED  BY <1>4, <1>5, <1>7, <2>3, UnsureType DEF Split, unit
<1>8. ASSUME NEW p \in Txs, Finish(p) PROVE TypeOK'
  <2>1. PaidUp([tx[p] EXCEPT !.changeDue = 0]) \in Row
    BY TxType, RowTypes
  <2> QED  BY <1>4, <1>5, <1>8, <2>1 DEF Finish, unit, memory
<1>9. ASSUME NEW p \in Txs, NEW d \in BOOLEAN, NEW v \in BOOLEAN, Ack(p, d, v) PROVE TypeOK'
  <2>1. Acked(tx[p], d, v) \in Row
    BY TxType, AckedType
  <2>2. leases' \in [Clients -> LeaseType]
    BY <1>9, WithoutType DEF Ack
  <2> QED  BY <1>4, <1>5, <1>9, <2>1, <2>2 DEF Ack, unit
<1> QED  BY <1>1, <1>2, <1>3, <1>6, <1>7, <1>8, <1>9 DEF Call

LEMMA TickBeginType ==
    ASSUME TypeOK, NEW gone, NEW l \in BOOLEAN, TickBegin(gone, l) PROVE TypeOK'
<1>1. leases' \in [Clients -> LeaseType]
  BY WithoutType DEF TickBegin, Kept
<1>2. tx' \in [Txs -> Row] /\ tick' \in TickType /\ accepting' \in BOOLEAN
  <2>1. CASE TickIdle
    <3>1. tick' \in TickType
      BY <2>1, NoRowType DEF TickIdle, NoTick, TickType, Closed
    <3>2. tx' \in [Txs -> Row]
      BY <2>1, TxType DEF TickIdle
    <3> QED  BY <2>1, <3>1, <3>2 DEF TickIdle, TypeOK
  <2>2. ASSUME NEW p \in OpenTxs, NEW d \in Drive(Expired(gone)[p], l /\ (Expired(gone)[p].grace => tx[p].grace)),
               TickDrive(gone, p, Expired(gone)[p], d)
        PROVE  tx' \in [Txs -> Row] /\ tick' \in TickType /\ accepting' \in BOOLEAN
    <3>1. p \in Txs /\ Expired(gone) \in [Txs -> Row] /\ Expired(gone)[p] \in Row /\ IsOpen(Expired(gone)[p])
      BY ExpiredRow DEF OpenTxs
    <3>2. (l /\ (Expired(gone)[p].grace => tx[p].grace)) \in BOOLEAN
      OBVIOUS
    <3>3. DriveType(d)
      BY <3>1, <3>2, DriveTypes
    <3>4. tx' \in [Txs -> Row]
      BY <2>2, <3>1, <3>3 DEF TickDrive, DriveType
    <3>5. (IF d.wants # lastAcceptance THEN d.wants ELSE Closed) \in Nat
      BY <3>3 DEF DriveType, Closed
    <3>6. tick' \in TickType
      BY <2>2, <3>1, <3>3, <3>5 DEF TickDrive, DriveType, TickType
    <3> QED  BY <2>2, <3>4, <3>6 DEF TickDrive, TypeOK
  <2> QED  BY <2>1, <2>2 DEF TickBegin
<1> QED  BY <1>1, <1>2 DEF TickBegin, TypeOK, LeaseType, TickType

LEMMA HostType == TypeOK /\ HostStep => TypeOK'
<1> SUFFICES ASSUME TypeOK, HostStep PROVE TypeOK'
  OBVIOUS
<1>1. ASSUME NEW gone, NEW l \in BOOLEAN, TickBegin(gone, l) PROVE TypeOK'
  BY <1>1, TickBeginType
<1>2. CASE TickEnd
  <2> DEFINE saved == IF tick.save THEN [tx EXCEPT ![tick.on] = tick.row] ELSE tx
  <2>1. saved \in [Txs -> Row]
    BY DEF TypeOK
  <2>2. ASSUME NEW q \in Row PROVE Hold(q, "unacked", AtLeast0(q.due - q.changeOwed)) \in Row
    <3>1. AtLeast0(q.due - q.changeOwed) \in Nat
      BY DEF Row, AtLeast0
    <3> QED  BY <3>1, RowTypes
  <2>3. PICK long : tx' = [p \in Txs |->
                  IF p \in long
                  THEN Hold(saved[p], "unacked", AtLeast0(saved[p].due - saved[p].changeOwed))
                  ELSE saved[p]]
    BY <1>2 DEF TickEnd
  <2>4. tx' \in [Txs -> Row]
    <3> HIDE DEF saved
    <3> QED  BY <2>1, <2>2, <2>3
  <2>5. NoTick \in TickType
    BY NoRowType DEF NoTick, TickType, Closed
  <2>6. tick' \in TickType
    BY <1>2, <2>5 DEF TickEnd
  <2>7. lastAcceptance' \in Int
    BY <1>2 DEF TickEnd, TypeOK
  <2> QED  BY <1>2, <2>4, <2>6, <2>7 DEF TickEnd, TypeOK, TickType, unit
<1>3. CASE LoseDevice
  BY <1>3 DEF LoseDevice, TypeOK, unit
<1>4. CASE OpenDevice
  BY <1>4, UnsureType DEF OpenDevice, TypeOK
<1>5. CASE Recover
  <2>1. PICK back \in BOOLEAN : tx' = [p \in Txs |-> IF IsOpen(tx[p]) THEN RecoveredRow(tx[p], back) ELSE tx[p]]
    BY <1>5 DEF Recover
  <2>2. tx' \in [Txs -> Row]
    BY <2>1, TxType, RecoveredType
  <2> QED  BY <1>5, <2>2 DEF Recover, TypeOK, unit
<1>6. CASE Crash
  <2>1. NoTick \in TickType
    BY NoRowType DEF NoTick, TickType, Closed
  <2>2. leases' \in [Clients -> LeaseType]
    BY <1>6 DEF Crash, NoLease, LeaseType
  <2> QED  BY <1>6, <2>1, <2>2, UnsureType DEF Crash, TypeOK, unit, LeaseType, TickType
<1>7. CASE Boot
  BY <1>7 DEF Boot, TypeOK, unit, memory
<1> QED  BY <1>1, <1>2, <1>3, <1>4, <1>5, <1>6, <1>7 DEF HostStep

LEMMA UnitType == TypeOK /\ UnitStep => TypeOK'
<1> SUFFICES ASSUME TypeOK, UnitStep PROVE TypeOK'
  OBVIOUS
<1>1. ASSUME NEW p \in Txs, NEW v \in Coins, Insert(p, v) PROVE TypeOK'
  <2>1. v \in Nat
    BY MoneyAssumption
  <2>2. valueIn' \in Nat /\ gave' \in [Txs -> Nat]
    BY <1>1, <2>1 DEF Insert, TypeOK
  <2> QED  BY <1>1, <2>2 DEF Insert, TypeOK, memory
<1>2. CASE PayoutBegins
  <2>1. tick' \in TickType
    BY <1>2 DEF PayoutBegins, TypeOK, TickType
  <2>2. payout' \in [on : Txs \cup {None}, left : Nat]
    BY <1>2 DEF PayoutBegins, TypeOK
  <2> QED  BY <1>2, <2>1, <2>2 DEF PayoutBegins, TypeOK, TickType
<1>3. CASE PayOut
  <2>1. got' \in [Txs -> Nat] /\ paidOut' \in Nat
    <3>1. got \in [Txs -> Nat] /\ got' = [got EXCEPT ![payout.on] = @ + 1]
      BY <1>3 DEF PayOut, TypeOK
    <3>2. got' = [p \in Txs |-> IF p = payout.on THEN got[p] + 1 ELSE got[p]]
      BY <3>1
    <3>3. got' \in [Txs -> Nat]
      <4>1. \A p \in Txs : (IF p = payout.on THEN got[p] + 1 ELSE got[p]) \in Nat
        BY <3>1
      <4> QED  BY <3>2, <4>1
    <3>4. paidOut' \in Nat
      BY <1>3 DEF PayOut, TypeOK
    <3> QED  BY <3>3, <3>4
  <2>2. payout' \in [on : Txs \cup {None}, left : Nat]
    BY <1>3 DEF PayOut, TypeOK
  <2> QED  BY <1>3, <2>1, <2>2 DEF PayOut, TypeOK, memory
<1>4. CASE PayoutEnds
  BY <1>4 DEF PayoutEnds, TypeOK, memory, NoPayout
<1>5. CASE Watchdog
  BY <1>5 DEF Watchdog, TypeOK, memory
<1> QED  BY <1>1, <1>2, <1>3, <1>4, <1>5 DEF UnitStep

LEMMA InitType == Init => TypeOK
<1>1. NoTick \in TickType
  BY NoRowType DEF NoTick, TickType, Closed
<1>2. ASSUME Init PROVE leases \in [Clients -> LeaseType] /\ tick \in TickType /\ tx \in [Txs -> Row]
  BY <1>1, <1>2, NoRowType DEF Init, NoLease, LeaseType
<1>3. ASSUME Init PROVE payout \in [on : Txs \cup {None}, left : Nat] /\ lastAcceptance \in Int
  BY <1>3, UnsureType DEF Init, NoPayout
<1>4. ASSUME Init PROVE gave \in [Txs -> Nat] /\ got \in [Txs -> Nat] /\ valueIn \in Nat /\ paidOut \in Nat
  BY <1>4 DEF Init
<1>5. ASSUME Init PROVE up \in BOOLEAN /\ opened \in BOOLEAN /\ recovered \in BOOLEAN /\ accepting \in BOOLEAN
  BY <1>5 DEF Init
<1> QED  BY <1>2, <1>3, <1>4, <1>5 DEF TypeOK, TickType, LeaseType

LEMMA TypeStep == TypeOK /\ [Step]_stationVars => TypeOK'
<1>1. TypeOK /\ UNCHANGED stationVars => TypeOK'
  BY DEF stationVars, memory, unit, TypeOK
<1> QED  BY <1>1, CallType, HostType, UnitType DEF Step

\* The station's state is typed: the rows of the journal, the leases, the tick under
\* way, the counters and what the unit pays out (station.ts:140-173, tx.ts:52-142).
THEOREM TypeCorrect == Spec => []TypeOK
<1>1. TypeOK /\ [Next]_stationVars => TypeOK'
  BY TypeStep, NextIsStep
<1> QED  BY <1>1, InitType, PTL DEF Spec

-----------------------------------------------------------------------------
(* Control. *)

LEMMA InitControl == Init => Control
BY DEF Init, Control, NoTick, NoPayout

LEMMA ControlStep == TypeOK /\ Control /\ [Step]_stationVars => Control'
<1> SUFFICES ASSUME TypeOK, Control, [Step]_stationVars PROVE Control'
  OBVIOUS
<1>1. ASSUME UNCHANGED <<up, opened, recovered, tick, accepting, payout>> PROVE Control'
  BY <1>1 DEF Control
<1>2. CASE UNCHANGED stationVars
  BY <1>1, <1>2 DEF stationVars, memory, unit
<1>3. CASE Call
  BY <1>1, <1>3 DEF Call, Lease, Release, Start, Cancel, Split, Finish, Ack, unit, memory
<1>4. ASSUME NEW gone, NEW l, TickBegin(gone, l) PROVE Control'
  <2>1. TickIdle => tick'.busy
    BY DEF TickIdle, NoTick
  <2>2. \A p, q, d : TickDrive(gone, p, q, d) => tick'.busy
    BY DEF TickDrive
  <2> QED  BY <1>4, <2>1, <2>2 DEF TickBegin, Control
<1>5. CASE TickEnd
  BY <1>5 DEF TickEnd, Control, unit, NoTick
<1>6. CASE LoseDevice
  BY <1>6 DEF LoseDevice, Control, unit
<1>7. CASE OpenDevice
  BY <1>7 DEF OpenDevice, Control
<1>8. CASE Recover
  BY <1>8 DEF Recover, Control, unit
<1>9. CASE Crash
  BY <1>9 DEF Crash, Control, NoTick
<1>10. CASE Boot
  BY <1>10 DEF Boot, Control, unit, memory
<1>11. ASSUME NEW p, NEW v, Insert(p, v) PROVE Control'
  BY <1>11 DEF Insert, Control, memory
<1>12. CASE PayoutBegins
  <2>1. tick'.busy
    BY <1>12 DEF PayoutBegins, TypeOK
  <2> QED  BY <1>12, <2>1 DEF PayoutBegins, Control
<1>13. CASE PayOut
  <2>1. payout.left # 0
    BY <1>13 DEF PayOut, TypeOK
  <2> QED  BY <1>13, <2>1 DEF PayOut, Control, memory
<1>14. CASE PayoutEnds
  BY <1>14 DEF PayoutEnds, Control, memory, NoPayout
<1>15. CASE Watchdog
  BY <1>15 DEF Watchdog, Control, memory
<1> QED  BY <1>2, <1>3, <1>4, <1>5, <1>6, <1>7, <1>8, <1>9, <1>10, <1>11, <1>12, <1>13, <1>14, <1>15
         DEF Step, HostStep, UnitStep

-----------------------------------------------------------------------------
(* The leases. *)

\* The leases of G go, none of them of an open transaction unless the host stops.
LeasesGo(G) ==
    /\ recovered' => \A c \in G : leases[c].on # None => ~IsOpen(tx[leases[c].on])
    /\ \A c \in Clients :
         IF c \in G THEN leases'[c] = NoLease
         ELSE /\ leases'[c].held = leases[c].held /\ leases'[c].on = leases[c].on
              /\ leases'[c].ahead = leases[c].ahead \ G

\* Rows only close, and leases only go.
Fewer ==
    /\ \A p \in Txs : /\ IsOpen(tx'[p]) => IsOpen(tx[p])
                      /\ tx[p].state # "none" => tx'[p].state # "none"
    /\ \E G \in SUBSET Clients : LeasesGo(G)
    /\ recovered' => recovered \/ \A p \in Txs : ~IsOpen(tx'[p])
    /\ accepting' => accepting \/ recovered
    /\ payout'.left > 0 => payout.left > 0 \/ recovered

LEMMA FewerLeases ==
    ASSUME TypeOK, TypeOK', LeaseInv, Fewer
    PROVE  LeaseInv'
<1> USE DEF LeaseInv
<1>1. PICK G \in SUBSET Clients : LeasesGo(G)
  BY DEF Fewer
<1>2. NoLease.held = FALSE /\ NoLease.on = None /\ NoLease.ahead = {}
  BY DEF NoLease
<1>3. \A c \in Clients : leases[c].ahead \in SUBSET Clients /\ leases[c].on \in Txs \cup {None}
                           /\ leases[c].held \in BOOLEAN
  BY DEF TypeOK
<1>4. LeaseOrder'
  <2>1. \A c \in Clients : \A d \in leases'[c].ahead : leases'[d].held
    BY <1>1, <1>2, <1>3 DEF LeaseOrder, Holds, LeasesGo
  <2>2. \A c, d \in Clients : leases'[c].held /\ leases'[d].held /\ c # d
                               => c \in leases'[d].ahead \/ d \in leases'[c].ahead
    BY <1>1, <1>2, <1>3 DEF LeaseOrder, Holds, LeasesGo
  <2>3. \A c \in Clients : leases'[c].on # None => leases'[c].held /\ tx'[leases'[c].on].state # "none"
    BY <1>1, <1>2, <1>3 DEF LeaseOrder, Fewer, LeasesGo, Holds
  <2> QED  BY <2>1, <2>2, <2>3 DEF LeaseOrder, Holds
<1>5. OpenIsLeased'
  <2> SUFFICES ASSUME recovered', NEW p \in Txs, IsOpen(tx'[p])
               PROVE  \E c \in Clients : leases'[c].on = p /\ AtHead(c)'
    BY DEF OpenIsLeased
  <2>1. recovered /\ IsOpen(tx[p])
    BY DEF Fewer
  <2>2. PICK c \in Clients : leases[c].on = p /\ AtHead(c)
    BY <2>1 DEF OpenIsLeased
  <2>3. p # None
    BY NoneAssumption
  <2>4. c \notin G
    BY <1>1, <2>1, <2>2, <2>3 DEF LeasesGo
  <2>5. leases'[c].held /\ leases'[c].on = p /\ leases'[c].ahead \subseteq leases[c].ahead
    BY <1>1, <2>2, <2>4 DEF AtHead, InQueue, Holds, LeasesGo
  <2>6. \A d \in leases'[c].ahead : ~InQueue(d)'
    <3> SUFFICES ASSUME NEW d \in leases'[c].ahead, InQueue(d)' PROVE FALSE
      OBVIOUS
    <3>1. d \in Clients /\ ~InQueue(d)
      BY <1>3, <2>2, <2>5 DEF AtHead
    <3>2. d \notin G
      BY <1>1, <1>2, <3>1 DEF InQueue, Holds, LeasesGo
    <3>3. leases[d].held /\ leases'[d].on = leases[d].on
      BY <1>1, <3>1, <3>2 DEF InQueue, Holds, LeasesGo
    <3>4. leases[d].on # None => IsOpen(tx[leases[d].on])
      BY <1>3, <3>1, <3>3 DEF InQueue, Holds, Fewer
    <3> QED  BY <3>1, <3>3, <3>4 DEF InQueue, Holds
  <2> QED  BY <2>5, <2>6 DEF AtHead, InQueue, Holds
<1>6. OneOpen'
  BY DEF OneOpen, Fewer
<1> QED  BY <1>4, <1>5, <1>6 DEF LeaseInv

LEMMA WithoutGo ==
    ASSUME TypeOK, NEW G \in SUBSET Clients, leases' = Without(G),
           recovered' => \A c \in G : leases[c].on # None => ~IsOpen(tx[leases[c].on])
    PROVE  LeasesGo(G)
<1>1. \A c \in Clients : leases[c] \in LeaseType
  BY DEF TypeOK, LeaseType
<1>2. ASSUME NEW c \in Clients, c \notin G
      PROVE  /\ leases'[c].held = leases[c].held /\ leases'[c].on = leases[c].on
             /\ leases'[c].ahead = leases[c].ahead \ G
  <2>1. leases'[c] = [leases[c] EXCEPT !.ahead = @ \ G]
    BY <1>2 DEF Without
  <2> QED  BY <1>1, <2>1 DEF LeaseType
<1>3. \A c \in G : leases'[c] = NoLease
  BY DEF Without
<1> QED  BY <1>2, <1>3 DEF LeasesGo

LEMMA LeasesStay == UNCHANGED leases => LeasesGo({})
<1>1. \A S : S \ {} = S
  OBVIOUS
<1> QED  BY <1>1 DEF LeasesGo

-----------------------------------------------------------------------------
(* What the drive of an open row does to its money. *)

\* r: the row, its customer put in i, got back o and is about to get c.
Ready(r, i, o, c) ==
    /\ IsOpen(r) /\ Agrees(r, i, o, c) /\ Counts(r, i, o)
    /\ c = payout.left
    /\ accepting => Taking(r) /\ lastAcceptance # Closed

Sends(d) == d.wants # lastAcceptance

DriveSafe(r, d, i, o, c) ==
    /\ Agrees(d.row, i, o, c + d.pay) /\ Counts(d.row, i, o)
    /\ d.row.state \notin {"none", "LEASED"}
    /\ d.first => IsOpen(d.row)
    /\ ~d.first => d.pay = 0
    /\ d.pay > 0 => c = 0 /\ ~Paying(r)
    /\ (IF Sends(d) THEN d.wants # Closed ELSE accepting) => Taking(d.row) /\ (~d.first => Taking(r))
    /\ d.row.state = "PARTIAL" /\ d.row # r => ~Sends(d) /\ d.pay = 0 /\ lastAcceptance = Closed
    /\ r.state = "PARTIAL" =>
         /\ d.wants = Closed /\ ~d.first
         /\ d.row # r /\ Sends(d) => d.row.state = "HELD" /\ d.row.heldReason = "split_timeout"

LEMMA RowFields ==
    ASSUME NEW r \in Row
    PROVE  /\ r.inserted \in Nat /\ r.paid \in Nat /\ r.due \in Nat /\ r.changeDue \in Nat
           /\ r.changeOwed \in Nat /\ r.split \in Nat /\ r.held \in Nat /\ r.start \in Nat /\ r.startPaid \in Nat
BY DEF Row

LEMMA SeenIs ==
    ASSUME TypeOK, NEW r \in Row, IsOpen(r), NEW i \in Nat, NEW o \in Nat, Counts(r, i, o)
    PROVE  Seen(r) = [r EXCEPT !.inserted = i] /\ PaidSince(r) = o
<1>1. valueIn - r.start = i /\ paidOut - r.startPaid = o
  BY DEF Counts
<1> QED  BY <1>1 DEF Seen, PaidSince, AtLeast0

\* A row seen again agrees as it did.
LEMMA SeenAgrees ==
    ASSUME NEW r \in Row, IsOpen(r), NEW i \in Nat, NEW o \in Nat, NEW c \in Nat, NEW n \in Nat,
           Agrees(r, i, o, c), Counts(r, i, o)
    PROVE  /\ Agrees([r EXCEPT !.inserted = i], i, o, c) /\ Counts([r EXCEPT !.inserted = i], i, o)
           /\ Agrees([[r EXCEPT !.inserted = i] EXCEPT !.paid = n], i, o, c)
           /\ Counts([[r EXCEPT !.inserted = i] EXCEPT !.paid = n], i, o)
<1>1. r.state # "none"
  BY DEF IsOpen, OpenStates
<1> QED  BY <1>1 DEF Row, Agrees, Counts, StepAgrees, IsOpen, Paid, Paying

\* The rows the drives leave agree.
LEMMA ClosingRow ==
    ASSUME NEW r \in Row, r.state = "ACCEPTING", NEW i \in Nat, NEW o \in Nat, NEW c \in Nat,
           Agrees(r, i, o, c), Counts(r, i, o), i >= r.due
    PROVE  LET q == [r EXCEPT !.state = "SETTLING", !.step = "closing"] IN
           Agrees(q, i, o, c) /\ Counts(q, i, o) /\ q.state = "SETTLING"
BY DEF Row, Agrees, Counts, StepAgrees, IsOpen, Paid, Paying, OpenStates

LEMMA RefundRow ==
    ASSUME NEW r \in Row, r.state \in {"LEASED", "ACCEPTING", "PARTIAL"}, NEW i \in Nat, NEW o \in Nat,
           NEW c \in Nat, Agrees(r, i, o, c), Counts(r, i, o)
    PROVE  Agrees(Refund(r), i, o, c) /\ Counts(Refund(r), i, o)
           /\ Refund(r).state = "REFUNDING" /\ Refund(r).step = "closing"
BY DEF Row, Agrees, Counts, StepAgrees, IsOpen, Paid, Paying, OpenStates, Refund

LEMMA PartialRow ==
    ASSUME NEW r \in Row, r.state = "SETTLING", NEW i \in Nat, NEW o \in Nat, NEW c \in Nat,
           Agrees(r, i, o, c), Counts(r, i, o), r.inserted = i
    PROVE  LET q == [r EXCEPT !.state = "PARTIAL", !.step = "none", !.split = i, !.due = i] IN
           Agrees(q, i, o, c) /\ Counts(q, i, o) /\ q.state = "PARTIAL"
BY DEF Row, Agrees, Counts, StepAgrees, IsOpen, Paid, Paying, OpenStates

LEMMA PaidRow ==
    ASSUME NEW r \in Row, r.state = "SETTLING", NEW i \in Nat, NEW o \in Nat, NEW c \in Nat,
           Agrees(r, i, o, c), i = r.due
    PROVE  Agrees(PaidUp(r), i, o, c) /\ ~IsOpen(PaidUp(r)) /\ PaidUp(r).state = "DONE"
BY DEF Row, Agrees, StepAgrees, IsOpen, Paid, Paying, OpenStates, PaidUp

LEMMA ChangeRow ==
    ASSUME NEW r \in Row, r.state = "SETTLING", NEW i \in Nat, NEW o \in Nat, NEW c \in Nat,
           Agrees(r, i, o, c), Counts(r, i, o), AtLeast0(i - r.due) # 0
    PROVE  LET n == AtLeast0(i - r.due)
               q == [r EXCEPT !.state = "PAYING_CHANGE", !.step = "paying", !.changeDue = n]
           IN  Agrees(q, i, o, n) /\ Counts(q, i, o) /\ q.state = "PAYING_CHANGE"
<1> DEFINE n == AtLeast0(i - r.due)
<1>1. o = 0
  BY DEF Agrees
<1>2. n \in Nat /\ n # 0 /\ n + r.due = i
  BY RowFields DEF AtLeast0
<1> HIDE DEF n
<1>3. LET q == [r EXCEPT !.state = "PAYING_CHANGE", !.step = "paying", !.changeDue = n]
      IN  Agrees(q, i, o, n) /\ Counts(q, i, o) /\ q.state = "PAYING_CHANGE"
  BY <1>1, <1>2 DEF Row, Agrees, Counts, StepAgrees, IsOpen, Paid, Paying, OpenStates
<1> QED  BY <1>3 DEF n

LEMMA ChangedRow ==
    ASSUME NEW r \in Row, r.state = "PAYING_CHANGE", NEW i \in Nat, NEW o \in Nat,
           Agrees(r, i, o, 0), NEW n \in Nat, n = r.changeDue - o
    PROVE  LET q == PaidUp([r EXCEPT !.changeOwed = n]) IN
           Agrees(q, i, o, 0) /\ ~IsOpen(q) /\ q.state = "DONE"
BY DEF Row, Agrees, StepAgrees, IsOpen, Paid, Paying, OpenStates, PaidUp

LEMMA HeldRow ==
    ASSUME NEW r \in Row, IsOpen(r), NEW i \in Nat, NEW o \in Nat, Agrees(r, i, o, 0),
           NEW n \in Nat, n = i - o, NEW why \in {"power_loss", "short", "split_timeout"}
    PROVE  Agrees(Hold(r, why, n), i, o, 0) /\ ~IsOpen(Hold(r, why, n))
           /\ Hold(r, why, n).state = "HELD" /\ Hold(r, why, n).heldReason = why
BY DEF Row, Agrees, StepAgrees, IsOpen, Paid, Paying, OpenStates, Hold

LEMMA RefundedRow ==
    ASSUME NEW r \in Row, IsOpen(r), NEW i \in Nat, Agrees(r, i, i, 0)
    PROVE  LET q == [r EXCEPT !.state = "DONE", !.outcome = "refunded", !.step = "none"] IN
           Agrees(q, i, i, 0) /\ ~IsOpen(q) /\ q.state = "DONE"
BY DEF Row, Agrees, StepAgrees, IsOpen, Paid, Paying, OpenStates

LEMMA PayingRow ==
    ASSUME NEW r \in Row, r.state = "REFUNDING", NEW i \in Nat, NEW o \in Nat, Agrees(r, i, o, 0), Counts(r, i, o),
           i > o
    PROVE  LET q == [r EXCEPT !.step = "paying"] IN
           Agrees(q, i, o, i - o) /\ Counts(q, i, o) /\ q.state = "REFUNDING" /\ q.step = "paying"
BY DEF Row, Agrees, Counts, StepAgrees, IsOpen, Paid, Paying, OpenStates

LEMMA OpenedRow ==
    ASSUME TypeOK, NEW r \in Row, r.state = "LEASED", NEW i \in Nat, NEW o \in Nat, NEW c \in Nat,
           Agrees(r, i, o, c)
    PROVE  LET q == [r EXCEPT !.state = "ACCEPTING", !.start = valueIn, !.startPaid = paidOut] IN
           Agrees(q, i, o, c) /\ Counts(q, i, o) /\ q.state = "ACCEPTING"
<1>1. valueIn \in Nat /\ paidOut \in Nat /\ i = 0 /\ o = 0
  BY DEF TypeOK, Agrees
<1> QED  BY <1>1 DEF Row, Agrees, Counts, StepAgrees, IsOpen, Paid, Paying, OpenStates

\* One lemma for each state of the row; what its drive leaves is DriveCases'.
LEMMA LeasedSafe ==
    ASSUME TypeOK, NEW r \in Row, r.state = "LEASED", NEW i \in Nat, NEW o \in Nat, NEW c \in Nat,
           Ready(r, i, o, c), NEW l \in BOOLEAN, NEW d \in Drive(r, l)
    PROVE  DriveSafe(r, d, i, o, c)
<1> DEFINE q == [r EXCEPT !.state = "ACCEPTING", !.start = valueIn, !.startPaid = paidOut]
<1>1. d = Driven(q, r.due, 0, TRUE)
  BY DriveCases DEF Ready
<1>2. Agrees(q, i, o, c) /\ Counts(q, i, o) /\ q.state = "ACCEPTING"
  BY OpenedRow DEF Ready
<1> HIDE DEF q
<1>3. d.row = q /\ d.wants = r.due /\ d.pay = 0 /\ d.first = TRUE
  BY <1>1 DEF Driven
<1> QED
  BY <1>2, <1>3 DEF DriveSafe, Sends, Taking, IsOpen, OpenStates

LEMMA AcceptingSafe ==
    ASSUME TypeOK, NEW r \in Row, r.state = "ACCEPTING", NEW i \in Nat, NEW o \in Nat, NEW c \in Nat,
           Ready(r, i, o, c), NEW l \in BOOLEAN, NEW d \in Drive(r, l)
    PROVE  DriveSafe(r, d, i, o, c)
<1> DEFINE s == [r EXCEPT !.inserted = i]
           q == [s EXCEPT !.state = "SETTLING", !.step = "closing"]
<1>1. Seen(r) = s /\ s.inserted = i /\ s.state = r.state /\ s.due = r.due /\ s \in Row
  BY SeenIs, SeenType DEF Ready, Row
<1>2. Agrees(s, i, o, c) /\ Counts(s, i, o)
  BY SeenAgrees DEF Ready
<1>3. Taking(r) /\ Taking(s) /\ (accepting => lastAcceptance # Closed)
  BY <1>1 DEF Ready, Taking
<1>4. \/ i >= r.due /\ d = Driven(q, Closed, 0, FALSE)
      \/ d = Driven(Refund(s), Closed, 0, FALSE)
      \/ d = Driven(s, Closed, 0, FALSE)
      \/ d = Quietly(Refund(s))
      \/ d = Driven(s, r.due - i, 0, FALSE)
  BY <1>1, DriveCases DEF Ready
<1>5. i >= r.due => Agrees(q, i, o, c) /\ Counts(q, i, o) /\ q.state = "SETTLING"
  <2> HIDE DEF s
  <2> QED  BY <1>1, <1>2, ClosingRow
<1>6. Agrees(Refund(s), i, o, c) /\ Counts(Refund(s), i, o)
      /\ Refund(s).state = "REFUNDING" /\ Refund(s).step = "closing"
  BY <1>1, <1>2, RefundRow
<1> HIDE DEF s, q
<1>7. /\ d.pay = 0 /\ d.first = FALSE
      /\ \/ i >= r.due /\ d.row = q
         \/ d.row = Refund(s)
         \/ d.row = s
  BY <1>4 DEF Driven, Quietly
<1>8. Taking(d.row) /\ Agrees(d.row, i, o, c + d.pay) /\ Counts(d.row, i, o)
      /\ d.row.state \notin {"none", "LEASED", "PARTIAL"}
  BY <1>1, <1>2, <1>3, <1>5, <1>6, <1>7 DEF Taking
<1> QED
  BY <1>3, <1>7, <1>8 DEF DriveSafe, Sends

LEMMA SettlingSafe ==
    ASSUME TypeOK, NEW r \in Row, r.state = "SETTLING", NEW i \in Nat, NEW o \in Nat, NEW c \in Nat,
           Ready(r, i, o, c), NEW l \in BOOLEAN, NEW d \in Drive(r, l)
    PROVE  DriveSafe(r, d, i, o, c)
<1> DEFINE s == [r EXCEPT !.inserted = i]
           change == AtLeast0(i - r.due)
           part == [s EXCEPT !.state = "PARTIAL", !.step = "none", !.split = i, !.due = i]
           payer == [s EXCEPT !.state = "PAYING_CHANGE", !.step = "paying", !.changeDue = change]
<1>1. Seen(r) = s /\ s.inserted = i /\ s.state = r.state /\ s.due = r.due /\ s.splitAsked = r.splitAsked /\ s \in Row
  BY SeenIs, SeenType DEF Ready, Row
<1>2. Agrees(s, i, o, c) /\ Counts(s, i, o)
  BY SeenAgrees DEF Ready
<1>3. \/ d = Driven(r, Closed, 0, FALSE)
      \/ /\ lastAcceptance = Closed
         /\ \/ d = Quietly(part)
            \/ ~(r.splitAsked /\ i < r.due) /\ change = 0 /\ d = Quietly(PaidUp(s))
            \/ change # 0 /\ d = Driven(payer, Closed, change, TRUE)
  BY <1>1, DriveCases DEF Ready
<1>4. r.due \in Nat /\ (lastAcceptance = Closed => ~accepting) /\ (r.splitAsked \/ i >= r.due) /\ Taking(r) /\ c = 0
  BY RowFields DEF Ready, Agrees, Taking, Paying
<1>5. Agrees(part, i, o, c) /\ Counts(part, i, o) /\ part.state = "PARTIAL"
  <2> HIDE DEF s
  <2> QED  BY <1>1, <1>2, PartialRow
<1>6. ~(r.splitAsked /\ i < r.due) /\ change = 0
        => Agrees(PaidUp(s), i, o, c) /\ Counts(PaidUp(s), i, o) /\ PaidUp(s).state = "DONE"
  <2>1. ASSUME ~(r.splitAsked /\ i < r.due), change = 0 PROVE i = r.due
    BY <1>4, <2>1 DEF AtLeast0
  <2> HIDE DEF s
  <2> QED  BY <1>1, <1>2, <2>1, PaidRow DEF Counts
<1>7. /\ change \in Nat
      /\ change # 0 => Agrees(payer, i, o, change) /\ Counts(payer, i, o) /\ payer.state = "PAYING_CHANGE"
  <2>1. change \in Nat
    BY <1>4 DEF AtLeast0
  <2>2. ASSUME change # 0
        PROVE  Agrees(payer, i, o, change) /\ Counts(payer, i, o) /\ payer.state = "PAYING_CHANGE"
    <3>1. \A z \in Row : z.state = "SETTLING" /\ Agrees(z, i, o, c) /\ Counts(z, i, o) /\ AtLeast0(i - z.due) # 0 =>
            LET y == [z EXCEPT !.state = "PAYING_CHANGE", !.step = "paying", !.changeDue = AtLeast0(i - z.due)]
            IN  Agrees(y, i, o, AtLeast0(i - z.due)) /\ Counts(y, i, o) /\ y.state = "PAYING_CHANGE"
      BY ChangeRow
    <3> HIDE DEF s
    <3> QED  BY <1>1, <1>2, <2>2, <3>1
  <2> QED  BY <2>1, <2>2
<1> HIDE DEF s, change, part, payer
<1>8. CASE d = Driven(r, Closed, 0, FALSE)
  <2>1. d.row = r /\ d.wants = Closed /\ d.pay = 0 /\ d.first = FALSE
    BY <1>8 DEF Driven
  <2> QED  BY <1>4, <2>1 DEF Ready, DriveSafe, Sends
<1>9. CASE lastAcceptance = Closed /\ d = Quietly(part)
  <2>1. d.row = part /\ d.wants = lastAcceptance /\ d.pay = 0 /\ d.first = FALSE
    BY <1>9 DEF Driven, Quietly
  <2> QED  BY <1>4, <1>5, <1>9, <2>1 DEF DriveSafe, Sends
<1>10. CASE lastAcceptance = Closed /\ ~(r.splitAsked /\ i < r.due) /\ change = 0 /\ d = Quietly(PaidUp(s))
  <2>1. d.row = PaidUp(s) /\ d.wants = lastAcceptance /\ d.pay = 0 /\ d.first = FALSE
    BY <1>10 DEF Driven, Quietly
  <2> QED  BY <1>4, <1>6, <1>10, <2>1 DEF DriveSafe, Sends
<1>11. CASE lastAcceptance = Closed /\ change # 0 /\ d = Driven(payer, Closed, change, TRUE)
  <2>1. d.row = payer /\ d.wants = Closed /\ d.pay = change /\ d.first = TRUE
    BY <1>11 DEF Driven
  <2>2. c + d.pay = change
    BY <1>4, <1>7, <2>1
  <2> QED  BY <1>4, <1>7, <1>11, <2>1, <2>2 DEF DriveSafe, Sends, IsOpen, OpenStates, Paying
<1> QED  BY <1>3, <1>8, <1>9, <1>10, <1>11

LEMMA ChangeSafe ==
    ASSUME TypeOK, NEW r \in Row, r.state = "PAYING_CHANGE", NEW i \in Nat, NEW o \in Nat, NEW c \in Nat,
           Ready(r, i, o, c), NEW l \in BOOLEAN, NEW d \in Drive(r, l)
    PROVE  DriveSafe(r, d, i, o, c)
<1> DEFINE s == [r EXCEPT !.inserted = i]
           u == [s EXCEPT !.paid = o]
           owed == AtLeast0(r.changeDue - o)
           q == PaidUp([u EXCEPT !.changeOwed = owed])
<1>1. Seen(r) = s /\ PaidSince(r) = o /\ u.paid = o /\ u.state = r.state /\ u.changeDue = r.changeDue /\ u \in Row
  BY SeenIs DEF Ready, Row
<1>2. Agrees(u, i, o, c) /\ Counts(u, i, o)
  BY SeenAgrees DEF Ready
<1>3. \/ d = Quietly(u)
      \/ ~(payout.left > 0) /\ d = Quietly(q)
  BY <1>1, DriveCases DEF Ready
<1>4. o + c <= r.changeDue /\ r.changeDue \in Nat /\ ~accepting /\ (~(payout.left > 0) => c = 0)
  BY RowFields DEF Ready, Agrees, Taking
<1>5. ~(payout.left > 0) => c = 0 /\ Agrees(q, i, o, c) /\ Counts(q, i, o) /\ q.state = "DONE"
  <2>1. owed \in Nat /\ owed = r.changeDue - o
    BY <1>4 DEF AtLeast0
  <2> HIDE DEF owed, u
  <2> QED  BY <1>1, <1>2, <1>4, <2>1, ChangedRow DEF Counts
<1> HIDE DEF s, u, owed, q
<1>6. /\ d.wants = lastAcceptance /\ d.pay = 0 /\ d.first = FALSE
      /\ d.row = u \/ (d.row = q /\ ~(payout.left > 0))
  BY <1>3 DEF Driven, Quietly
<1>7. Agrees(d.row, i, o, c + d.pay) /\ Counts(d.row, i, o) /\ d.row.state \in {"PAYING_CHANGE", "DONE"}
  BY <1>1, <1>2, <1>5, <1>6
<1> QED  BY <1>4, <1>6, <1>7 DEF DriveSafe, Sends

LEMMA PartialSafe ==
    ASSUME TypeOK, NEW r \in Row, r.state = "PARTIAL", NEW i \in Nat, NEW o \in Nat, NEW c \in Nat,
           Ready(r, i, o, c), NEW l \in BOOLEAN, NEW d \in Drive(r, l), l /\ r.grace => lastAcceptance = Closed
    PROVE  DriveSafe(r, d, i, o, c)
<1> DEFINE h == Hold(r, "split_timeout", r.split)
<1>1. r.inserted = i /\ r.split = i /\ r.due = i /\ o = 0 /\ c = 0 /\ ~accepting
  BY DEF Ready, Agrees, Paying, Taking
<1>2. Seen(r) = r
  BY <1>1, SeenIs DEF Ready, Row
<1>3. \/ d = Driven(r, Closed, 0, FALSE)
      \/ d = Driven(h, Closed, 0, FALSE)
      \/ lastAcceptance = Closed /\ d = Driven(Refund(r), Closed, 0, FALSE)
  BY <1>2, DriveCases DEF Ready
<1>4. Agrees(h, i, o, 0) /\ Counts(h, i, o) /\ h.state = "HELD" /\ h.heldReason = "split_timeout"
  BY <1>1, HeldRow DEF Ready, Counts
<1>5. Agrees(Refund(r), i, o, c) /\ Counts(Refund(r), i, o) /\ Refund(r).state = "REFUNDING"
  BY RefundRow DEF Ready
<1> HIDE DEF h
<1>6. /\ d.wants = Closed /\ d.pay = 0 /\ d.first = FALSE
      /\ d.row = r \/ d.row = h \/ (lastAcceptance = Closed /\ d.row = Refund(r))
  BY <1>3 DEF Driven
<1> QED  BY <1>1, <1>4, <1>5, <1>6 DEF Ready, DriveSafe, Sends

LEMMA RefundingSafe ==
    ASSUME TypeOK, NEW r \in Row, r.state = "REFUNDING", NEW i \in Nat, NEW o \in Nat, NEW c \in Nat,
           Ready(r, i, o, c), NEW l \in BOOLEAN, NEW d \in Drive(r, l)
    PROVE  DriveSafe(r, d, i, o, c)
<1> DEFINE s == [r EXCEPT !.inserted = i]
           u == [s EXCEPT !.paid = o]
           q == [u EXCEPT !.step = "paying"]
<1>1. /\ Seen(r) = s /\ PaidSince(r) = o /\ u.paid = o /\ u.inserted = i /\ u.step = r.step /\ u.state = r.state
      /\ u \in Row
  BY SeenIs DEF Ready, Row
<1>2. Agrees(u, i, o, c) /\ Counts(u, i, o) /\ o + c <= i
  <2>1. Agrees(u, i, o, c) /\ Counts(u, i, o)
    BY SeenAgrees DEF Ready
  <2> QED  BY <2>1 DEF Ready, Agrees
<1>3. /\ r.step # "paying" => c = 0
      /\ ~(payout.left > 0) => c = 0
      /\ lastAcceptance = Closed \/ r.step = "paying" => ~accepting
  BY DEF Ready, Agrees, Paying, Taking
<1>4. \/ r.step = "paying" /\ d = Quietly(u)
      \/ r.step # "paying" /\ d = Driven(r, Closed, 0, FALSE)
      \/ ~accepting /\ c = 0 /\ d = Quietly(Refunded(u))
      \/ r.step # "paying" /\ c = 0 /\ i > o /\ d = Driven(q, Closed, i - o, TRUE)
  BY <1>1, <1>3, DriveCases DEF Ready
<1>5. c = 0 => /\ Agrees(Refunded(u), i, o, c) /\ Counts(Refunded(u), i, o)
               /\ Refunded(u).state \in {"HELD", "DONE"}
  <2> SUFFICES ASSUME c = 0
               PROVE  /\ Agrees(Refunded(u), i, o, c) /\ Counts(Refunded(u), i, o)
                      /\ Refunded(u).state \in {"HELD", "DONE"}
    OBVIOUS
  <2>1. IsOpen(u)
    BY <1>1 DEF IsOpen, OpenStates
  <2> HIDE DEF u
  <2>2. CASE i > o
    <3>1. Refunded(u) = Hold(u, "short", i - o) /\ i - o \in Nat
      BY <1>1, <2>2 DEF Refunded
    <3> QED  BY <1>1, <1>2, <2>1, <3>1, HeldRow DEF Counts
  <2>3. CASE ~(i > o)
    <3>1. Refunded(u) = [u EXCEPT !.state = "DONE", !.outcome = "refunded", !.step = "none"] /\ i = o
      BY <1>1, <1>2, <2>3 DEF Refunded
    <3>2. Agrees(u, i, i, 0)
      BY <1>2, <3>1
    <3>3. Agrees(Refunded(u), i, i, 0) /\ ~IsOpen(Refunded(u)) /\ Refunded(u).state = "DONE"
      <4>1. \A y \in Row : IsOpen(y) /\ Agrees(y, i, i, 0) =>
              LET z == [y EXCEPT !.state = "DONE", !.outcome = "refunded", !.step = "none"]
              IN  Agrees(z, i, i, 0) /\ ~IsOpen(z) /\ z.state = "DONE"
        BY RefundedRow
      <4> QED  BY <1>1, <2>1, <3>1, <3>2, <4>1
    <3> QED  BY <3>1, <3>3 DEF Counts
  <2> QED  BY <2>2, <2>3
<1>6. c = 0 /\ i > o => Agrees(q, i, o, i - o) /\ Counts(q, i, o) /\ q.state = "REFUNDING" /\ q.step = "paying"
  BY <1>1, <1>2, PayingRow
<1> HIDE DEF s, u, q
<1>7. CASE r.step = "paying" /\ d = Quietly(u)
  <2>1. d.row = u /\ d.wants = lastAcceptance /\ d.pay = 0 /\ d.first = FALSE
    BY <1>7 DEF Driven, Quietly
  <2> QED  BY <1>1, <1>2, <1>3, <1>7, <2>1 DEF DriveSafe, Sends
<1>8. CASE r.step # "paying" /\ d = Driven(r, Closed, 0, FALSE)
  <2>1. d.row = r /\ d.wants = Closed /\ d.pay = 0 /\ d.first = FALSE
    BY <1>8 DEF Driven
  <2>2. c + d.pay = c
    BY <2>1
  <2>3. Agrees(r, i, o, c + d.pay) /\ Counts(r, i, o) /\ (accepting => Taking(r))
    BY <2>2 DEF Ready
  <2> QED  BY <2>1, <2>3 DEF DriveSafe, Sends
<1>9. CASE ~accepting /\ c = 0 /\ d = Quietly(Refunded(u))
  <2>1. d.row = Refunded(u) /\ d.wants = lastAcceptance /\ d.pay = 0 /\ d.first = FALSE
    BY <1>9 DEF Driven, Quietly
  <2> QED  BY <1>5, <1>9, <2>1 DEF DriveSafe, Sends
<1>10. CASE r.step # "paying" /\ c = 0 /\ i > o /\ d = Driven(q, Closed, i - o, TRUE)
  <2>1. d.row = q /\ d.wants = Closed /\ d.pay = i - o /\ d.first = TRUE
    BY <1>10 DEF Driven
  <2>2. lastAcceptance = Closed => ~accepting
    BY <1>3
  <2>3. c + d.pay = i - o
    <3>1. 0 + (i - o) = i - o
      OBVIOUS
    <3> QED  BY <1>10, <2>1, <3>1
  <2> QED  BY <1>6, <1>10, <2>1, <2>2, <2>3 DEF DriveSafe, Sends, IsOpen, OpenStates, Paying
<1> QED  BY <1>4, <1>7, <1>8, <1>9, <1>10

LEMMA DriveIsSafe ==
    ASSUME TypeOK, NEW r \in Row, NEW i \in Nat, NEW o \in Nat, NEW c \in Nat,
           Ready(r, i, o, c), NEW l \in BOOLEAN, NEW d \in Drive(r, l),
           r.state = "PARTIAL" /\ l /\ r.grace => lastAcceptance = Closed
    PROVE  DriveSafe(r, d, i, o, c)
BY LeasedSafe, AcceptingSafe, SettlingSafe, ChangeSafe, PartialSafe, RefundingSafe DEF Ready, IsOpen, OpenStates

-----------------------------------------------------------------------------
(* The beginning of a tick. *)

LEMMA GraceAgrees ==
    ASSUME NEW r \in Row, NEW i, NEW o, NEW c, NEW b \in BOOLEAN, r.state # "none"
    PROVE  LET q == [r EXCEPT !.grace = b] IN
           /\ Agrees(r, i, o, c) => Agrees(q, i, o, c)
           /\ Counts(r, i, o) => Counts(q, i, o)
           /\ q.state = r.state /\ q.step = r.step
BY DEF Row, Agrees, StepAgrees, Counts, IsOpen, Paid, Paying

LEMMA ExpiredAgrees ==
    ASSUME TypeOK, NEW gone, NEW p \in Txs, NEW i, NEW o, NEW c
    PROVE  LET q == Expired(gone)[p] IN
           /\ Agrees(tx[p], i, o, c) => Agrees(q, i, o, c)
           /\ Counts(tx[p], i, o) => Counts(q, i, o)
           /\ q.state = tx[p].state /\ q.step = tx[p].step
<1>1. CASE tx[p].client \in gone /\ tx[p].state \in Graceful
  <2>1. Expired(gone)[p] = [tx[p] EXCEPT !.grace = TRUE]
    BY <1>1 DEF Expired
  <2>2. tx[p].state # "none" /\ tx[p] \in Row
    BY <1>1 DEF Graceful, TypeOK
  <2>3. \A z \in Row : z.state # "none" =>
          LET q == [z EXCEPT !.grace = TRUE] IN
          /\ Agrees(z, i, o, c) => Agrees(q, i, o, c)
          /\ Counts(z, i, o) => Counts(q, i, o)
          /\ q.state = z.state /\ q.step = z.step
    BY GraceAgrees
  <2> QED  BY <2>1, <2>2, <2>3
<1>2. CASE ~(tx[p].client \in gone /\ tx[p].state \in Graceful)
  BY <1>2 DEF Expired
<1> QED  BY <1>1, <1>2

\* While money is paid out and no tick runs, it is to the open transaction's customer.
LEMMA ComingIs ==
    ASSUME StationInv, recovered, NEW p \in OpenTxs
    PROVE  /\ payout.left > 0 => payout.on = p
           /\ ~tick.busy => Coming(p) = payout.left
<1>1. p \in Txs /\ IsOpen(tx[p]) /\ p # None
  BY NoneAssumption DEF OpenTxs
<1>2. ASSUME payout.left > 0 PROVE payout.on = p
  <2> DEFINE q == payout.on
  <2>1. q \in Txs /\ q # None
    BY <1>2 DEF StationInv, MoneyInv, Asks, TypeOK
  <2>2. Agrees(tx[q], gave[q], got[q], Coming(q))
    BY <2>1 DEF StationInv, MoneyInv, RowsAgree
  <2>3. Coming(q) > 0
    BY <1>2, <2>1 DEF Coming, StationInv, TypeOK
  <2>4. IsOpen(tx[q])
    BY <2>2, <2>3 DEF Agrees, Paying, IsOpen, OpenStates
  <2> QED  BY <1>1, <2>1, <2>4 DEF StationInv, LeaseInv, OneOpen
<1>3. ASSUME ~tick.busy PROVE Coming(p) = payout.left
  <2>1. tick.on = None
    BY <1>3 DEF StationInv, Control, NoTick
  <2>2. payout.left \in Nat
    BY DEF StationInv, TypeOK
  <2> QED  BY <1>1, <1>2, <2>1, <2>2 DEF Coming
<1> QED  BY <1>2, <1>3

LEMMA TickDriveSafe ==
    ASSUME StationInv, recovered, ~tick.busy, NEW gone, NEW l \in BOOLEAN, NEW p \in OpenTxs,
           NEW d \in Drive(Expired(gone)[p], l /\ (Expired(gone)[p].grace => tx[p].grace))
    PROVE  DriveSafe(Expired(gone)[p], d, gave[p], got[p], payout.left) /\ DriveType(d)
<1> DEFINE r == Expired(gone)[p]  i == gave[p]  o == got[p]  ll == l /\ (r.grace => tx[p].grace)
<1>1. p \in Txs /\ IsOpen(tx[p]) /\ TypeOK /\ ll \in BOOLEAN
  BY DEF OpenTxs, StationInv
<1>2. r \in Row /\ IsOpen(r) /\ r.state = tx[p].state /\ r.step = tx[p].step
  BY <1>1, ExpiredRow, ExpiredAgrees
<1>3. i \in Nat /\ o \in Nat /\ payout.left \in Nat
  BY <1>1 DEF TypeOK
<1>4. Coming(p) = payout.left
  BY ComingIs
<1>5. Agrees(r, i, o, payout.left) /\ Counts(r, i, o)
  BY <1>1, <1>4, ExpiredAgrees DEF StationInv, MoneyInv, RowsAgree
<1>6. ASSUME accepting PROVE Taking(r) /\ lastAcceptance # Closed
  <2>1. ~tick.sent
    BY DEF StationInv, Control, NoTick
  <2>2. Taking(tx[p]) /\ lastAcceptance # Closed
    BY <1>1, <1>6, <2>1 DEF StationInv, MoneyInv, Acceptance
  <2> QED  BY <1>2, <2>2 DEF Taking
<1>7. Ready(r, i, o, payout.left)
  BY <1>2, <1>5, <1>6 DEF Ready
<1>8. ASSUME r.state = "PARTIAL", ll, r.grace PROVE lastAcceptance = Closed
  <2>1. ~tick.sent
    BY DEF StationInv, Control, NoTick
  <2> QED  BY <1>1, <1>2, <1>8, <2>1 DEF StationInv, MoneyInv, GraceClosed
<1> HIDE DEF r, i, o, ll
<1>9. d \in Drive(r, ll)
  BY DEF r, ll
<1>10. DriveSafe(r, d, i, o, payout.left)
  BY <1>1, <1>2, <1>3, <1>7, <1>8, <1>9, DriveIsSafe
<1>11. DriveType(d)
  BY <1>1, <1>2, <1>9, DriveTypes
<1> QED  BY <1>10, <1>11 DEF r, i, o

-----------------------------------------------------------------------------
(* Every step keeps the queue. *)

RowsClose ==
    \A p \in Txs : /\ IsOpen(tx'[p]) => IsOpen(tx[p])
                   /\ tx[p].state # "none" => tx'[p].state # "none"

LEMMA OneRowCloses ==
    ASSUME TypeOK, NEW p \in Txs, NEW q, tx' = [tx EXCEPT ![p] = q],
           q.state # "none", IsOpen(q) => IsOpen(tx[p])
    PROVE  RowsClose
BY DEF TypeOK, RowsClose

LEMMA CancelRow ==
    ASSUME NEW r \in Row
    PROVE  Refund(r).state = "REFUNDING" /\ Refund(r).step = "closing" /\ Refund(r).outcome = r.outcome
BY DEF Row, Refund

LEMMA SplitRow ==
    ASSUME NEW r \in Row
    PROVE  LET q == [r EXCEPT !.splitAsked = TRUE, !.state = "SETTLING", !.step = "closing"]
           IN  q.state = "SETTLING" /\ q.step = "closing"
BY DEF Row

LEMMA FinishRow ==
    ASSUME NEW r \in Row
    PROVE  LET q == PaidUp([r EXCEPT !.changeDue = 0])
           IN  q.state = "DONE" /\ q.outcome = "paid" /\ ~IsOpen(q)
BY DEF Row, PaidUp, IsOpen, OpenStates

LEMMA AckRow ==
    ASSUME NEW r \in Row, Final(r), NEW d \in BOOLEAN, NEW v \in BOOLEAN
    PROVE  /\ Acked(r, d, v).state \in {"DONE", "HELD"} /\ ~IsOpen(Acked(r, d, v))
           /\ r.state = "HELD" => Acked(r, d, v).state = "HELD" /\ Acked(r, d, v).held = r.held
           /\ r.state = "DONE" /\ r.outcome = "refunded"
                => Acked(r, d, v).state = "DONE" /\ Acked(r, d, v).outcome = "refunded"
           /\ Paid(r) => Paid(Acked(r, d, v)) \/ Acked(r, d, v).state = "HELD"
<1>1. CASE v /\ Paid(r) /\ r.split > 0
  BY <1>1 DEF Row, Final, FinalStates, Acked, Hold, Paid, IsOpen, OpenStates
<1>2. CASE ~(v /\ Paid(r) /\ r.split > 0)
  BY <1>2 DEF Row, Final, FinalStates, Acked, Paid, IsOpen, OpenStates
<1> QED  BY <1>1, <1>2

LEMMA RecoveredCloses ==
    ASSUME NEW r \in Row, NEW back
    PROVE  RecoveredRow(r, back).state \in {"DONE", "HELD"} /\ ~IsOpen(RecoveredRow(r, back))
BY DEF Row, RecoveredRow, Seen, Hold, IsOpen, OpenStates

LEMMA CallCloses ==
    ASSUME StationInv, Call, ~\E c \in Clients, p \in Txs : Start(c, p)
    PROVE  RowsClose
<1> USE DEF StationInv
<1>1. ASSUME NEW p \in Txs, Cancel(p) PROVE RowsClose
  <2>1. tx[p] \in Row /\ IsOpen(tx[p])
    BY <1>1, TxType DEF Cancel, IsOpen, OpenStates
  <2> QED  BY <1>1, <2>1, CancelRow, OneRowCloses DEF Cancel
<1>2. ASSUME NEW p \in Txs, Split(p) PROVE RowsClose
  <2>1. tx[p] \in Row /\ IsOpen(tx[p])
    BY <1>2, TxType DEF Split, IsOpen, OpenStates
  <2> QED  BY <1>2, <2>1, SplitRow, OneRowCloses DEF Split
<1>3. ASSUME NEW p \in Txs, Finish(p) PROVE RowsClose
  <2>1. tx[p] \in Row
    BY TxType
  <2> QED  BY <1>3, <2>1, FinishRow, OneRowCloses DEF Finish
<1>4. ASSUME NEW p \in Txs, NEW d \in BOOLEAN, NEW v \in BOOLEAN, Ack(p, d, v) PROVE RowsClose
  <2>1. tx[p] \in Row /\ Final(tx[p])
    BY <1>4, TxType DEF Ack
  <2> QED  BY <1>4, <2>1, AckRow, OneRowCloses DEF Ack
<1>5. ASSUME NEW c \in Clients, Lease(c) PROVE RowsClose
  <2>1. CASE UNCHANGED tx
    BY <2>1 DEF RowsClose
  <2>2. CASE Renew(c)
    <3> DEFINE p == leases[c].on
    <3>1. CASE p # None /\ IsOpen(tx[p]) /\ tx[p].grace
      <4>1. p \in Txs /\ tx[p] \in Row /\ tx[p].state # "none"
        BY <3>1 DEF TypeOK, IsOpen, OpenStates
      <4>2. tx' = [tx EXCEPT ![p] = [tx[p] EXCEPT !.grace = FALSE]]
        BY <2>2, <3>1, <4>1, TxType DEF Renew
      <4>3. [tx[p] EXCEPT !.grace = FALSE].state = tx[p].state
        BY <4>1 DEF Row
      <4> QED  BY <4>1, <4>2, <4>3, OneRowCloses DEF IsOpen
    <3>2. CASE ~(p # None /\ IsOpen(tx[p]) /\ tx[p].grace)
      BY <2>2, <3>2 DEF Renew, RowsClose
    <3> QED  BY <3>1, <3>2
  <2> QED  BY <1>5, <2>1, <2>2 DEF Lease
<1>6. ASSUME NEW c \in Clients, Release(c) PROVE RowsClose
  BY <1>6 DEF Release, RowsClose
<1> QED  BY <1>1, <1>2, <1>3, <1>4, <1>5, <1>6 DEF Call

LEMMA HostCloses ==
    ASSUME StationInv, HostStep
    PROVE  RowsClose
<1> USE DEF StationInv
<1>1. ASSUME NEW gone, NEW l \in BOOLEAN, TickBegin(gone, l) PROVE RowsClose
  <2>1. CASE TickIdle
    BY <2>1 DEF TickIdle, RowsClose
  <2>2. ASSUME NEW p \in OpenTxs, NEW d \in Drive(Expired(gone)[p], l /\ (Expired(gone)[p].grace => tx[p].grace)),
               TickDrive(gone, p, Expired(gone)[p], d)
        PROVE  RowsClose
    <3>1. DriveSafe(Expired(gone)[p], d, gave[p], got[p], payout.left)
      BY <1>1, <2>2, TickDriveSafe DEF TickBegin
    <3>2. \A q \in Txs : Expired(gone)[q].state = tx[q].state
      BY ExpiredAgrees
    <3>3. p \in Txs /\ IsOpen(tx[p]) /\ Expired(gone) \in [Txs -> Row]
      BY ExpiredRow DEF OpenTxs
    <3>4. \A q \in Txs : q # p => tx'[q] = Expired(gone)[q]
      BY <2>2, <3>3 DEF TickDrive
    <3>5. tx'[p] = IF d.first THEN d.row ELSE Expired(gone)[p]
      BY <2>2, <3>3 DEF TickDrive
    <3>6. tx'[p].state # "none"
      BY <3>1, <3>2, <3>3, <3>5 DEF DriveSafe, IsOpen, OpenStates
    <3> QED  BY <3>2, <3>3, <3>4, <3>6 DEF RowsClose, IsOpen
  <2> QED  BY <1>1, <2>1, <2>2 DEF TickBegin
<1>2. CASE TickEnd
  <2> DEFINE saved == IF tick.save THEN [tx EXCEPT ![tick.on] = tick.row] ELSE tx
  <2>1. PICK long \in SUBSET {p \in Txs : Paid(saved[p]) /\ ~saved[p].acked} : tx' = [p \in Txs |->
                  IF p \in long
                  THEN Hold(saved[p], "unacked", AtLeast0(saved[p].due - saved[p].changeOwed))
                  ELSE saved[p]]
    BY <1>2 DEF TickEnd
  <2>2. saved \in [Txs -> Row]
    BY DEF TypeOK
  <2>3. \A p \in Txs : /\ IsOpen(saved[p]) => IsOpen(tx[p])
                       /\ tx[p].state # "none" => saved[p].state # "none"
    BY <1>2 DEF TickEnd, MoneyInv, SaveSafe, Writes, TypeOK
  <2>4. \A q \in Row : \A n : Hold(q, "unacked", n).state = "HELD"
    BY DEF Hold, Row
  <2> HIDE DEF saved
  <2> QED  BY <2>1, <2>2, <2>3, <2>4 DEF RowsClose, IsOpen, OpenStates
<1>3. CASE Recover
  <2>1. PICK back \in BOOLEAN : tx' = [p \in Txs |-> IF IsOpen(tx[p]) THEN RecoveredRow(tx[p], back) ELSE tx[p]]
    BY <1>3 DEF Recover
  <2>2. \A p \in Txs : RecoveredRow(tx[p], back).state # "none"
    BY TxType, RecoveredCloses
  <2> QED  BY <2>1, <2>2, TxType, RecoveredCloses DEF RowsClose
<1>4. CASE UNCHANGED tx
  BY <1>4 DEF RowsClose
<1> QED  BY <1>1, <1>2, <1>3, <1>4 DEF HostStep, LoseDevice, OpenDevice, Crash, Boot

LEMMA StillFewer ==
    ASSUME RowsClose, UNCHANGED recovered, accepting' => accepting \/ recovered,
           payout'.left > 0 => payout.left > 0 \/ recovered, NEW G \in SUBSET Clients, LeasesGo(G)
    PROVE  Fewer
BY DEF RowsClose, Fewer

LEMMA CallFewer ==
    ASSUME StationInv, Call, ~\E c \in Clients, p \in Txs : Start(c, p),
           \A c \in Clients : Lease(c) => Holds(c)
    PROVE  Fewer
<1>1. RowsClose /\ TypeOK
  BY CallCloses DEF StationInv
<1>2. UNCHANGED <<recovered, accepting, payout>>
  BY DEF Call, Lease, Release, Cancel, Split, Finish, Ack, unit, memory
<1>3. ASSUME UNCHANGED leases PROVE Fewer
  <2>1. LeasesGo({})
    BY <1>3, LeasesStay
  <2> QED  BY <1>1, <1>2, <2>1, StillFewer
<1>4. ASSUME NEW c \in Clients, Lease(c) PROVE Fewer
  <2>1. UNCHANGED leases
    BY <1>4 DEF Lease
  <2> QED  BY <1>3, <2>1
<1>5. ASSUME NEW c \in Clients, Release(c) PROVE Fewer
  <2>1. LeasesGo({c})
    BY <1>1, <1>5, WithoutGo DEF Release
  <2> QED  BY <1>1, <1>2, <2>1, StillFewer
<1>6. ASSUME NEW p \in Txs, NEW d \in BOOLEAN, NEW v \in BOOLEAN, Ack(p, d, v) PROVE Fewer
  <2> DEFINE G == {c \in Clients : leases[c].on = p}
  <2>1. ~IsOpen(tx[p]) /\ leases' = Without(G)
    BY <1>6 DEF Ack, Final, FinalStates, IsOpen, OpenStates
  <2>2. LeasesGo(G)
    BY <1>1, <2>1, WithoutGo
  <2> QED  BY <1>1, <1>2, <2>2, StillFewer
<1>7. ASSUME NEW p \in Txs, Cancel(p) \/ Split(p) \/ Finish(p) PROVE Fewer
  <2>1. UNCHANGED leases
    BY <1>7 DEF Cancel, Split, Finish, memory
  <2> QED  BY <1>3, <2>1
<1> QED  BY <1>4, <1>5, <1>6, <1>7 DEF Call

LEMMA HostFewer == ASSUME StationInv, HostStep PROVE Fewer
<1>1. RowsClose /\ TypeOK
  BY HostCloses DEF StationInv
<1>2. ASSUME UNCHANGED <<leases, recovered, payout>>, accepting' => accepting PROVE Fewer
  <2>1. LeasesGo({})
    BY <1>2, LeasesStay
  <2> QED  BY <1>1, <1>2, <2>1, StillFewer
<1>3. ASSUME NEW gone \in SUBSET Clients, NEW l \in BOOLEAN, TickBegin(gone, l) PROVE Fewer
  <2> DEFINE G == {c \in gone : leases[c].on # None => ~IsOpen(tx[leases[c].on])}
  <2>1. recovered /\ UNCHANGED recovered /\ leases' = Without(G)
    BY <1>3 DEF TickBegin, Kept
  <2>2. LeasesGo(G)
    BY <1>1, <2>1, WithoutGo
  <2> QED  BY <1>1, <2>1, <2>2, StillFewer
<1>4. CASE TickEnd
  BY <1>2, <1>4 DEF TickEnd, unit
<1>5. CASE LoseDevice
  <2>1. LeasesGo({})
    BY <1>5, LeasesStay DEF LoseDevice
  <2> QED  BY <1>1, <1>5, <2>1 DEF LoseDevice, unit, Fewer, RowsClose
<1>6. CASE OpenDevice
  BY <1>2, <1>6 DEF OpenDevice
<1>7. CASE Recover
  <2>1. PICK back \in BOOLEAN : tx' = [p \in Txs |-> IF IsOpen(tx[p]) THEN RecoveredRow(tx[p], back) ELSE tx[p]]
    BY <1>7 DEF Recover
  <2>2. \A p \in Txs : ~IsOpen(tx'[p])
    BY <1>1, <2>1, TxType, RecoveredCloses
  <2>3. LeasesGo({})
    BY <1>7, LeasesStay DEF Recover
  <2> QED  BY <1>1, <1>7, <2>2, <2>3 DEF Recover, unit, Fewer, RowsClose
<1>8. CASE Crash
  <2>1. LeasesGo(Clients)
    BY <1>8 DEF Crash, LeasesGo
  <2> QED  BY <1>1, <1>8, <2>1 DEF Crash, unit, Fewer, RowsClose
<1>9. CASE Boot
  BY <1>2, <1>9 DEF Boot, unit, memory
<1> QED  BY <1>3, <1>4, <1>5, <1>6, <1>7, <1>8, <1>9 DEF HostStep

LEMMA UnitFewer == ASSUME StationInv, UnitStep PROVE Fewer
<1>1. UNCHANGED <<tx, leases, recovered>>
  BY DEF UnitStep, Insert, PayoutBegins, PayOut, PayoutEnds, Watchdog, memory
<1>2. RowsClose /\ LeasesGo({})
  BY <1>1, LeasesStay DEF RowsClose
<1>3. accepting' => accepting
  BY DEF UnitStep, Insert, PayoutBegins, PayOut, PayoutEnds, Watchdog
<1>4. payout'.left > 0 => payout.left > 0 \/ recovered
  <2>1. PayoutBegins => recovered
    BY DEF PayoutBegins, StationInv, Control
  <2>2. PayoutEnds => payout'.left = 0
    BY DEF PayoutEnds, NoPayout
  <2>3. (\E p \in Txs, v \in Coins : Insert(p, v)) \/ Watchdog => UNCHANGED payout
    BY DEF Insert, Watchdog
  <2>4. PayOut => payout.left > 0
    BY DEF PayOut
  <2> QED  BY <2>1, <2>2, <2>3, <2>4 DEF UnitStep
<1> QED  BY <1>1, <1>2, <1>3, <1>4, StillFewer

\* A client joins behind all who hold a lease.
LEMMA JoinLeases ==
    ASSUME StationInv, NEW c \in Clients, ~Holds(c), Lease(c)
    PROVE  LeaseInv'
<1> USE DEF StationInv, LeaseInv
<1>1. UNCHANGED <<tx, recovered, accepting, payout>>
  BY DEF Lease, unit
<1>2. leases \in [Clients -> LeaseType] /\ leases' = [leases EXCEPT ![c] =
         [held |-> TRUE, on |-> None, ahead |-> {d \in Clients : Holds(d)}]]
  BY DEF Lease, TypeOK, LeaseType
<1>3. /\ \A d \in Clients : d # c => leases'[d] = leases[d]
      /\ leases'[c].held /\ leases'[c].on = None /\ leases'[c].ahead = {d \in Clients : Holds(d)}
  BY <1>2
<1>4. \A d \in Clients : leases[d].ahead \subseteq Clients /\ leases[d].on \in Txs \cup {None}
  BY <1>2 DEF LeaseType
<1>5. LeaseOrder'
  <2>1. \A d \in Clients : \A e \in leases'[d].ahead : leases'[e].held
    BY <1>3, <1>4 DEF LeaseOrder, Holds
  <2>2. \A d, e \in Clients : leases'[d].held /\ leases'[e].held /\ d # e
                               => d \in leases'[e].ahead \/ e \in leases'[d].ahead
    BY <1>3 DEF LeaseOrder, Holds
  <2>3. \A d \in Clients : leases'[d].on # None => leases'[d].held /\ tx'[leases'[d].on].state # "none"
    BY <1>1, <1>3 DEF LeaseOrder, Holds
  <2> QED  BY <2>1, <2>2, <2>3 DEF LeaseOrder, Holds
<1>6. OpenIsLeased'
  <2> SUFFICES ASSUME recovered', NEW p \in Txs, IsOpen(tx'[p])
               PROVE  \E d \in Clients : leases'[d].on = p /\ AtHead(d)'
    BY DEF OpenIsLeased
  <2>1. PICK d \in Clients : leases[d].on = p /\ AtHead(d)
    BY <1>1 DEF OpenIsLeased
  <2>2. d # c /\ c \notin leases[d].ahead
    BY <2>1 DEF AtHead, InQueue, LeaseOrder
  <2>3. leases'[d] = leases[d] /\ \A e \in leases[d].ahead : leases'[e] = leases[e]
    BY <1>3, <1>4, <2>2
  <2> QED  BY <1>1, <2>1, <2>3 DEF AtHead, InQueue, Holds
<1>7. OneOpen'
  BY <1>1 DEF OneOpen
<1> QED  BY <1>5, <1>6, <1>7

LEMMA StartRow ==
    ASSUME TypeOK, NEW c \in Clients
    PROVE  LET q == [NoRow EXCEPT !.client = c, !.state = "LEASED", !.due = Due,
                                  !.start = valueIn, !.startPaid = paidOut]
           IN  /\ q \in Row /\ q.state = "LEASED" /\ IsOpen(q) /\ ~q.grace
               /\ Agrees(q, 0, 0, 0) /\ Counts(q, 0, 0)
<1>1. Due \in Nat /\ valueIn \in Nat /\ paidOut \in Nat
  BY MoneyAssumption DEF TypeOK
<1> DEFINE q == [NoRow EXCEPT !.client = c, !.state = "LEASED", !.due = Due,
                              !.start = valueIn, !.startPaid = paidOut]
<1>2. q \in Row
  BY <1>1 DEF NoRow, Row, OpenStates
<1>3. /\ q.state = "LEASED" /\ q.step = "none" /\ q.outcome = "none" /\ q.changeOwed = 0
      /\ q.heldReason = "none" /\ q.split = 0 /\ q.grace = FALSE
      /\ q.start = valueIn /\ q.startPaid = paidOut
  BY DEF NoRow
<1> HIDE DEF q
<1>4. Agrees(q, 0, 0, 0) /\ Counts(q, 0, 0) /\ IsOpen(q)
  BY <1>1, <1>3 DEF Agrees, StepAgrees, Counts, IsOpen, Paid, Paying, OpenStates
<1> QED  BY <1>2, <1>3, <1>4 DEF q

\* What a start does to the rows.
LEMMA Started ==
    ASSUME TypeOK, NEW c \in Clients, NEW p \in Txs, Start(c, p)
    PROVE  /\ tx[p].state = "none" /\ tx'[p] \in Row /\ tx'[p].state = "LEASED" /\ IsOpen(tx'[p])
           /\ ~tx'[p].grace /\ Agrees(tx'[p], 0, 0, 0) /\ Counts(tx'[p], 0, 0)
           /\ \A q \in Txs : q # p => tx'[q] = tx[q]
<1> DEFINE r == [NoRow EXCEPT !.client = c, !.state = "LEASED", !.due = Due,
                              !.start = valueIn, !.startPaid = paidOut]
<1>1. /\ r \in Row /\ r.state = "LEASED" /\ IsOpen(r) /\ ~r.grace /\ Agrees(r, 0, 0, 0) /\ Counts(r, 0, 0)
  BY StartRow
<1>2. tx' = [tx EXCEPT ![p] = r] /\ tx[p] = NoRow
  BY DEF Start
<1> HIDE DEF r
<1>3. tx'[p] = r /\ \A q \in Txs : q # p => tx'[q] = tx[q]
  BY <1>2, TxType
<1> QED  BY <1>1, <1>2, <1>3, NoRowType

\* The head of the queue starts, and nobody else's transaction is open.
LEMMA StartAlone ==
    ASSUME StationInv, NEW c \in Clients, MayStart(c), recovered, NEW q \in Txs
    PROVE  ~IsOpen(tx[q])
<1> SUFFICES ASSUME IsOpen(tx[q]) PROVE FALSE
  OBVIOUS
<1>1. PICK e \in Clients : leases[e].on = q /\ AtHead(e)
  BY DEF StationInv, LeaseInv, OpenIsLeased
<1>2. q # None /\ c # e
  BY <1>1, NoneAssumption DEF MayStart
<1>3. Holds(c) /\ Holds(e) /\ AtHead(c)
  BY <1>1 DEF MayStart, AtHead, InQueue
<1>4. c \in leases[e].ahead \/ e \in leases[c].ahead
  BY <1>2, <1>3 DEF StationInv, LeaseInv, LeaseOrder
<1> QED  BY <1>1, <1>3, <1>4 DEF AtHead

LEMMA StartLeases ==
    ASSUME StationInv, NEW c \in Clients, NEW p \in Txs, Start(c, p)
    PROVE  LeaseInv'
<1> USE DEF StationInv, LeaseInv
<1>1. /\ tx[p].state = "none" /\ tx'[p].state = "LEASED" /\ IsOpen(tx'[p])
      /\ \A q \in Txs : q # p => tx'[q] = tx[q]
  BY Started
<1>2. MayStart(c) /\ UNCHANGED <<recovered, accepting, payout>>
  BY DEF Start, unit
<1>3. leases \in [Clients -> LeaseType] /\ leases' = [leases EXCEPT ![c].on = p]
  BY DEF Start, TypeOK, LeaseType
<1>4. /\ \A d \in Clients : d # c => leases'[d] = leases[d]
      /\ leases'[c].held = leases[c].held /\ leases'[c].on = p /\ leases'[c].ahead = leases[c].ahead
  BY <1>3 DEF LeaseType
<1>5. \A d \in Clients : leases[d].ahead \subseteq Clients /\ leases[d].on \in Txs \cup {None}
  BY <1>3 DEF LeaseType
<1>6. LeaseOrder'
  <2>1. \A d \in Clients : \A e \in leases'[d].ahead : leases'[e].held
    BY <1>4, <1>5 DEF LeaseOrder, Holds
  <2>2. \A d, e \in Clients : leases'[d].held /\ leases'[e].held /\ d # e
                               => d \in leases'[e].ahead \/ e \in leases'[d].ahead
    BY <1>4 DEF LeaseOrder, Holds
  <2>3. \A d \in Clients : leases'[d].on # None => leases'[d].held /\ tx'[leases'[d].on].state # "none"
    <3>1. ASSUME NEW d \in Clients, d # c, leases'[d].on # None
          PROVE  leases'[d].held /\ tx'[leases'[d].on].state # "none"
      <4>1. leases'[d] = leases[d] /\ leases[d].on \in Txs
        BY <1>4, <1>5, <3>1
      <4>2. leases[d].held /\ tx[leases[d].on].state # "none"
        BY <3>1, <4>1 DEF LeaseOrder, Holds
      <4> QED  BY <1>1, <4>1, <4>2
    <3>2. leases'[c].held /\ tx'[leases'[c].on].state # "none"
      BY <1>1, <1>2, <1>4 DEF MayStart, Holds
    <3> QED  BY <3>1, <3>2
  <2> QED  BY <2>1, <2>2, <2>3 DEF LeaseOrder, Holds
<1>7. OpenIsLeased'
  <2> SUFFICES ASSUME recovered', NEW q \in Txs, IsOpen(tx'[q])
               PROVE  \E d \in Clients : leases'[d].on = q /\ AtHead(d)'
    BY DEF OpenIsLeased
  <2>1. q = p
    BY <1>1, <1>2, StartAlone
  <2>2. AtHead(c) /\ c \notin leases[c].ahead
    BY <1>2 DEF MayStart, AtHead
  <2>3. ASSUME NEW d \in leases[c].ahead PROVE ~InQueue(d)'
    <3>1. d \in Clients /\ d # c /\ ~InQueue(d) /\ leases'[d] = leases[d]
      BY <1>4, <1>5, <2>2, <2>3 DEF AtHead
    <3>2. Holds(d) /\ leases[d].on # None /\ ~IsOpen(tx[leases[d].on]) /\ leases[d].on \in Txs
      BY <1>5, <2>2, <2>3, <3>1 DEF InQueue, LeaseOrder
    <3>3. leases[d].on # p
      BY <1>1, <3>1, <3>2 DEF LeaseOrder
    <3> QED  BY <1>1, <3>1, <3>2, <3>3 DEF InQueue
  <2> QED  BY <1>1, <1>2, <1>4, <2>1, <2>3 DEF AtHead, InQueue, Holds, MayStart
<1>8. OneOpen'
  <2>1. recovered' \/ accepting' \/ payout'.left > 0 => recovered
    BY <1>2 DEF MayStart, Control
  <2> QED  BY <1>1, <1>2, <2>1, StartAlone DEF OneOpen
<1> QED  BY <1>6, <1>7, <1>8

LEMMA StepLeases == StationInv /\ TypeOK' /\ Step => LeaseInv'
<1> SUFFICES ASSUME StationInv, TypeOK', Step PROVE LeaseInv'
  OBVIOUS
<1>1. Fewer => LeaseInv'
  BY FewerLeases DEF StationInv
<1>2. CASE \E c \in Clients, p \in Txs : Start(c, p)
  BY <1>2, StartLeases
<1>3. CASE \E c \in Clients : Lease(c) /\ ~Holds(c)
  BY <1>3, JoinLeases
<1> QED  BY <1>1, <1>2, <1>3, CallFewer, HostFewer, UnitFewer DEF Step

-----------------------------------------------------------------------------
(* Every step keeps the money. *)

LEMMA InitInv == Init => StationInv
<1> SUFFICES ASSUME Init PROVE StationInv
  OBVIOUS
<1>1. TypeOK /\ Control
  BY InitType, InitControl
<1>2. \A p \in Txs : tx[p] = NoRow /\ gave[p] = 0 /\ got[p] = 0 /\ Coming(p) = 0
  BY NoneAssumption DEF Init, Coming, NoTick, NoPayout
<1>3. \A p \in Txs : ~IsOpen(tx[p]) /\ tx[p].state = "none"
  BY <1>2, NoRowType
<1>4. LeaseInv
  BY <1>3 DEF Init, LeaseInv, LeaseOrder, OpenIsLeased, OneOpen, Holds, NoLease
<1>5. ~Writes /\ ~accepting /\ tick.pay = 0 /\ payout.left = 0 /\ ~recovered
  BY DEF Init, Writes, NoTick, NoPayout
<1>6. Agrees(NoRow, 0, 0, 0) /\ Counts(NoRow, 0, 0)
  BY DEF Agrees, StepAgrees, Counts, NoRow, IsOpen, OpenStates, Paid, Paying
<1>7. RowsAgree
  BY <1>2, <1>5, <1>6 DEF RowsAgree
<1>8. MoneyInv
  BY <1>5, <1>7 DEF MoneyInv, Acceptance, Asks, SaveSafe, GraceClosed
<1> QED  BY <1>1, <1>4, <1>8 DEF StationInv

LEMMA ComingType ==
    /\ TypeOK => \A p \in Txs : Coming(p) \in Nat
    /\ TypeOK' => \A p \in Txs : Coming(p)' \in Nat
BY DEF TypeOK, Coming

\* The rows the calls leave agree.
LEMMA SplitAgrees ==
    ASSUME NEW r \in Row, r.state = "ACCEPTING", NEW i \in Nat, NEW o \in Nat, NEW c \in Nat,
           Agrees(r, i, o, c), Counts(r, i, o)
    PROVE  LET q == [r EXCEPT !.splitAsked = TRUE, !.state = "SETTLING", !.step = "closing"]
           IN  Agrees(q, i, o, c) /\ Counts(q, i, o) /\ q.state = "SETTLING" /\ q.step = "closing"
BY DEF Row, Agrees, Counts, StepAgrees, IsOpen, Paid, Paying, OpenStates

LEMMA FinishAgrees ==
    ASSUME NEW r \in Row, r.state = "PARTIAL", NEW i \in Nat, NEW o \in Nat, NEW c \in Nat,
           Agrees(r, i, o, c)
    PROVE  Agrees(PaidUp([r EXCEPT !.changeDue = 0]), i, o, c)
BY DEF Row, Agrees, StepAgrees, IsOpen, Paid, Paying, OpenStates, PaidUp

LEMMA AckAgrees ==
    ASSUME NEW r \in Row, Final(r), NEW i \in Nat, NEW o \in Nat, NEW c \in Nat, Agrees(r, i, o, c),
           NEW d \in BOOLEAN, NEW v \in BOOLEAN
    PROVE  Agrees(Acked(r, d, v), i, o, c)
<1>1. CASE v /\ Paid(r) /\ r.split > 0
  BY <1>1 DEF Row, Acked, Hold, Agrees, StepAgrees, IsOpen, Paid, Paying, OpenStates
<1>2. CASE ~(v /\ Paid(r) /\ r.split > 0)
  <2>1. Acked(r, d, v) = [r EXCEPT !.acked = TRUE, !.document = @ \/ d] /\ r.state # "none"
    BY <1>2 DEF Acked, Final, FinalStates
  <2> QED  BY <2>1 DEF Row, Agrees, StepAgrees, IsOpen, Paid, Paying, OpenStates
<1> QED  BY <1>1, <1>2

\* Less may come than was on its way: the unit gave up, or the tick was lost.
LEMMA LessComing ==
    ASSUME NEW r, NEW i \in Nat, NEW o \in Nat, NEW c \in Nat, NEW k \in Nat, k <= c, Agrees(r, i, o, c),
           r.changeDue \in Nat
    PROVE  Agrees(r, i, o, k)
BY DEF Agrees

LEMMA KeepRows ==
    ASSUME StationInv, TypeOK', UNCHANGED <<tx, valueIn, paidOut, gave, got>>,
           \A p \in Txs : Coming(p)' <= Coming(p),
           Writes' => Writes /\ tick'.row = tick.row /\ tick'.on = tick.on
    PROVE  RowsAgree'
<1>1. ASSUME NEW p \in Txs
      PROVE  Agrees(tx[p], gave[p], got[p], Coming(p)') /\ Counts(tx[p], gave[p], got[p])
  <2>1. tx[p].changeDue \in Nat
    BY TxType, RowFields DEF StationInv
  <2>2. Coming(p) \in Nat /\ Coming(p)' \in Nat /\ gave[p] \in Nat /\ got[p] \in Nat
    BY ComingType DEF StationInv, TypeOK
  <2> QED  BY <2>1, <2>2, LessComing DEF StationInv, MoneyInv, RowsAgree
<1>2. ASSUME Writes', NEW p \in Txs, p = tick.on
      PROVE  Agrees(tick.row, gave[p], got[p], Coming(p)') /\ Counts(tick.row, gave[p], got[p])
  <2>1. tick.row.changeDue \in Nat
    BY RowFields DEF StationInv, TypeOK
  <2>2. Coming(p) \in Nat /\ Coming(p)' \in Nat /\ gave[p] \in Nat /\ got[p] \in Nat
    BY ComingType DEF StationInv, TypeOK
  <2>3. Agrees(tick.row, gave[p], got[p], Coming(p)) /\ Counts(tick.row, gave[p], got[p])
    BY <1>2 DEF StationInv, MoneyInv, RowsAgree
  <2> QED  BY <2>1, <2>2, <2>3, LessComing
<1>3. Writes' => tick.on \in Txs /\ tick'.on = tick.on /\ tick'.row = tick.row
  BY DEF StationInv, TypeOK, MoneyInv, SaveSafe
<1> QED  BY <1>1, <1>2, <1>3 DEF RowsAgree, Counts

\* A call rewrites one row, while a tick awaits the unit or none runs.
LEMMA OneRowMoney ==
    ASSUME StationInv, Listening, NEW p \in Txs, NEW q, tx' = [tx EXCEPT ![p] = q],
           UNCHANGED <<recovered, tick, unit>>,
           lastAcceptance' = lastAcceptance \/ (lastAcceptance' = Unsure /\ IsOpen(tx[p])),
           q.state # "none", Agrees(q, gave[p], got[p], Coming(p)), Counts(q, gave[p], got[p]),
           IsOpen(q) => IsOpen(tx[p]),
           accepting /\ IsOpen(tx[p]) => Taking(q) /\ IsOpen(q),
           q.state = "PARTIAL" => tx[p].state = "PARTIAL" /\ ~q.grace,
           Writes /\ IsOpen(tick.row) /\ tick.on = p => IsOpen(q),
           Writes /\ tick.on = p /\ Final(q) =>
             /\ tick.row.state = "HELD" /\ tick.row.heldReason = "split_timeout"
             /\ Paid(q) \/ (q.state = "HELD" /\ q.held = tick.row.held)
    PROVE  MoneyInv'
<1> USE DEF StationInv, MoneyInv
<1>1. tx'[p] = q /\ \A x \in Txs : x # p => tx'[x] = tx[x]
  BY TxType
<1>2. UNCHANGED <<recovered, tick, accepting, payout, valueIn, paidOut, gave, got>>
  BY DEF unit
<1>3. RowsAgree'
  BY <1>1, <1>2 DEF RowsAgree, Coming, Counts, Writes
<1>4. Acceptance'
  <2> SUFFICES ASSUME accepting PROVE Acceptance'
    BY <1>2 DEF Acceptance
  <2>1. \E x \in Txs : IsOpen(tx'[x])
    BY <1>1 DEF Acceptance
  <2>2. \A x \in Txs : IsOpen(tx'[x]) => Taking(tx'[x])
    BY <1>1 DEF Acceptance
  <2>3. IF tick.sent THEN tick.wants # Closed ELSE lastAcceptance' # Closed
    BY UnsureType DEF Acceptance
  <2> QED  BY <1>2, <2>1, <2>2, <2>3 DEF Acceptance, Writes
<1>5. Asks'
  BY <1>2 DEF Asks, Writes
<1>6. SaveSafe'
  <2> SUFFICES ASSUME Writes PROVE SaveSafe'
    BY <1>2 DEF SaveSafe, Writes
  <2>1. tick.io /\ tick.on \in Txs /\ tick.row.state # "PARTIAL"
    BY DEF SaveSafe, Writes, Listening, TypeOK
  <2>2. CASE tick.on = p
    <3>1. tick.io /\ q.state = "PARTIAL" => tick.row.state = "HELD" /\ tick.row.heldReason = "split_timeout"
      BY <2>2 DEF SaveSafe
    <3> QED  BY <1>1, <1>2, <2>1, <2>2, <3>1 DEF SaveSafe
  <2>3. CASE tick.on # p
    <3>1. tx'[tick.on] = tx[tick.on]
      BY <1>1, <2>1, <2>3
    <3> QED  BY <1>2, <2>1, <3>1 DEF SaveSafe
  <2> QED  BY <2>2, <2>3
<1>7. GraceClosed'
  <2> SUFFICES ASSUME recovered, NEW x \in Txs, tx'[x].state = "PARTIAL" /\ tx'[x].grace
               PROVE  IF tick.sent THEN tick.wants = Closed ELSE lastAcceptance' = Closed
    BY <1>2 DEF GraceClosed
  <2>1. x # p /\ tx'[x] = tx[x] /\ IsOpen(tx[x])
    BY <1>1 DEF IsOpen, OpenStates
  <2>2. ~IsOpen(tx[p])
    BY <2>1 DEF LeaseInv, OneOpen
  <2> QED  BY <2>1, <2>2 DEF GraceClosed
<1> QED  BY <1>3, <1>4, <1>5, <1>6, <1>7

LEMMA StillMoney ==
    StationInv /\ UNCHANGED <<tx, recovered, lastAcceptance, tick, unit>> => MoneyInv'
BY DEF StationInv, MoneyInv, unit, RowsAgree, Coming, Counts, Writes, Acceptance, Asks, SaveSafe, GraceClosed

\* What is known of a row of the journal.
LEMMA RowOf ==
    ASSUME StationInv, NEW p \in Txs
    PROVE  /\ tx[p] \in Row /\ gave[p] \in Nat /\ got[p] \in Nat /\ Coming(p) \in Nat
           /\ Agrees(tx[p], gave[p], got[p], Coming(p)) /\ Counts(tx[p], gave[p], got[p])
BY TxType, ComingType DEF StationInv, MoneyInv, RowsAgree, TypeOK

LEMMA CancelMoney == ASSUME StationInv, NEW p \in Txs, Cancel(p) PROVE MoneyInv'
<1> DEFINE r == tx[p]  q == Refund(r)
<1>1. r \in Row /\ r.state \in {"LEASED", "ACCEPTING", "PARTIAL"} /\ IsOpen(r)
  BY RowOf DEF Cancel, IsOpen, OpenStates
<1>2. /\ Agrees(q, gave[p], got[p], Coming(p)) /\ Counts(q, gave[p], got[p])
      /\ q.state = "REFUNDING" /\ q.step = "closing"
  BY <1>1, RowOf, RefundRow
<1>3. tx' = [tx EXCEPT ![p] = q] /\ Listening /\ UNCHANGED <<recovered, lastAcceptance, tick, unit>>
  BY DEF Cancel, memory
<1> HIDE DEF q
<1> QED
  BY <1>1, <1>2, <1>3, OneRowMoney DEF Taking, IsOpen, OpenStates, Final, FinalStates

LEMMA SplitMoney == ASSUME StationInv, NEW p \in Txs, Split(p) PROVE MoneyInv'
<1> DEFINE r == tx[p]  q == [r EXCEPT !.splitAsked = TRUE, !.state = "SETTLING", !.step = "closing"]
<1>1. r \in Row /\ r.state = "ACCEPTING" /\ IsOpen(r)
  BY RowOf DEF Split, IsOpen, OpenStates
<1>2. /\ Agrees(q, gave[p], got[p], Coming(p)) /\ Counts(q, gave[p], got[p])
      /\ q.state = "SETTLING"
  BY <1>1, RowOf, SplitAgrees
<1>3. tx' = [tx EXCEPT ![p] = q] /\ Listening /\ UNCHANGED <<recovered, tick, unit>> /\ lastAcceptance' = Unsure
  BY DEF Split
<1> HIDE DEF q
<1> QED
  BY <1>1, <1>2, <1>3, OneRowMoney DEF Taking, IsOpen, OpenStates, Final, FinalStates

LEMMA FinishMoney == ASSUME StationInv, NEW p \in Txs, Finish(p) PROVE MoneyInv'
<1> DEFINE r == tx[p]  q == PaidUp([r EXCEPT !.changeDue = 0])
<1>1. r \in Row /\ r.state = "PARTIAL" /\ IsOpen(r)
  BY RowOf DEF Finish, IsOpen, OpenStates
<1>2. Agrees(q, gave[p], got[p], Coming(p)) /\ q.state = "DONE" /\ Paid(q) /\ ~IsOpen(q)
  BY <1>1, RowOf, FinishAgrees, FinishRow DEF Paid
<1>3. tx' = [tx EXCEPT ![p] = q] /\ Listening /\ UNCHANGED <<recovered, lastAcceptance, tick, unit>>
  BY DEF Finish, memory
<1>4. ~accepting
  BY <1>1 DEF StationInv, MoneyInv, Acceptance, Taking
<1>5. Writes /\ tick.on = p => tick.row.state = "HELD" /\ tick.row.heldReason = "split_timeout"
  BY <1>1, <1>3 DEF StationInv, MoneyInv, SaveSafe, Writes, Listening
<1> HIDE DEF q
<1> QED
  BY <1>1, <1>2, <1>3, <1>4, <1>5, OneRowMoney DEF Counts, IsOpen, OpenStates

LEMMA AckMoney ==
    ASSUME StationInv, NEW p \in Txs, NEW d \in BOOLEAN, NEW v \in BOOLEAN, Ack(p, d, v) PROVE MoneyInv'
<1> DEFINE r == tx[p]  q == Acked(r, d, v)
<1>1. r \in Row /\ Final(r) /\ ~IsOpen(r)
  BY RowOf DEF Ack, Final, FinalStates, IsOpen, OpenStates
<1>2. Agrees(q, gave[p], got[p], Coming(p)) /\ q.state \in {"DONE", "HELD"} /\ ~IsOpen(q)
  BY <1>1, RowOf, AckAgrees, AckRow
<1>3. tx' = [tx EXCEPT ![p] = q] /\ Listening /\ UNCHANGED <<recovered, lastAcceptance, tick, unit>>
  BY DEF Ack
<1>4. ASSUME Writes, tick.on = p
      PROVE  /\ tick.row.state = "HELD" /\ tick.row.heldReason = "split_timeout"
             /\ Paid(q) \/ (q.state = "HELD" /\ q.held = tick.row.held)
  <2>1. /\ tick.row.state = "HELD" /\ tick.row.heldReason = "split_timeout"
        /\ Paid(r) \/ (r.state = "HELD" /\ r.held = tick.row.held)
    BY <1>1, <1>4 DEF StationInv, MoneyInv, SaveSafe
  <2>2. CASE r.state = "HELD"
    BY <1>1, <2>1, <2>2, AckRow DEF Paid
  <2>3. CASE Paid(r) /\ v /\ r.split > 0
    <3>1. q.state = "HELD" /\ q.held = r.split
      BY <1>1, <2>3 DEF Acked, Hold, Row
    <3>2. r.split = gave[p] - got[p]
      BY <2>3, RowOf, RowFields DEF Agrees
    <3>3. Agrees(tick.row, gave[p], got[p], Coming(p))
      BY <1>4 DEF StationInv, MoneyInv, RowsAgree
    <3>4. gave[p] - got[p] = tick.row.held
      BY <2>1, <3>3 DEF Agrees
    <3> QED  BY <2>1, <3>1, <3>2, <3>4
  <2>4. CASE Paid(r) /\ ~(v /\ r.split > 0)
    <3>1. q = [r EXCEPT !.acked = TRUE, !.document = @ \/ d]
      BY <2>4 DEF Acked
    <3>2. Paid(q)
      BY <1>1, <2>4, <3>1 DEF Paid, Row
    <3> QED  BY <2>1, <3>2
  <2> QED  BY <2>1, <2>2, <2>3, <2>4
<1>5. Writes /\ tick.on = p => ~IsOpen(tick.row)
  BY <1>4 DEF IsOpen, OpenStates
<1> HIDE DEF q
<1> QED
  BY <1>1, <1>2, <1>3, <1>4, <1>5, OneRowMoney DEF Counts

LEMMA LeaseMoney == ASSUME StationInv, NEW c \in Clients, Lease(c) PROVE MoneyInv'
<1>1. CASE UNCHANGED <<tx, lastAcceptance>>
  BY <1>1, StillMoney DEF Lease
<1>2. CASE Renew(c) /\ ~UNCHANGED <<tx, lastAcceptance>>
  <2> DEFINE p == leases[c].on  r == tx[p]  q == [r EXCEPT !.grace = FALSE]
  <2>1. p # None /\ IsOpen(r) /\ r.grace
    BY <1>2 DEF Renew
  <2>2. p \in Txs /\ r \in Row /\ r.state # "none"
    BY <2>1, RowOf DEF StationInv, TypeOK, IsOpen, OpenStates
  <2>3. tx' = [tx EXCEPT ![p] = q] /\ lastAcceptance' = Unsure
    BY <1>2, <2>1, <2>2, TxType DEF Renew, StationInv
  <2>4. Listening /\ UNCHANGED <<recovered, tick, unit>>
    BY DEF Lease
  <2>5. /\ Agrees(q, gave[p], got[p], Coming(p)) /\ Counts(q, gave[p], got[p])
        /\ q.state = r.state /\ q.step = r.step /\ ~q.grace
    <3>1. Agrees(r, gave[p], got[p], Coming(p)) /\ Counts(r, gave[p], got[p])
      BY <2>2, RowOf
    <3>2. \A z \in Row : z.state # "none" =>
            LET y == [z EXCEPT !.grace = FALSE] IN
            /\ Agrees(z, gave[p], got[p], Coming(p)) => Agrees(y, gave[p], got[p], Coming(p))
            /\ Counts(z, gave[p], got[p]) => Counts(y, gave[p], got[p])
            /\ y.state = z.state /\ y.step = z.step
      BY GraceAgrees
    <3>3. ~q.grace
      BY <2>2 DEF Row
    <3> HIDE DEF r
    <3> QED  BY <2>2, <3>1, <3>2, <3>3
  <2>6. accepting => Taking(q)
    BY <2>1, <2>2, <2>5 DEF StationInv, MoneyInv, Acceptance, Taking
  <2>7. IsOpen(q) /\ ~Final(q)
    BY <2>1, <2>5 DEF IsOpen, OpenStates, Final, FinalStates
  <2> HIDE DEF q, p
  <2> QED  BY <2>1, <2>2, <2>3, <2>4, <2>5, <2>6, <2>7, OneRowMoney
<1> QED  BY <1>1, <1>2 DEF Lease

LEMMA StartMoney ==
    ASSUME StationInv, NEW c \in Clients, NEW p \in Txs, Start(c, p)
    PROVE  MoneyInv'
<1> USE DEF StationInv, MoneyInv
<1>1. /\ tx[p].state = "none" /\ tx'[p].state = "LEASED" /\ IsOpen(tx'[p])
      /\ Agrees(tx'[p], 0, 0, 0) /\ Counts(tx'[p], 0, 0)
      /\ \A q \in Txs : q # p => tx'[q] = tx[q]
  BY Started
<1>2. MayStart(c) /\ UNCHANGED <<recovered, lastAcceptance, tick, accepting, payout, valueIn, paidOut, gave, got>>
  BY DEF Start, unit
<1>3. gave[p] = 0 /\ got[p] = 0 /\ Coming(p) = 0
  <2>1. gave[p] = 0 /\ got[p] + Coming(p) <= 0
    BY <1>1, RowOf DEF Agrees
  <2> QED  BY <2>1, RowOf
<1>4. Writes => tick.on # p
  BY <1>1 DEF SaveSafe
<1>5. RowsAgree'
  BY <1>1, <1>2, <1>3, <1>4 DEF RowsAgree, Coming, Counts, Writes
<1>6. ~accepting
  <2>1. recovered => ~accepting
    BY <1>2, StartAlone DEF Acceptance
  <2> QED  BY <1>2, <2>1 DEF MayStart, Control
<1>7. Acceptance' /\ Asks'
  BY <1>2, <1>6 DEF Acceptance, Asks, Writes
<1>8. SaveSafe'
  <2> SUFFICES ASSUME Writes PROVE SaveSafe'
    BY <1>2 DEF SaveSafe, Writes
  <2>1. tx'[tick.on] = tx[tick.on]
    BY <1>1, <1>4 DEF SaveSafe, TypeOK
  <2> QED  BY <1>2, <2>1 DEF SaveSafe
<1>9. GraceClosed'
  BY <1>1, <1>2 DEF GraceClosed
<1> QED  BY <1>5, <1>7, <1>8, <1>9

LEMMA CallMoney == StationInv /\ Call => MoneyInv'
<1> SUFFICES ASSUME StationInv, Call PROVE MoneyInv'
  OBVIOUS
<1>1. \A c \in Clients : Release(c) => MoneyInv'
  BY StillMoney DEF Release
<1> QED
  BY <1>1, LeaseMoney, StartMoney, CancelMoney, SplitMoney, FinishMoney, AckMoney DEF Call

LEMMA TickIdleMoney ==
    ASSUME StationInv, TypeOK', NEW gone, NEW l, TickBegin(gone, l), TickIdle
    PROVE  MoneyInv'
<1> USE DEF StationInv, MoneyInv
<1>1. /\ UNCHANGED <<tx, recovered, lastAcceptance, payout, valueIn, paidOut, gave, got>>
      /\ \A p \in Txs : ~IsOpen(tx[p])
  BY DEF TickBegin, TickIdle, OpenTxs
<1>2. ~tick'.save /\ tick'.pay = 0 /\ tick'.on = None
  BY DEF TickIdle, NoTick
<1>3. ~Writes' /\ ~accepting'
  BY <1>1, <1>2 DEF Writes, TickIdle, Acceptance
<1>4. \A p \in Txs : Coming(p)' = Coming(p)
  <2>1. tick.on = None /\ \A p \in Txs : p # None
    BY NoneAssumption DEF TickBegin, Control, NoTick
  <2> QED  BY <1>1, <1>2, <2>1 DEF Coming
<1>5. \A p \in Txs : Coming(p)' <= Coming(p)
  BY <1>4, ComingType
<1>6. RowsAgree'
  BY <1>1, <1>3, <1>5, KeepRows
<1>7. GraceClosed'
  BY <1>1 DEF GraceClosed, IsOpen, OpenStates
<1> QED  BY <1>1, <1>2, <1>3, <1>6, <1>7 DEF Acceptance, Asks, SaveSafe

LEMMA TickDriveMoney ==
    ASSUME StationInv, NEW gone, NEW l \in BOOLEAN, TickBegin(gone, l), NEW p \in OpenTxs,
           NEW d \in Drive(Expired(gone)[p], l /\ (Expired(gone)[p].grace => tx[p].grace)),
           TickDrive(gone, p, Expired(gone)[p], d)
    PROVE  MoneyInv'
<1> USE DEF StationInv, MoneyInv
<1> DEFINE r == Expired(gone)[p]  i == gave[p]  o == got[p]  sent == Sends(d)
<1>1. /\ recovered /\ ~tick.busy
      /\ UNCHANGED <<recovered, lastAcceptance, payout, valueIn, paidOut, gave, got>>
  BY DEF TickBegin
<1>2. DriveSafe(r, d, i, o, payout.left) /\ DriveType(d)
  BY <1>1, TickDriveSafe
<1>3. /\ p \in Txs /\ IsOpen(tx[p]) /\ p # None /\ Expired(gone) \in [Txs -> Row]
      /\ i \in Nat /\ o \in Nat /\ payout.left \in Nat
  BY ExpiredRow, NoneAssumption DEF OpenTxs, TypeOK
<1>4. tick = NoTick /\ tick.on = None /\ ~tick.sent
  BY <1>1 DEF Control, NoTick
<1>5. /\ tx'[p] = IF d.first THEN d.row ELSE r
      /\ \A q \in Txs : q # p => tx'[q] = Expired(gone)[q]
  BY <1>3 DEF TickDrive
<1>6. /\ tick'.busy /\ tick'.io = (sent \/ d.pay > 0) /\ tick'.on = p /\ tick'.row = d.row
      /\ tick'.save = (d.row # r) /\ tick'.sent = sent
      /\ tick'.wants = (IF sent THEN d.wants ELSE Closed) /\ tick'.pay = d.pay
      /\ accepting' = IF sent THEN d.wants # Closed ELSE accepting
  BY DEF TickDrive, Sends
<1>7. Writes' = (d.row # r)
  BY <1>6 DEF Writes
<1>8. \A q \in Txs : q # p => ~IsOpen(tx'[q]) /\ ~IsOpen(tx[q])
  BY <1>1, <1>3, <1>5, ExpiredRow DEF LeaseInv, OneOpen
<1>9. /\ Coming(p) = payout.left /\ Coming(p)' = payout.left + d.pay
      /\ \A q \in Txs : q # p => Coming(q)' = Coming(q)
  <2>1. Coming(p) = payout.left /\ (payout.left > 0 => payout.on = p)
    BY <1>1, ComingIs
  <2>2. Coming(p)' = payout.left + d.pay
    BY <1>1, <1>2, <1>3, <1>6, <2>1 DEF Coming, DriveType
  <2>3. ASSUME NEW q \in Txs, q # p PROVE Coming(q)' = Coming(q)
    <3>1. q # None /\ tick'.on # q /\ tick.on # q
      BY <1>4, <1>6, <2>3, NoneAssumption
    <3> QED  BY <1>1, <3>1 DEF Coming
  <2> QED  BY <2>1, <2>2, <2>3
<1>10. Agrees(r, i, o, payout.left) /\ Counts(r, i, o) /\ IsOpen(r) /\ r.state = tx[p].state
  BY <1>3, <1>9, ExpiredAgrees, RowOf DEF IsOpen
<1>11. IsOpen(tx'[p]) /\ tx'[p].state # "none"
  BY <1>2, <1>5, <1>10 DEF DriveSafe, IsOpen, OpenStates
<1> HIDE DEF r, i, o, sent
<1>12. RowsAgree'
  <2>1. Agrees(tx'[p], i, o, payout.left + d.pay) /\ Counts(tx'[p], i, o)
    <3>1. CASE d.first
      BY <1>2, <1>5, <3>1 DEF DriveSafe
    <3>2. CASE ~d.first
      <4>1. payout.left + d.pay = payout.left
        BY <1>2, <1>3, <3>2 DEF DriveSafe
      <4> QED  BY <1>5, <1>10, <3>2, <4>1
    <3> QED  BY <3>1, <3>2
  <2>2. ASSUME NEW q \in Txs, q # p
        PROVE  Agrees(tx'[q], gave[q], got[q], Coming(q)) /\ Counts(tx'[q], gave[q], got[q])
    BY <1>5, <2>2, ExpiredAgrees, RowOf
  <2>3. Agrees(d.row, i, o, payout.left + d.pay) /\ Counts(d.row, i, o)
    BY <1>2 DEF DriveSafe
  <2> QED  BY <1>1, <1>6, <1>9, <2>1, <2>2, <2>3 DEF RowsAgree, Counts, i, o
<1>13. Acceptance'
  <2> SUFFICES ASSUME accepting' PROVE Acceptance'
    BY DEF Acceptance
  <2>1. Taking(d.row) /\ (~d.first => Taking(r))
    BY <1>2, <1>6 DEF DriveSafe, sent
  <2>2. Taking(tx'[p])
    BY <1>5, <2>1
  <2>3. IF sent THEN tick'.wants # Closed ELSE lastAcceptance # Closed
    BY <1>4, <1>6 DEF Acceptance
  <2> QED  BY <1>1, <1>3, <1>6, <1>8, <1>11, <2>1, <2>2, <2>3 DEF Acceptance
<1>14. Asks'
  <2>1. ASSUME d.pay > 0 PROVE d.row # r /\ payout.left = 0
    <3>1. payout.left = 0 /\ ~Paying(r) /\ Agrees(d.row, i, o, payout.left + d.pay)
      BY <1>2, <2>1 DEF DriveSafe
    <3>2. Paying(d.row)
      BY <2>1, <3>1, <1>2 DEF Agrees, DriveType
    <3> QED  BY <3>1, <3>2
  <2> QED  BY <1>1, <1>6, <1>7, <2>1 DEF Asks
<1>15. SaveSafe'
  <2> SUFFICES ASSUME d.row # r PROVE SaveSafe'
    BY <1>7 DEF SaveSafe
  <2>1. d.row.state \notin {"none", "LEASED"}
    BY <1>2 DEF DriveSafe
  <2>2. d.row.state = "PARTIAL" => ~tick'.io /\ ~tick'.sent /\ lastAcceptance = Closed
    <3>1. d.row.state = "PARTIAL" => ~sent /\ d.pay = 0 /\ lastAcceptance = Closed
      BY <1>2 DEF DriveSafe, sent
    <3>2. d.pay = 0 => ~(d.pay > 0)
      OBVIOUS
    <3> QED  BY <1>6, <3>1, <3>2
  <2>3. ASSUME tick'.io, tx'[p].state = "PARTIAL"
        PROVE  d.row.state = "HELD" /\ d.row.heldReason = "split_timeout"
    <3>1. ~d.first
      BY <1>5, <2>2, <2>3
    <3>2. r.state = "PARTIAL" /\ d.pay = 0
      BY <1>2, <1>5, <2>3, <3>1 DEF DriveSafe
    <3>3. ~(d.pay > 0)
      BY <3>2
    <3>4. sent
      BY <1>6, <2>3, <3>3
    <3> QED  BY <1>2, <3>2, <3>4 DEF DriveSafe, sent
  <2>4. ~Final(tx'[p])
    BY <1>11 DEF IsOpen, OpenStates, Final, FinalStates
  <2> QED  BY <1>1, <1>3, <1>6, <1>11, <2>1, <2>2, <2>3, <2>4 DEF SaveSafe
<1>16. GraceClosed'
  <2> SUFFICES ASSUME NEW q \in Txs, tx'[q].state = "PARTIAL"
               PROVE  IF sent THEN tick'.wants = Closed ELSE lastAcceptance = Closed
    BY <1>1, <1>6 DEF GraceClosed
  <2>1. q = p
    BY <1>8 DEF IsOpen, OpenStates
  <2>2. CASE d.first
    <3>1. d.row.state = "PARTIAL" /\ d.row # r
      BY <1>2, <1>5, <2>1, <2>2 DEF DriveSafe
    <3> QED  BY <1>2, <3>1 DEF DriveSafe, sent
  <2>3. CASE ~d.first
    <3>1. d.wants = Closed
      BY <1>2, <1>5, <2>1, <2>3 DEF DriveSafe
    <3> QED  BY <1>6, <3>1 DEF sent, Sends
  <2> QED  BY <2>2, <2>3
<1> QED  BY <1>12, <1>13, <1>14, <1>15, <1>16

LEMMA UnackedRow ==
    ASSUME NEW r \in Row, Paid(r), NEW i \in Nat, NEW o \in Nat, NEW c \in Nat, Agrees(r, i, o, c)
    PROVE  LET q == Hold(r, "unacked", AtLeast0(r.due - r.changeOwed))
           IN  Agrees(q, i, o, c) /\ q.state = "HELD" /\ ~IsOpen(q)
<1>1. r.due \in Nat /\ r.changeOwed \in Nat /\ i - o = r.due + r.changeOwed /\ ~Paying(r)
  BY RowFields DEF Agrees, Paid, Paying
<1>2. c = 0 /\ o <= i
  BY <1>1 DEF Agrees
<1>3. r.changeOwed = 0 => i - o = AtLeast0(r.due - r.changeOwed)
  BY <1>1 DEF AtLeast0
<1> DEFINE n == AtLeast0(r.due - r.changeOwed)
           q == Hold(r, "unacked", n)
<1>4. /\ q.state = "HELD" /\ q.step = "none" /\ q.heldReason = "unacked" /\ q.held = n
      /\ q.changeOwed = r.changeOwed
  BY DEF Row, Hold
<1> HIDE DEF n, q
<1>5. ~IsOpen(q) /\ ~Paid(q)
  BY <1>4 DEF IsOpen, OpenStates, Paid
<1>6. Agrees(q, i, o, c)
  BY <1>2, <1>3, <1>4, <1>5 DEF Agrees, StepAgrees, n
<1> QED  BY <1>4, <1>5, <1>6 DEF n, q

\* What the end of a tick writes.
LEMMA TickEnds ==
    ASSUME StationInv, TickEnd
    PROVE  \A p \in Txs : \E s \in Row :
             /\ s = (IF Writes /\ p = tick.on THEN tick.row ELSE tx[p])
             /\ \/ tx'[p] = s
                \/ Paid(s) /\ tx'[p] = Hold(s, "unacked", AtLeast0(s.due - s.changeOwed))
<1> USE DEF StationInv
<1> DEFINE saved == IF tick.save THEN [tx EXCEPT ![tick.on] = tick.row] ELSE tx
<1>1. PICK long \in SUBSET {p \in Txs : Paid(saved[p]) /\ ~saved[p].acked} : tx' = [p \in Txs |->
                IF p \in long
                THEN Hold(saved[p], "unacked", AtLeast0(saved[p].due - saved[p].changeOwed))
                ELSE saved[p]]
  BY DEF TickEnd
<1>2. saved \in [Txs -> Row] /\ \A p \in Txs : saved[p] = IF Writes /\ p = tick.on THEN tick.row ELSE tx[p]
  BY DEF TypeOK, TickEnd, Writes
<1> HIDE DEF saved
<1>3. ASSUME NEW p \in Txs
      PROVE  \/ tx'[p] = saved[p]
             \/ Paid(saved[p]) /\ tx'[p] = Hold(saved[p], "unacked", AtLeast0(saved[p].due - saved[p].changeOwed))
  BY <1>1
<1> QED  BY <1>2, <1>3

LEMMA TickEndMoney == ASSUME StationInv, TypeOK', TickEnd PROVE MoneyInv'
<1> USE DEF StationInv, MoneyInv
<1> DEFINE saved(p) == IF Writes /\ p = tick.on THEN tick.row ELSE tx[p]
<1>1. /\ UNCHANGED <<recovered, accepting, payout, valueIn, paidOut, gave, got>>
      /\ lastAcceptance' = IF tick.sent THEN tick.wants ELSE lastAcceptance
      /\ ~tick'.busy /\ tick'.pay = 0 /\ tick'.on = None /\ ~tick'.sent
  BY DEF TickEnd, unit, NoTick
<1>2. ~Writes'
  BY <1>1 DEF Writes
<1>3. ASSUME NEW p \in Txs
      PROVE  /\ saved(p) \in Row
             /\ Agrees(saved(p), gave[p], got[p], Coming(p)) /\ Counts(saved(p), gave[p], got[p])
             /\ \/ tx'[p] = saved(p)
                \/ /\ Paid(saved(p))
                   /\ tx'[p] = Hold(saved(p), "unacked", AtLeast0(saved(p).due - saved(p).changeOwed))
  BY TickEnds, RowOf DEF RowsAgree
<1>4. \A p \in Txs : Coming(p)' <= Coming(p) /\ Coming(p)' \in Nat /\ Coming(p) \in Nat
  <2>1. payout.left \in Nat /\ tick.pay \in Nat
    BY DEF TypeOK
  <2> QED  BY <1>1, <2>1, NoneAssumption DEF Coming
<1> HIDE DEF saved
<1>5. ASSUME NEW p \in Txs
      PROVE  /\ Agrees(tx'[p], gave[p], got[p], Coming(p)') /\ Counts(tx'[p], gave[p], got[p])
             /\ tx'[p] = saved(p) \/ (Paid(saved(p)) /\ tx'[p].state = "HELD" /\ ~IsOpen(tx'[p]))
  <2>1. gave[p] \in Nat /\ got[p] \in Nat /\ saved(p).changeDue \in Nat
    BY <1>3, RowFields DEF TypeOK
  <2>2. CASE tx'[p] = saved(p)
    BY <1>3, <1>4, <2>1, <2>2, LessComing
  <2>3. CASE Paid(saved(p)) /\ tx'[p] = Hold(saved(p), "unacked", AtLeast0(saved(p).due - saved(p).changeOwed))
    <3>1. Agrees(saved(p), gave[p], got[p], Coming(p)')
      BY <1>3, <1>4, <2>1, LessComing
    <3>2. Agrees(tx'[p], gave[p], got[p], Coming(p)') /\ tx'[p].state = "HELD" /\ ~IsOpen(tx'[p])
      <4>1. \A z \in Row : Paid(z) /\ Agrees(z, gave[p], got[p], Coming(p)') =>
              LET q == Hold(z, "unacked", AtLeast0(z.due - z.changeOwed))
              IN  Agrees(q, gave[p], got[p], Coming(p)') /\ q.state = "HELD" /\ ~IsOpen(q)
        BY <1>4, <2>1, UnackedRow
      <4> QED  BY <1>3, <2>3, <3>1, <4>1
    <3> QED  BY <2>3, <3>2 DEF Counts
  <2> QED  BY <1>3, <2>2, <2>3
<1>6. RowsAgree'
  BY <1>1, <1>2, <1>5 DEF RowsAgree, Counts
<1>7. Acceptance'
  <2> SUFFICES ASSUME accepting PROVE Acceptance'
    BY <1>1 DEF Acceptance
  <2>1. \A p \in Txs : IsOpen(tx'[p]) => Taking(tx'[p])
    BY <1>5 DEF Acceptance, saved
  <2>2. \E p \in Txs : IsOpen(tx'[p])
    <3>1. PICK p \in Txs : IsOpen(tx[p])
      BY DEF Acceptance
    <3>2. IsOpen(saved(p))
      BY <3>1 DEF Acceptance, saved, Taking, IsOpen, OpenStates
    <3>3. ~Paid(saved(p))
      BY <3>2 DEF Paid, IsOpen, OpenStates
    <3> QED  BY <1>5, <3>2, <3>3
  <2>3. lastAcceptance' # Closed
    BY <1>1 DEF Acceptance
  <2> QED  BY <1>1, <1>2, <2>1, <2>2, <2>3 DEF Acceptance
<1>8. Asks' /\ SaveSafe'
  BY <1>1, <1>2 DEF Asks, SaveSafe
<1>9. GraceClosed'
  <2> SUFFICES ASSUME recovered, NEW p \in Txs, tx'[p].state = "PARTIAL" /\ tx'[p].grace
               PROVE  lastAcceptance' = Closed
    BY <1>1 DEF GraceClosed
  <2>1. tx'[p] = saved(p)
    BY <1>5
  <2>2. CASE Writes /\ p = tick.on
    BY <1>1, <2>1, <2>2 DEF saved, SaveSafe
  <2>3. CASE ~(Writes /\ p = tick.on)
    BY <1>1, <2>1, <2>3 DEF saved, GraceClosed
  <2> QED  BY <2>2, <2>3
<1> QED  BY <1>6, <1>7, <1>8, <1>9

LEMMA RecoveredAgrees ==
    ASSUME TypeOK, NEW r \in Row, IsOpen(r), NEW i \in Nat, NEW o \in Nat, Agrees(r, i, o, 0), Counts(r, i, o),
           NEW back \in BOOLEAN
    PROVE  Agrees(RecoveredRow(r, back), i, o, 0)
<1> DEFINE s == [r EXCEPT !.inserted = i]
           b == [r EXCEPT !.inserted = 0]
           lost == AtLeast0(r.inserted - r.paid)
<1>1. Seen(r) = s /\ PaidSince(r) = o /\ s.inserted = i /\ s \in Row /\ IsOpen(s)
  BY SeenIs DEF Row, IsOpen
<1>2. Agrees(s, i, o, 0) /\ o <= i
  <2>1. Agrees(s, i, o, 0)
    BY SeenAgrees
  <2> QED  BY <2>1 DEF Agrees
<1>3. Agrees(Hold(b, "consistency", lost), i, o, 0)
  <2> DEFINE q == Hold(b, "consistency", lost)
  <2>1. q.state = "HELD" /\ q.step = "none" /\ q.heldReason = "consistency"
    BY DEF Row, Hold
  <2> HIDE DEF q
  <2>2. ~IsOpen(q) /\ ~Paid(q)
    BY <2>1 DEF IsOpen, OpenStates, Paid
  <2>3. Agrees(q, i, o, 0)
    BY <1>2, <2>1, <2>2 DEF Agrees, StepAgrees
  <2> QED  BY <2>3 DEF q
<1>4. i - o > 0 => Agrees(Hold(s, "power_loss", i - o), i, o, 0)
  <2> HIDE DEF s
  <2>1. \A z \in Row, n \in Nat : IsOpen(z) /\ Agrees(z, i, o, 0) /\ n = i - o
          => Agrees(Hold(z, "power_loss", n), i, o, 0)
    BY HeldRow
  <2>2. i - o > 0 => i - o \in Nat
    OBVIOUS
  <2> QED  BY <1>1, <1>2, <2>1, <2>2
<1>5. ~(i - o > 0) => Agrees([s EXCEPT !.state = "DONE", !.outcome = "refunded", !.step = "none", !.paid = o], i, o, 0)
  <2> DEFINE q == [s EXCEPT !.state = "DONE", !.outcome = "refunded", !.step = "none", !.paid = o]
  <2>1. q.state = "DONE" /\ q.outcome = "refunded" /\ q.step = "none" /\ q.heldReason = s.heldReason
    BY DEF Row
  <2>2. s.heldReason = "none"
    BY <1>1, <1>2 DEF Agrees, StepAgrees
  <2>3. ~(i - o > 0) => i = o
    BY <1>2
  <2> HIDE DEF q
  <2> QED  BY <1>2, <2>1, <2>2, <2>3 DEF Agrees, StepAgrees, IsOpen, OpenStates, Paid
<1> HIDE DEF s, b, lost
<1> QED  BY <1>1, <1>3, <1>4, <1>5 DEF RecoveredRow, b, lost

LEMMA RecoverMoney == ASSUME StationInv, Recover PROVE MoneyInv'
<1> USE DEF StationInv, MoneyInv
<1>1. /\ opened /\ ~recovered
      /\ UNCHANGED <<lastAcceptance, tick, accepting, payout, valueIn, paidOut, gave, got>>
  BY DEF Recover, unit
<1>2. ~accepting /\ payout.left = 0 /\ tick = NoTick
  BY <1>1 DEF Control, TypeOK
<1>3. tick.on = None /\ tick.pay = 0 /\ ~Writes /\ ~Writes'
  BY <1>1, <1>2 DEF Writes, NoTick
<1>4. \A p \in Txs : Coming(p) = 0 /\ Coming(p)' = 0
  BY <1>1, <1>2, <1>3, NoneAssumption DEF Coming
<1>5. PICK back \in BOOLEAN : tx' = [p \in Txs |-> IF IsOpen(tx[p]) THEN RecoveredRow(tx[p], back) ELSE tx[p]]
  BY DEF Recover
<1>6. ASSUME NEW p \in Txs
      PROVE  Agrees(tx'[p], gave[p], got[p], 0) /\ Counts(tx'[p], gave[p], got[p]) /\ ~IsOpen(tx'[p])
  <2>1. tx[p] \in Row /\ gave[p] \in Nat /\ got[p] \in Nat /\ Agrees(tx[p], gave[p], got[p], 0)
        /\ Counts(tx[p], gave[p], got[p])
    BY <1>4, RowOf
  <2>2. CASE IsOpen(tx[p])
    <3>1. tx'[p] = RecoveredRow(tx[p], back)
      BY <1>5, <2>2
    <3> QED  BY <2>1, <2>2, <3>1, RecoveredAgrees, RecoveredCloses DEF Counts
  <2>3. CASE ~IsOpen(tx[p])
    BY <1>5, <2>1, <2>3
  <2> QED  BY <2>2, <2>3
<1>7. RowsAgree'
  BY <1>1, <1>3, <1>4, <1>6 DEF RowsAgree, Counts
<1>8. GraceClosed'
  BY <1>6 DEF GraceClosed, IsOpen, OpenStates
<1> QED  BY <1>1, <1>2, <1>3, <1>7, <1>8 DEF Acceptance, Asks, SaveSafe

LEMMA CrashMoney == ASSUME StationInv, TypeOK', Crash PROVE MoneyInv'
<1> USE DEF StationInv, MoneyInv
<1>1. /\ UNCHANGED <<tx, accepting, payout, valueIn, paidOut, gave, got>> /\ lastAcceptance' = Unsure
      /\ ~recovered' /\ ~tick'.busy /\ tick'.pay = 0 /\ tick'.on = None /\ ~tick'.sent
  BY DEF Crash, unit, NoTick
<1>2. ~Writes'
  BY <1>1 DEF Writes
<1>3. \A p \in Txs : Coming(p)' <= Coming(p)
  <2>1. payout.left \in Nat /\ tick.pay \in Nat
    BY DEF TypeOK
  <2> QED  BY <1>1, <2>1, NoneAssumption DEF Coming
<1>4. RowsAgree'
  BY <1>1, <1>2, <1>3, KeepRows
<1>5. Acceptance'
  BY <1>1, <1>2, UnsureType DEF Acceptance
<1> QED  BY <1>1, <1>2, <1>4, <1>5 DEF Asks, SaveSafe, GraceClosed

LEMMA HostMoney == ASSUME StationInv, TypeOK', HostStep PROVE MoneyInv'
<1> USE DEF StationInv, MoneyInv
<1>1. ASSUME NEW gone, NEW l \in BOOLEAN, TickBegin(gone, l) PROVE MoneyInv'
  BY <1>1, TickIdleMoney, TickDriveMoney DEF TickBegin
<1>2. CASE LoseDevice
  BY <1>2 DEF LoseDevice, unit, RowsAgree, Coming, Counts, Writes, Acceptance, Asks, SaveSafe, GraceClosed
<1>3. CASE OpenDevice
  <2>1. ~Writes /\ ~recovered
    BY <1>3 DEF OpenDevice, Control, Writes
  <2>2. /\ UNCHANGED <<tx, recovered, tick, payout, valueIn, paidOut, gave, got>> /\ ~accepting'
    BY <1>3 DEF OpenDevice
  <2> QED
    BY <2>1, <2>2 DEF RowsAgree, Coming, Counts, Writes, Acceptance, Asks, SaveSafe, GraceClosed
<1>4. CASE Boot
  BY <1>4, StillMoney DEF Boot, memory
<1> QED  BY <1>1, <1>2, <1>3, <1>4, TickEndMoney, RecoverMoney, CrashMoney DEF HostStep

LEMMA InsertRow ==
    ASSUME NEW r \in Row, Taking(r), NEW i \in Nat, NEW o \in Nat, NEW c \in Nat, NEW v \in Nat, Agrees(r, i, o, c)
    PROVE  Agrees(r, i + v, o, c)
<1>1. ~Paid(r) /\ r.state \notin {"none", "LEASED", "PARTIAL", "PAYING_CHANGE", "DONE", "HELD"}
  BY DEF Taking, Paid
<1>2. o + c <= i + v
  BY DEF Agrees
<1>3. r.state = "SETTLING" => r.splitAsked \/ i + v >= r.due
  <2>1. r.due \in Nat
    BY RowFields
  <2>2. i >= r.due => i + v >= r.due
    BY <2>1
  <2> QED  BY <2>2 DEF Agrees
<1> QED  BY <1>1, <1>2, <1>3 DEF Agrees

LEMMA PayRow ==
    ASSUME NEW r \in Row, NEW i \in Nat, NEW o \in Nat, NEW c \in Nat, c > 0, Agrees(r, i, o, c)
    PROVE  Agrees(r, i, o + 1, c - 1) /\ IsOpen(r)
<1>1. Paying(r)
  BY DEF Agrees
<1>2. IsOpen(r) /\ ~Paid(r) /\ r.state \in {"PAYING_CHANGE", "REFUNDING"}
  BY <1>1 DEF Paying, Paid, IsOpen, OpenStates
<1>3. (o + 1) + (c - 1) = o + c
  OBVIOUS
<1> QED  BY <1>1, <1>2, <1>3 DEF Agrees

\* The row under a tick's save is open only with the one in the journal.
LEMMA WritesOpen ==
    ASSUME StationInv, Writes, IsOpen(tick.row)
    PROVE  recovered /\ tick.on \in Txs /\ IsOpen(tx[tick.on])
BY DEF StationInv, TypeOK, MoneyInv, SaveSafe, Writes, Control

LEMMA InsertMoney ==
    ASSUME StationInv, NEW p \in Txs, NEW v \in Coins, Insert(p, v) PROVE MoneyInv'
<1> USE DEF StationInv, MoneyInv
<1>1. /\ IsOpen(tx[p]) /\ (accepting \/ (recovered /\ tx[p].step = "closing"))
      /\ tick.busy => accepting \/ tick.row.step = "closing"
      /\ UNCHANGED <<tx, recovered, lastAcceptance, tick, accepting, payout, paidOut, got>>
      /\ valueIn' = valueIn + v /\ gave' = [gave EXCEPT ![p] = @ + v]
  BY DEF Insert, memory
<1>2. v \in Nat /\ valueIn \in Nat /\ tick.row \in Row
  BY MoneyAssumption DEF TypeOK
<1>3. gave'[p] = gave[p] + v /\ \A q \in Txs : q # p => gave'[q] = gave[q] /\ ~IsOpen(tx[q])
  BY <1>1 DEF TypeOK, LeaseInv, OneOpen
<1>4. \A r \in Row, i \in Nat, o \in Nat, c \in Nat :
        IsOpen(r) /\ r.step = "closing" /\ Agrees(r, i, o, c) => Taking(r)
  BY DEF Agrees, StepAgrees, Taking, IsOpen, OpenStates
<1>5. tx[p] \in Row /\ gave[p] \in Nat /\ got[p] \in Nat /\ Coming(p) \in Nat
      /\ Agrees(tx[p], gave[p], got[p], Coming(p)) /\ Counts(tx[p], gave[p], got[p])
  BY RowOf
<1>6. Taking(tx[p])
  BY <1>1, <1>4, <1>5 DEF Acceptance
<1>8. ASSUME NEW q \in Txs
      PROVE  Agrees(tx[q], gave'[q], got[q], Coming(q)) /\ Counts(tx[q], gave[q], got[q])'
  <2>1. CASE q = p
    <3>1. Agrees(tx[p], gave[p] + v, got[p], Coming(p))
      BY <1>2, <1>5, <1>6, InsertRow
    <3>2. IsOpen(tx[p]) => (valueIn + v) - tx[p].start = gave[p] + v
      BY <1>2, <1>5, RowFields DEF Counts
    <3> QED  BY <1>1, <1>3, <1>5, <2>1, <3>1, <3>2 DEF Counts
  <2>2. CASE q # p
    BY <1>1, <1>3, <2>2, RowOf DEF Counts
  <2> QED  BY <2>1, <2>2
<1>9. ASSUME Writes, NEW q \in Txs, q = tick.on
      PROVE  Agrees(tick.row, gave'[q], got[q], Coming(q)) /\ Counts(tick.row, gave[q], got[q])'
  <2>1. Agrees(tick.row, gave[q], got[q], Coming(q)) /\ Counts(tick.row, gave[q], got[q])
    BY <1>9 DEF RowsAgree
  <2>2. gave[q] \in Nat /\ got[q] \in Nat /\ Coming(q) \in Nat
    BY RowOf
  <2>3. CASE IsOpen(tick.row) /\ q = p
    <3>1. Taking(tick.row)
      BY <1>1, <1>2, <1>4, <1>9, <2>1, <2>2, <2>3 DEF Acceptance, Writes
    <3>2. Agrees(tick.row, gave[q] + v, got[q], Coming(q))
      BY <1>2, <2>1, <2>2, <3>1, InsertRow
    <3>3. (valueIn + v) - tick.row.start = gave[q] + v
      BY <1>2, <2>1, <2>2, <2>3, RowFields DEF Counts
    <3> QED  BY <1>1, <1>3, <2>1, <2>3, <3>2, <3>3 DEF Counts
  <2>4. CASE q # p
    <3>1. ~IsOpen(tick.row)
      BY <1>3, <1>9, <2>4, WritesOpen
    <3> QED  BY <1>1, <1>3, <2>1, <2>4, <3>1 DEF Counts
  <2>5. CASE ~IsOpen(tick.row) /\ q = p
    <3>1. ~Taking(tick.row)
      BY <2>5 DEF Taking, IsOpen, OpenStates
    <3>2. tick.row.step = "closing"
      BY <1>1, <1>9, <3>1 DEF Acceptance, Writes
    <3>3. tick.row.state \in {"DONE", "HELD"}
      BY <1>2, <1>9, <2>5 DEF SaveSafe, Row, IsOpen, FinalStates
    <3> QED  BY <2>1, <3>2, <3>3 DEF Agrees, StepAgrees
  <2> QED  BY <2>3, <2>4, <2>5
<1>10. Writes => tick.on \in Txs
  BY DEF SaveSafe, TypeOK
<1>11. RowsAgree'
  BY <1>1, <1>8, <1>9, <1>10 DEF RowsAgree, Coming, Counts, Writes
<1> QED  BY <1>1, <1>11 DEF Acceptance, Asks, SaveSafe, GraceClosed, Writes

LEMMA PayoutBeginsMoney == ASSUME StationInv, TypeOK', PayoutBegins PROVE MoneyInv'
<1> USE DEF StationInv, MoneyInv
<1>1. /\ tick.busy /\ tick.pay > 0
      /\ payout'.on = tick.on /\ payout'.left = tick.pay
      /\ UNCHANGED <<tx, recovered, lastAcceptance, accepting, valueIn, paidOut, gave, got>>
  BY DEF PayoutBegins
<1>2. /\ tick'.pay = 0 /\ tick'.busy = tick.busy /\ tick'.io = tick.io /\ tick'.on = tick.on
      /\ tick'.row = tick.row /\ tick'.save = tick.save /\ tick'.sent = tick.sent /\ tick'.wants = tick.wants
  BY DEF PayoutBegins, TypeOK
<1>3. Writes /\ payout.left = 0 /\ tick.on # None
  BY <1>1 DEF Asks, SaveSafe
<1>4. \A p \in Txs : Coming(p)' = Coming(p)
  <2>1. tick.pay \in Nat
    BY DEF TypeOK
  <2> QED  BY <1>1, <1>2, <1>3, <2>1 DEF Coming
<1>5. \A p \in Txs : Coming(p)' <= Coming(p)
  BY <1>4, ComingType
<1>6. RowsAgree'
  BY <1>1, <1>2, <1>3, <1>5, KeepRows
<1>7. Acceptance'
  BY <1>1, <1>2 DEF Acceptance, Writes
<1>8. Asks'
  BY <1>1, <1>2, <1>3 DEF Asks
<1>9. SaveSafe'
  BY <1>1, <1>2, <1>3 DEF SaveSafe
<1> QED  BY <1>1, <1>2, <1>6, <1>7, <1>8, <1>9 DEF GraceClosed

LEMMA PayOutMoney == ASSUME StationInv, TypeOK', PayOut PROVE MoneyInv'
<1> USE DEF StationInv, MoneyInv
<1>0. payout.on \in Txs /\ payout.on # None
  BY DEF PayOut, Asks, TypeOK
<1> PICK p \in Txs : p = payout.on
  BY <1>0
<1>1. /\ payout.left > 0 /\ payout'.on = p /\ payout'.left = payout.left - 1
      /\ paidOut' = paidOut + 1 /\ got' = [got EXCEPT ![p] = @ + 1]
      /\ UNCHANGED <<tx, recovered, lastAcceptance, tick, accepting, valueIn, gave>>
  BY DEF PayOut, memory, TypeOK
<1>2. p \in Txs /\ p # None /\ payout.left \in Nat /\ paidOut \in Nat /\ valueIn \in Nat /\ tick.pay \in Nat
  BY <1>0 DEF TypeOK
<1>3. got'[p] = got[p] + 1 /\ \A q \in Txs : q # p => got'[q] = got[q]
  BY <1>1, <1>2 DEF TypeOK
<1>4. /\ Coming(p) > 0 /\ Coming(p)' = Coming(p) - 1
      /\ \A q \in Txs : q # p => Coming(q)' = Coming(q)
  BY <1>1, <1>2 DEF Coming
<1>5. /\ gave[p] \in Nat /\ got[p] \in Nat /\ Coming(p) \in Nat /\ tx[p] \in Row
      /\ Agrees(tx[p], gave[p], got[p], Coming(p)) /\ Counts(tx[p], gave[p], got[p])
  BY <1>2, RowOf
<1>6. \A r \in Row : Agrees(r, gave[p], got[p], Coming(p))
        => Agrees(r, gave[p], got[p] + 1, Coming(p) - 1) /\ IsOpen(r)
  BY <1>4, <1>5, PayRow
<1>7. \A q \in Txs : q # p => ~IsOpen(tx[q])
  BY <1>1, <1>2, <1>5, <1>6 DEF LeaseInv, OneOpen
<1>8. ASSUME NEW r \in Row, IsOpen(r), Counts(r, gave[p], got[p])
      PROVE  valueIn - r.start = gave[p] /\ (paidOut + 1) - r.startPaid = got[p] + 1
  <2>1. r.startPaid \in Nat
    BY RowFields
  <2> QED  BY <1>2, <1>5, <1>8, <2>1 DEF Counts
<1>9. ASSUME NEW q \in Txs
      PROVE  Agrees(tx[q], gave[q], got'[q], Coming(q)') /\ Counts(tx[q], gave[q], got[q])'
  <2>1. CASE q = p
    <3>1. Agrees(tx[p], gave[p], got[p] + 1, Coming(p) - 1) /\ IsOpen(tx[p])
      BY <1>5, <1>6
    <3>2. valueIn - tx[p].start = gave[p] /\ (paidOut + 1) - tx[p].startPaid = got[p] + 1
      BY <1>5, <1>8, <3>1
    <3> QED  BY <1>1, <1>3, <1>4, <2>1, <3>1, <3>2 DEF Counts
  <2>2. CASE q # p
    BY <1>1, <1>3, <1>4, <1>7, <2>2, RowOf DEF Counts
  <2> QED  BY <2>1, <2>2
<1>10. ASSUME Writes, NEW q \in Txs, q = tick.on
       PROVE  Agrees(tick.row, gave[q], got'[q], Coming(q)') /\ Counts(tick.row, gave[q], got[q])'
  <2>1. Agrees(tick.row, gave[q], got[q], Coming(q)) /\ Counts(tick.row, gave[q], got[q]) /\ tick.row \in Row
    BY <1>10 DEF RowsAgree, TypeOK
  <2>2. CASE q = p
    <3>1. Agrees(tick.row, gave[p], got[p] + 1, Coming(p) - 1) /\ IsOpen(tick.row)
      BY <1>6, <2>1, <2>2
    <3>2. valueIn - tick.row.start = gave[p] /\ (paidOut + 1) - tick.row.startPaid = got[p] + 1
      BY <1>8, <2>1, <2>2, <3>1
    <3> QED  BY <1>1, <1>3, <1>4, <2>2, <3>1, <3>2 DEF Counts
  <2>3. CASE q # p
    <3>1. ~IsOpen(tick.row)
      BY <1>7, <1>10, <2>3, WritesOpen
    <3> QED  BY <1>1, <1>3, <1>4, <2>1, <2>3, <3>1 DEF Counts
  <2> QED  BY <2>2, <2>3
<1>11. Writes => tick.on \in Txs
  BY DEF SaveSafe, TypeOK
<1>12. RowsAgree'
  BY <1>1, <1>9, <1>10, <1>11 DEF RowsAgree, Coming, Counts, Writes
<1>13. Asks'
  BY <1>1, <1>2 DEF Asks, Writes
<1> QED  BY <1>1, <1>12, <1>13 DEF Acceptance, SaveSafe, GraceClosed, Writes

LEMMA UnitMoney == ASSUME StationInv, TypeOK', UnitStep PROVE MoneyInv'
<1> USE DEF StationInv, MoneyInv
<1>1. CASE PayoutEnds
  <2>1. /\ UNCHANGED <<tx, recovered, lastAcceptance, tick, accepting, valueIn, paidOut, gave, got>>
        /\ payout'.left = 0
    BY <1>1 DEF PayoutEnds, memory, NoPayout
  <2>2. \A p \in Txs : Coming(p)' <= Coming(p)
    <3>1. payout.left \in Nat /\ tick.pay \in Nat
      BY DEF TypeOK
    <3> QED  BY <2>1, <3>1 DEF Coming
  <2>3. RowsAgree'
    BY <2>1, <2>2, KeepRows DEF Writes
  <2> QED  BY <2>1, <2>3 DEF Acceptance, Asks, SaveSafe, GraceClosed, Writes
<1>2. CASE Watchdog
  <2>1. UNCHANGED <<tx, recovered, lastAcceptance, tick, payout, valueIn, paidOut, gave, got>> /\ ~accepting'
    BY <1>2 DEF Watchdog, memory
  <2> QED  BY <2>1 DEF RowsAgree, Coming, Counts, Writes, Acceptance, Asks, SaveSafe, GraceClosed
<1> QED  BY <1>1, <1>2, InsertMoney, PayoutBeginsMoney, PayOutMoney DEF UnitStep

LEMMA StationStep == StationInv /\ [Step]_stationVars => StationInv'
<1> SUFFICES ASSUME StationInv, [Step]_stationVars PROVE StationInv'
  OBVIOUS
<1>1. TypeOK' /\ Control'
  BY TypeStep, ControlStep DEF StationInv
<1>2. CASE Step
  BY <1>1, <1>2, StepLeases, CallMoney, HostMoney, UnitMoney DEF StationInv, Step
<1>3. CASE UNCHANGED stationVars
  <2>1. MoneyInv'
    BY <1>3, StillMoney DEF stationVars, memory
  <2>2. LeaseInv'
    BY <1>3 DEF stationVars, memory, unit, StationInv, LeaseInv, LeaseOrder, OpenIsLeased, OneOpen,
                AtHead, InQueue, Holds
  <2> QED  BY <1>1, <2>1, <2>2 DEF StationInv
<1> QED  BY <1>2, <1>3

\* The inductive invariant of the station.
THEOREM StationCorrect == Spec => []StationInv
<1>1. StationInv /\ [Next]_stationVars => StationInv'
  BY StationStep, NextIsStep
<1> QED  BY <1>1, InitInv, PTL DEF Spec

-----------------------------------------------------------------------------
(* What the invariant says of the money. *)

\* Each property is the invariant's.
LEMMA InvOneCustomer == StationInv => OneCustomer
<1> SUFFICES ASSUME StationInv PROVE OneCustomer
  OBVIOUS
<1>1. ASSUME recovered PROVE Cardinality(OpenTxs) <= 1
  <2>1. \A p, q \in OpenTxs : p = q
    BY <1>1 DEF StationInv, LeaseInv, OneOpen, OpenTxs
  <2>2. CASE OpenTxs = {}
    BY <2>2, FS_EmptySet
  <2>3. ASSUME NEW p \in OpenTxs PROVE Cardinality(OpenTxs) <= 1
    <3>1. OpenTxs = {p}
      BY <2>1
    <3>2. Cardinality(OpenTxs) = 1
      BY <3>1, FS_Singleton
    <3> QED  BY <3>2
  <2> QED  BY <2>2, <2>3
<1>2. accepting => OpenTxs # {}
  BY DEF StationInv, MoneyInv, Acceptance, OpenTxs
<1> QED  BY <1>1, <1>2 DEF OneCustomer

LEMMA InvMoneyAccounted == StationInv => MoneyAccounted
<1> SUFFICES ASSUME StationInv, NEW p \in Txs, Final(tx[p]), tx[p].heldReason # "consistency",
                    tx[p].heldReason = "unacked" => tx[p].changeOwed = 0
             PROVE  gave[p] - got[p] = Claim(tx[p])
  BY DEF MoneyAccounted
<1> DEFINE r == tx[p]
<1>1. Agrees(r, gave[p], got[p], Coming(p)) /\ gave[p] \in Nat /\ got[p] \in Nat
  BY RowOf
<1>2. CASE Paid(r)
  BY <1>1, <1>2 DEF Agrees, Claim
<1>3. CASE r.state = "DONE" /\ r.outcome = "refunded"
  <2>1. ~Paid(r) /\ Claim(r) = 0
    BY <1>3 DEF Paid, Claim
  <2>2. gave[p] - got[p] = 0
    BY <1>1, <1>3 DEF Agrees
  <2> QED  BY <2>1, <2>2
<1>4. CASE r.state = "HELD"
  <2>1. ~Paid(r) /\ Claim(r) = r.held
    BY <1>4 DEF Paid, Claim
  <2> QED  BY <1>1, <1>4, <2>1 DEF Agrees
<1> QED  BY <1>1, <1>2, <1>3, <1>4 DEF Final, FinalStates, Agrees, StepAgrees, Paid

LEMMA InvNeverPaysMore == StationInv => NeverPaysMore
<1> SUFFICES ASSUME StationInv, NEW p \in Txs PROVE got[p] <= gave[p]
  BY DEF NeverPaysMore
<1>1. gave[p] \in Nat /\ got[p] \in Nat /\ Coming(p) \in Nat /\ got[p] + Coming(p) <= gave[p]
  BY RowOf DEF Agrees
<1> QED  BY <1>1

LEMMA InvPaysFromJournal == StationInv => PaysFromJournal
<1> SUFFICES ASSUME StationInv, payout.left > 0
             PROVE  tx[payout.on].step = "paying" /\ tx[payout.on].state \in {"PAYING_CHANGE", "REFUNDING"}
  BY DEF PaysFromJournal
<1>1. payout.on \in Txs /\ payout.left \in Nat /\ tick.pay \in Nat
  BY DEF StationInv, MoneyInv, Asks, TypeOK
<1>2. PICK p \in Txs : p = payout.on
  BY <1>1
<1>3. Coming(p) > 0
  BY <1>1, <1>2 DEF Coming
<1>4. Paying(tx[p])
  BY <1>3, RowOf DEF Agrees
<1> QED  BY <1>2, <1>4 DEF Paying

\* Once the host has read the unit, the money of at most one customer is in the machine,
\* and the acceptors are open only for an open transaction (station.ts:378-384, 495-506).
THEOREM OneAtATime == Spec => []OneCustomer
BY StationCorrect, InvOneCustomer, PTL

\* To the smallest coin, what the customer of an ended transaction put in and did not get
\* back is its price with the change owed, or the credit held for it, whatever the unit,
\* the calls and the host did meanwhile (station.ts:334-368, 873-1094).
THEOREM NoCoinLost == Spec => []MoneyAccounted
BY StationCorrect, InvMoneyAccounted, PTL

\* No change and no refund gives a customer more than they put in, though a payout fails
\* half way or the host stops while it runs (station.ts:922-941, 1041-1094).
THEOREM NothingPaidTwice == Spec => []NeverPaysMore
BY StationCorrect, InvNeverPaysMore, PTL

\* What the unit pays out is in the journal as being paid before the unit is asked
\* (station.ts:896-920, 1055-1067).
THEOREM PaidFromJournal == Spec => []PaysFromJournal
BY StationCorrect, InvPaysFromJournal, PTL

-----------------------------------------------------------------------------
(* The end of a transaction is its end. *)

\* What may become of a row that ended.
EndStays(r, s) ==
    /\ r.state = "HELD" => s.state = "HELD" /\ s.held = r.held
    /\ r.state = "DONE" /\ r.outcome = "refunded" => s.state = "DONE" /\ s.outcome = "refunded"
    /\ Paid(r) => Paid(s) \/ s.state = "HELD"

LEMMA OneRowEnds ==
    ASSUME TypeOK, NEW p \in Txs, NEW q, tx' = [tx EXCEPT ![p] = q], EndStays(tx[p], q)
    PROVE  \A x \in Txs : EndStays(tx[x], tx'[x])
BY DEF TypeOK, EndStays

LEMMA OpenEnds == ASSUME NEW r, NEW s, ~Final(r) PROVE EndStays(r, s)
BY DEF EndStays, Final, FinalStates, Paid

LEMMA CallEnds == StationInv /\ Call => \A x \in Txs : EndStays(tx[x], tx'[x])
<1> SUFFICES ASSUME StationInv, Call PROVE \A x \in Txs : EndStays(tx[x], tx'[x])
  OBVIOUS
<1> USE DEF StationInv
<1>1. ASSUME UNCHANGED tx PROVE \A x \in Txs : EndStays(tx[x], tx'[x])
  BY <1>1 DEF EndStays
<1>2. ASSUME NEW p \in Txs, NEW q, tx' = [tx EXCEPT ![p] = q], ~Final(tx[p])
      PROVE  \A x \in Txs : EndStays(tx[x], tx'[x])
  BY <1>2, OneRowEnds, OpenEnds
<1>3. ASSUME NEW c \in Clients, NEW p \in Txs, Start(c, p) PROVE \A x \in Txs : EndStays(tx[x], tx'[x])
  <2>1. ~Final(tx[p])
    BY <1>3, Started DEF Final, FinalStates
  <2> QED  BY <1>2, <1>3, <2>1 DEF Start
<1>4. ASSUME NEW p \in Txs, Cancel(p) \/ Split(p) \/ Finish(p) PROVE \A x \in Txs : EndStays(tx[x], tx'[x])
  <2>1. ~Final(tx[p])
    BY <1>4 DEF Cancel, Split, Finish, Final, FinalStates
  <2> QED  BY <1>2, <1>4, <2>1 DEF Cancel, Split, Finish
<1>5. ASSUME NEW p \in Txs, NEW d \in BOOLEAN, NEW v \in BOOLEAN, Ack(p, d, v)
      PROVE  \A x \in Txs : EndStays(tx[x], tx'[x])
  <2>1. EndStays(tx[p], Acked(tx[p], d, v))
    BY <1>5, RowOf, AckRow DEF Ack, EndStays
  <2> QED  BY <1>5, <2>1, OneRowEnds DEF Ack
<1>6. ASSUME NEW c \in Clients, Lease(c) PROVE \A x \in Txs : EndStays(tx[x], tx'[x])
  <2>1. CASE Renew(c) /\ ~UNCHANGED tx
    <3>1. leases[c].on \in Txs /\ ~Final(tx[leases[c].on])
      BY <2>1 DEF Renew, TypeOK, IsOpen, OpenStates, Final, FinalStates
    <3>2. \E q : tx' = [tx EXCEPT ![leases[c].on] = q]
      BY <2>1, <3>1, TxType DEF Renew
    <3> QED  BY <1>2, <3>1, <3>2
  <2> QED  BY <1>1, <1>6, <2>1 DEF Lease
<1>7. ASSUME NEW c \in Clients, Release(c) PROVE \A x \in Txs : EndStays(tx[x], tx'[x])
  BY <1>1, <1>7 DEF Release
<1> QED  BY <1>3, <1>4, <1>5, <1>6, <1>7 DEF Call

LEMMA HostEnds == StationInv /\ HostStep => \A x \in Txs : EndStays(tx[x], tx'[x])
<1> SUFFICES ASSUME StationInv, HostStep, NEW x \in Txs, Final(tx[x]) PROVE EndStays(tx[x], tx'[x])
  BY OpenEnds
<1>1. ASSUME tx'[x] = tx[x] PROVE EndStays(tx[x], tx'[x])
  BY <1>1 DEF EndStays
<1>2. ~IsOpen(tx[x]) /\ tx[x].state \notin Graceful
  BY DEF Final, FinalStates, IsOpen, OpenStates, Graceful
<1>3. ASSUME NEW gone, NEW l, TickBegin(gone, l) PROVE tx'[x] = tx[x]
  <2>1. Expired(gone)[x] = tx[x]
    BY <1>2 DEF Expired
  <2>2. CASE TickIdle
    BY <2>2 DEF TickIdle
  <2>3. ASSUME NEW p \in OpenTxs, NEW d, TickDrive(gone, p, Expired(gone)[p], d) PROVE tx'[x] = tx[x]
    <3>1. x # p
      BY <1>2 DEF OpenTxs
    <3> QED  BY <2>1, <2>3, <3>1 DEF TickDrive, Expired
  <2> QED  BY <1>3, <2>2, <2>3 DEF TickBegin
<1>4. CASE TickEnd
  <2>1. PICK s \in Row : /\ s = (IF Writes /\ x = tick.on THEN tick.row ELSE tx[x])
                         /\ \/ tx'[x] = s
                            \/ Paid(s) /\ tx'[x] = Hold(s, "unacked", AtLeast0(s.due - s.changeOwed))
    BY <1>4, TickEnds
  <2>2. s = tx[x] \/ (s.state = "HELD" /\ (Paid(tx[x]) \/ (tx[x].state = "HELD" /\ tx[x].held = s.held)))
    BY <2>1 DEF StationInv, MoneyInv, SaveSafe
  <2>3. Paid(s) /\ tx'[x] = Hold(s, "unacked", AtLeast0(s.due - s.changeOwed)) => tx'[x].state = "HELD"
    BY DEF Row, Hold
  <2> QED  BY <2>1, <2>2, <2>3 DEF EndStays, Paid
<1>5. CASE Recover
  BY <1>1, <1>2, <1>5 DEF Recover
<1>6. CASE UNCHANGED tx
  BY <1>1, <1>6
<1> QED  BY <1>1, <1>3, <1>4, <1>5, <1>6 DEF HostStep, LoseDevice, OpenDevice, Crash, Boot

LEMMA StepEnds == StationInv /\ [Step]_stationVars => \A x \in Txs : EndStays(tx[x], tx'[x])
<1>1. UNCHANGED tx => \A x \in Txs : EndStays(tx[x], tx'[x])
  BY DEF EndStays
<1>2. UnitStep \/ UNCHANGED stationVars => UNCHANGED tx
  BY DEF UnitStep, Insert, PayoutBegins, PayOut, PayoutEnds, Watchdog, stationVars
<1> QED  BY <1>1, <1>2, CallEnds, HostEnds DEF Step

\* Money given back or held for a customer is never taken for a sale after all, and what was
\* paid may only become a held credit, though calls and the tick's save cross (station.ts:592-624,
\* 1117-1124).
THEOREM EndIsTheEnd == Spec => EndsForGood
<1> DEFINE A == \A p \in Txs :
                  /\ tx[p].state = "HELD" => tx'[p].state = "HELD" /\ tx'[p].held = tx[p].held
                  /\ tx[p].state = "DONE" /\ tx[p].outcome = "refunded"
                       => tx'[p].state = "DONE" /\ tx'[p].outcome = "refunded"
                  /\ Paid(tx[p]) => Paid(tx'[p]) \/ tx'[p].state = "HELD"
<1>1. StationInv /\ [Next]_stationVars => [A]_stationVars
  BY StepEnds, NextIsStep DEF EndStays
<1> HIDE DEF A
<1>2. Spec => [][A]_stationVars
  BY <1>1, StationCorrect, PTL DEF Spec
<1> QED  BY <1>2 DEF A, EndsForGood

=============================================================================
