---------------------------- MODULE CashStation ----------------------------
(***************************************************************************)
(* One cash station: the host's CashStation (main/cash/station.ts), its    *)
(* journal (main/cash/journal.ts) and the PayLink unit under it.           *)
(*                                                                         *)
(* The station is driven by a tick that reads the unit, takes the open     *)
(* transaction's row from the journal, works on that copy across awaited   *)
(* device commands and writes it back.  The clients' calls (lease, start,  *)
(* cancel, split, finish, ack) run between those awaits on rows of their   *)
(* own: TickBegin and TickEnd are the two sides of the awaits.  Here any   *)
(* client may call anything at any time; CashPay says what a kiosk calls.  *)
(*                                                                         *)
(* Time is a choice: a lease, a grace, a deadline, a split's wait or an    *)
(* unacknowledged payment may run out at any tick.  Two lengths of time    *)
(* are assumed: settleMs outlasts a tick and the fall of a coin (a row is  *)
(* settled only after the tick that closed the acceptors), and a payout    *)
(* running when the host stopped is over when the unit is opened again.    *)
(***************************************************************************)
EXTENDS Integers, FiniteSets

CONSTANTS
    Clients,  \* the kiosks and tills assigned to the station
    Txs,      \* transaction ids, each made by one client
    Due,      \* what a sale costs, in the smallest coin
    Coins,    \* the denominations customers put in
    MaxIn,    \* bound: what is put in altogether
    None

ASSUME NoneAssumption == None \notin Txs \cup Clients
ASSUME MoneyAssumption == Due \in Nat \ {0} /\ Coins \subseteq Nat \ {0} /\ MaxIn \in Nat

VARIABLES
    \* The journal.
    tx,              \* cash_tx: the row of a transaction
    \* In the host's memory.
    up,              \* the host's process runs
    opened,          \* CashStation.opened
    recovered,       \* CashStation.recovered
    leases,          \* CashStation.leases: a client's, and who joined before it
    lastAcceptance,  \* what the acceptors were last told: Unsure, Closed or
                     \*   what is still missing
    tick,            \* the tick between its two sides
    \* The unit and the customers.
    accepting,       \* the acceptors take money
    payout,          \* what the unit is paying out, and for which row
    valueIn,         \* CurrentValue: all that ever came in
    paidOut,         \* CurrentPaid: all that ever went out
    gave,            \* what the customer of a transaction really put in
    got              \*   and really got back

memory == <<opened, recovered, leases, lastAcceptance, tick>>
unit == <<accepting, payout, valueIn, paidOut, gave, got>>
stationVars == <<tx, up, memory, unit>>

Unsure == -1
Closed == 0

OpenStates == {"LEASED", "ACCEPTING", "SETTLING", "PAYING_CHANGE", "PARTIAL", "REFUNDING"}
FinalStates == {"DONE", "HELD"}
Graceful == {"LEASED", "ACCEPTING", "PARTIAL"}

Row == [client : Clients \cup {None},
        state : OpenStates \cup FinalStates \cup {"none"},
        outcome : {"none", "paid", "refunded"},
        step : {"none", "closing", "paying"},
        start : Nat, startPaid : Nat, inserted : Nat, paid : Nat,
        due : Nat, changeDue : Nat, changeOwed : Nat, split : Nat, held : Nat,
        heldReason : {"none", "power_loss", "consistency", "short", "unacked",
                      "split_timeout", "split_void"},
        splitAsked : BOOLEAN, grace : BOOLEAN, acked : BOOLEAN, document : BOOLEAN]

NoRow == [client |-> None, state |-> "none", outcome |-> "none", step |-> "none",
          start |-> 0, startPaid |-> 0, inserted |-> 0, paid |-> 0,
          due |-> 0, changeDue |-> 0, changeOwed |-> 0, split |-> 0, held |-> 0,
          heldReason |-> "none",
          splitAsked |-> FALSE, grace |-> FALSE, acked |-> FALSE, document |-> FALSE]

\* busy: a tick runs; io: it awaits the unit; save: the row it writes back.
NoTick == [busy |-> FALSE, io |-> FALSE, on |-> None, row |-> NoRow, save |-> FALSE,
           sent |-> FALSE, wants |-> Closed, pay |-> 0]

NoPayout == [on |-> None, left |-> 0]

NoLease == [held |-> FALSE, on |-> None, ahead |-> {}]

AtLeast0(n) == IF n > 0 THEN n ELSE 0

IsOpen(r) == r.state \in OpenStates
Final(r) == r.state \in FinalStates
Paid(r) == r.state = "DONE" /\ r.outcome = "paid"
OpenTxs == {p \in Txs : IsOpen(tx[p])}

TypeOK ==
    /\ tx \in [Txs -> Row]
    /\ up \in BOOLEAN /\ opened \in BOOLEAN /\ recovered \in BOOLEAN
    /\ leases \in [Clients -> [held : BOOLEAN, on : Txs \cup {None}, ahead : SUBSET Clients]]
    /\ lastAcceptance \in Int
    /\ tick \in [busy : BOOLEAN, io : BOOLEAN, on : Txs \cup {None}, row : Row,
                 save : BOOLEAN, sent : BOOLEAN, wants : Nat, pay : Nat]
    /\ accepting \in BOOLEAN
    /\ payout \in [on : Txs \cup {None}, left : Nat]
    /\ valueIn \in Nat /\ paidOut \in Nat
    /\ gave \in [Txs -> Nat] /\ got \in [Txs -> Nat]

Init ==
    /\ tx = [p \in Txs |-> NoRow]
    /\ up = TRUE /\ opened = FALSE /\ recovered = FALSE
    /\ leases = [c \in Clients |-> NoLease]
    /\ lastAcceptance = Unsure
    /\ tick = NoTick
    /\ accepting = FALSE
    /\ payout = NoPayout
    /\ valueIn = 0 /\ paidOut = 0
    /\ gave = [p \in Txs |-> 0] /\ got = [p \in Txs |-> 0]

-----------------------------------------------------------------------------
(* The clients' calls.  They run while no tick does, or while it awaits. *)

Listening == up /\ (tick.busy => tick.io)

Holds(c) == leases[c].held

\* The queue: the leases whose transaction is not final, in the order they came.
InQueue(c) == Holds(c) /\ (leases[c].on # None => IsOpen(tx[leases[c].on]))
AtHead(c) == InQueue(c) /\ \A d \in leases[c].ahead : ~InQueue(d)

Without(gone) ==
    [c \in Clients |-> IF c \in gone THEN NoLease
                       ELSE [leases[c] EXCEPT !.ahead = @ \ gone]]

\* A client back in its grace: its transaction goes on.
Renew(c) ==
    LET p == leases[c].on IN
    IF p # None /\ IsOpen(tx[p]) /\ tx[p].grace
    THEN /\ tx' = [tx EXCEPT ![p].grace = FALSE]
         /\ lastAcceptance' = Unsure
    ELSE UNCHANGED <<tx, lastAcceptance>>

\* lease: renews the client's own, or joins the queue of a ready station.
Lease(c) ==
    /\ Listening
    /\ \/ /\ Holds(c)
          /\ Renew(c)
          /\ UNCHANGED leases
       \/ /\ ~Holds(c) /\ opened
          /\ leases' = [leases EXCEPT ![c] = [held |-> TRUE, on |-> None,
                                              ahead |-> {d \in Clients : Holds(d)}]]
          /\ UNCHANGED <<tx, lastAcceptance>>
    /\ UNCHANGED <<up, opened, recovered, tick, unit>>

Release(c) ==
    /\ Listening
    /\ Holds(c)
    /\ leases[c].on # None => ~IsOpen(tx[leases[c].on])
    /\ leases' = Without({c})
    /\ UNCHANGED <<tx, up, opened, recovered, lastAcceptance, tick, unit>>

\* The mistake of a start that forgets the client's own open transaction.
MayStartAgain(c) == Holds(c) /\ AtHead(c) /\ opened

\* Only the head of the queue starts, and only once for an id.
MayStart(c) ==
    /\ Holds(c) /\ AtHead(c) /\ opened
    /\ leases[c].on # None => ~IsOpen(tx[leases[c].on])

Start(c, p) ==
    /\ Listening
    /\ tx[p] = NoRow /\ MayStart(c)
    /\ tx' = [tx EXCEPT ![p] = [NoRow EXCEPT !.client = c, !.state = "LEASED", !.due = Due,
                                             !.start = valueIn, !.startPaid = paidOut]]
    /\ leases' = [leases EXCEPT ![c].on = p]
    /\ UNCHANGED <<up, opened, recovered, lastAcceptance, tick, unit>>

Refund(r) == [r EXCEPT !.state = "REFUNDING", !.step = "closing"]

Cancel(p) ==
    /\ Listening
    /\ tx[p].state \in {"LEASED", "ACCEPTING", "PARTIAL"}
    /\ tx' = [tx EXCEPT ![p] = Refund(tx[p])]
    /\ UNCHANGED <<up, memory, unit>>

\* Cash and card: closed to money, then PARTIAL unless it is completed meanwhile.
Split(p) ==
    /\ Listening
    /\ tx[p].state = "ACCEPTING" /\ ~tx[p].splitAsked
    /\ tx[p].inserted > 0 /\ tx[p].inserted < tx[p].due
    /\ tx' = [tx EXCEPT ![p] = [@ EXCEPT !.splitAsked = TRUE, !.state = "SETTLING", !.step = "closing"]]
    /\ lastAcceptance' = Unsure
    /\ UNCHANGED <<up, opened, recovered, leases, tick, unit>>

PaidUp(r) == [r EXCEPT !.state = "DONE", !.outcome = "paid", !.step = "none"]

\* The mistake of a card's approval that comes after the money is held.
FinishHeld(p) ==
    /\ Listening
    /\ tx[p].state \in {"PARTIAL", "HELD"}
    /\ tx' = [tx EXCEPT ![p] = PaidUp([tx[p] EXCEPT !.changeDue = 0])]
    /\ UNCHANGED <<up, memory, unit>>

Finish(p) ==
    /\ Listening
    /\ tx[p].state = "PARTIAL"
    /\ tx' = [tx EXCEPT ![p] = PaidUp([tx[p] EXCEPT !.changeDue = 0])]
    /\ UNCHANGED <<up, memory, unit>>

Hold(r, reason, amount) ==
    [r EXCEPT !.state = "HELD", !.heldReason = reason, !.held = amount, !.step = "none"]

\* d: the document is written; v: a split's document was voided.
Acked(r, d, v) ==
    IF v /\ Paid(r) /\ r.split > 0
    THEN Hold([r EXCEPT !.acked = TRUE], "split_void", r.split)
    ELSE [r EXCEPT !.acked = TRUE, !.document = @ \/ d]

Ack(p, d, v) ==
    /\ Listening
    /\ Final(tx[p])
    /\ tx' = [tx EXCEPT ![p] = Acked(tx[p], d, v)]
    /\ leases' = Without({c \in Clients : leases[c].on = p})
    /\ UNCHANGED <<up, opened, recovered, lastAcceptance, tick, unit>>

-----------------------------------------------------------------------------
(* The tick. *)

Seen(r) == [r EXCEPT !.inserted = AtLeast0(valueIn - r.start)]
PaidSince(r) == AtLeast0(paidOut - r.startPaid)

\* What a drive of a row leaves: the row, what the acceptors are to be told
\* (lastAcceptance: nothing new), what to pay out, and whether the row is on
\* the disk before the first command.
Driven(row, wants, pay, first) == [row |-> row, wants |-> wants, pay |-> pay, first |-> first]
Quietly(row) == Driven(row, lastAcceptance, 0, FALSE)

DriveLeased(r) ==
    { Driven([r EXCEPT !.state = "ACCEPTING", !.start = valueIn, !.startPaid = paidOut],
             r.due, 0, TRUE) }

\* The mistake of comparing the price with the last tick's money.
DriveAcceptingStale(r, late) ==
    LET s == Seen(r) IN
    IF r.inserted >= r.due
    THEN { Driven([s EXCEPT !.state = "SETTLING", !.step = "closing"], Closed, 0, FALSE) }
    ELSE { Driven(s, IF r.grace THEN Closed ELSE r.due - s.inserted, 0, FALSE) }

\* The mistake of a grace without an end.
DriveAcceptingWaits(r, late) ==
    LET s == Seen(r) IN
    IF s.inserted >= r.due
    THEN { Driven([s EXCEPT !.state = "SETTLING", !.step = "closing"], Closed, 0, FALSE) }
    ELSE { Driven(s, IF r.grace THEN Closed ELSE r.due - s.inserted, 0, FALSE) }

\* late: its grace, its deadline or its idle time ran out.
DriveAccepting(r, late) ==
    LET s == Seen(r) IN
    IF s.inserted >= r.due
    THEN { Driven([s EXCEPT !.state = "SETTLING", !.step = "closing"], Closed, 0, FALSE) }
    ELSE IF r.grace
    THEN { Driven(IF late THEN Refund(s) ELSE s, Closed, 0, FALSE) }
    ELSE { IF late THEN Quietly(Refund(s)) ELSE Driven(s, r.due - s.inserted, 0, FALSE) }

\* The mistake of a change asked for before its row is saved.
DriveSettlingUnsaved(r, late) ==
    LET s == Seen(r) IN
    IF lastAcceptance # Closed \/ ~late
    THEN { Driven(r, Closed, 0, FALSE) }
    ELSE IF s.inserted <= r.due
    THEN { Quietly(PaidUp(s)) }
    ELSE { Driven([s EXCEPT !.state = "PAYING_CHANGE", !.step = "paying",
                            !.changeDue = s.inserted - r.due], Closed, s.inserted - r.due, FALSE) }

DriveSettling(r, late) ==
    LET s == Seen(r)
        change == AtLeast0(s.inserted - r.due)
    IN IF lastAcceptance # Closed \/ ~late
       THEN { Driven(r, Closed, 0, FALSE) }
       ELSE IF r.splitAsked /\ s.inserted < r.due
       THEN { Quietly([s EXCEPT !.state = "PARTIAL", !.step = "none",
                                !.split = s.inserted, !.due = s.inserted]) }
       ELSE IF change = 0
       THEN { Quietly(PaidUp(s)) }
       ELSE { Driven([s EXCEPT !.state = "PAYING_CHANGE", !.step = "paying", !.changeDue = change],
                     Closed, change, TRUE) }

DrivePaying(r) ==
    LET s == [Seen(r) EXCEPT !.paid = PaidSince(r)] IN
    { Quietly(IF payout.left > 0 THEN s
              ELSE PaidUp([s EXCEPT !.changeOwed = AtLeast0(r.changeDue - s.paid)])) }

\* late: the grace ran out, or the card took longer than cashSplitWaitSec.
DrivePartial(r, late) ==
    LET s == Seen(r) IN
    IF ~late THEN { Driven(s, Closed, 0, FALSE) }
    ELSE { Driven(Hold(s, "split_timeout", r.split), Closed, 0, FALSE) }
         \cup (IF r.grace THEN { Driven(Refund(s), Closed, 0, FALSE) } ELSE {})

Refunded(s) ==
    IF s.inserted > s.paid
    THEN Hold(s, "short", s.inserted - s.paid)
    ELSE [s EXCEPT !.state = "DONE", !.outcome = "refunded", !.step = "none"]

\* The mistake of a short payout asked for again in full.
DriveRefundingAgain(r, late) ==
    LET s == [Seen(r) EXCEPT !.paid = PaidSince(r)] IN
    IF r.step = "closing" /\ (lastAcceptance # Closed \/ ~late)
    THEN { Driven(r, Closed, 0, FALSE) }
    ELSE IF payout.left > 0 \/ s.inserted <= s.paid
    THEN { Quietly(IF payout.left > 0 THEN s ELSE Refunded(s)) }
    ELSE { Driven([s EXCEPT !.step = "paying"], Closed, s.inserted, TRUE) }

DriveRefunding(r, late) ==
    LET s == [Seen(r) EXCEPT !.paid = PaidSince(r)] IN
    IF r.step = "paying"
    THEN { Quietly(IF payout.left > 0 THEN s ELSE Refunded(s)) }
    ELSE IF lastAcceptance # Closed \/ ~late
    THEN { Driven(r, Closed, 0, FALSE) }
    ELSE IF s.inserted > s.paid
    THEN { Driven([s EXCEPT !.step = "paying"], Closed, s.inserted - s.paid, TRUE) }
    ELSE { Quietly(Refunded(s)) }

Drive(r, late) ==
    CASE r.state = "LEASED" -> DriveLeased(r)
      [] r.state = "ACCEPTING" -> DriveAccepting(r, late)
      [] r.state = "SETTLING" -> DriveSettling(r, late)
      [] r.state = "PAYING_CHANGE" -> DrivePaying(r)
      [] r.state = "PARTIAL" -> DrivePartial(r, late)
      [] r.state = "REFUNDING" -> DriveRefunding(r, late)

\* The clients of gone stopped renewing: an open transaction gets its grace,
\* a lease without one is dropped.
Expired(gone) ==
    [p \in Txs |-> IF tx[p].client \in gone /\ tx[p].state \in Graceful
                   THEN [tx[p] EXCEPT !.grace = TRUE] ELSE tx[p]]
Kept(gone) == Without({c \in gone : leases[c].on # None => ~IsOpen(tx[leases[c].on])})

\* No transaction is open: closed to money.
TickIdle ==
    /\ OpenTxs = {}
    /\ tx' = tx
    /\ tick' = [NoTick EXCEPT !.busy = TRUE, !.io = lastAcceptance # Closed,
                              !.sent = lastAcceptance # Closed]
    /\ accepting' = (accepting /\ lastAcceptance = Closed)

\* d: what the drive of p's row, r, leaves.
TickDrive(gone, p, r, d) ==
    LET sent == d.wants # lastAcceptance IN
    /\ tx' = [Expired(gone) EXCEPT ![p] = IF d.first THEN d.row ELSE r]
    /\ tick' = [busy |-> TRUE, io |-> sent \/ d.pay > 0, on |-> p, row |-> d.row,
                save |-> d.row # r, sent |-> sent,
                wants |-> IF sent THEN d.wants ELSE Closed, pay |-> d.pay]
    /\ accepting' = IF sent THEN d.wants # Closed ELSE accepting

TickBegin(gone, late) ==
    /\ up /\ opened /\ recovered /\ ~tick.busy
    /\ leases' = Kept(gone)
    /\ \/ TickIdle
       \/ \E p \in OpenTxs :
            LET r == Expired(gone)[p] IN
            \E d \in Drive(r, late /\ (r.grace => tx[p].grace)) : TickDrive(gone, p, r, d)
    /\ UNCHANGED <<up, opened, recovered, lastAcceptance, payout, valueIn, paidOut, gave, got>>

\* The row written back, and holdUnacked: of the paid rows nobody acknowledged,
\* those of long are too old.  A payout the unit has not begun failed.
TickEnd ==
    /\ up /\ tick.busy
    /\ LET saved == IF tick.save THEN [tx EXCEPT ![tick.on] = tick.row] ELSE tx IN
       \E long \in SUBSET {p \in Txs : Paid(saved[p]) /\ ~saved[p].acked} :
         tx' = [p \in Txs |->
                  IF p \in long
                  THEN Hold(saved[p], "unacked", AtLeast0(saved[p].due - saved[p].changeOwed))
                  ELSE saved[p]]
    /\ lastAcceptance' = IF tick.sent THEN tick.wants ELSE lastAcceptance
    /\ tick' = NoTick
    /\ UNCHANGED <<up, opened, recovered, leases, unit>>

-----------------------------------------------------------------------------
(* The unit lost and opened, the host stopped and started. *)

LoseDevice ==
    /\ up /\ opened /\ ~tick.busy
    /\ opened' = FALSE /\ recovered' = FALSE
    /\ UNCHANGED <<tx, up, leases, lastAcceptance, tick, unit>>

\* tryOpen: everything closed to money until a transaction opens it.
OpenDevice ==
    /\ up /\ ~opened
    /\ payout.left = 0
    /\ opened' = TRUE
    /\ lastAcceptance' = Unsure
    /\ accepting' = FALSE
    /\ UNCHANGED <<tx, up, recovered, leases, tick, payout, valueIn, paidOut, gave, got>>

\* The mistake of holding all that was put in, the change paid already included.
RecoveredGross(r, back) ==
    LET s == Seen(r) IN
    IF back THEN Hold([r EXCEPT !.inserted = 0], "consistency", AtLeast0(r.inserted - r.paid))
    ELSE IF s.inserted > 0 THEN Hold(s, "power_loss", s.inserted)
    ELSE [s EXCEPT !.state = "DONE", !.outcome = "refunded", !.step = "none"]

\* Held with what the counters say; back: the counters went back (another
\* unit, or a reset) and the row's last word counts.
RecoveredRow(r, back) ==
    LET s == Seen(r)
        net == s.inserted - PaidSince(r)
    IN IF back THEN Hold([r EXCEPT !.inserted = 0], "consistency", AtLeast0(r.inserted - r.paid))
       ELSE IF net > 0 THEN Hold(s, "power_loss", net)
       ELSE [s EXCEPT !.state = "DONE", !.outcome = "refunded", !.step = "none", !.paid = PaidSince(r)]

Recover ==
    /\ up /\ opened /\ ~recovered
    /\ recovered' = TRUE
    /\ \E back \in BOOLEAN :
         tx' = [p \in Txs |-> IF IsOpen(tx[p]) THEN RecoveredRow(tx[p], back) ELSE tx[p]]
    /\ UNCHANGED <<up, opened, leases, lastAcceptance, tick, unit>>

Crash ==
    /\ up
    /\ up' = FALSE /\ opened' = FALSE /\ recovered' = FALSE
    /\ leases' = [c \in Clients |-> NoLease]
    /\ lastAcceptance' = Unsure
    /\ tick' = NoTick
    /\ UNCHANGED <<tx, unit>>

Boot ==
    /\ ~up
    /\ up' = TRUE
    /\ UNCHANGED <<tx, memory, unit>>

-----------------------------------------------------------------------------
(* The unit and the customer. *)

\* Money goes in while the acceptors are open; a coin in the air lands while a
\* row is closing.
Insert(p, v) ==
    /\ IsOpen(tx[p])
    /\ accepting \/ (recovered /\ tx[p].step = "closing")
    /\ tick.busy => accepting \/ tick.row.step = "closing"
    /\ valueIn + v <= MaxIn
    /\ valueIn' = valueIn + v
    /\ gave' = [gave EXCEPT ![p] = @ + v]
    /\ UNCHANGED <<tx, up, memory, accepting, payout, paidOut, got>>

\* The payout the tick asks for begins.
PayoutBegins ==
    /\ tick.busy /\ tick.pay > 0
    /\ payout' = [on |-> tick.on, left |-> tick.pay]
    /\ tick' = [tick EXCEPT !.pay = 0]
    /\ UNCHANGED <<tx, up, opened, recovered, leases, lastAcceptance,
                   accepting, valueIn, paidOut, gave, got>>

PayOut ==
    /\ payout.left > 0
    /\ payout' = [payout EXCEPT !.left = @ - 1]
    /\ paidOut' = paidOut + 1
    /\ got' = [got EXCEPT ![payout.on] = @ + 1]
    /\ UNCHANGED <<tx, up, memory, accepting, valueIn, gave>>

\* A jam, an empty hopper, a bill not taken, no dispenser at all.
PayoutEnds ==
    /\ payout.left > 0
    /\ payout' = NoPayout
    /\ UNCHANGED <<tx, up, memory, accepting, valueIn, paidOut, gave, got>>

\* CheckOperation lapsed: the unit stops taking money when the host stops.
Watchdog ==
    /\ ~up /\ accepting
    /\ accepting' = FALSE
    /\ UNCHANGED <<tx, up, memory, payout, valueIn, paidOut, gave, got>>

Calls(c) ==
    \/ Lease(c)
    \/ Release(c)
    \/ \E p \in Txs :
         \/ Start(c, p)
         \/ /\ tx[p].client = c
            /\ \/ Cancel(p)
               \/ Split(p)
               \/ Finish(p)
               \/ \E d \in BOOLEAN, v \in BOOLEAN : Ack(p, d, v)

HostStep ==
    \/ \E gone \in SUBSET {c \in Clients : Holds(c)}, late \in BOOLEAN : TickBegin(gone, late)
    \/ TickEnd
    \/ LoseDevice
    \/ OpenDevice
    \/ Recover
    \/ Crash
    \/ Boot

UnitStep ==
    \/ \E p \in Txs, v \in Coins : Insert(p, v)
    \/ PayoutBegins
    \/ PayOut
    \/ PayoutEnds
    \/ Watchdog

Next == HostStep \/ UnitStep \/ \E c \in Clients : Calls(c)

Spec == Init /\ [][Next]_stationVars

\* The loops of the host: it is started again, a device command ends, the unit
\* pays or gives up.  Crashes leave it time, now and then, to open the unit and
\* to read it.  A lease lasts many ticks, so a tick that sees none lapse, and the
\* time of a transaction run out, comes again and again.
HostFairness ==
    /\ WF_stationVars(Boot) /\ SF_stationVars(OpenDevice) /\ SF_stationVars(Recover)
    /\ WF_stationVars(TickEnd)
    /\ WF_stationVars(PayOut \/ PayoutEnds)
    /\ SF_stationVars(TickBegin({}, TRUE))

FairSpec == Spec /\ HostFairness

-----------------------------------------------------------------------------
(* What must hold. *)

\* Once recovered, at most one customer has money in the machine, and the
\* acceptors are open only for an open transaction.
OneCustomer ==
    /\ recovered => Cardinality(OpenTxs) <= 1
    /\ accepting => OpenTxs # {}

\* The change the station owes on top of a final row, and what it may keep.
Claim(r) ==
    CASE Paid(r) -> r.due + r.changeOwed
      [] r.state = "DONE" /\ r.outcome = "refunded" -> 0
      [] r.state = "HELD" -> r.held

\* To the smallest coin: what the customer of a final transaction put in and
\* did not get back is its price with the change owed, or the credit held.
\* Left out: counters that went back, and a row held as unacknowledged with
\* change owed (HeldIsOwed).
MoneyAccounted ==
    \A p \in Txs :
        LET r == tx[p] IN
        /\ Final(r)
        /\ r.heldReason # "consistency"
        /\ r.heldReason = "unacked" => r.changeOwed = 0
        => gave[p] - got[p] = Claim(r)

\* Whatever happens the unit gives nobody more than they put in.
NeverPaysMore == \A p \in Txs : got[p] <= gave[p]

\* A held row says what its customer is owed, at the least.
HeldIsOwed ==
    \A p \in Txs :
        tx[p].state = "HELD" /\ tx[p].heldReason # "consistency" => tx[p].held >= gave[p] - got[p]

\* Nothing is paid out but for a row that is in the journal as paying.
PaysFromJournal ==
    payout.left > 0 /\ recovered =>
        tx[payout.on].step = "paying" /\ tx[payout.on].state \in {"PAYING_CHANGE", "REFUNDING"}

\* What a client was told as the end stays the end: money given back or held
\* is never paid after all, and what was paid may only become a held credit.
EndsForGood ==
    [][\A p \in Txs :
         /\ tx[p].state = "HELD" => tx'[p].state = "HELD" /\ tx'[p].held = tx[p].held
         /\ tx[p].state = "DONE" /\ tx[p].outcome = "refunded"
              => tx'[p].state = "DONE" /\ tx'[p].outcome = "refunded"
         /\ Paid(tx[p]) => Paid(tx'[p]) \/ tx'[p].state = "HELD"]_stationVars

\* Every transaction comes to its end, whatever its client, the unit and the host do.
TransactionEnds == \A p \in Txs : IsOpen(tx[p]) ~> Final(tx[p])

\* A refund under way is never a sale again.
RefundGoesOn ==
    [][\A p \in Txs : tx[p].state = "REFUNDING" => tx'[p].state \in {"REFUNDING", "DONE", "HELD"}]_stationVars

=============================================================================
