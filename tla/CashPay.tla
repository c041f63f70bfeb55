------------------------------- MODULE CashPay -------------------------------
(***************************************************************************)
(* A kiosk's payment at the cash station: CashPay (main/kiosk/cashPay.ts)  *)
(* and what the kiosk does with its word (runCash, chargeRest,             *)
(* applyCashOutcome, applySplitPaid, settleCash, settleOrphans in          *)
(* main/service.ts), over the station of CashStation.                      *)
(*                                                                         *)
(* A payment stands for its transaction id, its document and the row of    *)
(* cash.pending.  Every call may not arrive, or arrive with its answer     *)
(* lost; a start given up may still arrive later.  The card that pays the  *)
(* rest of a split is CardPay's, here reduced to its attempt and its word. *)
(***************************************************************************)
EXTENDS CashStation

CONSTANTS
    KioskOf,  \* the kiosk that makes a payment
    Splits    \* cashSplitWithCard: the rest may be paid by card

ASSUME KioskAssumption == KioskOf \in [Txs -> Clients]
ASSUME SplitsAssumption == Splits \in BOOLEAN

VARIABLES
    \* On the kiosk's disk.
    doc,       \* the document of a payment
    pending,   \* its row of cash.pending
    decision,  \* pending.split: what the card made of the cash part
    attempt,   \* its row of card_attempts
    \* In the kiosk's memory.
    running,   \* the kiosk's app runs
    pc,        \* where pay() / applyCashOutcome stands
    seen,      \* the transaction as the station last told it
    card,      \* splitCards: the card's word
    looked,    \* the document as settleCash read it before it asked the station
    ask,       \* the call settleCash or applyCashOutcome awaits
    \* The world.
    late,      \* start requests that may still arrive
    term       \* what the card terminal really did

kioskDisk == <<doc, pending, decision, attempt>>
kioskVars == <<kioskDisk, running, pc, seen, card, looked, ask, late, term>>
vars == <<stationVars, kioskVars>>

Live == {"queue", "start", "follow", "card", "charging"}

NoView == [state |-> "none", outcome |-> "none", split |-> FALSE]
View(r) == [state |-> r.state, outcome |-> r.outcome, split |-> r.split > 0]

KioskTypeOK ==
    /\ doc \in [Txs -> {"none", "pending", "completed", "cancelled"}]
    /\ pending \in [Txs -> BOOLEAN]
    /\ decision \in [Txs -> {"none", "open", "finish", "cancel"}]
    /\ attempt \in [Txs -> BOOLEAN]
    /\ running \in [Clients -> BOOLEAN]
    /\ pc \in [Txs -> Live \cup {"idle", "apply", "over"}]
    /\ seen \in [Txs -> [state : OpenStates \cup FinalStates \cup {"none"},
                         outcome : {"none", "paid", "refunded"}, split : BOOLEAN]]
    /\ card \in [Txs -> {"none", "approved", "declined", "unknown"}]
    /\ looked \in [Txs -> {"no", "pending", "completed", "cancelled"}]
    /\ ask \in [Txs -> {"none", "finish", "cancel", "ack", "void"}]
    /\ late \in SUBSET Txs
    /\ term \in [Txs -> {"none", "open", "approved", "declined"}]

PayInit ==
    /\ Init
    /\ doc = [p \in Txs |-> "none"]
    /\ pending = [p \in Txs |-> FALSE]
    /\ decision = [p \in Txs |-> "none"]
    /\ attempt = [p \in Txs |-> FALSE]
    /\ running = [c \in Clients |-> TRUE]
    /\ pc = [p \in Txs |-> "idle"]
    /\ seen = [p \in Txs |-> NoView]
    /\ card = [p \in Txs |-> "none"]
    /\ looked = [p \in Txs |-> "no"]
    /\ ask = [p \in Txs |-> "none"]
    /\ late = {}
    /\ term = [p \in Txs |-> "none"]

Runs(p) == running[KioskOf[p]]

\* The ledger: only a pending document completes or is cancelled.
Settle(p, to) == doc' = [doc EXCEPT ![p] = IF @ = "pending" THEN to ELSE @]

\* The payment ended with nothing taken: forgotten, its document cancelled.
NotTaken(p) ==
    /\ Settle(p, "cancelled")
    /\ pending' = [pending EXCEPT ![p] = FALSE]
    /\ pc' = [pc EXCEPT ![p] = "over"]
    /\ UNCHANGED <<decision, attempt, running, seen, card, looked, ask, late, term>>

-----------------------------------------------------------------------------
(* The payment, while the customer stands there. *)

\* The mistake of remembering the payment without its document.
BeginRowFirst(p) ==
    /\ Runs(p) /\ doc[p] = "none" /\ pc[p] = "idle"
    /\ \A q \in Txs : KioskOf[q] = KioskOf[p] => pc[q] \notin Live
    /\ pending' = [pending EXCEPT ![p] = TRUE]
    /\ pc' = [pc EXCEPT ![p] = "queue"]
    /\ UNCHANGED <<stationVars, doc, decision, attempt, running, seen, card, looked, ask, late, term>>

\* One payment at a time on a kiosk; the id on the disk before anything is asked.
Begin(p) ==
    /\ Runs(p) /\ doc[p] = "none"
    /\ \A q \in Txs : KioskOf[q] = KioskOf[p] => pc[q] \notin Live
    /\ doc' = [doc EXCEPT ![p] = "pending"]
    /\ pending' = [pending EXCEPT ![p] = TRUE]
    /\ pc' = [pc EXCEPT ![p] = "queue"]
    /\ UNCHANGED <<stationVars, decision, attempt, running, seen, card, looked, ask, late, term>>

\* What lease answers: the head of the queue, and a lease out of it (its
\* transaction is final), is granted.
Granted(c) ==
    IF Holds(c)
    THEN AtHead(c) \/ (leases[c].on # None /\ ~IsOpen(tx[leases[c].on]))
    ELSE \A d \in Clients : ~InQueue(d)

AskLease(p) ==
    /\ Runs(p) /\ pc[p] = "queue"
    /\ Lease(KioskOf[p])
    /\ \E heard \in BOOLEAN :
         pc' = [pc EXCEPT ![p] = IF heard /\ Granted(KioskOf[p]) THEN "start" ELSE "queue"]
    /\ UNCHANGED <<kioskDisk, running, seen, card, looked, ask, late, term>>

\* Refused, silent for 15 s, or the customer's cancel.
LeaveQueue(p) ==
    /\ Runs(p) /\ pc[p] = "queue"
    /\ NotTaken(p)
    /\ Release(KioskOf[p]) \/ UNCHANGED stationVars

\* Sent again until it answers: the station knows the id, or starts it.
AskStart(p) ==
    /\ Runs(p) /\ pc[p] = "start"
    /\ \/ Start(KioskOf[p], p)
       \/ tx[p] # NoRow /\ Listening /\ UNCHANGED stationVars
    /\ \/ /\ pc' = [pc EXCEPT ![p] = "follow"]
          /\ seen' = [seen EXCEPT ![p] = [NoView EXCEPT !.state = "LEASED"]]
       \/ UNCHANGED <<pc, seen>>
    /\ UNCHANGED <<kioskDisk, running, card, looked, ask, late, term>>

StartUnheard(p) ==
    /\ Runs(p) /\ pc[p] = "start"
    /\ late' = late \cup {p}
    /\ UNCHANGED <<stationVars, kioskDisk, running, pc, seen, card, looked, ask, term>>

StartRefused(p) ==
    /\ Runs(p) /\ pc[p] = "start"
    /\ Listening /\ tx[p] = NoRow /\ ~MayStart(KioskOf[p])
    /\ NotTaken(p)
    /\ Release(KioskOf[p]) \/ UNCHANGED stationVars

\* A start given up, or of an app that stopped, arrives after all.
LateStart(p) ==
    /\ p \in late
    /\ late' = late \ {p}
    /\ Start(KioskOf[p], p)
    /\ UNCHANGED <<kioskDisk, running, pc, seen, card, looked, ask, term>>

RenewLease(p) ==
    /\ Runs(p) /\ pc[p] \in {"follow", "card", "charging"}
    /\ Holds(KioskOf[p]) /\ Lease(KioskOf[p])
    /\ UNCHANGED kioskVars

CustomerCancels(p) ==
    /\ Runs(p) /\ pc[p] = "follow"
    /\ seen[p].state \in {"LEASED", "ACCEPTING"}
    /\ Cancel(p)
    /\ UNCHANGED kioskVars

CustomerSplits(p) ==
    /\ Splits
    /\ Runs(p) /\ pc[p] = "follow"
    /\ seen[p].state = "ACCEPTING"
    /\ Split(p)
    /\ UNCHANGED kioskVars

\* The station's word on the transaction: final, or PARTIAL (the card next).
Poll(p) ==
    /\ Runs(p) /\ pc[p] = "follow"
    /\ Listening
    /\ seen' = [seen EXCEPT ![p] = View(tx[p])]
    /\ LET toCard == tx[p].state = "PARTIAL" /\ decision[p] = "none" IN
       /\ decision' = IF toCard THEN [decision EXCEPT ![p] = "open"] ELSE decision
       /\ pc' = [pc EXCEPT ![p] = IF Final(tx[p]) THEN "apply"
                                  ELSE IF toCard THEN "card" ELSE @]
    /\ UNCHANGED <<stationVars, doc, pending, attempt, running, card, looked, ask, late, term>>

\* The mistake of forgetting a payment whose station went silent.
LostForgets(p) ==
    /\ Runs(p) /\ pc[p] \in {"start", "follow"}
    /\ pc' = [pc EXCEPT ![p] = "over"]
    /\ pending' = [pending EXCEPT ![p] = FALSE]
    /\ UNCHANGED <<stationVars, doc, decision, attempt, running, seen, card, looked, ask, late, term>>

\* Silent for longer than cashRefundGraceSec: the document waits.
Lost(p) ==
    /\ Runs(p) /\ pc[p] \in {"start", "follow"}
    /\ pc' = [pc EXCEPT ![p] = "over"]
    /\ UNCHANGED <<stationVars, kioskDisk, running, seen, card, looked, ask, late, term>>

-----------------------------------------------------------------------------
(* The card pays the rest (chargeRest). *)

Decide(p, w, d) ==
    /\ card' = [card EXCEPT ![p] = w]
    /\ decision' = [decision EXCEPT ![p] = d]
    /\ pc' = [pc EXCEPT ![p] = "follow"]

ChargeRest(p) ==
    /\ Runs(p) /\ pc[p] = "card"
    /\ \/ /\ attempt' = [attempt EXCEPT ![p] = TRUE]
          /\ term' = [term EXCEPT ![p] = "open"]
          /\ pc' = [pc EXCEPT ![p] = "charging"]
          /\ UNCHANGED <<card, decision>>
       \/ /\ Decide(p, "declined", "cancel")
          /\ UNCHANGED <<attempt, term>>
    /\ UNCHANGED <<stationVars, doc, pending, running, seen, looked, ask, late>>

TerminalDecides(p) ==
    /\ term[p] = "open"
    /\ \E w \in {"approved", "declined"} : term' = [term EXCEPT ![p] = w]
    /\ UNCHANGED <<stationVars, kioskDisk, running, pc, seen, card, looked, ask, late>>

\* Approved or unknown: the cash part is kept; declined: it goes back.
CardAnswers(p) ==
    /\ Runs(p) /\ pc[p] = "charging"
    /\ \/ term[p] = "approved" /\ Decide(p, "approved", "finish") /\ UNCHANGED attempt
       \/ Decide(p, "unknown", "finish") /\ UNCHANGED attempt
       \/ /\ term[p] = "declined" /\ Decide(p, "declined", "cancel")
          /\ attempt' = [attempt EXCEPT ![p] = FALSE]
    /\ UNCHANGED <<stationVars, doc, pending, running, seen, looked, ask, late, term>>

TellDecision(p) ==
    /\ Runs(p) /\ pc[p] = "follow" /\ seen[p].state = "PARTIAL"
    /\ \/ decision[p] = "finish" /\ Finish(p)
       \/ decision[p] = "cancel" /\ Cancel(p)
    /\ UNCHANGED kioskVars

-----------------------------------------------------------------------------
(* What the station's word means for the document. *)

CashPaid(v) == v.state = "DONE" /\ v.outcome = "paid"

\* The mistake of taking a card that did not answer for one that paid.
CardPaidMaybe(w) == w \in {"approved", "unknown"}

CardPaid(w) == w = "approved"

\* The mistake of acknowledging a cash part whose document was cancelled.
SplitAcked(d) == "ack"

\* What the station is told of the cash part of a settled document.
SplitWord(d) == IF d = "cancelled" THEN "void" ELSE "ack"

\* applyCashOutcome and applySplitPaid: v the station's word, w the card's.
\* The document, the attempt, and what the station is told.
Apply(p, v, w) ==
    \/ /\ CashPaid(v) /\ ~v.split
       /\ Settle(p, "completed")
       /\ ask' = [ask EXCEPT ![p] = "ack"]
       /\ UNCHANGED attempt
    \/ /\ CashPaid(v) /\ v.split /\ CardPaid(w)
       /\ Settle(p, "completed")
       /\ attempt' = [attempt EXCEPT ![p] = FALSE]
       /\ ask' = [ask EXCEPT ![p] = "ack"]
    \/ /\ CashPaid(v) /\ v.split /\ ~CardPaid(w)
       /\ ask' = [ask EXCEPT ![p] = IF doc[p] = "pending" THEN @ ELSE SplitWord(doc[p])]
       /\ UNCHANGED <<doc, attempt>>
    \/ /\ ~CashPaid(v)
       /\ Settle(p, "cancelled")
       /\ ask' = [ask EXCEPT ![p] = "ack"]
       /\ UNCHANGED attempt

ApplyOutcome(p) ==
    /\ Runs(p) /\ pc[p] = "apply"
    /\ Apply(p, seen[p], card[p])
    /\ card' = [card EXCEPT ![p] = "none"]
    /\ pc' = [pc EXCEPT ![p] = "over"]
    /\ UNCHANGED <<stationVars, pending, decision, running, seen, looked, late, term>>

\* A card that decided, or may have, keeps the cash part.
CardMayHave(p) ==
    decision[p] = "finish" \/ (decision[p] \in {"none", "open"} /\ attempt[p])

\* settleCash on one pending payment: the station's word now.
SettleBegin(p) ==
    /\ Runs(p) /\ pending[p] /\ pc[p] \notin Live /\ ask[p] = "none"
    /\ looked' = [looked EXCEPT ![p] = doc[p]]
    /\ UNCHANGED <<stationVars, kioskDisk, running, pc, seen, card, ask, late, term>>

SettleCash(p) ==
    /\ Runs(p) /\ looked[p] # "no" /\ ask[p] = "none"
    /\ Listening
    /\ looked' = [looked EXCEPT ![p] = "no"]
    /\ LET r == tx[p]
           splitPaid == r.split > 0 /\ Paid(r)
       IN
       \/ /\ r = NoRow
          /\ Settle(p, "cancelled")
          /\ pending' = [pending EXCEPT ![p] = FALSE]
          /\ UNCHANGED <<ask, attempt, card>>
       \/ /\ IsOpen(r)
          /\ ask' = [ask EXCEPT ![p] = IF r.state = "PARTIAL" /\ CardMayHave(p)
                                       THEN "finish" ELSE "cancel"]
          /\ UNCHANGED <<doc, pending, attempt, card>>
       \/ /\ Final(r) /\ looked[p] # "pending"
          /\ ask' = [ask EXCEPT ![p] = IF splitPaid THEN SplitWord(looked[p]) ELSE "ack"]
          /\ UNCHANGED <<doc, pending, attempt, card>>
       \/ /\ looked[p] = "pending" /\ splitPaid
          /\ IF attempt[p] THEN UNCHANGED <<doc, ask>>
             ELSE Settle(p, "cancelled") /\ ask' = [ask EXCEPT ![p] = "void"]
          /\ UNCHANGED <<pending, attempt, card>>
       \/ /\ Final(r) /\ looked[p] = "pending" /\ ~splitPaid
          /\ Apply(p, View(r), card[p])
          /\ card' = [card EXCEPT ![p] = "none"]
          /\ UNCHANGED pending
    /\ UNCHANGED <<stationVars, decision, running, pc, seen, late, term>>

\* The mistake of forgetting the payment before the station took the word.
AskedForgets(p) ==
    /\ Runs(p) /\ ask[p] # "none"
    /\ ask' = [ask EXCEPT ![p] = "none"]
    /\ pending' = [pending EXCEPT ![p] = @ /\ ask[p] \in {"finish", "cancel"}]
    /\ \/ UNCHANGED stationVars
       \/ ask[p] = "finish" /\ Finish(p)
       \/ ask[p] = "cancel" /\ Cancel(p)
       \/ ask[p] \in {"ack", "void"} /\ Ack(p, doc[p] = "completed", ask[p] = "void")
    /\ UNCHANGED <<doc, decision, attempt, running, pc, seen, card, looked, late, term>>

\* The call it awaits: served and heard, served and its answer lost, or not
\* served.  An acknowledgement that was taken forgets the payment.
Asked(p) ==
    /\ Runs(p) /\ ask[p] # "none"
    /\ ask' = [ask EXCEPT ![p] = "none"]
    /\ \/ /\ UNCHANGED <<stationVars, pending>>
       \/ /\ ask[p] = "finish" /\ Finish(p)
          /\ UNCHANGED pending
       \/ /\ ask[p] = "cancel" /\ Cancel(p)
          /\ UNCHANGED pending
       \/ /\ ask[p] \in {"ack", "void"}
          /\ Ack(p, doc[p] = "completed", ask[p] = "void")
          /\ \E heard \in BOOLEAN : pending' = [pending EXCEPT ![p] = @ /\ ~heard]
    /\ UNCHANGED <<doc, decision, attempt, running, pc, seen, card, looked, late, term>>

\* The attempt of a card whose word was not known.
SettleOrphan(p) ==
    /\ Runs(p) /\ attempt[p] /\ pc[p] # "charging"
    /\ \/ /\ doc[p] # "pending"
          /\ UNCHANGED doc
       \/ /\ doc[p] = "pending" /\ term[p] = "approved"
          /\ Settle(p, "completed")
       \/ /\ doc[p] = "pending" /\ term[p] = "declined"
          /\ Settle(p, "cancelled")
    /\ attempt' = [attempt EXCEPT ![p] = FALSE]
    /\ UNCHANGED <<stationVars, pending, decision, running, pc, seen, card, looked, ask, late, term>>

-----------------------------------------------------------------------------
(* The kiosk's app stops and starts. *)

KioskStops(c) ==
    /\ running[c]
    /\ running' = [running EXCEPT ![c] = FALSE]
    /\ pc' = [p \in Txs |-> IF KioskOf[p] = c /\ pc[p] # "idle" THEN "over" ELSE pc[p]]
    /\ seen' = [p \in Txs |-> IF KioskOf[p] = c THEN NoView ELSE seen[p]]
    /\ card' = [p \in Txs |-> IF KioskOf[p] = c THEN "none" ELSE card[p]]
    /\ looked' = [p \in Txs |-> IF KioskOf[p] = c THEN "no" ELSE looked[p]]
    /\ ask' = [p \in Txs |-> IF KioskOf[p] = c THEN "none" ELSE ask[p]]
    /\ late' = late \cup {p \in Txs : KioskOf[p] = c /\ pc[p] = "start"}
    /\ UNCHANGED <<stationVars, kioskDisk, term>>

KioskStarts(c) ==
    /\ ~running[c]
    /\ running' = [running EXCEPT ![c] = TRUE]
    /\ UNCHANGED <<stationVars, kioskDisk, pc, seen, card, looked, ask, late, term>>

PayStep(p) ==
    \/ Begin(p) \/ AskLease(p) \/ LeaveQueue(p)
    \/ AskStart(p) \/ StartUnheard(p) \/ StartRefused(p) \/ LateStart(p)
    \/ RenewLease(p) \/ CustomerCancels(p) \/ CustomerSplits(p) \/ Poll(p) \/ Lost(p)
    \/ ChargeRest(p) \/ TerminalDecides(p) \/ CardAnswers(p) \/ TellDecision(p)
    \/ ApplyOutcome(p) \/ SettleBegin(p) \/ SettleCash(p) \/ Asked(p) \/ SettleOrphan(p)

PayNext ==
    \/ (HostStep \/ UnitStep) /\ UNCHANGED kioskVars
    \/ \E p \in Txs : PayStep(p)
    \/ \E c \in Clients : KioskStops(c) \/ KioskStarts(c)

PaySpec == PayInit /\ [][PayNext]_vars

\* The kiosk's own loops: every wait has a timeout or somebody's patience, a
\* station that listens is heard again and again, and the app is in the end left
\* running long enough to ask.
PayFairness ==
    /\ \A c \in Clients : <>[]running[c]
    /\ \A p \in Txs :
         /\ WF_vars(\/ LeaveQueue(p) \/ (AskLease(p) /\ pc'[p] = "start")
                    \/ StartRefused(p) \/ (AskStart(p) /\ pc'[p] = "follow")
                    \/ (Lost(p) /\ pc[p] = "start")
                    \/ ApplyOutcome(p))
         /\ SF_vars(Poll(p) /\ pc'[p] # "follow")
         /\ WF_vars(SettleBegin(p) \/ Asked(p))
         /\ SF_vars(SettleCash(p))
         /\ SF_vars(Asked(p) /\ pending'[p] # pending[p])

FairPaySpec == PaySpec /\ HostFairness /\ PayFairness

-----------------------------------------------------------------------------
(* What must hold. *)

\* A document is completed only on money that was really taken: the station's,
\* for a sale in cash, and the card's, for the rest of a split.
CompletedWasPaid ==
    \A p \in Txs : doc[p] = "completed" =>
        IF tx[p].split = 0 THEN tx[p].outcome = "paid" ELSE term[p] = "approved"

\* A cancelled document's money is never quietly kept: the station still
\* waits for a word (and holds it for the customer), or gave it back, or holds it.
CancelledIsOwed == \A p \in Txs : doc[p] = "cancelled" /\ Paid(tx[p]) => ~tx[p].acked

\* A credit held for a cash sale that has its document: the station is told of the
\* document, or the kiosk still has to tell it.
HeldKnowsDocument ==
    \A p \in Txs : doc[p] = "completed" /\ tx[p].state = "HELD" /\ tx[p].split = 0
                     => tx[p].document \/ pending[p]

\* No payment waits for ever, and none is forgotten that waits: its document gets
\* its end and the station its word, after which nothing is remembered of it.
PaymentEnds == \A p \in Txs : doc[p] = "pending" ~> doc[p] # "pending" /\ ~pending[p]

\* A cash part is made a credit only when its document was cancelled.
VoidedIsCancelled == \A p \in Txs : tx[p].heldReason = "split_void" => doc[p] = "cancelled"

\* A split sale's document is cancelled only when the card was not charged.
CancelledWasNotCharged == \A p \in Txs : doc[p] = "cancelled" => term[p] # "approved"

=============================================================================
