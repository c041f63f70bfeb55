------------------------------ MODULE CardPay ------------------------------
(***************************************************************************)
(* A card payment on the kiosk: PayService (main/payment/payService.ts),   *)
(* the flow that runs it (startPayment, runCharge, afterApproval,          *)
(* settleOrphans in main/service.ts), the document it pays in the ledger   *)
(* (main/fiscal/ledger.ts) and its order.                                  *)
(*                                                                         *)
(* A payment stands for its order, its document and its charge reference:  *)
(* startPayment makes a fresh one of each.  The process is single          *)
(* threaded: a run of code between two awaits is atomic for every other    *)
(* handler (Quiet), but each database commit in it is a step, so that a    *)
(* crash can fall between two commits.  The terminal is the environment:   *)
(* term[p] is what really happened to the charge.                          *)
(***************************************************************************)
EXTENDS Naturals

CONSTANTS
    Payments,   \* the payments customers may start
    Sweeps,     \* runs of resolveOrphans that may overlap
    Terminals,  \* card terminals the cloud settings may name
    Reconfig,   \* what the cloud settings may change to while the kiosk runs
    Lock,       \* the parameter cardLockOnUnresolved
    None,       \* no payment, no terminal
    NoCard      \* the setting paymentIntegration = "none"

ASSUME NoneAssumption == None \notin Payments /\ None \notin Terminals
ASSUME ReconfigAssumption == Reconfig \subseteq Terminals \cup {None, NoCard}
ASSUME LockAssumption == Lock \in BOOLEAN

VARIABLES
    \* On disk.
    doc,        \* the document of a payment
    order,      \* its order
    attempt,    \* its row of card_attempts
    outbox,     \* documents with a 'transaction' row
    slips,      \* pickup slips put in the print queue for it
    bons,       \* kitchen bons queued for it
    \* In memory.
    up,         \* the app runs
    provider,   \* PayService.provider
    ready,      \* PayService.monitor.config = 'ready'
    inFlight,   \* PayService.inFlight.reference
    flags,      \* PayService.inFlight.answered and .abort
    pc,         \* where startPayment / runCharge of a payment stands
    outcome,    \* what charge() returned to runCharge
    sweepPc,    \* the runs of resolveOrphans: where each stands,
    todo,       \*   what is left of its snapshot of the attempts,
    cur,        \*   the attempt it asks about,
    via,        \*   and the terminal it asks
    marking,    \* the attempt markNotApproved is voiding
    live,       \* afterApproval calls awaiting the pickup number, the
    recovered,  \*   customer still there, or gone
    pickup,     \* the order's pickup number is drawn (on disk)
    screen,     \* payProgress
    \* The world.
    term,       \* what the terminal did with the charge
    on,         \* the terminal the charge was sent to
    marked      \* payments a manager marked "not approved" while pending

disk == <<doc, order, attempt, outbox, slips, bons, pickup>>
flow == <<pc, outcome, inFlight, flags>>
world == <<term, on, marked>>
sweep == <<sweepPc, todo, cur, via>>
waiting == <<live, recovered>>
vars == <<disk, flow, world, up, provider, ready, sweep, marking, waiting, screen>>

BusyPc == {"ordered", "opened", "saved", "completed", "forgot", "voided"}
BusySweep == {"next", "completed", "paid", "voided"}

\* No handler is in the middle of a synchronous run.
Quiet ==
    /\ up
    /\ marking = None
    /\ \A p \in Payments : pc[p] \notin BusyPc
    /\ \A r \in Sweeps : sweepPc[r] \notin BusySweep

NoFlags == [answered |-> FALSE, abort |-> FALSE]
NoScreen == [pay |-> None, phase |-> "none"]

Unresolved == {p \in Payments : attempt[p] # "none"}

LiveUnknown(p) == screen = [pay |-> p, phase |-> "unknown"]

TypeOK ==
    /\ doc \in [Payments -> {"none", "pending", "completed", "cancelled"}]
    /\ order \in [Payments -> {"none", "open", "paid"}]
    /\ attempt \in [Payments -> {"none", "sent", "unknown"}]
    /\ outbox \in SUBSET Payments
    /\ slips \in [Payments -> Nat]
    /\ bons \in [Payments -> Nat]
    /\ pickup \in [Payments -> BOOLEAN]
    /\ up \in BOOLEAN
    /\ provider \in Terminals \cup {None}
    /\ ready \in BOOLEAN
    /\ inFlight \in Payments \cup {None}
    /\ flags \in [answered : BOOLEAN, abort : BOOLEAN]
    /\ pc \in [Payments -> {"idle", "basket", "sale", "lookup", "back", "done"} \cup BusyPc]
    /\ outcome \in [Payments -> {"none", "refused", "notsent", "declined", "unknown", "approved"}]
    /\ sweepPc \in [Sweeps -> {"idle", "lookup"} \cup BusySweep]
    /\ todo \in [Sweeps -> SUBSET Payments]
    /\ cur \in [Sweeps -> Payments \cup {None}]
    /\ via \in [Sweeps -> Terminals \cup {None}]
    /\ marking \in Payments \cup {None}
    /\ live \in [Payments -> Nat]
    /\ recovered \in [Payments -> Nat]
    /\ screen \in [pay : Payments \cup {None},
                   phase : {"none", "starting", "charging", "unknown", "declined", "approved"}]
    /\ term \in [Payments -> {"none", "open", "approved", "declined"}]
    /\ on \in [Payments -> Terminals \cup {None}]
    /\ marked \in SUBSET Payments

Init ==
    /\ doc = [p \in Payments |-> "none"]
    /\ order = [p \in Payments |-> "none"]
    /\ attempt = [p \in Payments |-> "none"]
    /\ outbox = {}
    /\ slips = [p \in Payments |-> 0]
    /\ bons = [p \in Payments |-> 0]
    /\ pickup = [p \in Payments |-> FALSE]
    /\ up = TRUE
    /\ provider \in Terminals
    /\ ready = TRUE
    /\ inFlight = None
    /\ flags = NoFlags
    /\ pc = [p \in Payments |-> "idle"]
    /\ outcome = [p \in Payments |-> "none"]
    /\ sweepPc = [r \in Sweeps |-> "idle"]
    /\ todo = [r \in Sweeps |-> {}]
    /\ cur = [r \in Sweeps |-> None]
    /\ via = [r \in Sweeps |-> None]
    /\ marking = None
    /\ live = [p \in Payments |-> 0]
    /\ recovered = [p \in Payments |-> 0]
    /\ screen = NoScreen
    /\ term = [p \in Payments |-> "none"]
    /\ on = [p \in Payments |-> None]
    /\ marked = {}

-----------------------------------------------------------------------------
(* The ledger and the order of a payment. *)

\* Mutant: a cancelled document is completed by a late approval.
CompleteAnyDoc(p) ==
    /\ doc' = [doc EXCEPT ![p] = "completed"]
    /\ outbox' = outbox \cup {p}

\* completeCardSale: only from pending, with its outbox row.
CompleteCardSale(p) ==
    IF doc[p] = "pending"
    THEN /\ doc' = [doc EXCEPT ![p] = "completed"]
         /\ outbox' = outbox \cup {p}
    ELSE UNCHANGED <<doc, outbox>>

\* voidCardSale: only from pending, with its outbox row.
VoidCardSale(p) ==
    IF doc[p] = "pending"
    THEN /\ doc' = [doc EXCEPT ![p] = "cancelled"]
         /\ outbox' = outbox \cup {p}
    ELSE UNCHANGED <<doc, outbox>>

SaveAttempt(p, state) == attempt' = [attempt EXCEPT ![p] = state]

ForgetAttempt(p) == attempt' = [attempt EXCEPT ![p] = "none"]

\* The papers of an approval the customer waits for: the slip each time, the
\* bon only when bonRequestedAtMs is not set (bonStep).
PrintPapers(p) ==
    /\ slips' = [slips EXCEPT ![p] = @ + 1]
    /\ bons' = [bons EXCEPT ![p] = IF @ = 0 THEN 1 ELSE @]

\* afterApproval up to its await: the order paid; with a pickup number
\* already drawn it runs on to its end at once.
AfterApproval(p, isRecovered) ==
    /\ order' = [order EXCEPT ![p] = "paid"]
    /\ \/ /\ ~pickup[p] /\ isRecovered
          /\ recovered' = [recovered EXCEPT ![p] = @ + 1]
          /\ UNCHANGED <<live, slips, bons, screen>>
       \/ /\ ~pickup[p] /\ ~isRecovered
          /\ live' = [live EXCEPT ![p] = @ + 1]
          /\ UNCHANGED <<recovered, slips, bons, screen>>
       \/ /\ pickup[p] /\ isRecovered
          /\ UNCHANGED <<waiting, slips, bons, screen>>
       \/ /\ pickup[p] /\ ~isRecovered
          /\ PrintPapers(p)
          /\ screen' = [pay |-> p, phase |-> "approved"]
          /\ UNCHANGED waiting

-----------------------------------------------------------------------------
(* A payment: startPayment, then runCharge and PayService.charge. *)

\* Mutants: a charge starts over a card in flight; the lock is not read.
MayChargeTwice == ready /\ provider # None /\ ~(Lock /\ Unresolved # {})
MayChargeUnlocked == ready /\ provider # None /\ inFlight = None

\* A card may be charged: a terminal set up, no other card in flight, and
\* under the lock no attempt unresolved.
MayCharge == ready /\ provider # None /\ inFlight = None /\ ~(Lock /\ Unresolved # {})

\* The checks of startPayment, before the cloud is asked about the basket.
\* The flags are read here and not again after the await.
StartPayment(p) ==
    /\ Quiet
    /\ pc[p] = "idle"
    /\ MayCharge
    /\ pc' = [pc EXCEPT ![p] = "basket"]
    /\ UNCHANGED <<disk, world, up, provider, ready, inFlight, flags, outcome, sweep,
                   marking, waiting, screen>>

\* The cloud answered (or timed out) and the basket still stands: the order.
PutOrder(p) ==
    /\ Quiet
    /\ pc[p] = "basket"
    /\ order' = [order EXCEPT ![p] = "open"]
    /\ pc' = [pc EXCEPT ![p] = "ordered"]
    /\ UNCHANGED <<doc, attempt, outbox, slips, bons, pickup, world, up, provider, ready,
                   inFlight, flags, outcome, sweep, marking, waiting, screen>>

\* The basket changed, or is refused: nothing was written.
RefuseBasket(p) ==
    /\ Quiet
    /\ pc[p] = "basket"
    /\ pc' = [pc EXCEPT ![p] = "done"]
    /\ UNCHANGED <<disk, world, up, provider, ready, inFlight, flags, outcome, sweep,
                   marking, waiting, screen>>

\* openCardSale: the pending document.
OpenCardSale(p) ==
    /\ pc[p] = "ordered"
    /\ doc' = [doc EXCEPT ![p] = "pending"]
    /\ screen' = [pay |-> p, phase |-> "starting"]
    /\ pc' = [pc EXCEPT ![p] = "opened"]
    /\ UNCHANGED <<order, attempt, outbox, slips, bons, pickup, world, up, provider, ready,
                   inFlight, flags, outcome, sweep, marking, waiting>>

\* charge() refuses before anything is written.
ChargeRefused(p) ==
    /\ pc[p] = "opened"
    /\ ~MayCharge
    /\ outcome' = [outcome EXCEPT ![p] = "refused"]
    /\ pc' = [pc EXCEPT ![p] = "back"]
    /\ UNCHANGED <<disk, world, up, provider, ready, inFlight, flags, sweep, marking,
                   waiting, screen>>

\* Mutant: the attempt is written only when the answer is unknown.
ChargeSaveLate(p) ==
    /\ pc[p] = "opened"
    /\ MayCharge
    /\ inFlight' = p
    /\ flags' = NoFlags
    /\ screen' = [pay |-> p, phase |-> "charging"]
    /\ pc' = [pc EXCEPT ![p] = "saved"]
    /\ UNCHANGED <<disk, world, up, provider, ready, outcome, sweep, marking, waiting>>

\* The attempt on disk before the frame leaves.
ChargeSave(p) ==
    /\ pc[p] = "opened"
    /\ MayCharge
    /\ SaveAttempt(p, "sent")
    /\ inFlight' = p
    /\ flags' = NoFlags
    /\ screen' = [pay |-> p, phase |-> "charging"]
    /\ pc' = [pc EXCEPT ![p] = "saved"]
    /\ UNCHANGED <<doc, order, outbox, slips, bons, pickup, world, up, provider, ready,
                   outcome, sweep, marking, waiting>>

\* provider.sale: the frame leaves, or no link could be opened.
SendFrame(p) ==
    /\ pc[p] = "saved"
    /\ \E t \in {"none", "open"} : term' = [term EXCEPT ![p] = t]
    /\ on' = [on EXCEPT ![p] = provider]
    /\ pc' = [pc EXCEPT ![p] = "sale"]
    /\ UNCHANGED <<disk, marked, up, provider, ready, inFlight, flags, outcome, sweep,
                   marking, waiting, screen>>

\* The terminal answered and waits for the acknowledgement (onAnswered).
OnAnswered(p) ==
    /\ Quiet
    /\ pc[p] = "sale"
    /\ term[p] \in {"approved", "declined"}
    /\ ~flags.answered
    /\ flags' = [flags EXCEPT !.answered = TRUE]
    /\ UNCHANGED <<disk, world, pc, outcome, inFlight, up, provider, ready, sweep, marking,
                   waiting, screen>>

\* Mutant: a card presented, not yet authorised, is read as approved.
SaleAnswersEarly(p) ==
    CASE term[p] = "none" -> {"notsent"}
      [] term[p] = "open" -> {"approved"}
      [] OTHER -> {term[p]}

\* What the answer of a sale may be: the contract of provider.ts.
SaleAnswers(p) ==
    CASE term[p] = "none" -> {"notsent"}
      [] term[p] = "open" -> {}
      [] OTHER -> {term[p]}

\* provider.sale answered for certain.  The finally of charge() lets go of
\* the terminal; runCharge goes on in a later microtask.
SaleAnswered(p) ==
    /\ Quiet
    /\ pc[p] = "sale"
    /\ \E a \in SaleAnswers(p) :
          /\ outcome' = [outcome EXCEPT ![p] = a]
          /\ IF a = "notsent" THEN ForgetAttempt(p) ELSE UNCHANGED attempt
    /\ inFlight' = None
    /\ flags' = NoFlags
    /\ pc' = [pc EXCEPT ![p] = "back"]
    /\ UNCHANGED <<doc, order, outbox, slips, bons, pickup, world, up, provider, ready,
                   sweep, marking, waiting, screen>>

\* No certain answer: the attempt is unknown, and its reference is asked about.
SaleUnknown(p) ==
    /\ Quiet
    /\ pc[p] = "sale"
    /\ SaveAttempt(p, "unknown")
    /\ flags' = [flags EXCEPT !.answered = TRUE]
    /\ pc' = [pc EXCEPT ![p] = "lookup"]
    /\ UNCHANGED <<doc, order, outbox, slips, bons, pickup, world, up, provider, ready,
                   inFlight, outcome, sweep, marking, waiting, screen>>

\* The provider threw, at the sale or at the lookup.
ChargeFailed(p) ==
    /\ Quiet
    /\ pc[p] \in {"sale", "lookup"}
    /\ SaveAttempt(p, "unknown")
    /\ outcome' = [outcome EXCEPT ![p] = "unknown"]
    /\ inFlight' = None
    /\ flags' = NoFlags
    /\ pc' = [pc EXCEPT ![p] = "back"]
    /\ UNCHANGED <<doc, order, outbox, slips, bons, pickup, world, up, provider, ready,
                   sweep, marking, waiting, screen>>

\* What provider.resolve may say of a charge.  On its own terminal it is
\* believed: "approved" only of an approved charge, "not charged" only of one
\* that will never be (CardLookup shows when).  Another terminal never heard
\* of the reference.
Resolutions(t, p) ==
    {"unknown"} \cup
    IF on[p] \in {None, t}
    THEN CASE term[p] = "approved" -> {"approved"}
           [] term[p] = "open" -> {}
           [] OTHER -> {"not_charged"}
    ELSE {"not_charged"}

\* Mutant: the finally that lets go of the terminal is missing.
LookupKeepsFlight(p) ==
    /\ Quiet
    /\ pc[p] = "lookup"
    /\ \E v \in Resolutions(provider, p) :
          outcome' = [outcome EXCEPT ![p] = IF v = "not_charged" THEN "declined" ELSE v]
    /\ pc' = [pc EXCEPT ![p] = "back"]
    /\ UNCHANGED <<disk, world, inFlight, flags, up, provider, ready, sweep, marking,
                   waiting, screen>>

\* fromResolution: the lookup of a live charge.
LookupAnswered(p) ==
    /\ Quiet
    /\ pc[p] = "lookup"
    /\ \E v \in Resolutions(provider, p) :
          \/ /\ v = "approved"
             /\ outcome' = [outcome EXCEPT ![p] = "approved"]
             /\ UNCHANGED attempt
          \/ /\ v = "not_charged"
             /\ outcome' = [outcome EXCEPT ![p] = "declined"]
             /\ UNCHANGED attempt
          \/ /\ v = "unknown"
             /\ outcome' = [outcome EXCEPT ![p] = "unknown"]
             /\ SaveAttempt(p, "unknown")
    /\ inFlight' = None
    /\ flags' = NoFlags
    /\ pc' = [pc EXCEPT ![p] = "back"]
    /\ UNCHANGED <<doc, order, outbox, slips, bons, pickup, world, up, provider, ready,
                   sweep, marking, waiting, screen>>

\* runCharge: refused before the frame; the document is voided.
RunRefused(p) ==
    /\ Quiet
    /\ pc[p] = "back"
    /\ outcome[p] = "refused"
    /\ VoidCardSale(p)
    /\ screen' = [pay |-> p, phase |-> "declined"]
    /\ pc' = [pc EXCEPT ![p] = "done"]
    /\ UNCHANGED <<order, attempt, slips, bons, pickup, outcome, inFlight, flags, world, up,
                   provider, ready, sweep, marking, waiting>>

\* runCharge: certainly not charged; voided, then (RunForget) forgotten.
RunDeclined(p) ==
    /\ Quiet
    /\ pc[p] = "back"
    /\ outcome[p] \in {"declined", "notsent"}
    /\ VoidCardSale(p)
    /\ screen' = [pay |-> p, phase |-> "declined"]
    /\ pc' = [pc EXCEPT ![p] = "voided"]
    /\ UNCHANGED <<order, attempt, slips, bons, pickup, outcome, inFlight, flags, world, up,
                   provider, ready, sweep, marking, waiting>>

\* Mutant: no answer is taken for "not charged".
RunUnknownVoids(p) ==
    /\ Quiet
    /\ pc[p] = "back"
    /\ outcome[p] = "unknown"
    /\ VoidCardSale(p)
    /\ screen' = [pay |-> p, phase |-> "declined"]
    /\ pc' = [pc EXCEPT ![p] = "done"]
    /\ UNCHANGED <<order, attempt, slips, bons, pickup, outcome, inFlight, flags, world, up,
                   provider, ready, sweep, marking, waiting>>

\* runCharge: unknown; the document stays pending and the attempt stays.
RunUnknown(p) ==
    /\ Quiet
    /\ pc[p] = "back"
    /\ outcome[p] = "unknown"
    /\ screen' = [pay |-> p, phase |-> "unknown"]
    /\ pc' = [pc EXCEPT ![p] = "done"]
    /\ UNCHANGED <<disk, world, outcome, inFlight, flags, up, provider, ready, sweep,
                   marking, waiting>>

\* runCharge: approved; completed, then (RunForget) forgotten, then the order.
RunApproved(p) ==
    /\ Quiet
    /\ pc[p] = "back"
    /\ outcome[p] = "approved"
    /\ CompleteCardSale(p)
    /\ pc' = [pc EXCEPT ![p] = "completed"]
    /\ UNCHANGED <<order, attempt, slips, bons, pickup, outcome, inFlight, flags, world, up,
                   provider, ready, sweep, marking, waiting, screen>>

\* Mutant: the return after a decline is missing, the order goes on to paid.
RunForgetFallsThrough(p) ==
    /\ pc[p] \in {"completed", "voided"}
    /\ ForgetAttempt(p)
    /\ pc' = [pc EXCEPT ![p] = "forgot"]
    /\ UNCHANGED <<doc, order, outbox, slips, bons, pickup, outcome, inFlight, flags, world,
                   up, provider, ready, sweep, marking, waiting, screen>>

RunForget(p) ==
    /\ pc[p] \in {"completed", "voided"}
    /\ ForgetAttempt(p)
    /\ pc' = [pc EXCEPT ![p] = IF @ = "completed" THEN "forgot" ELSE "done"]
    /\ UNCHANGED <<doc, order, outbox, slips, bons, pickup, outcome, inFlight, flags, world,
                   up, provider, ready, sweep, marking, waiting, screen>>

RunPaid(p) ==
    /\ pc[p] = "forgot"
    /\ AfterApproval(p, FALSE)
    /\ pc' = [pc EXCEPT ![p] = "done"]
    /\ UNCHANGED <<doc, attempt, outbox, pickup, outcome, inFlight, flags, world, up,
                   provider, ready, sweep, marking>>

\* afterApproval after its await, for a live payment: the number and the papers.
PickupLive(p) ==
    /\ Quiet
    /\ live[p] > 0
    /\ live' = [live EXCEPT ![p] = @ - 1]
    /\ pickup' = [pickup EXCEPT ![p] = TRUE]
    /\ PrintPapers(p)
    /\ screen' = [pay |-> p, phase |-> "approved"]
    /\ UNCHANGED <<recovered, doc, order, attempt, outbox, flow, world, up, provider, ready,
                   sweep, marking>>

\* The same for a payment recovered later: no papers.
PickupRecovered(p) ==
    /\ Quiet
    /\ recovered[p] > 0
    /\ recovered' = [recovered EXCEPT ![p] = @ - 1]
    /\ pickup' = [pickup EXCEPT ![p] = TRUE]
    /\ UNCHANGED <<live, doc, order, attempt, outbox, slips, bons, flow, world, up,
                   provider, ready, sweep, marking, screen>>

\* cancelPayment on the pay screen: one abort, and never after an answer.
CancelPayment ==
    /\ Quiet
    /\ screen.phase \in {"starting", "charging"}
    /\ inFlight # None
    /\ ~flags.answered /\ ~flags.abort
    /\ flags' = [flags EXCEPT !.abort = TRUE]
    /\ UNCHANGED <<disk, world, pc, outcome, inFlight, up, provider, ready, sweep, marking,
                   waiting, screen>>

-----------------------------------------------------------------------------
(* settleOrphans: a run of resolveOrphans over the attempts on disk. *)

\* A run begins: the attempts on disk and the terminal are read once.
BeginSweep(r) ==
    /\ sweepPc' = [sweepPc EXCEPT ![r] = "next"]
    /\ todo' = [todo EXCEPT ![r] = Unresolved]
    /\ via' = [via EXCEPT ![r] = provider]
    /\ UNCHANGED cur

\* The manager's "check again".
SweepStart(r) ==
    /\ Quiet
    /\ sweepPc[r] = "idle"
    /\ Unresolved # {}
    /\ BeginSweep(r)
    /\ UNCHANGED <<disk, flow, world, up, provider, ready, marking, waiting, screen>>

\* Mutant: an attempt whose document is settled is skipped, not forgotten.
SweepNextKeeps(r) ==
    /\ sweepPc[r] = "next"
    /\ \E p \in todo[r] :
          /\ todo' = [todo EXCEPT ![r] = @ \ {p}]
          /\ IF inFlight # p /\ doc[p] = "pending" /\ via[r] # None
             THEN /\ sweepPc' = [sweepPc EXCEPT ![r] = "lookup"]
                  /\ cur' = [cur EXCEPT ![r] = p]
             ELSE UNCHANGED <<sweepPc, cur>>
    /\ UNCHANGED <<via, disk, flow, world, up, provider, ready, marking, waiting, screen>>

\* The next attempt of the snapshot: skipped while it is in flight, forgotten
\* when its document is settled, left unknown with no terminal, else asked about.
SweepNext(r) ==
    /\ sweepPc[r] = "next"
    /\ \E p \in todo[r] :
          /\ todo' = [todo EXCEPT ![r] = @ \ {p}]
          /\ \/ /\ inFlight = p \/ (doc[p] = "pending" /\ via[r] = None)
                /\ UNCHANGED <<attempt, sweepPc, cur>>
             \/ /\ inFlight # p /\ doc[p] # "pending"
                /\ ForgetAttempt(p)
                /\ UNCHANGED <<sweepPc, cur>>
             \/ /\ inFlight # p /\ doc[p] = "pending" /\ via[r] # None
                /\ sweepPc' = [sweepPc EXCEPT ![r] = "lookup"]
                /\ cur' = [cur EXCEPT ![r] = p]
                /\ UNCHANGED attempt
    /\ UNCHANGED <<via, doc, order, outbox, slips, bons, pickup, flow, world, up, provider,
                   ready, marking, waiting, screen>>

SweepEnd(r) ==
    /\ sweepPc[r] = "next"
    /\ todo[r] = {}
    /\ sweepPc' = [sweepPc EXCEPT ![r] = "idle"]
    /\ via' = [via EXCEPT ![r] = None]
    /\ UNCHANGED <<todo, cur, disk, flow, world, up, provider, ready, marking, waiting,
                   screen>>

\* The lookup answered.  Nothing is read again after the await: the document
\* may have been settled meanwhile.
SweepApproved(r) ==
    LET p == cur[r] IN
    /\ Quiet
    /\ sweepPc[r] = "lookup"
    /\ "approved" \in Resolutions(via[r], p)
    /\ CompleteCardSale(p)
    /\ sweepPc' = [sweepPc EXCEPT ![r] = "completed"]
    /\ UNCHANGED <<todo, cur, via, order, attempt, slips, bons, pickup, flow, world, up,
                   provider, ready, marking, waiting, screen>>

SweepNotCharged(r) ==
    LET p == cur[r] IN
    /\ Quiet
    /\ sweepPc[r] = "lookup"
    /\ "not_charged" \in Resolutions(via[r], p)
    /\ VoidCardSale(p)
    /\ screen' = IF LiveUnknown(p) THEN [pay |-> p, phase |-> "declined"] ELSE screen
    /\ sweepPc' = [sweepPc EXCEPT ![r] = "voided"]
    /\ UNCHANGED <<todo, cur, via, order, attempt, slips, bons, pickup, flow, world, up,
                   provider, ready, marking, waiting>>

SweepUnknown(r) ==
    /\ Quiet
    /\ sweepPc[r] = "lookup"
    /\ SaveAttempt(cur[r], "unknown")
    /\ sweepPc' = [sweepPc EXCEPT ![r] = "next"]
    /\ cur' = [cur EXCEPT ![r] = None]
    /\ UNCHANGED <<todo, via, doc, order, outbox, slips, bons, pickup, flow, world, up,
                   provider, ready, marking, waiting, screen>>

\* The order of a completed one: live if the customer still waits on it.
SweepPaid(r) ==
    LET p == cur[r] IN
    /\ sweepPc[r] = "completed"
    /\ AfterApproval(p, ~LiveUnknown(p))
    /\ sweepPc' = [sweepPc EXCEPT ![r] = "paid"]
    /\ UNCHANGED <<todo, cur, via, doc, attempt, outbox, pickup, flow, world, up, provider,
                   ready, marking>>

SweepForget(r) ==
    /\ sweepPc[r] \in {"paid", "voided"}
    /\ ForgetAttempt(cur[r])
    /\ sweepPc' = [sweepPc EXCEPT ![r] = "next"]
    /\ cur' = [cur EXCEPT ![r] = None]
    /\ UNCHANGED <<todo, via, doc, order, outbox, slips, bons, pickup, flow, world, up,
                   provider, ready, marking, waiting, screen>>

-----------------------------------------------------------------------------
(* The manager's "mark as not approved", and the cloud settings. *)

\* markNotApproved: voided at once, then forgotten.
MarkNotApproved(p) ==
    /\ Quiet
    /\ attempt[p] # "none"
    /\ VoidCardSale(p)
    /\ marked' = IF doc[p] = "pending" THEN marked \cup {p} ELSE marked
    /\ screen' = IF LiveUnknown(p) THEN [pay |-> p, phase |-> "declined"] ELSE screen
    /\ marking' = p
    /\ UNCHANGED <<order, attempt, slips, bons, pickup, flow, term, on, up, provider, ready,
                   sweep, waiting>>

MarkForget ==
    /\ marking # None
    /\ ForgetAttempt(marking)
    /\ marking' = None
    /\ UNCHANGED <<doc, order, outbox, slips, bons, pickup, flow, world, up, provider,
                   ready, sweep, waiting, screen>>

\* Mutant: "no card" is kept as if it were a terminal.
SetProviderRaw(s) ==
    /\ Quiet
    /\ inFlight = None
    /\ provider' = s
    /\ ready' = (s \in Terminals)
    /\ UNCHANGED <<disk, flow, world, up, sweep, marking, waiting, screen>>

\* setProvider: never while a frame is out.  "No card" keeps the terminal an
\* attempt is unresolved on; any other setting replaces it.
SetProvider(s) ==
    /\ Quiet
    /\ inFlight = None
    /\ provider' = IF s # NoCard THEN s ELSE IF Unresolved # {} THEN provider ELSE None
    /\ ready' = (s \in Terminals)
    /\ UNCHANGED <<disk, flow, world, up, sweep, marking, waiting, screen>>

-----------------------------------------------------------------------------
(* The terminal, and the process going down. *)

TerminalDecides(p) ==
    /\ term[p] = "open"
    /\ \E t \in {"approved", "declined"} : term' = [term EXCEPT ![p] = t]
    /\ UNCHANGED <<disk, flow, on, marked, up, provider, ready, sweep, marking, waiting,
                   screen>>

\* At any point, between two commits too: the memory is gone.
Crash ==
    /\ up
    /\ up' = FALSE
    /\ pc' = [p \in Payments |-> IF pc[p] = "idle" THEN "idle" ELSE "done"]
    /\ outcome' = [p \in Payments |-> "none"]
    /\ inFlight' = None
    /\ flags' = NoFlags
    /\ sweepPc' = [r \in Sweeps |-> "idle"]
    /\ todo' = [r \in Sweeps |-> {}]
    /\ cur' = [r \in Sweeps |-> None]
    /\ via' = [r \in Sweeps |-> None]
    /\ marking' = None
    /\ live' = [p \in Payments |-> 0]
    /\ recovered' = [p \in Payments |-> 0]
    /\ screen' = NoScreen
    /\ UNCHANGED <<disk, world, provider, ready>>

\* start(): the attempts on disk are settled before anything else.
Start ==
    /\ ~up
    /\ up' = TRUE
    /\ \E r \in Sweeps : BeginSweep(r)
    /\ UNCHANGED <<disk, flow, world, provider, ready, marking, waiting, screen>>

\* What a started payment does next.
ChargeGoesOn(p) ==
    \/ PutOrder(p) \/ RefuseBasket(p) \/ OpenCardSale(p)
    \/ ChargeRefused(p) \/ ChargeSave(p) \/ SendFrame(p)
    \/ SaleAnswered(p) \/ SaleUnknown(p) \/ ChargeFailed(p) \/ LookupAnswered(p)
    \/ RunRefused(p) \/ RunDeclined(p) \/ RunUnknown(p) \/ RunApproved(p)
    \/ RunForget(p) \/ RunPaid(p)

ChargeStep(p) ==
    \/ StartPayment(p) \/ ChargeGoesOn(p)
    \/ OnAnswered(p) \/ PickupLive(p) \/ PickupRecovered(p)

\* What a started sweep does next.
SweepGoesOn(r) ==
    \/ SweepNext(r) \/ SweepEnd(r)
    \/ SweepApproved(r) \/ SweepNotCharged(r) \/ SweepUnknown(r)
    \/ SweepPaid(r) \/ SweepForget(r)

SweepStep(r) == SweepStart(r) \/ SweepGoesOn(r)

Next ==
    \/ \E p \in Payments : ChargeStep(p) \/ MarkNotApproved(p) \/ TerminalDecides(p)
    \/ \E r \in Sweeps : SweepStep(r)
    \/ MarkForget \/ CancelPayment
    \/ \E s \in Reconfig : SetProvider(s)
    \/ Crash \/ Start

Spec == Init /\ [][Next]_vars

-----------------------------------------------------------------------------
(* Safety. *)

\* A charge that may have taken money, of a document still pending, has its
\* attempt on disk: whatever crashed, somebody knows whom to ask
\* (payService.ts: "on disk BEFORE the frame leaves").
ChargeAccounted ==
    \A p \in Payments :
        doc[p] = "pending" /\ term[p] \in {"open", "approved"} => attempt[p] # "none"

\* A document is completed only when its card was charged.
CompletedWasCharged ==
    \A p \in Payments : doc[p] = "completed" => term[p] = "approved"

\* A document is cancelled only when its card was not charged and will not
\* be, unless a manager took it on themself (voidCardSale: "Certainly not
\* charged: cancelled").
CancelledWasNotCharged ==
    \A p \in Payments :
        doc[p] = "cancelled" /\ p \notin marked => term[p] \in {"none", "declined"}

\* An order is marked paid, and its papers come out, only when the card was
\* charged, whichever of runCharge and the sweeps got there.
PaidWasCharged ==
    \A p \in Payments :
        order[p] = "paid" \/ slips[p] > 0 \/ bons[p] > 0 => term[p] = "approved"

\* The terminal is asked to charge one card at a time, though startPayment
\* reads its flag before an await and charges after it.
OneCardAtATime ==
    \A p \in Payments : pc[p] \in {"saved", "sale", "lookup"} => inFlight = p

\* A paid order stands on a completed document (afterApproval: "Money taken:
\* the order paid").
PaidOrderHasDocument ==
    \A p \in Payments : order[p] = "paid" => doc[p] = "completed"

\* Somebody will still mark the order of a completed document paid.
WillBePaid(p) ==
    \/ pc[p] \in {"completed", "forgot"}
    \/ \E r \in Sweeps : sweepPc[r] = "completed" /\ cur[r] = p
    \/ attempt[p] # "none"

\* A completed document has its order paid, or some handler that will pay it.
ApprovalReachesOrder ==
    \A p \in Payments : doc[p] = "completed" => order[p] = "paid" \/ WillBePaid(p)

\* A pending document is somebody's: its payment runs, or its attempt is on
\* disk, where a sweep finds it and the manager sees it (SPEC_CARD_RECOVERY).
PendingIsSomebodys ==
    \A p \in Payments :
        doc[p] = "pending" => pc[p] \notin {"idle", "done"} \/ attempt[p] # "none"

\* No frame leaves while an earlier attempt is unresolved (cardRecovery.ts).
NoFrameWhileUnresolved ==
    [][\A p \in Payments : on'[p] # on[p] => Unresolved' = {p}]_vars

\* A settled document stays as it is, and an order stays paid.
SettledForGood ==
    [][\A p \in Payments :
          /\ doc[p] \in {"completed", "cancelled"} => doc'[p] = doc[p]
          /\ order[p] = "paid" => order'[p] = "paid"]_vars

-----------------------------------------------------------------------------
(* Liveness. *)

\* What the process owes by itself: the event loop takes the ready handlers
\* in turn, so one that is ready again and again runs (SF); a synchronous run
\* goes to its end (WF); every call to the terminal ends, by its timeout; the
\* app is started again after a crash.
Fairness ==
    /\ \A p \in Payments : SF_vars(ChargeGoesOn(p))
    /\ \A r \in Sweeps : SF_vars(SweepGoesOn(r))
    /\ WF_vars(MarkForget)
    /\ WF_vars(Start)

FairSpec == Spec /\ Fairness

\* A card on the terminal is let go of, whatever crashes, lookups and sweeps
\* come in between: the kiosk does not refuse payments as busy for ever.
TerminalFreed == \A p \in Payments : inFlight = p ~> inFlight # p

\* What the people and the terminal owe as well: a manager checks again, the
\* terminal decides every charge and keeps answering lookups in the end.
Attended ==
    /\ \A p \in Payments : WF_vars(TerminalDecides(p))
    /\ \A r \in Sweeps :
          /\ SF_vars(SweepStart(r))
          /\ SF_vars(SweepApproved(r) \/ SweepNotCharged(r))

\* Once the app stays up, and is attended, every attempt on disk is settled and
\* forgotten.
AttemptSettled ==
    Attended /\ <>[]up => \A p \in Payments : attempt[p] # "none" ~> attempt[p] = "none"
=============================================================================
