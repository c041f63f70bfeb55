--------------------------- MODULE CardPayProofs ---------------------------
(***************************************************************************)
(* CardPay for every set of payments and sweeps: type correctness, and the *)
(* safety invariants from one inductive invariant, IInv.                   *)
(***************************************************************************)
EXTENDS CardPay, TLAPS

\* A payment whose charge has not begun has nothing of it anywhere.
Fresh ==
    \A p \in Payments :
        pc[p] \in {"idle", "basket", "ordered"} \/ doc[p] = "none" =>
            /\ doc[p] = "none"
            /\ attempt[p] = "none"
            /\ term[p] = "none"
            /\ order[p] # "paid"
            /\ live[p] = 0 /\ recovered[p] = 0
            /\ slips[p] = 0 /\ bons[p] = 0

\* Before the frame: the document pending, nothing at the terminal yet.
BeforeFrame ==
    \A p \in Payments :
        pc[p] \in {"opened", "saved"} =>
            /\ doc[p] = "pending"
            /\ term[p] = "none"
            /\ pc[p] = "saved" => attempt[p] # "none"

\* charge() returns "approved" only of an approved charge.
OutcomeIsTrue ==
    \A p \in Payments : outcome[p] = "approved" => term[p] = "approved"

\* A charge under way has its document; between two commits of the
\* continuation of runCharge it is settled.
RunInProgress ==
    \A p \in Payments :
        /\ pc[p] \in {"sale", "lookup", "back"} => doc[p] # "none"
        /\ pc[p] \in {"completed", "forgot", "voided"} => doc[p] \notin {"none", "pending"}
        /\ pc[p] \in {"completed", "forgot"} => term[p] = "approved"

\* A sweep works on documents that were written, and between two commits of
\* a verdict its document is settled.
SweepInProgress ==
    \A r \in Sweeps :
        /\ \A p \in todo[r] : doc[p] # "none"
        /\ sweepPc[r] \in {"lookup", "completed", "paid", "voided"} =>
               cur[r] \in Payments /\ doc[cur[r]] # "none"
        /\ sweepPc[r] \in {"completed", "paid", "voided"} => doc[cur[r]] # "pending"
        /\ sweepPc[r] \in {"completed", "paid"} => term[cur[r]] = "approved"

MarkInProgress == marking # None => doc[marking] \notin {"none", "pending"}

\* Whoever waits for a pickup number was approved.
WaitingWasCharged ==
    \A p \in Payments :
        live[p] > 0 \/ recovered[p] > 0 => term[p] = "approved"

IInv ==
    /\ Fresh
    /\ BeforeFrame
    /\ OutcomeIsTrue
    /\ RunInProgress
    /\ SweepInProgress
    /\ MarkInProgress
    /\ WaitingWasCharged
    /\ ChargeAccounted
    /\ CompletedWasCharged
    /\ PaidWasCharged
    /\ OneCardAtATime

-----------------------------------------------------------------------------
(* Type correctness. *)

\* A sweep between its question and its verdict asks about a payment.
SweepAsks ==
    \A r \in Sweeps :
        sweepPc[r] \in {"lookup", "completed", "paid", "voided"} => cur[r] \in Payments

TypeInv == TypeOK /\ SweepAsks

LEMMA TypeInit == Init => TypeInv
<1> SUFFICES ASSUME Init PROVE TypeInv
  OBVIOUS
<1> QED
  BY DEF Init, TypeInv, TypeOK, SweepAsks, NoFlags, NoScreen, BusyPc, BusySweep

LEMMA TypeStep == TypeInv /\ [Next]_vars => TypeInv'
<1> SUFFICES ASSUME TypeInv, [Next]_vars PROVE TypeInv'
  OBVIOUS
<1> USE DEF TypeInv, TypeOK, SweepAsks, BusyPc, BusySweep, disk, flow, world, NoFlags, sweep, waiting, NoScreen
<1>1. ASSUME NEW p \in Payments, StartPayment(p) PROVE TypeInv'
  BY <1>1 DEF StartPayment
<1>2. ASSUME NEW p \in Payments, PutOrder(p) PROVE TypeInv'
  BY <1>2 DEF PutOrder
<1>3. ASSUME NEW p \in Payments, RefuseBasket(p) PROVE TypeInv'
  BY <1>3 DEF RefuseBasket
<1>4. ASSUME NEW p \in Payments, OpenCardSale(p) PROVE TypeInv'
  BY <1>4 DEF OpenCardSale
<1>5. ASSUME NEW p \in Payments, ChargeRefused(p) PROVE TypeInv'
  BY <1>5 DEF ChargeRefused
<1>6. ASSUME NEW p \in Payments, ChargeSave(p) PROVE TypeInv'
  BY <1>6 DEF ChargeSave, SaveAttempt
<1>7. ASSUME NEW p \in Payments, SendFrame(p) PROVE TypeInv'
  BY <1>7 DEF SendFrame
<1>8. ASSUME NEW p \in Payments, OnAnswered(p) PROVE TypeInv'
  <2>1. flags' \in [answered : BOOLEAN, abort : BOOLEAN]
    BY <1>8 DEF OnAnswered
  <2> QED
    BY <1>8, <2>1 DEF OnAnswered
<1>9. ASSUME NEW p \in Payments, SaleAnswered(p) PROVE TypeInv'
  BY <1>9 DEF SaleAnswered, SaleAnswers, ForgetAttempt
<1>10. ASSUME NEW p \in Payments, SaleUnknown(p) PROVE TypeInv'
  <2>1. flags' \in [answered : BOOLEAN, abort : BOOLEAN]
    BY <1>10 DEF SaleUnknown
  <2>2. attempt' \in [Payments -> {"none", "sent", "unknown"}]
    BY <1>10 DEF SaleUnknown, SaveAttempt
  <2>3. pc' \in [Payments -> {"idle", "basket", "sale", "lookup", "back", "done"} \cup BusyPc]
    BY <1>10 DEF SaleUnknown
  <2>4. UNCHANGED <<doc, order, outbox, slips, bons, pickup, term, on, marked, up, provider,
                    ready, inFlight, outcome, sweepPc, todo, cur, via, marking, live,
                    recovered, screen>>
    BY <1>10 DEF SaleUnknown
  <2> QED
    BY <2>1, <2>2, <2>3, <2>4
<1>11. ASSUME NEW p \in Payments, ChargeFailed(p) PROVE TypeInv'
  BY <1>11 DEF ChargeFailed, SaveAttempt
<1>12. ASSUME NEW p \in Payments, LookupAnswered(p) PROVE TypeInv'
  BY <1>12 DEF LookupAnswered, SaveAttempt, Resolutions
<1>13. ASSUME NEW p \in Payments, RunRefused(p) PROVE TypeInv'
  BY <1>13 DEF RunRefused, VoidCardSale
<1>14. ASSUME NEW p \in Payments, RunDeclined(p) PROVE TypeInv'
  BY <1>14 DEF RunDeclined, VoidCardSale
<1>15. ASSUME NEW p \in Payments, RunUnknown(p) PROVE TypeInv'
  BY <1>15 DEF RunUnknown
<1>16. ASSUME NEW p \in Payments, RunApproved(p) PROVE TypeInv'
  BY <1>16 DEF RunApproved, CompleteCardSale
<1>17. ASSUME NEW p \in Payments, RunForget(p) PROVE TypeInv'
  BY <1>17 DEF RunForget, ForgetAttempt
<1>18. ASSUME NEW p \in Payments, RunPaid(p) PROVE TypeInv'
  BY <1>18 DEF RunPaid, AfterApproval, PrintPapers
<1>19. ASSUME NEW p \in Payments, PickupLive(p) PROVE TypeInv'
  BY <1>19 DEF PickupLive, PrintPapers
<1>20. ASSUME NEW p \in Payments, PickupRecovered(p) PROVE TypeInv'
  BY <1>20 DEF PickupRecovered
<1>21. ASSUME NEW p \in Payments, MarkNotApproved(p) PROVE TypeInv'
  BY <1>21 DEF MarkNotApproved, VoidCardSale
<1>22. ASSUME NEW p \in Payments, TerminalDecides(p) PROVE TypeInv'
  BY <1>22 DEF TerminalDecides
<1>23. ASSUME NEW r \in Sweeps, SweepStart(r) PROVE TypeInv'
  BY <1>23 DEF SweepStart, BeginSweep, Unresolved
<1>24. ASSUME NEW r \in Sweeps, SweepNext(r) PROVE TypeInv'
  BY <1>24 DEF SweepNext, ForgetAttempt
<1>25. ASSUME NEW r \in Sweeps, SweepEnd(r) PROVE TypeInv'
  BY <1>25 DEF SweepEnd
<1>26. ASSUME NEW r \in Sweeps, SweepApproved(r) PROVE TypeInv'
  BY <1>26 DEF SweepApproved, CompleteCardSale
<1>27. ASSUME NEW r \in Sweeps, SweepNotCharged(r) PROVE TypeInv'
  BY <1>27 DEF SweepNotCharged, VoidCardSale
<1>28. ASSUME NEW r \in Sweeps, SweepUnknown(r) PROVE TypeInv'
  BY <1>28 DEF SweepUnknown, SaveAttempt
<1>29. ASSUME NEW r \in Sweeps, SweepPaid(r) PROVE TypeInv'
  <2>1. cur[r] \in Payments
    BY <1>29 DEF SweepPaid
  <2>2. AfterApproval(cur[r], ~LiveUnknown(cur[r]))
    BY <1>29 DEF SweepPaid
  <2>3. /\ order' \in [Payments -> {"none", "open", "paid"}]
        /\ live' \in [Payments -> Nat]
        /\ recovered' \in [Payments -> Nat]
    BY <2>1, <2>2 DEF AfterApproval
  <2>4. slips' \in [Payments -> Nat] /\ bons' \in [Payments -> Nat]
    BY <2>1, <2>2 DEF AfterApproval, PrintPapers
  <2>5. screen' \in [pay : Payments \cup {None},
                   phase : {"none", "starting", "charging", "unknown", "declined", "approved"}]
    BY <2>1, <2>2 DEF AfterApproval
  <2> QED
    BY <1>29, <2>3, <2>4, <2>5 DEF SweepPaid
<1>30. ASSUME NEW r \in Sweeps, SweepForget(r) PROVE TypeInv'
  BY <1>30 DEF SweepForget, ForgetAttempt
<1>31. CASE MarkForget
  BY <1>31 DEF MarkForget, ForgetAttempt
<1>32. CASE CancelPayment
  BY <1>32 DEF CancelPayment
<1>33. CASE Crash
  BY <1>33 DEF Crash
<1>34. CASE Start
  BY <1>34 DEF Start, BeginSweep, Unresolved
<1>35. ASSUME NEW s \in Reconfig, SetProvider(s) PROVE TypeInv'
  BY <1>35, ReconfigAssumption DEF SetProvider
<1>36. CASE UNCHANGED vars
  BY <1>36 DEF vars
<1> QED
  BY <1>1, <1>2, <1>3, <1>4, <1>5, <1>6, <1>7, <1>8, <1>9, <1>10, <1>11, <1>12, <1>13, <1>14, <1>15, <1>16, <1>17, <1>18, <1>19, <1>20, <1>21, <1>22, <1>23, <1>24, <1>25, <1>26, <1>27, <1>28, <1>29, <1>30, <1>31, <1>32, <1>33, <1>34, <1>35, <1>36 DEF Next, ChargeStep, ChargeGoesOn, SweepStep, SweepGoesOn

\* Every variable keeps its type, for any number of payments and sweeps.
THEOREM TypeCorrect == Spec => []TypeOK
<1> QED
  BY TypeInit, TypeStep, PTL DEF Spec, TypeInv

-----------------------------------------------------------------------------
(* Safety. *)

LEMMA InvInit == Init => IInv
<1> SUFFICES ASSUME Init PROVE IInv
  OBVIOUS
<1> QED
  BY DEF Init, IInv, Fresh, BeforeFrame, OutcomeIsTrue, RunInProgress, SweepInProgress,
         MarkInProgress, WaitingWasCharged, ChargeAccounted, CompletedWasCharged,
         PaidWasCharged, OneCardAtATime

LEMMA InvStep == TypeInv /\ TypeInv' /\ IInv /\ [Next]_vars => IInv'
<1> SUFFICES ASSUME TypeInv, TypeInv', IInv, [Next]_vars PROVE IInv'
  OBVIOUS
<1> USE NoneAssumption
<1> USE DEF TypeInv, TypeOK, SweepAsks, BusyPc, BusySweep, Quiet,
            disk, flow, world, sweep, waiting,
            IInv, Fresh, BeforeFrame, OutcomeIsTrue, RunInProgress, SweepInProgress,
            MarkInProgress, WaitingWasCharged, ChargeAccounted, CompletedWasCharged,
            PaidWasCharged, OneCardAtATime
<1>1. ASSUME NEW p \in Payments, StartPayment(p) PROVE IInv'
  BY <1>1 DEF StartPayment, MayCharge
<1>2. ASSUME NEW p \in Payments, PutOrder(p) PROVE IInv'
  BY <1>2 DEF PutOrder
<1>3. ASSUME NEW p \in Payments, RefuseBasket(p) PROVE IInv'
  BY <1>3 DEF RefuseBasket
<1>4. ASSUME NEW p \in Payments, OpenCardSale(p) PROVE IInv'
  BY <1>4 DEF OpenCardSale
<1>5. ASSUME NEW p \in Payments, ChargeRefused(p) PROVE IInv'
  BY <1>5 DEF ChargeRefused
<1>6. ASSUME NEW p \in Payments, ChargeSave(p) PROVE IInv'
  BY <1>6 DEF ChargeSave, SaveAttempt, MayCharge
<1>7. ASSUME NEW p \in Payments, SendFrame(p) PROVE IInv'
  BY <1>7 DEF SendFrame
<1>8. ASSUME NEW p \in Payments, OnAnswered(p) PROVE IInv'
  BY <1>8 DEF OnAnswered
<1>9. ASSUME NEW p \in Payments, SaleAnswered(p) PROVE IInv'
  BY <1>9 DEF SaleAnswered, SaleAnswers, ForgetAttempt
<1>10. ASSUME NEW p \in Payments, SaleUnknown(p) PROVE IInv'
  BY <1>10 DEF SaleUnknown, SaveAttempt
<1>11. ASSUME NEW p \in Payments, ChargeFailed(p) PROVE IInv'
  BY <1>11 DEF ChargeFailed, SaveAttempt
<1>12. ASSUME NEW p \in Payments, LookupAnswered(p) PROVE IInv'
  BY <1>12 DEF LookupAnswered, SaveAttempt, Resolutions
<1>13. ASSUME NEW p \in Payments, RunRefused(p) PROVE IInv'
  BY <1>13 DEF RunRefused, VoidCardSale
<1>14. ASSUME NEW p \in Payments, RunDeclined(p) PROVE IInv'
  BY <1>14 DEF RunDeclined, VoidCardSale
<1>15. ASSUME NEW p \in Payments, RunUnknown(p) PROVE IInv'
  BY <1>15 DEF RunUnknown
<1>16. ASSUME NEW p \in Payments, RunApproved(p) PROVE IInv'
  BY <1>16 DEF RunApproved, CompleteCardSale
<1>17. ASSUME NEW p \in Payments, RunForget(p) PROVE IInv'
  BY <1>17 DEF RunForget, ForgetAttempt
<1>18. ASSUME NEW p \in Payments, RunPaid(p) PROVE IInv'
  BY <1>18 DEF RunPaid, AfterApproval, PrintPapers
<1>19. ASSUME NEW p \in Payments, PickupLive(p) PROVE IInv'
  BY <1>19 DEF PickupLive, PrintPapers
<1>20. ASSUME NEW p \in Payments, PickupRecovered(p) PROVE IInv'
  BY <1>20 DEF PickupRecovered
<1>21. ASSUME NEW p \in Payments, MarkNotApproved(p) PROVE IInv'
  BY <1>21 DEF MarkNotApproved, VoidCardSale
<1>22. ASSUME NEW p \in Payments, TerminalDecides(p) PROVE IInv'
  BY <1>22 DEF TerminalDecides
<1>23. ASSUME NEW r \in Sweeps, SweepStart(r) PROVE IInv'
  BY <1>23 DEF SweepStart, BeginSweep, Unresolved
<1>24. ASSUME NEW r \in Sweeps, SweepNext(r) PROVE IInv'
  BY <1>24 DEF SweepNext, ForgetAttempt
<1>25. ASSUME NEW r \in Sweeps, SweepEnd(r) PROVE IInv'
  BY <1>25 DEF SweepEnd
<1>26. ASSUME NEW r \in Sweeps, SweepApproved(r) PROVE IInv'
  BY <1>26 DEF SweepApproved, CompleteCardSale, Resolutions
<1>27. ASSUME NEW r \in Sweeps, SweepNotCharged(r) PROVE IInv'
  BY <1>27 DEF SweepNotCharged, VoidCardSale
<1>28. ASSUME NEW r \in Sweeps, SweepUnknown(r) PROVE IInv'
  BY <1>28 DEF SweepUnknown, SaveAttempt
<1>29. ASSUME NEW r \in Sweeps, SweepPaid(r) PROVE IInv'
  <2> DEFINE p == cur[r]
  <2>1. p \in Payments /\ doc[p] # "none" /\ term[p] = "approved"
    BY <1>29 DEF SweepPaid
  <2>2. UNCHANGED <<doc, attempt, outbox, pickup, pc, outcome, inFlight, flags, term, on,
                    marked, up, provider, ready, marking, todo, cur, via>>
    BY <1>29 DEF SweepPaid
  <2>3. sweepPc' = [sweepPc EXCEPT ![r] = "paid"] /\ sweepPc[r] = "completed"
    BY <1>29 DEF SweepPaid
  <2>4. \A q \in Payments : q # p => /\ order'[q] = order[q]
                                   /\ live'[q] = live[q] /\ recovered'[q] = recovered[q]
                                   /\ slips'[q] = slips[q] /\ bons'[q] = bons[q]
    BY <1>29, <2>1 DEF SweepPaid, AfterApproval, PrintPapers
  <2>5. Fresh'
    BY <2>1, <2>2, <2>4
  <2>6. PaidWasCharged' /\ WaitingWasCharged'
    BY <2>1, <2>2, <2>4
  <2>7. SweepInProgress'
    BY <2>1, <2>2, <2>3
  <2> QED
    BY <2>2, <2>5, <2>6, <2>7
<1>30. ASSUME NEW r \in Sweeps, SweepForget(r) PROVE IInv'
  BY <1>30 DEF SweepForget, ForgetAttempt
<1>31. CASE MarkForget
  BY <1>31 DEF MarkForget, ForgetAttempt
<1>32. CASE CancelPayment
  BY <1>32 DEF CancelPayment
<1>33. CASE Crash
  BY <1>33 DEF Crash
<1>34. CASE Start
  BY <1>34 DEF Start, BeginSweep, Unresolved
<1>35. ASSUME NEW s \in Reconfig, SetProvider(s) PROVE IInv'
  BY <1>35 DEF SetProvider
<1>36. CASE UNCHANGED vars
  BY <1>36 DEF vars
<1> QED
  BY <1>1, <1>2, <1>3, <1>4, <1>5, <1>6, <1>7, <1>8, <1>9, <1>10, <1>11, <1>12, <1>13, <1>14, <1>15, <1>16, <1>17, <1>18, <1>19, <1>20, <1>21, <1>22, <1>23, <1>24, <1>25, <1>26, <1>27, <1>28, <1>29, <1>30, <1>31, <1>32, <1>33, <1>34, <1>35, <1>36 DEF Next, ChargeStep, ChargeGoesOn, SweepStep, SweepGoesOn

LEMMA Invariant == Spec => [](TypeInv /\ IInv)
<1> QED
  BY TypeInit, TypeStep, InvInit, InvStep, PTL DEF Spec

\* Whatever crashes, whoever settles: a charge that may have taken money, of
\* a document still pending, has its attempt on disk.
THEOREM ChargeAccountedAlways == Spec => []ChargeAccounted
<1> QED
  BY Invariant, PTL DEF IInv

\* A document is completed only when its card was charged.
THEOREM CompletedWasChargedAlways == Spec => []CompletedWasCharged
<1> QED
  BY Invariant, PTL DEF IInv

\* An order is paid, and its papers printed, only when the card was charged.
THEOREM PaidWasChargedAlways == Spec => []PaidWasCharged
<1> QED
  BY Invariant, PTL DEF IInv

\* The terminal never has two charges of this kiosk at once.
THEOREM OneCardAtATimeAlways == Spec => []OneCardAtATime
<1> QED
  BY Invariant, PTL DEF IInv

-----------------------------------------------------------------------------
(* With one terminal in the settings a void is certain.  With two it is not: *)
(* SetProvider may send the question to a terminal that never saw the card.  *)

OneTerminal == \A s, t \in Terminals : s = t

\* A charge and a sweep ask a terminal that is there, and a payment whose
\* charge came back as not made has no money taken.
Asked ==
    /\ \A p \in Payments : pc[p] \in {"saved", "sale", "lookup"} => provider # None
    /\ \A r \in Sweeps : sweepPc[r] = "lookup" => via[r] # None
    /\ \A p \in Payments :
          pc[p] = "back" /\ outcome[p] \in {"refused", "notsent", "declined"} =>
              term[p] \in {"none", "declined"}

VInv == Asked /\ CancelledWasNotCharged

LEMMA VoidInit == Init => VInv
  BY DEF Init, VInv, Asked, CancelledWasNotCharged

LEMMA VoidStep ==
  ASSUME OneTerminal, TypeInv, IInv, TypeInv', VInv, [Next]_vars
  PROVE  VInv'
<1> USE NoneAssumption
<1> USE DEF TypeInv, TypeOK, SweepAsks, BusyPc, BusySweep, Quiet,
            disk, flow, world, sweep, waiting,
            IInv, Fresh, BeforeFrame, OneCardAtATime,
            VInv, Asked, CancelledWasNotCharged
<1>1. ASSUME NEW p \in Payments, StartPayment(p) PROVE VInv'
  BY <1>1 DEF StartPayment
<1>2. ASSUME NEW p \in Payments, PutOrder(p) PROVE VInv'
  BY <1>2 DEF PutOrder
<1>3. ASSUME NEW p \in Payments, RefuseBasket(p) PROVE VInv'
  BY <1>3 DEF RefuseBasket
<1>4. ASSUME NEW p \in Payments, OpenCardSale(p) PROVE VInv'
  BY <1>4 DEF OpenCardSale
<1>5. ASSUME NEW p \in Payments, ChargeRefused(p) PROVE VInv'
  BY <1>5 DEF ChargeRefused
<1>6. ASSUME NEW p \in Payments, ChargeSave(p) PROVE VInv'
  BY <1>6 DEF ChargeSave, MayCharge
<1>7. ASSUME NEW p \in Payments, SendFrame(p) PROVE VInv'
  BY <1>7 DEF SendFrame
<1>8. ASSUME NEW p \in Payments, OnAnswered(p) PROVE VInv'
  BY <1>8 DEF OnAnswered
<1>9. ASSUME NEW p \in Payments, SaleAnswered(p) PROVE VInv'
  BY <1>9 DEF SaleAnswered, SaleAnswers
<1>10. ASSUME NEW p \in Payments, SaleUnknown(p) PROVE VInv'
  BY <1>10 DEF SaleUnknown
<1>11. ASSUME NEW p \in Payments, ChargeFailed(p) PROVE VInv'
  BY <1>11 DEF ChargeFailed
<1>12. ASSUME NEW p \in Payments, LookupAnswered(p) PROVE VInv'
  BY <1>12 DEF LookupAnswered, Resolutions, OneTerminal
<1>13. ASSUME NEW p \in Payments, RunRefused(p) PROVE VInv'
  BY <1>13 DEF RunRefused, VoidCardSale
<1>14. ASSUME NEW p \in Payments, RunDeclined(p) PROVE VInv'
  BY <1>14 DEF RunDeclined, VoidCardSale
<1>15. ASSUME NEW p \in Payments, RunUnknown(p) PROVE VInv'
  BY <1>15 DEF RunUnknown
<1>16. ASSUME NEW p \in Payments, RunApproved(p) PROVE VInv'
  BY <1>16 DEF RunApproved, CompleteCardSale
<1>17. ASSUME NEW p \in Payments, RunForget(p) PROVE VInv'
  BY <1>17 DEF RunForget
<1>18. ASSUME NEW p \in Payments, RunPaid(p) PROVE VInv'
  BY <1>18 DEF RunPaid, AfterApproval
<1>19. ASSUME NEW p \in Payments, PickupLive(p) PROVE VInv'
  BY <1>19 DEF PickupLive
<1>20. ASSUME NEW p \in Payments, PickupRecovered(p) PROVE VInv'
  BY <1>20 DEF PickupRecovered
<1>21. ASSUME NEW p \in Payments, MarkNotApproved(p) PROVE VInv'
  BY <1>21 DEF MarkNotApproved, VoidCardSale
<1>22. ASSUME NEW p \in Payments, TerminalDecides(p) PROVE VInv'
  BY <1>22 DEF TerminalDecides
<1>23. ASSUME NEW r \in Sweeps, SweepStart(r) PROVE VInv'
  BY <1>23 DEF SweepStart, BeginSweep
<1>24. ASSUME NEW r \in Sweeps, SweepNext(r) PROVE VInv'
  BY <1>24 DEF SweepNext
<1>25. ASSUME NEW r \in Sweeps, SweepEnd(r) PROVE VInv'
  BY <1>25 DEF SweepEnd
<1>26. ASSUME NEW r \in Sweeps, SweepApproved(r) PROVE VInv'
  BY <1>26 DEF SweepApproved, CompleteCardSale
<1>27. ASSUME NEW r \in Sweeps, SweepNotCharged(r) PROVE VInv'
  BY <1>27 DEF SweepNotCharged, VoidCardSale, Resolutions, OneTerminal
<1>28. ASSUME NEW r \in Sweeps, SweepUnknown(r) PROVE VInv'
  BY <1>28 DEF SweepUnknown
<1>29. ASSUME NEW r \in Sweeps, SweepPaid(r) PROVE VInv'
  BY <1>29 DEF SweepPaid, AfterApproval
<1>30. ASSUME NEW r \in Sweeps, SweepForget(r) PROVE VInv'
  BY <1>30 DEF SweepForget
<1>31. CASE MarkForget
  BY <1>31 DEF MarkForget
<1>32. CASE CancelPayment
  BY <1>32 DEF CancelPayment
<1>33. CASE Crash
  BY <1>33 DEF Crash
<1>34. CASE Start
  BY <1>34 DEF Start, BeginSweep
<1>35. ASSUME NEW s \in Reconfig, SetProvider(s) PROVE VInv'
  BY <1>35 DEF SetProvider
<1>36. CASE UNCHANGED vars
  BY <1>36 DEF vars
<1> QED
  BY <1>1, <1>2, <1>3, <1>4, <1>5, <1>6, <1>7, <1>8, <1>9, <1>10, <1>11, <1>12, <1>13, <1>14, <1>15, <1>16, <1>17, <1>18, <1>19, <1>20, <1>21, <1>22, <1>23, <1>24, <1>25, <1>26, <1>27, <1>28, <1>29, <1>30, <1>31, <1>32, <1>33, <1>34, <1>35, <1>36 DEF Next, ChargeStep, ChargeGoesOn, SweepStep, SweepGoesOn

\* With one terminal, a document is cancelled only when its card was not
\* charged and will not be, unless a manager took it on themself.
THEOREM CancelledWasNotChargedAlways ==
  ASSUME OneTerminal PROVE Spec => []CancelledWasNotCharged
<1>1. TypeInv /\ IInv /\ TypeInv' /\ VInv /\ [Next]_vars => VInv'
  BY VoidStep
<1> QED
  BY <1>1, VoidInit, Invariant, PTL DEF Spec, VInv

-----------------------------------------------------------------------------
(* What is settled stays settled. *)

LEMMA SettledStep ==
  ASSUME TypeInv, IInv, [Next]_vars
  PROVE  \A q \in Payments :
            /\ doc[q] \in {"completed", "cancelled"} => doc'[q] = doc[q]
            /\ order[q] = "paid" => order'[q] = "paid"
<1> DEFINE Stays(q) ==
        /\ doc[q] \in {"completed", "cancelled"} => doc'[q] = doc[q]
        /\ order[q] = "paid" => order'[q] = "paid"
<1> SUFFICES ASSUME NEW q \in Payments PROVE Stays(q)
  OBVIOUS
<1> USE DEF TypeInv, TypeOK, SweepAsks, disk, flow, world, sweep, waiting, IInv, Fresh
<1>1. ASSUME NEW p \in Payments, StartPayment(p) PROVE Stays(q)
  BY <1>1 DEF StartPayment
<1>2. ASSUME NEW p \in Payments, PutOrder(p) PROVE Stays(q)
  BY <1>2 DEF PutOrder
<1>3. ASSUME NEW p \in Payments, RefuseBasket(p) PROVE Stays(q)
  BY <1>3 DEF RefuseBasket
<1>4. ASSUME NEW p \in Payments, OpenCardSale(p) PROVE Stays(q)
  BY <1>4 DEF OpenCardSale
<1>5. ASSUME NEW p \in Payments, ChargeRefused(p) PROVE Stays(q)
  BY <1>5 DEF ChargeRefused
<1>6. ASSUME NEW p \in Payments, ChargeSave(p) PROVE Stays(q)
  BY <1>6 DEF ChargeSave
<1>7. ASSUME NEW p \in Payments, SendFrame(p) PROVE Stays(q)
  BY <1>7 DEF SendFrame
<1>8. ASSUME NEW p \in Payments, OnAnswered(p) PROVE Stays(q)
  BY <1>8 DEF OnAnswered
<1>9. ASSUME NEW p \in Payments, SaleAnswered(p) PROVE Stays(q)
  BY <1>9 DEF SaleAnswered
<1>10. ASSUME NEW p \in Payments, SaleUnknown(p) PROVE Stays(q)
  BY <1>10 DEF SaleUnknown
<1>11. ASSUME NEW p \in Payments, ChargeFailed(p) PROVE Stays(q)
  BY <1>11 DEF ChargeFailed
<1>12. ASSUME NEW p \in Payments, LookupAnswered(p) PROVE Stays(q)
  BY <1>12 DEF LookupAnswered
<1>13. ASSUME NEW p \in Payments, RunRefused(p) PROVE Stays(q)
  BY <1>13 DEF RunRefused, VoidCardSale
<1>14. ASSUME NEW p \in Payments, RunDeclined(p) PROVE Stays(q)
  BY <1>14 DEF RunDeclined, VoidCardSale
<1>15. ASSUME NEW p \in Payments, RunUnknown(p) PROVE Stays(q)
  BY <1>15 DEF RunUnknown
<1>16. ASSUME NEW p \in Payments, RunApproved(p) PROVE Stays(q)
  BY <1>16 DEF RunApproved, CompleteCardSale
<1>17. ASSUME NEW p \in Payments, RunForget(p) PROVE Stays(q)
  BY <1>17 DEF RunForget
<1>18. ASSUME NEW p \in Payments, RunPaid(p) PROVE Stays(q)
  BY <1>18 DEF RunPaid, AfterApproval
<1>19. ASSUME NEW p \in Payments, PickupLive(p) PROVE Stays(q)
  BY <1>19 DEF PickupLive
<1>20. ASSUME NEW p \in Payments, PickupRecovered(p) PROVE Stays(q)
  BY <1>20 DEF PickupRecovered
<1>21. ASSUME NEW p \in Payments, MarkNotApproved(p) PROVE Stays(q)
  BY <1>21 DEF MarkNotApproved, VoidCardSale
<1>22. ASSUME NEW p \in Payments, TerminalDecides(p) PROVE Stays(q)
  BY <1>22 DEF TerminalDecides
<1>23. ASSUME NEW r \in Sweeps, SweepStart(r) PROVE Stays(q)
  BY <1>23 DEF SweepStart
<1>24. ASSUME NEW r \in Sweeps, SweepNext(r) PROVE Stays(q)
  BY <1>24 DEF SweepNext
<1>25. ASSUME NEW r \in Sweeps, SweepEnd(r) PROVE Stays(q)
  BY <1>25 DEF SweepEnd
<1>26. ASSUME NEW r \in Sweeps, SweepApproved(r) PROVE Stays(q)
  BY <1>26 DEF SweepApproved, CompleteCardSale
<1>27. ASSUME NEW r \in Sweeps, SweepNotCharged(r) PROVE Stays(q)
  BY <1>27 DEF SweepNotCharged, VoidCardSale
<1>28. ASSUME NEW r \in Sweeps, SweepUnknown(r) PROVE Stays(q)
  BY <1>28 DEF SweepUnknown
<1>29. ASSUME NEW r \in Sweeps, SweepPaid(r) PROVE Stays(q)
  BY <1>29 DEF SweepPaid, AfterApproval
<1>30. ASSUME NEW r \in Sweeps, SweepForget(r) PROVE Stays(q)
  BY <1>30 DEF SweepForget
<1>31. CASE MarkForget
  BY <1>31 DEF MarkForget
<1>32. CASE CancelPayment
  BY <1>32 DEF CancelPayment
<1>33. CASE Crash
  BY <1>33 DEF Crash
<1>34. CASE Start
  BY <1>34 DEF Start
<1>35. ASSUME NEW s \in Reconfig, SetProvider(s) PROVE Stays(q)
  BY <1>35 DEF SetProvider
<1>36. CASE UNCHANGED vars
  BY <1>36 DEF vars
<1> QED
  BY <1>1, <1>2, <1>3, <1>4, <1>5, <1>6, <1>7, <1>8, <1>9, <1>10, <1>11, <1>12, <1>13, <1>14, <1>15, <1>16, <1>17, <1>18, <1>19, <1>20, <1>21, <1>22, <1>23, <1>24, <1>25, <1>26, <1>27, <1>28, <1>29, <1>30, <1>31, <1>32, <1>33, <1>34, <1>35, <1>36 DEF Next, ChargeStep, ChargeGoesOn, SweepStep, SweepGoesOn

\* A completed or cancelled document stays so, and a paid order stays paid: the
\* writes of the ledger begin at a pending document, and a document or an order
\* is made before its charge begins.
THEOREM SettledStays == Spec => SettledForGood
<1> DEFINE A == \A p \in Payments :
                  /\ doc[p] \in {"completed", "cancelled"} => doc'[p] = doc[p]
                  /\ order[p] = "paid" => order'[p] = "paid"
<1>1. TypeInv /\ IInv /\ [Next]_vars => [A]_vars
  BY SettledStep
<1> HIDE DEF A
<1>2. Spec => [][A]_vars
  BY <1>1, Invariant, PTL DEF Spec
<1> QED BY <1>2 DEF A, SettledForGood

-----------------------------------------------------------------------------
(* The card lock: from the check in charge() to the frame nobody else runs. *)

\* A payment in the middle of a synchronous run is alone in the process, and
\* under the lock the attempt it saved is the only one.
Alone ==
    \A p \in Payments :
        pc[p] \in BusyPc =>
            /\ up
            /\ marking = None
            /\ \A q \in Payments : pc[q] \in BusyPc => q = p
            /\ \A r \in Sweeps : sweepPc[r] \notin BusySweep

OnlyAttempt ==
    \A p \in Payments : pc[p] = "saved" => \A q \in Payments : attempt[q] # "none" <=> q = p

LInv == Alone /\ OnlyAttempt

LEMMA LockInit == Init => LInv
  BY DEF Init, LInv, Alone, OnlyAttempt, BusyPc

LEMMA LockStep ==
  ASSUME Lock, TypeInv, IInv, TypeInv', LInv, [Next]_vars
  PROVE  LInv'
<1> USE DEF TypeInv, TypeOK, SweepAsks, BusyPc, BusySweep, Quiet, Unresolved,
            disk, flow, world, sweep, waiting, LInv, Alone, OnlyAttempt
<1>1. ASSUME NEW p \in Payments, StartPayment(p) PROVE LInv'
  BY <1>1 DEF StartPayment
<1>2. ASSUME NEW p \in Payments, PutOrder(p) PROVE LInv'
  BY <1>2 DEF PutOrder
<1>3. ASSUME NEW p \in Payments, RefuseBasket(p) PROVE LInv'
  BY <1>3 DEF RefuseBasket
<1>4. ASSUME NEW p \in Payments, OpenCardSale(p) PROVE LInv'
  BY <1>4 DEF OpenCardSale
<1>5. ASSUME NEW p \in Payments, ChargeRefused(p) PROVE LInv'
  BY <1>5 DEF ChargeRefused
<1>6. ASSUME NEW p \in Payments, ChargeSave(p) PROVE LInv'
  BY <1>6 DEF ChargeSave, SaveAttempt, MayCharge
<1>7. ASSUME NEW p \in Payments, SendFrame(p) PROVE LInv'
  BY <1>7 DEF SendFrame
<1>8. ASSUME NEW p \in Payments, OnAnswered(p) PROVE LInv'
  BY <1>8 DEF OnAnswered
<1>9. ASSUME NEW p \in Payments, SaleAnswered(p) PROVE LInv'
  BY <1>9 DEF SaleAnswered, ForgetAttempt
<1>10. ASSUME NEW p \in Payments, SaleUnknown(p) PROVE LInv'
  BY <1>10 DEF SaleUnknown, SaveAttempt
<1>11. ASSUME NEW p \in Payments, ChargeFailed(p) PROVE LInv'
  BY <1>11 DEF ChargeFailed, SaveAttempt
<1>12. ASSUME NEW p \in Payments, LookupAnswered(p) PROVE LInv'
  BY <1>12 DEF LookupAnswered, SaveAttempt
<1>13. ASSUME NEW p \in Payments, RunRefused(p) PROVE LInv'
  BY <1>13 DEF RunRefused
<1>14. ASSUME NEW p \in Payments, RunDeclined(p) PROVE LInv'
  BY <1>14 DEF RunDeclined
<1>15. ASSUME NEW p \in Payments, RunUnknown(p) PROVE LInv'
  BY <1>15 DEF RunUnknown
<1>16. ASSUME NEW p \in Payments, RunApproved(p) PROVE LInv'
  BY <1>16 DEF RunApproved
<1>17. ASSUME NEW p \in Payments, RunForget(p) PROVE LInv'
  BY <1>17 DEF RunForget, ForgetAttempt
<1>18. ASSUME NEW p \in Payments, RunPaid(p) PROVE LInv'
  BY <1>18 DEF RunPaid
<1>19. ASSUME NEW p \in Payments, PickupLive(p) PROVE LInv'
  BY <1>19 DEF PickupLive
<1>20. ASSUME NEW p \in Payments, PickupRecovered(p) PROVE LInv'
  BY <1>20 DEF PickupRecovered
<1>21. ASSUME NEW p \in Payments, MarkNotApproved(p) PROVE LInv'
  BY <1>21 DEF MarkNotApproved
<1>22. ASSUME NEW p \in Payments, TerminalDecides(p) PROVE LInv'
  BY <1>22 DEF TerminalDecides
<1>23. ASSUME NEW r \in Sweeps, SweepStart(r) PROVE LInv'
  BY <1>23 DEF SweepStart, BeginSweep
<1>24. ASSUME NEW r \in Sweeps, SweepNext(r) PROVE LInv'
  BY <1>24 DEF SweepNext, ForgetAttempt
<1>25. ASSUME NEW r \in Sweeps, SweepEnd(r) PROVE LInv'
  BY <1>25 DEF SweepEnd
<1>26. ASSUME NEW r \in Sweeps, SweepApproved(r) PROVE LInv'
  BY <1>26 DEF SweepApproved
<1>27. ASSUME NEW r \in Sweeps, SweepNotCharged(r) PROVE LInv'
  BY <1>27 DEF SweepNotCharged
<1>28. ASSUME NEW r \in Sweeps, SweepUnknown(r) PROVE LInv'
  BY <1>28 DEF SweepUnknown, SaveAttempt
<1>29. ASSUME NEW r \in Sweeps, SweepPaid(r) PROVE LInv'
  BY <1>29 DEF SweepPaid
<1>30. ASSUME NEW r \in Sweeps, SweepForget(r) PROVE LInv'
  BY <1>30 DEF SweepForget, ForgetAttempt
<1>31. CASE MarkForget
  BY <1>31 DEF MarkForget, ForgetAttempt
<1>32. CASE CancelPayment
  BY <1>32 DEF CancelPayment
<1>33. CASE Crash
  BY <1>33 DEF Crash
<1>34. CASE Start
  BY <1>34 DEF Start, BeginSweep
<1>35. ASSUME NEW s \in Reconfig, SetProvider(s) PROVE LInv'
  BY <1>35 DEF SetProvider
<1>36. CASE UNCHANGED vars
  BY <1>36 DEF vars
<1> QED
  BY <1>1, <1>2, <1>3, <1>4, <1>5, <1>6, <1>7, <1>8, <1>9, <1>10, <1>11, <1>12, <1>13, <1>14, <1>15, <1>16, <1>17, <1>18, <1>19, <1>20, <1>21, <1>22, <1>23, <1>24, <1>25, <1>26, <1>27, <1>28, <1>29, <1>30, <1>31, <1>32, <1>33, <1>34, <1>35, <1>36 DEF Next, ChargeStep, ChargeGoesOn, SweepStep, SweepGoesOn

LEMMA FrameStep ==
  ASSUME TypeInv, LInv, [Next]_vars
  PROVE  \A q \in Payments : on'[q] # on[q] => Unresolved' = {q}
<1> SUFFICES ASSUME NEW q \in Payments, on'[q] # on[q] PROVE Unresolved' = {q}
  OBVIOUS
<1>1. ASSUME NEW p \in Payments, ChargeGoesOn(p), ~SendFrame(p) PROVE on' = on
  BY <1>1 DEF ChargeGoesOn, PutOrder, RefuseBasket, OpenCardSale, ChargeRefused, ChargeSave,
              SaleAnswered, SaleUnknown, ChargeFailed, LookupAnswered, RunRefused,
              RunDeclined, RunUnknown, RunApproved, RunForget, RunPaid, world
<1>2. ASSUME NEW p \in Payments,
             StartPayment(p) \/ OnAnswered(p) \/ PickupLive(p) \/ PickupRecovered(p)
             \/ MarkNotApproved(p) \/ TerminalDecides(p)
      PROVE  on' = on
  BY <1>2 DEF StartPayment, OnAnswered, PickupLive, PickupRecovered, MarkNotApproved,
              TerminalDecides, world
<1>3. ASSUME NEW r \in Sweeps, SweepStep(r) PROVE on' = on
  BY <1>3 DEF SweepStep, SweepGoesOn, SweepStart, SweepNext, SweepEnd, SweepApproved,
              SweepNotCharged, SweepUnknown, SweepPaid, SweepForget, world
<1>4. ASSUME NEW s \in Reconfig, SetProvider(s) PROVE on' = on
  BY <1>4 DEF SetProvider, world
<1>5. ASSUME MarkForget \/ CancelPayment \/ Crash \/ Start \/ UNCHANGED vars
      PROVE  on' = on
  BY <1>5 DEF MarkForget, CancelPayment, Crash, Start, vars, world
<1>6. PICK p \in Payments : SendFrame(p)
  BY <1>1, <1>2, <1>3, <1>4, <1>5 DEF Next, ChargeStep
<1>7. p = q /\ pc[q] = "saved" /\ attempt' = attempt
  BY <1>6 DEF SendFrame, disk, TypeInv, TypeOK
<1>8. \A w \in Payments : attempt[w] # "none" <=> w = q
  BY <1>7 DEF LInv, OnlyAttempt
<1> QED
  BY <1>7, <1>8 DEF Unresolved

\* With the card lock on, a frame leaves only over its own attempt.
THEOREM NoFrameUnderTheLock == ASSUME Lock PROVE Spec => NoFrameWhileUnresolved
<1>1. TypeInv /\ IInv /\ TypeInv' /\ LInv /\ [Next]_vars => LInv'
  BY LockStep
<1> DEFINE A == \A p \in Payments : on'[p] # on[p] => Unresolved' = {p}
<1>2. TypeInv /\ LInv /\ [Next]_vars => [A]_vars
  BY FrameStep
<1> HIDE DEF A
<1>3. Spec => [][A]_vars
  BY <1>1, <1>2, LockInit, Invariant, PTL DEF Spec
<1> QED BY <1>3 DEF A, NoFrameWhileUnresolved
=============================================================================
