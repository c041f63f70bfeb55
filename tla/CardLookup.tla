----------------------------- MODULE CardLookup -----------------------------
(***************************************************************************)
(* One charge between the device and its card terminal: the sale frame,    *)
(* the acknowledgement of an approval (core/terminalAck.ts) and the        *)
(* questions about a charge whose answer was lost (core/cardRecovery.ts),  *)
(* as NayaxTweezerProvider (main/payment/nayaxProvider.ts) runs them.      *)
(* What it says of a charge is what CardPay takes for granted.             *)
(*                                                                         *)
(* Every call may not reach the terminal or lose its answer, and the       *)
(* terminal moves between any two.  Of time only the pauses count, by      *)
(* which resolveAttempt measures its two "not found".  Three things are    *)
(* assumed of the terminal, as the code does: it says "approved" only of   *)
(* what it will not take back; a charge it is busy with it may not list    *)
(* yet; an approval nobody acknowledges is cancelled within the thirteen   *)
(* seconds waited for it.  A frame whose call has ended is there or lost.  *)
(***************************************************************************)
EXTENDS Naturals

CONSTANT StatusHeard  \* getInternalStatus is answered wherever a lookup was

ASSUME StatusAssumption == StatusHeard \in BOOLEAN

VARIABLES
    at,       \* where the provider stands: the call it awaits
    word,     \* what it told PayService of the charge
    round,    \* resolveAttempt's i
    first,    \* firstNotFound: the pauses up to the first "not found"
    aborted,  \* resolveAttempt sent its abort
    term,     \* the charge at the terminal
    up        \* the link to the terminal

vars == <<at, word, round, first, aborted, term, up>>

\* The pauses before each of the four lookups, together, and how far apart two
\* "not found" must be.
Waited == <<0, 2, 6, 14>>
Last == 4
Confirm == 5
NoFirst == 99  \* no "not found" yet

Busy == {"card", "auth"}
Settled == {"approved", "not_charged"}

TypeOK ==
    /\ at \in {"idle", "sale", "ack", "window", "lookup", "status", "abort", "done"}
    /\ word \in Settled \cup {"none", "unknown"}
    /\ round \in 1 .. Last
    /\ first \in {Waited[i] : i \in 1 .. Last} \cup {NoFirst}
    /\ aborted \in BOOLEAN
    /\ term \in Busy \cup {"none", "held", "approved", "declined"}
    /\ up \in BOOLEAN

\* The attempt is on the disk, nothing left yet.
Init ==
    /\ at = "idle" /\ word = "none"
    /\ round = 1 /\ first = NoFirst /\ aborted = FALSE
    /\ term = "none" /\ up = TRUE

Tell(w) == at' = "done" /\ word' = w

resolving == <<round, first, aborted>>

\* resolveAttempt begins: nothing of an earlier one is remembered.
Resolve ==
    /\ at' = "lookup" /\ word' = "none"
    /\ round' = 1 /\ first' = NoFirst /\ aborted' = FALSE

-----------------------------------------------------------------------------
(* The sale and its acknowledgement: transact. *)

\* The frame leaves, and arrives or not.
SendSale ==
    /\ at = "idle"
    /\ at' = "sale"
    /\ term' = "card" \/ term' = term
    /\ UNCHANGED <<word, resolving, up>>

\* Nothing was written: certainly not charged.
NotSent ==
    /\ at = "idle"
    /\ Tell("not_charged")
    /\ UNCHANGED <<resolving, term, up>>

\* An approval that asks for it is acknowledged before it is told.
SaleAnswered ==
    /\ at = "sale" /\ up
    /\ \/ term = "approved" /\ Tell("approved")
       \/ term = "held" /\ at' = "ack" /\ word' = word
       \/ term = "declined" /\ Tell("not_charged")
    /\ UNCHANGED <<resolving, term, up>>

\* No answer, or one that says nothing.
SaleUnknown ==
    /\ at = "sale"
    /\ Resolve
    /\ UNCHANGED <<term, up>>

\* The customer's cancel, while the answer is awaited.
CancelSale ==
    /\ at = "sale" /\ up /\ term = "card"
    /\ term' = "declined"
    /\ UNCHANGED <<at, word, resolving, up>>

\* Taken and heard: final.  Else its window is waited out.
Acknowledge ==
    /\ at = "ack"
    /\ \/ up /\ term = "held" /\ term' = "approved" /\ Tell("approved")
       \/ up /\ term = "held" /\ term' = "approved" /\ at' = "window" /\ word' = word
       \/ UNCHANGED <<term, word>> /\ at' = "window"
    /\ UNCHANGED <<resolving, up>>

WindowOver ==
    /\ at = "window" /\ term # "held"
    /\ Resolve
    /\ UNCHANGED <<term, up>>

-----------------------------------------------------------------------------
(* What became of it: resolveAttempt. *)

\* Four lookups, then it stays unknown.
NextRound ==
    IF round < Last
    THEN round' = round + 1 /\ at' = "lookup" /\ word' = word
    ELSE round' = round /\ Tell("unknown")

\* Mutant: asked again without an abort.
AskAgainUnaborted == NextRound

\* Nothing settled by this lookup: one abort, a pause, and the next.
AskAgain ==
    IF aborted THEN NextRound
    ELSE at' = "abort" /\ UNCHANGED <<round, word>>

\* What the terminal says of the charge when it is asked by its reference.
Found ==
    CASE term = "approved" -> {"approved"}
      [] term = "declined" -> {"declined", "not_found"}
      [] term = "none" -> {"not_found"}
      [] OTHER -> {"not_found", "unknown"}

Lookup ==
    /\ at = "lookup"
    /\ \/ /\ up
          /\ \/ "approved" \in Found /\ Tell("approved") /\ round' = round
             \/ "declined" \in Found /\ Tell("not_charged") /\ round' = round
             \/ "not_found" \in Found /\ at' = "status" /\ UNCHANGED <<word, round>>
             \/ "unknown" \in Found /\ AskAgain
       \/ ~up /\ AskAgain
    /\ UNCHANGED <<first, aborted, term, up>>

\* Mutant: one "not found" is enough.
ConfirmedAtOnce == TRUE

\* Said before, by an idle terminal, long enough ago.
Confirmed == first # NoFirst /\ Waited[round] - first >= Confirm

\* A status call that fails counts as "not busy".
Status ==
    /\ at = "status"
    /\ \/ term \in Busy /\ first' = first /\ AskAgain
       \/ /\ term \notin Busy \/ (~up /\ ~StatusHeard)
          /\ IF Confirmed THEN Tell("not_charged") /\ UNCHANGED <<round, first>>
             ELSE first' = (IF first = NoFirst THEN Waited[round] ELSE first) /\ AskAgain
    /\ UNCHANGED <<aborted, term, up>>

\* Only a charge that still waits for its card is aborted.
Abort ==
    /\ at = "abort"
    /\ aborted' = TRUE
    /\ term' = IF up /\ term = "card" THEN "declined" ELSE term
    /\ NextRound
    /\ UNCHANGED <<first, up>>

\* resolveOrphans: an unknown charge is asked about again.
ResolveAgain ==
    /\ at = "done" /\ word = "unknown"
    /\ Resolve
    /\ UNCHANGED <<term, up>>

\* The process stops, and is asked for what its disk holds when it starts.
Restart ==
    /\ at # "done"
    /\ Resolve
    /\ UNCHANGED <<term, up>>

-----------------------------------------------------------------------------
(* The terminal, its customer and the link. *)

Present ==
    /\ term = "card"
    /\ term' \in {"auth", "declined"}
    /\ UNCHANGED <<at, word, resolving, up>>

\* The card company's word; with acknowledgements an approval is held for one.
Authorise ==
    /\ term = "auth"
    /\ term' \in {"held", "approved", "declined"}
    /\ UNCHANGED <<at, word, resolving, up>>

AckTimer ==
    /\ term = "held"
    /\ term' = "declined"
    /\ UNCHANGED <<at, word, resolving, up>>

Link ==
    /\ up' = ~up
    /\ UNCHANGED <<at, word, resolving, term>>

Provider ==
    \/ SendSale \/ NotSent \/ SaleAnswered \/ SaleUnknown \/ Acknowledge \/ WindowOver
    \/ Lookup \/ Status \/ Abort \/ ResolveAgain

Terminal == Authorise \/ AckTimer

Next == Provider \/ CancelSale \/ Restart \/ Terminal \/ Present \/ Link

Spec == Init /\ [][Next]_vars

\* Calls end by their timeouts and an unknown charge is asked about again; the
\* card company answers and the terminal's timer runs out.  No customer need come.
Fairness == WF_vars(Provider) /\ WF_vars(Terminal)

FairSpec == Spec /\ Fairness

-----------------------------------------------------------------------------
\* What the provider says of a charge stays true, whatever was lost and whenever
\* the process stopped: "approved" of one the terminal keeps, "not charged" of
\* one that no card will pay any more.
WordIsTrue ==
    /\ word = "approved" => term = "approved"
    /\ word = "not_charged" => term \notin Busy \cup {"approved"}

\* "Not found" is believed only of an idle terminal (cardRecovery.ts:11): no
\* charge is called not charged while its card may still be on the way.
BelievedIdle == word = "not_charged" => term \notin Busy

\* Once the terminal can be reached, and the process stays up, every charge is
\* settled for certain, though no customer ever comes to the terminal.
ChargeSettled == <>[]up /\ <>[][~Restart]_vars => <>(word \in Settled)

=============================================================================
