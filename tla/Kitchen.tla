------------------------------ MODULE Kitchen ------------------------------
(***************************************************************************)
(* One kitchen ticket from the till that sold it to paper: the durable     *)
(* queue (core/kitchen/queue.ts, main/kitchen/kitchenService.ts) of that   *)
(* till and of the print server, the LAN between them, and the cloud's     *)
(* relay (server/app/services/printers.py).                                *)
(*                                                                         *)
(* A ticket goes over the LAN first; when the server is not there, to the  *)
(* printer itself where the till reaches it, and else to the cloud, always *)
(* by one id.  Every call may not arrive, or arrive with its answer lost;  *)
(* a process may stop between any two commits.  Backoffs and leases are    *)
(* choices: what is due may wait.                                          *)
(*                                                                         *)
(* The server stays the server: takenBackAsHost, formerHostVerdict and the *)
(* cloud's take_over_stale_jobs are not modelled, nor are tickets held for *)
(* the kitchen screens, lanes of several tickets and redirects.            *)
(***************************************************************************)
EXTENDS Naturals

CONSTANTS
    Reach,      \* the till reaches the printer itself
    MaxRetries  \* bound: how often people send a ticket again

ASSUME ReachAssumption == Reach \in BOOLEAN
ASSUME RetriesAssumption == MaxRetries \in Nat

VARIABLES
    row,      \* kitchen_jobs: a machine's row of the ticket
    cloud,    \* kitchen_print_jobs: the cloud's row
    up,       \* the machine's process runs
    step,     \* where printOne stands between two awaits
    mayHave,  \* handOver's hostMayHaveIt
    poll,     \* pollRelayed: the row it read before it asked
    paper,    \* a printer put it on paper
    fresh,    \* copies by each machine without "may have been printed already"
    retries,  \* how often a person sent it again
    wiped     \* the server lost its queue (replaced, reset)

vars == <<row, cloud, up, step, mayHave, poll, paper, fresh, retries, wiped>>

Machines == {"till", "server"}

Row == [state : {"none", "pending", "printing", "sending", "relayed", "done", "failed"},
        via : {"none", "lan", "cloud"}, relay : BOOLEAN,
        ack : {"none", "printing", "done", "failed"},
        unsure : BOOLEAN, marked : BOOLEAN]

NoRow == [state |-> "none", via |-> "none", relay |-> FALSE, ack |-> "none",
          unsure |-> FALSE, marked |-> FALSE]

NewRow(mark, relay) == [NoRow EXCEPT !.state = "pending", !.marked = mark, !.relay = relay]

NoPoll == [on |-> FALSE, row |-> NoRow]

TypeOK ==
    /\ row \in [Machines -> Row]
    /\ cloud \in [status : {"none", "pending", "printing", "done", "failed", "cancelled", "expired"},
                  taken : BOOLEAN, marked : BOOLEAN, unsure : BOOLEAN]
    /\ up \in [Machines -> BOOLEAN]
    /\ step \in [Machines -> {"none", "lan", "cloud", "print", "write",
                              "printed", "lanTaken", "cloudTaken"}]
    /\ mayHave \in BOOLEAN
    /\ poll \in [on : BOOLEAN, row : Row]
    /\ paper \in BOOLEAN
    /\ fresh \in [Machines -> Nat]
    /\ retries \in 0 .. MaxRetries
    /\ wiped \in BOOLEAN

Init ==
    /\ row = [m \in Machines |-> NoRow]
    /\ cloud = [status |-> "none", taken |-> FALSE, marked |-> FALSE, unsure |-> FALSE]
    /\ up = [m \in Machines |-> TRUE]
    /\ step = [m \in Machines |-> "none"]
    /\ mayHave = FALSE
    /\ poll = NoPoll
    /\ paper = FALSE
    /\ fresh = [m \in Machines |-> 0]
    /\ retries = 0
    /\ wiped = FALSE

-----------------------------------------------------------------------------
(* The queue of a machine: printOne. *)

Goto(m, s) == step' = [step EXCEPT ![m] = s]

Enqueue ==
    /\ up["till"] /\ row["till"] = NoRow
    /\ row' = [row EXCEPT !["till"] = NewRow(FALSE, FALSE)]
    /\ UNCHANGED <<cloud, up, step, mayHave, poll, paper, fresh, retries, wiped>>

Claim(m) ==
    /\ up[m] /\ step[m] = "none" /\ row[m].state = "pending"
    /\ row' = [row EXCEPT ![m].state = "printing"]
    /\ Goto(m, IF m = "till" THEN "lan" ELSE "print")
    /\ UNCHANGED <<cloud, up, mayHave, poll, paper, fresh, retries, wiped>>

\* A try failed and nothing reached paper: back in the queue, the cloud told why.
Retryable(r) == [r EXCEPT !.state = "pending", !.ack = IF r.relay /\ @ = "none" THEN "printing" ELSE @]

\* Nowhere to send it, or it may be on paper: a person's.
Refused(r, unsure) ==
    [r EXCEPT !.state = "failed", !.unsure = unsure, !.ack = IF r.relay THEN "failed" ELSE @]

Printed(r) == [r EXCEPT !.state = "done", !.unsure = FALSE, !.ack = IF r.relay THEN "done" ELSE @]

\* The server's intake: by its id a ticket is queued once.
AcceptLan ==
    row' = [row EXCEPT !["server"] =
              IF @.state = "none" THEN NewRow(row["till"].marked, FALSE) ELSE @]

\* The next way after the LAN: the printer itself, unless the server may have
\* the ticket; else the cloud.
NextWay(may) == IF Reach /\ ~may THEN "print" ELSE "cloud"

HandOver ==
    /\ up["till"] /\ step["till"] = "lan"
    /\ \/ /\ up["server"] /\ AcceptLan
          /\ \/ Goto("till", "lanTaken") /\ mayHave' = mayHave
             \/ Goto("till", NextWay(TRUE)) /\ mayHave' = TRUE
       \/ /\ row' = row
          /\ \E lost \in BOOLEAN : Goto("till", NextWay(lost)) /\ mayHave' = lost
    /\ UNCHANGED <<cloud, up, poll, paper, fresh, retries, wiped>>

\* The cloud's row, made once by its id.
Relay(mark) ==
    cloud' = IF cloud.status = "none"
             THEN [cloud EXCEPT !.status = "pending", !.marked = mark] ELSE cloud

Upload ==
    /\ up["till"] /\ step["till"] = "cloud"
    /\ \/ /\ Relay(row["till"].marked \/ mayHave)
          /\ \/ Goto("till", "cloudTaken") /\ row' = row
             \/ Goto("till", "none") /\ row' = [row EXCEPT !["till"] = Retryable(@)]
       \/ /\ cloud' = cloud /\ Goto("till", "none")
          /\ \/ row' = [row EXCEPT !["till"] = Retryable(@)]
             \/ cloud.status = "none" /\ row' = [row EXCEPT !["till"] = Refused(@, FALSE)]
    /\ mayHave' = FALSE
    /\ UNCHANGED <<up, poll, paper, fresh, retries, wiped>>

\* Mutant: handed over taken for printed.
RelayedIsPrinted ==
    /\ up["till"] /\ step["till"] \in {"lanTaken", "cloudTaken"}
    /\ row' = [row EXCEPT !["till"].state = "done"]
    /\ Goto("till", "none")
    /\ UNCHANGED <<cloud, up, mayHave, poll, paper, fresh, retries, wiped>>

\* Handed over: asked about from now on.
Relayed ==
    /\ up["till"] /\ step["till"] \in {"lanTaken", "cloudTaken"}
    /\ row' = [row EXCEPT !["till"].state = "relayed",
                          !["till"].via = IF step["till"] = "lanTaken" THEN "lan" ELSE "cloud"]
    /\ Goto("till", "none")
    /\ UNCHANGED <<cloud, up, mayHave, poll, paper, fresh, retries, wiped>>

\* Nothing printed here: the till goes on to the cloud, the server tries again.
NotPrinted(m) ==
    IF m = "till" THEN row' = row /\ Goto(m, "cloud")
    ELSE row' = [row EXCEPT ![m] = Retryable(@)] /\ Goto(m, "none")

\* A printer that answers it is ready: SENDING on the disk before the first byte.
OpenPrinter(m) ==
    /\ up[m] /\ step[m] = "print"
    /\ \/ row' = [row EXCEPT ![m].state = "sending"] /\ Goto(m, "write")
       \/ NotPrinted(m)
    /\ UNCHANGED <<cloud, up, mayHave, poll, paper, fresh, retries, wiped>>

OneMore(m) ==
    /\ paper' = TRUE
    /\ fresh' = IF row[m].marked THEN fresh ELSE [fresh EXCEPT ![m] = @ + 1]

\* All of it, none of it, or cut short.
Write(m) ==
    /\ up[m] /\ step[m] = "write"
    /\ \/ OneMore(m) /\ row' = row /\ Goto(m, "printed")
       \/ NotPrinted(m) /\ UNCHANGED <<paper, fresh>>
       \/ /\ OneMore(m) \/ UNCHANGED <<paper, fresh>>
          /\ row' = [row EXCEPT ![m] = Refused(@, TRUE)] /\ Goto(m, "none")
    /\ UNCHANGED <<cloud, up, mayHave, poll, retries, wiped>>

PrintDone(m) ==
    /\ up[m] /\ step[m] = "printed"
    /\ row' = [row EXCEPT ![m] = Printed(@)]
    /\ Goto(m, "none")
    /\ UNCHANGED <<cloud, up, mayHave, poll, paper, fresh, retries, wiped>>

-----------------------------------------------------------------------------
(* What became of it: pollRelayed. *)

PollBegin ==
    /\ up["till"] /\ ~poll.on /\ row["till"].state = "relayed"
    /\ poll' = [on |-> TRUE, row |-> row["till"]]
    /\ UNCHANGED <<row, cloud, up, step, mayHave, paper, fresh, retries, wiped>>

\* The server's word (lanStatusOf) and the cloud's (job_statuses); silent when
\* it could not be asked.
LanStatus ==
    CASE row["server"].state = "none" -> "unknown"
      [] row["server"].state \in {"done", "failed"} -> row["server"].state
      [] OTHER -> "open"
CloudStatus ==
    CASE cloud.status \in {"done", "failed", "expired"} -> cloud.status
      [] cloud.status = "cancelled" -> "failed"
      [] OTHER -> "open"

\* Mutant: a server that does not have it is a server that has not printed it yet.
RelayStatusWaits(r, status, unsure) ==
    CASE status = "done" -> Printed(r)
      [] status \in {"failed", "expired"} -> Refused(r, unsure)
      [] OTHER -> r

\* What the sender makes of it; unknown: it goes again, marked.
RelayStatus(r, status, unsure) ==
    CASE status = "done" -> Printed(r)
      [] status \in {"failed", "expired"} -> Refused(r, unsure)
      [] status = "unknown" -> [r EXCEPT !.state = "pending", !.via = "none", !.marked = TRUE]
      [] OTHER -> r

\* What is written is the row as it was read before the call, with the answer;
\* as it was, when there is none.
PollNoAnswer ==
    /\ up["till"] /\ poll.on
    /\ row' = [row EXCEPT !["till"] = poll.row]
    /\ poll' = NoPoll
    /\ UNCHANGED <<cloud, up, step, mayHave, paper, fresh, retries, wiped>>

PollAnswer ==
    /\ up["till"] /\ poll.on
    /\ \/ /\ poll.row.via = "lan" /\ up["server"]
          /\ row' = [row EXCEPT !["till"] = RelayStatus(poll.row, LanStatus, row["server"].unsure)]
       \/ /\ poll.row.via = "cloud"
          /\ row' = [row EXCEPT !["till"] = RelayStatus(poll.row, CloudStatus, cloud.unsure)]
    /\ poll' = NoPoll
    /\ UNCHANGED <<cloud, up, step, mayHave, paper, fresh, retries, wiped>>

-----------------------------------------------------------------------------
(* The relay's other side: the server takes the cloud's job and answers it. *)

\* Mutant: the answer to a job already there is its state, finished or not.
RelayedAgainOpen(r) == IF r.ack = "none" THEN [r EXCEPT !.relay = TRUE, !.ack = r.state] ELSE r

\* A job the server already has is tied to the cloud's; a finished one is answered again.
RelayedAgain(r) ==
    IF r.state \in {"done", "failed"}
    THEN IF r.ack = "none" THEN [r EXCEPT !.relay = TRUE, !.ack = r.state] ELSE r
    ELSE [r EXCEPT !.relay = TRUE]

\* Handed out, and again after its lease.
HandOut ==
    /\ cloud.status \in {"pending", "printing"}
    /\ up["server"]
    /\ cloud' = [cloud EXCEPT !.status = "printing", !.taken = TRUE]
    /\ \/ row' = [row EXCEPT !["server"] =
                    IF @.state = "none" THEN NewRow(cloud.marked, TRUE) ELSE RelayedAgain(@)]
       \/ row' = row
    /\ UNCHANGED <<up, step, mayHave, poll, paper, fresh, retries, wiped>>

\* An answer beats the expiry; the first one stays; "printing" is only a note.
SendAck ==
    /\ up["server"] /\ row["server"].relay /\ row["server"].ack # "none"
    /\ cloud' = IF row["server"].ack = "printing" \/ cloud.status \in {"done", "failed", "cancelled"} THEN cloud
                ELSE [cloud EXCEPT !.status = row["server"].ack, !.unsure = row["server"].unsure]
    /\ \E heard \in BOOLEAN :
         row' = [row EXCEPT !["server"].ack = IF heard THEN "none" ELSE @]
    /\ UNCHANGED <<up, step, mayHave, poll, paper, fresh, retries, wiped>>

Expire ==
    /\ cloud.status \in {"pending", "printing"}
    /\ cloud' = [cloud EXCEPT !.status = "expired"]
    /\ UNCHANGED <<row, up, step, mayHave, poll, paper, fresh, retries, wiped>>

-----------------------------------------------------------------------------
(* People. *)

\* "Try again": marked when it may be on paper.
Retry(m) ==
    /\ up[m] /\ row[m].state = "failed" /\ retries < MaxRetries
    /\ row' = [row EXCEPT ![m].state = "pending", ![m].via = "none", ![m].unsure = FALSE,
                          ![m].marked = @ \/ row[m].unsure]
    /\ retries' = retries + 1
    /\ UNCHANGED <<cloud, up, step, mayHave, poll, paper, fresh, wiped>>

Discarded(r) ==
    [r EXCEPT !.state = "failed", !.ack = IF r.relay /\ @ = "none" THEN "failed" ELSE @]

\* "Handled": a printed or failed one only keeps the note.
Discard(m) ==
    /\ up[m] /\ row[m].state \in {"pending", "relayed"}
    /\ row' = [row EXCEPT ![m] = Discarded(@)]
    /\ UNCHANGED <<cloud, up, step, mayHave, poll, paper, fresh, retries, wiped>>

\* Taken back from the cloud while no machine took it there; the answer may be lost.
Withdraw ==
    /\ up["till"] /\ row["till"].state = "relayed" /\ row["till"].via = "cloud"
    /\ \/ cloud.status \in {"pending", "expired"} /\ ~cloud.taken
       \/ cloud.status = "cancelled"
    /\ cloud' = IF cloud.status = "pending" THEN [cloud EXCEPT !.status = "cancelled"] ELSE cloud
    /\ \/ row' = [row EXCEPT !["till"] = Discarded(@)]
       \/ row' = row
    /\ UNCHANGED <<up, step, mayHave, poll, paper, fresh, retries, wiped>>

-----------------------------------------------------------------------------
(* A machine stops and starts; the server is replaced. *)

Crash(m) ==
    /\ up[m]
    /\ up' = [up EXCEPT ![m] = FALSE]
    /\ Goto(m, "none")
    /\ mayHave' = (mayHave /\ m # "till")
    /\ poll' = IF m = "till" THEN NoPoll ELSE poll
    /\ UNCHANGED <<row, cloud, paper, fresh, retries, wiped>>

\* Mutant: every ticket in flight goes again.
RecoveredAgain(r) ==
    IF r.state \in {"printing", "sending"} THEN [r EXCEPT !.state = "pending"] ELSE r

\* Nothing went out of a claimed one; one whose bytes were going out is uncertain.
Recovered(r) ==
    CASE r.state = "printing" -> [r EXCEPT !.state = "pending"]
      [] r.state = "sending" -> [r EXCEPT !.state = "failed", !.unsure = TRUE]
      [] OTHER -> r

Start(m) ==
    /\ ~up[m]
    /\ up' = [up EXCEPT ![m] = TRUE]
    /\ row' = [row EXCEPT ![m] = Recovered(@)]
    /\ UNCHANGED <<cloud, step, mayHave, poll, paper, fresh, retries, wiped>>

Wipe ==
    /\ ~up["server"] /\ ~wiped
    /\ wiped' = TRUE
    /\ row' = [row EXCEPT !["server"] = NoRow]
    /\ UNCHANGED <<cloud, up, step, mayHave, poll, paper, fresh, retries>>

Worker(m) == Claim(m) \/ OpenPrinter(m) \/ Write(m) \/ PrintDone(m)

Next ==
    \/ Enqueue \/ HandOver \/ Upload \/ Relayed \/ PollBegin \/ PollNoAnswer \/ PollAnswer
    \/ HandOut \/ SendAck \/ Expire \/ Withdraw \/ Wipe
    \/ \E m \in Machines : Worker(m) \/ Retry(m) \/ Discard(m) \/ Crash(m) \/ Start(m)

Spec == Init /\ [][Next]_vars

\* The till's queue and poll are timers of a running process, as is the queue of
\* the server: they go on.  A call made again and again is heard in the end, and
\* a printer asked again and again prints in the end.  Nothing is assumed of the
\* LAN, of crashes, or of people.
TillGoesOn ==
    Claim("till") \/ HandOver \/ Upload \/ Relayed \/ OpenPrinter("till")
      \/ Write("till") \/ PrintDone("till") \/ PollBegin

TillHeard == PollAnswer \/ (Upload /\ step'["till"] = "cloudTaken")

Fairness ==
    /\ WF_vars(TillGoesOn) /\ WF_vars(Worker("server"))
    /\ SF_vars(TillHeard)
    /\ SF_vars(HandOut /\ row'["server"].state # "none")
    /\ SF_vars(SendAck /\ row'["server"].ack = "none")
    /\ SF_vars(OpenPrinter("server") /\ step'["server"] = "write")
    /\ SF_vars(Write("server") /\ step'["server"] = "printed")

FairSpec == Spec /\ Fairness

-----------------------------------------------------------------------------
\* No bon that did not go out: the till, the server and the cloud call a ticket
\* printed only when a printer put one on paper, however the calls and answers
\* between them were lost, repeated or overtaken.
DoneIsOnPaper ==
    (\E m \in Machines : row[m].state = "done") \/ cloud.status = "done" => paper

\* No bon twice at the print server: by its id it prints one ticket as new, over
\* the LAN, through the cloud or both, across its crashes and people's retries;
\* any further copy says that it may have been printed already.  A server that
\* lost its queue cannot know.
ServerPrintsOnce == ~wiped => fresh["server"] <= 1

\* The same over all machines, which the code does not keep: a till whose LAN
\* answer was lost forgets it with the try (or its crash), and prints the ticket
\* itself when the next try does not reach the server at all.
NeverTwice == ~wiped /\ retries = 0 => fresh["till"] + fresh["server"] <= 1

\* A ticket is not left in between: when the machines stay up, one that was
\* queued ends printed or before a person, whichever calls were lost on its way.
TicketEnds ==
    <>[](\A m \in Machines : up[m]) =>
        (row["till"].state # "none" ~> row["till"].state \in {"done", "failed"})

=============================================================================
