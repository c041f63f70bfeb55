--------------------------- MODULE KitchenProofs ---------------------------
(***************************************************************************)
(* Proofs about Kitchen, for every number of retries and whether or not    *)
(* the till reaches the printer.                                           *)
(***************************************************************************)
EXTENDS Kitchen, TLAPS

-----------------------------------------------------------------------------
(* The rows the queue makes of a row are rows. *)

LEMMA NoRowIsRow == NoRow \in Row
  BY DEF Row, NoRow

LEMMA NewRows ==
    ASSUME NEW b \in BOOLEAN, NEW c \in BOOLEAN
    PROVE  NewRow(b, c) \in Row
  BY DEF Row, NoRow, NewRow

LEMMA RowsOfRows ==
    ASSUME NEW r \in Row, NEW b \in BOOLEAN, NEW s
    PROVE  /\ Retryable(r) \in Row /\ Refused(r, b) \in Row /\ Printed(r) \in Row
           /\ Discarded(r) \in Row /\ Recovered(r) \in Row
           /\ RelayedAgain(r) \in Row /\ RelayStatus(r, s, b) \in Row
<1>2. Retryable(r) \in Row /\ Refused(r, b) \in Row /\ Printed(r) \in Row
  BY DEF Row, Retryable, Refused, Printed
<1>3. Discarded(r) \in Row /\ Recovered(r) \in Row /\ RelayedAgain(r) \in Row
  BY DEF Row, Discarded, Recovered, RelayedAgain
<1>4. RelayStatus(r, s, b) \in Row
  BY <1>2 DEF Row, RelayStatus
<1>. QED
  BY <1>2, <1>3, <1>4

LEMMA RowEdits ==
    ASSUME NEW r \in Row, NEW v \in {"lan", "cloud"}
    PROVE  /\ [r EXCEPT !.state = "printing"] \in Row
           /\ [r EXCEPT !.state = "sending"] \in Row
           /\ [r EXCEPT !.state = "relayed", !.via = v] \in Row
           /\ [r EXCEPT !.state = "pending", !.via = "none", !.unsure = FALSE,
                        !.marked = @ \/ r.unsure] \in Row
           /\ r.unsure \in BOOLEAN /\ r.marked \in BOOLEAN
  BY DEF Row

\* Every variable keeps its type: a row's states, ways and answers are those of
\* the queue's record, and every step is one of printOne's.
THEOREM Typing == Spec => []TypeOK
<1>1. Init => TypeOK
  <2>. SUFFICES ASSUME Init PROVE TypeOK
    OBVIOUS
  <2>1. row \in [Machines -> Row] /\ poll \in [on : BOOLEAN, row : Row]
    BY NoRowIsRow DEF Init, NoPoll
  <2>2. cloud \in [status : {"none", "pending", "printing", "done", "failed", "cancelled", "expired"},
                  taken : BOOLEAN, marked : BOOLEAN, unsure : BOOLEAN]
    BY DEF Init
  <2>3. fresh \in [Machines -> Nat] /\ retries \in 0 .. MaxRetries
    BY RetriesAssumption DEF Init
  <2>. QED
    BY <2>1, <2>2, <2>3 DEF Init, TypeOK
<1>2. TypeOK /\ [Next]_vars => TypeOK'
  <2>. SUFFICES ASSUME TypeOK, [Next]_vars PROVE TypeOK'
    OBVIOUS
  <2>. USE NoRowIsRow DEF Machines
  <2>0. \A m \in Machines : row[m] \in Row
    BY DEF TypeOK
  <2>rows. \A m \in Machines :
             /\ Retryable(row[m]) \in Row /\ Printed(row[m]) \in Row
             /\ Refused(row[m], TRUE) \in Row /\ Refused(row[m], FALSE) \in Row
             /\ Discarded(row[m]) \in Row /\ Recovered(row[m]) \in Row
             /\ RelayedAgain(row[m]) \in Row
    BY <2>0, RowsOfRows
  <2>1. CASE Enqueue
    BY <2>1, NewRows DEF Enqueue, TypeOK
  <2>2. ASSUME NEW m \in Machines, Claim(m) PROVE TypeOK'
    <3>1. row' \in [Machines -> Row]
      BY <2>0, <2>2, RowEdits DEF Claim, TypeOK
    <3>. QED
      BY <2>2, <3>1 DEF Claim, Goto, TypeOK
  <2>3. CASE HandOver
    <3>1. row["till"].marked \in BOOLEAN
      BY <2>0, RowEdits
    <3>2. row' \in [Machines -> Row]
      BY <2>0, <2>3, <3>1, NewRows DEF HandOver, AcceptLan, TypeOK
    <3>3. mayHave' \in BOOLEAN
      BY <2>3 DEF HandOver, TypeOK
    <3>4. step' \in [Machines -> {"none", "lan", "cloud", "print", "write",
                                  "printed", "lanTaken", "cloudTaken"}]
      BY <2>3 DEF HandOver, NextWay, Goto, TypeOK
    <3>. QED
      BY <2>3, <3>2, <3>3, <3>4 DEF HandOver, TypeOK
  <2>4. CASE Upload
    <3>1. row' \in [Machines -> Row]
      BY <2>rows, <2>4 DEF Upload, TypeOK
    <3>2. row["till"].marked \in BOOLEAN
      BY <2>0, RowEdits
    <3>3. cloud' \in [status : {"none", "pending", "printing", "done", "failed", "cancelled", "expired"},
                      taken : BOOLEAN, marked : BOOLEAN, unsure : BOOLEAN]
      BY <2>4, <3>2 DEF Upload, Relay, TypeOK
    <3>. QED
      BY <2>4, <3>1, <3>3 DEF Upload, Goto, TypeOK
  <2>5. CASE Relayed
    <3>1. row' \in [Machines -> Row]
      BY <2>0, <2>5, RowEdits DEF Relayed, TypeOK
    <3>. QED
      BY <2>5, <3>1 DEF Relayed, Goto, TypeOK
  <2>6. ASSUME NEW m \in Machines, OpenPrinter(m) PROVE TypeOK'
    <3>0. [row[m] EXCEPT !.state = "sending"] \in Row
      BY <2>0, RowEdits
    <3>1. row' \in [Machines -> Row]
      BY <2>rows, <2>6, <3>0 DEF OpenPrinter, NotPrinted, TypeOK
    <3>. QED
      BY <2>6, <3>1 DEF OpenPrinter, NotPrinted, Goto, TypeOK
  <2>7. ASSUME NEW m \in Machines, Write(m) PROVE TypeOK'
    <3>1. row' \in [Machines -> Row]
      BY <2>rows, <2>7 DEF Write, NotPrinted, TypeOK
    <3>2. paper' \in BOOLEAN /\ fresh' \in [Machines -> Nat]
      <4>1. CASE OneMore(m)
        BY <4>1 DEF OneMore, TypeOK
      <4>2. CASE UNCHANGED <<paper, fresh>>
        BY <4>2 DEF TypeOK
      <4>. QED
        BY <2>7, <4>1, <4>2 DEF Write
    <3>3. PICK s \in {"printed", "cloud", "none"} : step' = [step EXCEPT ![m] = s]
      BY <2>7 DEF Write, NotPrinted, Goto
    <3>4. step' \in [Machines -> {"none", "lan", "cloud", "print", "write",
                                  "printed", "lanTaken", "cloudTaken"}]
      BY <3>3 DEF TypeOK
    <3>. QED
      BY <2>7, <3>1, <3>2, <3>4 DEF Write, TypeOK
  <2>8. ASSUME NEW m \in Machines, PrintDone(m) PROVE TypeOK'
    BY <2>rows, <2>8 DEF PrintDone, Goto, TypeOK
  <2>9. CASE PollBegin
    BY <2>9 DEF PollBegin, TypeOK
  <2>10. CASE PollNoAnswer
    BY <2>10 DEF PollNoAnswer, NoPoll, TypeOK
  <2>11. CASE PollAnswer
    <3>1. row["server"].unsure \in BOOLEAN /\ cloud.unsure \in BOOLEAN /\ poll.row \in Row
      BY <2>0, RowEdits DEF TypeOK
    <3>2. /\ RelayStatus(poll.row, LanStatus, row["server"].unsure) \in Row
          /\ RelayStatus(poll.row, CloudStatus, cloud.unsure) \in Row
      BY <3>1, RowsOfRows
    <3>3. row' \in [Machines -> Row]
      BY <2>11, <3>2 DEF PollAnswer, TypeOK
    <3>. QED
      BY <2>11, <3>3 DEF PollAnswer, NoPoll, TypeOK
  <2>12. CASE HandOut
    <3>1. cloud.marked \in BOOLEAN
      BY DEF TypeOK
    <3>2. row' \in [Machines -> Row]
      <4>1. NewRow(cloud.marked, TRUE) \in Row
        BY <3>1, NewRows
      <4>. QED
        BY <2>rows, <2>12, <4>1 DEF HandOut, TypeOK
    <3>. QED
      BY <2>12, <3>2 DEF HandOut, TypeOK
  <2>13. CASE SendAck
    <3>1. row["server"].ack \in {"none", "printing", "done", "failed"} /\ row["server"].unsure \in BOOLEAN
      BY <2>0 DEF Row
    <3>2. cloud' \in [status : {"none", "pending", "printing", "done", "failed", "cancelled", "expired"},
                      taken : BOOLEAN, marked : BOOLEAN, unsure : BOOLEAN]
      BY <2>13, <3>1 DEF SendAck, TypeOK
    <3>3. row' \in [Machines -> Row]
      <4>1. \A h \in BOOLEAN : [row["server"] EXCEPT !.ack = IF h THEN "none" ELSE @] \in Row
        BY <2>0 DEF Row
      <4>. QED
        BY <2>13, <4>1 DEF SendAck, TypeOK
    <3>. QED
      BY <2>13, <3>2, <3>3 DEF SendAck, TypeOK
  <2>14. CASE Expire
    BY <2>14 DEF Expire, TypeOK
  <2>15. ASSUME NEW m \in Machines, Retry(m) PROVE TypeOK'
    <3>1. row' \in [Machines -> Row]
      BY <2>0, <2>15, RowEdits DEF Retry, TypeOK
    <3>2. retries' \in 0 .. MaxRetries
      BY <2>15, RetriesAssumption DEF Retry, TypeOK
    <3>. QED
      BY <2>15, <3>1, <3>2 DEF Retry, TypeOK
  <2>16. ASSUME NEW m \in Machines, Discard(m) PROVE TypeOK'
    BY <2>rows, <2>16 DEF Discard, TypeOK
  <2>17. CASE Withdraw
    BY <2>rows, <2>17 DEF Withdraw, TypeOK
  <2>18. ASSUME NEW m \in Machines, Crash(m) PROVE TypeOK'
    BY <2>18 DEF Crash, Goto, NoPoll, TypeOK
  <2>19. ASSUME NEW m \in Machines, Start(m) PROVE TypeOK'
    BY <2>rows, <2>19 DEF Start, TypeOK
  <2>20. CASE Wipe
    BY <2>20 DEF Wipe, TypeOK
  <2>21. CASE UNCHANGED vars
    BY <2>21 DEF vars, TypeOK
  <2>. QED
    BY <2>1, <2>2, <2>3, <2>4, <2>5, <2>6, <2>7, <2>8, <2>9, <2>10, <2>11, <2>12, <2>13,
       <2>14, <2>15, <2>16, <2>17, <2>18, <2>19, <2>20, <2>21 DEF Next, Worker
<1>. QED
  BY <1>1, <1>2, PTL DEF Spec


-----------------------------------------------------------------------------
(* No bon that did not go out. *)

\* Until something is on paper nobody says so, in a row, an answer owed to the
\* cloud, a row read by the poll or a step about to say it.
NothingSaysDone ==
    \/ paper
    \/ /\ \A m \in Machines :
            row[m].state # "done" /\ row[m].ack # "done" /\ step[m] # "printed"
       /\ poll.row.state # "done" /\ poll.row.ack # "done"
       /\ cloud.status # "done"

NotDone(r) == r.state # "done" /\ r.ack # "done"

LEMMA NotDoneRows ==
    ASSUME NEW r \in Row, NotDone(r), NEW b \in BOOLEAN, NEW s, s # "done"
    PROVE  /\ NotDone(Retryable(r)) /\ NotDone(Refused(r, b))
           /\ NotDone(Discarded(r)) /\ NotDone(Recovered(r))
           /\ NotDone(RelayedAgain(r)) /\ NotDone(RelayStatus(r, s, b))
<1>1. NotDone(Retryable(r))
  BY DEF Row, Retryable, NotDone
<1>2. NotDone(Refused(r, b))
  BY DEF Row, Refused, NotDone
<1>3. NotDone(Discarded(r))
  BY DEF Row, Discarded, NotDone
<1>4. NotDone(Recovered(r))
  BY DEF Row, Recovered, NotDone
<1>5. NotDone(RelayedAgain(r))
  BY DEF Row, RelayedAgain, NotDone
<1>6. NotDone(RelayStatus(r, s, b))
  BY <1>2 DEF Row, RelayStatus, NotDone
<1>. QED
  BY <1>1, <1>2, <1>3, <1>4, <1>5, <1>6

LEMMA NotDoneEdits ==
    ASSUME NEW r \in Row, NotDone(r)
    PROVE  /\ NotDone([r EXCEPT !.state = "printing"]) /\ NotDone([r EXCEPT !.state = "sending"])
           /\ \A v : NotDone([r EXCEPT !.state = "relayed", !.via = v])
           /\ \A h \in BOOLEAN : NotDone([r EXCEPT !.ack = IF h THEN "none" ELSE @])
           /\ NotDone([r EXCEPT !.state = "pending", !.via = "none", !.unsure = FALSE,
                               !.marked = @ \/ r.unsure])
  BY DEF Row, NotDone

LEMMA NotDoneNew == NotDone(NoRow) /\ \A b, c : NotDone(NewRow(b, c))
  BY DEF NotDone, NoRow, NewRow

LEMMA NothingSaysDoneStep ==
    TypeOK /\ NothingSaysDone /\ [Next]_vars => NothingSaysDone'
<1>. SUFFICES ASSUME TypeOK, NothingSaysDone, [Next]_vars, ~paper'
              PROVE  /\ \A m \in Machines : NotDone(row'[m]) /\ step'[m] # "printed"
                     /\ NotDone(poll'.row) /\ cloud'.status # "done"
  BY DEF NothingSaysDone, NotDone
<1>. USE DEF Machines
<1>a. ~paper
  BY DEF Next, Worker, vars, Enqueue, Claim, HandOver, Upload, Relayed, OpenPrinter, Write,
         OneMore, PrintDone, PollBegin, PollNoAnswer, PollAnswer, HandOut, SendAck, Expire,
         Retry, Discard, Withdraw, Crash, Start, Wipe
<1>b. /\ \A m \in Machines : row[m] \in Row /\ NotDone(row[m]) /\ step[m] # "printed"
      /\ poll.row \in Row /\ NotDone(poll.row) /\ cloud.status # "done"
  BY <1>a DEF NothingSaysDone, NotDone, TypeOK
<1>c. \A m \in Machines :
        /\ NotDone(Retryable(row[m])) /\ NotDone(Refused(row[m], TRUE))
        /\ NotDone(Refused(row[m], FALSE)) /\ NotDone(Discarded(row[m]))
        /\ NotDone(Recovered(row[m])) /\ NotDone(RelayedAgain(row[m]))
  BY <1>b, NotDoneRows
<1>. USE <1>b
<1>1. CASE Enqueue
  BY <1>1, NotDoneNew DEF Enqueue, TypeOK
<1>2. ASSUME NEW n \in Machines, Claim(n)
      PROVE  \A m \in Machines : NotDone(row'[m]) /\ step'[m] # "printed"
  BY <1>2, NotDoneEdits DEF Claim, Goto, TypeOK
<1>3. CASE HandOver
  <2>1. \A m \in Machines : NotDone(row'[m])
    <3>1. NotDone(NewRow(row["till"].marked, FALSE))
      BY NotDoneNew
    <3>. QED
      BY <1>3, <3>1 DEF HandOver, AcceptLan, TypeOK
  <2>2. \A m \in Machines : step'[m] # "printed"
    BY <1>3 DEF HandOver, NextWay, Goto, TypeOK
  <2>. QED
    BY <1>3, <2>1, <2>2 DEF HandOver
<1>4. CASE Upload
  <2>1. \A m \in Machines : NotDone(row'[m])
    BY <1>4, <1>c DEF Upload, TypeOK
  <2>2. cloud'.status # "done"
    BY <1>4 DEF Upload, Relay, TypeOK
  <2>. QED
    BY <1>4, <2>1, <2>2 DEF Upload, Goto, TypeOK
<1>5. CASE Relayed
  BY <1>5, NotDoneEdits DEF Relayed, Goto, TypeOK
<1>6. ASSUME NEW n \in Machines, OpenPrinter(n)
      PROVE  \A m \in Machines : NotDone(row'[m]) /\ step'[m] # "printed"
  <2>1. NotDone([row[n] EXCEPT !.state = "sending"]) /\ NotDone(Retryable(row[n]))
    BY <1>c, NotDoneEdits
  <2>2. \A m \in Machines : NotDone(row'[m])
    BY <1>6, <2>1 DEF OpenPrinter, NotPrinted, TypeOK
  <2>. QED
    BY <1>6, <2>2 DEF OpenPrinter, NotPrinted, Goto, TypeOK
<1>7. ASSUME NEW n \in Machines, Write(n)
      PROVE  \A m \in Machines : NotDone(row'[m]) /\ step'[m] # "printed"
  BY <1>7, <1>c DEF Write, OneMore, NotPrinted, Goto, TypeOK
<1>8. ASSUME NEW n \in Machines, PrintDone(n) PROVE FALSE
  BY <1>8 DEF PrintDone
<1>9. CASE PollBegin
  BY <1>9 DEF PollBegin
<1>10. CASE PollNoAnswer
  BY <1>10, NotDoneNew DEF PollNoAnswer, NoPoll, TypeOK
<1>11. CASE PollAnswer
  <2>1. LanStatus # "done" /\ CloudStatus # "done"
    BY DEF LanStatus, CloudStatus, NotDone
  <2>2. row["server"].unsure \in BOOLEAN /\ cloud.unsure \in BOOLEAN
    BY RowEdits DEF TypeOK
  <2>3. /\ NotDone(RelayStatus(poll.row, LanStatus, row["server"].unsure))
        /\ NotDone(RelayStatus(poll.row, CloudStatus, cloud.unsure))
    BY <2>1, <2>2, NotDoneRows
  <2>. QED
    BY <1>11, <2>3, NotDoneNew DEF PollAnswer, NoPoll, TypeOK
<1>12. CASE HandOut
  <2>1. NotDone(NewRow(cloud.marked, TRUE)) /\ NotDone(RelayedAgain(row["server"]))
    BY <1>c, NotDoneNew
  <2>2. \A m \in Machines : NotDone(row'[m])
    BY <1>12, <2>1 DEF HandOut, TypeOK
  <2>. QED
    BY <1>12, <2>2 DEF HandOut, TypeOK
<1>13. CASE SendAck
  <2>1. \A m \in Machines : NotDone(row'[m])
    <3>1. PICK h \in BOOLEAN : row' = [row EXCEPT !["server"].ack = IF h THEN "none" ELSE @]
      BY <1>13 DEF SendAck
    <3>2. NotDone([row["server"] EXCEPT !.ack = IF h THEN "none" ELSE @])
      BY NotDoneEdits
    <3>. QED
      BY <3>1, <3>2 DEF TypeOK
  <2>2. cloud'.status # "done"
    BY <1>13 DEF SendAck, TypeOK, NotDone
  <2>. QED
    BY <1>13, <2>1, <2>2 DEF SendAck
<1>14. CASE Expire
  BY <1>14 DEF Expire, TypeOK
<1>15. ASSUME NEW n \in Machines, Retry(n)
       PROVE  \A m \in Machines : NotDone(row'[m])
  BY <1>15, NotDoneEdits DEF Retry, TypeOK
<1>16. ASSUME NEW n \in Machines, Discard(n)
       PROVE  \A m \in Machines : NotDone(row'[m])
  BY <1>16, <1>c DEF Discard, TypeOK
<1>17. CASE Withdraw
  BY <1>17, <1>c DEF Withdraw, TypeOK
<1>18. ASSUME NEW n \in Machines, Crash(n)
       PROVE  /\ \A m \in Machines : step'[m] # "printed"
              /\ NotDone(poll'.row)
  BY <1>18, NotDoneNew DEF Crash, Goto, NoPoll, TypeOK
<1>19. ASSUME NEW n \in Machines, Start(n)
       PROVE  \A m \in Machines : NotDone(row'[m])
  BY <1>19, <1>c DEF Start, TypeOK
<1>20. CASE Wipe
  BY <1>20, NotDoneNew DEF Wipe, TypeOK
<1>21. CASE UNCHANGED vars
  BY <1>21 DEF vars
<1>22. CASE \E n \in Machines : Worker(n)
  BY <1>22, <1>2, <1>6, <1>7, <1>8 DEF Worker, Claim, OpenPrinter, Write, PrintDone
<1>23. CASE \E n \in Machines : Retry(n) \/ Discard(n) \/ Crash(n) \/ Start(n)
  BY <1>23, <1>15, <1>16, <1>18, <1>19 DEF Retry, Discard, Crash, Start
<1>. QED
  BY <1>1, <1>3, <1>4, <1>5, <1>9, <1>10, <1>11, <1>12, <1>13, <1>14, <1>17, <1>20, <1>21,
     <1>22, <1>23 DEF Next

\* The till, the server and the cloud call a ticket printed only when a printer
\* put one on paper.
THEOREM DoneIsOnPaperAlways == Spec => []DoneIsOnPaper
<1>1. Init => NothingSaysDone
  BY NotDoneNew DEF Init, NoPoll, NothingSaysDone, NotDone, Machines
<1>2. NothingSaysDone => DoneIsOnPaper
  BY DEF NothingSaysDone, DoneIsOnPaper
<1>. QED
  BY <1>1, <1>2, Typing, NothingSaysDoneStep, PTL DEF Spec

-----------------------------------------------------------------------------
(* No bon twice at the print server. *)

\* Between two awaits of printOne the row is where it was put; a stopped process
\* is between none.
ServerStep ==
    /\ step["server"] \in {"none", "print", "write", "printed"}
    /\ step["server"] = "print" => row["server"].state = "printing"
    /\ step["server"] \in {"write", "printed"} => row["server"].state = "sending"
    /\ ~up["server"] => step["server"] = "none"

\* A row whose ticket may be on paper as new: it will not go again as new.
NotAgainAsNew(r, s) ==
    /\ r.state # "none"
    /\ \/ r.marked \/ r.state = "done"
       \/ r.state = "failed" /\ r.unsure
       \/ r.state = "sending" /\ s # "write"

ServerOnce ==
    /\ ServerStep
    /\ ~wiped => \/ fresh["server"] = 0
                 \/ fresh["server"] = 1 /\ NotAgainAsNew(row["server"], step["server"])

LEMMA NotAgainRows ==
    ASSUME NEW r \in Row, NEW s, NEW t, NotAgainAsNew(r, s)
    PROVE  /\ NotAgainAsNew(Recovered(r), t)
           /\ NotAgainAsNew(Refused(r, TRUE), t)
           /\ r.state \in {"pending", "relayed"} => NotAgainAsNew(Discarded(r), t)
           /\ r.state = "sending" /\ s = "write" => NotAgainAsNew(Retryable(r), t)
           /\ r.state = "failed" =>
                NotAgainAsNew([r EXCEPT !.state = "pending", !.via = "none", !.unsure = FALSE,
                                       !.marked = @ \/ r.unsure], t)
<1>1. NotAgainAsNew(Recovered(r), t)
  BY DEF Row, Recovered, NotAgainAsNew
<1>2. NotAgainAsNew(Refused(r, TRUE), t)
  BY DEF Row, Refused, NotAgainAsNew
<1>3. r.state \in {"pending", "relayed"} => NotAgainAsNew(Discarded(r), t)
  BY DEF Row, Discarded, NotAgainAsNew
<1>4. r.state = "sending" /\ s = "write" => NotAgainAsNew(Retryable(r), t)
  BY DEF Row, Retryable, NotAgainAsNew
<1>5. r.state = "failed" =>
        NotAgainAsNew([r EXCEPT !.state = "pending", !.via = "none", !.unsure = FALSE,
                               !.marked = @ \/ r.unsure], t)
  BY DEF Row, NotAgainAsNew
<1>. QED
  BY <1>1, <1>2, <1>3, <1>4, <1>5

LEMMA RelayedAgainKeeps ==
    ASSUME NEW r \in Row
    PROVE  /\ RelayedAgain(r).state = r.state /\ RelayedAgain(r).marked = r.marked
           /\ RelayedAgain(r).unsure = r.unsure
  BY DEF Row, RelayedAgain

LEMMA ServerOnceStep == TypeOK /\ ServerOnce /\ [Next]_vars => ServerOnce'
<1>. SUFFICES ASSUME TypeOK, ServerOnce, [Next]_vars PROVE ServerOnce'
  OBVIOUS
<1>. DEFINE r == row["server"]
            s == step["server"]
<1>. USE DEF Machines
<1>a. /\ r \in Row /\ row \in [Machines -> Row] /\ DOMAIN step = Machines
      /\ DOMAIN up = Machines /\ fresh \in [Machines -> Nat]
  BY DEF TypeOK
\* A step that leaves the server's ticket alone, its answers to the cloud aside.
<1>b. ASSUME row'["server"].state = r.state, row'["server"].marked = r.marked,
             row'["server"].unsure = r.unsure, step'["server"] = s,
             fresh'["server"] = fresh["server"], up'["server"] = up["server"], wiped' = wiped
      PROVE  ServerOnce'
  BY <1>b DEF ServerOnce, ServerStep, NotAgainAsNew
<1>1. CASE Enqueue
  BY <1>1, <1>a, <1>b DEF Enqueue
<1>2. CASE HandOver
  <2>1. CASE r.state # "none" \/ row' = row
    BY <1>2, <2>1, <1>a, <1>b DEF HandOver, AcceptLan, Goto
  <2>2. CASE r.state = "none" /\ row' # row
    <3>1. /\ row'["server"] = NewRow(row["till"].marked, FALSE) /\ s = "none"
          /\ wiped \/ fresh["server"] = 0
      BY <1>2, <2>2, <1>a DEF HandOver, AcceptLan, ServerOnce, ServerStep, NotAgainAsNew
    <3>. QED
      BY <1>2, <3>1, <1>a DEF HandOver, Goto, ServerOnce, ServerStep
  <2>. QED
    BY <2>1, <2>2
<1>3. CASE Upload
  BY <1>3, <1>a, <1>b DEF Upload, Goto
<1>4. CASE Relayed
  BY <1>4, <1>a, <1>b DEF Relayed, Goto
<1>5. CASE PollBegin \/ PollNoAnswer \/ PollAnswer \/ Expire \/ Withdraw \/ UNCHANGED vars
  BY <1>5, <1>a, <1>b DEF PollBegin, PollNoAnswer, PollAnswer, Expire, Withdraw, vars
<1>6. CASE HandOut
  <2>1. CASE r.state # "none" \/ row' = row
    BY <1>6, <2>1, <1>a, <1>b, RelayedAgainKeeps DEF HandOut
  <2>2. CASE r.state = "none" /\ row' # row
    <3>1. /\ row'["server"] = NewRow(cloud.marked, TRUE) /\ s = "none"
          /\ wiped \/ fresh["server"] = 0
      BY <1>6, <2>2, <1>a DEF HandOut, ServerOnce, ServerStep, NotAgainAsNew
    <3>. QED
      BY <1>6, <3>1, <1>a DEF HandOut, ServerOnce, ServerStep
  <2>. QED
    BY <2>1, <2>2
<1>7. CASE SendAck
  <2>1. /\ row'["server"].state = r.state /\ row'["server"].marked = r.marked
        /\ row'["server"].unsure = r.unsure
    BY <1>7, <1>a DEF SendAck, Row
  <2>. QED
    BY <1>7, <2>1, <1>b DEF SendAck
<1>8. CASE Wipe
  <2>1. s = "none"
    BY <1>8 DEF Wipe, ServerOnce, ServerStep
  <2>. QED
    BY <1>8, <2>1, <1>a DEF Wipe, ServerOnce, ServerStep
<1>9. CASE Worker("till") \/ Retry("till") \/ Discard("till") \/ Crash("till") \/ Start("till")
  <2>1. /\ row'["server"] = r /\ step'["server"] = s /\ up'["server"] = up["server"]
        /\ wiped' = wiped
    BY <1>9, <1>a DEF Worker, Claim, OpenPrinter, Write, PrintDone, Retry, Discard, Crash, Start,
                     NotPrinted, Goto
  <2>2. fresh'["server"] = fresh["server"]
    BY <1>9, <1>a DEF Worker, Claim, OpenPrinter, Write, PrintDone, Retry, Discard, Crash, Start,
                     OneMore
  <2>. QED
    BY <2>1, <2>2, <1>b
<1>10. CASE Claim("server")
  <2>1. /\ row'["server"] = [r EXCEPT !.state = "printing"] /\ step'["server"] = "print"
        /\ r.state = "pending" /\ up["server"]
    BY <1>10, <1>a DEF Claim, Goto
  <2>2. /\ row'["server"].state = "printing" /\ row'["server"].marked = r.marked
    BY <2>1, <1>a DEF Row
  <2>. QED
    BY <1>10, <2>1, <2>2 DEF Claim, ServerOnce, ServerStep, NotAgainAsNew
<1>11. CASE OpenPrinter("server")
  <2>0. r.state = "printing"
    BY <1>11 DEF OpenPrinter, ServerOnce, ServerStep
  <2>1. \/ row'["server"] = [r EXCEPT !.state = "sending"] /\ step'["server"] = "write"
        \/ row'["server"] = Retryable(r) /\ step'["server"] = "none"
    BY <1>11, <1>a DEF OpenPrinter, NotPrinted, Goto
  <2>2. /\ row'["server"].marked = r.marked
        /\ \/ row'["server"].state = "sending" /\ step'["server"] = "write"
           \/ row'["server"].state = "pending" /\ step'["server"] = "none"
    BY <2>1, <1>a DEF Row, Retryable
  <2>. QED
    BY <1>11, <2>0, <2>2 DEF OpenPrinter, ServerOnce, ServerStep, NotAgainAsNew
<1>12. CASE Write("server")
  <2>0. s = "write" /\ r.state = "sending" /\ up["server"] /\ up' = up /\ wiped' = wiped
    BY <1>12 DEF Write, ServerOnce, ServerStep
  <2>1. \/ fresh'["server"] = fresh["server"]
        \/ fresh'["server"] = fresh["server"] + 1 /\ ~r.marked
    BY <1>12, <1>a DEF Write, OneMore
  <2>2. \/ row'["server"] = r /\ step'["server"] = "printed"
        \/ /\ row'["server"] = Retryable(r) /\ step'["server"] = "none"
           /\ fresh'["server"] = fresh["server"]
        \/ row'["server"] = Refused(r, TRUE) /\ step'["server"] = "none"
    BY <1>12, <1>a DEF Write, NotPrinted, Goto
  <2>3. CASE row'["server"] = r /\ step'["server"] = "printed"
    BY <2>0, <2>1, <2>3, <1>a DEF ServerOnce, ServerStep, NotAgainAsNew
  <2>4. CASE /\ row'["server"] = Retryable(r) /\ step'["server"] = "none"
             /\ fresh'["server"] = fresh["server"]
    BY <2>0, <2>4, <1>a, NotAgainRows DEF ServerOnce, ServerStep
  <2>5. CASE row'["server"] = Refused(r, TRUE) /\ step'["server"] = "none"
    <3>1. row'["server"].state = "failed" /\ row'["server"].unsure
      BY <2>5, <1>a DEF Row, Refused
    <3>2. NotAgainAsNew(row'["server"], step'["server"])
      BY <3>1 DEF NotAgainAsNew
    <3>3. ServerStep'
      BY <2>0, <2>5 DEF ServerStep
    <3>4. ~wiped => fresh'["server"] \in {0, 1}
      BY <2>0, <2>1, <1>a DEF ServerOnce, NotAgainAsNew
    <3>. QED
      BY <2>0, <3>2, <3>3, <3>4 DEF ServerOnce
  <2>. QED
    BY <2>2, <2>3, <2>4, <2>5
<1>13. CASE PrintDone("server")
  <2>1. row'["server"].state = "done" /\ step'["server"] = "none" /\ up["server"]
    BY <1>13, <1>a DEF PrintDone, Printed, Goto, Row
  <2>. QED
    BY <1>13, <2>1 DEF PrintDone, ServerOnce, ServerStep, NotAgainAsNew
<1>14. CASE Retry("server")
  <2>1. /\ r.state = "failed"
        /\ row'["server"] = [r EXCEPT !.state = "pending", !.via = "none", !.unsure = FALSE,
                                      !.marked = @ \/ r.unsure]
    BY <1>14, <1>a DEF Retry
  <2>. QED
    BY <1>14, <2>1, <1>a, NotAgainRows DEF Retry, ServerOnce, ServerStep
<1>15. CASE Discard("server")
  <2>1. r.state \in {"pending", "relayed"} /\ row'["server"] = Discarded(r)
    BY <1>15, <1>a DEF Discard
  <2>. QED
    BY <1>15, <2>1, <1>a, NotAgainRows DEF Discard, ServerOnce, ServerStep
<1>16. CASE Crash("server")
  BY <1>16, <1>a DEF Crash, Goto, ServerOnce, ServerStep, NotAgainAsNew
<1>17. CASE Start("server")
  <2>1. s = "none" /\ row'["server"] = Recovered(r)
    BY <1>17, <1>a DEF Start, ServerOnce, ServerStep
  <2>. QED
    BY <1>17, <2>1, <1>a, NotAgainRows DEF Start, ServerOnce, ServerStep
<1>. QED
  BY <1>1, <1>2, <1>3, <1>4, <1>5, <1>6, <1>7, <1>8, <1>9, <1>10, <1>11, <1>12, <1>13, <1>14,
     <1>15, <1>16, <1>17 DEF Next, Worker

\* By its id the print server prints a ticket as new at most once.
THEOREM ServerPrintsOnceAlways == Spec => []ServerPrintsOnce
<1>1. Init => ServerOnce
  BY DEF Init, ServerOnce, ServerStep, Machines
<1>2. ServerOnce => ServerPrintsOnce
  BY DEF ServerOnce, ServerPrintsOnce
<1>. QED
  BY <1>1, <1>2, Typing, ServerOnceStep, PTL DEF Spec

=============================================================================
