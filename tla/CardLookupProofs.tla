-------------------------- MODULE CardLookupProofs --------------------------
(***************************************************************************)
(* What the provider says of a charge is true: the proof of WordIsTrue for *)
(* a terminal whose status calls are heard.                                *)
(*                                                                         *)
(* The heart is what a first "not found" is worth: it was said by an idle  *)
(* terminal, so the charge is at its end or was never there; what is still *)
(* missing is an approval that came between the lookup and the status, and *)
(* that one the second lookup finds.                                       *)
(***************************************************************************)
EXTENDS CardLookup, TLAPS

\* Nothing is told before the provider is done, and a sale not sent yet has no
\* lookups behind it and is not at the terminal.
TellsAtTheEnd ==
    /\ at # "done" => word = "none"
    /\ at = "idle" => first = NoFirst /\ term = "none"

\* After a first "not found" the terminal is idle for good, and a second one was
\* not of an approved charge.
FirstIsIdle ==
    first # NoFirst =>
        /\ term \notin Busy
        /\ at = "status" => term # "approved"

IInv == TypeOK /\ TellsAtTheEnd /\ FirstIsIdle /\ WordIsTrue

-----------------------------------------------------------------------------

\* The initial state satisfies the invariant.
LEMMA InitInv == Init => IInv
<1> SUFFICES ASSUME Init PROVE IInv
  OBVIOUS
<1>1. 1 \in 1 .. Last
  BY DEF Last
<1>2. TypeOK
  BY <1>1, Zenon DEF Init, TypeOK, Busy, Settled
<1>3. TellsAtTheEnd /\ FirstIsIdle /\ WordIsTrue
  BY DEF Init, TellsAtTheEnd, FirstIsIdle, WordIsTrue
<1> QED BY <1>2, <1>3 DEF IInv

\* A resolveAttempt that begins is typed, tells nothing and has found nothing yet.
LEMMA ResolveBegins ==
    ASSUME Resolve
    PROVE  /\ at' = "lookup" /\ word' = "none"
           /\ round' \in 1 .. Last /\ aborted' \in BOOLEAN /\ first' = NoFirst
<1>1. 1 \in 1 .. Last
  BY DEF Last
<1> QED BY <1>1, Zenon DEF Resolve

\* The next round is typed, and tells at most that the charge is unknown.
LEMMA NextRounds ==
    ASSUME TypeOK, NextRound, at # "done", TellsAtTheEnd
    PROVE  /\ at' \in {"lookup", "done"}
           /\ round' \in 1 .. Last
           /\ word' \in {"none", "unknown"}
           /\ at' = "lookup" => word' = "none"
  BY DEF TypeOK, NextRound, Tell, TellsAtTheEnd, Last

\* So does asking again, which may abort first.
LEMMA AsksAgain ==
    ASSUME TypeOK, AskAgain, at # "done", TellsAtTheEnd
    PROVE  /\ at' \in {"lookup", "abort", "done"}
           /\ round' \in 1 .. Last
           /\ word' \in {"none", "unknown"}
           /\ at' \in {"lookup", "abort"} => word' = "none"
<1>1. CASE aborted
  BY <1>1, NextRounds DEF AskAgain
<1>2. CASE ~aborted
  BY <1>2 DEF AskAgain, TypeOK, TellsAtTheEnd
<1> QED BY <1>1, <1>2

\* Every step keeps the types.
LEMMA TypeStep ==
    ASSUME TypeOK, TellsAtTheEnd, [Next]_vars
    PROVE  TypeOK'
<1> USE DEF TypeOK, Busy, Settled
<1>1. CASE SendSale \/ NotSent \/ SaleAnswered \/ CancelSale
  BY <1>1 DEF SendSale, NotSent, SaleAnswered, CancelSale, Tell, resolving
<1>2. CASE SaleUnknown \/ WindowOver \/ ResolveAgain \/ Restart
  <2>1. Resolve /\ UNCHANGED <<term, up>>
    BY <1>2 DEF SaleUnknown, WindowOver, ResolveAgain, Restart
  <2> QED BY <2>1, ResolveBegins
<1>3. CASE Acknowledge
  BY <1>3 DEF Acknowledge, Tell, resolving
<1>4. CASE Lookup
  <2>1. CASE AskAgain
    <3>1. at # "done"
      BY <1>4 DEF Lookup
    <3> QED BY <1>4, <2>1, <3>1, AsksAgain DEF Lookup
  <2>2. CASE ~AskAgain
    BY <1>4, <2>2 DEF Lookup, Tell
  <2> QED BY <2>1, <2>2
<1>5. CASE Status
  <2>1. CASE AskAgain
    <3>1. at # "done"
      BY <1>5 DEF Status
    <3>2. first' \in {Waited[i] : i \in 1 .. Last} \cup {NoFirst}
      BY <1>5 DEF Status
    <3>3. UNCHANGED <<aborted, term, up>>
      BY <1>5 DEF Status
    <3> QED BY <2>1, <3>1, <3>2, <3>3, AsksAgain
  <2>2. CASE ~AskAgain
    BY <1>5, <2>2 DEF Status, Tell
  <2> QED BY <2>1, <2>2
<1>6. CASE Abort
  <2>1. NextRound /\ at # "done" /\ aborted' = TRUE /\ UNCHANGED <<first, up>>
    BY <1>6 DEF Abort
  <2>2. term' \in {term, "declined"}
    BY <1>6 DEF Abort
  <2> QED BY <2>1, <2>2, NextRounds
<1>7. CASE Present \/ Authorise \/ AckTimer \/ Link
  BY <1>7 DEF Present, Authorise, AckTimer, Link, resolving
<1>8. CASE UNCHANGED vars
  BY <1>8 DEF vars
<1> QED BY <1>1, <1>2, <1>3, <1>4, <1>5, <1>6, <1>7, <1>8 DEF Next, Provider, Terminal

-----------------------------------------------------------------------------

\* Every step keeps the rest, when status calls are heard.
LEMMA WordStep ==
    ASSUME IInv, [Next]_vars, StatusHeard
    PROVE  (TellsAtTheEnd /\ FirstIsIdle /\ WordIsTrue)'
<1> USE DEF IInv, TellsAtTheEnd, FirstIsIdle, WordIsTrue, Busy
<1>1. CASE SendSale \/ NotSent \/ SaleAnswered \/ CancelSale
  <2>1. CASE SendSale
    BY <2>1 DEF SendSale, resolving
  <2>2. CASE NotSent
    <3>1. term = "none"
      BY <2>2 DEF NotSent
    <3> QED BY <2>2, <3>1 DEF NotSent, Tell, resolving
  <2>3. CASE SaleAnswered
    BY <2>3 DEF SaleAnswered, Tell, resolving
  <2>4. CASE CancelSale
    BY <2>4 DEF CancelSale, resolving
  <2> QED BY <1>1, <2>1, <2>2, <2>3, <2>4
<1>2. CASE SaleUnknown \/ WindowOver \/ ResolveAgain \/ Restart
  <2>1. Resolve /\ UNCHANGED <<term, up>>
    BY <1>2 DEF SaleUnknown, WindowOver, ResolveAgain, Restart
  <2>2. at' = "lookup" /\ word' = "none" /\ first' = NoFirst
    BY <2>1, ResolveBegins
  <2> QED BY <2>2
<1>3. CASE Acknowledge
  BY <1>3 DEF Acknowledge, Tell, resolving
<1>4. CASE Lookup
  <2>0. at = "lookup" /\ word = "none" /\ UNCHANGED <<first, aborted, term, up>>
    BY <1>4 DEF Lookup
  <2>1. CASE AskAgain
    BY <2>0, <2>1, AsksAgain
  <2>2. CASE "approved" \in Found /\ Tell("approved")
    <3>1. term = "approved"
      BY <2>2 DEF Found
    <3> QED BY <2>0, <2>2, <3>1 DEF Tell
  <2>3. CASE "declined" \in Found /\ Tell("not_charged")
    <3>1. term = "declined"
      BY <2>3 DEF Found
    <3> QED BY <2>0, <2>3, <3>1 DEF Tell
  <2>4. CASE "not_found" \in Found /\ at' = "status" /\ UNCHANGED <<word, round>>
    <3>1. term # "approved"
      BY <2>4 DEF Found
    <3> QED BY <2>0, <2>4, <3>1
  <2> QED BY <1>4, <2>1, <2>2, <2>3, <2>4 DEF Lookup
<1>5. CASE Status
  <2>0. at = "status" /\ word = "none" /\ UNCHANGED <<aborted, term, up>>
    BY <1>5 DEF Status
  <2>1. CASE term \in Busy /\ first' = first /\ AskAgain
    BY <2>0, <2>1, AsksAgain
  <2>2. CASE term \notin Busy /\ Confirmed /\ Tell("not_charged") /\ first' = first
    BY <2>0, <2>2 DEF Confirmed, Tell
  <2>3. CASE term \notin Busy /\ AskAgain
    BY <2>0, <2>3, AsksAgain
  <2> QED BY <1>5, <2>1, <2>2, <2>3 DEF Status
<1>6. CASE Abort
  <2>1. NextRound /\ at = "abort" /\ UNCHANGED <<first, up>>
    BY <1>6 DEF Abort
  <2>2. term' = term \/ (term = "card" /\ term' = "declined")
    BY <1>6 DEF Abort
  <2> QED BY <2>1, <2>2, NextRounds
<1>7. CASE Present \/ Authorise \/ AckTimer \/ Link
  BY <1>7 DEF Present, Authorise, AckTimer, Link, resolving
<1>8. CASE UNCHANGED vars
  BY <1>8 DEF vars
<1> QED BY <1>1, <1>2, <1>3, <1>4, <1>5, <1>6, <1>7, <1>8 DEF Next, Provider, Terminal

\* Type correctness, whether or not status calls are heard.
THEOREM Typing == Spec => []TypeOK
<1>1. Init => TypeOK /\ TellsAtTheEnd
  BY InitInv DEF IInv
<1>2. TypeOK /\ TellsAtTheEnd /\ [Next]_vars => (TypeOK /\ TellsAtTheEnd)'
  <2> SUFFICES ASSUME TypeOK, TellsAtTheEnd, [Next]_vars PROVE (TypeOK /\ TellsAtTheEnd)'
    OBVIOUS
  <2>1. TypeOK'
    BY TypeStep
  <2>2. TellsAtTheEnd'
    <3>1. CASE AskAgain /\ at # "done" /\ at # "idle"
      BY <3>1, AsksAgain DEF TellsAtTheEnd
    <3>2. CASE NextRound /\ at # "done" /\ at # "idle"
      BY <3>2, NextRounds DEF TellsAtTheEnd
    <3>3. CASE Resolve
      BY <3>3, ResolveBegins DEF TellsAtTheEnd
    <3>4. CASE ~(AskAgain /\ at # "done" /\ at # "idle") /\ ~(NextRound /\ at # "done" /\ at # "idle") /\ ~Resolve
      BY <3>4 DEF TellsAtTheEnd, Next, Provider, Terminal, vars, resolving, Tell, SendSale, NotSent,
           SaleAnswered, SaleUnknown, CancelSale, Acknowledge, WindowOver, Lookup, Status, Abort,
           ResolveAgain, Restart, Present, Authorise, AckTimer, Link
    <3> QED BY <3>1, <3>2, <3>3, <3>4
  <2> QED BY <2>1, <2>2
<1> QED BY <1>1, <1>2, PTL DEF Spec

\* What the provider says of a charge is true for ever, whatever was lost and
\* whenever the process stopped, when status calls are heard.
THEOREM WordIsTrueAlways == StatusHeard => (Spec => []WordIsTrue)
<1> SUFFICES ASSUME StatusHeard PROVE Spec => []WordIsTrue
  OBVIOUS
<1>1. Init => IInv
  BY InitInv
<1>2. IInv /\ [Next]_vars => IInv'
  BY TypeStep, WordStep DEF IInv
<1>3. IInv => WordIsTrue
  BY DEF IInv
<1> QED BY <1>1, <1>2, <1>3, PTL DEF Spec

=============================================================================
