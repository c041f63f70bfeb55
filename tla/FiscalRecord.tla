--------------------------- MODULE FiscalRecord ---------------------------
(***************************************************************************)
(* What the delivery of documents promises, whatever the device, the       *)
(* network and the cloud do on the way: a document that was issued is      *)
(* stored once, and reported in one Z, the next one built; nothing is      *)
(* unstored and no Z is rewritten.                                         *)
(***************************************************************************)
EXTENDS Naturals

CONSTANTS Docs, Zs

VARIABLES
    issued,   \* documents that are final on the device
    stored,   \* documents the cloud holds
    report    \* the documents of each Z, {} while it is not built

vars == <<issued, stored, report>>

Reported == UNION {report[z] : z \in Zs}

Init == issued = {} /\ stored = {} /\ report = [z \in Zs |-> {}]

Issue(d) ==
    /\ d \notin issued
    /\ issued' = issued \cup {d}
    /\ UNCHANGED <<stored, report>>

\* Some issued documents reach the cloud together.
Store(ds) ==
    /\ ds # {} /\ ds \subseteq issued \ stored
    /\ stored' = stored \cup ds
    /\ UNCHANGED <<issued, report>>

\* The next Z takes stored documents no Z has taken.
Build(z, ds) ==
    /\ ds # {} /\ ds \subseteq stored \ Reported
    /\ report[z] = {} /\ \A y \in Zs : y < z => report[y] # {}
    /\ report' = [report EXCEPT ![z] = ds]
    /\ UNCHANGED <<issued, stored>>

Next ==
    \/ \E d \in Docs : Issue(d)
    \/ \E ds \in SUBSET Docs : Store(ds)
    \/ \E z \in Zs, ds \in SUBSET Docs : Build(z, ds)

Spec == Init /\ [][Next]_vars
=============================================================================
