---------------------------- MODULE AuditLedger ----------------------------
(***************************************************************************)
(* What the audit chain promises: a ledger that only ever grows at its     *)
(* end, by records it does not hold yet, for as long as nothing happens    *)
(* that the promise excludes.                                              *)
(***************************************************************************)
EXTENDS Naturals, Sequences

CONSTANT Records

VARIABLES
    ledger,
    undisturbed \* whether the promise holds so far

Init == ledger = << >> /\ undisturbed = TRUE

\* One or more new records, in some order, behind everything there is.
Extend ==
    /\ undisturbed /\ UNCHANGED undisturbed
    /\ ledger' \in Seq(Records)
    /\ Len(ledger) < Len(ledger') /\ ledger = SubSeq(ledger', 1, Len(ledger))
    /\ \A i, j \in 1..Len(ledger') : ledger'[i] = ledger'[j] => i = j

\* Anything may become of the ledger once the promise is off, and it stays off.
Breaks == ~undisturbed'

Spec == Init /\ [][Extend \/ Breaks]_<<ledger, undisturbed>>
=============================================================================
