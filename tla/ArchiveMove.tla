---------------------------- MODULE ArchiveMove ----------------------------
(***************************************************************************)
(* What a split or a restore promises the operator, whatever interrupts    *)
(* it: each file is in the root it came from, in both roots, or in the     *)
(* other root; it becomes visible there complete, is reported (described   *)
(* by a split, its description settled by a restore) before its source is  *)
(* given up, and is settled only then.                                     *)
(***************************************************************************)
CONSTANT File

VARIABLES
    keep,       \* the sources are kept
    where,      \* the roots that hold the file
    told,       \* the archive's descriptions reflect the new place
    settled     \* the file is done with

Init ==
    /\ keep \in BOOLEAN
    /\ where \in [File -> {"source", "both"}]
    /\ told = [f \in File |-> FALSE]
    /\ settled = [f \in File |-> FALSE]

(* The file appears in the other root, as a copy or by a rename.           *)
Publish(f) ==
    /\ where[f] = "source"
    /\ \E w \in {"both", "dest"} : where' = [where EXCEPT ![f] = w]
    /\ UNCHANGED <<keep, told, settled>>

Tell(f) ==
    /\ where[f] # "source" /\ ~told[f]
    /\ told' = [told EXCEPT ![f] = TRUE]
    /\ UNCHANGED <<keep, where, settled>>

Retire(f) ==
    /\ told[f] /\ where[f] = "both" /\ ~keep
    /\ where' = [where EXCEPT ![f] = "dest"]
    /\ UNCHANGED <<keep, told, settled>>

Settle(f) ==
    /\ told[f] /\ ~settled[f]
    /\ where[f] = "dest" \/ keep
    /\ settled' = [settled EXCEPT ![f] = TRUE]
    /\ UNCHANGED <<keep, where, told>>

Next == \E f \in File : Publish(f) \/ Tell(f) \/ Retire(f) \/ Settle(f)

Spec == Init /\ [][Next]_<<keep, where, told, settled>>
=============================================================================
