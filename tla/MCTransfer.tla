----------------------------- MODULE MCTransfer -----------------------------
(* Instances of Transfer for TLC.                                          *)
EXTENDS Transfer

CONSTANTS Old, New, Long   \* contents: Old and New have the same size

MCData == {Old, New, Long}
MCSize == [d \in MCData |-> IF d = Long THEN 2 ELSE 1]

Options(ops, verifies, overwrites) ==
    {p \in [op : ops, verify : verifies, mode : {"rename", "copy"}, keep : BOOLEAN,
            overwrite : overwrites, keepDesc : BOOLEAN] :
        /\ p.op = "split" => ~p.keep /\ ~p.overwrite /\ ~p.keepDesc
        /\ p.keep => p.mode = "copy"}

AllPolicies    == Options({"split", "restore"}, {"size", "hash"}, BOOLEAN)
NoOverwrite    == Options({"split", "restore"}, {"size", "hash"}, {FALSE})
Overwriting    == Options({"restore"}, {"size", "hash"}, {TRUE})
OverwriteKeep  == {p \in Overwriting : p.keep /\ p.verify = "hash"}

(* Every source starts with the content Old.                               *)
MCInit == Init /\ src = [f \in File |-> Old]
MCSpec == MCInit /\ [][Next]_vars
MCFairSpec == MCSpec /\ WF_vars(Process)
=============================================================================
