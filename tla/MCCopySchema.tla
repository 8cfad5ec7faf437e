---------------------------- MODULE MCCopySchema ----------------------------
(***************************************************************************)
(* A table, a view of it and a trigger on it; or three views in a row.      *)
(***************************************************************************)
EXTENDS CopySchema, TLC

Plain == [dry_run |-> FALSE, destructive |-> FALSE]
Force == [dry_run |-> FALSE, destructive |-> TRUE]
DryRun == [dry_run |-> TRUE, destructive |-> FALSE]

AllOptions == {Plain, Force, DryRun}
PlainOnly == {Plain}
ForceOnly == {Force}

\* Each key needs the key of the table, or the next one of the chain.
TableFirst == [k \in Keys |-> IF k \in Tables THEN {} ELSE Tables]
Chain == "view1" :> {"view2"} @@ "view2" :> {"view3"} @@ "view3" :> {}

VersionSymmetry == Permutations(Versions)
=============================================================================
