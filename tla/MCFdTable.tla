----------------------------- MODULE MCFdTable -----------------------------
(* Instances of FdTable for TLC: every file is one unit long; tables, and   *)
(* processes other than the first, are interchangeable.  A behaviour keeps  *)
(* to one of two bounds: a father, one child and all descriptors, or all    *)
(* processes and one descriptor each.                                       *)
EXTENDS FdTable, TLC

VARIABLE bound

Sizes == [f \in Files |-> 1]
AllFlags == {{"read"}, {"read", "write"}}

OneFork == Cardinality(Tables \ fresh') <= 2

OneDescriptor ==
    \E i \in Fds : \A t \in Tables : \A j \in Fds \ {i} : ~fd'[t][j].opened

MCInit == Init /\ bound \in {"processes", "descriptors"}

MCNext ==
    /\ Next
    /\ bound' = bound
    /\ IF bound = "processes" THEN OneDescriptor ELSE OneFork

MCSpec == MCInit /\ [][MCNext]_<<vars, bound>>

Symmetry == Permutations(Tables) \cup Permutations(Procs \ {Root})
=============================================================================
