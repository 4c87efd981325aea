------------------------------- MODULE MCCow -------------------------------
(* Instances of Cow for TLC: frames, contents, pages and the processes but  *)
(* the first are interchangeable.  A behaviour keeps to one of three        *)
(* bounds: all processes and one page, two processes and one page with      *)
(* overlapping areas, or two processes, two pages and two frames.           *)
EXTENDS Cow, TLC

VARIABLE bound

Bound(n, k, pages, frames) == [procs |-> n, areas |-> k, pages |-> pages, frames |-> frames]

Bounds ==
    UNION {{Bound(3, 1, {v}, Frames), Bound(2, 2, {v}, Frames)} : v \in Pages}
    \cup {Bound(2, 1, Pages, Frames \ {f}) : f \in Frames}

Keeps(l, a, r) ==
    /\ Cardinality(l) <= bound.procs
    /\ \A p \in Procs, v \in Pages : Len(a[p][v]) <= IF v \in bound.pages THEN bound.areas ELSE 0
    /\ \A f \in Frames \ bound.frames : r[f] = 0

\* What a free frame holds does not matter.
MCInit ==
    /\ Init /\ bound \in Bounds /\ Keeps(live, area, ref)
    /\ \A f, g \in Frames : content[f] = content[g]

MCNext ==
    /\ Next
    /\ UNCHANGED bound
    /\ Keeps(live', area', ref')

MCSpec == MCInit /\ [][MCNext]_<<vars, bound>>

Symmetry == Permutations(Frames) \cup Permutations(Values)
                \cup Permutations(Procs \ {Root}) \cup Permutations(Pages)
=============================================================================
