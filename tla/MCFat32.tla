------------------------------ MODULE MCFat32 ------------------------------
(* A small volume for TLC: of two partitions the second is FAT32.  The root    *)
(* directory has three clusters, and the files have two: the first one of Far  *)
(* is one whose link next_cluster looks for in the wrong place, where the link *)
(* of a cluster of Prog is.  Empty has none.  The directory holds a deleted    *)
(* entry with the name of a file, a directory with the name of another file,   *)
(* and a long name with that name too.                                         *)
EXTENDS Fat32, TLC

CONSTANTS Notes, Prog, Far, Empty

Names == {Notes, Prog, Far, Empty}
Descriptors == {1}
Seeks == {0, 5}
Lens == {1, 4}

Entry(k, n, c, s) == [kind |-> k, name |-> n, cluster |-> c, size |-> s]
Table(u) == [kind |-> "units", units |-> [i \in 0 .. 2 |-> u[i + 1]]]
Data(f, k) == [kind |-> "units",
               units |-> [i \in 0 .. 2 |-> [kind |-> "data", of |-> f, at |-> 3 * k + i]]]
EndMark == 268435455                    \* 0x0fffffff

\* A sector of the table, which calls that have gone astray take for units.
Links(next) == [Data("table", 0) EXCEPT !.kind = "fat"] @@ [next |-> next]

\* The volume starts at sector 2; its table is sector 3, with a copy in sector
\* 4, and cluster c is sector c + 3.
SmallDisk ==
    0 :> [kind |-> "mbr", parts |-> << [type |-> "linux", lba |-> 1],
                                       [type |-> "linux", lba |-> 2] >>] @@
    1 :> Data("other", 0) @@
    2 :> [kind |-> "bpb", rsvd |-> 1, fats |-> 2, fatsz |-> 1, root |-> 2] @@
    3 :> Links(2 :> 6 @@ 6 :> 9 @@ 9 :> EndMark @@ 3 :> 5 @@ 5 :> EndMark
               @@ 4 :> 7 @@ 7 :> EndMark @@ 36 :> 8 @@ 8 :> EndMark) @@
    4 :> Links(<<>>) @@
    5 :> Table(<< Entry("deleted", Notes, 4, 3), Entry("long", Prog, 3, 0),
                  Entry("reg", Notes, 3, 4) >>) @@
    9 :> Table(<< Entry("dir", Prog, 10, 0), Entry("reg", Prog, 4, 5),
                  Entry("reg", Far, 36, 5) >>) @@
    12 :> Table(<< Entry("reg", Empty, 0, 0), Entry("end", Prog, 0, 0),
                   Entry("end", Prog, 0, 0) >>) @@
    6 :> Data("notes", 0) @@ 8 :> Data("notes", 1) @@
    7 :> Data("prog", 0) @@ 10 :> Data("prog", 1) @@
    39 :> Data("far", 0) @@ 11 :> Data("far", 1)
=============================================================================
