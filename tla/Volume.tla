------------------------------- MODULE Volume -------------------------------
(***************************************************************************)
(* What the disk holds at boot, as far as fat32.c relies on it, and how    *)
(* clusters are linked.  The image (disk__.img in the Makefile) is not in  *)
(* the repository; any disk of this shape will do.  A unit is 32 bytes: a  *)
(* directory entry, or that much of a file.                                *)
(***************************************************************************)
EXTENDS Integers, Sequences, FiniteSets

CONSTANTS
    SectorUnits,    \* VIRTIO_BLK_SECTOR_SIZE in units; also entries per sector
    MaxClusters,    \* bound: clusters of a file or of the root directory
    Disk,           \* what the disk holds at boot
    Paths           \* names of files, in the root directory or nowhere

INVALID_CLUSTER == 268435448    \* 0x0ffffff8
FatEntries == 128               \* VIRTIO_BLK_SECTOR_SIZE / sizeof(uint32_t)

\* The entry of the cluster c in the table of the disk d, on the volume v; the
\* first two entries are no cluster's.
TableSector(v, c) == v.fat + c \div FatEntries
HasNext(d, v, c) ==
    /\ c >= 2 /\ TableSector(v, c) \in DOMAIN d /\ d[TableSector(v, c)].kind = "fat"
    /\ c % FatEntries \in DOMAIN d[TableSector(v, c)].next
NextIn(d, v, c) ==
    IF HasNext(d, v, c) THEN d[TableSector(v, c)].next[c % FatEntries] ELSE INVALID_CLUSTER

\* The cluster c and those linked from it, one after the other.
Clusters(d, v, c) ==
    LET at[k \in 0 .. MaxClusters] == IF k = 0 THEN c ELSE NextIn(d, v, at[k - 1])
    IN  at

\* The sectors of the disk d that the cluster c and those linked from it are on
\* the volume v, and what they hold.
HeldBy(d, v, c) ==
    LET at == Clusters(d, v, c)
        held == {k \in DOMAIN at : at[k] # 0 /\ (at[k] - 2) + v.data \in DOMAIN d}
    IN  [k \in held |-> (at[k] - 2) + v.data]
UnitsIn(d, sectors) ==
    [i \in 0 .. SectorUnits * Cardinality(DOMAIN sectors) - 1 |->
       d[sectors[i \div SectorUnits]].units[i % SectorUnits]]

IsUnits(sector) ==
    sector = [kind |-> "units", units |-> [i \in 0 .. SectorUnits - 1 |-> sector.units[i]]]

\* The partition that is mounted: the last one of type 0x83.
Partitions == {k \in 1 .. Len(Disk[0].parts) : Disk[0].parts[k].type = "linux"}
Lba(k) == Disk[0].parts[k].lba
Mounted == CHOOSE k \in Partitions : \A j \in Partitions : j <= k
Header == Disk[Lba(Mounted)]
FatStart == Lba(Mounted) + Header.rsvd
DataStart == FatStart + Header.fats * Header.fatsz
Geometry == [fat |-> FatStart, data |-> DataStart]
SectorOf(c) == (c - 2) + DataStart

\* c and the clusters linked from it are n sectors of the disk, and what the
\* table has after the last of them is none.  A file of no cluster has cluster 0.
IsChain(c, n) ==
    LET at == Clusters(Disk, Geometry, c) IN
    /\ \A k \in 0 .. n - 1 :
         /\ at[k] \in Nat /\ HasNext(Disk, Geometry, at[k])
         /\ SectorOf(at[k]) \in DOMAIN Disk /\ IsUnits(Disk[SectorOf(at[k])])
         /\ \A j \in 0 .. k - 1 : at[j] # at[k]
    /\ at[n] \in Nat /\ ~HasNext(Disk, Geometry, at[n])
    /\ IF n = 0 THEN c = 0 ELSE at[n] # 0 /\ SectorOf(at[n]) \notin DOMAIN Disk

\* A live entry of the root directory, whose n clusters are those in root: a
\* directory has no size, and a file has clusters of its own for all of its units.
EntryOk(e, root, n) ==
    /\ e.kind \in {"reg", "dir"} => e.name \in Paths
    /\ e.kind = "dir" => e.cluster \in Nat /\ e.size = 0
    /\ e.kind = "reg" =>
         \E m \in 0 .. MaxClusters :
           /\ IsChain(e.cluster, m) /\ e.size \in 0 .. SectorUnits * m
           /\ \A j \in 0 .. m - 1, k \in 0 .. n - 1 :
                Clusters(Disk, Geometry, e.cluster)[j] # root[k]

IsRoot(c, n) ==
    LET at == Clusters(Disk, Geometry, c) IN
    /\ IsChain(c, n)
    /\ \A k \in 0 .. n - 1, i \in 0 .. SectorUnits - 1 :
         EntryOk(Disk[SectorOf(at[k])].units[i], at, n)

ASSUME VolumeAssumption ==
    /\ {SectorUnits, MaxClusters} \subseteq Nat \ {0}
    /\ \A s \in DOMAIN Disk : s \in Nat
    /\ 0 \in DOMAIN Disk /\ Partitions # {} /\ Len(Disk[0].parts) \in Nat
    /\ \A k \in Partitions :
         /\ Lba(k) \in Nat
         /\ Lba(k) \in DOMAIN Disk /\ Disk[Lba(k)].kind = "bpb" =>
              LET h == Disk[Lba(k)] IN {h.rsvd, h.fats, h.fatsz} \subseteq Nat
    /\ Lba(Mounted) \in DOMAIN Disk /\ Header.kind = "bpb"
    /\ ~HasNext(Disk, Geometry, INVALID_CLUSTER) /\ SectorOf(INVALID_CLUSTER) \notin DOMAIN Disk
    /\ \E n \in 1 .. MaxClusters : IsRoot(Header.root, n)
=============================================================================
