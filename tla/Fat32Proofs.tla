----------------------------- MODULE Fat32Proofs ----------------------------
(***************************************************************************)
(* Proofs about Fat32 over Virtio, for every volume that VolumeAssumption  *)
(* allows, with chains anywhere in the table: until a call goes astray,    *)
(* reads and writes of any length at any offset go to the units and the    *)
(* clusters that the table says, while the device takes its time and page  *)
(* faults use the same buffers, and open and getdents64 agree with the     *)
(* directory.  A call goes astray (Walk, SeekEnd and Write of Fat32) where *)
(* fat32.c takes for the next cluster what is none: at a cluster whose link *)
(* next_cluster mistakes, beyond the last one, and in an empty file.       *)
(***************************************************************************)
EXTENDS Fat32, FiniteSetTheorems, SequenceTheorems, WellFoundedInduction, TLAPS

-----------------------------------------------------------------------------
(* The volume.                                                             *)

Units == 0 .. SectorUnits - 1
Root == Header.root
V == Geometry
C(c) == Clusters(Disk, V, c)

\* The clusters of a file, and of the root directory.
N(c) == CHOOSE n \in 0 .. MaxClusters : IsChain(c, n)
RootN == CHOOSE n \in 1 .. MaxClusters : IsRoot(Root, n)

Slots == (0 .. RootN - 1) \X Units
Entry(k, i) == Disk[SectorOf(C(Root)[k])].units[i]

\* Sectors with a part of a file.
FileSectors ==
    UNION {{SectorOf(C(Entry(s[1], s[2]).cluster)[k]) :
               k \in 0 .. N(Entry(s[1], s[2]).cluster) - 1} :
           s \in {x \in Slots : Entry(x[1], x[2]).kind = "reg"}}

\* D is the disk at boot but for what files hold.
DiskOk(D) ==
    /\ DOMAIN D = DOMAIN Disk
    /\ \A s \in DOMAIN Disk : IF s \in FileSectors THEN IsUnits(D[s]) ELSE D[s] = Disk[s]

-----------------------------------------------------------------------------
(* The queue.                                                              *)

Bufs == {"hdr", "buf", "tbuf", "mbr"}
Requests == [type : {"none", "in", "out"}, sector : Int, buf : Bufs \cup {"none"}]
BlkSet ==
    [req : Requests, avail : 0 .. IdxMod - 1, used : 0 .. IdxMod - 1, original : 0 .. IdxMod - 1,
     driver : {"idle", "built", "notify", "poll"}, seen : 0 .. IdxMod - 1,
     device : {"wait", "busy", "done"}]

\* The device has done what it was asked to.
Transferred(b) == b.device = "done" \/ (b.device = "wait" /\ b.used # b.original)

\* One request at a time, which the device has not taken, has, or has completed.
QueueOk(b) ==
    /\ b \in BlkSet
    /\ b.driver = "idle" =>
         b.avail = b.used /\ b.seen = b.used /\ b.device = "wait" /\ b.used # b.original
    /\ b.driver = "built" =>
         b.avail = b.used /\ b.seen = b.used /\ b.device = "wait" /\ b.original = b.used
    /\ b.driver \in {"notify", "poll"} =>
         /\ b.avail = (b.original + 1) % IdxMod
         /\ \/ b.device = "wait" /\ b.seen = b.original /\ b.used = b.original
            \/ b.device \in {"busy", "done"} /\ b.seen = b.avail /\ b.used = b.original
            \/ b.device = "wait" /\ b.seen = b.avail /\ b.used = b.avail

-----------------------------------------------------------------------------
(* Descriptors.                                                            *)

FileSet == [cluster : Nat, dir : Nat, index : Nat, cfo : Nat, isdir : BOOLEAN]

\* r was found in the root directory.
Found(r, kind) ==
    \E s \in Slots : LET e == Entry(s[1], s[2]) IN
        /\ r.dir = C(Root)[s[1]] /\ r.index = s[2]
        /\ e.kind = kind /\ r.cluster = e.cluster

IsReg(r) == r \in FileSet /\ ~r.isdir /\ Found(r, "reg")
IsDir(r) == r \in FileSet /\ r.isdir /\ Found(r, "dir") /\ r.cfo = 0
IsRootDir(r) == r \in FileSet /\ r.isdir /\ r.dir = 0 /\ r.cluster = Root

FileOk(d, r) == r = NoFile \/ IsReg(r) \/ (d \in Fds /\ (IsDir(r) \/ IsRootDir(r)))

\* The size of a file, and what the disk D has as its unit p.
Size(r) == Disk[SectorOf(r.dir)].units[r.index].size
UnitAt(D, r, p) == D[SectorOf(C(r.cluster)[p \div SectorUnits])].units[p % SectorUnits]

-----------------------------------------------------------------------------
(* Frames: f is a call for the descriptor r, D the disk, b fat32_buf, and  *)
(* t whether the device has done what the call has asked for.              *)

IsFrame(f) ==
    f = [op |-> f.op, fd |-> f.fd, path |-> f.path, pc |-> f.pc, cluster |-> f.cluster,
         at |-> f.at, cfo |-> f.cfo, want |-> f.want, len |-> f.len, done |-> f.done,
         skip |-> f.skip, torn |-> f.torn, got |-> f.got, was |-> f.was]

\* The kind of entry that a call looks for.
Sought(op) == IF op = "opendir" THEN "dir" ELSE "reg"

\* The first n sectors of the directory neither have it nor end the directory.
Passed(f, n) ==
    \A k \in 0 .. n - 1, i \in Units :
       /\ Entry(k, i).kind # "end"
       /\ ~ (Entry(k, i).kind = Sought(f.op) /\ Entry(k, i).name = f.path)

OpenFrame(f, r) ==
    /\ f.op \in {"open", "opendir"} /\ f.fd \in Fds \cup {Image} /\ r = NoFile
    /\ f.fd = Image => f.op = "open"
    /\ \E k \in 0 .. RootN - 1 :
         /\ f.cluster = C(Root)[k]
         /\ \/ f.pc = "scan" /\ Passed(f, k)
            \/ f.pc = "scannext" /\ Passed(f, k + 1)

EndFrame(f, r) == f.op = "end" /\ f.pc = "end" /\ f.fd \in Fds /\ IsReg(r) /\ r.cluster # 0

\* All of the first sector of the root directory.
FirstSector == [i \in 1 .. SectorUnits |-> Entry(0, i - 1)]

\* Unless a fault has hit it, it lists those of a sector that has no end.
ListFrame(f, r) ==
    /\ f.op = "list" /\ f.fd \in Fds /\ f.torn \in BOOLEAN /\ f.skip \in Nat /\ f.at = r.cfo
    /\ \/ /\ f.pc = "size" /\ IsDir(r) /\ f.torn = FALSE
          /\ f.cfo = 0 /\ f.done = 0 /\ f.len = SectorUnits
       \/ /\ IsRootDir(r) /\ f.at < SectorUnits /\ f.cluster = Root
          /\ \/ f.pc = "data" /\ f.cfo = f.at /\ f.done = 0 /\ f.len = SectorUnits - f.at
             \/ /\ f.pc = "walk" /\ f.cfo = SectorUnits /\ f.len \in Nat /\ f.done = f.len
                /\ f.at = 0 /\ f.torn = FALSE =>
                     f.got = Dirents(FirstSector) /\ \A i \in Units : Entry(0, i).kind # "end"

\* What a read or write does in the end.
Goal(f, r) == IF f.op = "read" /\ f.at + f.want > Size(r) THEN Size(r) - f.at ELSE f.want

\* The offset cfo from cluster k on is where the call is.
Reached(f, r, k) == SectorUnits * k + f.cfo = f.at + f.done /\ f.cluster = C(r.cluster)[k]

\* Where a call is in its file.
Aimed(f, r) ==
    /\ f.op \in {"read", "write"} /\ f.fd \in Fds \cup {Image} /\ IsReg(r)
    /\ f.at = r.cfo /\ f.want \in Nat \ {0} /\ f.skip \in Nat /\ f.torn \in BOOLEAN
    /\ f.cfo \in Nat /\ f.done \in Nat /\ f.len \in Nat
    /\ f.op = "read" /\ (f.pc # "size" \/ f.fd = Image) => f.at <= Size(r)
    /\ f.op = "write" => r.cluster # 0
Placed(f, r) == Aimed(f, r) /\ \E k \in 0 .. N(r.cluster) : Reached(f, r, k)

\* What it waits for.
Waits(f, r) ==
    \/ /\ f.pc = "size" /\ f.len = f.want /\ f.done = 0 /\ f.cfo = f.at /\ f.torn = FALSE
       /\ f.cluster = r.cluster
    \/ /\ f.pc \in {"walk", "data", "stored"}
       /\ f.len = Goal(f, r) /\ f.len # 0 /\ f.done <= f.len
       /\ f.pc = "walk" => f.cfo >= SectorUnits
       /\ f.pc # "walk" => f.cfo < SectorUnits /\ f.done < f.len
       /\ f.pc = "stored" => f.op = "write"

\* What it has read so far.
HasRead(f, r, D) == f.got = [i \in 1 .. f.done |-> UnitAt(D, r, f.at + i - 1)]

\* Unit p of the file after the first n units of a write, and those on the disk.
After(f, n, p) == IF p \in f.at .. f.at + n - 1 THEN User(p - f.at) ELSE f.was[p]
Written(f, r, D, n) == \A p \in 0 .. SectorUnits * N(r.cluster) - 1 : UnitAt(D, r, p) = After(f, n, p)

\* The sector on its way to the disk.
Patch(f, r, b) ==
    \A k \in 0 .. N(r.cluster) - 1 : Reached(f, r, k) =>
       \A i \in Units : b.units[i] = After(f, f.done + Chunk(f), SectorUnits * k + i)

HasWritten(f, r, D, b, t) ==
    /\ f.was = [p \in 0 .. SectorUnits * N(r.cluster) - 1 |-> f.was[p]]
    /\ IF f.pc # "stored" THEN Written(f, r, D, f.done)
       ELSE Patch(f, r, b) /\ Written(f, r, D, f.done + (IF t THEN Chunk(f) ELSE 0))

\* Unless a fault has hit it.
RwFrame(f, r, D, b, t) ==
    /\ Placed(f, r) /\ Waits(f, r)
    /\ \/ f.torn
       \/ f.skip = 0 /\ f.op = "read" /\ HasRead(f, r, D)
       \/ f.skip = 0 /\ f.op = "write" /\ HasWritten(f, r, D, b, t)

\* The sector that a call waits for.
In(sector, buf) == [type |-> "in", sector |-> sector, buf |-> buf]
Want(f, r, v) ==
    CASE f.pc = "parts" /\ f.done = 1 -> In(0, "mbr")
      [] f.pc = "parts" /\ f.done # 1 -> In(v.fat, "buf")
      [] f.pc = "header" -> In(Lba(f.done - 1), "hdr")
      [] f.pc = "size" -> In(SectorOf(r.dir), "buf")
      [] f.pc = "end" -> In(SectorOf(r.cluster), "buf")
      [] f.pc \in {"scan", "data"} -> In(SectorOf(f.cluster), "buf")
      [] f.pc \in {"scannext", "walk"} -> In(FatStart + (f.cluster * 4) \div (4 * FatEntries), "tbuf")
      [] f.pc = "stored" -> [type |-> "out", sector |-> SectorOf(f.cluster), buf |-> "buf"]
      [] OTHER -> NoRequest

\* Calls that have waited, and have their sector when they go on; one that a
\* fault has hit finds the buffer as the fault left it.
Relies(f) ==
    f.pc \notin {"mbr", "lost"} /\ ~ (f.pc = "parts" /\ f.done # 1) /\ ~ (f.pc = "data" /\ f.torn)

\* The buffer and the sector agree once the device is done.
Served(w, m, D) == w.sector \in DOMAIN Disk => m[w.buf] = D[w.sector]

-----------------------------------------------------------------------------
(* The inductive invariant.                                                *)

MemInv == mem = [b \in Bufs |-> mem[b]]

FileInv ==
    /\ file = [d \in Fds \cup {Image} |-> file[d]]
    /\ \A d \in Fds \cup {Image} : FileOk(d, file[d])

\* Once a file has been found, the shared buffer holds units.
BufInv == (\E d \in Fds \cup {Image} : IsReg(file[d])) => IsUnits(mem["buf"])

\* mbr_init and partition_init.
MountOk(f, v, m, idle) ==
    /\ f.op = "mount" /\ f.fd = Image /\ v \in [fat : Nat, data : Nat]
    /\ m["hdr"].kind = "bpb" => {m["hdr"].rsvd, m["hdr"].fats, m["hdr"].fatsz} \subseteq Nat
    /\ \/ f.pc = "mbr" /\ f.done = 0 /\ idle
       \/ f.pc = "parts" /\ f.done = 1
       \/ /\ f.pc = "parts" /\ f.done \in Nat /\ f.done > 1 /\ m["mbr"] = Disk[0]
          /\ f.done > Mounted => v = V /\ m["hdr"] = Header
       \/ f.pc = "header" /\ f.done \in Nat /\ f.done - 1 \in Partitions /\ m["mbr"] = Disk[0]

Ours == volume = V /\ mem["hdr"] = Header

FrameOk(f, r, D, b, t) ==
    OpenFrame(f, r) \/ EndFrame(f, r) \/ ListFrame(f, r) \/ (RwFrame(f, r, D, b, t) /\ f.fd \in Fds)

\* A call that a fault has hit.
Hit(g, r, D, b, t) ==
    /\ RwFrame(g, r, D, b, t) \/ ListFrame(g, r)
    /\ g.fd \in Fds /\ g.torn = TRUE /\ g.pc = "data"

\* The calls: a fault's read may be in front of the call that it has hit.
CallsInv ==
    \/ calls = <<>> /\ Ours /\ Idle
    \/ \E f \in {Head(calls)} : calls = <<f>> /\ Ours /\ Idle /\ f.pc = "lost"
    \/ \E f \in {Head(calls)} :
         /\ calls = <<f>> /\ IsFrame(f)
         /\ MountOk(f, volume, mem, Idle) /\ disk = Disk /\ last = NoResult
         /\ \A d \in Fds \cup {Image} : file[d] = NoFile
    \/ \E f \in {Head(calls)} :
         /\ calls = <<f>> /\ IsFrame(f) /\ Ours
         /\ FrameOk(f, file[f.fd], disk, mem["buf"], Transferred(blk))
    \/ \E f \in {Head(calls)}, g \in {Head(Tail(calls))} :
         /\ calls = <<f, g>> /\ IsFrame(f) /\ IsFrame(g) /\ Ours
         /\ RwFrame(f, file[f.fd], disk, mem["buf"], Transferred(blk))
         /\ f.fd = Image /\ f.op = "read" /\ f.torn = FALSE
         /\ Hit(g, file[g.fd], disk, mem["buf"], Transferred(blk))

\* The call waits for no other sector than its own, and has it when it goes on.
RequestInv ==
    calls # <<>> =>
      LET w == Want(top, file[top.fd], volume) IN
      /\ ~Idle => blk.req = w
      /\ Transferred(blk) /\ Relies(top) => Served(w, mem, disk)

\* The call that returned last; nothing has happened to the disk since.
LastInv ==
    last # NoResult => Idle /\ ReadsExact /\ WritesExact /\ OpenFinds /\ ListsWhatOpens

Inv ==
    /\ QueueOk(blk) /\ MemInv /\ DiskOk(disk) /\ FileInv /\ BufInv
    /\ CallsInv /\ RequestInv /\ LastInv

-----------------------------------------------------------------------------
(* Numbers.                                                                *)

\* A non-empty set of natural numbers has a least element.
LEMMA NatMin ==
    ASSUME NEW S \in SUBSET Nat, S # {}
    PROVE  \E i \in S : \A j \in S : i <= j
<1>1. IsWellFoundedOn(OpToRel(<, Nat), Nat)
  BY NatLessThanWellFounded
<1>2. PICK x \in S : \A y \in S : ~ (<<y, x>> \in OpToRel(<, Nat))
  BY <1>1, WFMin
<1>3. \A y \in S : ~ (y < x)
  BY <1>2 DEF OpToRel
<1> QED BY <1>3

\* Induction: what holds of 0 and of the successor of whatever it holds of.
LEMMA NatByInduction ==
    ASSUME NEW T \in SUBSET Nat, 0 \in T, \A n \in T : n + 1 \in T
    PROVE  T = Nat
<1>1. ASSUME Nat \ T # {} PROVE FALSE
  <2>1. PICK i \in Nat \ T : \A j \in Nat \ T : i <= j
    BY <1>1, NatMin
  <2>2. i # 0 /\ i - 1 \in Nat /\ i - 1 \notin Nat \ T
    BY <2>1
  <2>3. (i - 1) + 1 \in T
    BY <2>2
  <2> QED BY <2>1, <2>3
<1> QED BY <1>1

\* Quotient and remainder.
LEMMA DivMod ==
    ASSUME NEW R \in Nat \ {0}, NEW p \in Int
    PROVE  /\ p \div R \in Int /\ p % R \in 0 .. R - 1
           /\ p = R * (p \div R) + (p % R)
  BY Z3

\* They are the only ones.
LEMMA DivUnique ==
    ASSUME NEW R \in Nat \ {0}, NEW p \in Int, NEW q \in Int, NEW r \in 0 .. R - 1, p = R * q + r
    PROVE  p \div R = q /\ p % R = r
<1>1. PICK a \in Int, b \in 0 .. R - 1 : a = p \div R /\ b = p % R /\ p = R * a + b
  BY DivMod
<1>2. ~ (a < q)
  <2> SUFFICES ASSUME a < q PROVE FALSE
    OBVIOUS
  <2>1. R * (a + 1) <= R * q
    BY Z3
  <2>2. R * (a + 1) = R * a + R
    BY Z3
  <2> QED BY <1>1, <2>1, <2>2, Z3
<1>3. ~ (q < a)
  <2> SUFFICES ASSUME q < a PROVE FALSE
    OBVIOUS
  <2>1. R * (q + 1) <= R * a
    BY Z3
  <2>2. R * (q + 1) = R * q + R
    BY Z3
  <2> QED BY <1>1, <2>1, <2>2, Z3
<1>4. a = q
  BY <1>2, <1>3
<1> QED BY <1>1, <1>4

-----------------------------------------------------------------------------
(* Chains of clusters.                                                     *)

\* Clusters follows the table.
LEMMA ClustersIs ==
    ASSUME NEW d, NEW v, NEW c
    PROVE  LET at == Clusters(d, v, c) IN
           /\ at = [k \in 0 .. MaxClusters |-> at[k]] /\ at[0] = c
           /\ \A k \in 1 .. MaxClusters : at[k] = NextIn(d, v, at[k - 1])
<1> DEFINE D == 0 .. MaxClusters
           step(x) == NextIn(d, v, x)
           rhs(f) == [k \in D |-> IF k = 0 THEN c ELSE step(f[k - 1])]
           Is(f) == f = rhs(f)
           Good(f, n) == f[0] = c /\ \A k \in D : 0 < k /\ k <= n => f[k] = step(f[k - 1])
           Fn(f) == f = [k \in D |-> f[k]]
           T == {n \in Nat : \E f : Fn(f) /\ Good(f, n)}
<1>0. MaxClusters \in Nat \ {0}
  BY VolumeAssumption
<1>1. 0 \in T
  <2> DEFINE f == [k \in D |-> c]
  <2>1. Fn(f) /\ Good(f, 0)
    BY <1>0
  <2> HIDE DEF f, Fn, Good
  <2> QED BY <2>1
<1>2. ASSUME NEW n \in T PROVE n + 1 \in T
  <2>1. PICK f : Fn(f) /\ Good(f, n)
    OBVIOUS
  <2> DEFINE g == [k \in D |-> IF k = n + 1 THEN step(f[n]) ELSE f[k]]
  <2>2. n \in Nat /\ g[0] = c
    BY <1>0, <2>1
  <2>3. ASSUME NEW k \in D, 0 < k, k <= n + 1 PROVE g[k] = step(g[k - 1])
    <3>1. k - 1 \in D /\ k - 1 # n + 1 /\ g[k - 1] = f[k - 1]
      BY <1>0, <2>2, <2>3
    <3>2. CASE k = n + 1
      <4>1. g[k] = step(f[n]) /\ k - 1 = n
        BY <2>2, <3>2
      <4> HIDE DEF step, g
      <4> QED BY <3>1, <4>1
    <3>3. CASE k # n + 1
      <4>1. g[k] = f[k] /\ k <= n
        BY <2>2, <2>3, <3>3
      <4>2. f[k] = step(f[k - 1])
        BY <2>1, <2>3, <4>1
      <4> HIDE DEF step, g
      <4> QED BY <3>1, <4>1, <4>2
    <3> QED BY <3>2, <3>3
  <2>4. Fn(g) /\ Good(g, n + 1)
    <3>1. Fn(g)
      OBVIOUS
    <3> HIDE DEF g, step, Fn
    <3> QED BY <2>2, <2>3, <3>1
  <2> HIDE DEF g, Good, Fn
  <2> QED BY <2>2, <2>4
<1>3. MaxClusters \in T
  <2>1. T \in SUBSET Nat
    OBVIOUS
  <2> HIDE DEF T
  <2> QED BY <1>0, <1>1, <1>2, <2>1, NatByInduction
<1>4. PICK f : Fn(f) /\ Good(f, MaxClusters)
  BY <1>3
<1>5. Is(f)
  <2>1. \A k \in D : f[k] = IF k = 0 THEN c ELSE step(f[k - 1])
    <3> HIDE DEF step
    <3> QED BY <1>0, <1>4
  <2> HIDE DEF step
  <2> QED BY <1>4, <2>1
<1>6. Clusters(d, v, c) = CHOOSE g : Is(g)
  BY DEF Clusters
<1>7. PICK g : g = Clusters(d, v, c) /\ Is(g)
  <2> HIDE DEF Is
  <2> QED BY <1>5, <1>6
<1>8. g = [k \in D |-> g[k]] /\ g[0] = c /\ \A k \in 1 .. MaxClusters : g[k] = step(g[k - 1])
  <2> HIDE DEF step
  <2>1. \A k \in D : g[k] = IF k = 0 THEN c ELSE step(g[k - 1])
    BY <1>7
  <2>2. \A k \in 1 .. MaxClusters : k \in D /\ k # 0
    BY <1>0
  <2> QED BY <1>0, <1>7, <2>1, <2>2
<1> QED BY <1>7, <1>8

\* The constants of the volume.
LEMMA VolumeFacts ==
    /\ SectorUnits \in Nat \ {0} /\ MaxClusters \in Nat \ {0}
    /\ \A s \in DOMAIN Disk : s \in Nat
    /\ 0 \in DOMAIN Disk
    /\ Mounted \in Partitions /\ \A j \in Partitions : j <= Mounted
    /\ Lba(Mounted) \in DOMAIN Disk /\ Lba(Mounted) \in Nat /\ Header.kind = "bpb"
    /\ FatStart \in Nat /\ DataStart \in Nat /\ V.fat = FatStart /\ V.data = DataStart
    /\ V \in [fat : Nat, data : Nat] /\ V = [fat |-> FatStart, data |-> DataStart]
    /\ SectorOf(INVALID_CLUSTER) \notin DOMAIN Disk /\ ~HasNext(Disk, V, INVALID_CLUSTER)
<1>1. Mounted \in Partitions /\ \A j \in Partitions : j <= Mounted
  <2> DEFINE L == Len(Disk[0].parts)
             S == {L - k : k \in Partitions}
  <2>1. L \in Nat /\ Partitions # {} /\ \A k \in Partitions : k \in 1 .. L
    BY VolumeAssumption DEF Partitions
  <2>2. S \in SUBSET Nat /\ S # {}
    BY <2>1
  <2>3. PICK i \in S : \A j \in S : i <= j
    <3> HIDE DEF S
    <3> QED BY <2>2, NatMin
  <2>4. PICK k \in Partitions : i = L - k
    BY <2>3
  <2>5. ASSUME NEW j \in Partitions PROVE j <= k
    <3>1. i <= L - j
      BY <2>3
    <3> HIDE DEF L
    <3> QED BY <2>1, <2>4, <3>1
  <2> QED BY <2>5 DEF Mounted
<1>2. Lba(Mounted) \in Nat /\ {Header.rsvd, Header.fats, Header.fatsz} \subseteq Nat
  BY <1>1, VolumeAssumption DEF Header
<1>3. FatStart \in Nat /\ DataStart \in Nat
  <2>1. PICK x \in Nat, y \in Nat : x = Header.fats /\ y = Header.fatsz
    BY <1>2
  <2>2. x * y \in Nat
    BY <2>1
  <2> QED BY <1>2, <2>1, <2>2 DEF FatStart, DataStart
<1>4. /\ V.fat = FatStart /\ V.data = DataStart /\ V \in [fat : Nat, data : Nat]
      /\ V = [fat |-> FatStart, data |-> DataStart]
  BY <1>3 DEF V, Geometry
<1>5. ~HasNext(Disk, V, INVALID_CLUSTER)
  BY VolumeAssumption DEF V
<1> QED BY <1>1, <1>2, <1>3, <1>4, <1>5, VolumeAssumption

\* Sectors of clusters, one to one.
LEMMA SectorFacts ==
    /\ \A c \in Int : SectorOf(c) \in Int /\ SectorOf(c) = (c - 2) + DataStart
    /\ \A c, e \in Int : SectorOf(c) = SectorOf(e) => c = e
    /\ \A c \in Nat : SectorOf(c) \in Int
<1>1. DataStart \in Nat
  BY VolumeFacts
<1> QED BY <1>1 DEF SectorOf

\* The clusters from c on, of which n are on the disk.
OnChain(c, n) ==
    /\ n \in 0 .. MaxClusters /\ C(c)[0] = c /\ (n = 0 <=> c = 0)
    /\ \A k \in 0 .. n - 1 :
         /\ HasNext(Disk, V, C(c)[k]) /\ C(c)[k] \in Nat \ {0}
         /\ SectorOf(C(c)[k]) \in DOMAIN Disk /\ IsUnits(Disk[SectorOf(C(c)[k])])
         /\ C(c)[k + 1] = NextIn(Disk, V, C(c)[k])
    /\ \A j, k \in 0 .. n - 1 : C(c)[j] = C(c)[k] => j = k
    /\ \A k \in 0 .. n : C(c)[k] \in Nat
    /\ \A k \in n .. MaxClusters : C(c)[k] = 0 \/ SectorOf(C(c)[k]) \notin DOMAIN Disk
    /\ ~HasNext(Disk, V, C(c)[n]) /\ (n # 0 => SectorOf(C(c)[n]) \notin DOMAIN Disk)
    /\ DOMAIN C(c) = 0 .. MaxClusters

\* What IsChain says.
LEMMA ChainIs ==
    ASSUME NEW c, NEW n \in 0 .. MaxClusters, IsChain(c, n)
    PROVE  OnChain(c, n)
<1>0. MaxClusters \in Nat /\ n \in Nat
  BY VolumeFacts
<1> DEFINE at == C(c)
<1>1. /\ at = [k \in 0 .. MaxClusters |-> at[k]] /\ at[0] = c
      /\ \A k \in 1 .. MaxClusters : at[k] = NextIn(Disk, V, at[k - 1])
  BY ClustersIs DEF C
<1>2. /\ \A k \in 0 .. n - 1 :
           /\ at[k] \in Nat /\ HasNext(Disk, V, at[k])
           /\ SectorOf(at[k]) \in DOMAIN Disk /\ IsUnits(Disk[SectorOf(at[k])])
           /\ \A j \in 0 .. k - 1 : at[j] # at[k]
      /\ at[n] \in Nat /\ ~HasNext(Disk, V, at[n])
      /\ IF n = 0 THEN c = 0 ELSE at[n] # 0 /\ SectorOf(at[n]) \notin DOMAIN Disk
  BY DEF IsChain, C, V, Geometry
<1> HIDE DEF at
<1>3. ASSUME NEW k \in 0 .. n - 1 PROVE at[k + 1] = NextIn(Disk, V, at[k]) /\ at[k] # 0
  <2>1. k + 1 \in 1 .. MaxClusters /\ (k + 1) - 1 = k
    BY <1>0
  <2>2. at[k] >= 2
    BY <1>2 DEF HasNext
  <2>3. at[k] \in Nat /\ at[k] # 0
    BY <1>2, <2>2
  <2> QED BY <1>1, <2>1, <2>3
<1>4. ASSUME NEW j \in 0 .. n - 1, NEW k \in 0 .. n - 1, at[j] = at[k] PROVE j = k
  <2>1. j \in 0 .. k - 1 \/ k \in 0 .. j - 1 \/ j = k
    BY <1>0
  <2> QED BY <1>2, <1>4, <2>1
<1>5. ASSUME NEW k \in 0 .. n PROVE at[k] \in Nat
  <2>1. k = n \/ k \in 0 .. n - 1
    BY <1>0
  <2> QED BY <1>2, <2>1
<1>6. ASSUME NEW k \in n .. MaxClusters PROVE at[k] = 0 \/ SectorOf(at[k]) \notin DOMAIN Disk
  <2>1. CASE k = n
    BY <1>1, <1>2, <2>1
  <2>2. CASE k # n
    <3>1. at[n + 1] = INVALID_CLUSTER
      <4>1. n + 1 \in 1 .. MaxClusters /\ (n + 1) - 1 = n
        BY <1>0, <2>2
      <4> QED BY <1>1, <1>2, <4>1 DEF NextIn
    <3> DEFINE U == {i \in Nat : n + 1 + i <= MaxClusters => at[n + 1 + i] = INVALID_CLUSTER}
    <3>2. 0 \in U
      BY <1>0, <3>1
    <3>3. ASSUME NEW i \in U PROVE i + 1 \in U
      <4> SUFFICES ASSUME n + 1 + (i + 1) <= MaxClusters
                   PROVE  at[n + 1 + (i + 1)] = INVALID_CLUSTER
        OBVIOUS
      <4>1. n + 1 + i <= MaxClusters /\ n + 1 + (i + 1) \in 1 .. MaxClusters
            /\ (n + 1 + (i + 1)) - 1 = n + 1 + i
        BY <1>0
      <4>2. at[n + 1 + i] = INVALID_CLUSTER
        BY <4>1
      <4>3. NextIn(Disk, V, INVALID_CLUSTER) = INVALID_CLUSTER
        BY VolumeAssumption DEF NextIn, V, Geometry
      <4> QED BY <1>1, <4>1, <4>2, <4>3
    <3>4. U = Nat
      <4>1. U \in SUBSET Nat
        OBVIOUS
      <4> HIDE DEF U
      <4> QED BY <3>2, <3>3, <4>1, NatByInduction
    <3>5. PICK d \in Nat : k = n + 1 + d
      <4>1. k - (n + 1) \in Nat /\ k = n + 1 + (k - (n + 1))
        BY <1>0, <2>2
      <4> QED BY <4>1
    <3>6. at[k] = INVALID_CLUSTER
      <4>1. d \in U
        BY <3>4
      <4>2. n + 1 + d <= MaxClusters
        BY <1>0, <3>5
      <4> QED BY <3>5, <4>1, <4>2
    <3> QED BY <3>6, VolumeFacts
  <2> QED BY <2>1, <2>2
<1>7. DOMAIN at = 0 .. MaxClusters
  BY <1>1
<1>8. n = 0 <=> c = 0
  <2>1. n # 0 => 0 \in 0 .. n - 1
    BY <1>0
  <2> QED BY <1>1, <1>2, <1>3, <2>1
<1> QED BY <1>0, <1>1, <1>2, <1>3, <1>4, <1>5, <1>6, <1>7, <1>8 DEF OnChain, at

\* A chain has one length.
LEMMA NIs ==
    ASSUME NEW c, NEW n \in 0 .. MaxClusters, IsChain(c, n)
    PROVE  N(c) = n /\ OnChain(c, N(c))
<1>1. N(c) \in 0 .. MaxClusters /\ IsChain(c, N(c))
  BY DEF N
<1>2. ASSUME NEW i \in 0 .. MaxClusters, NEW j \in 0 .. MaxClusters, i < j,
             OnChain(c, i), OnChain(c, j)
      PROVE  FALSE
  <2>1. i \in 0 .. j - 1
    BY <1>2, VolumeFacts
  <2> QED BY <1>2, <2>1 DEF OnChain
<1>3. OnChain(c, n) /\ OnChain(c, N(c))
  BY <1>1, ChainIs
<1>4. ~ (N(c) < n) /\ ~ (n < N(c))
  BY <1>1, <1>2, <1>3
<1> QED BY <1>1, <1>3, <1>4

\* The root directory.
LEMMA RootIs ==
    /\ RootN \in 1 .. MaxClusters /\ IsRoot(Root, RootN) /\ OnChain(Root, RootN)
    /\ Root \in Nat \ {0} /\ C(Root)[0] = Root
<1>1. RootN \in 1 .. MaxClusters /\ IsRoot(Root, RootN)
  BY VolumeAssumption DEF RootN, Root
<1>2. OnChain(Root, RootN)
  BY <1>1, ChainIs DEF IsRoot
<1>3. 0 \in 0 .. RootN - 1
  BY <1>1, VolumeFacts
<1> QED BY <1>1, <1>2, <1>3 DEF OnChain

\* Its entries.
LEMMA EntryFacts ==
    ASSUME NEW s \in Slots
    PROVE  LET e == Entry(s[1], s[2]) IN
           /\ e.kind \in {"reg", "dir"} => e.name \in Paths /\ e.cluster \in Nat
           /\ e.kind = "dir" => e.size = 0
           /\ e.kind = "reg" =>
                /\ OnChain(e.cluster, N(e.cluster)) /\ e.size \in 0 .. SectorUnits * N(e.cluster)
                /\ \A j \in 0 .. N(e.cluster) - 1, k \in 0 .. RootN - 1 :
                     C(e.cluster)[j] # C(Root)[k]
                /\ \A j \in 0 .. N(e.cluster) - 1 : SectorOf(C(e.cluster)[j]) \in FileSectors
<1> DEFINE e == Entry(s[1], s[2])
<1>1. s[1] \in 0 .. RootN - 1 /\ s[2] \in 0 .. SectorUnits - 1
  BY DEF Slots, Units
<1>2. EntryOk(e, C(Root), RootN)
  BY <1>1, RootIs DEF IsRoot, Entry, C, V, Geometry
<1>3. CASE e.kind = "reg"
  <2>1. PICK m \in 0 .. MaxClusters :
          /\ IsChain(e.cluster, m) /\ e.size \in 0 .. SectorUnits * m
          /\ \A j \in 0 .. m - 1, k \in 0 .. RootN - 1 : C(e.cluster)[j] # C(Root)[k]
    <3> HIDE DEF e
    <3> QED BY <1>2, <1>3 DEF EntryOk, C, V, Geometry
  <2>2. N(e.cluster) = m /\ OnChain(e.cluster, N(e.cluster))
    <3> HIDE DEF e
    <3> QED BY <2>1, NIs
  <2>3. \A j \in 0 .. N(e.cluster) - 1 : SectorOf(C(e.cluster)[j]) \in FileSectors
    BY <1>3 DEF FileSectors
  <2>4. e.cluster \in Nat
    <3> HIDE DEF e
    <3>1. 0 \in 0 .. N(e.cluster)
      BY <2>1, <2>2, VolumeFacts
    <3> QED BY <2>2, <3>1 DEF OnChain
  <2> HIDE DEF e
  <2>5. e.name \in Paths
    BY <1>2, <1>3 DEF EntryOk
  <2> QED BY <1>3, <2>1, <2>2, <2>3, <2>4, <2>5 DEF e
<1>4. CASE e.kind # "reg"
  <2> HIDE DEF e
  <2> QED BY <1>2, <1>4 DEF EntryOk, e
<1> QED BY <1>3, <1>4

\* Tables and directories are apart from the files.
LEMMA Apart ==
    /\ \A y \in FileSectors : y \in DOMAIN Disk => IsUnits(Disk[y])
    /\ \A k \in 0 .. RootN - 1 :
         /\ SectorOf(C(Root)[k]) \in DOMAIN Disk /\ SectorOf(C(Root)[k]) \notin FileSectors
         /\ IsUnits(Disk[SectorOf(C(Root)[k])]) /\ C(Root)[k] \in Nat \ {0}
<1>1. ASSUME NEW s \in Slots, Entry(s[1], s[2]).kind = "reg",
             NEW j \in 0 .. N(Entry(s[1], s[2]).cluster) - 1
      PROVE  LET x == C(Entry(s[1], s[2]).cluster)[j] IN
             /\ IsUnits(Disk[SectorOf(x)])
             /\ \A k \in 0 .. RootN - 1 : SectorOf(x) # SectorOf(C(Root)[k])
  <2> DEFINE c == Entry(s[1], s[2]).cluster
             x == C(c)[j]
  <2>1. OnChain(c, N(c)) /\ \A k \in 0 .. RootN - 1 : x # C(Root)[k]
    BY <1>1, EntryFacts
  <2>2. j \in 0 .. N(c) - 1
    BY <1>1
  <2>3. x \in Nat \ {0}
    <3> HIDE DEF c
    <3> QED BY <2>1, <2>2 DEF OnChain
  <2>4. \A k \in 0 .. RootN - 1 : C(Root)[k] \in Nat \ {0}
    BY RootIs DEF OnChain
  <2> HIDE DEF x
  <2>5. \A k \in 0 .. RootN - 1 : SectorOf(x) # SectorOf(C(Root)[k])
    <3> TAKE k \in 0 .. RootN - 1
    <3>1. x \in Int /\ C(Root)[k] \in Int /\ x # C(Root)[k]
      BY <2>1, <2>3, <2>4 DEF x
    <3> QED BY <3>1, SectorFacts
  <2>6. IsUnits(Disk[SectorOf(x)])
    <3> HIDE DEF c
    <3> QED BY <2>1, <2>2 DEF OnChain, x
  <2> QED BY <2>5, <2>6 DEF x
<1>2. \A y \in FileSectors : IsUnits(Disk[y]) /\ \A k \in 0 .. RootN - 1 : y # SectorOf(C(Root)[k])
  <2> TAKE y \in FileSectors
  <2>1. PICK s \in Slots :
          /\ Entry(s[1], s[2]).kind = "reg"
          /\ \E j \in 0 .. N(Entry(s[1], s[2]).cluster) - 1 :
               y = SectorOf(C(Entry(s[1], s[2]).cluster)[j])
    BY DEF FileSectors
  <2> QED BY <1>1, <2>1
<1>3. \A k \in 0 .. RootN - 1 :
         /\ SectorOf(C(Root)[k]) \in DOMAIN Disk
         /\ IsUnits(Disk[SectorOf(C(Root)[k])]) /\ C(Root)[k] \in Nat \ {0}
  BY RootIs DEF OnChain
<1> QED BY <1>2, <1>3

\* What was found in the root directory.
LEMMA FoundFacts ==
    ASSUME NEW r, NEW kind, Found(r, kind)
    PROVE  /\ r.dir \in Nat \ {0} /\ r.index \in Units
           /\ SectorOf(r.dir) \in DOMAIN Disk /\ SectorOf(r.dir) \notin FileSectors
           /\ IsUnits(Disk[SectorOf(r.dir)])
           /\ kind = "dir" => Size(r) = 0
<1>1. PICK s \in Slots : r.dir = C(Root)[s[1]] /\ r.index = s[2] /\ Entry(s[1], s[2]).kind = kind
  BY DEF Found
<1>2. s[1] \in 0 .. RootN - 1 /\ s[2] \in Units
  BY DEF Slots
<1>3. kind = "dir" => Size(r) = 0
  BY <1>1, EntryFacts DEF Size, Entry
<1> QED BY <1>1, <1>2, <1>3, Apart

\* A file.
LEMMA RegFacts ==
    ASSUME NEW r, IsReg(r)
    PROVE  /\ OnChain(r.cluster, N(r.cluster)) /\ Size(r) \in 0 .. SectorUnits * N(r.cluster)
           /\ N(r.cluster) \in 0 .. MaxClusters /\ (N(r.cluster) = 0 <=> r.cluster = 0)
           /\ \A j \in 0 .. N(r.cluster) - 1 : SectorOf(C(r.cluster)[j]) \in FileSectors
           /\ r # NoFile /\ ~r.isdir
<1>1. PICK s \in Slots : LET e == Entry(s[1], s[2]) IN
         r.dir = C(Root)[s[1]] /\ r.index = s[2] /\ e.kind = "reg" /\ r.cluster = e.cluster
  BY DEF IsReg, Found
<1>2. Size(r) = Entry(s[1], s[2]).size
  BY <1>1 DEF Size, Entry
<1>3. r.dir # 0 /\ ~r.isdir
  BY FoundFacts DEF IsReg
<1>4. N(r.cluster) \in 0 .. MaxClusters /\ (N(r.cluster) = 0 <=> r.cluster = 0)
  BY <1>1, EntryFacts DEF OnChain
<1> QED BY <1>1, <1>2, <1>3, <1>4, EntryFacts DEF NoFile

-----------------------------------------------------------------------------
(* What the disk holds.                                                    *)

\* Unit p of n clusters.
LEMMA UnitPlace ==
    ASSUME NEW n \in Nat, NEW p \in 0 .. SectorUnits * n - 1
    PROVE  /\ p \div SectorUnits \in 0 .. n - 1 /\ p % SectorUnits \in Units
           /\ p = SectorUnits * (p \div SectorUnits) + (p % SectorUnits)
<1>0. SectorUnits \in Nat \ {0} /\ p \in Nat
  BY VolumeFacts
<1>1. PICK q \in Int, r \in 0 .. SectorUnits - 1 :
        q = p \div SectorUnits /\ r = p % SectorUnits /\ p = SectorUnits * q + r
  BY <1>0, DivMod
<1>2. ASSUME q < 0 PROVE FALSE
  <2>1. SectorUnits * (q + 1) <= 0
    BY <1>0, <1>1, <1>2, Z3
  <2>2. SectorUnits * (q + 1) = SectorUnits * q + SectorUnits
    BY <1>0, <1>1, Z3
  <2> QED BY <1>0, <1>1, <2>1, <2>2
<1>3. ASSUME q >= n PROVE FALSE
  <2>1. SectorUnits * n <= SectorUnits * q
    BY <1>0, <1>1, <1>3, Z3
  <2> QED BY <1>0, <1>1, <2>1
<1> QED BY <1>0, <1>1, <1>2, <1>3 DEF Units

\* Unit i of cluster k.
LEMMA PlaceUnit ==
    ASSUME NEW n \in Nat, NEW k \in 0 .. n - 1, NEW i \in Units
    PROVE  /\ SectorUnits * k + i \in 0 .. SectorUnits * n - 1
           /\ (SectorUnits * k + i) \div SectorUnits = k
           /\ (SectorUnits * k + i) % SectorUnits = i
<1>0. SectorUnits \in Nat \ {0} /\ i \in 0 .. SectorUnits - 1 /\ k \in Nat
  BY VolumeFacts DEF Units
<1>1. SectorUnits * k \in Nat /\ SectorUnits * n \in Nat
  BY <1>0
<1>2. SectorUnits * (k + 1) <= SectorUnits * n
  BY <1>0, Z3
<1>3. SectorUnits * (k + 1) = SectorUnits * k + SectorUnits
  BY <1>0, Z3
<1>4. PICK p \in Nat : p = SectorUnits * k + i
  BY <1>0, <1>1
<1>5. p \div SectorUnits = k /\ p % SectorUnits = i
  BY <1>0, <1>4, DivUnique
<1> QED BY <1>0, <1>1, <1>2, <1>3, <1>4, <1>5

\* Tables and directories stay, and files hold units.
LEMMA DiskFacts ==
    ASSUME NEW D, DiskOk(D)
    PROVE  /\ DOMAIN D = DOMAIN Disk
           /\ \A c : /\ HasNext(D, V, c) <=> HasNext(Disk, V, c)
                     /\ HasNext(Disk, V, c) => D[TableSector(V, c)] = Disk[TableSector(V, c)]
                     /\ NextIn(D, V, c) = NextIn(Disk, V, c)
           /\ \A k \in 0 .. RootN - 1 : D[SectorOf(C(Root)[k])] = Disk[SectorOf(C(Root)[k])]
           /\ \A s \in DOMAIN Disk : s \in FileSectors => IsUnits(D[s])
<1>1. DOMAIN D = DOMAIN Disk
  BY DEF DiskOk
<1>2. ASSUME NEW c
      PROVE  /\ HasNext(D, V, c) <=> HasNext(Disk, V, c)
             /\ HasNext(Disk, V, c) => D[TableSector(V, c)] = Disk[TableSector(V, c)]
  <2>1. CASE TableSector(V, c) \in DOMAIN Disk /\ TableSector(V, c) \in FileSectors
    <3>1. IsUnits(D[TableSector(V, c)]) /\ IsUnits(Disk[TableSector(V, c)])
      BY <2>1, Apart DEF DiskOk
    <3>2. D[TableSector(V, c)].kind = "units" /\ Disk[TableSector(V, c)].kind = "units"
      BY <3>1 DEF IsUnits
    <3> QED BY <3>2 DEF HasNext
  <2>2. CASE ~ (TableSector(V, c) \in DOMAIN Disk /\ TableSector(V, c) \in FileSectors)
    BY <1>1, <2>2 DEF DiskOk, HasNext
  <2> QED BY <2>1, <2>2
<1>3. \A c : NextIn(D, V, c) = NextIn(Disk, V, c)
  BY <1>2 DEF NextIn
<1>4. \A k \in 0 .. RootN - 1 : D[SectorOf(C(Root)[k])] = Disk[SectorOf(C(Root)[k])]
  BY Apart DEF DiskOk
<1>5. \A s \in DOMAIN Disk : s \in FileSectors => IsUnits(D[s])
  BY DEF DiskOk
<1> QED BY <1>1, <1>2, <1>3, <1>4, <1>5

\* Links stay.
LEMMA SameClusters ==
    ASSUME NEW D, DiskOk(D), NEW c
    PROVE  Clusters(D, V, c) = Clusters(Disk, V, c)
<1>1. \A x : NextIn(D, V, x) = NextIn(Disk, V, x)
  BY DiskFacts
<1>2. [at \in {0} |-> 0] = [at \in {0} |-> 0]
  OBVIOUS
<1> QED BY <1>1 DEF Clusters

\* The sectors of a chain.
LEMMA HeldIs ==
    ASSUME NEW D, DiskOk(D), NEW c, NEW n, OnChain(c, n)
    PROVE  /\ HeldBy(D, V, c) = [k \in 0 .. n - 1 |-> SectorOf(C(c)[k])]
           /\ Cardinality(DOMAIN HeldBy(D, V, c)) = n
           /\ DOMAIN HeldBy(D, V, c) = 0 .. n - 1
<1> DEFINE held == {k \in DOMAIN C(c) : C(c)[k] # 0 /\ SectorOf(C(c)[k]) \in DOMAIN Disk}
<1>0. n \in Nat /\ n <= MaxClusters /\ MaxClusters \in Nat
  BY VolumeFacts DEF OnChain
<1>1. HeldBy(D, V, c) = [k \in held |-> SectorOf(C(c)[k])]
  <2>1. Clusters(D, V, c) = C(c)
    BY SameClusters DEF C
  <2>2. DOMAIN D = DOMAIN Disk /\ V.data = DataStart
    BY DiskFacts, VolumeFacts
  <2> QED BY <2>1, <2>2 DEF HeldBy, SectorOf
<1>2. held = 0 .. n - 1
  <2>1. DOMAIN C(c) = 0 .. MaxClusters
    BY DEF OnChain
  <2>2. \A k \in 0 .. n - 1 : k \in held
    BY <1>0, <2>1 DEF OnChain
  <2>3. \A k \in held : k \in 0 .. n - 1
    <3> TAKE k \in held
    <3>1. k \in 0 .. MaxClusters /\ C(c)[k] # 0 /\ SectorOf(C(c)[k]) \in DOMAIN Disk
      BY <2>1
    <3>2. k \notin n .. MaxClusters
      BY <3>1 DEF OnChain
    <3> QED BY <1>0, <3>1, <3>2
  <2> HIDE DEF held
  <2> QED BY <2>2, <2>3
<1>3. Cardinality(0 .. n - 1) = n
  BY <1>0, FS_Interval
<1>4. HeldBy(D, V, c) = [k \in 0 .. n - 1 |-> SectorOf(C(c)[k])]
  <2> HIDE DEF held
  <2> QED BY <1>1, <1>2
<1> QED BY <1>3, <1>4

\* Their units.
Laid(D, c, n) ==
    [p \in 0 .. SectorUnits * n - 1 |->
       D[SectorOf(C(c)[p \div SectorUnits])].units[p % SectorUnits]]

\* They are what UnitsIn gives.
LEMMA UnitsIs ==
    ASSUME NEW D, DiskOk(D), NEW c, NEW n, OnChain(c, n)
    PROVE  UnitsIn(D, HeldBy(D, V, c)) = Laid(D, c, n)
<1>0. n \in Nat
  BY DEF OnChain
<1>1. PICK h : h = HeldBy(D, V, c)
  OBVIOUS
<1>2. Cardinality(DOMAIN h) = n /\ \A k \in 0 .. n - 1 : h[k] = SectorOf(C(c)[k])
  <2>1. /\ HeldBy(D, V, c) = [k \in 0 .. n - 1 |-> SectorOf(C(c)[k])]
        /\ Cardinality(DOMAIN HeldBy(D, V, c)) = n
    BY HeldIs
  <2> QED BY <1>1, <2>1
<1>3. UnitsIn(D, h) = [p \in 0 .. SectorUnits * n - 1 |->
                         D[h[p \div SectorUnits]].units[p % SectorUnits]]
  BY <1>2 DEF UnitsIn
<1>4. ASSUME NEW p \in 0 .. SectorUnits * n - 1
      PROVE  h[p \div SectorUnits] = SectorOf(C(c)[p \div SectorUnits])
  BY <1>0, <1>2, UnitPlace
<1> QED BY <1>1, <1>3, <1>4 DEF Laid

\* What a file holds.
LEMMA ContentIs ==
    ASSUME NEW D, DiskOk(D), NEW r, IsReg(r)
    PROVE  LET held == UnitsIn(D, HeldBy(D, V, r.cluster)) IN
           /\ held = Laid(D, r.cluster, N(r.cluster))
           /\ DOMAIN held = 0 .. SectorUnits * N(r.cluster) - 1
           /\ \A p \in DOMAIN held : held[p] = UnitAt(D, r, p)
<1>1. UnitsIn(D, HeldBy(D, V, r.cluster)) = Laid(D, r.cluster, N(r.cluster))
  BY RegFacts, UnitsIs
<1> QED BY <1>1 DEF Laid, UnitAt

\* Its size.
LEMMA SizeIs ==
    ASSUME NEW D, DiskOk(D), NEW r, NEW kind, Found(r, kind)
    PROVE  D[SectorOf(r.dir)].units[r.index].size = Size(r)
<1>1. D[SectorOf(r.dir)] = Disk[SectorOf(r.dir)]
  BY FoundFacts DEF DiskOk
<1> QED BY <1>1 DEF Size

-----------------------------------------------------------------------------
(* The queue.                                                              *)

\* The indexes count on.
LEMMA IndexFacts ==
    ASSUME NEW x \in 0 .. IdxMod - 1
    PROVE  (x + 1) % IdxMod \in 0 .. IdxMod - 1 /\ (x + 1) % IdxMod # x
<1>0. IdxMod \in Nat /\ IdxMod > 1
  BY VirtioAssumption
<1>1. CASE x + 1 < IdxMod
  <2>1. x + 1 = IdxMod * 0 + (x + 1) /\ x + 1 \in 0 .. IdxMod - 1
    BY <1>0, <1>1
  <2>2. (x + 1) % IdxMod = x + 1
    BY <1>0, <2>1, DivUnique
  <2> QED BY <2>1, <2>2
<1>2. CASE x + 1 = IdxMod
  <2>1. x + 1 = IdxMod * 1 + 0 /\ 0 \in 0 .. IdxMod - 1
    BY <1>0, <1>2
  <2>2. (x + 1) % IdxMod = 0
    BY <1>0, <2>1, DivUnique
  <2> QED BY <1>0, <1>2, <2>1, <2>2
<1> QED BY <1>0, <1>1, <1>2

\* A request is posted: the device has not done it.
LEMMA QueuePosts ==
    ASSUME QueueOk(blk), Idle, NEW t \in {"in", "out"}, NEW s \in Int, NEW b \in Bufs
    PROVE  /\ QueueOk(Posted(t, s, b)) /\ ~Transferred(Posted(t, s, b))
           /\ Posted(t, s, b).driver = "built"
           /\ Posted(t, s, b).req = [type |-> t, sector |-> s, buf |-> b]
<1> DEFINE q == Posted(t, s, b)
<1>1. blk \in BlkSet
  BY DEF QueueOk
<1>2. [type |-> t, sector |-> s, buf |-> b] \in Requests
  BY DEF Requests
<1>3. /\ q \in BlkSet /\ q.driver = "built" /\ q.original = blk.used /\ q.used = blk.used
      /\ q.avail = blk.avail /\ q.seen = blk.seen /\ q.device = blk.device
      /\ q.req = [type |-> t, sector |-> s, buf |-> b]
  BY <1>1, <1>2 DEF Posted, BlkSet
<1> HIDE DEF q
<1>4. blk.avail = blk.used /\ blk.seen = blk.used /\ blk.device = "wait"
  BY DEF QueueOk, Idle
<1>5. QueueOk(q) /\ ~Transferred(q)
  BY <1>3, <1>4 DEF QueueOk, Transferred
<1> QED BY <1>3, <1>5 DEF q

\* Only the device touches the disk and the buffers, for the request that is
\* posted and once.
LEMMA QueueSteps ==
    ASSUME QueueOk(blk), Driver \/ Device
    PROVE  /\ QueueOk(blk') /\ ~Idle
           /\ Transferred(blk) => Transferred(blk')
           /\ Transferred(blk') => Transferred(blk) \/ Transfer
           /\ ~Idle' => blk'.req = blk.req
           /\ Idle' => Transferred(blk)
           /\ Transfer => ~Transferred(blk) /\ ~Idle'
           /\ ~Transfer => UNCHANGED <<disk, mem>>
<1>0. /\ blk \in BlkSet
      /\ blk.used \in 0 .. IdxMod - 1 /\ blk.seen \in 0 .. IdxMod - 1
      /\ blk.original \in 0 .. IdxMod - 1 /\ blk.avail \in 0 .. IdxMod - 1
      /\ blk.driver \in {"idle", "built", "notify", "poll"}
      /\ blk.device \in {"wait", "busy", "done"}
  BY DEF QueueOk, BlkSet
<1>1. /\ blk.driver = "idle" =>
           blk.avail = blk.used /\ blk.seen = blk.used /\ blk.device = "wait" /\ blk.used # blk.original
      /\ blk.driver = "built" =>
           /\ blk.avail = blk.used /\ blk.seen = blk.used /\ blk.device = "wait"
           /\ blk.original = blk.used
      /\ blk.driver \in {"notify", "poll"} =>
           /\ blk.avail = (blk.original + 1) % IdxMod
           /\ \/ blk.device = "wait" /\ blk.seen = blk.original /\ blk.used = blk.original
              \/ blk.device \in {"busy", "done"} /\ blk.seen = blk.avail /\ blk.used = blk.original
              \/ blk.device = "wait" /\ blk.seen = blk.avail /\ blk.used = blk.avail
  BY DEF QueueOk
<1>2. PICK y \in 0 .. IdxMod - 1 : y = (blk.original + 1) % IdxMod /\ y # blk.original
  BY <1>0, IndexFacts
<1>3. CASE Publish
  <2>1. blk' = [blk EXCEPT !.avail = y, !.driver = "notify"] /\ UNCHANGED <<disk, mem>>
        /\ blk.driver = "built"
    BY <1>1, <1>2, <1>3 DEF Publish
  <2>2. /\ blk' \in BlkSet /\ blk'.driver = "notify" /\ blk'.avail = y /\ blk'.used = blk.used
        /\ blk'.seen = blk.seen /\ blk'.original = blk.original /\ blk'.device = blk.device
        /\ blk'.req = blk.req
    BY <1>0, <1>2, <2>1 DEF BlkSet
  <2>3. ~Transfer
    BY <1>1, <2>1 DEF Transfer
  <2> QED BY <1>1, <1>2, <2>1, <2>2, <2>3 DEF QueueOk, Transferred, Idle
<1>4. CASE Notify
  <2>1. blk' = [blk EXCEPT !.driver = "poll"] /\ UNCHANGED <<disk, mem>> /\ blk.driver = "notify"
    BY <1>4 DEF Notify, Notified
  <2>2. /\ blk' \in BlkSet /\ blk'.driver = "poll" /\ blk'.avail = blk.avail /\ blk'.used = blk.used
        /\ blk'.seen = blk.seen /\ blk'.original = blk.original /\ blk'.device = blk.device
        /\ blk'.req = blk.req
    BY <1>0, <2>1 DEF BlkSet
  <2>3. ~Transfer
    <3>1. Transfer => blk'.driver = blk.driver
      BY <1>0 DEF Transfer, BlkSet
    <3> QED BY <2>1, <2>2, <3>1
  <2> QED BY <1>1, <1>2, <2>1, <2>2, <2>3 DEF QueueOk, Transferred, Idle
<1>5. CASE Poll
  <2>1. /\ blk' = [blk EXCEPT !.driver = "idle", !.req = NoRequest] /\ UNCHANGED <<disk, mem>>
        /\ blk.driver = "poll" /\ blk.used # blk.original
    BY <1>5 DEF Poll, Completed
  <2>2. /\ blk' \in BlkSet /\ blk'.driver = "idle" /\ blk'.avail = blk.avail /\ blk'.used = blk.used
        /\ blk'.seen = blk.seen /\ blk'.original = blk.original /\ blk'.device = blk.device
    <3>1. NoRequest \in Requests
      BY DEF NoRequest, Requests
    <3> QED BY <1>0, <2>1, <3>1 DEF BlkSet
  <2>3. ~Transfer
    <3>1. Transfer => blk'.driver = blk.driver
      BY <1>0 DEF Transfer, BlkSet
    <3> QED BY <2>1, <2>2, <3>1
  <2> QED BY <1>1, <1>2, <2>1, <2>2, <2>3 DEF QueueOk, Transferred, Idle
<1>6. CASE Take
  <2>1. /\ blk' = [blk EXCEPT !.seen = (blk.seen + 1) % IdxMod, !.device = "busy"]
        /\ UNCHANGED <<disk, mem>> /\ blk.device = "wait" /\ blk.seen # blk.avail
    BY <1>6 DEF Take
  <2>2. blk.driver \in {"notify", "poll"} /\ blk.seen = blk.original /\ blk.used = blk.original
        /\ blk.avail = y
    BY <1>0, <1>1, <1>2, <2>1
  <2>3. /\ blk' \in BlkSet /\ blk'.driver = blk.driver /\ blk'.avail = y /\ blk'.used = blk.used
        /\ blk'.seen = y /\ blk'.original = blk.original /\ blk'.device = "busy"
        /\ blk'.req = blk.req
    BY <1>0, <1>2, <2>1, <2>2 DEF BlkSet
  <2>4. ~Transfer
    BY <2>1 DEF Transfer
  <2> QED BY <1>1, <1>2, <2>1, <2>2, <2>3, <2>4 DEF QueueOk, Transferred, Idle
<1>7. CASE Transfer
  <2>1. blk' = [blk EXCEPT !.device = "done"] /\ blk.device = "busy"
    BY <1>7 DEF Transfer
  <2>2. blk.driver \in {"notify", "poll"}
    BY <1>0, <1>1, <2>1
  <2>3. /\ blk' \in BlkSet /\ blk'.driver = blk.driver /\ blk'.avail = blk.avail
        /\ blk'.used = blk.used /\ blk'.seen = blk.seen /\ blk'.original = blk.original
        /\ blk'.device = "done" /\ blk'.req = blk.req
    BY <1>0, <2>1 DEF BlkSet
  <2> QED BY <1>1, <1>2, <1>7, <2>1, <2>2, <2>3 DEF QueueOk, Transferred, Idle
<1>8. CASE Complete
  <2>1. /\ blk' = [blk EXCEPT !.used = (blk.used + 1) % IdxMod, !.device = "wait"]
        /\ UNCHANGED <<disk, mem>> /\ blk.device = "done"
    BY <1>8 DEF Complete
  <2>2. blk.driver \in {"notify", "poll"} /\ blk.used = blk.original /\ blk.avail = y
        /\ blk.seen = blk.avail
    BY <1>0, <1>1, <1>2, <2>1
  <2>3. /\ blk' \in BlkSet /\ blk'.driver = blk.driver /\ blk'.avail = y /\ blk'.used = y
        /\ blk'.seen = y /\ blk'.original = blk.original /\ blk'.device = "wait"
        /\ blk'.req = blk.req
    BY <1>0, <1>2, <2>1, <2>2 DEF BlkSet
  <2>4. ~Transfer
    BY <2>1 DEF Transfer
  <2> QED BY <1>1, <1>2, <2>1, <2>2, <2>3, <2>4 DEF QueueOk, Transferred, Idle
<1> QED BY <1>3, <1>4, <1>5, <1>6, <1>7, <1>8 DEF Driver, Device

-----------------------------------------------------------------------------
(* What a call waits for.                                                  *)

\* The cases of Want.
LEMMA WantIs ==
    ASSUME NEW f, NEW r, NEW v
    PROVE  /\ f.pc = "mbr" => Want(f, r, v) = NoRequest
           /\ f.pc = "parts" /\ f.done = 1 => Want(f, r, v) = In(0, "mbr")
           /\ f.pc = "parts" /\ f.done # 1 => Want(f, r, v) = In(v.fat, "buf")
           /\ f.pc = "header" => Want(f, r, v) = In(Lba(f.done - 1), "hdr")
           /\ f.pc = "size" => Want(f, r, v) = In(SectorOf(r.dir), "buf")
           /\ f.pc = "end" => Want(f, r, v) = In(SectorOf(r.cluster), "buf")
           /\ f.pc \in {"scan", "data"} => Want(f, r, v) = In(SectorOf(f.cluster), "buf")
           /\ f.pc \in {"scannext", "walk"} =>
                Want(f, r, v) = In(FatStart + (f.cluster * 4) \div (4 * FatEntries), "tbuf")
           /\ f.pc = "stored" =>
                Want(f, r, v) = [type |-> "out", sector |-> SectorOf(f.cluster), buf |-> "buf"]
BY DEF Want

\* The part of a sector that a call is after.
LEMMA ChunkFacts ==
    ASSUME NEW f, NEW r, Placed(f, r), f.cfo < SectorUnits, f.done < f.len
    PROVE  /\ Chunk(f) \in 1 .. SectorUnits - f.cfo /\ f.done + Chunk(f) <= f.len
           /\ f.done + Chunk(f) = f.len \/ f.cfo + Chunk(f) = SectorUnits
BY VolumeFacts DEF Placed, Aimed, Chunk

\* Where a call is.
LEMMA PlacedFacts ==
    ASSUME NEW f, NEW r, Placed(f, r)
    PROVE  \E k \in 0 .. N(r.cluster) :
             /\ Reached(f, r, k) /\ f.cluster \in Nat
             /\ f.cluster = C(r.cluster)[k]
             /\ k < N(r.cluster) =>
                  /\ f.cluster \in Nat \ {0} /\ HasNext(Disk, V, f.cluster)
                  /\ SectorOf(f.cluster) \in DOMAIN Disk /\ SectorOf(f.cluster) \in FileSectors
                  /\ C(r.cluster)[k + 1] = NextIn(Disk, V, f.cluster)
             /\ k = N(r.cluster) =>
                  /\ ~HasNext(Disk, V, f.cluster)
                  /\ k # 0 => SectorOf(f.cluster) \notin DOMAIN Disk
<1>1. PICK k \in 0 .. N(r.cluster) : Reached(f, r, k)
  BY DEF Placed, Aimed
<1>2. f.cluster = C(r.cluster)[k]
  BY <1>1 DEF Reached
<1>3. IsReg(r)
  BY DEF Placed, Aimed
<1>4. OnChain(r.cluster, N(r.cluster)) /\ N(r.cluster) \in 0 .. MaxClusters
      /\ \A j \in 0 .. N(r.cluster) - 1 : SectorOf(C(r.cluster)[j]) \in FileSectors
  BY <1>3, RegFacts
<1>5. k < N(r.cluster) => k \in 0 .. N(r.cluster) - 1
  BY <1>4, VolumeFacts
<1>6. k = N(r.cluster) => k \in N(r.cluster) .. MaxClusters
  BY <1>4, VolumeFacts
<1>7. f.cluster \in Nat
  BY <1>2, <1>4 DEF OnChain
<1>8. k < N(r.cluster) =>
        /\ f.cluster \in Nat \ {0} /\ HasNext(Disk, V, f.cluster)
        /\ SectorOf(f.cluster) \in DOMAIN Disk /\ SectorOf(f.cluster) \in FileSectors
        /\ C(r.cluster)[k + 1] = NextIn(Disk, V, f.cluster)
  BY <1>2, <1>4, <1>5 DEF OnChain
<1>9. k = N(r.cluster) =>
        ~HasNext(Disk, V, f.cluster) /\ (k # 0 => SectorOf(f.cluster) \notin DOMAIN Disk)
  BY <1>2, <1>4 DEF OnChain
<1> QED BY <1>1, <1>2, <1>7, <1>8, <1>9

\* The request of a read or write is one of the disk's, for a sector of units
\* or of the table; what goes out goes to a file.
WantOk(w) ==
    /\ w \in Requests /\ w.type \in {"in", "out"} /\ w.buf \in {"buf", "tbuf"}
    /\ w.buf = "buf" /\ w.sector \in DOMAIN Disk =>
         w.sector \in FileSectors \/ IsUnits(Disk[w.sector])
    /\ w.type = "out" => w.buf = "buf" /\ (w.sector \in DOMAIN Disk => w.sector \in FileSectors)

\* A sector of units, or any sector that is not the disk's, can be asked for.
LEMMA InOk ==
    ASSUME NEW s \in Int, s \in DOMAIN Disk => s \in FileSectors \/ IsUnits(Disk[s])
    PROVE  WantOk(In(s, "buf"))
BY DEF WantOk, In, Requests, Bufs

\* The table is looked at in a buffer of its own.
LEMMA TableOk ==
    ASSUME NEW c \in Nat
    PROVE  WantOk(In(FatStart + (c * 4) \div (4 * FatEntries), "tbuf"))
<1>1. (c * 4) \div (4 * FatEntries) \in Int
  BY DEF FatEntries
<1>2. FatStart + (c * 4) \div (4 * FatEntries) \in Int
  BY <1>1, VolumeFacts
<1> HIDE DEF FatEntries
<1> QED BY <1>2 DEF WantOk, In, Requests, Bufs

\* A read that is not done is in its file.
LEMMA InFile ==
    ASSUME NEW f, NEW r, Aimed(f, r), f.len = Goal(f, r), f.done <= f.len,
           NEW k \in 0 .. N(r.cluster), Reached(f, r, k)
    PROVE  /\ f.op = "read" /\ f.pc # "size" /\ f.done < f.len => k < N(r.cluster)
           /\ f.at + f.done = SectorUnits * k + f.cfo
<1>1. /\ IsReg(r) /\ f.at = r.cfo /\ f.want \in Nat \ {0} /\ f.cfo \in Nat /\ f.done \in Nat
      /\ f.op = "read" /\ f.pc # "size" => f.at <= Size(r)
  BY DEF Aimed
<1>2. f.at \in Nat
  BY <1>1 DEF IsReg, FileSet
<1>3. PICK n \in Nat : n = N(r.cluster)
  BY <1>1, RegFacts, VolumeFacts
<1>4. SectorUnits \in Nat \ {0}
  BY VolumeFacts
<1>5. PICK x \in Nat, z \in Nat : x = SectorUnits * k /\ z = SectorUnits * n
  BY <1>3, <1>4
<1>6. x + f.cfo = f.at + f.done
  BY <1>5 DEF Reached
<1>7. Size(r) \in Nat /\ Size(r) <= z
  BY <1>1, <1>3, <1>5, RegFacts
<1>8. k = n => x = z
  BY <1>5
<1>9. f.op = "read" /\ f.pc # "size" => f.at + f.len <= Size(r) /\ f.len \in Nat
  BY <1>1, <1>2, <1>7 DEF Goal
<1>10. f.op = "read" /\ f.pc # "size" /\ f.done < f.len => k # n
  BY <1>1, <1>2, <1>4, <1>6, <1>7, <1>8, <1>9
<1> QED BY <1>1, <1>3, <1>5, <1>6, <1>10

\* A read or write asks for what it may, and only a write sends something.
LEMMA RwWant ==
    ASSUME NEW f, NEW r, NEW v, Placed(f, r), Waits(f, r)
    PROVE  /\ WantOk(Want(f, r, v))
           /\ Want(f, r, v).type = "out" <=> f.pc = "stored"
<1>1. /\ f.cluster \in Nat
      /\ f.pc \in {"data", "stored"} /\ SectorOf(f.cluster) \in DOMAIN Disk =>
           SectorOf(f.cluster) \in FileSectors
  <2>1. IsReg(r) /\ N(r.cluster) \in Nat /\ (N(r.cluster) = 0 <=> r.cluster = 0) /\ Aimed(f, r)
    BY RegFacts, VolumeFacts DEF Placed, Aimed
  <2>2. PICK k \in 0 .. N(r.cluster) :
               /\ Reached(f, r, k) /\ f.cluster \in Nat
               /\ k < N(r.cluster) => SectorOf(f.cluster) \in FileSectors
               /\ k = N(r.cluster) => (k # 0 => SectorOf(f.cluster) \notin DOMAIN Disk)
    BY PlacedFacts
  <2>3. ASSUME f.pc \in {"data", "stored"} PROVE k < N(r.cluster) \/ (k = N(r.cluster) /\ k # 0)
    <3>1. f.len = Goal(f, r) /\ f.done < f.len /\ f.done <= f.len /\ f.pc # "size"
      BY <2>3 DEF Waits
    <3>2. f.op = "read" => k < N(r.cluster)
      BY <2>1, <2>2, <3>1, InFile
    <3>3. f.op = "write" => N(r.cluster) # 0
      BY <2>1 DEF Aimed
    <3> QED BY <2>1, <2>2, <3>2, <3>3 DEF Aimed
  <2> QED BY <2>2, <2>3
<1>2. SectorOf(f.cluster) \in Int
  BY <1>1, SectorFacts
<1>3. CASE f.pc = "size"
  <2>1. IsUnits(Disk[SectorOf(r.dir)]) /\ r.dir \in Nat \ {0}
    BY FoundFacts DEF Placed, Aimed, IsReg
  <2>2. SectorOf(r.dir) \in Int
    BY <2>1, SectorFacts
  <2>3. Want(f, r, v) = In(SectorOf(r.dir), "buf")
    BY <1>3, WantIs
  <2>4. WantOk(In(SectorOf(r.dir), "buf"))
    BY <2>1, <2>2, InOk
  <2> QED BY <1>3, <2>3, <2>4 DEF In
<1>4. CASE f.pc = "walk"
  <2>1. Want(f, r, v) = In(FatStart + (f.cluster * 4) \div (4 * FatEntries), "tbuf")
    BY <1>4, WantIs
  <2>2. WantOk(In(FatStart + (f.cluster * 4) \div (4 * FatEntries), "tbuf"))
    BY <1>1, TableOk
  <2> QED BY <1>4, <2>1, <2>2 DEF In
<1>5. CASE f.pc = "data"
  <2>1. Want(f, r, v) = In(SectorOf(f.cluster), "buf")
    BY <1>5, WantIs
  <2>2. WantOk(In(SectorOf(f.cluster), "buf"))
    BY <1>1, <1>2, <1>5, InOk
  <2> QED BY <1>5, <2>1, <2>2 DEF In
<1>6. CASE f.pc = "stored"
  <2>1. Want(f, r, v) = [type |-> "out", sector |-> SectorOf(f.cluster), buf |-> "buf"]
    BY <1>6, WantIs
  <2> QED BY <1>1, <1>2, <1>6, <2>1 DEF WantOk, Requests, Bufs
<1> QED BY <1>3, <1>4, <1>5, <1>6 DEF Waits

\* So does every call.
LEMMA FrameWant ==
    ASSUME NEW f, NEW r, NEW v, NEW D, NEW b, NEW t, FrameOk(f, r, D, b, t)
    PROVE  /\ WantOk(Want(f, r, v))
           /\ Want(f, r, v).type = "out" => f.pc = "stored" /\ RwFrame(f, r, D, b, t)
           /\ f.pc # "mbr" /\ f.pc # "parts" /\ f.pc # "header"
<1>1. CASE OpenFrame(f, r)
  <2>1. PICK k \in 0 .. RootN - 1 : f.cluster = C(Root)[k] /\ f.pc \in {"scan", "scannext"}
    BY <1>1 DEF OpenFrame
  <2>2. f.cluster \in Nat \ {0} /\ IsUnits(Disk[SectorOf(f.cluster)])
    BY <2>1, Apart
  <2>3. f.cluster \in Nat /\ SectorOf(f.cluster) \in Int
    BY <2>2, SectorFacts
  <2>4. WantOk(In(SectorOf(f.cluster), "buf"))
    BY <2>2, <2>3, InOk
  <2>5. WantOk(In(FatStart + (f.cluster * 4) \div (4 * FatEntries), "tbuf"))
    BY <2>2, <2>3, TableOk
  <2>6. CASE f.pc = "scan"
    <3>1. Want(f, r, v) = In(SectorOf(f.cluster), "buf")
      BY <2>6, WantIs
    <3> QED BY <2>4, <2>6, <3>1 DEF In
  <2>7. CASE f.pc = "scannext"
    <3>1. Want(f, r, v) = In(FatStart + (f.cluster * 4) \div (4 * FatEntries), "tbuf")
      BY <2>7, WantIs
    <3> QED BY <2>5, <2>7, <3>1 DEF In
  <2> QED BY <2>1, <2>6, <2>7
<1>2. CASE EndFrame(f, r)
  <2>1. f.pc = "end" /\ IsReg(r)
    BY <1>2 DEF EndFrame
  <2>2. OnChain(r.cluster, N(r.cluster)) /\ 0 \in 0 .. N(r.cluster) - 1
        /\ \A j \in 0 .. N(r.cluster) - 1 : SectorOf(C(r.cluster)[j]) \in FileSectors
    <3>1. N(r.cluster) \in 0 .. MaxClusters /\ N(r.cluster) # 0
      BY <1>2, <2>1, RegFacts DEF EndFrame
    <3> QED BY <2>1, <3>1, RegFacts, VolumeFacts
  <2>3. SectorOf(r.cluster) \in FileSectors /\ r.cluster \in Nat \ {0}
    BY <2>2 DEF OnChain
  <2>4. SectorOf(r.cluster) \in Int
    BY <2>3, SectorFacts
  <2>5. Want(f, r, v) = In(SectorOf(r.cluster), "buf")
    BY <2>1, WantIs
  <2>6. WantOk(In(SectorOf(r.cluster), "buf"))
    BY <2>3, <2>4, InOk
  <2> QED BY <2>1, <2>5, <2>6 DEF In
<1>3. CASE ListFrame(f, r)
  <2>1. Root \in Nat \ {0} /\ 0 \in 0 .. RootN - 1 /\ C(Root)[0] = Root
    BY RootIs, VolumeFacts
  <2>2. IsUnits(Disk[SectorOf(Root)]) /\ SectorOf(Root) \in Int
    BY <2>1, Apart, SectorFacts
  <2>3. CASE f.pc = "size"
    <3>1. IsDir(r)
      BY <1>3, <2>3 DEF ListFrame
    <3>2. IsUnits(Disk[SectorOf(r.dir)]) /\ r.dir \in Nat \ {0}
      BY <3>1, FoundFacts DEF IsDir
    <3>3. SectorOf(r.dir) \in Int
      BY <3>2, SectorFacts
    <3>4. Want(f, r, v) = In(SectorOf(r.dir), "buf")
      BY <2>3, WantIs
    <3>5. WantOk(In(SectorOf(r.dir), "buf"))
      BY <3>2, <3>3, InOk
    <3> QED BY <2>3, <3>4, <3>5 DEF In
  <2>4. CASE f.pc = "data"
    <3>1. f.cluster = Root
      BY <1>3, <2>4 DEF ListFrame
    <3>2. Want(f, r, v) = In(SectorOf(Root), "buf")
      BY <2>4, <3>1, WantIs
    <3>3. WantOk(In(SectorOf(Root), "buf"))
      BY <2>2, InOk
    <3> QED BY <2>4, <3>2, <3>3 DEF In
  <2>5. CASE f.pc = "walk"
    <3>1. f.cluster = Root
      BY <1>3, <2>5 DEF ListFrame
    <3>2. Want(f, r, v) = In(FatStart + (f.cluster * 4) \div (4 * FatEntries), "tbuf")
      BY <2>5, WantIs
    <3>3. WantOk(In(FatStart + (f.cluster * 4) \div (4 * FatEntries), "tbuf"))
      BY <2>1, <3>1, TableOk
    <3> QED BY <2>5, <3>2, <3>3 DEF In
  <2> QED BY <1>3, <2>3, <2>4, <2>5 DEF ListFrame
<1>4. CASE RwFrame(f, r, D, b, t)
  <2>1. Placed(f, r) /\ Waits(f, r)
    BY <1>4 DEF RwFrame
  <2> QED BY <1>4, <2>1, RwWant DEF Waits
<1> QED BY <1>1, <1>2, <1>3, <1>4 DEF FrameOk

-----------------------------------------------------------------------------
(* The device transfers a sector.                                          *)

\* The sector goes where the units of its file are.
LEMMA WriteLands ==
    ASSUME NEW f, NEW r, NEW D, NEW b, NEW E, DiskOk(D), Placed(f, r), Waits(f, r),
           f.pc = "stored", HasWritten(f, r, D, b, FALSE),
           E = IF SectorOf(f.cluster) \in DOMAIN Disk THEN [D EXCEPT ![SectorOf(f.cluster)] = b] ELSE D
    PROVE  HasWritten(f, r, E, b, TRUE)
<1> DEFINE n == N(r.cluster)  ch == Chunk(f)
<1>0. n \in Nat /\ SectorUnits \in Nat \ {0} /\ f.at \in Nat /\ f.done \in Nat /\ f.cfo \in Nat
  BY RegFacts, VolumeFacts DEF Placed, Aimed, IsReg, FileSet
<1>1. f.cfo < SectorUnits /\ f.done < f.len
  BY DEF Waits
<1>2. ch \in 1 .. SectorUnits - f.cfo
  BY <1>1, ChunkFacts
<1>3. PICK k \in 0 .. n :
             /\ Reached(f, r, k) /\ f.cluster = C(r.cluster)[k]
             /\ k < n => SectorOf(f.cluster) \in DOMAIN Disk
             /\ k = n => SectorOf(f.cluster) \notin DOMAIN Disk
  <2>1. n # 0
    <3>1. f.op = "write" /\ IsReg(r) /\ r.cluster # 0
      BY DEF Waits, Placed, Aimed
    <3> QED BY <3>1, RegFacts DEF n
  <2>2. PICK k \in 0 .. n :
             /\ Reached(f, r, k) /\ f.cluster = C(r.cluster)[k]
             /\ k < n => SectorOf(f.cluster) \in DOMAIN Disk
             /\ k = n => (k # 0 => SectorOf(f.cluster) \notin DOMAIN Disk)
    BY PlacedFacts DEF n
  <2> HIDE DEF n
  <2> QED BY <2>1, <2>2
<1>4. PICK x \in Nat, z \in Nat : x = SectorUnits * k /\ z = SectorUnits * n
  BY <1>0
<1>5. x + f.cfo = f.at + f.done
  BY <1>3, <1>4 DEF Reached
<1>6. Patch(f, r, b) /\ Written(f, r, D, f.done)
      /\ f.was = [p \in 0 .. SectorUnits * N(r.cluster) - 1 |-> f.was[p]]
  <2>1. f.done + 0 = f.done
    BY <1>0
  <2> QED BY <2>1 DEF HasWritten
<1> HIDE DEF n, ch
<1>7. ASSUME NEW p \in 0 .. z - 1, p < x \/ p >= x + SectorUnits
      PROVE  After(f, f.done, p) = After(f, f.done + ch, p)
  <2>1. p \in f.at .. f.at + f.done - 1 <=> p \in f.at .. f.at + (f.done + ch) - 1
    BY <1>0, <1>1, <1>2, <1>4, <1>5, <1>7
  <2> QED BY <2>1 DEF After
<1>8. CASE k = n
  <2>1. E = D /\ x = z
    BY <1>3, <1>4, <1>8
  <2>2. ASSUME NEW p \in 0 .. z - 1 PROVE UnitAt(D, r, p) = After(f, f.done + ch, p)
    <3>1. p < x
      BY <2>1, <1>4
    <3>2. UnitAt(D, r, p) = After(f, f.done, p)
      BY <1>4, <1>6 DEF Written, n
    <3> QED BY <1>7, <3>1, <3>2
  <2>3. Written(f, r, D, f.done + ch)
    BY <1>4, <2>2 DEF Written, n
  <2> QED BY <1>6, <2>1, <2>3 DEF HasWritten, ch
<1>9. CASE k < n
  <2>0. IsReg(r) /\ OnChain(r.cluster, n) /\ k \in 0 .. n - 1
    BY <1>0, <1>9, RegFacts DEF Placed, Aimed, n
  <2>1. E = [D EXCEPT ![SectorOf(f.cluster)] = b] /\ SectorOf(f.cluster) \in DOMAIN D
    BY <1>3, <1>9, DiskFacts
  <2>2. ASSUME NEW p \in 0 .. z - 1 PROVE UnitAt(E, r, p) = After(f, f.done + ch, p)
    <3>1. PICK q \in 0 .. n - 1, i \in Units :
            q = p \div SectorUnits /\ i = p % SectorUnits /\ p = SectorUnits * q + i
      BY <1>0, <1>4, UnitPlace
    <3>2. UnitAt(E, r, p) = E[SectorOf(C(r.cluster)[q])].units[i]
          /\ UnitAt(D, r, p) = D[SectorOf(C(r.cluster)[q])].units[i]
      BY <3>1 DEF UnitAt
    <3>3. CASE q = k
      <4>1. UnitAt(E, r, p) = b.units[i]
        BY <1>3, <2>1, <3>2, <3>3
      <4>2. b.units[i] = After(f, f.done + ch, SectorUnits * k + i)
        BY <1>3, <1>6, <2>0 DEF Patch, n, ch
      <4> QED BY <3>1, <3>3, <4>1, <4>2
    <3>4. CASE q # k
      <4>1. C(r.cluster)[q] # C(r.cluster)[k] /\ C(r.cluster)[q] \in Nat \ {0}
            /\ C(r.cluster)[k] \in Nat \ {0}
        BY <2>0, <3>1, <3>4 DEF OnChain
      <4>2. SectorOf(C(r.cluster)[q]) # SectorOf(f.cluster)
        <5>1. C(r.cluster)[q] \in Int /\ C(r.cluster)[k] \in Int
          BY <4>1
        <5> QED BY <1>3, <4>1, <5>1, SectorFacts
      <4>3. UnitAt(E, r, p) = UnitAt(D, r, p)
        BY <2>1, <3>2, <4>2
      <4>4. UnitAt(D, r, p) = After(f, f.done, p)
        BY <1>4, <1>6 DEF Written, n
      <4>5. p < x \/ p >= x + SectorUnits
        <5>1. CASE q < k
          <6>1. SectorUnits * (q + 1) <= SectorUnits * k
            BY <1>0, <1>3, <3>1, <5>1, Z3
          <6>2. SectorUnits * (q + 1) = SectorUnits * q + SectorUnits
            BY <1>0, <3>1, Z3
          <6>3. i < SectorUnits /\ i \in Nat
            BY <1>0 DEF Units
          <6>4. SectorUnits * q \in Nat
            BY <1>0, <3>1
          <6> QED BY <1>0, <1>4, <3>1, <6>1, <6>2, <6>3, <6>4
        <5>2. CASE k < q
          <6>1. SectorUnits * (k + 1) <= SectorUnits * q
            BY <1>0, <1>3, <3>1, <5>2, Z3
          <6>2. SectorUnits * (k + 1) = SectorUnits * k + SectorUnits
            BY <1>0, <1>3, Z3
          <6>3. i \in Nat /\ SectorUnits * q \in Nat
            BY <1>0, <3>1 DEF Units
          <6> QED BY <1>0, <1>4, <3>1, <6>1, <6>2, <6>3
        <5> QED BY <3>1, <3>4, <1>3, <5>1, <5>2
      <4> QED BY <1>7, <4>3, <4>4, <4>5
    <3> QED BY <3>3, <3>4
  <2>3. Written(f, r, E, f.done + ch)
    BY <1>4, <2>2 DEF Written, n
  <2> QED BY <1>6, <2>3 DEF HasWritten, ch
<1>10. k = n \/ k < n
  BY <1>0
<1> QED BY <1>8, <1>9, <1>10

\* A sector of units put in place of a part of a file.
LEMMA DiskWritten ==
    ASSUME NEW D, DiskOk(D), NEW s, s \in DOMAIN Disk, s \in FileSectors, NEW b, IsUnits(b)
    PROVE  DiskOk([D EXCEPT ![s] = b])
BY DEF DiskOk

\* Only a call that writes a sector looks at the buffer and the queue; one that a
\* fault has hit looks at nothing.
LEMMA RwAnyhow ==
    ASSUME NEW f, NEW r, NEW D, NEW b, NEW t, RwFrame(f, r, D, b, t), NEW E, NEW c, NEW u,
           f.torn \/ (f.pc # "stored" /\ E = D)
    PROVE  RwFrame(f, r, E, c, u)
BY DEF RwFrame, HasWritten

\* So for a call that a fault has hit.
LEMMA HitAnyhow ==
    ASSUME NEW g, NEW r, NEW D, NEW b, NEW t, Hit(g, r, D, b, t), NEW E, NEW c, NEW u
    PROVE  Hit(g, r, E, c, u)
BY RwAnyhow DEF Hit

\* So is every other call that does not write a sector.
LEMMA FrameAnyhow ==
    ASSUME NEW f, NEW r, NEW D, NEW b, NEW t, FrameOk(f, r, D, b, t), NEW c, NEW u, f.pc # "stored"
    PROVE  FrameOk(f, r, D, c, u)
BY RwAnyhow DEF FrameOk

\* A read or write that has gone out.
LEMMA RwLands ==
    ASSUME NEW f, NEW r, NEW D, NEW b, NEW E, DiskOk(D), RwFrame(f, r, D, b, FALSE), f.pc = "stored",
           E = IF SectorOf(f.cluster) \in DOMAIN Disk THEN [D EXCEPT ![SectorOf(f.cluster)] = b] ELSE D
    PROVE  RwFrame(f, r, E, b, TRUE)
<1>1. Placed(f, r) /\ Waits(f, r) /\ f.op = "write"
  BY DEF RwFrame, Waits
<1>2. CASE f.torn
  BY <1>1, <1>2 DEF RwFrame
<1>3. CASE ~f.torn
  <2>1. f.skip = 0 /\ HasWritten(f, r, D, b, FALSE)
    BY <1>1, <1>3 DEF RwFrame
  <2>2. HasWritten(f, r, E, b, TRUE)
    BY <1>1, <2>1, WriteLands
  <2> QED BY <1>1, <2>1, <2>2 DEF RwFrame
<1> QED BY <1>2, <1>3

\* The frames under way, once the volume is there.
Under(f, g) ==
    /\ calls = <<f>> \/ calls = <<f, g>>
    /\ IsFrame(f) /\ Ours
    /\ calls = <<f>> =>
         FrameOk(f, file[f.fd], disk, mem["buf"], Transferred(blk))
    /\ calls = <<f, g>> =>
         /\ IsFrame(g)
         /\ RwFrame(f, file[f.fd], disk, mem["buf"], Transferred(blk))
         /\ f.fd = Image /\ f.op = "read" /\ f.torn = FALSE
         /\ Hit(g, file[g.fd], disk, mem["buf"], Transferred(blk))

\* The frame while the volume is looked for.
Mounting(f) ==
    /\ calls = <<f>> /\ IsFrame(f)
    /\ MountOk(f, volume, mem, Idle) /\ disk = Disk /\ last = NoResult
    /\ \A d \in Fds \cup {Image} : file[d] = NoFile

\* The frame of a call that does not come back.
Lost(f) == calls = <<f>> /\ Ours /\ Idle /\ f.pc = "lost"

\* Sequences of one or two frames.
LEMMA Frames ==
    /\ \A f : <<f>> # <<>> /\ Head(<<f>>) = f /\ Tail(<<f>>) = <<>> /\ Len(<<f>>) = 1
    /\ \A f, g : /\ <<f, g>> # <<>> /\ Head(<<f, g>>) = f /\ Tail(<<f, g>>) = <<g>>
                 /\ Len(<<f, g>>) = 2 /\ <<f, g>> # <<f>>
    /\ \A f, g : <<f>> \o <<g>> = <<f, g>> /\ <<f>> \o <<>> = <<f>>
<1>1. \A f : <<f>> # <<>> /\ Head(<<f>>) = f /\ Tail(<<f>>) = <<>> /\ Len(<<f>>) = 1
  OBVIOUS
<1>2. \A f, g : /\ <<f, g>> # <<>> /\ Head(<<f, g>>) = f /\ Tail(<<f, g>>) = <<g>>
                 /\ Len(<<f, g>>) = 2
  OBVIOUS
<1>3. \A f, g : <<f, g>> # <<f>>
  BY <1>1, <1>2
<1>4. \A f, g : <<f>> \o <<g>> = <<f, g>>
  <2> TAKE f, g
  <2>1. <<f>> \in Seq({f, g}) /\ <<g>> \in Seq({f, g}) /\ <<f, g>> \in Seq({f, g})
    OBVIOUS
  <2>2. Len(<<f>> \o <<g>>) = 2 /\ <<f>> \o <<g>> \in Seq({f, g})
        /\ \A i \in 1 .. 2 : (<<f>> \o <<g>>)[i] = IF i <= 1 THEN <<f>>[i] ELSE <<g>>[i - 1]
    BY <2>1, ConcatProperties
  <2>3. (<<f>> \o <<g>>)[1] = f /\ (<<f>> \o <<g>>)[2] = g
    BY <2>2
  <2> DEFINE s == <<f>> \o <<g>>
             t == <<f, g>>
  <2>4. Len(t) = 2 /\ t[1] = f /\ t[2] = g
    OBVIOUS
  <2>5. \A i \in 1 .. 2 : s[i] = t[i]
    <3>1. \A i \in 1 .. 2 : i = 1 \/ i = 2
      OBVIOUS
    <3> HIDE DEF t
    <3> QED BY <2>3, <2>4, <3>1
  <2>6. s \in Seq({f, g}) /\ t \in Seq({f, g}) /\ Len(s) = Len(t) /\ Len(s) = 2
    BY <2>1, <2>2, <2>4
  <2> HIDE DEF s, t
  <2>7. s = t
    BY <2>5, <2>6, SeqEqual
  <2> QED BY <2>7 DEF s, t
<1>5. \A f : <<f>> \o <<>> = <<f>>
  OBVIOUS
<1> QED BY <1>1, <1>2, <1>3, <1>4, <1>5

\* CallsInv, case by case.
LEMMA CallsCases ==
    ASSUME CallsInv
    PROVE  \/ calls = <<>> /\ Ours /\ Idle
           \/ \E f : Lost(f)
           \/ \E f : Mounting(f)
           \/ \E f, g : Under(f, g)
<1>1. CASE calls = <<>> /\ Ours /\ Idle
  BY <1>1
<1>0. ASSUME NEW f, Lost(f) PROVE \E h : Lost(h)
  BY <1>0
<1>2. ASSUME NEW f, Mounting(f) PROVE \E h : Mounting(h)
  BY <1>2
<1>3. ASSUME NEW f, calls = <<f>> /\ IsFrame(f) /\ Ours,
             FrameOk(f, file[f.fd], disk, mem["buf"], Transferred(blk))
      PROVE  \E h, g : Under(h, g)
  <2>1. ASSUME NEW h PROVE ~ (calls = <<f, h>>)
    BY <1>3, Frames
  <2>2. Under(f, f)
    BY <1>3, <2>1 DEF Under
  <2> QED BY <2>2
<1>4. ASSUME NEW f, NEW g, calls = <<f, g>> /\ IsFrame(f) /\ IsFrame(g) /\ Ours,
             /\ RwFrame(f, file[f.fd], disk, mem["buf"], Transferred(blk))
             /\ f.fd = Image /\ f.op = "read" /\ f.torn = FALSE
             /\ Hit(g, file[g.fd], disk, mem["buf"], Transferred(blk))
      PROVE  \E h, k : Under(h, k)
  <2>1. calls # <<f>>
    BY <1>4, Frames
  <2>2. Under(f, g)
    BY <1>4, <2>1 DEF Under
  <2> QED BY <2>2
<1> QED BY <1>0, <1>1, <1>2, <1>3, <1>4 DEF CallsInv, Mounting, Lost

\* And back again: CallsInv after a step, from what the step has left.
LEMMA NoCall ==
    ASSUME calls' = <<>>, Ours', Idle'
    PROVE  CallsInv'
BY DEF CallsInv

\* A call is lost.
LEMMA LostCall ==
    ASSUME NEW f, calls' = <<f>>, f.pc = "lost", Ours', Idle'
    PROVE  CallsInv'
<1>1. Head(calls') = f
  BY Frames
<1> QED BY <1>1 DEF CallsInv

\* The volume is looked for.
LEMMA MountCall ==
    ASSUME NEW f, calls' = <<f>>, IsFrame(f), MountOk(f, volume', mem', Idle'), disk' = Disk,
           last' = NoResult, \A d \in Fds \cup {Image} : file'[d] = NoFile
    PROVE  CallsInv'
<1>1. Head(calls') = f
  BY Frames
<1> QED BY <1>1 DEF CallsInv

\* One call.
LEMMA OneCall ==
    ASSUME NEW f, calls' = <<f>>, IsFrame(f), Ours',
           FrameOk(f, file'[f.fd], disk', mem'["buf"], Transferred(blk'))
    PROVE  CallsInv'
<1>1. Head(calls') = f
  BY Frames
<1> QED BY <1>1 DEF CallsInv

\* A fault's read in front of the call that it has hit.
LEMMA TwoCalls ==
    ASSUME NEW f, NEW g, calls' = <<f, g>>, IsFrame(f), IsFrame(g), Ours',
           RwFrame(f, file'[f.fd], disk', mem'["buf"], Transferred(blk')),
           f.fd = Image, f.op = "read", f.torn = FALSE,
           Hit(g, file'[g.fd], disk', mem'["buf"], Transferred(blk'))
    PROVE  CallsInv'
<1>1. Head(calls') = f /\ Head(Tail(calls')) = g
  BY Frames
<1> QED BY <1>1 DEF CallsInv

\* The device need not be ready for a request.
LEMMA MountAnyhow ==
    ASSUME NEW f, NEW v, NEW m, NEW i, MountOk(f, v, m, i), ~i, NEW j
    PROVE  MountOk(f, v, m, j)
BY DEF MountOk

\* A step of the driver or the device that transfers nothing.
LEMMA QueueMoves ==
    ASSUME Inv, Driver \/ Device, ~Transfer, UNCHANGED <<volume, file, calls, last>>
    PROVE  Inv'
<1>1. /\ QueueOk(blk') /\ ~Idle /\ UNCHANGED <<disk, mem>>
      /\ Transferred(blk') <=> Transferred(blk)
      /\ ~Idle' => blk'.req = blk.req
  BY QueueSteps DEF Inv
<1>2. MemInv' /\ DiskOk(disk') /\ FileInv' /\ BufInv' /\ Ours' = Ours
  BY <1>1 DEF Inv, MemInv, FileInv, BufInv, Ours
<1>3. last' = NoResult /\ LastInv'
  BY <1>1 DEF Inv, LastInv
<1>4. Transferred(blk') = Transferred(blk)
  BY <1>1 DEF Transferred
<1>5. CallsInv'
  <2>1. CASE \E f : Mounting(f)
    <3>1. PICK f : Mounting(f)
      BY <2>1
    <3>2. MountOk(f, volume, mem, Idle')
      BY <1>1, <3>1, MountAnyhow DEF Mounting
    <3> QED BY <1>1, <1>3, <3>1, <3>2, MountCall DEF Mounting
  <2>2. CASE \E f, g : Under(f, g)
    <3>1. PICK f, g : Under(f, g)
      BY <2>2
    <3>2. CASE calls = <<f>>
      BY <1>1, <1>2, <1>4, <3>1, <3>2, OneCall DEF Under
    <3>3. CASE calls = <<f, g>>
      BY <1>1, <1>2, <1>4, <3>1, <3>3, TwoCalls DEF Under
    <3> QED BY <3>1, <3>2, <3>3 DEF Under
  <2> QED BY <1>1, <2>1, <2>2, CallsCases DEF Inv, Lost
<1>6. RequestInv'
  BY <1>1 DEF Inv, RequestInv, top
<1> QED BY <1>1, <1>2, <1>3, <1>5, <1>6 DEF Inv

\* A transfer while the volume is looked for.
LEMMA MountTransfer ==
    ASSUME Inv, Transfer, UNCHANGED <<volume, file, calls, last>>, NEW f, Mounting(f)
    PROVE  Inv'
<1>1. QueueOk(blk') /\ ~Idle /\ ~Transferred(blk) /\ ~Idle'
  BY QueueSteps DEF Inv, Device
<1> DEFINE w == Want(f, file[f.fd], volume)
<1>2. blk.req = w /\ calls # <<>> /\ top = f
  BY <1>1, Frames DEF Inv, RequestInv, Mounting, top
<1>3. /\ MountOk(f, volume, mem, Idle) /\ disk = Disk /\ last = NoResult /\ calls = <<f>>
      /\ IsFrame(f) /\ \A d \in Fds \cup {Image} : file[d] = NoFile
  BY DEF Mounting
<1>4. /\ w.type = "in" /\ w.sector \in Int /\ w.buf \in {"mbr", "hdr", "buf"}
      /\ f.pc = "parts" /\ f.done = 1 => w = In(0, "mbr")
      /\ f.pc = "parts" /\ f.done # 1 => w.buf = "buf"
      /\ f.pc = "header" => w = In(Lba(f.done - 1), "hdr")
  <2>1. CASE f.pc = "parts" /\ f.done = 1
    BY <2>1, WantIs DEF In
  <2>2. CASE f.pc = "parts" /\ f.done # 1
    <3>1. w = In(volume.fat, "buf") /\ volume.fat \in Nat
      BY <1>3, <2>2, WantIs DEF MountOk
    <3> QED BY <2>2, <3>1 DEF In
  <2>3. CASE f.pc = "header"
    <3>1. w = In(Lba(f.done - 1), "hdr") /\ Lba(f.done - 1) \in Nat
      BY <1>3, <2>3, WantIs, VolumeAssumption DEF MountOk
    <3> QED BY <2>3, <3>1 DEF In
  <2> QED BY <1>1, <1>3, <2>1, <2>2, <2>3 DEF MountOk
<1> HIDE DEF w
<1>5. /\ disk' = disk
      /\ mem' = IF w.sector \in DOMAIN Disk THEN [mem EXCEPT ![w.buf] = Disk[w.sector]] ELSE mem
  <2>1. w.type # "out"
    BY <1>4
  <2> QED BY <1>2, <1>3, <1>4, <2>1 DEF Transfer
<1>6. /\ MemInv' /\ \A b \in Bufs : b # w.buf => mem'[b] = mem[b]
      /\ w.sector \in DOMAIN Disk => mem'[w.buf] = Disk[w.sector]
      /\ w.sector \notin DOMAIN Disk => mem' = mem
  <2>1. w.buf \in Bufs
    BY <1>4 DEF Bufs
  <2>2. mem = [b \in Bufs |-> mem[b]]
    BY DEF Inv, MemInv
  <2> QED BY <1>5, <2>1, <2>2 DEF MemInv
<1>7. MountOk(f, volume, mem', Idle')
  <2>0. {"hdr", "mbr", "buf"} \subseteq Bufs
    BY DEF Bufs
  <2>1. mem'["hdr"].kind = "bpb" =>
          {mem'["hdr"].rsvd, mem'["hdr"].fats, mem'["hdr"].fatsz} \subseteq Nat
    <3>1. CASE w.buf = "hdr" /\ w.sector \in DOMAIN Disk
      <4>1. f.pc = "header"
        BY <1>1, <1>3, <1>4, <3>1 DEF In, MountOk
      <4>2. mem'["hdr"] = Disk[Lba(f.done - 1)] /\ f.done - 1 \in Partitions
            /\ Lba(f.done - 1) \in DOMAIN Disk
        BY <1>3, <1>4, <1>6, <3>1, <4>1 DEF In, MountOk
      <4> QED BY <4>2, VolumeAssumption
    <3>2. CASE ~ (w.buf = "hdr" /\ w.sector \in DOMAIN Disk)
      <4>1. mem'["hdr"] = mem["hdr"]
        BY <1>6, <2>0, <3>2
      <4> QED BY <1>3, <4>1 DEF MountOk
    <3> QED BY <3>1, <3>2
  <2>2. CASE f.pc = "parts" /\ f.done = 1
    BY <1>3, <2>1, <2>2 DEF MountOk
  <2>3. CASE f.pc = "parts" /\ f.done # 1
    <3>1. mem'["hdr"] = mem["hdr"] /\ mem'["mbr"] = mem["mbr"]
      BY <1>4, <1>6, <2>0, <2>3
    <3> QED BY <1>3, <2>1, <2>3, <3>1 DEF MountOk
  <2>4. CASE f.pc = "header"
    <3>1. mem'["mbr"] = mem["mbr"]
      BY <1>4, <1>6, <2>0, <2>4 DEF In
    <3> QED BY <1>3, <2>1, <2>4, <3>1 DEF MountOk
  <2> QED BY <1>1, <1>3, <2>2, <2>3, <2>4 DEF MountOk
<1>8. CallsInv' /\ LastInv'
  BY <1>3, <1>5, <1>7, MountCall DEF LastInv
<1>9. FileInv' /\ BufInv' /\ DiskOk(disk')
  BY <1>3, <1>5, RegFacts DEF Inv, FileInv, BufInv
<1>10. RequestInv'
  <2>1. top' = f /\ Want(top', file'[(top').fd], volume') = w
    BY <1>2 DEF top, w
  <2>2. blk'.req = w
    BY <1>1, <1>2, QueueSteps DEF Inv, Device
  <2>3. Served(w, mem', disk')
    BY <1>3, <1>5, <1>6 DEF Served
  <2> QED BY <2>1, <2>2, <2>3 DEF RequestInv
<1> QED BY <1>1, <1>6, <1>8, <1>9, <1>10 DEF Inv

\* A transfer for a call of the file system.
LEMMA CallTransfer ==
    ASSUME Inv, Transfer, UNCHANGED <<volume, file, calls, last>>, NEW f, NEW g, Under(f, g)
    PROVE  Inv'
<1>1. QueueOk(blk') /\ ~Idle /\ ~Transferred(blk) /\ ~Idle' /\ Transferred(blk')
  BY QueueSteps DEF Inv, Device, Transfer, Transferred
<1> DEFINE r == file[f.fd]
           w == Want(f, r, volume)
<1>2. blk.req = w /\ calls # <<>> /\ top = f
  BY <1>1, Frames DEF Inv, RequestInv, Under, top
<1>3. /\ IsFrame(f) /\ Ours /\ volume = V /\ WantOk(w)
      /\ w.type = "out" =>
           /\ calls = <<f>> /\ f.pc = "stored" /\ f.fd \in Fds
           /\ RwFrame(f, r, disk, mem["buf"], FALSE)
      /\ calls = <<f>> => FrameOk(f, r, disk, mem["buf"], FALSE)
      /\ f.pc = "stored" => w.type = "out"
  <2>1. Transferred(blk) = FALSE
    BY <1>1 DEF Transferred
  <2>2. CASE calls = <<f>>
    <3>1. FrameOk(f, r, disk, mem["buf"], FALSE)
      BY <2>1, <2>2 DEF Under
    <3>2. /\ WantOk(w)
          /\ w.type = "out" => f.pc = "stored" /\ RwFrame(f, r, disk, mem["buf"], FALSE)
      BY <3>1, FrameWant
    <3>3. w.type = "out" => f.fd \in Fds
      <4>1. f.pc = "stored" => f.fd \in Fds
        BY <3>1 DEF FrameOk, OpenFrame, EndFrame, ListFrame
      <4> QED BY <3>2, <4>1
    <3>4. f.pc = "stored" => w.type = "out"
      <4>1. f.pc = "stored" => w = [type |-> "out", sector |-> SectorOf(f.cluster), buf |-> "buf"]
        BY WantIs
      <4> QED BY <4>1
    <3> QED BY <2>2, <3>1, <3>2, <3>3, <3>4 DEF Under, Ours
  <2>3. CASE calls = <<f, g>>
    <3>1. RwFrame(f, r, disk, mem["buf"], FALSE) /\ f.op = "read" /\ ~ (calls = <<f>>)
      BY <2>1, <2>3, Frames DEF Under
    <3>2. Placed(f, r) /\ Waits(f, r) /\ f.pc # "stored"
      BY <3>1 DEF RwFrame, Waits
    <3>3. WantOk(w) /\ w.type # "out"
      BY <3>2, RwWant
    <3> QED BY <2>3, <3>1, <3>2, <3>3 DEF Under, Ours
  <2> QED BY <2>2, <2>3 DEF Under
<1> HIDE DEF w
<1>4. /\ w.type \in {"in", "out"} /\ w.sector \in Int /\ w.buf \in {"buf", "tbuf"} /\ w.buf \in Bufs
      /\ mem = [b \in Bufs |-> mem[b]] /\ DOMAIN disk = DOMAIN Disk
      /\ mem' = IF w.type = "in" /\ w.sector \in DOMAIN Disk
                THEN [mem EXCEPT ![w.buf] = disk[w.sector]] ELSE mem
      /\ disk' = IF w.type = "out" /\ w.sector \in DOMAIN Disk
                 THEN [disk EXCEPT ![w.sector] = mem[w.buf]] ELSE disk
  <2>1. w \in Requests /\ w.type \in {"in", "out"} /\ w.buf \in {"buf", "tbuf"}
    BY <1>3 DEF WantOk
  <2>2. w.sector \in Int /\ w.buf \in Bufs
    BY <2>1 DEF Requests, Bufs
  <2>3. DOMAIN disk = DOMAIN Disk
    BY DiskFacts DEF Inv
  <2> QED BY <1>2, <2>1, <2>2, <2>3 DEF Transfer, Inv, MemInv
<1>5. /\ MemInv' /\ Ours' /\ \A b \in Bufs : b # w.buf => mem'[b] = mem[b]
      /\ w.type = "in" /\ w.sector \in DOMAIN Disk => mem'[w.buf] = disk[w.sector]
      /\ w.type = "out" \/ w.sector \notin DOMAIN Disk => mem' = mem
  <2>1. MemInv'
    BY <1>4 DEF MemInv
  <2>2. \A b \in Bufs : b # w.buf => mem'[b] = mem[b]
    BY <1>4
  <2>3. mem'["hdr"] = mem["hdr"]
    BY <1>4, <2>2 DEF Bufs
  <2> QED BY <1>3, <1>4, <2>1, <2>2, <2>3 DEF Ours
<1>6. BufInv'
  <2> SUFFICES ASSUME \E d \in Fds \cup {Image} : IsReg(file[d]) PROVE IsUnits(mem'["buf"])
    BY DEF BufInv
  <2>1. IsUnits(mem["buf"])
    BY DEF Inv, BufInv
  <2>2. CASE w.type = "in" /\ w.sector \in DOMAIN Disk /\ w.buf = "buf"
    <3>1. w.sector \in FileSectors \/ IsUnits(Disk[w.sector])
      BY <1>3, <2>2 DEF WantOk
    <3>2. IsUnits(disk[w.sector])
      BY <2>2, <3>1 DEF Inv, DiskOk
    <3> QED BY <1>5, <2>2, <3>2
  <2>3. CASE ~ (w.type = "in" /\ w.sector \in DOMAIN Disk /\ w.buf = "buf")
    <3>1. mem'["buf"] = mem["buf"]
      BY <1>4, <1>5, <2>3 DEF Bufs
    <3> QED BY <2>1, <3>1
  <2> QED BY <2>2, <2>3
<1>7. ASSUME w.type = "in" PROVE CallsInv'
  <2>1. disk' = disk /\ f.pc # "stored"
    BY <1>3, <1>4, <1>7
  <2>2. CASE calls = <<f>>
    <3>1. FrameOk(f, r, disk, mem'["buf"], Transferred(blk'))
      BY <1>3, <2>1, <2>2, FrameAnyhow
    <3> QED BY <1>3, <1>5, <2>1, <2>2, <3>1, OneCall
  <2>3. CASE calls = <<f, g>>
    <3>1. RwFrame(f, r, disk, mem["buf"], Transferred(blk))
          /\ Hit(g, file[g.fd], disk, mem["buf"], Transferred(blk))
          /\ IsFrame(g) /\ f.fd = Image /\ f.op = "read" /\ f.torn = FALSE
      BY <2>3 DEF Under
    <3>2. RwFrame(f, r, disk, mem'["buf"], Transferred(blk'))
          /\ Hit(g, file[g.fd], disk, mem'["buf"], Transferred(blk'))
      BY <2>1, <3>1, RwAnyhow, HitAnyhow
    <3> QED BY <1>3, <1>5, <2>1, <2>3, <3>1, <3>2, TwoCalls
  <2> QED BY <2>1, <2>2, <2>3 DEF Under
<1>8. ASSUME w.type = "out" PROVE CallsInv'
  <2>1. /\ calls = <<f>> /\ f.pc = "stored" /\ f.fd \in Fds
        /\ RwFrame(f, r, disk, mem["buf"], FALSE) /\ mem' = mem
    BY <1>3, <1>5, <1>8
  <2>2. w = [type |-> "out", sector |-> SectorOf(f.cluster), buf |-> "buf"]
    BY <2>1, WantIs DEF w
  <2>3. disk' = IF SectorOf(f.cluster) \in DOMAIN Disk
                THEN [disk EXCEPT ![SectorOf(f.cluster)] = mem["buf"]] ELSE disk
    BY <1>4, <1>8, <2>2
  <2>4. RwFrame(f, r, disk', mem["buf"], TRUE)
    BY <2>1, <2>3, RwLands DEF Inv
  <2>5. Transferred(blk') = TRUE
    BY <1>1 DEF Transferred
  <2>6. FrameOk(f, r, disk', mem'["buf"], Transferred(blk'))
    BY <2>1, <2>4, <2>5 DEF FrameOk
  <2> QED BY <1>3, <1>5, <2>1, <2>6, OneCall
<1>9. DiskOk(disk')
  <2>1. CASE w.type = "out" /\ w.sector \in DOMAIN Disk
    <3>1. w.sector \in FileSectors /\ w.buf = "buf"
      BY <1>3, <2>1 DEF WantOk
    <3>2. IsReg(r) /\ f.fd \in Fds
      BY <1>3, <2>1 DEF RwFrame, Placed, Aimed
    <3>3. IsUnits(mem["buf"])
      BY <3>2 DEF Inv, BufInv
    <3> QED BY <1>4, <2>1, <3>1, <3>3, DiskWritten DEF Inv
  <2>2. CASE ~ (w.type = "out" /\ w.sector \in DOMAIN Disk)
    BY <1>4, <2>2 DEF Inv
  <2> QED BY <2>1, <2>2
<1>10. RequestInv'
  <2>1. top' = f /\ Want(top', file'[(top').fd], volume') = w
    BY <1>2 DEF top, w
  <2>2. blk'.req = w
    BY <1>1, <1>2, QueueSteps DEF Inv, Device
  <2>3. Served(w, mem', disk')
    BY <1>4, <1>5 DEF Served
  <2> QED BY <2>1, <2>2, <2>3 DEF RequestInv
<1>11. FileInv' /\ LastInv'
  BY <1>1 DEF Inv, FileInv, LastInv
<1> QED BY <1>1, <1>4, <1>5, <1>6, <1>7, <1>8, <1>9, <1>10, <1>11 DEF Inv

\* The driver and the device.
LEMMA DriverKeepsInv ==
    ASSUME Inv, DriverStep \/ DeviceStep
    PROVE  Inv'
<1>1. (Driver \/ Device) /\ UNCHANGED <<volume, file, calls, last>>
  BY DEF DriverStep, DeviceStep
<1>2. CASE ~Transfer
  BY <1>1, <1>2, QueueMoves
<1>3. CASE Transfer
  <2>1. ~Idle
    BY <1>1, QueueSteps DEF Inv
  <2> QED BY <1>1, <1>3, <2>1, CallsCases, MountTransfer, CallTransfer DEF Inv, Lost
<1> QED BY <1>2, <1>3

-----------------------------------------------------------------------------
(* A call goes on.                                                         *)

\* It asks for a sector.
LEMMA Asks ==
    ASSUME Inv, Idle, NEW f, NEW type \in {"in", "out"}, NEW sector \in Int, NEW buf \in Bufs,
           [type |-> type, sector |-> sector, buf |-> buf] = Want(f, file'[f.fd], volume'),
           blk' = Posted(type, sector, buf), calls' # <<>>, Head(calls') = f, last' = NoResult,
           DiskOk(disk'), MemInv', FileInv', BufInv', CallsInv'
    PROVE  Inv'
<1>1. /\ QueueOk(blk') /\ ~Transferred(blk')
      /\ blk'.req = [type |-> type, sector |-> sector, buf |-> buf]
  BY QueuePosts DEF Inv
<1>2. LastInv'
  BY DEF LastInv
<1>3. RequestInv'
  BY <1>1 DEF RequestInv, top
<1> QED BY <1>1, <1>2, <1>3 DEF Inv

\* A request that WantOk allows can be posted.
LEMMA Allowed ==
    ASSUME NEW type, NEW sector, NEW buf, WantOk([type |-> type, sector |-> sector, buf |-> buf])
    PROVE  type \in {"in", "out"} /\ sector \in Int /\ buf \in Bufs
BY DEF WantOk, Requests, Bufs

\* It is the only call.
LEMMA AsksAlone ==
    ASSUME Inv, Idle, NEW f, NEW type, NEW sector, NEW buf,
           [type |-> type, sector |-> sector, buf |-> buf] = Want(f, file'[f.fd], volume'),
           blk' = Posted(type, sector, buf), calls' = <<f>>, last' = NoResult, IsFrame(f),
           FrameOk(f, file'[f.fd], disk', mem'["buf"], FALSE),
           Ours', DiskOk(disk'), MemInv', FileInv', BufInv'
    PROVE  Inv'
<1>1. WantOk([type |-> type, sector |-> sector, buf |-> buf])
  BY FrameWant
<1>2. type \in {"in", "out"} /\ sector \in Int /\ buf \in Bufs
  BY <1>1, Allowed
<1>3. Transferred(blk') = FALSE
  BY <1>2, QueuePosts DEF Inv, Transferred
<1>4. CallsInv'
  BY <1>3, OneCall
<1>5. calls' # <<>> /\ Head(calls') = f
  BY Frames
<1> QED BY <1>2, <1>4, <1>5, Asks

\* It is a fault's read, in front of the call that the fault has hit.
LEMMA AsksInFront ==
    ASSUME Inv, Idle, NEW f, NEW g, NEW type, NEW sector, NEW buf,
           [type |-> type, sector |-> sector, buf |-> buf] = Want(f, file'[f.fd], volume'),
           blk' = Posted(type, sector, buf), calls' = <<f, g>>, last' = NoResult,
           IsFrame(f), IsFrame(g),
           RwFrame(f, file'[f.fd], disk', mem'["buf"], FALSE),
           f.fd = Image, f.op = "read", f.torn = FALSE,
           Hit(g, file'[g.fd], disk', mem'["buf"], FALSE),
           Ours', DiskOk(disk'), MemInv', FileInv', BufInv'
    PROVE  Inv'
<1>1. WantOk([type |-> type, sector |-> sector, buf |-> buf])
  BY RwWant DEF RwFrame
<1>2. type \in {"in", "out"} /\ sector \in Int /\ buf \in Bufs
  BY <1>1, Allowed
<1>3. Transferred(blk') = FALSE
  BY <1>2, QueuePosts DEF Inv, Transferred
<1>4. CallsInv'
  BY <1>3, TwoCalls
<1>5. calls' # <<>> /\ Head(calls') = f
  BY Frames
<1> QED BY <1>2, <1>4, <1>5, Asks

\* The innermost call goes on as f; the one behind it, if any, waits.
LEMMA GoesOn ==
    ASSUME Inv, Idle, NEW f0, NEW g, Under(f0, g), NEW f, IsFrame(f), f.fd = f0.fd,
           NEW type, NEW sector, NEW buf, AndFetch(f, type, sector, buf),
           [type |-> type, sector |-> sector, buf |-> buf] = Want(f, file[f.fd], V),
           UNCHANGED <<disk, volume, file>>, MemInv', BufInv', mem'["hdr"] = mem["hdr"],
           \/ calls = <<f0>> /\ FrameOk(f, file[f.fd], disk, mem'["buf"], FALSE)
           \/ calls = <<f0, g>> /\ RwFrame(f, file[f.fd], disk, mem'["buf"], FALSE)
              /\ f.op = "read" /\ f.torn = FALSE
    PROVE  Inv'
<1>1. /\ blk' = Posted(type, sector, buf) /\ last' = NoResult /\ calls' = <<f>> \o Tail(calls)
      /\ Ours' /\ volume' = V
  BY DEF AndFetch, Under, Ours
<1>2. DiskOk(disk') /\ FileInv'
  BY DEF Inv, FileInv
<1>3. CASE calls = <<f0>> /\ FrameOk(f, file[f.fd], disk, mem'["buf"], FALSE)
  <2>1. calls' = <<f>>
    BY <1>1, <1>3, Frames
  <2> QED BY <1>1, <1>2, <1>3, <2>1, AsksAlone
<1>4. CASE calls = <<f0, g>> /\ RwFrame(f, file[f.fd], disk, mem'["buf"], FALSE)
           /\ f.op = "read" /\ f.torn = FALSE
  <2>1. calls' = <<f, g>>
    BY <1>1, <1>4, Frames
  <2>2. IsFrame(g) /\ f0.fd = Image /\ Hit(g, file[g.fd], disk, mem["buf"], Transferred(blk))
    BY <1>4 DEF Under
  <2>3. Hit(g, file[g.fd], disk, mem'["buf"], FALSE)
    BY <2>2, HitAnyhow
  <2> QED BY <1>1, <1>2, <1>4, <2>1, <2>2, <2>3, AsksInFront
<1> QED BY <1>3, <1>4

\* It returns.
LEMMA Returns ==
    ASSUME Inv, Idle, NEW f0, NEW g, Under(f0, g), NEW f, f.fd = f0.fd, f.fd \in Fds \cup {Image},
           NEW r, Return(f, r), UNCHANGED <<disk, mem>>, FileOk(f.fd, r),
           IsReg(r) => IsUnits(mem["buf"]),
           ReadsExact', WritesExact', OpenFinds', ListsWhatOpens'
    PROVE  Inv'
<1>1. /\ calls' = Tail(calls) /\ file' = [file EXCEPT ![f.fd] = r] /\ UNCHANGED <<blk, volume>>
      /\ Ours' /\ Idle'
  BY DEF Return, Under, Ours, Idle
<1>2. file = [d \in Fds \cup {Image} |-> file[d]] /\ \A d \in Fds \cup {Image} : FileOk(d, file[d])
  BY DEF Inv, FileInv
<1>3. FileInv'
  BY <1>1, <1>2 DEF FileInv
<1>4. BufInv'
  <2>1. ASSUME NEW d \in Fds \cup {Image}, IsReg(file'[d]) PROVE IsUnits(mem["buf"])
    BY <1>1, <1>2, <2>1 DEF Inv, BufInv
  <2> QED BY <2>1 DEF BufInv
<1>5. LastInv' /\ MemInv' /\ DiskOk(disk') /\ QueueOk(blk')
  BY <1>1 DEF LastInv, Inv, MemInv
<1>6. CASE calls = <<f0>>
  <2>1. calls' = <<>>
    BY <1>1, <1>6, Frames
  <2>2. CallsInv' /\ RequestInv'
    BY <1>1, <2>1, NoCall DEF RequestInv
  <2> QED BY <1>3, <1>4, <1>5, <2>2 DEF Inv
<1>7. CASE calls = <<f0, g>>
  <2>1. /\ calls' = <<g>> /\ IsFrame(g) /\ f.fd = Image /\ g.fd \in Fds /\ g.torn = TRUE /\ g.pc = "data"
        /\ RwFrame(g, file[g.fd], disk, mem["buf"], Transferred(blk)) \/ ListFrame(g, file[g.fd])
    BY <1>1, <1>7, Frames DEF Under, Hit
  <2>2. file'[g.fd] = file[g.fd] /\ Transferred(blk') = Transferred(blk)
    BY <1>1, <1>2, <2>1, Fat32Assumption
  <2>3. FrameOk(g, file'[g.fd], disk', mem'["buf"], Transferred(blk'))
    BY <2>1, <2>2 DEF FrameOk
  <2>4. CallsInv'
    BY <1>1, <2>1, <2>3, OneCall
  <2>5. RequestInv'
    <3>1. top' = g /\ ~Relies(g)
      BY <2>1, Frames DEF top, Relies
    <3> QED BY <1>1, <3>1 DEF RequestInv
  <2> QED BY <1>3, <1>4, <1>5, <2>4, <2>5 DEF Inv
<1> QED BY <1>6, <1>7 DEF Under

\* When a call goes on, it has the sector that it has waited for.
LEMMA Resumed ==
    ASSUME Inv, NEW pc \in {"scan", "scannext", "end", "size", "walk", "data", "stored"}, Resumes(pc)
    PROVE  /\ Idle /\ Ours /\ volume = V
           /\ \E f, g :
                /\ Under(f, g) /\ top = f /\ f.pc = pc /\ IsFrame(f)
                /\ Relies(f) => Served(Want(f, file[f.fd], V), mem, disk)
                /\ \/ calls = <<f>> /\ FrameOk(f, file[f.fd], disk, mem["buf"], TRUE)
                   \/ /\ calls = <<f, g>> /\ RwFrame(f, file[f.fd], disk, mem["buf"], TRUE)
                      /\ f.fd = Image /\ f.op = "read" /\ f.torn = FALSE
<1>1. Idle /\ calls # <<>> /\ top.pc = pc /\ Transferred(blk) = TRUE
  BY DEF Resumes, Inv, QueueOk, Idle, Transferred
<1>2. ASSUME NEW f, Mounting(f) PROVE FALSE
  <2>1. top = f /\ MountOk(f, volume, mem, Idle)
    BY <1>2, Frames DEF Mounting, top
  <2> QED BY <1>1, <2>1 DEF MountOk
<1>0. ASSUME NEW f, Lost(f) PROVE FALSE
  BY <1>0, <1>1, Frames DEF Lost, top
<1>3. PICK f, g : Under(f, g)
  BY <1>0, <1>1, <1>2, CallsCases DEF Inv
<1>4. top = f /\ Ours /\ volume = V /\ IsFrame(f)
  BY <1>3, Frames DEF Under, top, Ours
<1>5. Relies(f) => Served(Want(f, file[f.fd], V), mem, disk)
  BY <1>1, <1>4 DEF Inv, RequestInv
<1> QED BY <1>1, <1>3, <1>4, <1>5 DEF Under

-----------------------------------------------------------------------------
(* Reads and writes between two sectors.                                   *)

\* What a call that no fault has hit has done so far.
HasDone(f, r, D) ==
    \/ f.torn
    \/ f.skip = 0 /\ f.op = "read" /\ HasRead(f, r, D)
    \/ /\ f.skip = 0 /\ f.op = "write" /\ Written(f, r, D, f.done)
       /\ f.was = [p \in 0 .. SectorUnits * N(r.cluster) - 1 |-> f.was[p]]

Between(f, r, D) ==
    /\ Placed(f, r) /\ f.len = Goal(f, r) /\ f.done <= f.len /\ HasDone(f, r, D)
    /\ f.op = "read" => f.at <= Size(r)

\* It moves the offset of its descriptor, which stays a file.
LEMMA OffsetMoves ==
    ASSUME NEW r, IsReg(r), NEW x \in Nat
    PROVE  LET m == [r EXCEPT !.cfo = x] IN
           /\ IsReg(m) /\ m.cfo = x /\ m.cluster = r.cluster /\ m.dir = r.dir /\ m.index = r.index
           /\ Size(m) = Size(r) /\ m \in FileSet /\ m.isdir = r.isdir
<1> DEFINE m == [r EXCEPT !.cfo = x]
<1>1. r \in FileSet /\ ~r.isdir /\ Found(r, "reg")
  BY DEF IsReg
<1>2. /\ m \in FileSet /\ m.cfo = x /\ m.cluster = r.cluster /\ m.dir = r.dir
      /\ m.index = r.index /\ m.isdir = r.isdir
  BY <1>1 DEF FileSet
<1> HIDE DEF m
<1>3. Found(m, "reg") /\ Size(m) = Size(r)
  BY <1>1, <1>2 DEF Found, Size
<1> QED BY <1>1, <1>2, <1>3 DEF IsReg, m

\* What the properties say of a call that comes back.
ReadIs(f, r, held, size) ==
    LET n == Least({f.want, size - f.at}) IN
    f.got = [i \in 1 .. n |-> held[f.at + i - 1]] /\ r.cfo = f.at + n

\* A read.
LEMMA ReadReturns ==
    ASSUME DiskOk(disk'), volume' = V, NEW f, NEW r, Aimed(f, r), f.op = "read", f.at <= Size(r),
           f.done = Goal(f, r), f.torn \/ HasRead(f, r, disk'),
           last' = [op |-> f.op, call |-> f, file |-> [r EXCEPT !.cfo = @ + f.done]]
    PROVE  ReadsExact'
<1>1. IsReg(r) /\ f.at \in Nat /\ f.done \in Nat /\ f.want \in Nat \ {0} /\ r.cfo = f.at
      /\ f.at <= Size(r)
  <2>1. IsReg(r) /\ r.cfo = f.at
    BY DEF Aimed
  <2>2. f.at \in Nat
    BY <2>1 DEF IsReg, FileSet
  <2> QED BY <2>1, <2>2 DEF Aimed
<1>2. PICK m : m = [r EXCEPT !.cfo = @ + f.done]
  OBVIOUS
<1>3. /\ IsReg(m) /\ m.cfo = f.at + f.done /\ Size(m) = Size(r) /\ m.dir = r.dir
      /\ m.index = r.index /\ m.cluster = r.cluster
  <2>1. f.at + f.done \in Nat /\ m = [r EXCEPT !.cfo = f.at + f.done]
    BY <1>1, <1>2
  <2> QED BY <1>1, <2>1, OffsetMoves
<1>4. last' = [op |-> "read", call |-> f, file |-> m]
  BY <1>2
<1> SUFFICES ASSUME ~f.torn PROVE ReadsExact'
  BY <1>4 DEF ReadsExact, Returned
<1>5. SizeOf(m)' = Size(r)
  <2>1. disk'[SectorOf(m.dir)].units[m.index].size = Size(m)
    BY <1>3, SizeIs DEF IsReg
  <2> QED BY <1>3, <2>1 DEF SizeOf, cluster_to_sector, V, Geometry, SectorOf
<1>6. Size(r) \in 0 .. SectorUnits * N(r.cluster) /\ SectorUnits * N(r.cluster) \in Nat
  BY <1>1, RegFacts, VolumeFacts
<1>7. Least({f.want, Size(r) - f.at}) = f.done
  <2> DEFINE S == {f.want, Size(r) - f.at}
  <2>1. f.done \in S /\ \A y \in S : f.done <= y
    BY <1>1, <1>6 DEF Goal
  <2>2. \A x \in S : (\A y \in S : x <= y) => x = f.done
    BY <1>1, <1>6, <2>1
  <2> HIDE DEF S
  <2>3. Least(S) = f.done
    BY <2>1, <2>2 DEF Least
  <2> QED BY <2>3 DEF S
<1>8. ASSUME NEW i \in 1 .. f.done PROVE Content(m)'[f.at + i - 1] = UnitAt(disk', r, f.at + i - 1)
  <2> DEFINE held == UnitsIn(disk', HeldBy(disk', V, m.cluster))
  <2>1. \A p \in 0 .. SectorUnits * N(m.cluster) - 1 : held[p] = UnitAt(disk', m, p)
    BY <1>3, ContentIs
  <2>2. f.at + i - 1 \in 0 .. SectorUnits * N(m.cluster) - 1
    BY <1>1, <1>3, <1>6 DEF Goal
  <2>3. UnitAt(disk', m, f.at + i - 1) = UnitAt(disk', r, f.at + i - 1)
    BY <1>3 DEF UnitAt
  <2>4. Content(m)' = held
    BY DEF Content, SectorsOf
  <2> HIDE DEF held
  <2> QED BY <2>1, <2>2, <2>3, <2>4
<1> DEFINE held == UnitsIn(disk', HeldBy(disk', volume', m.cluster))
           size == disk'[(m.dir - 2) + volume'.data].units[m.index].size
           n == Least({f.want, size - f.at})
<1>9. f.got = [i \in 1 .. f.done |-> held[f.at + i - 1]]
  BY <1>8 DEF HasRead, Content, SectorsOf
<1>10. n = f.done
  BY <1>5, <1>7 DEF SizeOf, cluster_to_sector
<1>11. last'.op = "read" /\ last'.call = f /\ last'.file = m
  BY <1>4
<1>12. ReadIs(f, m, held, size) => ReadsExact'
  <2>1. ReadIs(last'.call, last'.file, UnitsIn(disk', HeldBy(disk', volume', (last'.file).cluster)),
               disk'[((last'.file).dir - 2) + volume'.data].units[(last'.file).index].size) => ReadsExact'
    BY DEF ReadIs, ReadsExact, Returned, Content, SectorsOf, SizeOf, cluster_to_sector
  <2> QED BY <1>11, <2>1
<1>13. ReadIs(f, m, held, size)
  <2> HIDE DEF held, size
  <2> QED BY <1>3, <1>9, <1>10 DEF ReadIs
<1> QED BY <1>12, <1>13

WriteIs(f, held) ==
    held = [i \in DOMAIN f.was |->
              IF i \in f.at .. f.at + f.want - 1 THEN User(i - f.at) ELSE f.was[i]]

\* A write.
LEMMA WriteReturns ==
    ASSUME DiskOk(disk'), volume' = V, NEW f, NEW r, Aimed(f, r), f.op = "write",
           f.done = Goal(f, r), HasDone(f, r, disk'),
           last' = [op |-> f.op, call |-> f, file |-> [r EXCEPT !.cfo = @ + f.done]]
    PROVE  WritesExact'
<1>1. IsReg(r) /\ f.done \in Nat /\ f.done = f.want
  <2>1. IsReg(r) /\ f.done \in Nat
    BY DEF Aimed
  <2> QED BY <2>1 DEF Goal
<1>2. PICK m : m = [r EXCEPT !.cfo = @ + f.done]
  OBVIOUS
<1>3. IsReg(m) /\ m.cluster = r.cluster
  <2>1. r.cfo + f.done \in Nat
    BY <1>1 DEF IsReg, FileSet
  <2> QED BY <1>1, <1>2, <2>1, OffsetMoves
<1>4. last'.op = "write" /\ last'.call = f /\ last'.file = m
  BY <1>2
<1>5. CASE f.torn
  BY <1>4, <1>5 DEF WritesExact, Returned
<1>6. CASE ~f.torn
  <2> DEFINE held == UnitsIn(disk', HeldBy(disk', volume', m.cluster))
             top_ == SectorUnits * N(r.cluster) - 1
  <2>1. WriteIs(f, held) => WritesExact'
    <3>1. WriteIs(last'.call, UnitsIn(disk', HeldBy(disk', volume', (last'.file).cluster)))
            => WritesExact'
      BY DEF WriteIs, WritesExact, Returned, Content, SectorsOf
    <3> QED BY <1>4, <3>1
  <2>2. Written(f, r, disk', f.done) /\ f.was = [p \in 0 .. top_ |-> f.was[p]]
    BY <1>6 DEF HasDone
  <2>3. held = Laid(disk', m.cluster, N(m.cluster))
        /\ \A p \in 0 .. top_ : held[p] = UnitAt(disk', m, p)
    BY <1>3, ContentIs
  <2>4. held = [p \in 0 .. top_ |-> held[p]]
    BY <1>3, <2>3 DEF Laid
  <2>5. ASSUME NEW p \in 0 .. top_
        PROVE  held[p] = IF p \in f.at .. f.at + f.want - 1 THEN User(p - f.at) ELSE f.was[p]
    <3>1. UnitAt(disk', m, p) = UnitAt(disk', r, p)
      BY <1>3 DEF UnitAt
    <3>2. held[p] = After(f, f.want, p)
      BY <1>1, <2>2, <2>3, <3>1 DEF Written
    <3> QED BY <3>2 DEF After
  <2>6. WriteIs(f, held)
    <3>1. DOMAIN f.was = 0 .. top_
      BY <2>2
    <3> HIDE DEF held, top_
    <3> QED BY <2>4, <2>5, <3>1 DEF WriteIs
  <2> QED BY <2>1, <2>6
<1> QED BY <1>5, <1>6

\* A read or write returns.
LEMMA RwReturns ==
    ASSUME Inv, Idle, NEW f0, NEW g, Under(f0, g), NEW f, f.fd = f0.fd,
           Aimed(f, file[f.fd]), HasDone(f, file[f.fd], disk), f.done = Goal(f, file[f.fd]),
           f.op = "read" => f.at <= Size(file[f.fd]), Finish(f), UNCHANGED <<disk, mem>>
    PROVE  Inv'
<1> DEFINE r == file[f.fd]
           m == [r EXCEPT !.cfo = @ + f.done]
<1>1. Aimed(f, r) /\ HasDone(f, r, disk) /\ f.fd \in Fds \cup {Image}
  BY DEF Aimed
<1>2. IsReg(r) /\ f.done \in Nat /\ r.cfo \in Nat
  <2>1. IsReg(r) /\ f.done \in Nat
    BY <1>1 DEF Aimed
  <2> QED BY <2>1 DEF IsReg, FileSet
<1>3. IsReg(m)
  <2>1. r.cfo + f.done \in Nat
    BY <1>2
  <2> QED BY <1>2, <2>1, OffsetMoves
<1>4. /\ Return(f, m) /\ last' = [op |-> f.op, call |-> f, file |-> m] /\ volume' = V
      /\ DiskOk(disk')
  BY DEF Finish, Return, Under, Ours, Inv
<1>5. f.op \in {"read", "write"}
  BY <1>1 DEF Aimed
<1>6. last'.op = f.op
  BY <1>4
<1>7. ReadsExact'
  <2>1. CASE f.op = "read"
    <3>1. f.torn \/ HasRead(f, r, disk')
      BY <1>1, <2>1 DEF HasDone
    <3> QED BY <1>1, <1>4, <2>1, <3>1, ReadReturns
  <2>2. CASE f.op # "read"
    BY <1>6, <2>2 DEF ReadsExact, Returned
  <2> QED BY <2>1, <2>2
<1>8. WritesExact'
  <2>1. CASE f.op = "write"
    <3>1. HasDone(f, r, disk')
      BY <1>1
    <3> QED BY <1>1, <1>4, <2>1, <3>1, WriteReturns
  <2>2. CASE f.op # "write"
    BY <1>6, <2>2 DEF WritesExact, Returned
  <2> QED BY <2>1, <2>2
<1>9. OpenFinds' /\ ListsWhatOpens'
  BY <1>5, <1>6 DEF OpenFinds, ListsWhatOpens, Returned
<1>10. FileOk(f.fd, m) /\ (IsReg(m) => IsUnits(mem["buf"]))
  BY <1>1, <1>2, <1>3 DEF FileOk, Inv, BufInv
<1> HIDE DEF m
<1> QED BY <1>1, <1>4, <1>7, <1>8, <1>9, <1>10, Returns

\* A frame that differs in what it waits for.
LEMMA SameButPc ==
    ASSUME NEW f, NEW r, NEW D, IsFrame(f), Between(f, r, D), NEW pc
    PROVE  LET h == [f EXCEPT !.pc = pc] IN
           /\ IsFrame(h) /\ Between(h, r, D) /\ h.pc = pc /\ h.op = f.op /\ h.fd = f.fd
           /\ h.torn = f.torn /\ h.cluster = f.cluster /\ h.cfo = f.cfo /\ h.done = f.done
           /\ h.len = f.len /\ h.at = f.at /\ h.want = f.want
<1> DEFINE h == [f EXCEPT !.pc = pc]
<1>1. /\ IsFrame(h) /\ h.pc = pc /\ h.op = f.op /\ h.fd = f.fd
      /\ h.torn = f.torn /\ h.cluster = f.cluster /\ h.cfo = f.cfo /\ h.done = f.done
      /\ h.len = f.len /\ h.at = f.at /\ h.want = f.want /\ h.skip = f.skip /\ h.got = f.got
      /\ h.was = f.was
  BY DEF IsFrame
<1> HIDE DEF h
<1>2. \A k : Reached(h, r, k) <=> Reached(f, r, k)
  BY <1>1 DEF Reached
<1>3. Placed(h, r) /\ Goal(h, r) = Goal(f, r)
  BY <1>1, <1>2 DEF Between, Placed, Aimed, Goal
<1>4. HasRead(f, r, D) => HasRead(h, r, D)
  BY <1>1 DEF HasRead
<1>5. \A n, p : After(h, n, p) = After(f, n, p)
  BY <1>1 DEF After
<1>6. Written(f, r, D, f.done) => Written(h, r, D, h.done)
  BY <1>1, <1>5 DEF Written
<1>7. HasDone(h, r, D)
  BY <1>1, <1>4, <1>6 DEF Between, HasDone
<1> QED BY <1>1, <1>3, <1>7 DEF Between, h

\* It waits for the table or for a sector of its file.
LEMMA BetweenWaits ==
    ASSUME NEW f, NEW r, NEW D, NEW b, Between(f, r, D), f.len # 0,
           \/ f.pc = "walk" /\ f.cfo >= SectorUnits
           \/ f.pc = "data" /\ f.cfo < SectorUnits /\ f.done < f.len
    PROVE  RwFrame(f, r, D, b, FALSE)
<1>1. Placed(f, r) /\ HasDone(f, r, D) /\ f.op \in {"read", "write"}
  BY DEF Between, Placed, Aimed
<1>2. f.done \in Nat /\ f.cfo \in Nat /\ f.len \in Nat
  BY <1>1 DEF Placed, Aimed
<1>3. Waits(f, r)
  BY <1>2, VolumeFacts DEF Between, Waits
<1>4. f.op = "write" /\ ~f.torn => HasWritten(f, r, D, b, FALSE)
  BY <1>1 DEF HasDone, HasWritten
<1>5. f.torn \/ (f.skip = 0 /\ ((f.op = "read" /\ HasRead(f, r, D)) \/ f.op = "write"))
  BY <1>1 DEF HasDone
<1> QED BY <1>1, <1>3, <1>4, <1>5 DEF RwFrame

\* GoOn for a read or write.
LEMMA RwGoesOn ==
    ASSUME Inv, Idle, NEW f0, NEW g, Under(f0, g), NEW f, IsFrame(f), f.fd = f0.fd,
           Between(f, file[f.fd], disk), f.len # 0, GoOn(f), UNCHANGED <<disk, mem>>,
           \/ calls = <<f0>> /\ f.fd \in Fds
           \/ calls = <<f0, g>> /\ f.op = "read" /\ f.torn = FALSE
    PROVE  Inv'
<1> DEFINE r == file[f.fd]
<1>0. volume = V
  BY DEF Under, Ours
<1>1. Placed(f, r) /\ f.cfo \in Nat /\ f.done \in Nat /\ f.len \in Nat /\ f.done <= f.len
      /\ f.len = Goal(f, r) /\ SectorUnits \in Nat
  BY VolumeFacts DEF Between, Placed, Aimed
<1>2. ASSUME NEW pc \in {"walk", "data"}, NEW sector, NEW buf,
             pc = "walk" => f.cfo >= SectorUnits,
             pc = "data" => f.cfo < SectorUnits /\ f.done < f.len,
             [type |-> "in", sector |-> sector, buf |-> buf] = Want([f EXCEPT !.pc = pc], r, V),
             AndFetch([f EXCEPT !.pc = pc], "in", sector, buf), UNCHANGED <<volume, file>>
      PROVE  Inv'
  <2>1. PICK h : h = [f EXCEPT !.pc = pc]
    OBVIOUS
  <2>2. /\ IsFrame(h) /\ Between(h, r, disk) /\ h.pc = pc /\ h.op = f.op /\ h.fd = f.fd
        /\ h.torn = f.torn /\ h.cluster = f.cluster /\ h.cfo = f.cfo /\ h.done = f.done
        /\ h.len = f.len
    BY <2>1, SameButPc
  <2>3. RwFrame(h, r, disk, mem'["buf"], FALSE)
    BY <1>2, <2>2, BetweenWaits
  <2>4. calls = <<f0>> => FrameOk(h, r, disk, mem'["buf"], FALSE)
    <3>1. calls = <<f0>> => f.fd \in Fds
      BY Frames
    <3> QED BY <2>2, <2>3, <3>1 DEF FrameOk
  <2>5. MemInv' /\ BufInv' /\ mem'["hdr"] = mem["hdr"]
    BY <1>2 DEF Inv, MemInv, BufInv
  <2>6. /\ h.fd = f0.fd /\ AndFetch(h, "in", sector, buf) /\ file[h.fd] = r
        /\ [type |-> "in", sector |-> sector, buf |-> buf] = Want(h, r, V)
        /\ UNCHANGED <<disk, volume, file>>
    BY <1>2, <2>1, <2>2
  <2> QED BY <2>2, <2>3, <2>4, <2>5, <2>6, GoesOn
<1>3. CASE f.cfo >= SectorUnits
  <2>1. AndFetch([f EXCEPT !.pc = "walk"], "in", FatSector(f.cluster), "tbuf")
        /\ UNCHANGED <<volume, file>>
    BY <1>3 DEF GoOn
  <2>2. [type |-> "in", sector |-> FatSector(f.cluster), buf |-> "tbuf"]
          = Want([f EXCEPT !.pc = "walk"], r, V)
    <3>1. PICK h : h = [f EXCEPT !.pc = "walk"]
      OBVIOUS
    <3>2. h.pc = "walk" /\ h.cluster = f.cluster
      BY <3>1 DEF IsFrame
    <3>3. Want(h, r, V) = In(FatStart + (f.cluster * 4) \div (4 * FatEntries), "tbuf")
      BY <3>2, WantIs
    <3>4. FatSector(f.cluster) = FatStart + (f.cluster * 4) \div (4 * FatEntries)
      BY <1>0 DEF FatSector, V, Geometry
    <3> QED BY <3>1, <3>3, <3>4 DEF In
  <2> QED BY <1>2, <1>3, <2>1, <2>2
<1>4. CASE f.cfo < SectorUnits /\ f.done < f.len
  <2>0. ~ (f.cfo >= SectorUnits)
    BY <1>1, <1>4
  <2>1. AndFetch([f EXCEPT !.pc = "data"], "in", cluster_to_sector(f.cluster), "buf")
        /\ UNCHANGED <<volume, file>>
    BY <1>4, <2>0 DEF GoOn
  <2>2. [type |-> "in", sector |-> cluster_to_sector(f.cluster), buf |-> "buf"]
          = Want([f EXCEPT !.pc = "data"], r, V)
    <3>1. PICK h : h = [f EXCEPT !.pc = "data"]
      OBVIOUS
    <3>2. h.pc = "data" /\ h.cluster = f.cluster
      BY <3>1 DEF IsFrame
    <3>3. Want(h, r, V) = In(SectorOf(f.cluster), "buf")
      BY <3>2, WantIs
    <3>4. cluster_to_sector(f.cluster) = SectorOf(f.cluster)
      BY <1>0 DEF cluster_to_sector, V, Geometry, SectorOf
    <3> QED BY <3>1, <3>3, <3>4 DEF In
  <2> QED BY <1>2, <1>4, <2>1, <2>2
<1>5. CASE f.cfo < SectorUnits /\ f.done = f.len
  <2>1. Finish(f)
    <3>1. ~ (f.cfo >= SectorUnits) /\ ~ (f.done < f.len)
      BY <1>1, <1>5
    <3> QED BY <3>1 DEF GoOn
  <2> QED BY <1>1, <1>5, <2>1, RwReturns DEF Between, Placed
<1> QED BY <1>1, <1>3, <1>4, <1>5

\* A read or write goes on.
LEMMA RwResumed ==
    ASSUME Inv, NEW pc \in {"size", "walk", "data", "stored"}, Resumes(pc),
           top.op \in {"read", "write"}
    PROVE  /\ Idle /\ volume = V
           /\ \E f, g :
                /\ Under(f, g) /\ top = f /\ f.pc = pc /\ IsFrame(f)
                /\ Relies(f) => Served(Want(f, file[f.fd], V), mem, disk)
                /\ RwFrame(f, file[f.fd], disk, mem["buf"], TRUE)
                /\ \/ calls = <<f>> /\ f.fd \in Fds
                   \/ calls = <<f, g>> /\ f.op = "read" /\ f.torn = FALSE
<1>1. PICK f, g :
                /\ Under(f, g) /\ top = f /\ f.pc = pc /\ IsFrame(f)
                /\ Relies(f) => Served(Want(f, file[f.fd], V), mem, disk)
                /\ \/ calls = <<f>> /\ FrameOk(f, file[f.fd], disk, mem["buf"], TRUE)
                   \/ /\ calls = <<f, g>> /\ RwFrame(f, file[f.fd], disk, mem["buf"], TRUE)
                      /\ f.fd = Image /\ f.op = "read" /\ f.torn = FALSE
  BY Resumed
<1>2. f.op \in {"read", "write"}
  BY <1>1
<1>3. FrameOk(f, file[f.fd], disk, mem["buf"], TRUE) =>
        RwFrame(f, file[f.fd], disk, mem["buf"], TRUE) /\ f.fd \in Fds
  BY <1>2 DEF FrameOk, OpenFrame, EndFrame, ListFrame
<1>4. Idle /\ volume = V
  BY Resumed
<1> QED BY <1>1, <1>3, <1>4

\* The sector of the table that is looked at has the entry.
LEMMA NextCluster ==
    ASSUME NEW c \in Nat, volume = V, Followed(c), DiskOk(disk),
           Served(In(FatStart + (c * 4) \div (4 * FatEntries), "tbuf"), mem, disk)
    PROVE  HasNext(Disk, V, c) /\ next_cluster(c) = NextIn(Disk, V, c)
<1>1. HasNext(disk, V, c) /\ HasNext(Disk, V, c) /\ NextIn(disk, V, c) = NextIn(Disk, V, c)
  BY DiskFacts DEF Followed
<1>2. PICK q \in Int, s \in 0 .. 127 : q = c \div 128 /\ s = c % 128 /\ c = 128 * q + s
  BY DivMod
<1>3. s < 32
  BY <1>2 DEF Followed, FatEntries
<1>4. (c * 4) \div 512 = q
  <2>1. c * 4 = 512 * q + 4 * s /\ 4 * s \in 0 .. 512 - 1 /\ c * 4 \in Int
    BY <1>2, <1>3
  <2> QED BY <2>1, DivUnique
<1>5. (c * 4) % 128 = 4 * s
  <2>1. c * 4 = 128 * (4 * q) + 4 * s /\ 4 * s \in 0 .. 128 - 1 /\ c * 4 \in Int /\ 4 * q \in Int
    BY <1>2, <1>3
  <2> QED BY <2>1, DivUnique
<1>6. (4 * s) \div 4 = s
  <2>1. 4 * s = 4 * s + 0 /\ 0 \in 0 .. 4 - 1 /\ 4 * s \in Int
    BY <1>2
  <2> QED BY <2>1, DivUnique
<1>7. Index(c) = s
  BY <1>5, <1>6 DEF Index, FatEntries
<1>8. TableSector(V, c) = FatStart + q
  BY <1>2, VolumeFacts DEF TableSector, FatEntries
<1>9. FatStart + (c * 4) \div (4 * FatEntries) = FatStart + q
  BY <1>4 DEF FatEntries
<1>10. /\ FatStart + q \in DOMAIN disk /\ s \in DOMAIN disk[FatStart + q].next
       /\ NextIn(disk, V, c) = disk[FatStart + q].next[s]
  BY <1>1, <1>2, <1>8 DEF HasNext, NextIn, FatEntries
<1>11. mem["tbuf"] = disk[FatStart + q]
  BY <1>9, <1>10, DiskFacts DEF Served, In
<1> QED BY <1>1, <1>7, <1>10, <1>11 DEF next_cluster

\* What HasDone says stays true of a frame that has got as far.
LEMMA SameDone ==
    ASSUME NEW f, NEW r, NEW D, HasDone(f, r, D), NEW h, h.op = f.op, h.torn = f.torn, h.at = f.at,
           h.done = f.done, h.got = f.got, h.was = f.was, h.skip = f.skip
    PROVE  HasDone(h, r, D)
<1>1. HasRead(f, r, D) => HasRead(h, r, D)
  BY DEF HasRead
<1>2. \A n, p : After(h, n, p) = After(f, n, p)
  BY DEF After
<1>3. Written(f, r, D, f.done) => Written(h, r, D, h.done)
  BY <1>2 DEF Written
<1> QED BY <1>1, <1>3 DEF HasDone

\* A frame that does not store a sector has done what it says.
LEMMA RwDone ==
    ASSUME NEW f, NEW r, NEW D, NEW b, NEW t, RwFrame(f, r, D, b, t), f.pc # "stored"
    PROVE  HasDone(f, r, D)
BY DEF RwFrame, HasDone, HasWritten

\* One cluster further.
LEMMA RwWalks ==
    ASSUME Inv, Walk, ~astray', top.op \in {"read", "write"}
    PROVE  Inv'
<1>0. Resumes("walk") /\ UNCHANGED <<disk, mem>> /\ Followed(top.cluster)
      /\ GoOn([top EXCEPT !.cluster = next_cluster(@), !.cfo = @ - SectorUnits])
  BY DEF Walk
<1>1. Idle /\ volume = V
  BY <1>0, RwResumed
<1>2. PICK f0, g :
                /\ Under(f0, g) /\ top = f0 /\ f0.pc = "walk" /\ IsFrame(f0)
                /\ Relies(f0) => Served(Want(f0, file[f0.fd], V), mem, disk)
                /\ RwFrame(f0, file[f0.fd], disk, mem["buf"], TRUE)
                /\ \/ calls = <<f0>> /\ f0.fd \in Fds
                   \/ calls = <<f0, g>> /\ f0.op = "read" /\ f0.torn = FALSE
  BY <1>0, RwResumed
<1>3. PICK r : r = file[f0.fd]
  OBVIOUS
<1>4. Placed(f0, r) /\ Waits(f0, r) /\ HasDone(f0, r, disk)
  BY <1>2, <1>3, RwDone DEF RwFrame
<1>5. f0.cfo >= SectorUnits /\ f0.len = Goal(f0, r) /\ f0.len # 0 /\ f0.done <= f0.len
  BY <1>2, <1>4 DEF Waits
<1>6. PICK k \in 0 .. N(r.cluster) :
             /\ Reached(f0, r, k) /\ f0.cluster = C(r.cluster)[k] /\ f0.cluster \in Nat
             /\ k < N(r.cluster) => C(r.cluster)[k + 1] = NextIn(Disk, V, f0.cluster)
             /\ k = N(r.cluster) => ~HasNext(Disk, V, f0.cluster)
  BY <1>4, PlacedFacts
<1>7. PICK f : f = [f0 EXCEPT !.cluster = next_cluster(f0.cluster), !.cfo = f0.cfo - SectorUnits]
  OBVIOUS
<1>8. /\ IsFrame(f) /\ f.cluster = next_cluster(f0.cluster) /\ f.cfo = f0.cfo - SectorUnits
      /\ f.pc = "walk"
      /\ f.op = f0.op /\ f.fd = f0.fd /\ f.at = f0.at /\ f.want = f0.want /\ f.len = f0.len
      /\ f.done = f0.done /\ f.skip = f0.skip /\ f.torn = f0.torn /\ f.got = f0.got
      /\ f.was = f0.was
  BY <1>2, <1>7 DEF IsFrame
<1>9. GoOn(f)
  BY <1>0, <1>2, <1>7
<1>10. SectorUnits \in Nat \ {0} /\ f0.cfo \in Nat /\ f0.done \in Nat /\ f0.len \in Nat
       /\ f0.at \in Nat
  BY <1>4, VolumeFacts DEF Placed, Aimed, IsReg, FileSet
<1>11. Aimed(f, r) /\ Goal(f, r) = Goal(f0, r) /\ HasDone(f, r, disk)
  <2>1. HasDone(f, r, disk)
    BY <1>4, <1>8, SameDone
  <2>2. f.cfo \in Nat
    BY <1>5, <1>8, <1>10
  <2>3. Aimed(f, r)
    BY <1>2, <1>4, <1>8, <2>2 DEF Placed, Aimed
  <2> QED BY <1>8, <2>1, <2>3 DEF Goal
<1>12. Want(f0, r, V) = In(FatStart + (f0.cluster * 4) \div (4 * FatEntries), "tbuf") /\ Relies(f0)
  BY <1>2, WantIs DEF Relies
<1>13. HasNext(Disk, V, f0.cluster) /\ next_cluster(f0.cluster) = NextIn(Disk, V, f0.cluster)
  BY <1>0, <1>1, <1>2, <1>3, <1>6, <1>12, NextCluster DEF Inv
<1>14. N(r.cluster) \in Nat
  BY <1>4, RegFacts, VolumeFacts DEF Placed, Aimed
<1>15. k < N(r.cluster)
  BY <1>6, <1>13, <1>14
<1>16. Reached(f, r, k + 1)
  <2>1. SectorUnits * (k + 1) = SectorUnits * k + SectorUnits /\ SectorUnits * k \in Nat
    BY <1>10, <1>14, Z3
  <2>2. SectorUnits * k + f0.cfo = f0.at + f0.done
    BY <1>6 DEF Reached
  <2>3. PICK x \in Nat : x = SectorUnits * k
    BY <2>1
  <2>4. SectorUnits * (k + 1) + f.cfo = f.at + f.done
    BY <1>8, <1>10, <2>1, <2>2, <2>3
  <2>5. f.cluster = C(r.cluster)[k + 1]
    BY <1>6, <1>8, <1>13, <1>15
  <2> QED BY <2>4, <2>5 DEF Reached
<1>17. Placed(f, r)
  <2>1. k + 1 \in 0 .. N(r.cluster)
    BY <1>14, <1>15
  <2> QED BY <1>11, <1>16, <2>1 DEF Placed
<1>18. Between(f, r, disk)
  BY <1>5, <1>8, <1>11, <1>17 DEF Between, Aimed
<1>19. Between(f, file[f.fd], disk) /\ f.len # 0 /\ f.fd = f0.fd /\ UNCHANGED <<disk, mem>>
  BY <1>0, <1>3, <1>5, <1>8, <1>18
<1>20. \/ calls = <<f0>> /\ f.fd \in Fds
       \/ calls = <<f0, g>> /\ f.op = "read" /\ f.torn = FALSE
  BY <1>2, <1>8
<1>21. Under(f0, g) /\ IsFrame(f) /\ Idle
  BY <1>1, <1>2, <1>8
<1> QED BY <1>9, <1>19, <1>20, <1>21, RwGoesOn

\* Past the part of the sector that the call is after.
LEMMA RwForward ==
    ASSUME NEW h, NEW r, IsFrame(h), Placed(h, r), Waits(h, r), h.pc \in {"data", "stored"},
           NEW f, f = Forward(h, Chunk(h))
    PROVE  /\ IsFrame(f) /\ Placed(f, r) /\ f.len = Goal(f, r) /\ f.len # 0 /\ f.done <= f.len
           /\ f.op = h.op /\ f.fd = h.fd /\ f.torn = h.torn /\ f.at = h.at /\ f.got = h.got
           /\ f.was = h.was /\ f.skip = 0 /\ f.done = h.done + Chunk(h) /\ f.len = h.len
           /\ Chunk(h) \in 1 .. SectorUnits - h.cfo
           /\ f.op = "read" => f.at <= Size(r)
<1>1. /\ IsFrame(f) /\ f.cluster = h.cluster /\ f.cfo = h.cfo + Chunk(h) /\ f.pc = h.pc
      /\ f.op = h.op /\ f.fd = h.fd /\ f.at = h.at /\ f.want = h.want /\ f.len = h.len
      /\ f.done = h.done + Chunk(h) /\ f.skip = 0 /\ f.torn = h.torn /\ f.got = h.got
      /\ f.was = h.was
  BY DEF IsFrame, Forward
<1>2. /\ h.cfo \in Nat /\ h.done \in Nat /\ h.len \in Nat /\ h.at \in Nat /\ SectorUnits \in Nat
      /\ h.cfo < SectorUnits /\ h.done < h.len /\ h.len = Goal(h, r) /\ h.len # 0
  BY VolumeFacts DEF Placed, Aimed, IsReg, FileSet, Waits
<1>3. Chunk(h) \in 1 .. SectorUnits - h.cfo /\ h.done + Chunk(h) <= h.len
  BY <1>2, ChunkFacts
<1>4. PICK n \in Nat : n = Chunk(h) /\ n <= SectorUnits - h.cfo
  BY <1>2, <1>3
<1>5. PICK k \in 0 .. N(r.cluster) : Reached(h, r, k)
  BY DEF Placed
<1>6. Reached(f, r, k)
  <2>1. N(r.cluster) \in Nat
    BY RegFacts, VolumeFacts DEF Placed, Aimed
  <2>2. PICK x \in Nat : x = SectorUnits * k
    BY <1>2, <2>1
  <2>3. x + h.cfo = h.at + h.done
    BY <1>5, <2>2 DEF Reached
  <2>4. f.cfo = h.cfo + n /\ f.done = h.done + n /\ f.at = h.at
    BY <1>1, <1>4
  <2>5. x + f.cfo = f.at + f.done
    BY <1>2, <1>4, <2>2, <2>3, <2>4
  <2>6. f.cluster = C(r.cluster)[k]
    BY <1>1, <1>5 DEF Reached
  <2> QED BY <2>2, <2>5, <2>6 DEF Reached
<1>7. Aimed(f, r) /\ Goal(f, r) = Goal(h, r)
  <2>1. f.cfo \in Nat /\ f.done \in Nat
    BY <1>1, <1>2, <1>4
  <2>2. Aimed(h, r)
    BY DEF Placed
  <2> QED BY <1>1, <2>1, <2>2 DEF Aimed, Goal
<1>8. Placed(f, r)
  BY <1>5, <1>6, <1>7 DEF Placed
<1>9. f.op = "read" => f.at <= Size(r)
  BY <1>1, <1>7 DEF Aimed
<1> QED BY <1>1, <1>2, <1>3, <1>7, <1>8, <1>9

\* A sector has been stored.
LEMMA RwStored ==
    ASSUME Inv, Stored
    PROVE  Inv'
<1>0. Resumes("stored") /\ UNCHANGED <<disk, mem>> /\ GoOn(Forward(top, Chunk(top)))
  BY DEF Stored
<1>1. top.op \in {"read", "write"}
  <2>1. PICK f, g :
                /\ Under(f, g) /\ top = f /\ f.pc = "stored" /\ IsFrame(f)
                /\ Relies(f) => Served(Want(f, file[f.fd], V), mem, disk)
                /\ \/ calls = <<f>> /\ FrameOk(f, file[f.fd], disk, mem["buf"], TRUE)
                   \/ /\ calls = <<f, g>> /\ RwFrame(f, file[f.fd], disk, mem["buf"], TRUE)
                      /\ f.fd = Image /\ f.op = "read" /\ f.torn = FALSE
    BY <1>0, Resumed
  <2>2. CASE FrameOk(f, file[f.fd], disk, mem["buf"], TRUE)
    BY <2>1, <2>2 DEF FrameOk, OpenFrame, EndFrame, ListFrame, RwFrame, Placed, Aimed
  <2>3. CASE f.op = "read"
    BY <2>1, <2>3
  <2> QED BY <2>1, <2>2, <2>3
<1>2. Idle /\ volume = V
  BY <1>0, <1>1, RwResumed
<1>3. PICK f0, g :
                /\ Under(f0, g) /\ top = f0 /\ f0.pc = "stored" /\ IsFrame(f0)
                /\ RwFrame(f0, file[f0.fd], disk, mem["buf"], TRUE)
                /\ \/ calls = <<f0>> /\ f0.fd \in Fds
                   \/ calls = <<f0, g>> /\ f0.op = "read" /\ f0.torn = FALSE
  BY <1>0, <1>1, RwResumed
<1>4. PICK r : r = file[f0.fd]
  OBVIOUS
<1>5. PICK f : f = Forward(f0, Chunk(f0))
  OBVIOUS
<1>6. /\ IsFrame(f) /\ Placed(f, r) /\ f.len = Goal(f, r) /\ f.len # 0 /\ f.done <= f.len
      /\ f.op = f0.op /\ f.fd = f0.fd /\ f.torn = f0.torn /\ f.at = f0.at
      /\ f.was = f0.was /\ f.skip = 0 /\ f.done = f0.done + Chunk(f0)
      /\ f.op = "read" => f.at <= Size(r)
  BY <1>3, <1>4, <1>5, RwForward DEF RwFrame
<1>7. HasDone(f, r, disk)
  <2>1. CASE f0.torn
    BY <1>6, <2>1 DEF HasDone
  <2>2. CASE ~f0.torn
    <3>1. f0.op = "write" /\ HasWritten(f0, r, disk, mem["buf"], TRUE)
      BY <1>3, <1>4, <2>2 DEF RwFrame, Waits
    <3>2. /\ f0.was = [p \in 0 .. SectorUnits * N(r.cluster) - 1 |-> f0.was[p]]
          /\ Written(f0, r, disk, f.done)
      BY <1>3, <1>6, <3>1 DEF HasWritten
    <3>3. \A n, p : After(f, n, p) = After(f0, n, p)
      BY <1>6 DEF After
    <3>4. Written(f, r, disk, f.done)
      BY <3>2, <3>3 DEF Written
    <3> QED BY <1>6, <3>1, <3>2, <3>4 DEF HasDone
  <2> QED BY <2>1, <2>2
<1>8. Between(f, file[f.fd], disk) /\ f.len # 0 /\ f.fd = f0.fd /\ UNCHANGED <<disk, mem>>
  BY <1>0, <1>4, <1>6, <1>7 DEF Between
<1>9. \/ calls = <<f0>> /\ f.fd \in Fds
      \/ calls = <<f0, g>> /\ f.op = "read" /\ f.torn = FALSE
  BY <1>3, <1>6
<1>10. Under(f0, g) /\ IsFrame(f) /\ Idle /\ GoOn(f)
  BY <1>0, <1>2, <1>3, <1>5, <1>6
<1> QED BY <1>8, <1>9, <1>10, RwGoesOn

\* The units of the sector that a call has waited for.
LEMMA UnitsServed ==
    ASSUME NEW f, NEW r, NEW D, NEW m, f.pc = "data", Served(Want(f, r, V), m, D),
           Placed(f, r), NEW k \in 0 .. N(r.cluster) - 1, Reached(f, r, k), NEW i \in Units
    PROVE  m["buf"].units[i] = UnitAt(D, r, SectorUnits * k + i)
<1>1. N(r.cluster) \in Nat /\ OnChain(r.cluster, N(r.cluster))
  BY RegFacts, VolumeFacts DEF Placed, Aimed
<1>2. f.cluster = C(r.cluster)[k] /\ SectorOf(f.cluster) \in DOMAIN Disk
  BY <1>1 DEF Reached, OnChain
<1>3. Want(f, r, V) = In(SectorOf(f.cluster), "buf")
  BY WantIs
<1>4. m["buf"] = D[SectorOf(f.cluster)]
  BY <1>2, <1>3 DEF Served, In
<1>5. (SectorUnits * k + i) \div SectorUnits = k /\ (SectorUnits * k + i) % SectorUnits = i
  BY <1>1, PlaceUnit
<1>6. UnitAt(D, r, SectorUnits * k + i) = D[SectorOf(C(r.cluster)[k])].units[i]
  <2>1. PICK p : p = SectorUnits * k + i
    OBVIOUS
  <2>2. p \div SectorUnits = k /\ p % SectorUnits = i
    BY <1>5, <2>1
  <2> QED BY <2>1, <2>2 DEF UnitAt
<1> QED BY <1>2, <1>4, <1>6

\* Two sequences, one after the other.
LEMMA Joined ==
    ASSUME NEW x, NEW a \in Nat, NEW b \in Nat
    PROVE  [i \in 1 .. a |-> x[i]] \o [i \in 1 .. b |-> x[a + i]] = [i \in 1 .. a + b |-> x[i]]
<1> DEFINE S == {x[i] : i \in 1 .. a + b}
           s == [i \in 1 .. a |-> x[i]]
           t == [i \in 1 .. b |-> x[a + i]]
           u == [i \in 1 .. a + b |-> x[i]]
<1>1. s \in Seq(S) /\ t \in Seq(S) /\ u \in Seq(S) /\ Len(s) = a /\ Len(t) = b /\ Len(u) = a + b
  <2>1. \A i \in 1 .. a : x[i] \in S
    OBVIOUS
  <2>2. \A i \in 1 .. b : x[a + i] \in S
    OBVIOUS
  <2>3. \A i \in 1 .. a + b : x[i] \in S
    OBVIOUS
  <2> HIDE DEF S
  <2> QED BY <2>1, <2>2, <2>3
<1>2. /\ Len(s \o t) = a + b /\ s \o t \in Seq(S)
      /\ \A i \in 1 .. a + b : (s \o t)[i] = IF i <= a THEN s[i] ELSE t[i - a]
  <2> HIDE DEF s, t, u, S
  <2> QED BY <1>1, ConcatProperties
<1>3. \A i \in 1 .. a + b : (IF i <= a THEN s[i] ELSE t[i - a]) = u[i]
  <2> TAKE i \in 1 .. a + b
  <2>1. CASE i <= a
    BY <2>1
  <2>2. CASE ~ (i <= a)
    <3>1. i - a \in 1 .. b /\ a + (i - a) = i
      BY <2>2
    <3>2. t[i - a] = x[a + (i - a)]
      BY <3>1
    <3> QED BY <2>2, <3>1, <3>2
  <2> QED BY <2>1, <2>2
<1>4. \A i \in 1 .. Len(u) : (s \o t)[i] = u[i]
  BY <1>1, <1>2, <1>3
<1>5. s \o t = u
  <2> HIDE DEF s, t, u, S
  <2> QED BY <1>1, <1>2, <1>4, SeqEqual
<1> QED BY <1>5

\* A read takes its part of the sector.
LEMMA RwCopiesOut ==
    ASSUME Inv, CopyOut
    PROVE  Inv'
<1> DEFINE ch == Chunk(top)
           rest == [i \in 1 .. ch - top.skip |-> Unit(top.cfo + top.skip + i - 1)]
<1>0. Resumes("data") /\ UNCHANGED <<disk, mem>> /\ top.op = "read"
      /\ GoOn(Forward([top EXCEPT !.got = @ \o rest], ch))
  BY DEF CopyOut
<1>1. Idle /\ volume = V
  BY <1>0, RwResumed
<1>2. PICK f0, g :
                /\ Under(f0, g) /\ top = f0 /\ f0.pc = "data" /\ IsFrame(f0)
                /\ Relies(f0) => Served(Want(f0, file[f0.fd], V), mem, disk)
                /\ RwFrame(f0, file[f0.fd], disk, mem["buf"], TRUE)
                /\ \/ calls = <<f0>> /\ f0.fd \in Fds
                   \/ calls = <<f0, g>> /\ f0.op = "read" /\ f0.torn = FALSE
  BY <1>0, RwResumed
<1>3. PICK r : r = file[f0.fd]
  OBVIOUS
<1>4. PICK got : got = f0.got \o rest
  OBVIOUS
<1>5. PICK h : h = [f0 EXCEPT !.got = got]
  OBVIOUS
<1>6. PICK f : f = Forward(h, ch)
  OBVIOUS
<1>7. GoOn(f)
  BY <1>0, <1>2, <1>4, <1>5, <1>6
<1> HIDE DEF rest
<1>8. Placed(f0, r) /\ Waits(f0, r)
  BY <1>2, <1>3 DEF RwFrame
<1>9. /\ IsFrame(h) /\ h.op = f0.op /\ h.fd = f0.fd /\ h.path = f0.path /\ h.pc = f0.pc
      /\ h.cluster = f0.cluster /\ h.at = f0.at /\ h.cfo = f0.cfo /\ h.want = f0.want
      /\ h.len = f0.len /\ h.done = f0.done /\ h.skip = f0.skip /\ h.torn = f0.torn
      /\ h.got = got /\ h.was = f0.was
  BY <1>2, <1>5 DEF IsFrame
<1>10. Placed(h, r) /\ Waits(h, r) /\ Chunk(h) = ch /\ Chunk(f0) = ch
  <2>1. \A k : Reached(h, r, k) <=> Reached(f0, r, k)
    BY <1>9 DEF Reached
  <2>2. Placed(h, r)
    BY <1>8, <1>9, <2>1 DEF Placed, Aimed
  <2>3. Waits(h, r)
    BY <1>8, <1>9 DEF Waits, Goal
  <2> QED BY <1>2, <1>9, <2>2, <2>3 DEF Chunk
<1> HIDE DEF ch
<1>11. /\ IsFrame(f) /\ Placed(f, r) /\ f.len = Goal(f, r) /\ f.len # 0 /\ f.done <= f.len
       /\ f.op = f0.op /\ f.fd = f0.fd /\ f.torn = f0.torn /\ f.at = f0.at /\ f.got = got
       /\ f.skip = 0 /\ f.done = f0.done + ch /\ ch \in 1 .. SectorUnits - f0.cfo
       /\ f.op = "read" => f.at <= Size(r)
  BY <1>2, <1>6, <1>9, <1>10, RwForward
<1>12. HasDone(f, r, disk)
  <2>1. CASE f0.torn
    BY <1>11, <2>1 DEF HasDone
  <2>2. CASE ~f0.torn
    <3>1. f0.skip = 0 /\ HasRead(f0, r, disk)
      BY <1>0, <1>2, <1>3, <2>2 DEF RwFrame
    <3>2. /\ f0.at \in Nat /\ f0.done \in Nat /\ f0.cfo \in Nat /\ f0.cfo < SectorUnits
          /\ f0.done < f0.len /\ f0.len = Goal(f0, r) /\ f0.len \in Nat /\ SectorUnits \in Nat
          /\ f0.done <= f0.len
      BY <1>2, <1>8, VolumeFacts DEF Placed, Aimed, IsReg, FileSet, Waits
    <3>3. PICK a \in Nat, n \in Nat : a = f0.done /\ n = ch /\ n <= SectorUnits - f0.cfo
      BY <1>11, <3>2
    <3> DEFINE x == [i \in 1 .. a + n |-> UnitAt(disk, r, f0.at + i - 1)]
    <3>4. PICK k \in 0 .. N(r.cluster) : Reached(f0, r, k)
      BY <1>8 DEF Placed
    <3>5. k \in 0 .. N(r.cluster) - 1 /\ f0.at + f0.done = SectorUnits * k + f0.cfo
      <4>1. k < N(r.cluster) /\ f0.at + f0.done = SectorUnits * k + f0.cfo
        BY <1>0, <1>2, <1>8, <3>2, <3>4, InFile DEF Placed
      <4>2. N(r.cluster) \in Nat
        BY <1>8, RegFacts, VolumeFacts DEF Placed, Aimed
      <4> QED BY <4>1, <4>2
    <3>6. Served(Want(f0, r, V), mem, disk)
      BY <1>2, <1>3, <2>2 DEF Relies
    <3>7. ASSUME NEW i \in 1 .. n PROVE Unit(f0.cfo + i - 1) = x[a + i]
      <4>1. PICK j \in Units : j = f0.cfo + i - 1
        BY <3>2, <3>3 DEF Units
      <4>2. mem["buf"].units[j] = UnitAt(disk, r, SectorUnits * k + j)
        BY <1>2, <1>8, <3>4, <3>5, <3>6, UnitsServed
      <4>3. SectorUnits * k + j = f0.at + (a + i) - 1
        <5>1. PICK y \in Int : y = SectorUnits * k
          BY <3>2
        <5> QED BY <3>2, <3>3, <3>5, <4>1, <5>1
      <4>4. a + i \in 1 .. a + n
        BY <3>3
      <4>5. x[a + i] = UnitAt(disk, r, f0.at + (a + i) - 1)
        BY <4>4
      <4> HIDE DEF x
      <4> QED BY <4>1, <4>2, <4>3, <4>5 DEF Unit
    <3>8. rest = [i \in 1 .. n |-> x[a + i]]
      <4>1. rest = [i \in 1 .. n |-> Unit(f0.cfo + i - 1)]
        <5>1. ch - top.skip = n /\ \A i \in 1 .. n : top.cfo + top.skip + i - 1 = f0.cfo + i - 1
          BY <1>2, <3>1, <3>2, <3>3
        <5> QED BY <5>1 DEF rest
      <4> HIDE DEF x
      <4> QED BY <3>7, <4>1
    <3>9. f0.got = [i \in 1 .. a |-> x[i]]
      <4>1. \A i \in 1 .. a : x[i] = UnitAt(disk, r, f0.at + i - 1)
        BY <3>3
      <4> HIDE DEF x
      <4> QED BY <3>1, <3>3, <4>1 DEF HasRead
    <3>10. got = [i \in 1 .. a + n |-> x[i]]
      <4> HIDE DEF x
      <4> QED BY <1>4, <3>8, <3>9, Joined
    <3>11. HasRead(f, r, disk)
      <4>1. [i \in 1 .. a + n |-> x[i]] = [i \in 1 .. a + n |-> UnitAt(disk, r, f0.at + i - 1)]
        OBVIOUS
      <4> HIDE DEF x
      <4> QED BY <1>11, <3>3, <3>10, <4>1 DEF HasRead
    <3> QED BY <1>0, <1>2, <1>11, <3>11 DEF HasDone
  <2> QED BY <2>1, <2>2
<1>13. Between(f, file[f.fd], disk) /\ f.len # 0 /\ f.fd = f0.fd /\ UNCHANGED <<disk, mem>>
  BY <1>0, <1>3, <1>11, <1>12 DEF Between
<1>14. \/ calls = <<f0>> /\ f.fd \in Fds
       \/ calls = <<f0, g>> /\ f.op = "read" /\ f.torn = FALSE
  BY <1>2, <1>11
<1>15. Under(f0, g) /\ IsFrame(f) /\ Idle
  BY <1>1, <1>2, <1>11
<1> QED BY <1>7, <1>13, <1>14, <1>15, RwGoesOn

\* Units of a program in the buffer.
LEMMA PatchedIs ==
    ASSUME MemInv, NEW f, NEW from, NEW upto, mem' = Patched(f, from, upto)
    PROVE  /\ MemInv' /\ IsUnits(mem'["buf"]) /\ mem'["hdr"] = mem["hdr"]
           /\ \A i \in Units :
                mem'["buf"].units[i] =
                  IF i >= f.cfo + from /\ i < f.cfo + upto THEN User(f.done + i - f.cfo)
                  ELSE mem["buf"].units[i]
<1> DEFINE old == mem["buf"].units
           F == [i \in Units |-> IF i >= f.cfo + from /\ i < f.cfo + upto
                                 THEN User(f.done + i - f.cfo) ELSE old[i]]
<1>1. mem = [b \in Bufs |-> mem[b]] /\ {"buf", "hdr"} \subseteq Bufs
  BY DEF MemInv, Bufs
<1>2. mem' = [mem EXCEPT !["buf"] = [kind |-> "units", units |-> F]]
  BY DEF Patched, Units, Unit
<1> HIDE DEF F
<1>6. /\ MemInv' /\ mem'["hdr"] = mem["hdr"] /\ mem'["buf"] = [kind |-> "units", units |-> F]
  BY <1>1, <1>2 DEF MemInv
<1>7. F = [i \in Units |-> F[i]]
  BY DEF F
<1>8. IsUnits(mem'["buf"])
  <2>1. PICK s : s = mem'["buf"]
    OBVIOUS
  <2>2. s = [kind |-> "units", units |-> F] /\ s.units = F
    BY <1>6, <2>1
  <2>3. s = [kind |-> "units", units |-> [i \in Units |-> s.units[i]]]
    BY <1>7, <2>2
  <2>4. IsUnits(s)
    BY <2>3 DEF IsUnits, Units
  <2> QED BY <2>1, <2>4
<1>9. \A i \in Units : F[i] = IF i >= f.cfo + from /\ i < f.cfo + upto
                              THEN User(f.done + i - f.cfo) ELSE old[i]
  BY DEF F
<1> QED BY <1>6, <1>8, <1>9

\* The sector with the part that is written.
LEMMA PatchHolds ==
    ASSUME MemInv, IsUnits(mem["buf"]), NEW f, NEW r, NEW D, IsFrame(f), Placed(f, r), Waits(f, r), f.pc = "data",
           f.op = "write", f.skip = 0, HasWritten(f, r, D, mem["buf"], TRUE),
           Served(Want(f, r, V), mem, D), mem' = Patched(f, 0, Chunk(f)),
           NEW h, h = [f EXCEPT !.pc = "stored"]
    PROVE  HasWritten(h, r, D, mem'["buf"], FALSE)
<1> DEFINE ch == Chunk(f)  n == N(r.cluster)
<1>1. /\ h.op = f.op /\ h.pc = "stored" /\ h.cluster = f.cluster /\ h.at = f.at /\ h.cfo = f.cfo
      /\ h.len = f.len /\ h.done = f.done /\ h.was = f.was /\ Chunk(h) = ch
  BY DEF IsFrame, Chunk
<1>2. /\ f.at \in Nat /\ f.done \in Nat /\ f.cfo \in Nat /\ f.cfo < SectorUnits
      /\ f.done < f.len /\ SectorUnits \in Nat /\ n \in Nat
  BY RegFacts, VolumeFacts DEF Placed, Aimed, IsReg, FileSet, Waits
<1>3. PICK a \in Nat : a = ch /\ a <= SectorUnits - f.cfo
  BY <1>2, ChunkFacts
<1>4. /\ f.was = [p \in 0 .. SectorUnits * n - 1 |-> f.was[p]]
      /\ Written(f, r, D, f.done)
  BY DEF HasWritten
<1>5. \A m, p : After(h, m, p) = After(f, m, p)
  BY <1>1 DEF After
<1>6. Written(h, r, D, h.done + 0)
  <2>1. h.done + 0 = f.done
    BY <1>1, <1>2
  <2>2. Written(h, r, D, f.done)
    BY <1>4, <1>5 DEF Written
  <2> QED BY <2>1, <2>2
<1>7. ASSUME NEW k \in 0 .. n - 1, Reached(f, r, k), NEW i \in Units
      PROVE  mem'["buf"].units[i] = After(f, f.done + a, SectorUnits * k + i)
  <2>1. mem["buf"].units[i] = UnitAt(D, r, SectorUnits * k + i)
    BY <1>7, UnitsServed
  <2>2. SectorUnits * k + i \in 0 .. SectorUnits * n - 1
    BY <1>2, PlaceUnit
  <2>3. PICK y \in Nat : y = SectorUnits * k
    BY <1>2
  <2>4. y + f.cfo = f.at + f.done /\ i \in Nat
    BY <1>2, <1>7, <2>3 DEF Reached, Units
  <2>5. mem["buf"].units[i] = After(f, f.done, y + i)
    BY <1>4, <2>1, <2>2, <2>3 DEF Written
  <2>6. mem'["buf"].units[i] = IF i >= f.cfo /\ i < f.cfo + a THEN User(f.done + i - f.cfo)
                               ELSE mem["buf"].units[i]
    <3>1. f.cfo + 0 = f.cfo
      BY <1>2
    <3> QED BY <1>3, <3>1, PatchedIs
  <2>7. CASE i >= f.cfo /\ i < f.cfo + a
    <3>1. y + i \in f.at .. f.at + (f.done + a) - 1 /\ (y + i) - f.at = f.done + i - f.cfo
      BY <1>2, <2>4, <2>7
    <3> QED BY <2>3, <2>6, <2>7, <3>1 DEF After
  <2>8. CASE ~ (i >= f.cfo /\ i < f.cfo + a)
    <3>1. y + i \in f.at .. f.at + (f.done + a) - 1 <=> y + i \in f.at .. f.at + f.done - 1
      BY <1>2, <2>4, <2>8
    <3>2. After(f, f.done + a, y + i) = After(f, f.done, y + i)
      BY <3>1 DEF After
    <3> QED BY <2>3, <2>5, <2>6, <2>8, <3>2
  <2> QED BY <2>7, <2>8
<1>8. Patch(h, r, mem'["buf"])
  <2>1. \A k : Reached(h, r, k) <=> Reached(f, r, k)
    BY <1>1 DEF Reached
  <2> QED BY <1>1, <1>3, <1>5, <1>7, <2>1 DEF Patch
<1> QED BY <1>1, <1>4, <1>6, <1>8 DEF HasWritten

\* A write puts its part into the sector.
LEMMA RwCopiesIn ==
    ASSUME Inv, CopyIn
    PROVE  Inv'
<1>0. /\ Resumes("data") /\ top.op = "write" /\ UNCHANGED <<disk, volume, file>>
      /\ mem' = Patched(top, top.skip, Chunk(top))
      /\ AndFetch([top EXCEPT !.pc = IF Spoils(cluster_to_sector(top.cluster)) THEN "lost" ELSE "stored"],
                  "out", cluster_to_sector(top.cluster), "buf")
  BY DEF CopyIn
<1>1. Idle /\ volume = V
  BY <1>0, RwResumed
<1>2. PICK f0, g :
                /\ Under(f0, g) /\ top = f0 /\ f0.pc = "data" /\ IsFrame(f0)
                /\ Relies(f0) => Served(Want(f0, file[f0.fd], V), mem, disk)
                /\ RwFrame(f0, file[f0.fd], disk, mem["buf"], TRUE)
                /\ \/ calls = <<f0>> /\ f0.fd \in Fds
                   \/ calls = <<f0, g>> /\ f0.op = "read" /\ f0.torn = FALSE
  BY <1>0, RwResumed
<1>3. PICK r : r = file[f0.fd]
  OBVIOUS
<1>4. PICK h : h = [f0 EXCEPT !.pc = "stored"]
  OBVIOUS
<1>5. Placed(f0, r) /\ Waits(f0, r) /\ f0.op = "write" /\ calls = <<f0>> /\ f0.fd \in Fds
  BY <1>0, <1>2, <1>3 DEF RwFrame
<1>6. MemInv /\ IsUnits(mem["buf"])
  BY <1>3, <1>5 DEF Inv, BufInv, Placed, Aimed
<1>7. MemInv' /\ IsUnits(mem'["buf"]) /\ mem'["hdr"] = mem["hdr"]
  BY <1>0, <1>6, PatchedIs
<1>8. /\ IsFrame(h) /\ h.op = f0.op /\ h.fd = f0.fd /\ h.path = f0.path /\ h.pc = "stored"
      /\ h.cluster = f0.cluster /\ h.at = f0.at /\ h.cfo = f0.cfo /\ h.want = f0.want
      /\ h.len = f0.len /\ h.done = f0.done /\ h.skip = f0.skip /\ h.torn = f0.torn
      /\ h.got = f0.got /\ h.was = f0.was
  BY <1>2, <1>4 DEF IsFrame
<1>9. Placed(h, r) /\ Waits(h, r)
  <2>1. \A k : Reached(h, r, k) <=> Reached(f0, r, k)
    BY <1>8 DEF Reached
  <2>2. Placed(h, r)
    BY <1>5, <1>8, <2>1 DEF Placed, Aimed
  <2>3. Waits(h, r)
    BY <1>2, <1>5, <1>8 DEF Waits, Goal
  <2> QED BY <2>2, <2>3
<1>10. RwFrame(h, r, disk, mem'["buf"], FALSE)
  <2>1. CASE f0.torn
    BY <1>8, <1>9, <2>1 DEF RwFrame
  <2>2. CASE ~f0.torn
    <3>1. f0.skip = 0 /\ HasWritten(f0, r, disk, mem["buf"], TRUE)
      BY <1>2, <1>3, <1>5, <2>2 DEF RwFrame
    <3>2. Served(Want(f0, r, V), mem, disk)
      BY <1>2, <1>3, <2>2 DEF Relies
    <3>3. mem' = Patched(f0, 0, Chunk(f0))
      BY <1>0, <1>2, <3>1
    <3>4. HasWritten(h, r, disk, mem'["buf"], FALSE)
      BY <1>2, <1>4, <1>5, <1>6, <3>1, <3>2, <3>3, PatchHolds
    <3> QED BY <1>5, <1>8, <1>9, <3>1, <3>4 DEF RwFrame
  <2> QED BY <2>1, <2>2
<1>11. BufInv' /\ FrameOk(h, file[h.fd], disk, mem'["buf"], FALSE)
  BY <1>3, <1>5, <1>7, <1>8, <1>10 DEF BufInv, FrameOk
<1>12. [type |-> "out", sector |-> cluster_to_sector(f0.cluster), buf |-> "buf"] = Want(h, file[h.fd], V)
  <2>1. Want(h, file[h.fd], V) = [type |-> "out", sector |-> SectorOf(h.cluster), buf |-> "buf"]
    BY <1>8, WantIs
  <2>2. SectorOf(h.cluster) = cluster_to_sector(f0.cluster)
    BY <1>1, <1>8 DEF SectorOf, cluster_to_sector, V, Geometry
  <2> QED BY <2>1, <2>2
<1>13. AndFetch(h, "out", cluster_to_sector(f0.cluster), "buf")
  <2>1. Want(h, r, V).sector = SectorOf(h.cluster) /\ Want(h, r, V).type = "out"
    BY <1>8, WantIs
  <2>2. SectorOf(h.cluster) \in DOMAIN Disk => SectorOf(h.cluster) \in FileSectors
    BY <1>9, <2>1, RwWant DEF WantOk
  <2>3. cluster_to_sector(f0.cluster) = SectorOf(h.cluster)
    BY <1>1, <1>8, VolumeFacts DEF SectorOf, cluster_to_sector
  <2>4. ~Spoils(cluster_to_sector(f0.cluster))
    <3>1. DiskOk(disk)
      BY <1>1 DEF Inv
    <3>2. \A s \in DOMAIN disk : s \in DOMAIN Disk /\ (s \in FileSectors => IsUnits(disk[s]))
      BY <3>1, DiskFacts
    <3>3. \A s : IsUnits(s) => s.kind = "units"
      BY DEF IsUnits
    <3> QED BY <2>2, <2>3, <3>2, <3>3 DEF Spoils
  <2> QED BY <1>0, <1>2, <1>4, <2>4
<1> QED BY <1>0, <1>1, <1>2, <1>5, <1>7, <1>8, <1>11, <1>12, <1>13, GoesOn

\* A read or write learns the size of its file.
LEMMA RwSized ==
    ASSUME Inv, Sized, top.op \in {"read", "write"}
    PROVE  Inv'
<1> DEFINE size == Unit(file[top.fd].index).size
           n == Cut(top, size)
           f == [top EXCEPT !.len = n]
           past == top.op = "read" /\ top.at > size
<1>0. /\ Resumes("size") /\ UNCHANGED <<disk, mem>>
      /\ past => /\ calls' = <<[top EXCEPT !.pc = "lost"]>> \o Tail(calls)
                 /\ last' = NoResult /\ UNCHANGED <<blk, volume, file>>
      /\ ~past => IF n = 0 THEN Finish(f) ELSE GoOn(f)
  BY DEF Sized
<1>1. Idle /\ volume = V
  BY <1>0, RwResumed
<1>2. PICK f0, g :
                /\ Under(f0, g) /\ top = f0 /\ f0.pc = "size" /\ IsFrame(f0)
                /\ Relies(f0) => Served(Want(f0, file[f0.fd], V), mem, disk)
                /\ RwFrame(f0, file[f0.fd], disk, mem["buf"], TRUE)
                /\ \/ calls = <<f0>> /\ f0.fd \in Fds
                   \/ calls = <<f0, g>> /\ f0.op = "read" /\ f0.torn = FALSE
  BY <1>0, RwResumed
<1>3. PICK r : r = file[f0.fd]
  OBVIOUS
<1>4. Placed(f0, r) /\ Waits(f0, r) /\ HasDone(f0, r, disk) /\ IsReg(r)
  BY <1>2, <1>3, RwDone DEF RwFrame, Placed, Aimed
<1>5. f0.len = f0.want /\ f0.done = 0 /\ f0.cfo = f0.at /\ f0.torn = FALSE
  BY <1>2, <1>4 DEF Waits
<1>6. Unit(r.index).size = Size(r)
  <2>1. Found(r, "reg")
    BY <1>4 DEF IsReg
  <2>2. SectorOf(r.dir) \in DOMAIN Disk
    BY <2>1, FoundFacts
  <2>3. Want(f0, r, V) = In(SectorOf(r.dir), "buf") /\ Relies(f0)
    BY <1>2, <1>5, WantIs DEF Relies
  <2>4. mem["buf"] = disk[SectorOf(r.dir)]
    BY <1>2, <1>3, <2>2, <2>3 DEF Served, In
  <2> QED BY <2>1, <2>4, SizeIs DEF Unit, Inv
<1>7. n = Goal(f0, r) /\ (past <=> f0.op = "read" /\ f0.at > Size(r))
  BY <1>2, <1>3, <1>4, <1>5, <1>6 DEF Cut, Goal, Placed, Aimed
<1>15. Size(r) \in Nat /\ f0.at \in Nat
  BY <1>4, RegFacts, VolumeFacts DEF Placed, Aimed, IsReg, FileSet
<1>16. CASE past
  <2>1. f0.fd # Image
    BY <1>4, <1>7, <1>15, <1>16 DEF Placed, Aimed
  <2>2. calls = <<f0>>
    BY <1>2, <2>1 DEF Under
  <2>3. PICK h : h = [f0 EXCEPT !.pc = "lost"]
    OBVIOUS
  <2>4. h.pc = "lost"
    BY <1>2, <2>3 DEF IsFrame
  <2>5. calls' = <<h>>
    BY <1>0, <1>2, <1>16, <2>2, <2>3, Frames
  <2>6. Ours' /\ Idle' /\ UNCHANGED <<blk, volume, file, mem, disk>>
    BY <1>0, <1>1, <1>2, <1>16 DEF Under, Ours, Idle
  <2>7. CallsInv'
    BY <2>4, <2>5, <2>6, LostCall
  <2>8. RequestInv'
    <3>1. top' = h /\ ~Relies(h)
      BY <2>4, <2>5, Frames DEF top, Relies
    <3> QED BY <2>6, <3>1 DEF RequestInv
  <2>9. MemInv' /\ FileInv' /\ BufInv' /\ DiskOk(disk') /\ QueueOk(blk')
    BY <2>6 DEF Inv, MemInv, FileInv, BufInv
  <2>10. LastInv'
    BY <1>0, <1>16 DEF LastInv
  <2> QED BY <2>7, <2>8, <2>9, <2>10 DEF Inv
<1> HIDE DEF n, past
<1> SUFFICES ASSUME ~past PROVE Inv'
  BY <1>16
<1>17. f0.op = "read" => f0.at <= Size(r)
  BY <1>7, <1>15
<1>8. PICK h : h = f
  OBVIOUS
<1>9. /\ IsFrame(h) /\ h.op = f0.op /\ h.fd = f0.fd /\ h.path = f0.path /\ h.pc = f0.pc
      /\ h.cluster = f0.cluster /\ h.at = f0.at /\ h.cfo = f0.cfo /\ h.want = f0.want
      /\ h.len = n /\ h.done = f0.done /\ h.skip = f0.skip /\ h.torn = f0.torn
      /\ h.got = f0.got /\ h.was = f0.was
  BY <1>2, <1>8 DEF IsFrame
<1>10. n \in Nat
  <2>1. /\ f0.op = "read" => f0.at <= Size(r)
        /\ f0.want \in Nat /\ f0.at \in Nat /\ Size(r) \in Nat
    BY <1>4, <1>15, <1>17 DEF Placed, Aimed
  <2> QED BY <1>7, <2>1 DEF Goal
<1>11. Placed(h, r) /\ Goal(h, r) = n /\ HasDone(h, r, disk)
  <2>1. \A k : Reached(h, r, k) <=> Reached(f0, r, k)
    BY <1>9 DEF Reached
  <2>2. Placed(h, r)
    BY <1>4, <1>9, <1>10, <2>1 DEF Placed, Aimed
  <2>3. HasDone(h, r, disk)
    BY <1>4, <1>9, SameDone
  <2> QED BY <1>7, <1>9, <2>2, <2>3 DEF Goal
<1>12. Under(f0, g) /\ h.fd = f0.fd /\ file[h.fd] = r
  BY <1>2, <1>3, <1>9
<1>13. CASE n = 0
  <2>1. Finish(h) /\ h.done = Goal(h, r)
    BY <1>0, <1>5, <1>8, <1>9, <1>11, <1>13
  <2>2. Aimed(h, file[h.fd]) /\ HasDone(h, file[h.fd], disk) /\ h.done = Goal(h, file[h.fd])
        /\ (h.op = "read" => h.at <= Size(file[h.fd]))
    BY <1>9, <1>11, <1>12, <1>17, <2>1 DEF Placed
  <2> QED BY <1>0, <1>1, <1>12, <2>1, <2>2, RwReturns
<1>14. CASE n # 0
  <2>1. GoOn(h) /\ h.len # 0
    BY <1>0, <1>8, <1>9, <1>14
  <2>2. Between(h, file[h.fd], disk)
    BY <1>5, <1>9, <1>10, <1>11, <1>12, <1>17 DEF Between
  <2>3. \/ calls = <<f0>> /\ h.fd \in Fds
        \/ calls = <<f0, g>> /\ h.op = "read" /\ h.torn = FALSE
    BY <1>2, <1>9
  <2>4. Under(f0, g) /\ IsFrame(h) /\ Idle /\ h.fd = f0.fd /\ UNCHANGED <<disk, mem>>
    BY <1>0, <1>1, <1>9, <1>12
  <2> QED BY <2>1, <2>2, <2>3, <2>4, RwGoesOn
<1> QED BY <1>13, <1>14

-----------------------------------------------------------------------------
(* The other calls.                                                        *)

\* A call that is no read or write goes on: it is the only one.
LEMMA OthersResumed ==
    ASSUME Inv, NEW pc \in {"scan", "scannext", "end", "size", "walk", "data"}, Resumes(pc),
           top.op \notin {"read", "write"}
    PROVE  /\ Idle /\ volume = V /\ calls = <<top>> /\ top.pc = pc /\ IsFrame(top)
           /\ Under(top, top)
           /\ Relies(top) => Served(Want(top, file[top.fd], V), mem, disk)
           /\ \/ OpenFrame(top, file[top.fd])
              \/ EndFrame(top, file[top.fd])
              \/ ListFrame(top, file[top.fd])
<1>0. pc \in {"scan", "scannext", "end", "size", "walk", "data", "stored"}
  OBVIOUS
<1>1. PICK f, g :
                /\ Under(f, g) /\ top = f /\ f.pc = pc /\ IsFrame(f)
                /\ Relies(f) => Served(Want(f, file[f.fd], V), mem, disk)
                /\ \/ calls = <<f>> /\ FrameOk(f, file[f.fd], disk, mem["buf"], TRUE)
                   \/ /\ calls = <<f, g>> /\ RwFrame(f, file[f.fd], disk, mem["buf"], TRUE)
                      /\ f.fd = Image /\ f.op = "read" /\ f.torn = FALSE
  BY <1>0, Resumed
<1>2. calls = <<f>> /\ FrameOk(f, file[f.fd], disk, mem["buf"], TRUE)
  BY <1>1
<1>3. ~ RwFrame(f, file[f.fd], disk, mem["buf"], TRUE)
  BY <1>1 DEF RwFrame, Placed, Aimed
<1>4. ~ (calls = <<f, f>>)
  BY <1>2, Frames
<1>5. Under(f, f)
  BY <1>1, <1>2, <1>4 DEF Under
<1>6. Idle /\ volume = V
  BY <1>0, Resumed
<1> QED BY <1>1, <1>2, <1>3, <1>5, <1>6 DEF FrameOk

\* lseek to the end.
LEMMA EndReturns ==
    ASSUME Inv, SeekEndAny
    PROVE  Inv'
<1>1. PICK x \in Offsets : Return(top, [file[top.fd] EXCEPT !.cfo = x])
  BY DEF SeekEndAny
<1>2. Resumes("end") /\ UNCHANGED <<disk, mem>>
  BY DEF SeekEndAny
<1>3. top.op \notin {"read", "write"}
  <2>1. PICK f, g :
                /\ Under(f, g) /\ top = f /\ f.pc = "end" /\ IsFrame(f)
                /\ Relies(f) => Served(Want(f, file[f.fd], V), mem, disk)
                /\ \/ calls = <<f>> /\ FrameOk(f, file[f.fd], disk, mem["buf"], TRUE)
                   \/ /\ calls = <<f, g>> /\ RwFrame(f, file[f.fd], disk, mem["buf"], TRUE)
                      /\ f.fd = Image /\ f.op = "read" /\ f.torn = FALSE
    BY <1>2, Resumed
  <2>2. ~ RwFrame(f, file[f.fd], disk, mem["buf"], TRUE)
    BY <2>1 DEF RwFrame, Waits
  <2> QED BY <2>1, <2>2 DEF FrameOk, OpenFrame, EndFrame, ListFrame
<1>4. Idle /\ Under(top, top) /\ EndFrame(top, file[top.fd])
  BY <1>2, <1>3, OthersResumed DEF OpenFrame, ListFrame
<1>5. top.fd \in Fds /\ IsReg(file[top.fd]) /\ top.op = "end"
  BY <1>4 DEF EndFrame
<1>6. x \in Nat
  BY Fat32Assumption
<1> DEFINE r == [file[top.fd] EXCEPT !.cfo = x]
<1>7. IsReg(r)
  BY <1>5, <1>6, OffsetMoves
<1>8. FileOk(top.fd, r) /\ IsUnits(mem["buf"]) /\ top.fd \in Fds \cup {Image}
  BY <1>5, <1>7 DEF FileOk, Inv, BufInv
<1>9. ReadsExact' /\ WritesExact' /\ OpenFinds' /\ ListsWhatOpens'
  <2>1. last'.op = "end"
    BY <1>1, <1>5 DEF Return
  <2> QED BY <2>1 DEF ReadsExact, WritesExact, Returned, OpenFinds, ListsWhatOpens
<1> HIDE DEF r
<1>10. Return(top, r)
  BY <1>1 DEF r
<1> QED BY <1>2, <1>4, <1>8, <1>9, <1>10, Returns

-----------------------------------------------------------------------------
(* The root directory as one sequence.                                     *)

RootEntry(i) == Entry((i - 1) \div SectorUnits, (i - 1) % SectorUnits)

\* Its entries are the first n.
Live(n) ==
    /\ n \in 0 .. SectorUnits * RootN
    /\ \A i \in 1 .. n : RootEntry(i).kind # "end"
    /\ n = SectorUnits * RootN \/ (n + 1 <= SectorUnits * RootN /\ RootEntry(n + 1).kind = "end")

EntriesOf(held) ==
    LET all == [i \in 1 .. Cardinality(DOMAIN held) |-> held[i - 1]]
        ends == {i \in DOMAIN all : all[i].kind = "end"}
    IN  IF ends = {} THEN all ELSE SubSeq(all, 1, Least(ends) - 1)

\* Entry i of cluster k.
LEMMA RootEntryIs ==
    ASSUME NEW k \in 0 .. RootN - 1, NEW i \in Units
    PROVE  /\ RootEntry(SectorUnits * k + i + 1) = Entry(k, i)
           /\ SectorUnits * k + i + 1 \in 1 .. SectorUnits * RootN
<1>1. RootN \in Nat /\ SectorUnits \in Nat
  BY RootIs, VolumeFacts
<1>2. PICK p \in Int : p = SectorUnits * k + i /\ p \in 0 .. SectorUnits * RootN - 1
  <2>1. SectorUnits * k + i \in 0 .. SectorUnits * RootN - 1
    BY <1>1, PlaceUnit
  <2> QED BY <2>1
<1>3. p \div SectorUnits = k /\ p % SectorUnits = i
  BY <1>1, <1>2, PlaceUnit
<1>4. (p + 1) - 1 = p /\ p + 1 \in 1 .. SectorUnits * RootN
  <2>1. PICK x \in Nat : x = SectorUnits * RootN
    BY <1>1
  <2> QED BY <1>2, <2>1
<1> QED BY <1>2, <1>3, <1>4 DEF RootEntry

\* Every index is one of them.
LEMMA RootIndex ==
    ASSUME NEW j \in 1 .. SectorUnits * RootN
    PROVE  \E k \in 0 .. RootN - 1, i \in Units :
             j = SectorUnits * k + i + 1 /\ RootEntry(j) = Entry(k, i)
<1>1. RootN \in Nat /\ SectorUnits \in Nat /\ SectorUnits * RootN \in Nat
  BY RootIs, VolumeFacts
<1>2. PICK p \in 0 .. SectorUnits * RootN - 1 : p = j - 1
  BY <1>1
<1>3. PICK k \in 0 .. RootN - 1, i \in Units : p = SectorUnits * k + i /\ k = p \div SectorUnits
                                                /\ i = p % SectorUnits
  BY <1>1, <1>2, UnitPlace
<1>4. j = SectorUnits * k + i + 1
  BY <1>2, <1>3
<1> QED BY <1>2, <1>3, <1>4 DEF RootEntry

\* What Entries gives.
LEMMA EntriesAre ==
    ASSUME NEW D, DiskOk(D)
    PROVE  LET es == EntriesOf(UnitsIn(D, HeldBy(D, V, Root))) IN
           \E n \in 0 .. SectorUnits * RootN :
             Live(n) /\ DOMAIN es = 1 .. n /\ \A i \in 1 .. n : es[i] = RootEntry(i)
<1>1. RootN \in Nat /\ SectorUnits \in Nat
  BY RootIs, VolumeFacts
<1>2. PICK m \in Nat : m = SectorUnits * RootN
  BY <1>1
<1>3. PICK held : held = UnitsIn(D, HeldBy(D, V, Root))
  OBVIOUS
<1>4. held = Laid(D, Root, RootN)
  BY <1>3, RootIs, UnitsIs
<1>5. DOMAIN held = 0 .. m - 1 /\ Cardinality(DOMAIN held) = m
  <2>1. DOMAIN held = 0 .. m - 1
    BY <1>2, <1>4 DEF Laid
  <2>2. Cardinality(0 .. m - 1) = m
    BY <1>2, FS_Interval
  <2> QED BY <2>1, <2>2
<1> DEFINE all == [i \in 1 .. m |-> held[i - 1]]
           ends == {i \in DOMAIN all : all[i].kind = "end"}
<1>6. DOMAIN all = 1 .. m /\ \A i \in 1 .. m : all[i] = RootEntry(i)
  <2> SUFFICES ASSUME NEW i \in 1 .. m PROVE held[i - 1] = RootEntry(i)
    OBVIOUS
  <2>1. PICK p \in 0 .. m - 1 : p = i - 1
    BY <1>2
  <2>2. held[p] = D[SectorOf(C(Root)[p \div SectorUnits])].units[p % SectorUnits]
    BY <1>2, <1>4 DEF Laid
  <2>3. p \div SectorUnits \in 0 .. RootN - 1
    BY <1>1, <1>2, UnitPlace
  <2>4. D[SectorOf(C(Root)[p \div SectorUnits])] = Disk[SectorOf(C(Root)[p \div SectorUnits])]
    BY <2>3, DiskFacts
  <2> QED BY <2>1, <2>2, <2>4 DEF RootEntry, Entry
<1>7. EntriesOf(held) = IF ends = {} THEN all ELSE SubSeq(all, 1, Least(ends) - 1)
  BY <1>5 DEF EntriesOf
<1>8. ends \in SUBSET Nat /\ \A i \in ends : i \in 1 .. m /\ RootEntry(i).kind = "end"
  BY <1>6
<1>9. \A i \in 1 .. m : i \notin ends => RootEntry(i).kind # "end"
  BY <1>6
<1>10. all \in Seq({all[i] : i \in 1 .. m}) /\ Len(all) = m
  <2> DEFINE S == {all[i] : i \in 1 .. m}
  <2>1. \A i \in 1 .. m : all[i] \in S
    OBVIOUS
  <2>2. all = [i \in 1 .. m |-> all[i]]
    OBVIOUS
  <2> HIDE DEF S, all
  <2>3. all \in Seq(S) /\ Len(all) = m
    BY <1>2, <2>1, <2>2
  <2> QED BY <2>3 DEF S
<1> HIDE DEF all, ends
<1>11. CASE ends = {}
  <2>1. Live(m)
    BY <1>2, <1>9, <1>11 DEF Live
  <2> QED BY <1>2, <1>3, <1>6, <1>7, <1>11, <2>1
<1>12. CASE ends # {}
  <2>1. PICK e \in ends : \A j \in ends : e <= j
    BY <1>8, <1>12, NatMin
  <2>2. Least(ends) = e
    <3>1. \A x \in ends : (\A y \in ends : x <= y) => x = e
      BY <1>8, <2>1
    <3> QED BY <2>1, <3>1 DEF Least
  <2>3. e \in 1 .. m /\ RootEntry(e).kind = "end" /\ e - 1 \in 0 .. m
    BY <1>8, <2>1
  <2>4. /\ Len(SubSeq(all, 1, e - 1)) = e - 1 /\ DOMAIN SubSeq(all, 1, e - 1) = 1 .. e - 1
        /\ \A i \in 1 .. e - 1 : SubSeq(all, 1, e - 1)[i] = all[i]
    <3>1. SubSeq(all, 1, e - 1) = [i \in 1 .. e - 1 |-> all[i]]
      BY <1>2, <1>10, <2>3
    <3> QED BY <2>3, <3>1
  <2>5. Live(e - 1)
    <3>1. \A i \in 1 .. e - 1 : i \in 1 .. m /\ i \notin ends
      BY <1>2, <1>8, <2>1, <2>3
    <3>2. \A i \in 1 .. e - 1 : RootEntry(i).kind # "end"
      BY <1>9, <3>1
    <3>3. (e - 1) + 1 = e /\ e <= m
      BY <2>3
    <3> QED BY <1>2, <2>3, <3>2, <3>3 DEF Live
  <2>6. \A i \in 1 .. e - 1 : all[i] = RootEntry(i)
    BY <1>6, <2>3
  <2> QED BY <1>2, <1>3, <1>7, <1>12, <2>2, <2>3, <2>4, <2>5, <2>6
<1> QED BY <1>11, <1>12

\* What OpenFinds says.
NamedIn(es, path, kind) == {i \in DOMAIN es : es[i].kind = kind /\ es[i].name = path}

OpenIs(op, f, r, es, D, v) ==
    LET kind == IF op = "open" THEN "reg" ELSE "dir"
        found == NamedIn(es, f.path, kind)
    IN  IF found = {} THEN r = NoFile
        ELSE LET e == es[Least(found)] IN
               /\ r.cluster = e.cluster
               /\ r.cfo = 0
               /\ D[(r.dir - 2) + v.data].units[r.index] = e

\* OpenFinds, from its parts.
LEMMA OpenFindsIs ==
    ASSUME NEW op, NEW f, NEW r, last' = [op |-> op, call |-> f, file |-> r],
           OpenIs(op, f, r, EntriesOf(UnitsIn(disk', HeldBy(disk', volume', mem'["hdr"].root))), disk', volume')
    PROVE  OpenFinds'
<1>1. OpenIs(last'.op, last'.call, last'.file,
             EntriesOf(UnitsIn(disk', HeldBy(disk', volume', mem'["hdr"].root))), disk', volume')
        => OpenFinds'
  BY DEF OpenIs, OpenFinds, Named, NamedIn, Entries, EntriesOf, cluster_to_sector
<1> QED BY <1>1

\* Order of the entries, cluster by cluster.
LEMMA RootOrder ==
    ASSUME NEW j \in 0 .. RootN - 1, NEW k \in 0 .. RootN - 1, NEW a \in Units, NEW b \in Units
    PROVE  /\ SectorUnits * j + a + 1 \in Nat
           /\ j < k => SectorUnits * j + a + 1 < SectorUnits * k + b + 1
           /\ SectorUnits * k + a + 1 < SectorUnits * k + b + 1 <=> a < b
<1>1. SectorUnits \in Nat /\ j \in Nat /\ k \in Nat /\ a \in 0 .. SectorUnits - 1
      /\ b \in 0 .. SectorUnits - 1
  BY VolumeFacts, RootIs DEF Units
<1>2. PICK x \in Nat, y \in Nat : x = SectorUnits * j /\ y = SectorUnits * k
  BY <1>1
<1>3. ASSUME j < k PROVE x + SectorUnits <= y
  <2>1. SectorUnits * (j + 1) <= SectorUnits * k
    BY <1>1, <1>3, Z3
  <2>2. SectorUnits * (j + 1) = SectorUnits * j + SectorUnits
    BY <1>1, Z3
  <2> QED BY <1>2, <2>1, <2>2
<1> QED BY <1>1, <1>2, <1>3

\* open has come to cluster k and finds its entry i.
LEMMA ScanFinds ==
    ASSUME NEW D, DiskOk(D), NEW f, f.op \in {"open", "opendir"},
           NEW k \in 0 .. RootN - 1, Passed(f, k), NEW i \in Units,
           Entry(k, i).kind = Sought(f.op), Entry(k, i).name = f.path,
           \A e \in Units : Entry(k, e).kind = "end" => i < e,
           \A j \in Units : j < i => ~ (Entry(k, j).kind = Sought(f.op) /\ Entry(k, j).name = f.path),
           NEW r, r.cluster = Entry(k, i).cluster, r.dir = C(Root)[k], r.index = i, r.cfo = 0
    PROVE  OpenIs(f.op, f, r, EntriesOf(UnitsIn(D, HeldBy(D, V, Root))), D, V)
<1>0. RootN \in Nat /\ SectorUnits \in Nat
  BY RootIs, VolumeFacts
<1>1. PICK es : es = EntriesOf(UnitsIn(D, HeldBy(D, V, Root)))
  OBVIOUS
<1>2. PICK n \in 0 .. SectorUnits * RootN :
        Live(n) /\ DOMAIN es = 1 .. n /\ \A j \in 1 .. n : es[j] = RootEntry(j)
  BY <1>1, EntriesAre
<1>3. PICK m \in Nat : m = SectorUnits * RootN
  BY <1>0
<1>4. PICK p \in 1 .. m : p = SectorUnits * k + i + 1 /\ RootEntry(p) = Entry(k, i)
  BY <1>3, RootEntryIs
<1>5. ASSUME NEW j \in 1 .. m, j <= p
      PROVE  /\ RootEntry(j).kind # "end"
             /\ j < p => ~ (RootEntry(j).kind = Sought(f.op) /\ RootEntry(j).name = f.path)
  <2>1. PICK q \in 0 .. RootN - 1, a \in Units :
          j = SectorUnits * q + a + 1 /\ RootEntry(j) = Entry(q, a)
    BY <1>3, RootIndex
  <2>2. ~ (k < q)
    <3>1. k < q => p < j
      BY <1>4, <2>1, RootOrder
    <3> QED BY <1>3, <1>5, <3>1
  <2>3. CASE q < k
    <3>1. q \in 0 .. k - 1
      BY <1>0, <2>3
    <3> QED BY <2>1, <3>1 DEF Passed
  <2>4. CASE q = k
    <3>1. (p < j <=> i < a) /\ (j < p <=> a < i)
      BY <1>4, <2>1, <2>4, RootOrder
    <3>2. ~ (i < a)
      BY <1>3, <1>5, <3>1
    <3>3. Entry(k, a).kind # "end"
      BY <3>2
    <3>4. a < i => ~ (Entry(k, a).kind = Sought(f.op) /\ Entry(k, a).name = f.path)
      OBVIOUS
    <3> QED BY <2>1, <2>4, <3>1, <3>3, <3>4
  <2> QED BY <1>0, <2>2, <2>3, <2>4
<1>6. p \in 1 .. n
  <2>1. ASSUME n < p PROVE FALSE
    <3>1. n + 1 \in 1 .. m /\ n + 1 <= p /\ n # m
      BY <1>2, <1>3, <2>1
    <3>2. RootEntry(n + 1).kind = "end"
      BY <1>2, <1>3, <3>1 DEF Live
    <3> QED BY <1>5, <3>1, <3>2
  <2> QED BY <1>2, <1>3, <2>1
<1> DEFINE kind == IF f.op = "open" THEN "reg" ELSE "dir"
           found == NamedIn(es, f.path, kind)
<1>7. kind = Sought(f.op)
  BY DEF Sought
<1>8. p \in found /\ found \subseteq 1 .. n
  BY <1>2, <1>4, <1>6, <1>7 DEF NamedIn
<1>9. \A j \in found : p <= j
  <2> TAKE j \in found
  <2>1. j \in 1 .. n /\ RootEntry(j).kind = Sought(f.op) /\ RootEntry(j).name = f.path
    BY <1>2, <1>7 DEF NamedIn
  <2>2. j \in 1 .. m
    BY <1>2, <1>3, <2>1
  <2> QED BY <1>3, <1>5, <2>1, <2>2
<1>10. Least(found) = p
  <2> HIDE DEF found
  <2>1. \A x \in found : (\A y \in found : x <= y) => x = p
    BY <1>2, <1>3, <1>8, <1>9
  <2> QED BY <1>8, <1>9, <2>1 DEF Least
<1>11. es[p] = Entry(k, i) /\ D[(r.dir - 2) + V.data].units[r.index] = Entry(k, i)
  <2>1. D[SectorOf(C(Root)[k])] = Disk[SectorOf(C(Root)[k])]
    BY DiskFacts
  <2> QED BY <1>2, <1>4, <1>6, <2>1 DEF Entry, SectorOf, V, Geometry
<1>12. OpenIs(f.op, f, r, es, D, V)
  <2>1. found # {} /\ es[Least(found)] = Entry(k, i)
    BY <1>8, <1>10, <1>11
  <2> QED BY <1>11, <2>1 DEF OpenIs
<1> QED BY <1>1, <1>12

\* open has looked at all of the entries before the n-th, where the directory ends.
LEMMA ScanMisses ==
    ASSUME NEW D, DiskOk(D), NEW f, f.op \in {"open", "opendir"},
           NEW m \in 0 .. SectorUnits * RootN,
           m < SectorUnits * RootN => RootEntry(m + 1).kind = "end",
           \A j \in 1 .. m : ~ (RootEntry(j).kind = Sought(f.op) /\ RootEntry(j).name = f.path)
    PROVE  OpenIs(f.op, f, NoFile, EntriesOf(UnitsIn(D, HeldBy(D, V, Root))), D, V)
<1>0. RootN \in Nat /\ SectorUnits \in Nat
  BY RootIs, VolumeFacts
<1>1. PICK es : es = EntriesOf(UnitsIn(D, HeldBy(D, V, Root)))
  OBVIOUS
<1>2. PICK n \in 0 .. SectorUnits * RootN :
        Live(n) /\ DOMAIN es = 1 .. n /\ \A j \in 1 .. n : es[j] = RootEntry(j)
  BY <1>1, EntriesAre
<1>3. PICK z \in Nat : z = SectorUnits * RootN
  BY <1>0
<1>4. n <= m
  <2>1. ASSUME m < n PROVE FALSE
    <3>1. m + 1 \in 1 .. n /\ m < z
      BY <1>2, <1>3, <2>1
    <3>2. RootEntry(m + 1).kind # "end"
      BY <1>2, <3>1 DEF Live
    <3> QED BY <1>3, <3>1, <3>2
  <2> QED BY <1>2, <1>3, <2>1
<1> DEFINE kind == IF f.op = "open" THEN "reg" ELSE "dir"
<1>5. kind = Sought(f.op)
  BY DEF Sought
<1>6. NamedIn(es, f.path, kind) = {}
  <2> SUFFICES ASSUME NEW j \in NamedIn(es, f.path, kind) PROVE FALSE
    OBVIOUS
  <2>1. j \in 1 .. n /\ RootEntry(j).kind = Sought(f.op) /\ RootEntry(j).name = f.path
    BY <1>2, <1>5 DEF NamedIn
  <2>2. j \in 1 .. m
    BY <1>2, <1>3, <1>4, <2>1
  <2> QED BY <2>1, <2>2
<1> QED BY <1>1, <1>6 DEF OpenIs

-----------------------------------------------------------------------------
(* open.                                                                   *)

\* No read or write waits for these.
LEMMA NotRw ==
    ASSUME Inv, NEW pc \in {"scan", "scannext", "end"}, Resumes(pc)
    PROVE  top.op \notin {"read", "write"}
<1>0. pc \in {"scan", "scannext", "end", "size", "walk", "data", "stored"}
  OBVIOUS
<1>1. PICK f, g :
                /\ Under(f, g) /\ top = f /\ f.pc = pc /\ IsFrame(f)
                /\ Relies(f) => Served(Want(f, file[f.fd], V), mem, disk)
                /\ \/ calls = <<f>> /\ FrameOk(f, file[f.fd], disk, mem["buf"], TRUE)
                   \/ /\ calls = <<f, g>> /\ RwFrame(f, file[f.fd], disk, mem["buf"], TRUE)
                      /\ f.fd = Image /\ f.op = "read" /\ f.torn = FALSE
  BY <1>0, Resumed
<1>2. ~ RwFrame(f, file[f.fd], disk, mem["buf"], TRUE)
  BY <1>1 DEF RwFrame, Waits
<1> QED BY <1>1, <1>2 DEF FrameOk, OpenFrame, EndFrame, ListFrame

\* open goes on.
LEMMA OpenResumed ==
    ASSUME Inv, NEW pc \in {"scan", "scannext"}, Resumes(pc)
    PROVE  /\ Idle /\ volume = V /\ mem["hdr"] = Header /\ calls = <<top>> /\ Under(top, top)
           /\ IsFrame(top) /\ top.pc = pc /\ file[top.fd] = NoFile
           /\ top.op \in {"open", "opendir"} /\ top.fd \in Fds \cup {Image}
           /\ top.fd = Image => top.op = "open"
           /\ \E k \in 0 .. RootN - 1 :
                /\ top.cluster = C(Root)[k]
                /\ pc = "scan" => /\ Passed(top, k) /\ IsUnits(mem["buf"])
                                  /\ \A i \in Units : Unit(i) = Entry(k, i)
                /\ pc = "scannext" =>
                     /\ Passed(top, k + 1)
                     /\ Followed(top.cluster) => next_cluster(top.cluster) = C(Root)[k + 1]
<1>0. pc \in {"scan", "scannext", "end", "size", "walk", "data"} /\ pc \in {"scan", "scannext", "end"}
  OBVIOUS
<1>1. top.op \notin {"read", "write"}
  BY <1>0, NotRw
<1>2. /\ Idle /\ volume = V /\ calls = <<top>> /\ top.pc = pc /\ IsFrame(top)
      /\ Under(top, top)
      /\ Relies(top) => Served(Want(top, file[top.fd], V), mem, disk)
      /\ \/ OpenFrame(top, file[top.fd])
         \/ EndFrame(top, file[top.fd])
         \/ ListFrame(top, file[top.fd])
  BY <1>0, <1>1, OthersResumed
<1>3. OpenFrame(top, file[top.fd])
  BY <1>2 DEF EndFrame, ListFrame
<1>4. mem["hdr"] = Header
  BY <1>2 DEF Under, Ours
<1>5. PICK k \in 0 .. RootN - 1 :
         /\ top.cluster = C(Root)[k]
         /\ \/ pc = "scan" /\ Passed(top, k)
            \/ pc = "scannext" /\ Passed(top, k + 1)
  BY <1>2, <1>3 DEF OpenFrame
<1>6. Served(Want(top, file[top.fd], V), mem, disk)
  BY <1>2 DEF Relies
<1>7. ASSUME pc = "scan" PROVE IsUnits(mem["buf"]) /\ \A i \in Units : Unit(i) = Entry(k, i)
  <2>1. Want(top, file[top.fd], V) = In(SectorOf(C(Root)[k]), "buf")
    BY <1>2, <1>5, <1>7, WantIs
  <2>2. mem["buf"] = Disk[SectorOf(C(Root)[k])]
    BY <1>6, <2>1, Apart, DiskFacts DEF Served, In, Inv
  <2> QED BY <2>2, Apart DEF Unit, Entry
<1>8. ASSUME pc = "scannext", Followed(top.cluster)
      PROVE  next_cluster(top.cluster) = C(Root)[k + 1]
  <2>1. Want(top, file[top.fd], V) = In(FatStart + (top.cluster * 4) \div (4 * FatEntries), "tbuf")
    BY <1>2, <1>8, WantIs
  <2>2. top.cluster \in Nat /\ C(Root)[k + 1] = NextIn(Disk, V, top.cluster)
    BY <1>5, RootIs DEF OnChain
  <2> QED BY <1>2, <1>6, <1>8, <2>1, <2>2, NextCluster DEF Inv
<1>9. /\ top.op \in {"open", "opendir"} /\ top.fd \in Fds \cup {Image} /\ file[top.fd] = NoFile
      /\ top.fd = Image => top.op = "open"
  BY <1>3 DEF OpenFrame
<1> QED BY <1>2, <1>4, <1>5, <1>7, <1>8, <1>9

\* It comes back with r.
LEMMA OpenReturns ==
    ASSUME Inv, NEW pc \in {"scan", "scannext"}, Resumes(pc), NEW r, Return(top, r),
           UNCHANGED <<disk, mem>>, FileOk(top.fd, r), IsReg(r) => IsUnits(mem["buf"]),
           OpenIs(top.op, top, r, EntriesOf(UnitsIn(disk, HeldBy(disk, V, Root))), disk, V)
    PROVE  Inv'
<1>1. /\ Idle /\ volume = V /\ mem["hdr"] = Header /\ Under(top, top)
      /\ top.op \in {"open", "opendir"} /\ top.fd \in Fds \cup {Image}
  BY OpenResumed
<1>2. last' = [op |-> top.op, call |-> top, file |-> r] /\ volume' = volume
  BY DEF Return
<1>3. OpenFinds'
  <2>1. mem'["hdr"].root = Root /\ volume' = V /\ disk' = disk
    BY <1>1, <1>2 DEF Root
  <2>2. OpenIs(top.op, top, r, EntriesOf(UnitsIn(disk', HeldBy(disk', volume', mem'["hdr"].root))),
               disk', volume')
    BY <2>1
  <2> QED BY <1>2, <2>2, OpenFindsIs
<1>4. last'.op = top.op
  BY <1>2
<1>5. ReadsExact' /\ WritesExact' /\ ListsWhatOpens'
  BY <1>1, <1>4 DEF ReadsExact, WritesExact, Returned, ListsWhatOpens
<1> QED BY <1>1, <1>3, <1>5, Returns

\* It looks at the entries of a sector.
LEMMA OpenScans ==
    ASSUME Inv, Scan
    PROVE  Inv'
<1>0. Resumes("scan") /\ UNCHANGED <<disk, mem>>
  BY DEF Scan
<1>1. /\ Idle /\ volume = V /\ mem["hdr"] = Header /\ calls = <<top>> /\ Under(top, top)
      /\ IsFrame(top) /\ top.pc = "scan" /\ file[top.fd] = NoFile
      /\ top.op \in {"open", "opendir"} /\ top.fd \in Fds \cup {Image}
      /\ top.fd = Image => top.op = "open"
  BY <1>0, OpenResumed
<1>2. PICK k \in 0 .. RootN - 1 :
        /\ top.cluster = C(Root)[k] /\ Passed(top, k) /\ IsUnits(mem["buf"])
        /\ \A i \in Units : Unit(i) = Entry(k, i)
  BY <1>0, OpenResumed
<1>3. RootN \in Nat /\ SectorUnits \in Nat /\ Units \in SUBSET Nat
  BY RootIs, VolumeFacts DEF Units
<1>4. \A i : i \in Ends <=> i \in Units /\ Entry(k, i).kind = "end"
  BY <1>2 DEF Ends, Units
<1>5. \A i : i \in Hits(top) <=>
         /\ i \in Units /\ \A e \in Ends : i < e
         /\ Entry(k, i).kind = Sought(top.op) /\ Entry(k, i).name = top.path
  BY <1>2 DEF Hits, Units, Sought
<1>6. DiskOk(disk)
  BY DEF Inv
<1>7. CASE Hits(top) # {}
  <2>1. PICK i \in Hits(top) : \A j \in Hits(top) : i <= j
    <3>1. Hits(top) \in SUBSET Nat
      BY <1>3, <1>5
    <3> QED BY <1>7, <3>1, NatMin
  <2>2. Least(Hits(top)) = i
    <3>1. \A x \in Hits(top) : x \in Nat
      BY <1>3, <1>5
    <3>2. \A x \in Hits(top) : (\A y \in Hits(top) : x <= y) => x = i
      BY <2>1, <3>1
    <3> QED BY <2>1, <3>2 DEF Least
  <2>3. /\ i \in Units /\ Entry(k, i).kind = Sought(top.op) /\ Entry(k, i).name = top.path
        /\ \A e \in Units : Entry(k, e).kind = "end" => i < e
    BY <1>4, <1>5, <2>1
  <2>4. ASSUME NEW j \in Units, j < i, Entry(k, j).kind = Sought(top.op), Entry(k, j).name = top.path
        PROVE  FALSE
    <3>1. \A e \in Ends : j < e
      <4> TAKE e \in Ends
      <4>1. i < e /\ i \in Nat /\ e \in Nat /\ j \in Nat
        BY <1>3, <1>4, <2>3
      <4> QED BY <2>4, <4>1
    <3>2. j \in Hits(top)
      BY <1>5, <2>4, <3>1
    <3> QED BY <1>3, <2>1, <2>3, <2>4, <3>2
  <2>5. PICK r : r = [cluster |-> Unit(i).cluster, dir |-> top.cluster,
                      index |-> i, cfo |-> 0, isdir |-> top.op = "opendir"]
    OBVIOUS
  <2>6. Return(top, r)
    BY <1>7, <2>2, <2>5 DEF Scan
  <2>7. /\ r.cluster = Entry(k, i).cluster /\ r.dir = C(Root)[k] /\ r.index = i /\ r.cfo = 0
    BY <1>2, <2>3, <2>5
  <2>8. OpenIs(top.op, top, r, EntriesOf(UnitsIn(disk, HeldBy(disk, V, Root))), disk, V)
    BY <1>1, <1>2, <1>6, <2>3, <2>4, <2>7, ScanFinds
  <2>9. Found(r, Sought(top.op)) /\ Entry(k, i).cluster \in Nat
    <3>1. PICK s \in Slots : s = <<k, i>>
      BY <2>3 DEF Slots
    <3>2. s[1] = k /\ s[2] = i
      BY <3>1
    <3>3. Entry(s[1], s[2]).cluster \in Nat
      BY <2>3, <3>2, EntryFacts DEF Sought
    <3> QED BY <2>3, <2>7, <3>2, <3>3 DEF Found
  <2>10. C(Root)[k] \in Nat
    BY RootIs, <1>3 DEF OnChain
  <2>11. CASE top.op = "open"
    <3>1. r = [cluster |-> Entry(k, i).cluster, dir |-> C(Root)[k], index |-> i, cfo |-> 0,
               isdir |-> FALSE]
      <4>1. (top.op = "opendir") = FALSE
        BY <2>11
      <4> QED BY <1>2, <2>3, <2>5, <4>1
    <3>2. r \in FileSet /\ ~r.isdir
      BY <1>3, <2>3, <2>9, <2>10, <3>1 DEF FileSet
    <3>3. IsReg(r)
      BY <2>9, <2>11, <3>2 DEF IsReg, Sought
    <3> QED BY <1>0, <1>2, <2>6, <2>8, <3>3, OpenReturns DEF FileOk
  <2>12. CASE top.op = "opendir"
    <3>1. r = [cluster |-> Entry(k, i).cluster, dir |-> C(Root)[k], index |-> i, cfo |-> 0,
               isdir |-> TRUE]
      <4>1. (top.op = "opendir") = TRUE
        BY <2>12
      <4> QED BY <1>2, <2>3, <2>5, <4>1
    <3>2. r \in FileSet /\ r.isdir /\ r.cfo = 0
      BY <1>3, <2>3, <2>9, <2>10, <3>1 DEF FileSet
    <3>3. IsDir(r) /\ top.fd \in Fds
      BY <1>1, <2>9, <2>12, <3>2 DEF IsDir, Sought
    <3> QED BY <1>0, <1>2, <2>6, <2>8, <3>3, OpenReturns DEF FileOk
  <2> QED BY <1>1, <2>11, <2>12
<1>8. CASE Hits(top) = {} /\ Ends # {}
  <2>1. PICK e \in Ends : \A j \in Ends : e <= j
    <3>1. Ends \in SUBSET Nat
      BY <1>3, <1>4
    <3> QED BY <1>8, <3>1, NatMin
  <2>2. e \in Units /\ Entry(k, e).kind = "end"
    BY <1>4, <2>1
  <2>3. PICK z \in Nat : z = SectorUnits * RootN
    BY <1>3
  <2>4. PICK p \in 1 .. z : p = SectorUnits * k + e + 1 /\ RootEntry(p).kind = "end"
    BY <2>2, <2>3, RootEntryIs
  <2>5. p - 1 \in 0 .. z /\ (p - 1) + 1 = p
    BY <2>4
  <2>6. ASSUME NEW j \in 1 .. p - 1, RootEntry(j).kind = Sought(top.op), RootEntry(j).name = top.path
        PROVE  FALSE
    <3>1. PICK q \in 0 .. RootN - 1, a \in Units :
            j = SectorUnits * q + a + 1 /\ RootEntry(j) = Entry(q, a)
      <4>1. j \in 1 .. SectorUnits * RootN
        BY <2>3, <2>4
      <4> QED BY <4>1, RootIndex
    <3>2. ~ (k < q)
      <4>1. k < q => p < j
        BY <2>2, <2>4, <3>1, RootOrder
      <4> QED BY <2>4, <4>1
    <3>3. CASE q < k
      <4>1. q \in 0 .. k - 1
        BY <1>3, <3>3
      <4> QED BY <1>2, <2>6, <3>1, <4>1 DEF Passed
    <3>4. CASE q = k
      <4>1. a < e
        <5>1. j < p <=> a < e
          BY <2>2, <2>4, <3>1, <3>4, RootOrder
        <5> QED BY <2>4, <5>1
      <4>2. \A x \in Ends : a < x
        <5> TAKE x \in Ends
        <5>1. x \in Nat /\ a \in Nat /\ e \in Nat /\ e <= x
          BY <1>3, <1>4, <2>1, <3>1
        <5> QED BY <4>1, <5>1
      <4>3. a \in Hits(top)
        BY <1>5, <2>6, <3>1, <3>4, <4>2
      <4> QED BY <1>8, <4>3
    <3> QED BY <1>3, <3>2, <3>3, <3>4
  <2>7. OpenIs(top.op, top, NoFile, EntriesOf(UnitsIn(disk, HeldBy(disk, V, Root))), disk, V)
    BY <1>1, <1>6, <2>3, <2>4, <2>5, <2>6, ScanMisses
  <2>8. Return(top, NoFile) /\ FileOk(top.fd, NoFile) /\ ~IsReg(NoFile)
    BY <1>8, RegFacts DEF Scan, FileOk
  <2> QED BY <1>0, <2>7, <2>8, OpenReturns
<1>9. CASE Hits(top) = {} /\ Ends = {}
  <2>1. PICK f : f = [top EXCEPT !.pc = "scannext"]
    OBVIOUS
  <2>2. AndFetch(f, "in", FatSector(top.cluster), "tbuf") /\ UNCHANGED <<volume, file>>
    BY <1>9, <2>1 DEF Scan
  <2>3. /\ IsFrame(f) /\ f.pc = "scannext" /\ f.op = top.op /\ f.fd = top.fd /\ f.path = top.path
        /\ f.cluster = top.cluster
    BY <1>1, <2>1 DEF IsFrame
  <2>4. Passed(f, k + 1)
    <3> SUFFICES ASSUME NEW q \in 0 .. (k + 1) - 1, NEW i \in Units
                 PROVE  /\ Entry(q, i).kind # "end"
                        /\ ~ (Entry(q, i).kind = Sought(f.op) /\ Entry(q, i).name = f.path)
      BY DEF Passed
    <3>1. CASE q = k
      <4>1. i \notin Ends /\ i \notin Hits(top)
        BY <1>9
      <4> QED BY <1>4, <1>5, <1>9, <2>3, <3>1, <4>1
    <3>2. CASE q # k
      <4>1. q \in 0 .. k - 1
        BY <1>3, <3>2
      <4> QED BY <1>2, <2>3, <4>1 DEF Passed
    <3> QED BY <3>1, <3>2
  <2>5. FrameOk(f, file[f.fd], disk, mem'["buf"], FALSE)
    BY <1>1, <1>2, <2>3, <2>4 DEF FrameOk, OpenFrame
  <2>6. [type |-> "in", sector |-> FatSector(top.cluster), buf |-> "tbuf"] = Want(f, file[f.fd], V)
    <3>1. FatSector(top.cluster) = FatStart + (f.cluster * 4) \div (4 * FatEntries)
      BY <1>1, <2>3 DEF FatSector, V, Geometry
    <3> QED BY <2>3, <3>1, WantIs DEF In
  <2>7. MemInv' /\ BufInv' /\ mem'["hdr"] = mem["hdr"] /\ UNCHANGED <<disk, volume, file>>
    BY <1>0, <2>2 DEF Inv, MemInv, BufInv
  <2> QED BY <1>1, <2>2, <2>3, <2>5, <2>6, <2>7, GoesOn
<1> QED BY <1>7, <1>8, <1>9

\* It goes on to the next cluster of the directory.
LEMMA OpenGoesOn ==
    ASSUME Inv, ScanNext, ~astray'
    PROVE  Inv'
<1> DEFINE c == next_cluster(top.cluster)
           next == NextIn(disk, volume, top.cluster)
<1>0. /\ Resumes("scannext") /\ UNCHANGED <<disk, mem>> /\ Followed(top.cluster)
      /\ next = INVALID_CLUSTER \/ HasNext(disk, volume, next)
  BY DEF ScanNext
<1>1. /\ Idle /\ volume = V /\ mem["hdr"] = Header /\ calls = <<top>> /\ Under(top, top)
      /\ IsFrame(top) /\ top.pc = "scannext" /\ file[top.fd] = NoFile
      /\ top.op \in {"open", "opendir"} /\ top.fd \in Fds \cup {Image}
      /\ top.fd = Image => top.op = "open"
  BY <1>0, OpenResumed
<1>2. PICK k \in 0 .. RootN - 1 :
        top.cluster = C(Root)[k] /\ Passed(top, k + 1) /\ c = C(Root)[k + 1]
  BY <1>0, OpenResumed
<1>3. RootN \in Nat /\ SectorUnits \in Nat /\ k \in Nat /\ k + 1 <= RootN
  BY RootIs, VolumeFacts
<1>4. DiskOk(disk)
  BY DEF Inv
<1>5. /\ k + 1 < RootN => HasNext(Disk, V, c)
      /\ k + 1 = RootN => ~HasNext(Disk, V, c)
      /\ c = next /\ (HasNext(disk, volume, next) <=> HasNext(Disk, V, next))
  <2>1. k + 1 < RootN => k + 1 \in 0 .. RootN - 1
    BY <1>3
  <2>2. k \in 0 .. RootN - 1 /\ k + 1 = RootN => RootN \in RootN .. MaxClusters
    BY RootIs, VolumeFacts
  <2>3. C(Root)[k + 1] = NextIn(Disk, V, top.cluster)
    BY <1>2, RootIs DEF OnChain
  <2>4. NextIn(disk, V, top.cluster) = NextIn(Disk, V, top.cluster)
        /\ \A x : HasNext(disk, V, x) <=> HasNext(Disk, V, x)
    BY <1>4, DiskFacts
  <2> QED BY <1>1, <1>2, <2>1, <2>2, <2>3, <2>4, RootIs DEF OnChain
<1> HIDE DEF next
<1>6. CASE c = INVALID_CLUSTER
  <2>1. ~ (k + 1 < RootN)
    BY <1>5, <1>6, VolumeFacts
  <2>2. k + 1 = RootN
    BY <1>3, <2>1
  <2>3. PICK z \in Nat : z = SectorUnits * RootN
    BY <1>3
  <2>4. ASSUME NEW j \in 1 .. z, RootEntry(j).kind = Sought(top.op), RootEntry(j).name = top.path
        PROVE  FALSE
    <3>1. PICK q \in 0 .. RootN - 1, a \in Units : RootEntry(j) = Entry(q, a)
      BY <2>3, RootIndex
    <3> QED BY <1>2, <2>2, <2>4, <3>1 DEF Passed
  <2>5. OpenIs(top.op, top, NoFile, EntriesOf(UnitsIn(disk, HeldBy(disk, V, Root))), disk, V)
    <3>1. z \in 0 .. SectorUnits * RootN /\ ~ (z < SectorUnits * RootN)
      BY <2>3
    <3> QED BY <1>1, <1>4, <2>4, <3>1, ScanMisses
  <2>6. Return(top, NoFile) /\ FileOk(top.fd, NoFile) /\ ~IsReg(NoFile)
    BY <1>6, RegFacts DEF ScanNext, FileOk
  <2> QED BY <1>0, <2>5, <2>6, OpenReturns
<1>7. CASE c # INVALID_CLUSTER
  <2>1. k + 1 \in 0 .. RootN - 1
    <3>1. HasNext(Disk, V, c)
      BY <1>0, <1>5, <1>7
    <3> QED BY <1>3, <1>5, <3>1
  <2>2. PICK f : f = [top EXCEPT !.pc = "scan", !.cluster = c]
    OBVIOUS
  <2>3. AndFetch(f, "in", cluster_to_sector(c), "buf") /\ UNCHANGED <<volume, file>>
    BY <1>7, <2>2 DEF ScanNext
  <2> HIDE DEF c
  <2>4. /\ IsFrame(f) /\ f.pc = "scan" /\ f.op = top.op /\ f.fd = top.fd /\ f.path = top.path
        /\ f.cluster = C(Root)[k + 1]
    BY <1>1, <1>2, <2>2 DEF IsFrame
  <2>5. Passed(f, k + 1)
    BY <1>2, <2>4 DEF Passed
  <2>6. FrameOk(f, file[f.fd], disk, mem'["buf"], FALSE)
    BY <1>1, <2>1, <2>4, <2>5 DEF FrameOk, OpenFrame
  <2>7. [type |-> "in", sector |-> cluster_to_sector(c), buf |-> "buf"] = Want(f, file[f.fd], V)
    <3>1. cluster_to_sector(c) = SectorOf(f.cluster)
      BY <1>1, <1>2, <2>4 DEF cluster_to_sector, SectorOf, V, Geometry
    <3> QED BY <2>4, <3>1, WantIs DEF In
  <2>8. MemInv' /\ BufInv' /\ mem'["hdr"] = mem["hdr"] /\ UNCHANGED <<disk, volume, file>>
    BY <1>0, <2>3 DEF Inv, MemInv, BufInv
  <2> QED BY <1>1, <2>3, <2>4, <2>6, <2>7, <2>8, GoesOn
<1> QED BY <1>6, <1>7

-----------------------------------------------------------------------------
(* getdents64.                                                             *)

\* Dirents follows the entries.
LEMMA DirentsSteps ==
    ASSUME NEW n \in Nat, NEW s, Len(s) = n
    PROVE  \E u : /\ Dirents(s) = u[n] /\ u[0] = <<>>
                  /\ \A i \in 1 .. n :
                       u[i] = IF Shown(s[i]) THEN Append(u[i - 1], s[i]) ELSE u[i - 1]
<1> DEFINE D == 0 .. n
           step(k, x) == IF Shown(s[k]) THEN Append(x, s[k]) ELSE x
           rhs(f) == [k \in D |-> IF k = 0 THEN <<>> ELSE step(k, f[k - 1])]
           Is(f) == f = rhs(f)
           Good(f, m) == f[0] = <<>> /\ \A k \in D : 0 < k /\ k <= m => f[k] = step(k, f[k - 1])
           Fn(f) == f = [k \in D |-> f[k]]
           T == {m \in Nat : \E f : Fn(f) /\ Good(f, m)}
<1>1. 0 \in T
  <2> DEFINE f == [k \in D |-> <<>>]
  <2>1. Fn(f) /\ Good(f, 0)
    OBVIOUS
  <2> HIDE DEF f, Fn, Good
  <2> QED BY <2>1
<1>2. ASSUME NEW m \in T PROVE m + 1 \in T
  <2>1. PICK f : Fn(f) /\ Good(f, m)
    OBVIOUS
  <2> DEFINE g == [k \in D |-> IF k = m + 1 THEN step(k, f[m]) ELSE f[k]]
  <2>2. m \in Nat /\ g[0] = <<>>
    BY <2>1
  <2>3. ASSUME NEW k \in D, 0 < k, k <= m + 1 PROVE g[k] = step(k, g[k - 1])
    <3>1. k - 1 \in D /\ k - 1 # m + 1 /\ g[k - 1] = f[k - 1]
      BY <2>2, <2>3
    <3>2. CASE k = m + 1
      <4>1. g[k] = step(k, f[m]) /\ k - 1 = m
        BY <2>2, <3>2
      <4> HIDE DEF step, g
      <4> QED BY <3>1, <4>1
    <3>3. CASE k # m + 1
      <4>1. g[k] = f[k] /\ k <= m
        BY <2>2, <2>3, <3>3
      <4>2. f[k] = step(k, f[k - 1])
        BY <2>1, <2>3, <4>1
      <4> HIDE DEF step, g
      <4> QED BY <3>1, <4>1, <4>2
    <3> QED BY <3>2, <3>3
  <2>4. Fn(g) /\ Good(g, m + 1)
    <3>1. Fn(g)
      OBVIOUS
    <3> HIDE DEF g, step, Fn
    <3> QED BY <2>2, <2>3, <3>1
  <2> HIDE DEF g, Good, Fn
  <2> QED BY <2>2, <2>4
<1>3. n \in T
  <2>1. T \in SUBSET Nat
    OBVIOUS
  <2> HIDE DEF T
  <2> QED BY <1>1, <1>2, <2>1, NatByInduction
<1>4. PICK f : Fn(f) /\ Good(f, n)
  BY <1>3
<1>5. Is(f)
  <2>1. \A k \in D : f[k] = IF k = 0 THEN <<>> ELSE step(k, f[k - 1])
    <3> TAKE k \in D
    <3>1. k # 0 => 0 < k /\ k <= n
      OBVIOUS
    <3> HIDE DEF step
    <3> QED BY <1>4, <3>1
  <2> HIDE DEF step
  <2> QED BY <1>4, <2>1
<1>6. Dirents(s) = (CHOOSE g : Is(g))[n]
  BY DEF Dirents
<1>7. PICK g : Dirents(s) = g[n] /\ Is(g)
  <2> HIDE DEF Is
  <2> QED BY <1>5, <1>6
<1>8. g[0] = <<>> /\ \A k \in 1 .. n : g[k] = step(k, g[k - 1])
  <2> HIDE DEF step
  <2>1. \A k \in D : g[k] = IF k = 0 THEN <<>> ELSE step(k, g[k - 1])
    BY <1>7
  <2>2. 0 \in D /\ \A k \in 1 .. n : k \in D /\ k # 0
    OBVIOUS
  <2> QED BY <2>1, <2>2
<1> QED BY <1>7, <1>8

\* What Dirents lists.
LEMMA DirentsAre ==
    ASSUME NEW s, NEW n \in Nat, Len(s) = n
    PROVE  /\ \A i \in DOMAIN Dirents(s) :
                \E j \in 1 .. Len(s) : Shown(s[j]) /\ Dirents(s)[i] = s[j]
           /\ \A j \in 1 .. Len(s) :
                Shown(s[j]) => \E i \in DOMAIN Dirents(s) : Dirents(s)[i] = s[j]
<1>1. PICK u : /\ Dirents(s) = u[n] /\ u[0] = <<>>
               /\ \A i \in 1 .. n :
                    u[i] = IF Shown(s[i]) THEN Append(u[i - 1], s[i]) ELSE u[i - 1]
  BY DirentsSteps
<1> DEFINE S == {s[i] : i \in 1 .. n}
           Has(m) == \A e : (\E i \in DOMAIN u[m] : u[m][i] = e) <=>
                             \E j \in 1 .. m : Shown(s[j]) /\ e = s[j]
           T == {m \in Nat : m <= n => u[m] \in Seq(S) /\ Has(m)}
<1>2. 0 \in T
  <2>1. u[0] \in Seq(S) /\ DOMAIN u[0] = {} /\ 1 .. 0 = {}
    <3> HIDE DEF S
    <3> QED BY <1>1
  <2>2. Has(0)
    <3> HIDE DEF S
    <3> QED BY <2>1
  <2> HIDE DEF Has, S
  <2> QED BY <2>1, <2>2
<1>3. ASSUME NEW m \in T PROVE m + 1 \in T
  <2> SUFFICES ASSUME m + 1 <= n PROVE u[m + 1] \in Seq(S) /\ Has(m + 1)
    OBVIOUS
  <2>1. m \in Nat /\ m + 1 \in 1 .. n /\ (m + 1) - 1 = m /\ m <= n
    OBVIOUS
  <2>2. u[m] \in Seq(S) /\ Has(m)
    BY <2>1
  <2>3. u[m + 1] = IF Shown(s[m + 1]) THEN Append(u[m], s[m + 1]) ELSE u[m]
    BY <1>1, <2>1
  <2>4. s[m + 1] \in S
    BY <2>1
  <2> HIDE DEF S
  <2>5. \A j : j \in 1 .. m + 1 <=> j \in 1 .. m \/ j = m + 1
    BY <2>1
  <2>6. CASE Shown(s[m + 1])
    <3>0. PICK v \in Seq(S) : v = u[m]
      BY <2>2
    <3>01. Append(v, s[m + 1]) \in Seq(S)
      BY <2>4
    <3>1. PICK w \in Seq(S) : w = u[m + 1] /\ w = Append(v, s[m + 1]) /\ v = u[m]
      <4> HIDE DEF Has
      <4> QED BY <2>3, <2>6, <3>0, <3>01
    <3>2. /\ Len(v) \in Nat /\ DOMAIN v = 1 .. Len(v) /\ DOMAIN w = 1 .. Len(v) + 1
          /\ w[Len(v) + 1] = s[m + 1] /\ \A i \in 1 .. Len(v) : w[i] = v[i]
      BY <2>4, <3>1
    <3>3. \A e : (\E i \in DOMAIN w : w[i] = e) <=> (\E i \in DOMAIN v : v[i] = e) \/ e = s[m + 1]
      <4> TAKE e
      <4>1. ASSUME NEW i \in DOMAIN w, w[i] = e PROVE (\E j \in DOMAIN v : v[j] = e) \/ e = s[m + 1]
        BY <3>2, <4>1
      <4>2. ASSUME NEW i \in DOMAIN v, v[i] = e PROVE \E j \in DOMAIN w : w[j] = e
        <5>1. i \in DOMAIN w /\ w[i] = e
          BY <3>2, <4>2
        <5> QED BY <5>1
      <4>3. ASSUME e = s[m + 1] PROVE \E j \in DOMAIN w : w[j] = e
        <5>1. Len(v) + 1 \in DOMAIN w
          BY <3>2
        <5> QED BY <3>2, <4>3, <5>1
      <4> QED BY <4>1, <4>2, <4>3
    <3>4. Has(m + 1)
      <4> SUFFICES ASSUME NEW e
                   PROVE  (\E i \in DOMAIN w : w[i] = e) <=>
                            \E j \in 1 .. m + 1 : Shown(s[j]) /\ e = s[j]
        BY <3>1
      <4>1. (\E i \in DOMAIN v : v[i] = e) <=> \E j \in 1 .. m : Shown(s[j]) /\ e = s[j]
        BY <2>2, <3>1
      <4>2. (\E i \in DOMAIN w : w[i] = e) <=> (\E i \in DOMAIN v : v[i] = e) \/ e = s[m + 1]
        BY <3>3
      <4>3. (\E j \in 1 .. m + 1 : Shown(s[j]) /\ e = s[j]) <=>
              (\E j \in 1 .. m : Shown(s[j]) /\ e = s[j]) \/ e = s[m + 1]
        BY <2>5, <2>6
      <4> HIDE DEF Has, S
      <4> QED BY <4>1, <4>2, <4>3
    <3> QED BY <3>1, <3>4
  <2>7. CASE ~Shown(s[m + 1])
    <3>1. u[m + 1] = u[m]
      BY <2>3, <2>7
    <3>2. \A e : (\E j \in 1 .. m + 1 : Shown(s[j]) /\ e = s[j]) <=>
                   \E j \in 1 .. m : Shown(s[j]) /\ e = s[j]
      BY <2>5, <2>7
    <3> QED BY <2>2, <3>1, <3>2
  <2> QED BY <2>6, <2>7
<1>4. n \in T
  <2>1. T \in SUBSET Nat
    OBVIOUS
  <2> HIDE DEF T
  <2> QED BY <1>2, <1>3, <2>1, NatByInduction
<1>5. Has(n)
  <2> HIDE DEF Has, S
  <2> QED BY <1>4
<1>6. Dirents(s) = u[n]
  BY <1>1
<1> DEFINE P(d) == \A e : (\E i \in DOMAIN d : d[i] = e) <=> \E j \in 1 .. n : Shown(s[j]) /\ e = s[j]
<1>7. P(u[n])
  BY <1>5
<1>8. P(Dirents(s))
  <2> HIDE DEF P
  <2> QED BY <1>6, <1>7
<1> QED BY <1>8

\* What ListsWhatOpens says.
ListIs(got, es) ==
    {<<e.name, e.kind>> : e \in {got[i] : i \in DOMAIN got}}
      = {x \in Paths \X {"reg", "dir"} :
           \E i \in NamedIn(es, x[1], x[2]) : i <= SectorUnits}

\* ListsWhatOpens, from its parts.
LEMMA ListsIs ==
    ASSUME last'.op = "list" /\ ~last'.call.torn /\ last'.file.dir = 0 /\ last'.call.at = 0 =>
             ListIs(last'.call.got,
                    EntriesOf(UnitsIn(disk', HeldBy(disk', volume', mem'["hdr"].root))))
    PROVE  ListsWhatOpens'
  BY DEF ListIs, ListsWhatOpens, Returned, Named, NamedIn, Entries, EntriesOf

\* The first sector up to the end mark.
LEMMA ListShows ==
    ASSUME NEW D, DiskOk(D), NEW n \in 0 .. SectorUnits,
           \A i \in 0 .. n - 1 : Entry(0, i).kind # "end",
           n < SectorUnits => Entry(0, n).kind = "end",
           NEW s, Len(s) = n, \A i \in 1 .. n : s[i] = Entry(0, i - 1)
    PROVE  ListIs(Dirents(s), EntriesOf(UnitsIn(D, HeldBy(D, V, Root))))
<1> DEFINE es == EntriesOf(UnitsIn(D, HeldBy(D, V, Root)))
           d == Dirents(s)
<1>1. RootN \in Nat \ {0} /\ SectorUnits \in Nat \ {0} /\ n \in Nat
  BY RootIs, VolumeFacts
<1>2. PICK m \in 0 .. SectorUnits * RootN :
        Live(m) /\ DOMAIN es = 1 .. m /\ \A i \in 1 .. m : es[i] = RootEntry(i)
  BY EntriesAre
<1>3. PICK w \in Nat : w = SectorUnits * RootN /\ SectorUnits <= w
  <2>1. SectorUnits * RootN \in Nat /\ SectorUnits <= SectorUnits * RootN
    BY <1>1, Z3
  <2> QED BY <2>1
<1>4. \A i \in 1 .. SectorUnits : RootEntry(i) = Entry(0, i - 1)
  <2> TAKE i \in 1 .. SectorUnits
  <2>1. 0 \in 0 .. RootN - 1 /\ i - 1 \in Units /\ SectorUnits * 0 + (i - 1) + 1 = i
    BY <1>1 DEF Units
  <2> QED BY <2>1, RootEntryIs
<1>5. \A i \in 1 .. SectorUnits : i \in 1 .. m <=> i \in 1 .. n
  <2>1. /\ m \in 0 .. w
        /\ \A i \in 1 .. m : RootEntry(i).kind # "end"
        /\ m = w \/ (m + 1 <= w /\ RootEntry(m + 1).kind = "end")
    BY <1>2, <1>3 DEF Live
  <2>2. ~ (m < n)
    <3> SUFFICES ASSUME m < n PROVE FALSE
      OBVIOUS
    <3>0. m \in Nat /\ n <= SectorUnits /\ n <= w
      BY <1>1, <1>3
    <3>1. m + 1 \in 1 .. SectorUnits /\ (m + 1) - 1 = m /\ m \in 0 .. n - 1 /\ m # w
      BY <1>1, <1>3, <3>0
    <3> QED BY <1>4, <2>1, <3>1
  <2>3. n < m => n = SectorUnits
    <3> SUFFICES ASSUME n < m, n < SectorUnits PROVE FALSE
      BY <1>1
    <3>1. n + 1 \in 1 .. SectorUnits /\ (n + 1) - 1 = n /\ n + 1 \in 1 .. m
      BY <1>1, <2>1
    <3> QED BY <1>4, <2>1, <3>1
  <2> QED BY <1>1, <2>1, <2>2, <2>3
<1>6. \A j \in 1 .. n : s[j] = es[j] /\ j \in DOMAIN es /\ j <= SectorUnits
  <2> TAKE j \in 1 .. n
  <2>1. j \in 1 .. SectorUnits /\ j <= SectorUnits
    BY <1>1
  <2> QED BY <1>2, <1>4, <1>5, <2>1
<1>7. \A i \in DOMAIN es : i <= SectorUnits => i \in 1 .. n
  <2> TAKE i \in DOMAIN es
  <2>1. i <= SectorUnits => i \in 1 .. SectorUnits
    BY <1>1, <1>2
  <2> QED BY <1>2, <1>5, <2>1
<1>8. \A j \in 1 .. n : s[j].kind \in {"reg", "dir"} => s[j].name \in Paths
  <2> TAKE j \in 1 .. n
  <2>1. <<0, j - 1>> \in Slots /\ s[j] = Entry(0, j - 1)
    BY <1>1 DEF Slots, Units
  <2>2. <<0, j - 1>>[1] = 0 /\ <<0, j - 1>>[2] = j - 1
    OBVIOUS
  <2> QED BY <2>1, <2>2, EntryFacts
<1>9. \A e : (\E i \in DOMAIN d : d[i] = e) <=> \E j \in 1 .. n : Shown(s[j]) /\ e = s[j]
  <2>1. /\ Len(s) \in Nat /\ Len(s) = n
        /\ \A i \in DOMAIN d : \E j \in 1 .. Len(s) : Shown(s[j]) /\ d[i] = s[j]
        /\ \A j \in 1 .. Len(s) : Shown(s[j]) => \E i \in DOMAIN d : d[i] = s[j]
    BY <1>1, DirentsAre
  <2> HIDE DEF es, d
  <2> QED BY <2>1
<1> HIDE DEF es, d
<1>10. \A e : e \in {d[i] : i \in DOMAIN d} <=> \E j \in 1 .. n : Shown(s[j]) /\ e = s[j]
  <2> TAKE e
  <2>1. e \in {d[i] : i \in DOMAIN d} <=> \E i \in DOMAIN d : d[i] = e
    OBVIOUS
  <2> QED BY <1>9, <2>1
<1> DEFINE L == {<<e.name, e.kind>> : e \in {d[i] : i \in DOMAIN d}}
           R == {x \in Paths \X {"reg", "dir"} :
                   \E i \in NamedIn(es, x[1], x[2]) : i <= SectorUnits}
<1>11. ASSUME NEW x \in L PROVE x \in R
  <2>1. PICK j \in 1 .. n : Shown(s[j]) /\ x = <<s[j].name, s[j].kind>>
    BY <1>10, <1>11
  <2>2. x \in Paths \X {"reg", "dir"} /\ x[1] = s[j].name /\ x[2] = s[j].kind
    BY <1>8, <2>1 DEF Shown
  <2>3. j \in NamedIn(es, x[1], x[2]) /\ j <= SectorUnits
    BY <1>6, <2>2 DEF NamedIn
  <2> QED BY <2>2, <2>3
<1>12. ASSUME NEW x \in R PROVE x \in L
  <2>1. PICK i \in NamedIn(es, x[1], x[2]) : i <= SectorUnits
    BY <1>12
  <2>2. i \in 1 .. n /\ s[i].kind = x[2] /\ s[i].name = x[1]
    BY <1>6, <1>7, <2>1 DEF NamedIn
  <2>3. x = <<s[i].name, s[i].kind>> /\ Shown(s[i])
    BY <2>2 DEF Shown
  <2>4. s[i] \in {d[k] : k \in DOMAIN d}
    BY <1>10, <2>2, <2>3
  <2> QED BY <2>3, <2>4
<1>13. L = R
  BY <1>11, <1>12
<1> QED BY <1>13 DEF ListIs, d, es

\* The call is a list.
LEMMA ListResumed ==
    ASSUME Inv, NEW pc \in {"size", "walk", "data"}, Resumes(pc), top.op = "list"
    PROVE  /\ Idle /\ volume = V /\ mem["hdr"] = Header /\ calls = <<top>> /\ Under(top, top)
           /\ IsFrame(top) /\ top.pc = pc /\ ListFrame(top, file[top.fd])
           /\ Relies(top) => Served(Want(top, file[top.fd], V), mem, disk)
           /\ top.fd \in Fds
<1>1. pc \in {"scan", "scannext", "end", "size", "walk", "data"} /\ top.op \notin {"read", "write"}
  OBVIOUS
<1>2. /\ Idle /\ volume = V /\ calls = <<top>> /\ top.pc = pc /\ IsFrame(top)
      /\ Under(top, top)
      /\ Relies(top) => Served(Want(top, file[top.fd], V), mem, disk)
      /\ \/ OpenFrame(top, file[top.fd])
         \/ EndFrame(top, file[top.fd])
         \/ ListFrame(top, file[top.fd])
  BY <1>1, OthersResumed
<1>3. ListFrame(top, file[top.fd])
  BY <1>2 DEF OpenFrame, EndFrame
<1>4. mem["hdr"] = Header
  BY <1>2 DEF Under, Ours
<1> QED BY <1>2, <1>3, <1>4 DEF ListFrame

\* It returns.
LEMMA ListReturns ==
    ASSUME Inv, NEW pc \in {"size", "walk", "data"}, Resumes(pc), top.op = "list",
           NEW f, f.fd = top.fd, f.op = "list", NEW r, Return(f, r), UNCHANGED <<disk, mem>>,
           IsDir(r) \/ IsRootDir(r),
           ~f.torn /\ r.dir = 0 /\ f.at = 0 =>
             ListIs(f.got, EntriesOf(UnitsIn(disk, HeldBy(disk, V, Root))))
    PROVE  Inv'
<1>1. Idle /\ volume = V /\ mem["hdr"] = Header /\ Under(top, top) /\ top.fd \in Fds
  BY ListResumed
<1>2. last' = [op |-> f.op, call |-> f, file |-> r] /\ volume' = volume
  BY DEF Return
<1>3. last'.op = "list" /\ last'.call = f /\ last'.file = r
  BY <1>2
<1>4. ListsWhatOpens'
  <2>1. mem'["hdr"].root = Root /\ volume' = V /\ disk' = disk
    BY <1>1, <1>2 DEF Root
  <2>2. last'.op = "list" /\ ~last'.call.torn /\ last'.file.dir = 0 /\ last'.call.at = 0 =>
          ListIs(last'.call.got,
                 EntriesOf(UnitsIn(disk', HeldBy(disk', volume', mem'["hdr"].root))))
    BY <1>3, <2>1
  <2> QED BY <2>2, ListsIs
<1>5. ReadsExact' /\ WritesExact' /\ OpenFinds'
  BY <1>3 DEF ReadsExact, WritesExact, Returned, OpenFinds
<1>6. FileOk(f.fd, r) /\ ~IsReg(r) /\ f.fd \in Fds \cup {Image}
  BY <1>1 DEF FileOk, IsReg, IsDir, IsRootDir
<1> QED BY <1>1, <1>4, <1>5, <1>6, Returns

\* A directory that is not the root has no size, and nothing is listed.
LEMMA ListSized ==
    ASSUME Inv, Sized, top.op = "list"
    PROVE  Inv'
<1>1. Resumes("size") /\ UNCHANGED <<disk, mem>>
  BY DEF Sized
<1>12. ~ (top.op = "read")
  OBVIOUS
<1>2. /\ volume = V /\ IsFrame(top) /\ top.pc = "size" /\ ListFrame(top, file[top.fd])
      /\ Relies(top) => Served(Want(top, file[top.fd], V), mem, disk)
  BY <1>1, ListResumed
<1>3. IsDir(file[top.fd]) /\ top.cfo = 0 /\ top.done = 0 /\ top.len = SectorUnits
  BY <1>2 DEF ListFrame
<1> DEFINE r == file[top.fd]
<1>4. /\ Found(r, "dir") /\ r \in FileSet /\ r.cfo = 0 /\ r.dir \in Nat \ {0}
      /\ SectorOf(r.dir) \in DOMAIN Disk /\ Size(r) = 0
  BY <1>3, FoundFacts DEF IsDir
<1>5. Unit(r.index).size = 0
  <2>1. DiskOk(disk)
    BY DEF Inv
  <2>2. Served(In(SectorOf(r.dir), "buf"), mem, disk)
    BY <1>2, WantIs DEF Relies
  <2>3. mem["buf"] = disk[SectorOf(r.dir)]
    BY <1>4, <2>2 DEF Served, In
  <2>4. disk[SectorOf(r.dir)].units[r.index].size = Size(r)
    BY <1>4, <2>1, SizeIs
  <2> QED BY <1>4, <2>3, <2>4 DEF Unit
<1>6. Cut(top, Unit(r.index).size) = 0
  <2>1. top.op # "write" /\ SectorUnits \in Nat \ {0}
    BY <1>2, VolumeFacts DEF ListFrame
  <2> QED BY <1>3, <1>5, <2>1 DEF Cut
<1> DEFINE f == [top EXCEPT !.len = 0]
<1>7. f.fd = top.fd /\ f.op = top.op /\ f.done = top.done
  BY <1>2 DEF IsFrame
<1>8. Finish(f)
  BY <1>6, <1>12 DEF Sized
<1>9. [file[f.fd] EXCEPT !.cfo = @ + f.done] = r
  BY <1>3, <1>4, <1>7 DEF FileSet
<1>10. Return(f, r)
  <2> HIDE DEF f, r
  <2> QED BY <1>8, <1>9 DEF Finish
<1> HIDE DEF f
<1>11. IsDir(r) /\ r.dir # 0
  BY <1>3, <1>4
<1> QED BY <1>1, <1>7, <1>10, <1>11, ListReturns

\* The root directory's first sector is in the buffer, unless a fault came after it.
LEMMA RootServed ==
    ASSUME Inv, Resumes("data"), top.op = "list"
    PROVE  /\ IsRootDir(file[top.fd]) /\ top.at \in 0 .. SectorUnits - 1 /\ top.cluster = Root
           /\ top.cfo = top.at /\ top.done = 0 /\ top.len = SectorUnits - top.at
           /\ file[top.fd].cfo = top.at /\ IsFrame(top) /\ top.fd \in Fds
           /\ top.torn \in BOOLEAN /\ top.skip \in Nat
           /\ ~top.torn => \A i \in Units : Unit(i) = Entry(0, i)
<1>1. /\ volume = V /\ IsFrame(top) /\ top.pc = "data" /\ ListFrame(top, file[top.fd])
      /\ Relies(top) => Served(Want(top, file[top.fd], V), mem, disk)
  BY ListResumed
<1>2. /\ IsRootDir(file[top.fd]) /\ top.at < SectorUnits /\ top.cluster = Root
      /\ top.cfo = top.at /\ top.done = 0 /\ top.len = SectorUnits - top.at
      /\ top.at = file[top.fd].cfo /\ top.fd \in Fds
      /\ top.torn \in BOOLEAN /\ top.skip \in Nat
  BY <1>1 DEF ListFrame
<1>3. top.at \in 0 .. SectorUnits - 1
  <2>1. top.at \in Nat /\ SectorUnits \in Nat
    BY <1>2, VolumeFacts DEF IsRootDir, FileSet
  <2> QED BY <1>2, <2>1
<1>4. ASSUME ~top.torn PROVE mem["buf"] = Disk[SectorOf(Root)]
  <2>1. Served(In(SectorOf(Root), "buf"), mem, disk)
    BY <1>1, <1>2, <1>4, WantIs DEF Relies
  <2>2. DiskOk(disk) /\ 0 \in 0 .. RootN - 1 /\ C(Root)[0] = Root
    BY RootIs DEF Inv
  <2>3. SectorOf(Root) \in DOMAIN Disk /\ disk[SectorOf(Root)] = Disk[SectorOf(Root)] /\ DOMAIN disk = DOMAIN Disk
    BY <2>2, Apart, DiskFacts
  <2> QED BY <2>1, <2>3 DEF Served, In
<1>5. ~top.torn => \A i \in Units : Unit(i) = Entry(0, i)
  BY <1>4, RootIs DEF Unit, Entry
<1> QED BY <1>1, <1>2, <1>3, <1>5

\* The entries of the first sector are listed; without an end mark among them the
\* call goes on to the table.
LEMMA ListLists ==
    ASSUME Inv, ListEntries
    PROVE  Inv'
<1>1. Resumes("data") /\ top.op = "list" /\ ~top.torn /\ UNCHANGED <<disk, mem>>
  BY DEF ListEntries
<1>2. Idle /\ volume = V /\ mem["hdr"] = Header /\ calls = <<top>> /\ Under(top, top)
  BY <1>1, ListResumed
<1>3. /\ IsRootDir(file[top.fd]) /\ top.at \in 0 .. SectorUnits - 1 /\ top.cluster = Root
      /\ top.cfo = top.at /\ top.done = 0 /\ top.len = SectorUnits - top.at
      /\ file[top.fd].cfo = top.at /\ IsFrame(top) /\ top.fd \in Fds /\ top.torn = FALSE
      /\ top.skip \in Nat /\ \A i \in Units : Unit(i) = Entry(0, i)
  BY <1>1, RootServed
<1>4. SectorUnits \in Nat \ {0} /\ top.at \in Nat /\ DiskOk(disk)
  BY <1>3, VolumeFacts DEF Inv
<1> DEFINE end == EndFrom(top.cfo)
           n == Upto(top)
           seen == Seen(top, n)
           f == Forward([top EXCEPT !.got = Dirents(seen)], n)
           r == file[top.fd]
<1>5. IF end = {} THEN GoOn(f) ELSE Finish(f)
  BY DEF ListEntries
<1>6. \A e : e \in end <=> e \in Units /\ e >= top.at /\ Entry(0, e).kind = "end"
  BY <1>3 DEF Ends, EndFrom, Units
<1>12. n = IF end = {} THEN Chunk(top) ELSE Least(end) - top.cfo
  BY DEF Upto
<1>13. seen = [i \in 1 .. n |-> Unit(top.cfo + i - 1)]
  BY DEF Seen
<1> HIDE DEF n
<1>7. /\ n \in 0 .. SectorUnits - top.at
      /\ \A i \in top.at .. top.at + n - 1 : Entry(0, i).kind # "end"
      /\ end = {} => n = SectorUnits - top.at
      /\ end # {} => top.at + n \in Units /\ Entry(0, top.at + n).kind = "end"
  <2>1. CASE end = {}
    <3>1. n = Chunk(top)
      BY <1>12, <2>1
    <3>2. Chunk(top) = SectorUnits - top.at
      BY <1>3, <1>4 DEF Chunk
    <3>3. \A i \in top.at .. top.at + n - 1 : i \in Units /\ i >= top.at
      BY <1>4, <3>1, <3>2 DEF Units
    <3> HIDE DEF end
    <3>4. \A i \in top.at .. top.at + n - 1 : Entry(0, i).kind # "end"
      BY <1>6, <2>1, <3>3
    <3> QED BY <1>3, <1>4, <2>1, <3>1, <3>2, <3>4
  <2>2. CASE end # {}
    <3>1. end \in SUBSET Nat
      BY <1>4, <1>6 DEF Units
    <3>2. PICK e \in end : \A j \in end : e <= j
      BY <2>2, <3>1, NatMin
    <3> HIDE DEF end
    <3>3. Least(end) = e
      <4>1. \A x \in end : (\A y \in end : x <= y) => x = e
        BY <3>1, <3>2
      <4> QED BY <3>2, <4>1 DEF Least
    <3>4. e \in Units /\ e >= top.at /\ Entry(0, e).kind = "end" /\ n = e - top.at
      BY <1>3, <1>6, <1>12, <2>2, <3>2, <3>3
    <3>5. e \in Nat /\ e < SectorUnits /\ top.at + n = e /\ n \in 0 .. SectorUnits - top.at
      BY <1>4, <3>4 DEF Units
    <3>6. \A i \in top.at .. top.at + n - 1 : i \in Units /\ i >= top.at /\ ~ (e <= i)
      BY <1>4, <3>5 DEF Units
    <3>7. \A i \in top.at .. top.at + n - 1 : Entry(0, i).kind # "end"
      BY <1>6, <3>2, <3>6
    <3> QED BY <2>2, <3>4, <3>5, <3>7
  <2> QED BY <2>1, <2>2
<1> HIDE DEF end, seen
<1>8. Len(seen) = n /\ \A i \in 1 .. n : seen[i] = Entry(0, top.at + i - 1)
  <2>1. n \in Nat
    BY <1>4, <1>7
  <2>2. Len(seen) = n
    BY <1>13, <2>1
  <2>3. \A i \in 1 .. n : top.at + i - 1 \in Units
    BY <1>4, <1>7 DEF Units
  <2> QED BY <1>1, <1>3, <1>13, <2>2, <2>3
<1>9. /\ f.fd = top.fd /\ f.op = "list" /\ f.at = top.at /\ f.cfo = top.at + n /\ f.done = n
      /\ f.len = top.len /\ f.cluster = top.cluster /\ f.got = Dirents(seen) /\ f.torn = FALSE
      /\ f.skip = 0 /\ IsFrame(f)
  <2>1. PICK x : x = Dirents(seen)
    OBVIOUS
  <2>2. PICK h : h = [top EXCEPT !.got = x]
    OBVIOUS
  <2>3. /\ IsFrame(h) /\ h.fd = top.fd /\ h.op = "list" /\ h.at = top.at /\ h.cfo = top.cfo
        /\ h.done = 0 /\ h.len = top.len /\ h.cluster = top.cluster /\ h.got = x /\ h.torn = FALSE
    BY <1>1, <1>3, <2>2 DEF IsFrame
  <2>4. f = [h EXCEPT !.cfo = @ + n, !.done = @ + n, !.skip = 0]
    BY <2>1, <2>2 DEF Forward
  <2>5. 0 + n = n
    BY <1>4, <1>7
  <2> HIDE DEF f
  <2>6. /\ f.fd = h.fd /\ f.op = h.op /\ f.at = h.at /\ f.cfo = h.cfo + n /\ f.done = h.done + n
        /\ f.len = h.len /\ f.cluster = h.cluster /\ f.got = h.got /\ f.torn = h.torn
        /\ f.skip = 0 /\ IsFrame(f)
    BY <2>3, <2>4 DEF IsFrame
  <2> QED BY <1>3, <2>1, <2>3, <2>5, <2>6
<1> HIDE DEF f
<1>10. CASE end # {}
  <2>1. Finish(f)
    BY <1>5, <1>10
  <2>2. PICK q : q = [file[f.fd] EXCEPT !.cfo = @ + f.done]
    OBVIOUS
  <2>3. Return(f, q)
    BY <2>1, <2>2 DEF Finish
  <2>4. IsRootDir(q)
    <3>1. q = [r EXCEPT !.cfo = top.at + n] /\ top.at + n \in Nat
      BY <1>3, <1>4, <1>7, <1>9, <2>2
    <3> QED BY <1>3, <3>1 DEF IsRootDir, FileSet
  <2>5. f.at = 0 => ListIs(f.got, EntriesOf(UnitsIn(disk, HeldBy(disk, V, Root))))
    <3> SUFFICES ASSUME f.at = 0
                 PROVE  ListIs(Dirents(seen), EntriesOf(UnitsIn(disk, HeldBy(disk, V, Root))))
      BY <1>9
    <3>1. top.at = 0 /\ top.at + n = n
      BY <1>4, <1>7, <1>9
    <3>2. n \in 0 .. SectorUnits /\ \A i \in 0 .. n - 1 : Entry(0, i).kind # "end"
      BY <1>4, <1>7, <3>1
    <3>3. Entry(0, n).kind = "end"
      BY <1>7, <1>10, <3>1
    <3>4. \A i \in 1 .. n : seen[i] = Entry(0, i - 1)
      <4>1. \A i \in 1 .. n : top.at + i - 1 = i - 1
        BY <3>1
      <4> QED BY <1>8, <4>1
    <3> QED BY <1>4, <1>8, <3>2, <3>3, <3>4, ListShows
  <2> QED BY <1>1, <1>9, <2>3, <2>4, <2>5, ListReturns
<1>11. CASE end = {}
  <2>1. n = SectorUnits - top.at /\ f.cfo = SectorUnits /\ f.done = f.len
    BY <1>3, <1>4, <1>7, <1>9, <1>11
  <2>2. PICK h : h = [f EXCEPT !.pc = "walk"]
    OBVIOUS
  <2>3. /\ IsFrame(h) /\ h.pc = "walk" /\ h.op = "list" /\ h.fd = top.fd /\ h.cluster = Root
        /\ h.at = top.at /\ h.cfo = SectorUnits /\ h.len = f.len /\ h.done = h.len
        /\ h.got = Dirents(seen) /\ h.torn = FALSE /\ h.skip = 0
    BY <1>3, <1>9, <2>1, <2>2 DEF IsFrame
  <2>4. GoOn(f) /\ f.cfo >= SectorUnits
    BY <1>4, <1>5, <1>11, <2>1
  <2>5. /\ AndFetch(h, "in", FatSector(f.cluster), "tbuf") /\ UNCHANGED <<volume, file>>
    BY <2>2, <2>4 DEF GoOn
  <2>6. In(FatSector(f.cluster), "tbuf") = Want(h, file[h.fd], V)
    BY <1>2, <1>9, <2>3, <1>3, WantIs DEF FatSector, V, Geometry
  <2>7. ListFrame(h, file[h.fd])
    <3>1. h.len \in Nat
      BY <1>3, <1>4, <1>9, <2>3
    <3>2. h.at = 0 => Dirents(seen) = Dirents(FirstSector) /\ \A i \in Units : Entry(0, i).kind # "end"
      <4> SUFFICES ASSUME h.at = 0
                   PROVE  seen = FirstSector /\ \A i \in Units : Entry(0, i).kind # "end"
        OBVIOUS
      <4>1. top.at = 0 /\ n = SectorUnits
        BY <1>4, <2>1, <2>3
      <4>2. \A i \in 1 .. SectorUnits : top.cfo + i - 1 = i - 1 /\ i - 1 \in Units
        BY <1>3, <1>4, <4>1 DEF Units
      <4>3. seen = FirstSector
        <5>1. seen = [i \in 1 .. SectorUnits |-> Unit(top.cfo + i - 1)]
          BY <1>13, <4>1
        <5> QED BY <1>3, <4>2, <5>1 DEF FirstSector
      <4>4. \A i \in Units : i \in top.at .. top.at + n - 1
        BY <1>4, <4>1 DEF Units
      <4> QED BY <1>7, <4>3, <4>4
    <3>3. h.at < SectorUnits /\ h.at = file[h.fd].cfo
      BY <1>3, <1>4, <2>3
    <3>4. h.torn \in BOOLEAN
      BY <2>3, Zenon
    <3>5. h.skip \in Nat
      BY <2>3
    <3> QED BY <1>3, <2>3, <3>1, <3>2, <3>3, <3>4, <3>5 DEF ListFrame
  <2>8. FrameOk(h, file[h.fd], disk, mem'["buf"], FALSE)
    BY <2>7 DEF FrameOk
  <2>9. MemInv' /\ BufInv' /\ mem'["hdr"] = mem["hdr"] /\ UNCHANGED <<disk, volume, file>>
    BY <1>1, <2>5 DEF Inv, MemInv, BufInv
  <2>10. [type |-> "in", sector |-> FatSector(f.cluster), buf |-> "tbuf"] = Want(h, file[h.fd], V)
    BY <2>6 DEF In
  <2> QED BY <1>2, <2>3, <2>5, <2>8, <2>9, <2>10, GoesOn
<1> QED BY <1>10, <1>11

\* After a fault something is left of the listing, or it goes on to the table.
LEMMA ListGoesTorn ==
    ASSUME Inv, ListTorn
    PROVE  Inv'
<1>1. Resumes("data") /\ top.op = "list" /\ top.torn /\ UNCHANGED <<disk, mem>>
  BY DEF ListTorn
<1>2. Idle /\ volume = V /\ mem["hdr"] = Header /\ calls = <<top>> /\ Under(top, top)
  BY <1>1, ListResumed
<1>3. /\ IsRootDir(file[top.fd]) /\ top.at \in 0 .. SectorUnits - 1 /\ top.cluster = Root
      /\ top.cfo = top.at /\ top.done = 0 /\ top.len = SectorUnits - top.at
      /\ file[top.fd].cfo = top.at /\ IsFrame(top) /\ top.fd \in Fds /\ top.torn = TRUE
      /\ top.skip \in Nat
  BY <1>1, RootServed
<1>4. SectorUnits \in Nat \ {0} /\ top.at \in Nat /\ Chunk(top) = SectorUnits - top.at
  BY <1>3, VolumeFacts DEF Chunk
<1>5. PICK n \in top.skip + 1 .. Chunk(top) :
             IF n < Chunk(top) THEN Finish(Forward(top, n)) ELSE GoOn(Forward(top, n))
  BY DEF ListTorn
<1>6. PICK f : f = Forward(top, n)
  OBVIOUS
<1>7. n \in 1 .. SectorUnits - top.at
  BY <1>3, <1>4
<1>8. /\ f.fd = top.fd /\ f.op = "list" /\ f.at = top.at /\ f.cfo = top.at + n /\ f.done = n
      /\ f.len = top.len /\ f.cluster = Root /\ f.torn = TRUE /\ f.skip = 0 /\ IsFrame(f)
  <2>1. /\ f.fd = top.fd /\ f.op = top.op /\ f.at = top.at /\ f.cfo = top.cfo + n
        /\ f.done = top.done + n /\ f.len = top.len /\ f.cluster = top.cluster
        /\ f.torn = top.torn /\ f.skip = 0 /\ IsFrame(f)
    BY <1>3, <1>6 DEF Forward, IsFrame
  <2>2. n \in Nat
    BY <1>4, <1>7
  <2> QED BY <1>1, <1>3, <2>1, <2>2
<1>9. CASE n < Chunk(top)
  <2>1. PICK q : q = [file[f.fd] EXCEPT !.cfo = @ + f.done]
    OBVIOUS
  <2>2. Return(f, q)
    BY <1>5, <1>6, <1>9, <2>1 DEF Finish
  <2>3. IsRootDir(q)
    <3>1. q = [file[top.fd] EXCEPT !.cfo = top.at + n] /\ top.at + n \in Nat
      BY <1>3, <1>4, <1>7, <1>8, <2>1
    <3> QED BY <1>3, <3>1 DEF IsRootDir, FileSet
  <2> QED BY <1>1, <1>8, <2>2, <2>3, ListReturns
<1>10. CASE ~ (n < Chunk(top))
  <2>1. n = SectorUnits - top.at /\ f.cfo = SectorUnits /\ f.done = f.len
    BY <1>3, <1>4, <1>7, <1>8, <1>10
  <2>2. PICK h : h = [f EXCEPT !.pc = "walk"]
    OBVIOUS
  <2>3. /\ IsFrame(h) /\ h.pc = "walk" /\ h.op = "list" /\ h.fd = top.fd /\ h.cluster = Root
        /\ h.at = top.at /\ h.cfo = SectorUnits /\ h.len = f.len /\ h.done = h.len
        /\ h.torn = TRUE /\ h.skip = 0
    BY <1>3, <1>8, <2>1, <2>2 DEF IsFrame
  <2>4. GoOn(f) /\ f.cfo >= SectorUnits
    BY <1>4, <1>5, <1>6, <1>10, <2>1
  <2>5. AndFetch(h, "in", FatSector(f.cluster), "tbuf") /\ UNCHANGED <<volume, file>>
    BY <2>2, <2>4 DEF GoOn
  <2>6. [type |-> "in", sector |-> FatSector(f.cluster), buf |-> "tbuf"] = Want(h, file[h.fd], V)
    BY <1>2, <1>8, <2>3, WantIs DEF In, FatSector, V, Geometry
  <2>7. ListFrame(h, file[h.fd])
    <3>1. h.len \in Nat /\ h.at < SectorUnits /\ h.at = file[h.fd].cfo
      BY <1>3, <1>4, <1>8, <2>3
    <3>2. h.torn \in BOOLEAN /\ h.torn # FALSE
      BY <2>3, Zenon
    <3>3. h.skip \in Nat
      BY <2>3
    <3> QED BY <1>3, <2>3, <3>1, <3>2, <3>3 DEF ListFrame
  <2>8. FrameOk(h, file[h.fd], disk, mem'["buf"], FALSE)
    BY <2>7 DEF FrameOk
  <2>9. MemInv' /\ BufInv' /\ mem'["hdr"] = mem["hdr"] /\ UNCHANGED <<disk, volume, file>>
    BY <1>1, <2>5 DEF Inv, MemInv, BufInv
  <2> QED BY <1>2, <2>3, <2>5, <2>6, <2>8, <2>9, GoesOn
<1> QED BY <1>9, <1>10

\* Nothing is left after it.
LEMMA ListWalks ==
    ASSUME Inv, Walk, top.op = "list"
    PROVE  Inv'
<1>1. Resumes("walk") /\ UNCHANGED <<disk, mem>>
  BY DEF Walk
<1>2. /\ volume = V /\ IsFrame(top) /\ top.pc = "walk" /\ ListFrame(top, file[top.fd])
      /\ mem["hdr"] = Header
  BY <1>1, ListResumed
<1>3. /\ IsRootDir(file[top.fd]) /\ top.cfo = SectorUnits /\ top.len \in Nat /\ top.done = top.len
      /\ ~top.torn /\ top.at = 0 => /\ top.got = Dirents(FirstSector)
                                    /\ \A i \in Units : Entry(0, i).kind # "end"
  BY <1>2 DEF ListFrame
<1>4. SectorUnits \in Nat \ {0} /\ DiskOk(disk)
  BY VolumeFacts DEF Inv
<1>5. PICK f : f = [top EXCEPT !.cluster = next_cluster(@), !.cfo = @ - SectorUnits]
  OBVIOUS
<1>6. /\ f.fd = top.fd /\ f.op = "list" /\ f.at = top.at /\ f.cfo = 0 /\ f.done = top.len
      /\ f.len = top.len /\ f.got = top.got /\ f.torn = top.torn
  BY <1>2, <1>3, <1>4, <1>5 DEF IsFrame
<1>7. Finish(f)
  <2>1. GoOn(f)
    BY <1>5 DEF Walk
  <2>2. ~ (f.cfo >= SectorUnits) /\ ~ (f.done < f.len)
    BY <1>3, <1>4, <1>6
  <2> QED BY <2>1, <2>2 DEF GoOn
<1>8. PICK q : q = [file[f.fd] EXCEPT !.cfo = @ + f.done]
  OBVIOUS
<1>9. Return(f, q)
  BY <1>7, <1>8 DEF Finish
<1>10. IsRootDir(q)
  <2>1. q = [file[top.fd] EXCEPT !.cfo = file[top.fd].cfo + top.len] /\ file[top.fd].cfo + top.len \in Nat
    BY <1>3, <1>6, <1>8 DEF IsRootDir, FileSet
  <2> QED BY <1>3, <2>1 DEF IsRootDir, FileSet
<1>11. ~f.torn /\ f.at = 0 => ListIs(f.got, EntriesOf(UnitsIn(disk, HeldBy(disk, V, Root))))
  <2> SUFFICES ASSUME ~f.torn, f.at = 0
               PROVE  ListIs(Dirents(FirstSector), EntriesOf(UnitsIn(disk, HeldBy(disk, V, Root))))
    BY <1>3, <1>6
  <2>1. \A i \in Units : Entry(0, i).kind # "end"
    BY <1>3, <1>6
  <2>2. SectorUnits \in 0 .. SectorUnits /\ ~ (SectorUnits < SectorUnits)
        /\ \A i \in 0 .. SectorUnits - 1 : Entry(0, i).kind # "end"
    BY <1>4, <2>1 DEF Units
  <2>3. Len(FirstSector) = SectorUnits /\ \A i \in 1 .. SectorUnits : FirstSector[i] = Entry(0, i - 1)
    BY <1>4 DEF FirstSector
  <2> QED BY <1>4, <2>2, <2>3, ListShows
<1> QED BY <1>1, <1>2, <1>6, <1>9, <1>10, <1>11, ListReturns

-----------------------------------------------------------------------------
(* Calls begin.                                                            *)

\* What holds between two calls.
LEMMA ReadyFacts ==
    ASSUME Inv, Ready
    PROVE  /\ Idle /\ Ours /\ volume = V /\ mem["hdr"] = Header /\ calls = <<>>
           /\ DiskOk(disk) /\ MemInv /\ FileInv /\ BufInv
<1>1. calls = <<>> /\ CallsInv
  BY DEF Inv, Ready
<1>2. Ours /\ Idle
  BY <1>1, CallsCases, Frames DEF Mounting, Under, Lost
<1> QED BY <1>1, <1>2 DEF Ours, Inv

\* A call that is one of the calls asks for its first sector.
LEMMA Begins ==
    ASSUME Inv, Ready, NEW f, NEW sector, Begin(f, "in", sector, "buf"), file' = file, IsFrame(f),
           In(sector, "buf") = Want(f, file[f.fd], V),
           FrameOk(f, file[f.fd], disk, mem["buf"], FALSE)
    PROVE  Inv'
<1>1. /\ Idle /\ Ours /\ volume = V /\ DiskOk(disk) /\ MemInv /\ FileInv /\ BufInv
  BY ReadyFacts
<1>2. /\ calls' = <<f>> /\ blk' = Posted("in", sector, "buf") /\ last' = NoResult
      /\ UNCHANGED <<disk, mem, volume, file>>
  BY DEF Begin
<1>3. [type |-> "in", sector |-> sector, buf |-> "buf"] = Want(f, file'[f.fd], volume')
  BY <1>1, <1>2 DEF In
<1>4. Ours' /\ DiskOk(disk') /\ MemInv' /\ FileInv' /\ BufInv'
  BY <1>1, <1>2 DEF Ours, MemInv, FileInv, BufInv
<1>5. FrameOk(f, file'[f.fd], disk', mem'["buf"], FALSE)
  BY <1>2
<1> QED BY <1>1, <1>2, <1>3, <1>4, <1>5, AsksAlone

\* A descriptor of a file.
LEMMA FileIs ==
    ASSUME FileInv, NEW d \in Fds \cup {Image}, file[d] # NoFile, ~file[d].isdir
    PROVE  IsReg(file[d])
  BY DEF FileInv, FileOk, IsDir, IsRootDir

\* open and opendir.
LEMMA OpenBegins ==
    ASSUME Inv, NEW d, NEW path, NEW isdir \in BOOLEAN, Open(d, path, isdir),
           d \in Fds \/ (d = Image /\ isdir = FALSE)
    PROVE  Inv'
<1>1. Ready /\ file[d] = NoFile /\ file' = file
  BY DEF Open
<1>2. volume = V /\ mem["hdr"] = Header
  BY <1>1, ReadyFacts
<1>3. PICK root : root = [NoFile EXCEPT !.cluster = mem["hdr"].root]
  OBVIOUS
<1>4. root.cluster = Root /\ root.cfo = 0
  BY <1>2, <1>3 DEF Root, NoFile
<1>5. PICK op : op = (IF isdir THEN "opendir" ELSE "open")
  OBVIOUS
<1>6. PICK f : f = Frame(op, d, path, "scan", root, 0)
  OBVIOUS
<1>7. Begin(f, "in", cluster_to_sector(root.cluster), "buf")
  BY <1>1, <1>3, <1>5, <1>6 DEF Open
<1>8. IsFrame(f) /\ f.op = op /\ f.fd = d /\ f.pc = "scan" /\ f.cluster = Root
  BY <1>4, <1>6 DEF Frame, IsFrame
<1>9. In(cluster_to_sector(root.cluster), "buf") = Want(f, file[f.fd], V)
  BY <1>2, <1>4, <1>8, WantIs DEF cluster_to_sector, SectorOf, V, Geometry
<1>10. OpenFrame(f, file[f.fd])
  <2>1. 0 \in 0 .. RootN - 1 /\ C(Root)[0] = Root
    BY RootIs
  <2>2. Passed(f, 0)
    BY DEF Passed
  <2>3. f.op \in {"open", "opendir"} /\ f.fd \in Fds \cup {Image} /\ file[f.fd] = NoFile
    BY <1>1, <1>5, <1>8
  <2>4. f.fd = Image => f.op = "open"
    BY <1>5, <1>8, Fat32Assumption
  <2> QED BY <1>8, <2>1, <2>2, <2>3, <2>4 DEF OpenFrame
<1>11. FrameOk(f, file[f.fd], disk, mem["buf"], FALSE)
  BY <1>10 DEF FrameOk
<1> QED BY <1>1, <1>7, <1>8, <1>9, <1>11, Begins

\* lseek to the end.
LEMMA SeekEndBegins ==
    ASSUME Inv, NEW d \in Fds, SeekEnd(d), ~astray'
    PROVE  Inv'
<1>1. /\ Ready /\ file[d] # NoFile /\ ~file[d].isdir /\ file' = file /\ file[d].cluster # 0
      /\ Begin(Frame("end", d, RootPath, "end", file[d], 0), "in",
               cluster_to_sector(file[d].cluster), "buf")
  BY DEF SeekEnd
<1>2. volume = V /\ FileInv
  BY <1>1, ReadyFacts
<1>3. IsReg(file[d])
  BY <1>1, <1>2, FileIs
<1>4. PICK f : f = Frame("end", d, RootPath, "end", file[d], 0)
  OBVIOUS
<1>5. IsFrame(f) /\ f.op = "end" /\ f.fd = d /\ f.pc = "end"
  BY <1>4 DEF Frame, IsFrame
<1>6. In(cluster_to_sector(file[d].cluster), "buf") = Want(f, file[f.fd], V)
  BY <1>2, <1>5, WantIs DEF cluster_to_sector, SectorOf, V, Geometry
<1>7. FrameOk(f, file[f.fd], disk, mem["buf"], FALSE)
  BY <1>1, <1>3, <1>5 DEF FrameOk, EndFrame
<1> QED BY <1>1, <1>4, <1>5, <1>6, <1>7, Begins

\* A read or write that has just begun is at the first cluster of its file.
LEMMA BeginsPlaced ==
    ASSUME NEW r, IsReg(r), NEW d \in Fds \cup {Image}, NEW n \in Nat \ {0}, NEW f, IsFrame(f),
           f.op \in {"read", "write"}, f.fd = d, f.pc = "size", f.cluster = r.cluster, f.at = r.cfo,
           f.cfo = r.cfo, f.want = n, f.len = n, f.done = 0, f.skip = 0, f.torn = FALSE,
           f.op = "read" => d # Image \/ r.cfo <= Size(r),
           f.op = "write" => r.cluster # 0
    PROVE  Placed(f, r) /\ Waits(f, r)
<1>1. r \in FileSet /\ r.cfo \in Nat /\ SectorUnits \in Nat
  BY VolumeFacts DEF IsReg, FileSet
<1>2. Aimed(f, r)
  <2>0. f.torn \in BOOLEAN
    OBVIOUS
  <2>1. f.skip \in Nat /\ f.done \in Nat /\ f.cfo \in Nat /\ f.len \in Nat
    BY <1>1
  <2> QED BY <2>0, <2>1 DEF Aimed
<1>3. N(r.cluster) \in Nat /\ C(r.cluster)[0] = r.cluster
  BY RegFacts DEF OnChain
<1>4. Reached(f, r, 0)
  <2>1. SectorUnits * 0 + f.cfo = f.at + f.done
    BY <1>1
  <2> QED BY <1>3, <2>1 DEF Reached
<1>5. 0 \in 0 .. N(r.cluster)
  BY <1>3
<1> QED BY <1>2, <1>4, <1>5 DEF Placed, Waits

\* A read that begins.
LEMMA ReadFrame ==
    ASSUME NEW r, IsReg(r), NEW d \in Fds \cup {Image}, NEW n \in Nat \ {0},
           d # Image \/ r.cfo <= Size(r), NEW D, NEW b, NEW t
    PROVE  RwFrame(Frame("read", d, RootPath, "size", r, n), r, D, b, t)
<1>1. PICK f : f = Frame("read", d, RootPath, "size", r, n)
  OBVIOUS
<1>2. /\ IsFrame(f) /\ f.op = "read" /\ f.fd = d /\ f.pc = "size"
      /\ f.cluster = r.cluster /\ f.at = r.cfo /\ f.cfo = r.cfo /\ f.want = n /\ f.len = n
      /\ f.done = 0 /\ f.skip = 0 /\ f.torn = FALSE /\ f.got = <<>>
  BY <1>1 DEF Frame, IsFrame
<1>3. Placed(f, r) /\ Waits(f, r)
  BY <1>2, BeginsPlaced
<1>4. HasRead(f, r, D)
  <2>1. 1 .. 0 = {}
    OBVIOUS
  <2>2. [i \in 1 .. 0 |-> UnitAt(D, r, f.at + i - 1)] = <<>>
    BY <2>1
  <2> QED BY <1>2, <2>2 DEF HasRead
<1> QED BY <1>1, <1>2, <1>3, <1>4 DEF RwFrame

\* read.
LEMMA ReadBegins ==
    ASSUME Inv, NEW d \in Fds, NEW n \in Lengths, Read(d, n)
    PROVE  Inv'
<1>1. /\ Ready /\ file[d] # NoFile /\ ~file[d].isdir
      /\ Begin(Frame("read", d, RootPath, "size", file[d], n), "in",
               cluster_to_sector(file[d].dir), "buf")
      /\ file' = file
  BY DEF Read
<1>2. volume = V /\ FileInv /\ DiskOk(disk)
  BY <1>1, ReadyFacts
<1>3. IsReg(file[d]) /\ n \in Nat \ {0}
  BY <1>1, <1>2, FileIs, Fat32Assumption
<1>4. d # Image
  BY Fat32Assumption
<1>5. PICK f : f = Frame("read", d, RootPath, "size", file[d], n)
  OBVIOUS
<1>6. IsFrame(f) /\ f.fd = d /\ f.pc = "size"
  BY <1>5 DEF Frame, IsFrame
<1>7. RwFrame(f, file[d], disk, mem["buf"], FALSE)
  BY <1>3, <1>4, <1>5, ReadFrame
<1>8. In(cluster_to_sector(file[d].dir), "buf") = Want(f, file[f.fd], V)
  BY <1>2, <1>6, WantIs DEF cluster_to_sector, SectorOf, V, Geometry
<1>9. FrameOk(f, file[f.fd], disk, mem["buf"], FALSE)
  BY <1>6, <1>7 DEF FrameOk
<1> QED BY <1>1, <1>5, <1>6, <1>8, <1>9, Begins

\* write.
LEMMA WriteBegins ==
    ASSUME Inv, NEW d \in Fds, NEW n \in Lengths, Write(d, n), ~astray'
    PROVE  Inv'
<1> DEFINE r == file[d]
<1>1. /\ Ready /\ file[d] # NoFile /\ ~file[d].isdir /\ r.cluster # 0
      /\ Begin([Frame("write", d, RootPath, "size", r, n) EXCEPT !.was = Content(r)], "in",
               cluster_to_sector(r.dir), "buf")
      /\ file' = file
  BY DEF Write
<1>2. volume = V /\ FileInv /\ DiskOk(disk)
  BY <1>1, ReadyFacts
<1>3. IsReg(r) /\ n \in Nat \ {0}
  BY <1>1, <1>2, FileIs, Fat32Assumption
<1>5. /\ Content(r) = [p \in 0 .. SectorUnits * N(r.cluster) - 1 |-> Content(r)[p]]
      /\ \A p \in 0 .. SectorUnits * N(r.cluster) - 1 : Content(r)[p] = UnitAt(disk, r, p)
  <2>1. Content(r) = UnitsIn(disk, HeldBy(disk, V, r.cluster))
    BY <1>2 DEF Content, SectorsOf
  <2>2. /\ Content(r) = Laid(disk, r.cluster, N(r.cluster))
        /\ DOMAIN Content(r) = 0 .. SectorUnits * N(r.cluster) - 1
        /\ \A p \in DOMAIN Content(r) : Content(r)[p] = UnitAt(disk, r, p)
    BY <1>2, <1>3, <2>1, ContentIs
  <2> QED BY <2>2 DEF Laid
<1>6. PICK f : f = [Frame("write", d, RootPath, "size", r, n) EXCEPT !.was = Content(r)]
  OBVIOUS
<1>7. /\ IsFrame(f) /\ f.op = "write" /\ f.fd = d /\ f.pc = "size" /\ f.cluster = r.cluster
      /\ f.at = r.cfo /\ f.cfo = r.cfo /\ f.want = n /\ f.len = n /\ f.done = 0 /\ f.skip = 0
      /\ f.torn = FALSE /\ f.was = Content(r)
  BY <1>6 DEF Frame, IsFrame
<1>8. Placed(f, r) /\ Waits(f, r)
  BY <1>1, <1>3, <1>7, BeginsPlaced
<1>9. HasWritten(f, r, disk, mem["buf"], FALSE)
  <2>1. Written(f, r, disk, f.done)
    <3> SUFFICES ASSUME NEW p \in 0 .. SectorUnits * N(r.cluster) - 1
                 PROVE  UnitAt(disk, r, p) = After(f, f.done, p)
      BY DEF Written
    <3>1. f.at \in Nat /\ f.done = 0
      BY <1>3, <1>7 DEF IsReg, FileSet
    <3>2. p \notin f.at .. f.at + f.done - 1
      BY <3>1
    <3> QED BY <1>5, <1>7, <3>2 DEF After
  <2> QED BY <1>5, <1>7, <2>1 DEF HasWritten
<1>10. RwFrame(f, r, disk, mem["buf"], FALSE)
  BY <1>7, <1>8, <1>9 DEF RwFrame
<1>11. In(cluster_to_sector(r.dir), "buf") = Want(f, file[f.fd], V)
  BY <1>2, <1>7, WantIs DEF cluster_to_sector, SectorOf, V, Geometry
<1>12. FrameOk(f, file[f.fd], disk, mem["buf"], FALSE)
  BY <1>7, <1>10 DEF FrameOk
<1> QED BY <1>1, <1>6, <1>7, <1>11, <1>12, Begins

\* getdents64.
LEMMA ListBegins ==
    ASSUME Inv, NEW d \in Fds, List(d)
    PROVE  Inv'
<1> DEFINE r == file[d]
<1>1. Ready /\ r # NoFile /\ r.isdir /\ file' = file
  BY DEF List
<1>2. volume = V /\ FileInv
  BY <1>1, ReadyFacts
<1>3. IsDir(r) \/ IsRootDir(r)
  BY <1>1, <1>2 DEF FileInv, FileOk, IsReg
<1>4. r.cfo \in Nat /\ r.dir \in Nat /\ SectorUnits \in Nat \ {0}
  BY <1>3, VolumeFacts DEF IsDir, IsRootDir, FileSet
<1>5. CASE r.dir # 0
  <2>1. IsDir(r) /\ r.cfo = 0
    BY <1>3, <1>5 DEF IsRootDir, IsDir
  <2>2. PICK f : f = Frame("list", d, RootPath, "size", r, SectorUnits)
    OBVIOUS
  <2>3. Begin(f, "in", cluster_to_sector(r.dir), "buf")
    BY <1>5, <2>2 DEF List
  <2>4. /\ IsFrame(f) /\ f.op = "list" /\ f.fd = d /\ f.pc = "size" /\ f.at = r.cfo /\ f.cfo = r.cfo
        /\ f.len = SectorUnits /\ f.done = 0 /\ f.torn = FALSE /\ f.skip = 0
    BY <2>2 DEF Frame, IsFrame
  <2>5. In(cluster_to_sector(r.dir), "buf") = Want(f, file[f.fd], V)
    BY <1>2, <2>4, WantIs DEF cluster_to_sector, SectorOf, V, Geometry
  <2>6. ListFrame(f, file[f.fd])
    <3>1. f.torn \in BOOLEAN
      BY <2>4, Zenon
    <3>2. f.skip \in Nat
      BY <2>4
    <3> QED BY <2>1, <2>4, <3>1, <3>2 DEF ListFrame
  <2>7. FrameOk(f, file[f.fd], disk, mem["buf"], FALSE)
    BY <2>6 DEF FrameOk
  <2> QED BY <1>1, <2>3, <2>4, <2>5, <2>7, Begins
<1>6. CASE r.dir = 0
  <2>1. IsRootDir(r)
    <3>1. ASSUME IsDir(r) PROVE FALSE
      BY <1>6, <3>1, FoundFacts DEF IsDir
    <3> QED BY <1>3, <3>1
  <2>2. PICK f : f = Frame("list", d, RootPath, "data", r, SectorUnits - r.cfo)
    OBVIOUS
  <2>3. Begin(f, "in", cluster_to_sector(r.cluster), "buf") /\ r.cfo < SectorUnits
    BY <1>6, <2>2 DEF List
  <2>4. /\ IsFrame(f) /\ f.op = "list" /\ f.fd = d /\ f.pc = "data" /\ f.at = r.cfo /\ f.cfo = r.cfo
        /\ f.cluster = r.cluster /\ f.len = SectorUnits - r.cfo /\ f.done = 0 /\ f.torn = FALSE
        /\ f.skip = 0
    BY <2>2 DEF Frame, IsFrame
  <2>5. In(cluster_to_sector(r.cluster), "buf") = Want(f, file[f.fd], V)
    BY <1>2, <2>4, WantIs DEF cluster_to_sector, SectorOf, V, Geometry
  <2>6. ListFrame(f, file[f.fd])
    <3>1. f.torn \in BOOLEAN
      BY <2>4, Zenon
    <3>2. f.skip \in Nat
      BY <2>4
    <3> QED BY <2>1, <2>3, <2>4, <3>1, <3>2 DEF ListFrame, IsRootDir
  <2>7. FrameOk(f, file[f.fd], disk, mem["buf"], FALSE)
    BY <2>6 DEF FrameOk
  <2> QED BY <1>1, <2>3, <2>4, <2>5, <2>7, Begins
<1> QED BY <1>5, <1>6

\* A call that reads no sector, or a call that is lost.
LEMMA Quiet ==
    ASSUME Inv, Ready, FileInv', last' = NoResult, UNCHANGED <<blk, disk, mem, volume, calls>>,
           (\E d \in Fds \cup {Image} : IsReg(file'[d])) => \E d \in Fds \cup {Image} : IsReg(file[d])
    PROVE  Inv'
<1>1. /\ Idle /\ Ours /\ calls = <<>> /\ DiskOk(disk) /\ MemInv /\ BufInv
  BY ReadyFacts
<1>2. QueueOk(blk') /\ MemInv' /\ DiskOk(disk') /\ BufInv'
  BY <1>1 DEF Inv, MemInv, BufInv
<1>3. CallsInv'
  BY <1>1, NoCall DEF Ours, Idle
<1>4. RequestInv' /\ LastInv'
  BY <1>1 DEF RequestInv, LastInv
<1> QED BY <1>2, <1>3, <1>4 DEF Inv

\* A descriptor changes.
LEMMA FileMoves ==
    ASSUME FileInv, NEW d \in Fds, NEW r, FileOk(d, r), IsReg(r) => IsReg(file[d]),
           file' = [file EXCEPT ![d] = r]
    PROVE  /\ FileInv'
           /\ (\E e \in Fds \cup {Image} : IsReg(file'[e])) =>
                \E e \in Fds \cup {Image} : IsReg(file[e])
<1>1. file' = [e \in Fds \cup {Image} |-> IF e = d THEN r ELSE file[e]]
  BY DEF FileInv
<1>2. \A e \in Fds \cup {Image} : file'[e] = IF e = d THEN r ELSE file[e]
  BY <1>1
<1>3. file' = [e \in Fds \cup {Image} |-> file'[e]]
  BY <1>1
<1>4. \A e \in Fds \cup {Image} : FileOk(e, file'[e])
  BY <1>2 DEF FileInv
<1> QED BY <1>2, <1>3, <1>4 DEF FileInv

\* The root directory itself is opened.
LEMMA OpenRootKeepsInv ==
    ASSUME Inv, NEW d \in Fds, NEW isdir \in BOOLEAN, OpenRoot(d, isdir)
    PROVE  Inv'
<1>1. /\ Ready /\ last' = NoResult /\ UNCHANGED <<blk, disk, mem, volume, calls>>
  BY DEF OpenRoot, virtioVars
<1>2. PICK r : r = IF isdir THEN [NoFile EXCEPT !.cluster = mem["hdr"].root, !.isdir = TRUE]
                            ELSE NoFile
  OBVIOUS
<1>3. file' = [file EXCEPT ![d] = r]
  BY <1>2 DEF OpenRoot
<1>4. mem["hdr"] = Header /\ FileInv
  BY <1>1, ReadyFacts
<1>5. r = NoFile \/ IsRootDir(r)
  <2> SUFFICES ASSUME isdir PROVE IsRootDir(r)
    BY <1>2
  <2>1. r = [cluster |-> Root, dir |-> 0, index |-> 0, cfo |-> 0, isdir |-> TRUE]
    BY <1>2, <1>4 DEF NoFile, Root
  <2>2. Root \in Nat
    BY RootIs
  <2> QED BY <2>1, <2>2 DEF IsRootDir, FileSet
<1>6. FileOk(d, r) /\ ~IsReg(r)
  BY <1>5, RegFacts DEF FileOk, IsReg, IsRootDir
<1> QED BY <1>1, <1>3, <1>4, <1>6, FileMoves, Quiet

\* close.
LEMMA CloseKeepsInv ==
    ASSUME Inv, NEW d \in Fds, Close(d)
    PROVE  Inv'
<1>1. /\ Ready /\ last' = NoResult /\ UNCHANGED <<blk, disk, mem, volume, calls>>
      /\ file' = [file EXCEPT ![d] = NoFile]
  BY DEF Close, virtioVars
<1>2. FileInv
  BY <1>1, ReadyFacts
<1>3. FileOk(d, NoFile) /\ ~IsReg(NoFile)
  BY RegFacts DEF FileOk
<1> QED BY <1>1, <1>2, <1>3, FileMoves, Quiet

\* lseek.
LEMMA SeekKeepsInv ==
    ASSUME Inv, NEW d \in Fds, NEW x \in Offsets, Seek(d, x)
    PROVE  Inv'
<1>1. /\ Ready /\ last' = NoResult /\ UNCHANGED <<blk, disk, mem, volume, calls>>
      /\ file[d] # NoFile /\ ~file[d].isdir /\ file' = [file EXCEPT ![d].cfo = x]
  BY DEF Seek, virtioVars
<1>2. FileInv
  BY <1>1, ReadyFacts
<1>3. IsReg(file[d]) /\ x \in Nat
  BY <1>1, <1>2, FileIs, Fat32Assumption
<1>4. PICK r : r = [file[d] EXCEPT !.cfo = x]
  OBVIOUS
<1>5. IsReg(r) /\ FileOk(d, r)
  BY <1>3, <1>4, OffsetMoves DEF FileOk
<1>6. file' = [file EXCEPT ![d] = r]
  BY <1>1, <1>4
<1> QED BY <1>1, <1>2, <1>3, <1>5, <1>6, FileMoves, Quiet

\* Nothing changes that Inv is about.
LEMMA StillInv ==
    ASSUME Inv, UNCHANGED <<blk, disk, mem, volume, file, calls, last, astray>>
    PROVE  Inv'
<1>1. QueueOk(blk') /\ MemInv' /\ DiskOk(disk') /\ FileInv' /\ BufInv'
  BY DEF Inv, MemInv, FileInv, BufInv
<1>2. CallsInv' <=> CallsInv
  BY DEF CallsInv, Ours, Idle
<1>3. RequestInv' <=> RequestInv
  BY DEF RequestInv, top, Idle
<1>4. ReadsExact' <=> ReadsExact
  BY DEF ReadsExact, Returned, SizeOf, Content, SectorsOf, cluster_to_sector
<1>5. WritesExact' <=> WritesExact
  BY DEF WritesExact, Returned, Content, SectorsOf
<1>6. OpenFinds' <=> OpenFinds
  BY DEF OpenFinds, Named, Entries, cluster_to_sector
<1>7. ListsWhatOpens' <=> ListsWhatOpens
  BY DEF ListsWhatOpens, Returned, Named, Entries
<1>8. LastInv'
  BY <1>4, <1>5, <1>6, <1>7 DEF Inv, LastInv, Idle
<1> QED BY <1>1, <1>2, <1>3, <1>8 DEF Inv

\* open of a path that it does not come back from.
LEMMA OpenBadKeepsInv ==
    ASSUME Inv, NEW d \in Fds, NEW isdir \in BOOLEAN, OpenBad(d, isdir)
    PROVE  Inv'
<1>1. Ready /\ last' = NoResult /\ UNCHANGED <<blk, disk, mem, volume, file>>
  BY DEF OpenBad, virtioVars
<1>2. PICK f : f = Frame(IF isdir THEN "opendir" ELSE "open", d, BadPath, "lost", NoFile, 0)
  OBVIOUS
<1>3. calls' = <<f>> /\ f.pc = "lost"
  BY <1>2 DEF OpenBad, Frame
<1>4. /\ Idle /\ Ours /\ DiskOk(disk) /\ MemInv /\ FileInv /\ BufInv
  BY <1>1, ReadyFacts
<1>5. QueueOk(blk') /\ DiskOk(disk') /\ MemInv' /\ FileInv' /\ BufInv' /\ Ours' /\ Idle'
  BY <1>1, <1>4 DEF Inv, MemInv, FileInv, BufInv, Ours, Idle
<1>6. CallsInv'
  BY <1>3, <1>5, LostCall
<1>7. top' = f
  BY <1>3, Frames DEF top
<1>8. RequestInv' /\ LastInv'
  BY <1>1, <1>3, <1>5, <1>7 DEF RequestInv, Relies, LastInv
<1> QED BY <1>5, <1>6, <1>8 DEF Inv

\* The call that a fault hits.
LEMMA FaultResumed ==
    ASSUME Inv, Resumes("data"), Len(calls) = 1
    PROVE  /\ Idle /\ volume = V /\ Ours /\ top.pc = "data" /\ IsFrame(top) /\ top.fd \in Fds
           /\ \/ RwFrame(top, file[top.fd], disk, mem["buf"], TRUE)
              \/ ListFrame(top, file[top.fd])
<1>0. "data" \in {"scan", "scannext", "end", "size", "walk", "data", "stored"}
  OBVIOUS
<1>1. PICK f, g :
        /\ Under(f, g) /\ top = f /\ f.pc = "data" /\ IsFrame(f)
        /\ Relies(f) => Served(Want(f, file[f.fd], V), mem, disk)
        /\ \/ calls = <<f>> /\ FrameOk(f, file[f.fd], disk, mem["buf"], TRUE)
           \/ /\ calls = <<f, g>> /\ RwFrame(f, file[f.fd], disk, mem["buf"], TRUE)
              /\ f.fd = Image /\ f.op = "read" /\ f.torn = FALSE
  BY <1>0, Resumed
<1>2. Idle /\ volume = V /\ Ours
  BY <1>0, Resumed
<1>3. calls # <<f, g>>
  BY Frames
<1>4. FrameOk(top, file[top.fd], disk, mem["buf"], TRUE)
  BY <1>1, <1>3
<1> QED BY <1>1, <1>2, <1>4 DEF FrameOk, OpenFrame, EndFrame, ListFrame

\* A fault in the middle of a copy: the call that it hits waits, with no promise
\* about what it goes on copying, while a page of the program is read.
LEMMA FaultKeepsInv ==
    ASSUME Inv, NEW j \in 0 .. SectorUnits - 1, NEW x \in 0 .. SectorUnits * MaxClusters,
           PageFault(j, x)
    PROVE  Inv'
<1>1. /\ Resumes("data") /\ Len(calls) = 1
      /\ file[Image] # NoFile /\ x < SizeOf(file[Image]) /\ last' = NoResult
      /\ mem' = (IF top.op = "write" THEN Patched(top, 0, j) ELSE mem)
      /\ UNCHANGED <<disk, volume>>
  BY DEF PageFault
<1>2. Idle /\ volume = V
  BY <1>1, FaultResumed
<1>3. /\ top.pc = "data" /\ IsFrame(top) /\ top.fd \in Fds /\ Ours
      /\ RwFrame(top, file[top.fd], disk, mem["buf"], TRUE) \/ ListFrame(top, file[top.fd])
  BY <1>1, FaultResumed
<1>4. MemInv /\ FileInv /\ BufInv /\ DiskOk(disk) /\ Image \notin Fds
  BY Fat32Assumption DEF Inv
<1>5. IsReg(file[Image])
  BY <1>1, <1>4 DEF FileInv, FileOk
<1>6. IsUnits(mem["buf"])
  BY <1>4, <1>5 DEF BufInv
<1>7. MemInv' /\ IsUnits(mem'["buf"]) /\ mem'["hdr"] = mem["hdr"]
  <2>1. CASE top.op = "write"
    BY <1>1, <1>4, <2>1, PatchedIs
  <2>2. CASE top.op # "write"
    BY <1>1, <1>4, <1>6, <2>2 DEF MemInv
  <2> QED BY <2>1, <2>2
<1>8. x \in Nat /\ j \in Nat
  BY VolumeFacts
<1>9. PICK image : image = [file[Image] EXCEPT !.cfo = x]
  OBVIOUS
<1>10. /\ IsReg(image) /\ image.cfo = x /\ image.dir = file[Image].dir
       /\ Size(image) = Size(file[Image])
  BY <1>5, <1>8, <1>9, OffsetMoves
<1>11. image.cfo <= Size(image)
  <2>1. cluster_to_sector(file[Image].dir) = SectorOf(file[Image].dir)
    BY <1>2 DEF cluster_to_sector, SectorOf, V, Geometry
  <2>2. Found(file[Image], "reg") /\ Size(file[Image]) \in Nat
    BY <1>5, RegFacts DEF IsReg
  <2>3. SizeOf(file[Image]) = Size(file[Image])
    BY <1>4, <2>1, <2>2, SizeIs DEF SizeOf
  <2> QED BY <1>1, <1>8, <1>10, <2>2, <2>3
<1>13. PICK f, g : /\ f = Frame("read", Image, RootPath, "size", image, PageUnits)
                   /\ g = [top EXCEPT !.got = GivenBefore(top, j), !.skip = j, !.torn = TRUE]
  OBVIOUS
<1>14. /\ file' = [file EXCEPT ![Image] = image]
       /\ calls' = <<f, g>>
       /\ blk' = Posted("in", cluster_to_sector(image.dir), "buf")
  BY <1>9, <1>13 DEF PageFault
<1>15. /\ IsFrame(f) /\ f.op = "read" /\ f.fd = Image /\ f.pc = "size" /\ f.torn = FALSE
  BY <1>13 DEF Frame, IsFrame
<1>17. /\ IsFrame(g) /\ g.op = top.op /\ g.fd = top.fd /\ g.pc = "data" /\ g.cluster = top.cluster
       /\ g.at = top.at /\ g.cfo = top.cfo /\ g.want = top.want /\ g.len = top.len /\ g.done = top.done
       /\ g.skip = j /\ g.torn = TRUE
  BY <1>3, <1>13 DEF IsFrame
<1>18. /\ file' = [d \in Fds \cup {Image} |-> IF d = Image THEN image ELSE file[d]]
       /\ file'[Image] = image /\ file'[g.fd] = file[top.fd]
  <2>1. file' = [d \in Fds \cup {Image} |-> IF d = Image THEN image ELSE file[d]]
    BY <1>4, <1>14 DEF FileInv
  <2>2. g.fd \in Fds \cup {Image} /\ g.fd # Image
    BY <1>3, <1>4, <1>17
  <2> QED BY <1>17, <2>1, <2>2
<1>19. FileInv'
  <2>1. file' = [d \in Fds \cup {Image} |-> file'[d]]
    BY <1>18
  <2>2. \A d \in Fds \cup {Image} : file'[d] = IF d = Image THEN image ELSE file[d]
    BY <1>18
  <2>3. FileOk(Image, image)
    BY <1>10 DEF FileOk
  <2> QED BY <1>4, <2>1, <2>2, <2>3 DEF FileInv
<1>20. RwFrame(f, file'[f.fd], disk', mem'["buf"], FALSE)
  <2>1. PageUnits \in Nat \ {0} /\ Image \in Fds \cup {Image}
    BY Fat32Assumption
  <2> QED BY <1>10, <1>11, <1>13, <1>15, <1>18, <2>1, ReadFrame
<1>21. ASSUME RwFrame(top, file[top.fd], disk, mem["buf"], TRUE)
       PROVE  Hit(g, file'[g.fd], disk', mem'["buf"], FALSE)
  <2> DEFINE r == file[top.fd]
  <2>1. Placed(top, r) /\ Waits(top, r)
    BY <1>21 DEF RwFrame
  <2>2. Aimed(g, r)
    <3>1. g.torn \in BOOLEAN
      BY <1>17
    <3> QED BY <1>3, <1>8, <1>17, <2>1, <3>1 DEF Placed, Aimed
  <2>3. Placed(g, r)
    BY <1>17, <2>1, <2>2 DEF Placed, Reached
  <2>4. Goal(g, r) = Goal(top, r)
    BY <1>17 DEF Goal
  <2>5. Waits(g, r)
    BY <1>3, <1>17, <2>1, <2>4 DEF Waits
  <2>6. RwFrame(g, file'[g.fd], disk', mem'["buf"], FALSE)
    BY <1>17, <1>18, <2>3, <2>5 DEF RwFrame
  <2> QED BY <1>3, <1>17, <2>6 DEF Hit
<1>25. ASSUME ListFrame(top, file[top.fd])
       PROVE  Hit(g, file'[g.fd], disk', mem'["buf"], FALSE)
  <2>1. ListFrame(g, file[top.fd])
    BY <1>3, <1>8, <1>17, <1>25 DEF ListFrame
  <2> QED BY <1>3, <1>17, <1>18, <2>1 DEF Hit
<1>26. Hit(g, file'[g.fd], disk', mem'["buf"], FALSE)
  BY <1>3, <1>21, <1>25
<1>22. Ours' /\ DiskOk(disk') /\ BufInv'
  BY <1>1, <1>3, <1>4, <1>7 DEF Ours, BufInv
<1>23. [type |-> "in", sector |-> cluster_to_sector(image.dir), buf |-> "buf"]
         = Want(f, file'[f.fd], volume')
  <2>1. Want(f, image, V) = In(SectorOf(image.dir), "buf")
    BY <1>15, WantIs
  <2> QED BY <1>1, <1>2, <1>15, <1>18, <2>1 DEF In, cluster_to_sector, SectorOf, V, Geometry
<1> QED BY <1>1, <1>2, <1>7, <1>14, <1>15, <1>17, <1>19, <1>20, <1>22, <1>23, <1>26, AsksInFront

-----------------------------------------------------------------------------
(* Boot.                                                                   *)

\* mbr_init or partition_init goes on.
LEMMA MountResumed ==
    ASSUME Inv, NEW pc \in {"mbr", "parts", "header"}, Resumes(pc)
    PROVE  /\ Idle /\ Mounting(top) /\ top.pc = pc /\ MountOk(top, volume, mem, TRUE)
           /\ Relies(top) => Served(Want(top, file[Image], volume), mem, Disk)
           /\ MemInv /\ FileInv /\ BufInv /\ DiskOk(disk)
<1>1. Idle /\ top.pc = pc /\ calls # <<>> /\ CallsInv
  BY DEF Resumes, Inv
<1>2. ASSUME NEW f, NEW g, Under(f, g) PROVE FALSE
  <2>1. top = f
    BY <1>2, Frames DEF Under, top
  <2>2. f.pc # "mbr" /\ f.pc # "parts" /\ f.pc # "header"
    BY <1>2, FrameWant DEF Under, RwFrame, Waits
  <2> QED BY <1>1, <2>1, <2>2
<1>0. ASSUME NEW f, Lost(f) PROVE FALSE
  BY <1>0, <1>1, Frames DEF Lost, top
<1>3. PICK f : Mounting(f)
  BY <1>0, <1>1, <1>2, CallsCases
<1>4. f = top /\ f.fd = Image /\ disk = Disk
  BY <1>3, Frames DEF Mounting, top, MountOk
<1>5. Transferred(blk)
  BY <1>1 DEF Inv, QueueOk, Transferred, Idle
<1>6. Relies(top) => Served(Want(top, file[Image], volume), mem, Disk)
  BY <1>1, <1>4, <1>5 DEF Inv, RequestInv
<1>7. MountOk(top, volume, mem, TRUE)
  <2>1. MountOk(f, volume, mem, Idle)
    BY <1>3 DEF Mounting
  <2> QED BY <1>1, <1>4, <2>1 DEF MountOk
<1> QED BY <1>1, <1>3, <1>4, <1>6, <1>7 DEF Inv

\* It asks for a sector.
LEMMA MountAsks ==
    ASSUME Inv, NEW pc \in {"mbr", "parts", "header"}, Resumes(pc), NEW f, IsFrame(f), f.fd = Image,
           NEW sector \in Int, NEW buf \in Bufs, AndFetch(f, "in", sector, buf),
           In(sector, buf) = Want(f, file[Image], volume'),
           MountOk(f, volume', mem, FALSE), UNCHANGED <<disk, mem, file>>
    PROVE  Inv'
<1>1. /\ Idle /\ Mounting(top) /\ MemInv /\ FileInv /\ BufInv /\ DiskOk(disk)
  BY MountResumed
<1>2. calls = <<top>> /\ disk = Disk /\ \A d \in Fds \cup {Image} : file[d] = NoFile
  BY <1>1 DEF Mounting
<1>3. calls' = <<f>> \o Tail(calls) /\ blk' = Posted("in", sector, buf) /\ last' = NoResult
  BY DEF AndFetch
<1>4. calls' = <<f>> /\ calls' # <<>> /\ Head(calls') = f
  <2>1. Tail(calls) = <<>>
    BY <1>2, Frames
  <2> QED BY <1>3, <2>1, Frames
<1>5. MountOk(f, volume', mem', Idle')
  BY DEF MountOk
<1>6. CallsInv'
  BY <1>2, <1>3, <1>4, <1>5, MountCall
<1>7. [type |-> "in", sector |-> sector, buf |-> buf] = Want(f, file'[f.fd], volume')
  BY DEF In
<1>8. DiskOk(disk') /\ MemInv' /\ FileInv' /\ BufInv'
  BY <1>1 DEF MemInv, FileInv, BufInv
<1>9. "in" \in {"in", "out"}
  OBVIOUS
<1> QED BY <1>1, <1>3, <1>4, <1>6, <1>7, <1>8, <1>9, Asks

\* The partition table is asked for.
LEMMA MountReads ==
    ASSUME Inv, MountRead
    PROVE  Inv'
<1>1. Resumes("mbr") /\ UNCHANGED <<disk, mem, volume, file>>
  BY DEF MountRead
<1>2. Mounting(top) /\ MountOk(top, volume, mem, TRUE)
  BY <1>1, MountResumed
<1>3. PICK f : f = [top EXCEPT !.pc = "parts", !.done = 1]
  OBVIOUS
<1>4. IsFrame(f) /\ f.op = top.op /\ f.fd = top.fd /\ f.pc = "parts" /\ f.done = 1
  BY <1>2, <1>3 DEF Mounting, IsFrame
<1>5. AndFetch(f, "in", 0, "mbr")
  BY <1>3 DEF MountRead
<1>6. MountOk(f, volume', mem, FALSE) /\ f.fd = Image
  BY <1>1, <1>2, <1>4 DEF MountOk
<1>7. In(0, "mbr") = Want(f, file[Image], volume')
  BY <1>4, WantIs
<1>8. 0 \in Int /\ "mbr" \in Bufs
  BY DEF Bufs
<1> QED BY <1>1, <1>4, <1>5, <1>6, <1>7, <1>8, MountAsks

\* Facts about partitions.
LEMMA PartitionFacts ==
    ASSUME NEW k \in Partitions
    PROVE  /\ k \in Nat \ {0} /\ Lba(k) \in Nat /\ k <= Mounted /\ Mounted \in Partitions
           /\ Mounted \in Nat \ {0} /\ Mounted \in 1 .. Len(Disk[0].parts)
<1>1. \A i \in Partitions : i \in 1 .. Len(Disk[0].parts) /\ Lba(i) \in Nat
  BY VolumeAssumption DEF Partitions
<1>2. \A i \in Partitions : i \in Nat \ {0}
  BY <1>1
<1> QED BY <1>1, <1>2, VolumeFacts

\* The next partition of the type is looked at, or there is no more of them.
LEMMA MountLooks ==
    ASSUME Inv, MountParts
    PROVE  Inv'
<1>1. Resumes("parts") /\ UNCHANGED <<disk, mem, volume, file>>
  BY DEF MountParts
<1>2. /\ Idle /\ Mounting(top) /\ top.pc = "parts" /\ MountOk(top, volume, mem, TRUE)
      /\ Relies(top) => Served(Want(top, file[Image], volume), mem, Disk)
      /\ MemInv /\ FileInv /\ BufInv /\ DiskOk(disk)
  BY <1>1, MountResumed
<1>3. /\ top.done \in Nat \ {0} /\ mem["mbr"] = Disk[0]
      /\ top.done > Mounted => volume = V /\ mem["hdr"] = Header
  <2>1. CASE top.done = 1
    <3>1. Relies(top) /\ Want(top, file[Image], volume) = In(0, "mbr")
      BY <1>2, <2>1, WantIs DEF Relies
    <3>2. mem["mbr"] = Disk[0]
      BY <1>2, <3>1, VolumeFacts DEF Served, In
    <3>3. Mounted \in Nat \ {0}
      BY VolumeFacts, PartitionFacts
    <3> QED BY <2>1, <3>2, <3>3
  <2>2. CASE top.done # 1
    <3>1. Mounted \in Nat \ {0}
      BY VolumeFacts, PartitionFacts
    <3> QED BY <1>2, <2>2, <3>1 DEF MountOk
  <2> QED BY <2>1, <2>2
<1>4. \A k : k \in Candidates(top.done) <=> k \in Partitions /\ top.done <= k
  <2>1. Len(Disk[0].parts) \in Nat
    BY VolumeAssumption
  <2> QED BY <1>3, <2>1 DEF Candidates, Partitions
<1>5. CASE Candidates(top.done) = {}
  <2>1. calls' = <<>> /\ blk' = blk /\ last' = NoResult
    BY <1>5 DEF MountParts
  <2>2. volume = V /\ mem["hdr"] = Header
    <3>1. Mounted \in Partitions /\ Mounted \in Nat
      BY VolumeFacts, PartitionFacts
    <3>2. ~ (top.done <= Mounted)
      BY <1>4, <1>5, <3>1
    <3> QED BY <1>3, <3>1, <3>2
  <2>3. Ours' /\ Idle'
    BY <1>1, <1>2, <2>1, <2>2 DEF Ours, Idle
  <2>4. CallsInv'
    BY <2>1, <2>3, NoCall
  <2>5. QueueOk(blk') /\ MemInv' /\ DiskOk(disk') /\ FileInv' /\ BufInv'
    BY <1>1, <1>2, <2>1 DEF Inv, MemInv, FileInv, BufInv
  <2>6. RequestInv' /\ LastInv'
    BY <2>1 DEF RequestInv, LastInv
  <2> QED BY <2>4, <2>5, <2>6 DEF Inv
<1>6. CASE Candidates(top.done) # {}
  <2>1. PICK k : k = Least(Candidates(top.done))
    OBVIOUS
  <2>2. k \in Partitions
    <3>1. Candidates(top.done) \in SUBSET Nat
      BY <1>4, PartitionFacts
    <3>2. PICK i \in Candidates(top.done) : \A j \in Candidates(top.done) : i <= j
      BY <1>6, <3>1, NatMin
    <3>3. k \in Candidates(top.done)
      BY <2>1, <3>2 DEF Least
    <3> QED BY <1>4, <3>3
  <2>3. k \in Nat \ {0} /\ Lba(k) \in Nat
    BY <2>2, PartitionFacts
  <2>4. PICK f : f = [top EXCEPT !.pc = "header", !.done = k + 1]
    OBVIOUS
  <2>5. IsFrame(f) /\ f.op = top.op /\ f.fd = top.fd /\ f.pc = "header" /\ f.done = k + 1
    BY <1>2, <2>4 DEF Mounting, IsFrame
  <2>6. AndFetch(f, "in", mem["mbr"].parts[k].lba, "hdr")
    BY <1>6, <2>1, <2>4 DEF MountParts
  <2>7. mem["mbr"].parts[k].lba = Lba(k)
    BY <1>3 DEF Lba
  <2>8. f.done - 1 = k /\ f.done \in Nat
    BY <2>3, <2>5
  <2>9. MountOk(f, volume', mem, FALSE) /\ f.fd = Image
    BY <1>1, <1>2, <1>3, <2>2, <2>5, <2>8 DEF MountOk
  <2>10. In(Lba(k), "hdr") = Want(f, file[Image], volume')
    BY <2>5, <2>8, WantIs
  <2>11. Lba(k) \in Int /\ "hdr" \in Bufs
    BY <2>3 DEF Bufs
  <2> QED BY <1>1, <2>5, <2>6, <2>7, <2>9, <2>10, <2>11, MountAsks
<1> QED BY <1>5, <1>6

\* The sector with the header is there.
LEMMA MountMounts ==
    ASSUME Inv, MountVolume
    PROVE  Inv'
<1>1. Resumes("header") /\ UNCHANGED <<disk, mem, file>>
  BY DEF MountVolume
<1>2. /\ Idle /\ Mounting(top) /\ top.pc = "header" /\ MountOk(top, volume, mem, TRUE)
      /\ Relies(top) => Served(Want(top, file[Image], volume), mem, Disk)
      /\ MemInv /\ FileInv /\ BufInv /\ DiskOk(disk)
  BY <1>1, MountResumed
<1>3. PICK k : k = top.done - 1
  OBVIOUS
<1>4. /\ k \in Partitions /\ k \in Nat \ {0} /\ top.done = k + 1 /\ mem["mbr"] = Disk[0]
      /\ top.op = "mount" /\ top.fd = Image /\ volume \in [fat : Nat, data : Nat]
      /\ mem["hdr"].kind = "bpb" =>
           {mem["hdr"].rsvd, mem["hdr"].fats, mem["hdr"].fatsz} \subseteq Nat
  <2>1. top.done \in Nat /\ top.done - 1 \in Partitions
    BY <1>2 DEF MountOk
  <2>2. k \in Partitions /\ k \in Nat \ {0} /\ top.done = k + 1
    BY <1>3, <2>1, PartitionFacts
  <2> QED BY <1>2, <2>2 DEF MountOk
<1>5. top.done > Mounted => mem["hdr"] = Header /\ k = Mounted
  <2> SUFFICES ASSUME top.done > Mounted PROVE mem["hdr"] = Header /\ k = Mounted
    OBVIOUS
  <2>1. Mounted \in Nat /\ k <= Mounted
    BY <1>4, PartitionFacts
  <2>2. k = Mounted
    BY <1>4, <2>1
  <2>3. Relies(top) /\ Want(top, file[Image], volume) = In(Lba(Mounted), "hdr")
    BY <1>2, <1>3, <2>2, WantIs DEF Relies
  <2> QED BY <1>2, <2>2, <2>3, VolumeFacts DEF Served, In, Header
<1>6. PICK f : f = [top EXCEPT !.pc = "parts"]
  OBVIOUS
<1>7. /\ IsFrame(f) /\ f.op = "mount" /\ f.fd = Image /\ f.pc = "parts" /\ f.done = top.done
      /\ f.done \in Nat /\ f.done > 1 /\ f.done # 1
  BY <1>2, <1>4, <1>6 DEF Mounting, IsFrame
<1>8. CASE mem["hdr"].kind = "bpb"
  <2>1. PICK h, fat : h = mem["hdr"] /\ fat = Lba(k) + h.rsvd
    OBVIOUS
  <2>2. mem["mbr"].parts[top.done - 1].lba = Lba(k)
    BY <1>3, <1>4 DEF Lba
  <2>3. /\ volume' = [fat |-> fat, data |-> fat + h.fats * h.fatsz]
        /\ AndFetch(f, "in", fat, "buf")
    BY <1>6, <1>8, <2>1, <2>2 DEF MountVolume
  <2>4. h.rsvd \in Nat /\ h.fats \in Nat /\ h.fatsz \in Nat /\ Lba(k) \in Nat
    BY <1>4, <1>8, <2>1, PartitionFacts
  <2>5. fat \in Nat /\ h.fats * h.fatsz \in Nat
    BY <2>1, <2>4
  <2>6. volume' \in [fat : Nat, data : Nat] /\ volume'.fat = fat
    BY <2>3, <2>5
  <2>7. f.done > Mounted => volume' = V
    <3> SUFFICES ASSUME f.done > Mounted PROVE volume' = V
      OBVIOUS
    <3>1. h = Header /\ k = Mounted
      BY <1>5, <1>7, <2>1
    <3>2. fat = FatStart
      BY <2>1, <3>1 DEF FatStart
    <3> QED BY <2>3, <3>1, <3>2 DEF V, Geometry, DataStart
  <2>8. MountOk(f, volume', mem, FALSE)
    BY <1>4, <1>5, <1>7, <2>6, <2>7 DEF MountOk
  <2>9. In(fat, "buf") = Want(f, file[Image], volume')
    BY <1>7, <2>6, WantIs
  <2>10. fat \in Int /\ "buf" \in Bufs
    BY <2>5 DEF Bufs
  <2> QED BY <1>1, <1>7, <2>3, <2>8, <2>9, <2>10, MountAsks
<1>9. CASE mem["hdr"].kind # "bpb"
  <2>1. calls' = <<f>> /\ UNCHANGED <<blk, volume, last>>
    BY <1>6, <1>9 DEF MountVolume
  <2>2. ~ (f.done > Mounted)
    BY <1>5, <1>7, <1>9, VolumeFacts
  <2>3. MountOk(f, volume', mem', Idle')
    BY <1>1, <1>4, <1>7, <1>9, <2>1, <2>2 DEF MountOk
  <2>4. disk' = Disk /\ last' = NoResult /\ \A d \in Fds \cup {Image} : file'[d] = NoFile
    BY <1>1, <1>2, <2>1 DEF Mounting
  <2>5. CallsInv'
    BY <1>7, <2>1, <2>3, <2>4, MountCall
  <2>6. QueueOk(blk') /\ MemInv' /\ DiskOk(disk') /\ FileInv' /\ BufInv'
    BY <1>1, <1>2, <2>1 DEF Inv, MemInv, FileInv, BufInv
  <2>7. RequestInv'
    <3>1. top' = f
      BY <2>1, Frames DEF top
    <3>2. ~Relies(top')
      BY <1>7, <3>1 DEF Relies
    <3>3. Idle'
      BY <1>2, <2>1 DEF Idle
    <3> QED BY <3>2, <3>3 DEF RequestInv
  <2>8. LastInv'
    BY <2>4 DEF LastInv
  <2> QED BY <2>5, <2>6, <2>7, <2>8 DEF Inv
<1> QED BY <1>8, <1>9

\* Boot begins with the partition table.
LEMMA InitInv == Init => Inv
<1> SUFFICES ASSUME Init PROVE Inv
  OBVIOUS
<1>1. /\ blk = [QueueInit EXCEPT !.avail = 1, !.seen = 1, !.used = 1] /\ disk = Disk
      /\ mem = [hdr |-> Zeroes, buf |-> Zeroes,
                tbuf |-> [kind |-> "fat", next |-> <<>>], mbr |-> Zeroes]
      /\ volume = NoVolume /\ file = [d \in Fds \cup {Image} |-> NoFile]
      /\ calls = <<MbrFrame>> /\ last = NoResult
  BY DEF Init, BlkInit
<1>2. QueueOk(blk)
  <2>1. 0 \in 0 .. IdxMod - 1 /\ 1 \in 0 .. IdxMod - 1
    BY VirtioAssumption
  <2>2. blk = [req |-> NoRequest, avail |-> 1, used |-> 1, original |-> 0,
               driver |-> "idle", seen |-> 1, device |-> "wait"]
    BY <1>1 DEF QueueInit
  <2>3. NoRequest \in Requests
    BY DEF NoRequest, Requests
  <2>4. blk \in BlkSet
    BY <2>1, <2>2, <2>3 DEF BlkSet
  <2> QED BY <2>2, <2>4 DEF QueueOk
<1>3. DiskOk(disk)
  <2>1. \A s \in FileSectors : IsUnits(Disk[s])
    <3> SUFFICES ASSUME NEW s \in FileSectors PROVE IsUnits(Disk[s])
      OBVIOUS
    <3>1. PICK x \in Slots : /\ Entry(x[1], x[2]).kind = "reg"
                             /\ \E k \in 0 .. N(Entry(x[1], x[2]).cluster) - 1 :
                                  s = SectorOf(C(Entry(x[1], x[2]).cluster)[k])
      BY DEF FileSectors
    <3>2. PICK c : c = Entry(x[1], x[2]).cluster
      OBVIOUS
    <3>3. OnChain(c, N(c))
      BY <3>1, <3>2, EntryFacts
    <3> QED BY <3>1, <3>2, <3>3 DEF OnChain
  <2> QED BY <1>1, <2>1 DEF DiskOk
<1>4. MemInv
  <2>1. mem = [b \in Bufs |-> mem[b]]
    BY <1>1 DEF Bufs
  <2> QED BY <2>1 DEF MemInv
<1>5. FileInv /\ \A d \in Fds \cup {Image} : file[d] = NoFile
  BY <1>1 DEF FileInv, FileOk
<1>6. BufInv
  BY <1>5, RegFacts DEF BufInv
<1>7. PICK f : f = MbrFrame
  OBVIOUS
<1>8. IsFrame(f) /\ f.op = "mount" /\ f.fd = Image /\ f.pc = "mbr" /\ f.done = 0
  BY <1>7 DEF MbrFrame, Frame, IsFrame, NoFile
<1>9. calls = <<f>> /\ Head(calls) = f /\ top = f
  BY <1>1, <1>7, Frames DEF top
<1>10. Idle
  BY <1>1 DEF Idle, QueueInit
<1>11. MountOk(f, volume, mem, Idle)
  <2>1. mem["hdr"].kind # "bpb"
    BY <1>1 DEF Zeroes
  <2>2. volume \in [fat : Nat, data : Nat]
    BY <1>1 DEF NoVolume
  <2> QED BY <1>8, <1>10, <2>1, <2>2 DEF MountOk
<1>12. CallsInv
  BY <1>1, <1>5, <1>8, <1>9, <1>11 DEF CallsInv
<1>13. RequestInv
  BY <1>8, <1>9, <1>10 DEF RequestInv, Relies
<1>14. LastInv
  BY <1>1 DEF LastInv
<1> QED BY <1>2, <1>3, <1>4, <1>5, <1>6, <1>12, <1>13, <1>14 DEF Inv

\* Which calls are at which place.
LEMMA TopIs ==
    ASSUME Inv, NEW pc \in {"size", "walk"}, Resumes(pc)
    PROVE  top.op \in {"read", "write", "list"}
<1>1. ASSUME top.op \notin {"read", "write"} PROVE top.op = "list"
  <2>1. pc \in {"scan", "scannext", "end", "size", "walk", "data"}
    OBVIOUS
  <2>2. /\ top.pc = pc
        /\ \/ OpenFrame(top, file[top.fd])
           \/ EndFrame(top, file[top.fd])
           \/ ListFrame(top, file[top.fd])
    BY <1>1, <2>1, OthersResumed
  <2> QED BY <2>2 DEF OpenFrame, EndFrame, ListFrame
<1> QED BY <1>1

\* Every step keeps the invariant, unless a call goes astray with it.
LEMMA NextInv ==
    ASSUME Inv, [Next]_vars, ~astray'
    PROVE  Inv'
<1>1. CASE Call
  <2>1. ASSUME NEW d \in Fds, NEW path \in Paths, NEW isdir \in BOOLEAN, Open(d, path, isdir)
        PROVE  Inv'
    BY <2>1, OpenBegins
  <2>2. ASSUME Open(Image, Program, FALSE) PROVE Inv'
    <3>1. FALSE \in BOOLEAN
      OBVIOUS
    <3> QED BY <2>2, <3>1, OpenBegins
  <2> QED BY <1>1, <2>1, <2>2, OpenRootKeepsInv, OpenBadKeepsInv, CloseKeepsInv, SeekKeepsInv,
             SeekEndBegins, ReadBegins, WriteBegins, ListBegins DEF Call
<1>2. CASE Kernel
  <2>1. CASE Sized
    <3>1. top.op \in {"read", "write", "list"}
      BY <2>1, TopIs DEF Sized
    <3> QED BY <2>1, <3>1, RwSized, ListSized
  <2>2. CASE Walk
    <3>1. top.op \in {"read", "write", "list"}
      BY <2>2, TopIs DEF Walk
    <3> QED BY <2>2, <3>1, RwWalks, ListWalks
  <2> QED BY <1>2, <2>1, <2>2, MountReads, MountLooks, MountMounts, OpenScans, OpenGoesOn,
             EndReturns, RwCopiesOut, RwCopiesIn, RwStored, ListLists, ListGoesTorn DEF Kernel
<1>4. ASSUME NEW j \in 0 .. SectorUnits - 1, NEW x \in 0 .. SectorUnits * MaxClusters,
             PageFault(j, x)
      PROVE  Inv'
  BY <1>4, FaultKeepsInv
<1>5. CASE DriverStep \/ DeviceStep
  BY <1>5, DriverKeepsInv
<1>6. CASE UNCHANGED vars
  BY <1>6, StillInv DEF vars, virtioVars
<1> QED BY <1>1, <1>2, <1>4, <1>5, <1>6 DEF Next

\* After a call that has gone astray no other begins.
LEMMA StaysAstray ==
    ASSUME astray, [Next]_vars
    PROVE  astray'
<1>1. ~Call
  BY DEF Call, Open, OpenRoot, OpenBad, Close, Seek, SeekEnd, Read, Write, List, Ready
<1>2. CASE Kernel
  BY <1>2 DEF Kernel, MountRead, MountParts, MountVolume, Scan, ScanNext, SeekEndAny, Sized, Walk,
     CopyOut, CopyIn, Stored, ListEntries, ListTorn
<1>3. ASSUME NEW j \in 0 .. SectorUnits - 1, NEW x \in 0 .. SectorUnits * MaxClusters,
             PageFault(j, x)
      PROVE  astray'
  BY <1>3 DEF PageFault
<1>4. CASE DriverStep \/ DeviceStep
  BY <1>4 DEF DriverStep, DeviceStep
<1>5. CASE UNCHANGED vars
  BY <1>5 DEF vars
<1> QED BY <1>1, <1>2, <1>3, <1>4, <1>5 DEF Next

-----------------------------------------------------------------------------
(* The theorems.                                                           *)

\* Until a call goes astray, and whatever the device and page faults come between:
\* buffers hold what the call that goes on has asked for, every call is where its
\* offset says, and only sectors that hold a part of a file differ from what the
\* disk held at boot.  A call goes astray at a cluster whose link next_cluster
\* mistakes, beyond the last cluster, and in an empty file (fat32_read,
\* fat32_write, next_cluster).
THEOREM Invariance == Spec => [](astray \/ Inv)
<1>1. Init => astray \/ Inv
  BY InitInv
<1>2. (astray \/ Inv) /\ [Next]_vars => (astray \/ Inv)'
  BY NextInv, StaysAstray
<1> QED BY <1>1, <1>2, PTL DEF Spec

\* The properties of the call that returned last.
LEMMA LastFacts == astray \/ Inv => ReadsExact /\ WritesExact /\ OpenFinds /\ ListsWhatOpens
<1> SUFFICES ASSUME astray \/ Inv PROVE ReadsExact /\ WritesExact /\ OpenFinds /\ ListsWhatOpens
  OBVIOUS
<1>0. CASE astray
  BY <1>0 DEF ReadsExact, WritesExact, Returned, OpenFinds, ListsWhatOpens
<1>1. CASE last = NoResult
  <2>1. last.op = "none"
    BY <1>1 DEF NoResult
  <2> QED BY <2>1 DEF ReadsExact, WritesExact, Returned, OpenFinds, ListsWhatOpens
<1>2. CASE last # NoResult /\ ~astray
  BY <1>2 DEF Inv, LastInv
<1> QED BY <1>0, <1>1, <1>2

\* A read that no fault has hit and that has not gone astray gives the units of its
\* file from the offset on, up to its length or the end of the file, and moves the
\* offset by as much (fat32_read).
THEOREM ReadsWhatFileHolds == Spec => []ReadsExact
  BY Invariance, LastFacts, PTL

\* A write that no fault has hit and that has not gone astray changes the units from
\* the offset on, as far as the clusters go, and nothing else of its file
\* (fat32_write).
THEOREM WritesWhatItIsGiven == Spec => []WritesExact
  BY Invariance, LastFacts, PTL

\* open finds the first entry of the kind and name in the root directory, however
\* many clusters it has, if next_cluster mistakes no link of it (fat32_open_file,
\* fat32_open_dir).
THEOREM OpenFindsFirst == Spec => []OpenFinds
  BY Invariance, LastFacts, PTL

\* getdents64 lists what open finds in the first sector, unless a fault has hit it
\* (fat32_read_dir).
THEOREM ListsOpenable == Spec => []ListsWhatOpens
  BY Invariance, LastFacts, PTL

\* Only the device changes the disk.
LEMMA DiskMoves ==
    ASSUME [Next]_vars, disk' # disk
    PROVE  Transfer
<1>1. CASE Call
  BY <1>1 DEF Call, Open, OpenRoot, OpenBad, Close, Seek, SeekEnd, Read, Write, List, Begin,
     virtioVars
<1>2. CASE Kernel
  BY <1>2 DEF Kernel, MountRead, MountParts, MountVolume, Scan, ScanNext, SeekEndAny, Sized, Walk,
     CopyOut, CopyIn, Stored, ListEntries, ListTorn
<1>3. CASE UNCHANGED vars
  BY <1>3 DEF vars, virtioVars
<1>4. ASSUME NEW j \in 0 .. SectorUnits - 1, NEW x \in 0 .. SectorUnits * MaxClusters,
             PageFault(j, x)
      PROVE  FALSE
  BY <1>4 DEF PageFault
<1>5. CASE DriverStep \/ DeviceStep
  BY <1>5 DEF DriverStep, DeviceStep, Driver, Device, Publish, Notify, Poll, Take, Complete
<1> QED BY <1>1, <1>2, <1>3, <1>4, <1>5 DEF Next

\* While the driver waits, only the driver and the device move.
LEMMA BusySteps ==
    ASSUME Inv, [Next]_vars, ~Idle
    PROVE  DriverStep \/ DeviceStep \/ UNCHANGED vars
<1>1. ~Ready
  BY ReadyFacts
<1>2. \A pc : ~Resumes(pc)
  BY DEF Resumes
<1>3. ~Call
  BY <1>1 DEF Call, Open, OpenRoot, OpenBad, Close, Seek, SeekEnd, Read, Write, List
<1>4. ~Kernel
  BY <1>2 DEF Kernel, MountRead, MountParts, MountVolume, Scan, ScanNext, SeekEndAny, Sized, Walk,
     CopyOut, CopyIn, Stored, ListEntries, ListTorn
<1>5. \A j, x : ~PageFault(j, x)
  BY <1>2 DEF PageFault
<1> QED BY <1>3, <1>4, <1>5 DEF Next

\* The sector that a call writes is one of its file, among those it is to write.
LEMMA StoredInFile ==
    ASSUME NEW D, DiskOk(D), NEW f, NEW r, Placed(f, r), Waits(f, r), f.pc = "stored",
           SectorOf(f.cluster) \in DOMAIN Disk
    PROVE  /\ f.op = "write"
           /\ LET held == HeldBy(D, V, r.cluster) IN
                \E k \in DOMAIN held : held[k] = SectorOf(f.cluster) /\ k >= f.at \div SectorUnits
                                       /\ k * SectorUnits < f.at + f.want
<1>1. PICK k \in 0 .. N(r.cluster) :
        /\ Reached(f, r, k) /\ f.cluster = C(r.cluster)[k]
        /\ k = N(r.cluster) => (k # 0 => SectorOf(f.cluster) \notin DOMAIN Disk)
  BY PlacedFacts
<1>2. OnChain(r.cluster, N(r.cluster)) /\ N(r.cluster) \in Nat /\ N(r.cluster) # 0
  <2>1. IsReg(r) /\ r.cluster # 0
    BY DEF Placed, Aimed, Waits
  <2>2. OnChain(r.cluster, N(r.cluster)) /\ N(r.cluster) \in Nat
    BY <2>1, RegFacts
  <2> QED BY <2>1, <2>2 DEF OnChain
<1>3. k \in 0 .. N(r.cluster) - 1 /\ k \in Nat
  BY <1>1, <1>2
<1>4. /\ HeldBy(D, V, r.cluster) = [i \in 0 .. N(r.cluster) - 1 |-> SectorOf(C(r.cluster)[i])]
      /\ DOMAIN HeldBy(D, V, r.cluster) = 0 .. N(r.cluster) - 1
  BY <1>2, HeldIs
<1>5. HeldBy(D, V, r.cluster)[k] = SectorOf(f.cluster)
  BY <1>1, <1>3, <1>4
<1>6. /\ f.op = "write" /\ f.cfo < SectorUnits /\ f.done < f.len /\ f.len = f.want
      /\ f.at \in Nat /\ f.cfo \in Nat /\ f.done \in Nat /\ f.want \in Nat
      /\ SectorUnits \in Nat \ {0}
  BY VolumeFacts DEF Placed, Aimed, Waits, Goal, IsReg, FileSet
<1>7. PICK p \in Nat : p = SectorUnits * k /\ p = k * SectorUnits
  <2>1. SectorUnits * k \in Nat /\ SectorUnits * k = k * SectorUnits
    BY <1>3, <1>6
  <2> QED BY <2>1
<1>8. p + f.cfo = f.at + f.done
  BY <1>1, <1>7 DEF Reached
<1>9. k >= f.at \div SectorUnits
  <2>1. PICK q \in Int, b \in 0 .. SectorUnits - 1 :
          q = f.at \div SectorUnits /\ f.at = SectorUnits * q + b
    <3>1. f.at \in Int /\ SectorUnits \in Nat \ {0}
      BY <1>6
    <3>2. /\ f.at \div SectorUnits \in Int /\ f.at % SectorUnits \in 0 .. SectorUnits - 1
          /\ f.at = SectorUnits * (f.at \div SectorUnits) + (f.at % SectorUnits)
      BY <3>1, DivMod
    <3> QED BY <3>2
  <2>2. ~ (k < q)
    <3> SUFFICES ASSUME k < q PROVE FALSE
      OBVIOUS
    <3>1. SectorUnits * (k + 1) <= SectorUnits * q
      BY <1>3, <1>6, Z3
    <3>2. SectorUnits * (k + 1) = p + SectorUnits
      BY <1>3, <1>6, <1>7, Z3
    <3>3. PICK y \in Int : y = SectorUnits * q
      BY <1>6
    <3> QED BY <1>6, <1>7, <1>8, <2>1, <3>1, <3>2, <3>3
  <2> QED BY <1>3, <2>1, <2>2
<1>10. k * SectorUnits < f.at + f.want
  BY <1>6, <1>7, <1>8
<1> QED BY <1>3, <1>4, <1>5, <1>6, <1>9, <1>10

\* What the device changes.
LEMMA TransferStays ==
    ASSUME Inv, Transfer, NEW s \in DOMAIN disk, disk'[s] # disk[s]
    PROVE  \E f \in {calls[k] : k \in 1 .. Len(calls)} :
             /\ f.op = "write"
             /\ LET held == SectorsOf(file[f.fd]) IN
                  \E k \in DOMAIN held : held[k] = s /\ k >= f.at \div SectorUnits
                                         /\ k * SectorUnits < f.at + f.want
<1>1. DiskOk(disk) /\ DOMAIN disk = DOMAIN Disk
  BY DEF Inv, DiskOk
<1>2. blk.req.type = "out" /\ blk.req.sector = s
  BY <1>1 DEF Transfer
<1>3. ~Idle
  BY DEF Inv, QueueOk, Idle, Transfer
<1>4. calls # <<>> /\ CallsInv
  BY <1>3 DEF Inv, CallsInv
<1>5. blk.req = Want(top, file[top.fd], volume)
  BY <1>3, <1>4 DEF Inv, RequestInv
<1>6. ASSUME NEW f, Mounting(f) PROVE FALSE
  <2>1. top = f
    BY <1>6, Frames DEF Mounting, top
  <2>2. f.pc \in {"mbr", "parts", "header"}
    BY <1>6 DEF Mounting, MountOk
  <2>3. Want(f, file[f.fd], volume).type # "out"
    BY <2>2, WantIs DEF In, NoRequest
  <2> QED BY <1>2, <1>5, <2>1, <2>3
<1>7. PICK f, g : Under(f, g)
  BY <1>3, <1>4, <1>6, CallsCases DEF Lost
<1>8. top = f /\ volume = V
  BY <1>7, Frames DEF Under, top, Ours
<1>9. calls # <<f, g>> \/ f.pc # "stored"
  BY <1>7 DEF Under, RwFrame, Waits
<1>10. /\ calls = <<f>> /\ f.pc = "stored"
       /\ RwFrame(f, file[f.fd], disk, mem["buf"], Transferred(blk))
  <2>1. CASE calls = <<f>>
    <3>1. FrameOk(f, file[f.fd], disk, mem["buf"], Transferred(blk))
      BY <1>7, <2>1 DEF Under
    <3> QED BY <1>2, <1>5, <1>8, <2>1, <3>1, FrameWant
  <2>2. CASE calls = <<f, g>>
    <3>1. RwFrame(f, file[f.fd], disk, mem["buf"], Transferred(blk))
      BY <1>7, <2>2 DEF Under
    <3>2. f.pc = "stored"
      BY <1>2, <1>5, <1>8, <3>1, RwWant DEF RwFrame
    <3> QED BY <1>9, <2>2, <3>2
  <2> QED BY <1>7, <2>1, <2>2 DEF Under
<1>11. s = SectorOf(f.cluster)
  BY <1>2, <1>5, <1>8, <1>10, WantIs
<1>12. /\ f.op = "write"
       /\ LET held == HeldBy(disk, V, file[f.fd].cluster) IN
            \E k \in DOMAIN held : held[k] = s /\ k >= f.at \div SectorUnits
                                   /\ k * SectorUnits < f.at + f.want
  BY <1>1, <1>10, <1>11, StoredInFile DEF RwFrame
<1>13. f \in {calls[k] : k \in 1 .. Len(calls)}
  <2>1. Len(calls) = 1 /\ calls[1] = f
    BY <1>10
  <2> QED BY <2>1
<1> QED BY <1>8, <1>12, <1>13 DEF SectorsOf

\* Until a write goes astray it changes no sector but those of its file that it is to
\* write, whatever faults come between, and nothing else changes any (fat32_write).
THEOREM WritesStay == Spec => WritesStayInFile
<1> DEFINE Stays ==
      \A s \in DOMAIN disk : ~astray /\ disk'[s] # disk[s] =>
         \E f \in {calls[k] : k \in 1 .. Len(calls)} :
           /\ f.op = "write"
           /\ LET held == SectorsOf(file[f.fd]) IN
                \E k \in DOMAIN held : held[k] = s /\ k >= f.at \div SectorUnits
                                       /\ k * SectorUnits < f.at + f.want
<1>1. (astray \/ Inv) /\ [Next]_vars => Stays
  <2> SUFFICES ASSUME Inv, [Next]_vars, NEW s \in DOMAIN disk, disk'[s] # disk[s]
               PROVE  \E f \in {calls[k] : k \in 1 .. Len(calls)} :
                        /\ f.op = "write"
                        /\ LET held == SectorsOf(file[f.fd]) IN
                             \E k \in DOMAIN held : held[k] = s /\ k >= f.at \div SectorUnits
                                                    /\ k * SectorUnits < f.at + f.want
    OBVIOUS
  <2>1. Transfer
    BY DiskMoves
  <2> QED BY <2>1, TransferStays
<1>2. (astray \/ Inv) /\ [Next]_vars => [Stays]_vars
  BY <1>1
<1>3. WritesStayInFile <=> [][Stays]_vars
  BY DEF WritesStayInFile
<1> HIDE DEF Stays
<1> QED BY <1>2, <1>3, Invariance, PTL DEF Spec

\* Polling ends when the device has done all it was asked to and no sooner, also
\* when the 16-bit indexes have wrapped; then buffer and sector agree, except under a
\* call that a fault has hit (virtio_blk_cmd, virtio_blk_read_sector).  Sectors that a
\* call asks for after it has gone astray are not spoken of.
THEOREM PollingEndsInTime ==
    Spec => [][~astray /\ ~Idle /\ Idle' =>
                 /\ blk.device = "wait" /\ blk.seen = blk.avail
                 /\ Relies(top) => Served(blk.req, mem, disk)]_vars
<1> DEFINE InTime == ~astray /\ ~Idle /\ Idle' =>
                       /\ blk.device = "wait" /\ blk.seen = blk.avail
                       /\ Relies(top) => Served(blk.req, mem, disk)
<1>1. (astray \/ Inv) /\ [Next]_vars => InTime
  <2> SUFFICES ASSUME Inv, [Next]_vars, ~Idle, Idle'
               PROVE  /\ blk.device = "wait" /\ blk.seen = blk.avail
                      /\ Relies(top) => Served(blk.req, mem, disk)
    OBVIOUS
  <2>1. DriverStep \/ DeviceStep
    BY BusySteps DEF vars, virtioVars, Idle
  <2>2. Poll
    BY <2>1 DEF DriverStep, DeviceStep, Driver, Device, Publish, Notify, Notified, Take, Transfer,
       Complete, Idle, Inv, QueueOk, BlkSet
  <2>3. blk.device = "wait" /\ blk.seen = blk.avail /\ Transferred(blk)
    BY <2>2 DEF Poll, Completed, Inv, QueueOk, Transferred
  <2>4. calls # <<>>
    BY DEF Inv, CallsInv
  <2>5. blk.req = Want(top, file[top.fd], volume)
    BY <2>4 DEF Inv, RequestInv
  <2>6. Relies(top) => Served(Want(top, file[top.fd], volume), mem, disk)
    BY <2>3, <2>4 DEF Inv, RequestInv
  <2> QED BY <2>3, <2>5, <2>6
<1>2. (astray \/ Inv) /\ [Next]_vars => [InTime]_vars
  BY <1>1
<1> HIDE DEF InTime
<1>3. Spec => [][InTime]_vars
  BY <1>2, Invariance, PTL DEF Spec
<1> QED BY <1>3 DEF InTime
=============================================================================
