------------------------------- MODULE Fat32 -------------------------------
(***************************************************************************)
(* The FAT32 volume (fat32.c), found through the partition table (mbr.c)   *)
(* and read and written through the block driver (Virtio).  A call of the  *)
(* file system is a frame whose pc says what the sector it waits for is    *)
(* wanted for; every frame shares the two sector buffers, fat32_buf and    *)
(* fat32_table_buf.  No call interrupts another one, except that the copy  *)
(* between fat32_buf and a program's memory can touch a page that is not   *)
(* there: do_page_fault then reads a page of the program's file through    *)
(* the same functions and the same buffers, and the copy goes on.          *)
(*                                                                         *)
(* Names are compared in their first eight letters, so a name stands for   *)
(* those.  A cluster is one sector, which is all that the loops of fat32.c *)
(* fetch.  What the disk holds at boot is in Volume.                       *)
(***************************************************************************)
EXTENDS Virtio, Volume

CONSTANTS
    PageUnits,      \* PGSIZE in units
    RootPath,       \* "/fat32/"
    BadPath,        \* two names, or a name of twelve letters or more
    Fds,            \* descriptors of the program
    Image,          \* the descriptor its own pages are read through
    Program,        \* the name of its file
    Offsets,        \* bound: where programs seek to
    Lengths,        \* bound: how much they read or write at a time
    MaxWrites       \* bound: writes in a run

ASSUME Fat32Assumption ==
    /\ {PageUnits, MaxWrites} \cup Lengths \subseteq Nat \ {0}
    /\ Offsets \subseteq Nat
    /\ {RootPath, BadPath} \cap Paths = {} /\ RootPath # BadPath /\ Program \in Paths
    /\ Image \notin Fds

VARIABLES
    volume,     \* fat32_volume, zeroes until a partition is found
    file,       \* file[d]: fat32_file, the offset and the kind of descriptor d
    calls,      \* frames of the calls under way, the innermost first
    last,       \* history: the call that returned last
    writes,     \* history: writes begun
    astray      \* history: a call has gone to a cluster that its file has not

vars == <<virtioVars, volume, file, calls, last, writes, astray>>

NoFile == [cluster |-> 0, dir |-> 0, index |-> 0, cfo |-> 0, isdir |-> FALSE]
NoVolume == [fat |-> 0, data |-> 0]
NoResult == [op |-> "none"]

Zeroes == [kind |-> "units", units |-> [i \in 0 .. SectorUnits - 1 |-> [kind |-> "end"]]]

\* cluster_to_sector, for one sector to the cluster.
cluster_to_sector(cluster) == (cluster - 2) + volume.data

\* next_cluster: the sector of the table, and the entry taken from it.  The
\* index is taken modulo 128 as if it counted entries, but it counts bytes.
FatSector(cluster) == volume.fat + (cluster * 4) \div (4 * FatEntries)
Index(cluster) == ((cluster * 4) % FatEntries) \div 4

\* Fault: the next cluster is the next one on the disk.
next_cluster_adjacent(cluster) == cluster + 1

next_cluster(cluster) ==
    LET table == mem["tbuf"].next
    IN  IF Index(cluster) \in DOMAIN table THEN table[Index(cluster)] ELSE 0

Unit(i) == mem["buf"].units[i]

-----------------------------------------------------------------------------
(* Boot: mbr_init and partition_init.                                      *)

Frame(op, d, path, pc, f, n) ==
    [op |-> op, fd |-> d, path |-> path, pc |-> pc, cluster |-> f.cluster,
     at |-> f.cfo, cfo |-> f.cfo, want |-> n, len |-> n, done |-> 0, skip |-> 0, torn |-> FALSE,
     got |-> <<>>, was |-> <<>>]

MbrFrame == Frame("mount", Image, RootPath, "mbr", NoFile, 0)

Init ==
    /\ BlkInit /\ disk = Disk
    /\ mem = [hdr |-> Zeroes, buf |-> Zeroes,
              tbuf |-> [kind |-> "fat", next |-> <<>>], mbr |-> Zeroes]
    /\ volume = NoVolume
    /\ file = [d \in Fds \cup {Image} |-> NoFile]
    /\ calls = <<MbrFrame>>
    /\ last = NoResult /\ writes = 0 /\ astray = FALSE

top == Head(calls)

\* The innermost call can go on: nothing is left to wait for.
Resumes(pc) == calls # <<>> /\ Idle /\ top.pc = pc

\* It goes on as f and waits for a sector.
AndFetch(f, type, sector, buf) ==
    /\ calls' = <<f>> \o Tail(calls)
    /\ blk' = Posted(type, sector, buf)
    /\ last' = NoResult

MountRead ==
    /\ Resumes("mbr")
    /\ AndFetch([top EXCEPT !.pc = "parts", !.done = 1], "in", 0, "mbr")
    /\ UNCHANGED <<disk, mem, volume, file, writes, astray>>

\* The entries of type 0x83 from the i-th on.
Candidates(i) ==
    {k \in i .. Len(mem["mbr"].parts) : mem["mbr"].parts[k].type = "linux"}
Least(S) == CHOOSE x \in S : \A y \in S : x <= y

\* The loop over the partition table: is_fat32 reads over fat32_header, whether
\* the partition turns out to be one or not.
MountParts ==
    /\ Resumes("parts")
    /\ IF Candidates(top.done) = {}
       THEN calls' = <<>> /\ blk' = blk /\ last' = NoResult
       ELSE LET k == Least(Candidates(top.done)) IN
              AndFetch([top EXCEPT !.pc = "header", !.done = k + 1], "in",
                       mem["mbr"].parts[k].lba, "hdr")
    /\ UNCHANGED <<disk, mem, volume, file, writes, astray>>

\* fat32_init, for a sector with the signature (fat32_init reads it again); it
\* ends with a look at the file allocation table.
MountVolume ==
    /\ Resumes("header")
    /\ IF mem["hdr"].kind = "bpb"
       THEN LET h == mem["hdr"]
                fat == mem["mbr"].parts[top.done - 1].lba + h.rsvd
            IN  /\ volume' = [fat |-> fat, data |-> fat + h.fats * h.fatsz]
                /\ AndFetch([top EXCEPT !.pc = "parts"], "in", fat, "buf")
       ELSE /\ calls' = <<[top EXCEPT !.pc = "parts"]>>
            /\ UNCHANGED <<blk, volume, last>>
    /\ UNCHANGED <<disk, mem, file, writes, astray>>

-----------------------------------------------------------------------------
(* What the calls have in common.                                          *)

\* No call is under way, and the volume is there.  A bound: after a call that has
\* gone astray no other begins.
Ready == ~astray /\ calls = <<>> /\ volume # NoVolume

Begin(f, type, sector, buf) ==
    /\ calls' = <<f>>
    /\ blk' = Posted(type, sector, buf)
    /\ last' = NoResult
    /\ UNCHANGED <<disk, mem, volume>>

\* The innermost call returns, with r in its descriptor.
Return(f, r) ==
    /\ calls' = Tail(calls)
    /\ file' = [file EXCEPT ![f.fd] = r]
    /\ last' = [op |-> f.op, call |-> f, file |-> r]
    /\ UNCHANGED <<blk, volume, writes>>

\* The offset moves with what a call has done.
Finish(f) == Return(f, [file[f.fd] EXCEPT !.cfo = @ + f.done])

\* The loops of fat32_read, fat32_read_dir and fat32_write between two sectors:
\* walk the chain while the offset is beyond the cluster, fetch the cluster if
\* there is more to do, and return otherwise.
GoOn(f) ==
    IF f.cfo >= SectorUnits
    THEN /\ AndFetch([f EXCEPT !.pc = "walk"], "in", FatSector(f.cluster), "tbuf")
         /\ UNCHANGED <<volume, file, writes>>
    ELSE IF f.done < f.len
    THEN /\ AndFetch([f EXCEPT !.pc = "data"], "in", cluster_to_sector(f.cluster), "buf")
         /\ UNCHANGED <<volume, file, writes>>
    ELSE Finish(f)

\* The table has an entry for the cluster, where next_cluster looks for it: in
\* the first quarter of its sector.
Followed(cluster) ==
    HasNext(disk, volume, cluster) /\ cluster % FatEntries < FatEntries \div 4

\* Beyond the last cluster the mark at its end is followed like a cluster.
Walk ==
    /\ Resumes("walk")
    /\ GoOn([top EXCEPT !.cluster = next_cluster(@), !.cfo = @ - SectorUnits])
    /\ astray' = (astray \/ ~Followed(top.cluster))
    /\ UNCHANGED <<disk, mem>>

\* Units of this sector that the call is after.
Chunk(f) ==
    IF f.done + (SectorUnits - f.cfo) > f.len THEN f.len - f.done ELSE SectorUnits - f.cfo

Forward(f, n) == [f EXCEPT !.cfo = @ + n, !.done = @ + n, !.skip = 0]

-----------------------------------------------------------------------------
(* open and close.                                                         *)

\* open_dir: for a name in the root directory no sector is read.
Open(d, path, isdir) ==
    /\ Ready /\ file[d] = NoFile
    /\ LET root == [NoFile EXCEPT !.cluster = mem["hdr"].root] IN
         Begin(Frame(IF isdir THEN "opendir" ELSE "open", d, path, "scan", root, 0),
               "in", cluster_to_sector(root.cluster), "buf")
    /\ UNCHANGED <<file, writes, astray>>

\* fat32_open_dir of the root itself, and fat32_open_file, which refuses it.
OpenRoot(d, isdir) ==
    /\ Ready /\ file[d] = NoFile
    /\ file' = [file EXCEPT ![d] =
         IF isdir THEN [NoFile EXCEPT !.cluster = mem["hdr"].root, !.isdir = TRUE]
                  ELSE NoFile]
    /\ last' = NoResult
    /\ UNCHANGED <<virtioVars, volume, calls, writes, astray>>

Ends == {i \in 0 .. SectorUnits - 1 : Unit(i).kind = "end"}

\* Fault: an entry counts even when it is deleted.
HitsAnyEntry(f) ==
    {i \in 0 .. SectorUnits - 1 :
        /\ \A e \in Ends : i < e
        /\ Unit(i).kind = (IF f.op = "opendir" THEN "dir" ELSE "reg")
           \/ Unit(i).kind = "deleted"
        /\ Unit(i).name = f.path}

\* The entries of this sector that the loops of fat32_open_file and
\* fat32_open_dir stop at.  Deleted entries, long names and labels are skipped.
Hits(f) ==
    {i \in 0 .. SectorUnits - 1 :
        /\ \A e \in Ends : i < e
        /\ Unit(i).kind = (IF f.op = "opendir" THEN "dir" ELSE "reg")
        /\ Unit(i).name = f.path}

Scan ==
    /\ Resumes("scan")
    /\ IF Hits(top) # {}
       THEN LET i == Least(Hits(top)) IN
              Return(top, [cluster |-> Unit(i).cluster, dir |-> top.cluster,
                           index |-> i, cfo |-> 0, isdir |-> top.op = "opendir"])
       ELSE IF Ends # {}
       THEN Return(top, NoFile)
       ELSE /\ AndFetch([top EXCEPT !.pc = "scannext"], "in", FatSector(top.cluster), "tbuf")
            /\ UNCHANGED <<volume, file, writes>>
    /\ UNCHANGED <<disk, mem, astray>>

\* Only the mark 0x0ffffff8 is taken for the end of a chain.
ScanNext ==
    /\ Resumes("scannext")
    /\ LET c == next_cluster(top.cluster) IN
         IF c = INVALID_CLUSTER
         THEN Return(top, NoFile)
         ELSE /\ AndFetch([top EXCEPT !.pc = "scan", !.cluster = c], "in",
                          cluster_to_sector(c), "buf")
              /\ UNCHANGED <<volume, file, writes>>
    /\ LET next == NextIn(disk, volume, top.cluster)
           follows == next = INVALID_CLUSTER \/ HasNext(disk, volume, next)
       IN  astray' = (astray \/ ~Followed(top.cluster) \/ ~follows)
    /\ UNCHANGED <<disk, mem>>

Close(d) ==
    /\ Ready /\ d \in Fds /\ file[d] # NoFile
    /\ file' = [file EXCEPT ![d] = NoFile]
    /\ last' = NoResult
    /\ UNCHANGED <<virtioVars, volume, calls, writes, astray>>

-----------------------------------------------------------------------------
(* lseek, read and write.                                                  *)

\* fat32_lseek with SEEK_SET or SEEK_CUR.
Seek(d, x) ==
    /\ Ready /\ file[d] # NoFile /\ ~file[d].isdir
    /\ file' = [file EXCEPT ![d].cfo = x]
    /\ last' = NoResult
    /\ UNCHANGED <<virtioVars, volume, calls, writes, astray>>

\* SEEK_END reads the first sector of the file and takes it for a directory:
\* the offset it leaves is whatever the file, or the memory behind the buffer,
\* happens to hold there.
SeekEnd(d) ==
    /\ Ready /\ file[d] # NoFile /\ ~file[d].isdir
    /\ Begin(Frame("end", d, RootPath, "end", file[d], 0), "in",
             cluster_to_sector(file[d].cluster), "buf")
    /\ astray' = (file[d].cluster = 0)
    /\ UNCHANGED <<file, writes>>

SeekEndAny ==
    /\ Resumes("end")
    /\ \E x \in Offsets : Return(top, [file[top.fd] EXCEPT !.cfo = x])
    /\ UNCHANGED <<disk, mem, astray>>

\* What file r holds, its clusters taken one after the other as the table on
\* the disk links them (history, and the reference of the properties).
SectorsOf(r) == HeldBy(disk, volume, r.cluster)
Content(r) == UnitsIn(disk, SectorsOf(r))

SizeOf(r) == disk[cluster_to_sector(r.dir)].units[r.index].size

\* fat32_read and fat32_write begin with the sector that has the file's entry.
Read(d, n) ==
    /\ Ready /\ file[d] # NoFile /\ ~file[d].isdir
    /\ Begin(Frame("read", d, RootPath, "size", file[d], n), "in",
             cluster_to_sector(file[d].dir), "buf")
    /\ UNCHANGED <<file, writes, astray>>

\* The cluster 0 of an empty file is taken for a sector of the table.
Write(d, n) ==
    /\ Ready /\ d \in Fds /\ file[d] # NoFile /\ ~file[d].isdir
    /\ writes < MaxWrites
    /\ Begin([Frame("write", d, RootPath, "size", file[d], n)
                EXCEPT !.was = Content(file[d])], "in",
             cluster_to_sector(file[d].dir), "buf")
    /\ writes' = writes + 1
    /\ astray' = (file[d].cluster = 0)
    /\ UNCHANGED file

\* Fault: the length is compared with the size, not with what is left.
CutLenOnly(f, size) == IF f.len > size THEN size ELSE f.len

\* Only a write is not cut at the end of the file.
Cut(f, size) == IF f.op # "write" /\ f.cfo + f.len > size THEN size - f.cfo ELSE f.len

\* From past the end of the file the length wraps around, and the loop runs on
\* over the memory of the program: such a call is lost.
Sized ==
    /\ Resumes("size")
    /\ LET size == Unit(file[top.fd].index).size
           n == Cut(top, size)
           f == [top EXCEPT !.len = n]
       IN  IF top.op = "read" /\ top.at > size
           THEN /\ calls' = <<[top EXCEPT !.pc = "lost"]>> \o Tail(calls)
                /\ last' = NoResult
                /\ UNCHANGED <<blk, volume, file, writes>>
           ELSE IF n = 0 THEN Finish(f) ELSE GoOn(f)
    /\ UNCHANGED <<disk, mem, astray>>

\* The memcpy of a read, from unit skip of the chunk on, once nothing in the
\* program's pages is missing.
CopyOut ==
    /\ Resumes("data") /\ top.op = "read"
    /\ LET n == Chunk(top)
           rest == [i \in 1 .. n - top.skip |-> Unit(top.cfo + top.skip + i - 1)]
       IN  GoOn(Forward([top EXCEPT !.got = @ \o rest], n))
    /\ UNCHANGED <<disk, mem, astray>>

\* The units that a program writes.
User(i) == [kind |-> "data", of |-> "user", at |-> i]

\* Fault: every chunk is copied from the beginning of the program's buffer.
PatchedFromStart(f, from, upto) ==
    [mem EXCEPT !["buf"] = [kind |-> "units", units |-> [i \in 0 .. SectorUnits - 1 |->
        IF i >= f.cfo + from /\ i < f.cfo + upto THEN User(i - f.cfo) ELSE Unit(i)]]]

\* fat32_buf after units from .. upto - 1 of the chunk have been copied to it.
Patched(f, from, upto) ==
    [mem EXCEPT !["buf"] = [kind |-> "units", units |-> [i \in 0 .. SectorUnits - 1 |->
        IF i >= f.cfo + from /\ i < f.cfo + upto THEN User(f.done + i - f.cfo) ELSE Unit(i)]]]

\* The store of a call that has gone astray can be over the table or another
\* part of the disk that is no file's; a call that does so is not followed after
\* that store.
Spoils(sector) == sector \in DOMAIN disk /\ disk[sector].kind # "units"

CopyIn ==
    /\ Resumes("data") /\ top.op = "write"
    /\ mem' = Patched(top, top.skip, Chunk(top))
    /\ LET sector == cluster_to_sector(top.cluster) IN
         AndFetch([top EXCEPT !.pc = IF Spoils(sector) THEN "lost" ELSE "stored"],
                  "out", sector, "buf")
    /\ UNCHANGED <<disk, volume, file, writes, astray>>

Stored ==
    /\ Resumes("stored")
    /\ GoOn(Forward(top, Chunk(top)))
    /\ UNCHANGED <<disk, mem, astray>>

-----------------------------------------------------------------------------
(* getdents64: fat32_read_dir, into a buffer of one sector of entries.     *)

\* A directory's own size is 512 bytes for the root (at its end nothing is
\* read), and otherwise what its entry says, which is 0.
List(d) ==
    /\ Ready /\ file[d] # NoFile /\ file[d].isdir
    /\ IF file[d].dir # 0
       THEN Begin(Frame("list", d, RootPath, "size", file[d], SectorUnits), "in",
                  cluster_to_sector(file[d].dir), "buf")
       ELSE /\ file[d].cfo < SectorUnits
            /\ Begin(Frame("list", d, RootPath, "data", file[d], SectorUnits - file[d].cfo),
                     "in", cluster_to_sector(file[d].cluster), "buf")
    /\ UNCHANGED <<file, writes, astray>>

\* Fault: long names and labels are listed too.
ShownAll(e) == e.kind # "deleted"

Shown(e) == e.kind \in {"reg", "dir"}

\* The entries that make it into the buffer of the program.
Dirents(s) ==
    LET upto[i \in 0 .. Len(s)] ==
          IF i = 0 THEN <<>>
          ELSE IF Shown(s[i]) THEN Append(upto[i - 1], s[i]) ELSE upto[i - 1]
    IN  upto[Len(s)]

\* The entries of this sector up to the end of the directory.
EndFrom(i) == {e \in Ends : e >= i}
Upto(f) == IF EndFrom(f.cfo) = {} THEN Chunk(f) ELSE Least(EndFrom(f.cfo)) - f.cfo
Seen(f, n) == [i \in 1 .. n |-> Unit(f.cfo + i - 1)]

ListEntries ==
    /\ Resumes("data") /\ top.op = "list" /\ ~top.torn
    /\ LET n == Upto(top)
           f == Forward([top EXCEPT !.got = Dirents(Seen(top, n))], n)
       IN  IF EndFrom(top.cfo) = {} THEN GoOn(f) ELSE Finish(f)
    /\ UNCHANGED <<disk, mem, astray>>

\* After a fault the entry whose place was missing is listed, and for the others
\* the loop takes a page of the program's file.  What that looks like, and where
\* the directory seems to end in it, is left open.
ListTorn ==
    /\ Resumes("data") /\ top.op = "list" /\ top.torn
    /\ \E n \in top.skip + 1 .. Chunk(top) :
         LET f == Forward(top, n) IN IF n < Chunk(top) THEN Finish(f) ELSE GoOn(f)
    /\ UNCHANGED <<disk, mem, astray>>

-----------------------------------------------------------------------------
(* Page faults.                                                            *)

\* The memory of the program is touched for unit j of the chunk: for all of
\* them in a copy, and for an entry that is listed in getdents64.
Touches(f, j) ==
    /\ j < Chunk(f)
    /\ f.op = "list" => j < Upto(f) /\ Shown(Unit(f.cfo + j))

\* What the call has given to the program before that.
GivenBefore(f, j) ==
    CASE f.op = "read" -> f.got \o Seen(f, j)
      [] f.op = "list" -> Dirents(Seen(f, j))
      [] OTHER -> f.got

\* A page is not there and is read from the program's file, where it is at x:
\* do_page_fault seeks and reads.
PageFault(j, x) ==
    /\ Resumes("data") /\ Len(calls) = 1 /\ ~top.torn /\ Touches(top, j)
    /\ file[Image] # NoFile
    /\ x % PageUnits = 0 /\ x < SizeOf(file[Image])
    /\ LET image == [file[Image] EXCEPT !.cfo = x]
           f == [top EXCEPT !.got = GivenBefore(top, j), !.skip = j, !.torn = TRUE]
       IN  /\ file' = [file EXCEPT ![Image] = image]
           /\ calls' = <<Frame("read", Image, RootPath, "size", image, PageUnits), f>>
           /\ blk' = Posted("in", cluster_to_sector(image.dir), "buf")
           /\ last' = NoResult
    /\ mem' = IF top.op = "write" THEN Patched(top, 0, j) ELSE mem
    /\ UNCHANGED <<disk, volume, writes, astray>>

-----------------------------------------------------------------------------
\* What open does not come back from, or comes back from over a smashed stack.
\* parse_dirname copies a name to twelve bytes of the stack of open_dir whatever
\* its length.  In a path of two names it takes the length of a name from a slash
\* counted from the name and an index counted from the path: that of the first
\* name is negative below seven letters; of seven, the path is taken for the root
\* (OpenRoot); of more, the loop over the directories looks for its first
\* letters, and finds no file or goes on to the second name, whose length is
\* negative.
OpenBad(d, isdir) ==
    /\ Ready /\ file[d] = NoFile
    /\ calls' = <<Frame(IF isdir THEN "opendir" ELSE "open", d, BadPath, "lost", NoFile, 0)>>
    /\ last' = NoResult
    /\ UNCHANGED <<virtioVars, volume, file, writes, astray>>

Call ==
    \/ \E d \in Fds : \/ \E path \in Paths, isdir \in BOOLEAN : Open(d, path, isdir)
                      \/ \E isdir \in BOOLEAN : OpenRoot(d, isdir) \/ OpenBad(d, isdir)
                      \/ Close(d)
                      \/ \E x \in Offsets : Seek(d, x)
                      \/ SeekEnd(d)
                      \/ \E n \in Lengths : Read(d, n) \/ Write(d, n)
                      \/ List(d)
    \/ Open(Image, Program, FALSE)      \* do_execve

\* Steps of a call that is under way.
Kernel ==
    \/ MountRead \/ MountParts \/ MountVolume
    \/ Scan \/ ScanNext \/ SeekEndAny \/ Sized \/ Walk
    \/ CopyOut \/ CopyIn \/ Stored \/ ListEntries \/ ListTorn

DriverStep == Driver /\ UNCHANGED <<volume, file, calls, last, writes, astray>>
DeviceStep == Device /\ UNCHANGED <<volume, file, calls, last, writes, astray>>

Next ==
    \/ Call \/ Kernel
    \/ \E j \in 0 .. SectorUnits - 1, x \in 0 .. SectorUnits * MaxClusters : PageFault(j, x)
    \/ DriverStep \/ DeviceStep

\* The kernel and its polling loop have the processor, and the device serves
\* what it is asked to.
Fairness == WF_vars(Kernel) /\ WF_vars(DriverStep) /\ WF_vars(DeviceStep)

Spec == Init /\ [][Next]_vars
FairSpec == Spec /\ Fairness

-----------------------------------------------------------------------------
(* Properties.                                                             *)

\* The call that returned last has stayed in its file, and no fault has hit it.
Returned(op) == last.op = op /\ ~last.call.torn /\ ~astray

\* A read gives the units of the file from the offset on, up to what was asked
\* for or the end of the file, across clusters, and moves the offset by that;
\* pages of programs that a fault in the middle of another call reads included.
\* Left out are a read that such a fault has hit itself, which goes on copying
\* from the sector that the fault has left in fat32_buf (fat32.c:302), and one
\* that follows the links of a cluster that next_cluster mistakes (fat32.c:28).
ReadsExact ==
    Returned("read") =>
        LET f == last.call
            n == Least({f.want, SizeOf(last.file) - f.at})
        IN  /\ f.got = [i \in 1 .. n |-> Content(last.file)[f.at + i - 1]]
            /\ last.file.cfo = f.at + n

\* After a write that no fault has hit and that has not gone astray, the file
\* holds what was written from the offset on, as far as its clusters go, and
\* elsewhere what it held before.
WritesExact ==
    Returned("write") =>
        LET f == last.call IN
          Content(last.file) =
            [i \in DOMAIN f.was |->
               IF i \in f.at .. f.at + f.want - 1 THEN User(i - f.at) ELSE f.was[i]]

\* While no write has gone astray, no step changes a sector of the disk but one
\* that holds a part of the file that a write under way is after, whatever faults
\* come between: tables, directories and other files stay.  fat32_write does go
\* astray: more than a cluster beyond the last one, beyond a cluster whose link
\* next_cluster mistakes, and in an empty file.
WritesStayInFile ==
    [][\A s \in DOMAIN disk : ~astray /\ disk'[s] # disk[s] =>
         \E f \in {calls[k] : k \in 1 .. Len(calls)} :
           /\ f.op = "write"
           /\ LET held == SectorsOf(file[f.fd]) IN
                \E k \in DOMAIN held : held[k] = s /\ k >= f.at \div SectorUnits
                                       /\ k * SectorUnits < f.at + f.want
      ]_vars

\* The entries of a directory in the order of its clusters, up to its end.
Entries(cluster) ==
    LET held == UnitsIn(disk, HeldBy(disk, volume, cluster))
        all == [i \in 1 .. Cardinality(DOMAIN held) |-> held[i - 1]]
        ends == {i \in DOMAIN all : all[i].kind = "end"}
    IN  IF ends = {} THEN all ELSE SubSeq(all, 1, Least(ends) - 1)

Named(path, kind) ==
    {i \in DOMAIN Entries(mem["hdr"].root) :
        LET e == Entries(mem["hdr"].root)[i] IN e.kind = kind /\ e.name = path}

\* open finds the first live entry of the asked kind and name, in whichever
\* cluster of the directory it is, or gives no file, which file_open reports;
\* unless next_cluster mistakes a link of the directory, or the directory ends
\* without an entry that says so and by another mark than 0x0ffffff8.
OpenFinds ==
    ~astray /\ last.op \in {"open", "opendir"} =>
        LET kind == IF last.op = "open" THEN "reg" ELSE "dir"
            found == Named(last.call.path, kind)
        IN  IF found = {} THEN last.file = NoFile
            ELSE LET e == Entries(mem["hdr"].root)[Least(found)] IN
                   /\ last.file.cluster = e.cluster
                   /\ last.file.cfo = 0
                   /\ disk[cluster_to_sector(last.file.dir)].units[last.file.index] = e

\* What a first getdents64 of the root directory lists can be opened, and all
\* that can be opened by an entry of its first sector is listed, unless a fault
\* has hit it: it goes on with what the fault has left in fat32_buf (fat32.c:362).
ListsWhatOpens ==
    Returned("list") /\ last.file.dir = 0 /\ last.call.at = 0 =>
        {<<e.name, e.kind>> : e \in {last.call.got[i] : i \in DOMAIN last.call.got}}
          = {x \in Paths \X {"reg", "dir"} :
               \E i \in Named(x[1], x[2]) : i <= SectorUnits}

\* Every call comes back once the device has served each of its sectors, but for
\* the reads from past the end of a file, the paths that open does not survive,
\* and calls that go astray.
Returnable(f) ==
    f.path # BadPath /\ (f.op = "read" => f.at <= SizeOf(file[f.fd]))
CallReturns ==
    calls # <<>> /\ ~astray /\ Returnable(calls[Len(calls)]) ~> calls = <<>> \/ astray

TypeOK ==
    /\ blk.driver \in {"idle", "built", "notify", "poll"}
    /\ blk.device \in {"wait", "busy", "done"}
    /\ blk.avail \in 0 .. IdxMod - 1 /\ blk.seen \in 0 .. IdxMod - 1
    /\ blk.used \in 0 .. IdxMod - 1
    /\ DOMAIN disk = DOMAIN Disk
    /\ mem["tbuf"].kind = "fat"
    /\ DOMAIN file = Fds \cup {Image}
    /\ \A d \in DOMAIN file : file[d].cfo \in Nat
    /\ Len(calls) <= 2
    /\ writes \in 0 .. MaxWrites /\ astray \in BOOLEAN
=============================================================================
