# A verification of the kernel in TLA+

This directory is kept beside the RISC-V teaching kernel of this repository. It
holds TLA+ modules that model the kernel and the C library and heap of its
programs, TLC configurations that check them on small instances, and proofs that
TLAPS checks for every value of the constants. Paths below are relative to `src/`.

To repeat the work: `tlc -config Proc.cfg Proc.tla` (every run names its module and
cfg in `PROJECT.json`), `tlapm ProcProofs.tla` and the same for `CowProofs`,
`TrapProofs`, `BuddyProofs`, `FdProofs`, `MallocProofs`, `VmaProofs` and `Fat32Proofs`
for the proofs.

Contents: 1 the system, 2 the modules, 3 what the runs check, 4 what is proved,
5 what the code does not do, 6 what is not modelled, 7 the plan.

## 1. The system

One hart boots `start_kernel`, sets up memory, the task table, the disk and the
clock, and runs one embedded user program as task 1. From then on the kernel
runs only in traps: timer interrupts, page faults and system calls. Inside the
kernel interrupts are off, so a handler is atomic up to the point where it calls
`schedule()` or touches a page of its caller that is not there; a task is suspended
nowhere but in `__switch_to`. Concurrency is what user programs and the timer make
of that: any task may run between two instructions of another, and between a call
of `schedule()` and its return. Beside the hart runs the disk.

| component | code | state it keeps | operations |
|---|---|---|---|
| process core | `arch/riscv/kernel/proc.c` | `task[]`, `current`, `num_tasks`; of each task its state, father, `cpid[]`, priority, counter; `wait_queue[]` | `task_init`, `schedule`, `do_timer`, `do_fork`, `do_wait`, `do_exit`, `wake_up_process` |
| signals | `signal.c` | `signal_struct`: pending bits | `signal_init`, `do_kill`, `signal_handler`, `sigchld_handler` |
| traps | `entry.S`, `trap.c` | registers, frames on the kernel stacks, `sscratch`, `thread_struct` | `_traps`, `trap_handler`, `ret_from_fork`, `__switch_to`, `__dummy` |
| user memory | `trap.c`, `vm.c`, `proc.c` | page tables, the bits W and S of an entry, the TLB | `do_page_fault`, `create_mapping`, `remove_mapping`, `copy_mapping`, `delete_mapping`, the copying of a page table in `do_fork` |
| memory areas | `proc.c` | `mm_struct`: a sorted list of areas in slots, a list of free slots | `find_vma`, `do_mmap`, `do_munmap`, `remove_vma`, `copy_mm` |
| page allocator | `mm.c` | the tree `bitmap[]`, `ref_cnt[]` | `alloc_pages`, `free_pages`, `ref_page`, `deref_page` |
| descriptors | `fs/fs.c`, `ksyscalls.c` | `fd_array[16]` of every task: opened, permissions, offset, file | `open`, `close`, `read`, `write`, `lseek`; reopening in `do_fork`; `do_execve` |
| FAT32 | `fs/fat32.c`, `fs/mbr.c` | the volume, one sector buffer for everybody | mounting, lookup, cluster chains, read, write, lseek, getdents64 |
| disk | `fs/virtio.c` | one virtqueue, one request | `virtio_blk_read_sector`, `virtio_blk_write_sector` |
| user heap | `user/src/malloc.c` | slabs, available and used, of each size | `malloc`, `free` |
| formatted I/O | `lib/vfprintf.c`, `lib/vfscanf.c` | the locals of one call | `vfprintf`, `vfscanf` |
| the rest | strings, division, console, SBI, clock, boot code, shell | none that concerns others | |

How they interact. A trap enters through `_traps`, is dispatched by
`trap_handler` and leaves through `signal_handler`, which may reap a child and
call `schedule()`. `do_fork` touches every component: it takes a slot of
`task[]`, opens the father's files again, copies the areas, shares the pages by
raising `ref_cnt` and taking W from both page tables, and shares the
`signal_struct` because the pointer is copied with the rest of the task.
`do_exit` undoes these one by one, hands its children to task 1, sends SIGCHLD
and wakes a father that waits. `do_page_fault` reads a page of a program through
the descriptor that `do_execve` opened, and through the one sector buffer of
`fat32.c`, which a read or write that has faulted is still using.

What is hard in this code, and which properties are about it, is listed line by
line under "hazards" in `PROJECT.json`. The main groups:

* the order of exit, waitpid, reaping and reuse of a slot, with `cpid[]` lists
  that are never cleaned of the reaped;
* traps in the kernel: frames below live frames, `sscratch` as the only mark of
  where the trap came from, contexts copied by fork with the page they lie in;
* the order of faults, stores, forks, unmappings and exits of processes that
  share a page, with translations cached from before;
* lists in slots that munmap cuts while it walks them, and copies of them;
* sequences of splits and joins in the buddy tree, and who holds a reference;
* sectors that are fetched into a buffer that another call needs, and a device
  that may be done before the driver looks;
* slabs that move between two lists, found again from an address alone;
* the corners of formats: every flag, width, precision and length with every value;
* tables without a bound: `task[]`, `cpid[]`, the slots for areas, the pool;
* structures filled half: `free_vma_list` of a child, a failed `open`, `execve`.

What makes each component correct: the process core, that every task has a live
father that knows it, that the CPU goes to tasks that may run and reaches all of
them, that the dead stay dead and waiters are woken; traps, that a program goes on
as it was interrupted and no frame is overwritten; user memory, that processes
cannot tell frames are shared; the allocator, that blocks in use never overlap
and free memory is found; areas, that the list of slots and the page table are
the mappings that the program asked for; descriptors and FAT32, that a read returns
the bytes of the file at the offset of this descriptor and a write that keeps to the
clusters of its file changes nothing else; the heap, that blocks in use never overlap;
formatted I/O, that it prints and reads what C says.

## 2. The modules

| module | what it is |
|---|---|
| `Proc` | process core, SIGCHLD, the trap paths that call them |
| `ProcTree` | abstract: live and dead processes and their fathers; implemented by `Proc` |
| `ProcProofs` | the theorems about `Proc` |
| `Trap`, `MCTrap` | registers, kernel stacks and contexts through traps, switches, fork, execve and exit |
| `TrapProofs` | the theorems about `Trap` |
| `Cow`, `MCCow` | user memory: areas over a page, page table entries, frames, reference counts, contents, TLB |
| `CowProofs` | the theorems about `Cow` |
| `PrivateMem` | abstract: every process has pages of its own; implemented by `Cow` |
| `PageTable` | the three levels of a page table as operators; used by `Vma` |
| `Vma`, `MCVma` | the slots and lists of `mm_struct`, and the page table that follows them |
| `VmaProofs` | the theorems about `PageTable` and `Vma` |
| `AddressSpace` | abstract: layers of areas over addresses, memory behind some pages; implemented by `Vma` |
| `Buddy` | the page allocator and its reference counts |
| `PageAlloc` | abstract: blocks that never overlap, with reference counts; implemented by `Buddy` |
| `BuddyProofs` | the theorems about `Buddy` |
| `FdTable`, `MCFdTable` | descriptor tables, the calls on them, and what fork, execve, page faults and exit do to them |
| `Descriptors` | abstract: every process has descriptors with a file, rights and an offset; implemented by `FdTable` |
| `FdProofs` | the theorems about `FdTable` |
| `Virtio` | the block driver and the disk as processes; composed into `Fat32` |
| `Volume` | what a disk holds at boot: partitions, tables, directory entries, chains of clusters; no variables |
| `Fat32`, `MCFat32` | the partition table, the volume, its calls and its shared buffers, over `Virtio` and a `Volume` |
| `Fat32Proofs` | the theorems about `Fat32` over `Virtio` |
| `Malloc` | the slab allocator of user programs |
| `Heap` | abstract: blocks that are their owner's alone; implemented by `Malloc` |
| `MallocProofs` | the theorems about `Malloc` |
| `Printf`, `Scanf`, `MCStdio` | `vfprintf` and `vfscanf`, each beside a reference written from the C rules |

The `MC` modules give instances: symmetries TLC may use, disks, formats, sizes.

### Proc

A state variable per field: `state`, `fpid`, `cpid`, `priority`, `counter`,
`signal` are those of `task[p]` (state `"NULL"` when `task[p]` is NULL), `valid`
and `mask` those of `wait_queue[p]`. `signal[p]` names the page of the
`signal_struct`, since fork makes tasks share one, and `pending` is the SIGCHLD
bit in that page. `pc[p]` is `"user"`, or the trap `p` still has to return from.

| action | code |
|---|---|
| `Boot` | `start_kernel` calls `schedule()` for the only time as task 0 |
| `Timer` | timer interrupt: `do_timer`, and `schedule()` when the slice is used up |
| `OtherTrap` | page faults and system calls that leave this state alone, `execve` among them |
| `Fork`, `ForkPastTable`, `ForkPastCpid` | `do_fork`; the last two are the writes past `task[]` and past the page of `cpid[]` |
| `Wait` | `sys_waitpid`, `do_wait` |
| `Exit`, `ExitAdoptsSelf`, `ExitNullChild`, `ExitPastCpid`, `ExitNullSignal` | `do_exit` and the ways in which it goes wrong |
| `SignalNone`, `SigchldNothing`, `SigchldReap` | `signal_handler` on the way back to user mode |

`Schedule(st, pr, cnt)` is `schedule()` with the fields its caller has just
assigned; it is part of the caller's action, as in the code. After a memory
error the machine stops (`halt`), because what follows is undefined; the fields
of a reaped task are set to fixed values, because nothing reads them before the
slot is used again. SIGINT and SIGSTOP are never sent (there is no kill system
call) and have no action. A list of children ends at the first 0 of its page
(`signal.c:50`). `task_init` clears the page of idle in place of that of task 1
(`proc.c:126`), so the list of task 1 ends where it should only because the page is
memory that nothing has used since the machine started; it is taken to hold zeroes.

### Trap

`hart` holds the registers, `thread[p]` the saved context, `stack[p]` the page of a
task counted in cells from its end: a trap frame or the frame of a C function each.
A value is a token of the code that it belongs to (`Values` for programs, the task
itself for the kernel code that runs for it, `Nested` for a handler inside that
code), so that a register that comes back from the wrong place is seen. The cells
that have been popped are blanked. `frames` is a history variable: the cells each
task has still to return through; `program` another: what each program's registers
should be.

| action | code |
|---|---|
| `UserTrap`, `NestedFault`, `Leave` | `_traps` down to the call of `trap_handler` and from the return of `signal_handler` on; a trap from a program, and a page fault of a system call |
| `Schedule`, `ScheduleSame`, `Dummy` | `__switch_to`, its return at once, `__dummy` |
| `SignalNone`, `SignalReap`, `SignalReapNested` | `signal_handler` with nothing to do, with a child to free, and with one inside a system call |
| `Handled`, `TimerSchedules`, `Ecall`, `Touch`, `TouchDeeper`, `Finish`, `Wait`, `Return` | the handlers, as far as they use the frame or the stack |
| `Fork`, `Execve`, `Exit` | `do_fork`, `do_execve`, `do_exit` |

When two children have exited and SIGCHLD is pending while a system call faults,
`signal_handler` runs inside the call and writes a0 and a1 of the kernel's own code
(`signal.c:55`): `SignalReapNested` stops there, as what follows has no defined
behaviour. (If it went on and switched away, `thread.sstatus` would keep the bit SPP
of that frame, and the child of a later fork would start in supervisor mode,
`proc.c:402`.) On the way back into the kernel `sscratch` keeps the stack pointer
(`entry.S:110`), so the next fault of the call puts its frame there and not below
the frames of the moment; this is safe because no call touches user memory from
deeper than its first fault (`get_fs_type`, then `file_open`), which `TouchDeeper`
and `Touch` follow. All tasks share one SIGCHLD bit, that of task 1, as they do in
the kernel. Any runnable task may be scheduled next, and a handler of SIGCHLD may find
any dead task in the list of its task, or none; `Proc` says which. SUM, satp,
stval and scause are left out.

### Cow

`area[p][v]` is the list of the areas of process `p` over page `v`, in the order
`find_vma` meets them, each with its right to write; an area is one page long.
`frame`, `writable`, `shared` are the page table entry, `ref` is `ref_cnt` of
frames of user pages, `tlb` the translations the hart may use. `Load` and `Store`
are the hart; `PageIn`, `CopyOnWrite`, `TakeOver`, `FaultInVain`, `OutOfMemory`
are the branches of `do_page_fault`; `Fork`, `Mmap`, `Munmap`, `Execve`, `Exit`
the memory part of the system calls; `Switch` is `__switch_to`. A fault that
changes nothing and happens again is a stuttering step. A translation may be
evicted at any time, so a walk of the table is always possible and eviction needs
no step; `Munmap` does not flush, so stale translations stay until the next flush.
`walked` has the pages whose page tables exist. `remove_mapping` makes the missing
ones (`RemoveMapping`, the frames `T`), in munmap without a flush behind it: such a
table may lie in the frame of a page unmapped just before, which the program can still
write. `StoreToTable` is that store; the model halts there, because a program that has
written its own page table can reach anything. Other pages the kernel takes for itself
are either flushed for before a program runs on, or never used (see 5): they only make
the pool smaller and are left out. An allocation for a user page or a table of
`remove_mapping` that fails is `OutOfMemory`, the shutdown in `buddy_alloc`.

### PageTable and Vma

A page table is a value: a function from `RADIX` indices to entries, at three
levels. `create_mapping` and the others return the new table. `Wild` is an entry of a
page that was never cleared. `Vma` follows one process, and after a fork either the
parent or the child; `mm` is its `mm_struct` with the links of all slots, `pgd` its
table. `Mmap`, `Munmap`, `PageFault`, `Fork`, `Execve`, `Exit`, `Reap` are the
operations. `do_munmap` is `Affected`, its walk over links that it changes as it goes,
with `Cut` for what it does to one area, and `CutAll`. Loops are recursive functions over
a number of rounds that is never reached, since proofs cannot use RECURSIVE operators.
What `free_vma_list` and the links of a child hold is `Wild` or NULL, whatever its page
held before; following it, or NULL when all slots are taken, ends the behaviour
(`mm.fault`).

### Buddy

`bitmap` is the array of the code, node by node; `Alloc` descends and updates
the ancestors as `buddy_alloc` does, `BitmapOnFree` climbs and joins as
`buddy_free`. `boot` counts down the pages of the kernel image that `buddy_init`
allocates one by one. Sizes are powers of two up to 2^30 pages (`Powers`),
four terabytes; up to there `fixsize` returns the next power. `given_back` is a history
variable: the pages the kernel has passed to `free_pages`, which it may pass again (tasks
share a `signal_struct`) but does not dereference. Only pages with one reference are
passed, and then `free_pages` does nothing; that the kernel passes no free page is a
guard of `FreePages`, read off its callers, and not something the model shows. The RAM
that holds `ref_cnt[]` is taken to be zero at boot, as `buddy_init` does.

### FdTable

`fd[t][i]` is `fd_array[i]` of the `files_struct` on page `t`: `opened`, the rights
(`flags`), the offset `cfo`, the `path` kept for fork, `on` for the cluster that
`fat32_open_file` found (`None` for 0), and `ops`, whether the three function
pointers were set. `files[p]` is `task[p]->files`, `fresh` the pages that were never
a table: `free_pages` leaves an exited process's table as it is and nothing takes it
again (see 5), so `Exit` adds nothing to `fresh`. `image[p]` is the `vm_file` of the
areas of the program that `p` runs, a descriptor of the process that executed it,
which fork copies as a pointer. `held` and `program` are history variables: what open
has given to the program and it has not closed, and the file it has executed.

| action | code |
|---|---|
| `Open`, `Close`, `Lseek`, `Read`, `Write` | the system calls, with `file_open` and the offsets of `fat32_lseek`, `fat32_read`, `fat32_write` |
| `Breaks` | a read from beyond the end or a write beyond the clusters, whose loops run on over other sectors |
| `Execve`, `ExecveNoProgram`, `ExecveNoFile` | `do_execve`, which keeps the descriptor, closes it, or loses it |
| `Fault` | `do_page_fault` on a page of a program: lseek and read through `image[p]` |
| `Fork`, `Exit` | the descriptors in `do_fork` and `do_exit` |

A program that closes a number it did not get from open can close the descriptor that
its own pages are read through; programs are taken not to.

### Virtio and Fat32

`blk` is the queue, the request and the places where driver and device are. The driver
publishes a request, notifies the device and polls; the device (`Take`, `Transfer`,
`Complete`, external) may have served the request before the first poll. The used
index is read at each turn of the loop, as the build does (`-Og`, `Makefile:15`);
nothing declares it volatile. The rings are taken to be zero at boot.

`Volume` is what `fat32.c` relies on of the disk it boots from, for any disk: the
partition that is mounted, its header and where its table and clusters are (`Mounted`,
`Header`, `Geometry`), the table's entry of a cluster, wherever on the volume it is
(`HasNext`, `NextIn`), and what directory entries and chains look like (`EntryOk`,
`IsChain`, `IsRoot`). `Clusters` follows a chain; the properties use it for what a file
holds.

A call of the file system is a frame of `calls` with a `pc` for what it wants the
sector it waits for: `MountRead`, `MountParts`, `MountVolume` follow `mbr_init`;
`Open`, `OpenRoot`, `ScanNext` the lookup; `Read`, `Write`, `Walk`, `CopyOut`,
`CopyIn`, `Stored`, `Finish` the loops of `fat32_read` and `fat32_write`; `List`,
`ListEntries` `fat32_read_dir`. `PageFault` interrupts a copy between `fat32_buf` and
a program's page, or a listing into one, reads a page of the program through the same
buffers, and lets the call go on; a listing then takes that page for the directory
(`ListTorn`). A unit is 32 bytes of a file or a directory entry, a cluster one sector,
a name its first eight letters. `SeekEndAny` is what lseek from the end does: it takes
the size from an entry of the directory that depends on the size of the file
(`fat32.c:265`), so it may leave any offset.

Two calls stay in `calls` with the pc `lost`, for they do not come back: a read from
past the end of the file, whose length wraps around (`fat32.c:285`, `Sized`), and the
open of a path of two names or of a name of twelve letters or more, for which
`parse_dirname` writes past the twelve bytes it has on the stack (`fat32.c:77`, `81`,
`OpenBad`).

`next_cluster` finds the entry of a cluster only in the first quarter of each sector of
the table (`Followed`): its index counts bytes and is taken modulo 128 (`fat32.c:28`).
Nor does any loop look at the mark that ends a chain, and an empty file has the cluster
0, two sectors before the data (`fat32.c:404`). `Walk`, `ScanNext`, `SeekEnd` and
`Write` therefore go where the code goes, and note in `astray` that a call has taken a
link that the table does not have or a cluster that the file does not have. Such a call
runs on, reads and stores included, until it ends or stores over a sector of the table
or another one that is no file's (`Spoils`); no call begins after it.

### Malloc

`slabs` are the slabs in the order of their addresses, each with its class, count and
free blocks; `prev`, `next`, `used_slab`, `avail_slab` the two lists of each class.
`malloc` and `free` are one action each, with `inflate_heap`, `alloc_slab` and
`free_block`. The store through a NULL list head (`malloc.c:192`, `143`, `164`) goes to
address 32, the ELF header in the program's first page, and to nothing of the heap.
The class of a block is found again by `get_block_idx` from the size of its blocks,
which for slabs of 1, 2 and 4 MiB gives another class (`UNIT_SIZE_SLAB`, see 5).
`SizesAssumption` has the sizes that `malloc.c:213` supports, up to 8 MiB; the run
`malloc` takes sizes without that quirk. `malloc(0)` is
left out. `LayoutAssumption` has the sizes that the build gives a
page, a `slab` and an `mblock`. The check of `free_block` (`!avail_slab->unit_count`, `malloc.c:158`) loses
one block of the count of a full slab; `CountIsBacked` allows that drift.

### Printf and Scanf

A format is a sequence of texts and directives, an argument the bits of a slot of the
`va_list`. `Printf` runs `printf_core` item by item, over the format twice, with
`states`, `pop_arg`, `getint`, `pad` and the conversions as operators; it checks the
characters written against `PrintsWhatCSays`, a definition of what C prints. Integers
have 2, 3, 5 and 8 bits for `char`, `short`, `int` and `long`, so that every overflow
happens. Left out are formats that mix named and unnamed arguments,
the least `int` as a width, numbers in a format with so many digits that `getint`
overflows twice, and `%lc` and `%ls`. `Scanf` reads key by key with the echo of each.
`Reads` is what C makes of the same format and input, and `Plainly` the inputs for which
the code follows it: one white key ends each number and each word, and none is skipped.
Elsewhere the two differ, and no property holds the code to C: section 5 lists how.

## 3. What the runs check

| run | instance | states | checks |
|---|---|---|---|
| `proc` | idle and 3 user tasks, priorities 1 and 2, `cpid` of 3 | 440 thousand | scheduling, wait queue, the tree, its refinement, nobody starves |
| `trap` | 3 user tasks, 2 values of programs, stacks of 6 cells | 144 thousand | stacks, registers |
| `cow` | 3 processes, 1 page, 3 frames; or 2 processes, 1 page with up to 2 areas over it, 3 frames; or 2 processes, 2 pages, 2 frames | 378 thousand | reference counts, writers, stores that must end, translations, refinement of `PrivateMem` |
| `areas` | 3 user pages of 2 units, tables of 2 entries, 3 slots, areas of 2 or 4 units | 91 thousand | lists, lookup, page tables, refinement of `AddressSpace` |
| `buddy` | 8 pages, 1 reserved, requests of 1 and 3 pages, 2 references | 314 thousand | exactness of the tree, refinement of `PageAlloc` |
| `fd_table` | 3 processes, 3 tables, 2 descriptors, 2 files and 2 wrong paths, 2 rights | 268 thousand | descriptors, pages of programs, refinement of `Descriptors` |
| `fat32` | 2 partitions, a directory of 3 clusters, 3 files of 2 clusters of 3 units (one from cluster 36 on) and an empty one, deleted and long-name entries with the same names | 845 thousand | reads, writes, lookup, listing, which calls return |
| `malloc` | classes with 3 blocks in a page and with one block in 2 pages, 3 blocks held | 200 thousand | lists, counts, refinement of `Heap` |
| `stdio` | 10,800 calls of `vfprintf`, 14,000 of `vfscanf` | 100 thousand | what is printed, what is read |
| `proc_wait_dead`, `proc_intr`, `areas_fork` | | | violated: see 5 |

**Process core.** `ParentAlive`: the father of a task is a live task, however its
own `cpid[]` has become stale. `ChildListed`: it lists the task, so that it will
find it as a zombie. `Rooted`: no set of tasks without init is closed under
fatherhood. `IdleOnlyWhenNothingRuns`: the CPU goes to idle only when no task may
run, whatever counters are left.
`WaitQueueAgrees`, `ExitWakesWaiter`: who sleeps is in the wait queue, and the
exit of the child it waits for wakes it, adoption in between or not.
`DeadStayDead`: nothing but reaping ends a zombie. `TreeSpec` says all of this
at once of the abstract tree: a step of the kernel creates a child of a live
father, kills a process and hands its children to init, reaps a dead process, or
leaves the tree alone; it does not say who reaps. `CpuOnRunningTask`: the CPU is never
on a task that sleeps or is dead. `StarvationFree`: a task that can run gets the CPU
again and again.

**Traps.** `StacksHold`: every stack keeps the frames that its task has still to
return through, each with what was saved in it, a saved context points to the last of
them, and a program runs with an empty stack that `sscratch` names. `ResumesAsItWas`:
a program goes on in user mode with the registers that it was interrupted with, but
for the results of a call, a fork, an exec and a reaped child; a system call goes on
after a fault or a switch with those of its own code.

**User memory.** `RefCountCovers`: a frame is counted at least as often as page
tables map it (more often when areas overlap, since `do_fork` counts per area).
`WriterIsAlone`: a frame some process may write is mapped by nobody else.
`StoreFaultEnds`: an entry that has lost W to a fork has S, so that a store to it ends
in a branch that resolves it and not in an endless fault. `TlbIsolation`: what can be
written through any cached translation no page table maps elsewhere; a page table
itself can be reached, but only from a page that the process has unmapped.
`PrivateSpec`: none of this can be seen by programs; loads and stores behave as on
memories that are private to the processes, up to the store `StoreToTable`, which
happens in the run and after which nothing is promised (see 5).

**Areas and page tables.** `ListsAgree`: whatever munmap has cut, the areas form one
sorted list with links that agree in both directions, and every slot is on one list.
`FindsWhatCovers`: `find_vma`, which gives up at the first area beyond the address,
still finds an area wherever there is one, overlapping ones included.
`MappingsAreExact`: in every table that is reached, mapping or unmapping any range
changes just the entries of that range, across tables of all levels (evaluated when
the process has one area, where tables of every shape already occur, and proved for all).
`KernelMapped`: the kernel's half is the same in every process until it is reaped.
`AddressSpaceSpec`: mmap adds a layer, munmap takes one layer off a range that is
covered throughout or changes nothing, and no memory stays without an area over it.

**Allocator.** `BitmapIsExact`: a node outside the allocated blocks holds the size
of the longest aligned free block below it. `AllocatorSpec`: the array implements
blocks that are created, counted up and down, and freed; a request fails only
when no aligned block of its size is free. `AllocIsFresh`: a page that is handed
out starts a block that overlaps none in use.

**Descriptors.** `HeldIsFile`: a descriptor that a program holds stays opened, on the
file it was opened for, whatever other opens fail, whatever fork, execve and the faults
of relatives do to the tables. `ProgramReadsItsFile`: the pages of a program come from
the file that was executed, also in a child whose father, the owner of the descriptor,
has exited; this rests on the father's table staying as it is. `DescSpec`: what programs
hold are descriptors of their own; the child's are those of its father at the same
offsets, though fork opens them again by path, and then move apart.

**FAT32 and the disk.** `ReadsExact`, `WritesExact`: a read gives the bytes of the
file from the offset to the end of the request or of the file, a write leaves in the
file what was written and what was there elsewhere. `WritesStayInFile`: no step changes
a sector but one of the file that a write is after. `OpenFinds`, `ListsWhatOpens`: a
path opens the first live entry with its name, past deleted and long-name entries and
across clusters, and getdents64 lists what opens. `CallReturns`: a call ends, whenever
the device serves its requests. Three things are excepted, since the code fails in them
(see 5). No property speaks of a call that has gone astray, from the step on where it
does. Of a read, a write or a listing that a page fault has hit in the middle no result
is claimed, since it goes on over a buffer that holds another sector; that its writes
stay in the file is, and so is the result of the read for that fault. And the two calls
that are lost do not end.

**Heap**, for sizes whose class `free_block` finds again. `SlabsListed`: a slab with a
count is on the list of its class that malloc
takes from, one without on the other, said of neighbours: `prev` leads inside the list
to its head, without a ring, and `next` back. `CountIsBacked`: the count never promises a block
that is not there. `NoIdleSlab`: a slab that malloc passes over has a block in use.
`HeapSpec`: blocks overlap no other block, no header and no link.

**Formatted I/O.** `PrintsWhatCSays`: the characters, counts and result of a call
are those of a definition that goes directive by directive through the rules of C.
`ScansWhatWasTyped`: on the inputs that `Plainly` admits a call stores what C stores and
counts what C counts, and takes of the input that C leaves the key that ends its last
number or word, and nothing behind it.

**Bounds.** Three user tasks are enough for a task, its father and its child or
brother; slots are reused, and `cpid` of 3 makes lists fill with entries of reaped
tasks (the proofs hold for any number). Priorities up to 2 give a task that
keeps a slice while others have used theirs; the code only compares counters,
takes one off, and refills. A stack of 6 cells holds the deepest nest there is: the
frame and the handler of a call, two of its functions, and the frame and the handler
of a fault. Three processes can be sharer, writer and a third that appears by fork after
the copy; three frames let a frame be freed and used by another process; two areas over
a page is what overlapping means; two pages and two frames are enough for one page to
be unmapped and its frame to become the table of the other (the proofs are for any
number of all of them); a behaviour of `cow` keeps to one of these three bounds
(`MCCow`). Three areas in three pages can lie apart, overlap and be cut in two by an munmap, which needs a
slot more than areas; tables of two entries make every range of three pages cross one.
Eight pages give a tree of four levels, in which a join can stop at each of them; a
request of 3 pages is rounded up to 4. `CPID_MAX`, `MAX_OVERLAP` and `REF_MAX` are
bounds: the first stands for the page of 512 entries and its overrun is a modelled stop,
the other two are guards of `Mmap`, `Fork` and `RefPage`. Two descriptors let one
change while another is held, lost in a failed open or kept by execve; three tables for
three processes bound the forks, `Room` the offsets; a behaviour of `fd_table` keeps to
a father and a child with both descriptors, or to three processes with one (`MCFdTable`).
Files of two clusters of three units have an offset in each place of a sector and
lengths that end inside, at and behind a sector; one file begins at cluster 36, whose
link `next_cluster` mistakes, and one is empty; `MaxClusters` bounds the chains,
`MaxWrites` the writes of a behaviour, a call takes at most one fault, and none begins
after one has gone astray. `IdxMod` bounds the
rings' indices, of which the driver only looks at a change. Three held blocks fill a
slab of 3, open another and let either become free again (`MAX_HELD`).

**Deadlock** is not checked where the machine really stops: when only idle is left,
when memory runs out, when a call never returns, and in the models after a memory
error; a call of `stdio` ends.

**Fairness** (`FairSpec`). In `Proc`: weak fairness of the kernel's own steps, since a
handler runs to its end with interrupts off. Strong fairness of the timer: every timer
interrupt programs the next one first (`trap.c:35`), a due interrupt is taken
before the next instruction in user mode, so a task that returns to user mode
again and again is interrupted however many traps it takes in between. In `Fat32`: weak
fairness of the kernel, of its polling loop, which nothing interrupts, and of the
device, which serves what it has been notified of. Nothing is assumed of user programs.

## 4. What is proved

`ProcProofs` proves, for every number of tasks, range of priorities and length of
`cpid[]` (assumption `ProcAssumption`, no other):

* `TypeCorrect`, `InvariantHolds`: type correctness and the inductive invariant;
* `FathersLive`, `ChildrenListed`, `AllDescendFromInit`: the process tree;
* `SchedulerSafe` (with `CpuOnRunningTask`: the CPU is on a task that may run),
  `WaitQueueSafe`, `KillSafe` (`do_kill` in `do_exit` finds a `signal_struct`):
  scheduler, wait queue, signals;
* `DeadNeverReturn`, `ExitWakes`: the action properties `DeadStayDead` and
  `ExitWakesWaiter`;
* `ProcImplementsTree`: every initial state and step of `Proc` is one of
  `ProcTree` under the mapping of `Tree`.

None of the invariants is inductive alone; `IInv` is. `ParentAlive` is not even
one of its conjuncts: it follows from `GoneListNobody` (a dead or absent task lists
no children, since exit empties the list before the task can be reaped) and
`ChildListed` (the father lists the task), so the father is alive. Those two need
`Fathers` (init is in nobody's list, no task is its own father) and `SlotsInUse`
(idle and init keep their slots, a task in use has a number below `num_tasks`, so
that a new slot is free). `Slices` (a live task has a positive priority, idle's
counter is 0) makes a refill visible to the search of `get_max_cnt_pid`, hence
`IdleOnlyWhenNothingRuns`; `LiveHasSignal` gives `KillFindsSignal`. One lemma,
`ScheduleResult`, says what `Schedule` can do, and each action of `Next` has a
lemma of its own (`ForkKeeps`, `ExitKeeps`, ...).

`Rooted` speaks of sets of tasks. `TreeStep` reduces every action to one of four
changes of the tree (grow by a leaf, die and hand the children to init, drop a dead
leaf, nothing); a set that is closed under fatherhood after such a change yields
one that was closed before (`RootedStep`). The same lemma gives the refinement and
`DeadStayDead`. `ExitWakesWaiter` needs one invariant more: `do_exit` adopts before it
looks its father up, so a task that listed itself would wake init instead
(`NotOwnChild`: no task does, a fork gives a free number and init never is adopted).

`CowProofs` proves, for any finite sets of processes and of pages, any set of frames
(infinite ones too) and of contents, and areas overlapping to any depth
(`CowAssumption`):

* `TypeCorrect`, `RefCountsCoverMappings`, `WritersAreAlone`, `StoreFaultsEnd`,
  `TlbIsolates`: the types and the invariants that `cow` checks;
* `TablesAreKept`: a frame that has become a page table is not mapped or freed again;
* `SharersMarked`: all entries of a frame with several users carry S;
* `MemoriesArePrivate`: `Cow` implements `PrivateMem` (up to `StoreToTable`, as above).

The invariant `IInv` says page by page what the properties say by counting. `Alone`
(no other entry has this frame) replaces "one user": `WritersAlone` and
`SharedUnlessAlone`, every entry is alone or marked. `MappedUnderArea` (only live
processes map pages, and only under an area) is why exit and execve, which go by
the areas, leave nothing mapped, and why a child starts empty. `FrameAtOnePage` (a
process maps a frame at one page at most) is why one more reference per page is
enough in fork. `TlbInv` is `TlbIsolation` with the rights of a cached translation
tied to those of the entry. Counting is met in three places only, with the library's
facts on finite sets: a frame without references is mapped nowhere
(`FreeUnmapped`), a frame with one reference has one user (`LastUser`, the branch
of `do_page_fault` that takes a page over), and one user more or less is one
reference more or less. Each action has a lemma; `Remapped` serves the two faults
that map a new frame, `Removed` the three users of `remove_mapping`. That tables are
neither mapped nor freed (`TablesStay`) is inductive with `IInv`: what is taken for a
table has no reference, and a frame without references is mapped nowhere.

In the refinement, a store through a translation that munmap has left behind is a
stutter, since that frame is mapped by nobody (and if it is a table, the model stops); a copy is a stutter, since the new
frame was free and has the contents of the old; a first access is `Touch`.

`TrapProofs` proves, for any tasks, values of program registers and stacks of at least
six cells (`TrapAssumption`):

* `Invariance`: the inductive invariant;
* `StacksAlwaysHold`, `RegistersComeBack`: the invariants that `trap` checks.

`IInv` is a list of places. The frames that a task has still to return through are one
of seven stacks (`Interrupted`, `Serving`, `Within`, `Deeper`, `Reaping`, `Faulted`,
`Nesting`), or none, each another one and a frame more; `Running` says with which
of them, which mode and which `sscratch` the hart may be at which `pc`, `Waiting` which
of them a saved context returns to. `Backed` says that the cells of the page hold these
frames, at rising addresses. Neither property is inductive without the places: that a
fault inside a call does not write over a frame depends on where `sscratch` was left by
the fault before, and this on how deep the call was then. Six cells are enough because
the deepest, `Nesting` over `Deeper`, has six frames.

`BuddyProofs` proves, for every memory of a power of two of pages up to 2^30, any number
of reserved pages, any requests up to 2^30 pages and any bound on references
(`BuddyAssumption`):

* `TypeCorrect`, `Invariance`: types and the inductive invariant;
* `Exact`: `BitmapIsExact`, that the bitmap records exactly what is free;
* `Fresh`: `AllocIsFresh`, that nothing is handed out twice;
* `Implements`: `Buddy` implements `PageAlloc`.

The invariant names what the array only implies: there is a set of nodes, none above
another, whose first pages are those with a reference (`Held`), and the bitmap is what
the rules of the tree give for this set (`Tree`): 0 at its nodes, 1 at the other leaves,
elsewhere the longer of two halves or both together. What lies below an allocated
node obeys the same rules, so that freeing the node makes it right again. The proofs go
by induction along the tree, down from the root (`TreeDown`) or up from the leaves
(`TreeUp`). First the geometry: the sizes of a row (`SizeFacts`), a block is that of the
two halves below it (`Halves`), two nodes share no page unless one is above the other
(`PagesApart`), and every aligned block is that of a node (`NodeOf`). Then what the loops
of the code do, each of them a recursive function over the nodes, which exists because
every way ends at the root or at a leaf (`FromParent`, `FromChildren`): the descent ends
at a free node of the size asked for with no allocated node above it (`DescendIs`), the
climb from any page of a block at its node and no other (`FoundIs`), and what the two
updates write is the tree of one node more or less (`AllocTree`, `FreeTree`). `Offers`
and `LongestIs` say what a value of the bitmap means; a request that finds too little at
the root cannot be served by any aligned block (`FailMaps`).

`FdProofs` proves, for any sets of processes, tables and files and any finite set of
descriptors (`FdAssumption`):

* `TypeCorrect`, `Invariance`: types and the inductive invariant;
* `HeldStaysFile`, `ProgramsReadTheirFiles`: the invariants that `fd_table` checks;
* `DescriptorsAreOwn`: `FdTable` implements `Descriptors`.

`ProgramReadsItsFile` is about a structure in a table that may be another process's or
nobody's any more. `ImagesKept` makes it inductive: if the table belongs to a process
that runs, this structure is opened and not one that its program holds, so neither open
takes it nor close gives it back; if it belongs to nobody, it is not fresh, so no fork
takes it. With `OwnTables` (every process that runs has a table of its own) a call
changes one structure of one process, and `DeadHoldNothing` makes a new process start
with what fork opens again. The refinement maps every call to the one of the same name
and a page fault to a stutter, since its descriptor is not held.

`MallocProofs` proves, for all sizes from 1 byte to what fits into 2048 pages with the
header and one word, and any number of blocks in use (`LayoutAssumption`,
`SizesAssumption`):

* `SizesServed`: the class that `get_used_slab_idx` finds for a size has blocks that
  hold it, and `get_block_idx` finds this class again from the size of its blocks, but
  for the classes 8, 9 and 10 (slabs of 1, 2 and 4 MiB), for which it finds 16, 17, 18;

and, when the sizes of those three classes are not asked for (`SizesAgree`; a freed block
of such a size goes to a wrong list, see 5):

* `TypeCorrect`, `Invariance`: types and the inductive invariant;
* `EverySlabListed`: the two lists of every class;
* `CountsAreBacked`, `SlabsNeverIdle`: the counts of slabs;
* `BlocksAreAlone`: `Malloc` implements `Heap`.

`IInv` has three parts. `Sound`: the free blocks of a slab are different blocks of it,
none in use, at least as many as it counts; a block in use is in a slab of the class of
its size; slabs lie one behind the other; a slab that counts none has one in use.
`Links`: `prev` and `next` are each other's inverse inside a list, and the slab at the
head of a list has none before it, and no set of slabs is closed under `prev`, so there
is no ring (`Chained`); the list of a slab is that of its class
and of whether it counts blocks. `HeapOK`: the heap reaches behind the last slab.
`Chained` is what makes malloc find a slab of the right class at the head of a list, and
`MoveChained` that the two ways of moving a slab keep it; that free finds the list of
the class again needs `SizesServed`. The powers of two go through a table (`Pow`), since
the provers have no exponents. The refinement is arithmetic over the addresses: blocks
of a slab end a word before the next (`BlockOrder`), inside the slab (`BlockInside`),
and the slab before the next slab begins (`PageOrder`).

`VmaProofs` proves, for every number of slots, entries in a table, addresses in a page,
user addresses, programs, lengths of mmap and munmap, and sections of the kernel above
the user addresses (`VmaAssumption`, `PageTableAssumption`):

* `TypeCorrect`, `Invariance`: types and the inductive invariant;
* `ListsSound`, `FindsEvery`: the lists of areas and the search through them;
* `KernelStays`, `EveryRangeExact`, `MappingsExact`: page tables;
* `ImplementsLayers`: `Vma` implements `AddressSpace`.

`IInv` has a part for each structure and one between them. `Holds`: there are two chains
of slots without repetitions, the areas from `mmap`, the free slots from
`free_vma_list`, the first sorted, linked backwards as forwards, and as long as the
count (`Shape`). `Tidy`: this and the types, as long as no bad pointer has been followed,
and no area ends before it starts. The table is a tree of three levels (`Tables`) that
maps the kernel (`Kernel`). `Backs`: a page with a frame has an address under an area.
A process that has finished has no areas. `Backs` is what fork, execve and exit need:
they go by the areas, and would leave frames elsewhere behind.

Three layers of lemmas lead there. First the lists: what linking and unlinking a slot
does to two chains (`ChainInsert`, `ChainRemove`, `MmapNext`, `RemoveHolds`), and that
`do_munmap`, which cuts areas of a list that it has begun to walk, finds those of the
range, and no others, though it links new ones in between (`AffectedIs`, `CutAllIs`). The
search ends early, so `FindIs` rests on the order of the starts. Then the page table: a
page number is its three digits and the order of numbers is that of digits (`VpnOf`,
`PageOrder`, from `DigitOrder`); so the three nested loops come to each page of the range
once, in order, and to no other (`LoopsAre`), and `WrittenIs`, `CreateIs`, `RemoveIs`,
`CopyIs`, `ShareAllIs`, `UnmappedIs` say what each operation does to the translation of
every page. Last the layers: an area more or less, or cut, is a layer more or less over
its addresses (`AddedIs`, `RemovedIs`, `CutOutIs`, `CutAllLayers`). Each action has a
lemma that gives both `IInv'` and the step of `AddressSpace`. `StepwiseExists` gives the
recursive functions that stand for loops their values.

`EveryRangeExact` is about all reachable tables without an entry that nobody has written;
`MappingsExact` is the part of it that the run evaluates, the tables of a process with one
area.

`Fat32Proofs` proves, for any disk that holds a volume as `Volume` describes it, any
number of descriptors, offsets, lengths and writes, pages and sectors of any size, and
indexes of any width (`VolumeAssumption`, `Fat32Assumption`, `VirtioAssumption`):

* `Invariance`: `astray \/ Inv`, where `Inv` is inductive until a call goes astray, and
  `astray` stays (`StaysAstray`);
* `ReadsWhatFileHolds`, `WritesWhatItIsGiven`, `OpenFindsFirst`, `ListsOpenable`,
  `WritesStay`: the properties that `fat32` checks, but for `CallReturns`, with the
  exceptions of 3;
* `PollingEndsInTime`: the driver goes on when the device has done what it was asked to.

None of the properties says what a call has done halfway, and this is what `Inv` is
about. `QueueOk`: one request, and the device has not taken, has, or has completed it.
`RequestInv`: it is the request that the innermost call waits for (`Want`), and once it
is served, buffer and sector agree (`Served`). `FileInv`: a descriptor has a live entry of
the directory, and its cluster. `CallsInv`: a lookup has passed all entries
before its cluster (`OpenFrame`); a read or write is in the cluster that its offset
says (`Placed`) and has done the units before it (`HasRead`, `HasWritten`); between two
calls there is the frame that a page fault has interrupted, of which, from then on, only
the place is known, not what is in the buffer (`torn`). `DiskOk`: until a call goes
astray only sectors of files differ from the disk at boot, so tables and directories
mean what they meant at boot.
`LastInv` is the first four properties of the call that returned last.

That a chain is followed alike on the disk and in the table buffer is `NextCluster`, and
what the clusters of a chain hold is `HeldIs`. `RwWalks` takes the loop of a read or write
one cluster on; `PatchHolds` and `WriteLands` say what the copy into the buffer and the
store of it do to the file; in the first place beyond a chain nothing lands, because the
mark at its end, taken for a cluster, is a sector that the disk has not; the step from
there is astray. `EntriesAre` lists a directory in the order of its clusters,
`ScanFinds` and `ScanMisses` are the lookup, `DirentsAre` is the listing.
`QueueSteps` is the queue, `FaultKeepsInv` a page fault, and each other action has its
lemma.

Inductions along trees, lists, chains and loops rest on minimum and induction for sets of
natural numbers (`NatMin`, `NatByInduction`), stated in the modules that need them. They
take a set where the library's theorems take an operator, and rest on the well-foundedness
of the order of the naturals.

Only model-checked: `StarvationFree` and `CallReturns` (liveness and ENABLED are out of
the prover's reach); `Printf` and `Scanf`. What `Printf` computes for every format is
induction over data; `Scanf` has a RECURSIVE reference, which keeps it out of proofs.
No run lists a type invariant: those of the modules with proofs are theorems or, in `Trap`
and `Fat32`, conjuncts of the inductive invariant (for the reader `Fat32` has one too).

## 5. What the code does not do

Each of these is a run that TLC finds violated, with the line in "findings":

* `NoSleepOnDeadChild` (`proc.c:605`): waitpid on a child that has exited sleeps
  for good, unless the pid is reused and exits again.
* `InterruptPreservesRegs` (`signal.c:55`): reaping on the way back from a timer
  interrupt overwrites a0 and a1 of the interrupted program.
* `MmapAddsArea` (`proc.c:378`): `copy_mm` does not set the child's `free_vma_list`, so
  the child's first mmap takes whatever its page held for a slot.

Modelled as the code has them, without a run of their own:

* one fork too many writes past `task[]` (`proc.c:63`, `ForkPastTable`);
* task 1 cannot exit (`proc.c:568`): its adoption loop feeds itself
  (`ExitAdoptsSelf`), or `do_kill` follows the NULL `signal` of idle
  (`ExitNullSignal`);
* SIGCHLD inside a system call that faults overwrites registers of the kernel
  (`signal.c:55`, `SignalReapNested`);
* `free_pages` frees nothing that has a reference (`mm.c:47`, `FreePages`), and a store
  fault that takes over a page, or finds nothing to do, loses the page it has allocated
  in advance (`trap.c:234`, `TakeOver`, `FaultInVain`);
* munmap flushes nothing (`proc.c:348`), and on its way over a range `remove_mapping`
  may make a frame it has just freed a page table (`vm.c:173`, `vm.c:187`): a program
  that goes on writing the page it has unmapped writes that table (`StoreToTable`);
* a freed block of half a MiB to 4 MiB, sizes that `malloc.c:213` supports, goes to the
  list of blocks of 16 to 64 bytes (`malloc.c:6`, `get_block_idx`, `SizesServed`): malloc
  never gives it for its size again, and the slab is still the head of the list of full
  slabs that it has left;
* mmap without a free slot follows NULL (`proc.c:267`, `mm.fault`);
* an open that fails leaves its descriptor marked opened (`fs.c:71`, `FileOpen`);
  fork opens such a descriptor again, so the child loses it too;
* a page fault in the middle of a copy to or from a program replaces the sector that is
  being copied, and one in the middle of a getdents64 the entries that are being listed
  (`fat32.c:302`, `362`, `PageFault`, `ListTorn`);
* a write more than a cluster beyond the end of the file's chain, to an empty file, or
  behind a cluster that is in the last three quarters of its sector of the table, goes
  to sectors that are not the file's: the table, a directory or another file
  (`fat32.c:413`, `404`, `28`, `Walk`, `Write`, `astray`); a lookup and a read go astray
  behind such a cluster too;
* a path with two names or a name of twelve letters or more smashes the stack
  (`fat32.c:77`, `81`, `OpenBad`), and a read from past the end of a file never ends
  (`fat32.c:285`, `Sized`); a write never changes the size of a file (`fat32.c:419`);
* scanf is not C's where `Plainly` does not hold: it takes the key that ends a field
  from the input, so `%d%c` gives the key behind it and white space of the format has
  nothing to skip (`vfscanf.c:63`, `33`); a second space or a newline before a field
  makes a word empty and a number 0; backspace, delete and the null character end a
  field; "-" alone is 0, "0-5" is -5; "5k" fails where C reads 5 and leaves the k; any
  failure returns -1, also after values have been stored, and so does a format that ends
  in white space (`vfscanf.c:36`).

## 6. What is not modelled, and why

* What is in subdirectories (`parse_dirname` writes past its buffer for a path into
  one), clusters of several sectors (the loops fetch one), the growth of directories
  (there is none), and what the kernel does after a call that has gone astray has
  returned, or has stored over the table or a directory.
* Other disks than `Volume` describes. The image is not in the repository. The last
  partition of type 0x83 is taken to be FAT32; the chains of files and of the root
  directory to be apart, and what the table has behind them to be neither a cluster nor a
  sector of the disk; entries of directories to have size 0, as the format has it.
* mmap of a file (called not supported yet in `ksyscalls.c:142`), and the console
  descriptors 0 to 2 in `FdTable`.
* In `Vma`, a range of length 0 at address 0, on which `remove_mapping` wraps around and
  goes through the whole table (`vm.c:152`); and a first program with more areas than
  there are slots, with which the kernel would not start.
* Permissions R and X, the contents of ELF files. `Cow` knows areas of one page, `Vma`
  one process without frames: each leaves the other's part out.
* In `Cow`, running out of memory in the kernel's own allocations of fork and of page
  tables in a fault; in `Proc`, running out of memory at all.
* The kernel's own accesses to buffers of programs, but for the faults that they cause
  in `Trap` and `Fat32`: `scank_sbi_read` looks up the frame of a buffer before it is
  mapped (`scank.c:17`).
* Strings, division, `rand` (a nondeterministic priority): functions without state.
  Console, SBI, clock, boot code: pure I/O. The shell and the tests are programs: the
  models allow any sequence of system calls.

## 7. Plan

In this order; what is done is marked.

1. `Proc`, `ProcTree`, `ProcProofs` (done).
2. `Cow`, `PrivateMem`, `CowProofs` (done); `Buddy`, `PageAlloc`, `BuddyProofs`
   (done).
3. `Vma`, `PageTable`, `AddressSpace`, `VmaProofs`; `FdTable`, `Descriptors`, `FdProofs`
   (done).
4. `Malloc`, `Heap`, `MallocProofs` (done); `Virtio`, `Volume`, `Fat32`, `Fat32Proofs`
   (done); `Printf`, `Scanf` (done, checked).
5. `Trap`, `TrapProofs`: frames, `sscratch` and stacks through nested traps and
   switches (done).
6. Left: division (`lib/div.S`): the loop of shifts and subtractions, for every width.
