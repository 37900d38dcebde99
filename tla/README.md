# A verification project for xv6rs

TLA+ models of the kernel in `src/kernel` and of the image that `src/mkfs` makes
for it, TLC configurations that check them on small instances, and TLAPS proofs
about the log and the system calls over it, the scheduler, the process table, the
buffer cache, the inode table, pipes and the network for every size.  `PROJECT.json` lists the components, the runs, the mutants, the
source lines behind every definition, the finding that a run shows, the hazards
and the theorems.

    tlc -workers 2 -config MCSched.cfg MCSched        # a run
    tlc -workers 2 -config MCProcTable.cfg ProcTable  # one without an MC module
    tlapm PipeProofs.tla                              # the proofs of a module

`ProcTable`, `Pipe`, `Virtio`, `Network`, `Console` and `Uart` need no definitions for TLC
and are checked directly; the others through their `MC` module.

## Inventory

xv6rs is a small Unix kernel for RISC-V with three CPUs (`-smp 3` in its
Makefile), built in release mode, so that integers wrap.  For each part: the state
it keeps, the operations that change it, and what makes it correct.

**Write-ahead log** (`log.rs`).  State: the header in memory, `outstanding`,
`committing`; on disk the header and the log area.  Operations: `begin_op`,
`write`, `end_op`, `commit` (`write_log`, `write_head`, `install_trans`), recovery
at boot.  Hard: power loss between any two disk writes, calls that join a
transaction while another leaves, absorption.  Correct: a group of calls is
durable as a whole or not at all; no pinned buffer is lost or kept.

**System calls over the log** (`proc/syscall.rs`, `file.rs`, `proc/elf.rs`,
`process.rs`).  Each call enters and leaves a transaction on every path.

**Buffer cache** (`bio.rs`).  State: a doubly linked LRU list, counts, `valid`,
data behind sleep-locks.  Operations: `bread`, `bwrite`, `brelse`, `bpin`,
`bunpin`.  Hard: two misses at once, recycling against finding, counts changed
without the lock.  Correct: one buffer per block, exact counts, a guard shows the
last contents.

**Disk driver** (`virtio.rs`).  State: descriptors, the avail and used rings,
`info`.  Operations: `rw`, `intr`, the device.  Hard: completion out of order, few
descriptors, 16 and 32 bit indices.  Correct: descriptors are owned once,
requests are answered once, and they return.

**Inode table** (`fs.rs`).  State: entries (`refcnt`, `inum`), data (`valid` and
the inode), inodes on disk.  Operations: `iget`, `idup`, `ilock`, `iput`, `ialloc`,
create, unlink.  Hard: entry and data have different locks; `iput` frees between
two critical sections.  Correct: exact counts, no inode freed in use or forgotten.

**Blocks of files** (`bmap.rs`, `fs.rs`).  State: bitmap, `addrs`, tables of
indirect blocks.  Operations: `bmap`, `readi`, `writei`, `itrunc`.  Correct: the
bitmap is what files refer to, and data is read back.

**The image** (`mkfs/src/main.rs`).  State: the blocks, the inodes, the next free
block.  Operations: the root directory, one program after another through
`iappend`, the bitmap at the end.  It has block arithmetic of its own.  Correct:
the kernel finds in the image what mkfs was given.

**Names** (`fs.rs`).  State: directories as lists of entries, link counts.
Operations: `namex` with `skip_elem`, `dirlookup`, `dirlink`, `create`, `unlink`.
Hard: one buffer for all names of a path, `..` of directories that are gone,
paths that name the directory itself.  Correct: a path leads where it says; names
and links agree.

**Descriptors, open files, mappings** (`file.rs`, `proc.rs`, `proc/syscall.rs`).
State: descriptor tables, the files they share with their offsets, current
directories, one mapping for each process.  Operations: open, read, write, dup,
close, fork, exit, chdir, mmap, the page fault.  Hard: files outlive their names,
offsets outlive a truncation, a mapping remembers a descriptor's number.

**Pipes** (`file.rs`).  State: ring, counters, two open flags, the files that hold
them.  Operations: read, write, close, inheritance by fork.  Correct: bytes in
order and once; nobody sleeps who has something to do.

**Scheduler, locks, sleep** (`cpu.rs`, `spinlock.rs`, `sleeplock.rs`, `proc.rs`,
`trap.rs`).  State per CPU: `noff`, `intena`, the current process; per process
its state, channel and lock.  Operations: acquire, release, `sleep`, `wakeup`,
`sched`, `yield`, the scheduler's loop, interrupts.  Correct: a process runs on one
CPU, locks exclude, no wakeup is lost.

**Process table** (`process.rs`, `proc.rs`).  State: slots, parents, pids.
Operations: `alloc_proc`, fork, exit, wait, free.  Correct: every process has a
living parent, every zombie is seen, no slot is freed under a running process.

**Address spaces** (`page_table.rs`, `proc.rs`, `proc/elf.rs`).  State: page tables,
`sz`, mappings, free pages.  Operations: fork, exec, sbrk, mmap, the lazy fault,
exit, wait.  Hard: memory runs out half way.  Correct: a page has one owner, none
is lost, page tables are empty when they are dropped.

**Kernel heap** (`kalloc/linked_list.rs`), **serial line** (`uart.rs`), **console**
(`console.rs`).  A list of free regions; an output ring with a transmitter and
its interrupt; an input ring with three indices.

**Network** (`e1000.rs`, `net/`).  State: two descriptor rings shared with the card;
the ARP table; control blocks with queues, filled by the interrupt and emptied
by readers.  Operations: `send`, the interrupt with `recv`, `resolve` and `rx` of ARP,
IP and Ethernet's choice of an address, open, bind, connect, read, write and close
of sockets.  Hard: the card goes on while the driver looks; questions are answered
late, twice or never; a socket is closed under the interrupt.  Correct: packets in
order and once, to the right host and the right socket.

Not modelled: environment variables, the user programs and their allocator
(sequential code that belongs to one process); boot, the kernel's page table,
registers, printf, PCI and PLIC (straight-line set-up).

How they interact: a system call enters a transaction (`LOG.begin_op`), finds
inodes through the inode table, reads and writes their blocks through the buffer
cache, which reads from the disk driver; `LOG.write` pins the buffers it lists;
the last call to leave commits.  All of them sleep and wake through
`Proc::sleep` and `ProcessTable::wakeup`, which `Sched` models in detail.  The
other modules use what `Sched` shows of them (`NoLostWakeup`: the release of the
lock and the sleep are one step for every waker that holds the lock) and write
"sleep" as one step.

## The modules

Each `X.tla` has its state as variables, one action for each handler or for each
part of a handler between two points where others may run, and its properties at
the end.  `MCX.tla` gives TLC model values and symmetry.  Definitions with the
comment `Mutant:` are wrong versions of the definition after them; for every
property of every passing run one of them breaks it.

**Granularity.** What runs under one lock is one step.  Where the code releases
a lock and takes it again, or changes something without the lock that others use,
it is several steps.  `InodeTable` and `Udp` have a variable `smp`, chosen at the
start: when it is false the machine has one CPU, and the parts of the code that
only another CPU could interrupt are not interrupted.  Properties that say
`~smp =>` hold on one CPU only; see the disagreements below.

* **`Log`** - `disk`, `dlog`, `dhead` are the home blocks, the log area and its
  header on disk, `cache` and `pin` the buffers, `header`, `outstanding`,
  `committing` the fields of `struct Log`, `phase` and `tail` where commit or
  recovery stands.  Actions: `begin_op` (enter, sleep, retry), `write`, `end_op`,
  each round of `write_log` and `install_trans`, `write_head`, the recovery at
  boot, a power loss at any time, which may tear the block being written.  The
  header is written atomically: the code relies on it.  `LogProps` has the
  properties and the refinement mapping.
* **`AtomicDisk`** - what the log promises: one current image, which becomes
  durable as a whole and only between system calls (`Begin`, `Write`, `End`,
  `Commit`, `Crash`).
* **`FsSyscalls`** - the system calls composed with `Log`; `EndsOp` says for each
  call and outcome whether the code reaches `end_op`.
* **`Sched`** - processes use a sleep-lock and the disk, sleep, yield and exit on
  several CPUs; every spinlock acquisition, `push_off` and `pop_off` is there.
* **`ProcTable`** - slots, parents and pids through fork, exit, wait and free,
  with the kernel stack that an exiting process still runs on.
* **`BCache`** - the LRU list with counts, contents and sleep-locks; readers,
  writers and the pins of the log.  `bpin` and `bunpin` load and store a count in
  two steps; `lost` counts the updates that were overwritten.
* **`Virtio`** - descriptor chains, the two rings, `info`, the processes in `rw`,
  the device, which serves requests in any order.  `short` is a history variable: a
  request has found one or two descriptors free, not none and not three.
* **`InodeTable`** - entries, data, the inodes and entries of a directory on disk,
  processes that look up, create, lock, unlink and release.  `panic` says why `iget`
  or `ialloc` has stopped the kernel: the table or the disk has no room.
* **`FileBlocks`** - the bitmap, blocks as arrays of words, `addrs` and `size` of
  each file, up to `MAXFILE` blocks.  A table's entry and a file's datum are words
  of the same kind, as they are in the code, so that block 0 can be taken for a
  table; `disk.wild` is a history variable that says that it was.
* **`Mkfs`** - extends `FileBlocks`: mkfs writes the image first (`Iappend` with its own
  arithmetic, `Balloc`), then the kernel's operations run on it.  A word of the image
  tells its file and its place, so that a misplaced one is seen.
* **`Directory`** - operators on a tree of entries with names of bytes and counts of
  references: `SkipElem`, `Dirlookup`, `Iget`, `Iput`, `NamexStep` (one turn of namex's loop),
  `Namei` (all its turns, with nobody else running), `Dirlink`, `Create` and `Unlink` from
  where they lock the parent.
* **`Files`** - extends `Directory`: descriptor tables, shared files with offsets,
  current directories and mappings.  `tree.ref` is the count of an inode and `refs` that
  of a file (its `Arc`); dropping the last one puts the inode.  A call on a path is one
  step for each element (`Begin`, `WalkStep`) and one for the rest (`OpenEnd`, `CreateEnd`,
  `UnlinkEnd`, `ChdirEnd`), with the other processes' calls between them; `call` says how far
  each has come.  A page fault is two steps, with the file unlocked between `seek` and
  `read`.  `Walk` is what a path means, the reference for `Namei`.  `stop` records why the
  kernel has stopped: a panic, or a directory whose lock is waited for by its holder.
* **`Pipe`** - the ring with its two counters, the two ends and who holds them,
  readers and writers.
* **`AddrSpace`** - for each process the tables and the pages of its page table,
  its size and mappings; a pool of pages that may run out in any step, which
  `oom` records.  `panic` says where the kernel has panicked: at a fault of a program, in
  exec, or over a page table in another call.
* **`E1000`**, **`Udp`** - descriptor rings with the card; control blocks, queues,
  readers.  They are the parts of **`Network`**, which extends both and adds
  ARP, IP and Ethernet: a packet's number in the card's ring says what it holds,
  a packet is delivered when the layer that it is for has taken it, and `write` of a socket goes through
  `resolve` and may be suspended between it and `send`.  Peers send, repeat and
  answer as they like.
* **`Kalloc`**, **`Uart`**, **`Console`** - the heap in bytes; the output ring and the
  transmitter; the input ring and its readers.

## What the runs show

| run | what it checks | bounds |
|---|---|---|
| `log` | dirty buffers are pinned, the reservation is enough, with no call in progress all is committed, refinement of `AtomicDisk` | 3 processes, 2 blocks, 2 values, LOGSIZE 6 with 2 blocks for each call: three calls fit into an empty log, and one has to wait when it is not empty; any number of crashes; the seven calls that are balanced |
| `sched` | one CPU per process, the sleep-lock excludes, no lost wakeup | 3 processes, 2 CPUs, each process once through the lock |
| `proc_table` | parents live, zombies are not missed, no slot is freed under its stack | 4 slots, 6 pids, 2 CPUs |
| `bcache` | one buffer for each block, counts, reads see the last write | 2 processes, 3 buffers, 4 blocks, 1 pin, up to the first lost update |
| `virtio` | descriptors are partitioned, requests are served before their owner is woken, every request returns, all until one has found one or two descriptors free | 3 processes, 8 descriptors as in the code (two requests, and two left over), 5 requests |
| `inodes` | `iput`'s lock does not block; on one CPU none is freed in use, none is lost | 3 processes, 3 inodes, 2 entries: the table and the disk may both be full |
| `file_blocks` | what mkfs wrote is read back through direct, indirect and double indirect blocks; bitmap and references agree; the kernel's own data in direct blocks; all until block 0 is taken for a table | 3 files, 17 blocks of 2 words, no program or one of 11 words, 4 calls of the kernel |
| `files` | paths lead where they say; names and links agree; counts are exact at every point of two calls, open inodes stay and others go; offsets, lookups and mapped pages are right but for the cases that the properties name | 4 inodes, names of 4 bytes, the paths `aaa`, `/aaaa//b`, `..`, `aaa/.` and `aaa/b/..`, 2 processes with 2 descriptors, one of which makes and removes names while the other walks (`SomeCalls`), 4 calls that change names |
| `pipe` | bytes in order, sleepers have a reason, a closed end lets everyone go | 3 processes, ring of 2, 3 bytes, calls of up to 2 |
| `memory` | no page twice; until memory has run out, all accounted for and page tables empty when dropped | 3 processes, 13 pages |
| `network` | packets in order and once both ways, none overlooked; to the right host, the right socket and a reader that is awake | rings of 2, 3 packets out and 2 in, 2 peers, 1 entry in the ARP table, 1 socket, 2 processes |
| `fs_unlink` (violation) | a successful unlink leaves the log uncommitted | 2 processes |

The bounds are the smallest at which each queue is empty, partly filled, full and
wraps around (the disk's rings and the network's receive ring apart), and at which two processes contend while a third waits.  Where a
run has a bound that the program has not (packets, bytes, pids, lost updates),
it is a guard named in the module.

Two instances leave out what is known to go wrong, so that the rest can be
checked.  `virtio` stays below the requests at which the device's index wraps.  In
`bcache` no update of a count has been lost (`MaxLost = 0`).

Other properties name the sequences at which the code does go wrong, and say that
it does at no others.

* `virtio`: all three end when a request finds one or two descriptors free (`short`).
* `memory`: exec by a process that has touched a mapping leaves its pages in the old
  page table (`TablesEmptyWhenDropped`).
* `file_blocks`: all three end when a write needs a new table in the double indirect
  range (`disk.wild`).  `ImageReadBack` also names the root directory, which mkfs makes a
  block too large when it fills its last one.
* `files`: a path through the `..` of a removed directory may meet a free inode
  (`NoTypeThroughDotDot`).  A file truncated while it is open, or one whose mapping was
  touched behind its end, has offsets past its size (`OffsetsWithinSize`).  A page of a
  mapping is wrong only when the descriptor was closed or is shared (`MappedPages`).

**Further configurations.**  Properties of a module that are not in its
configuration hold in the same instance and can be added there, unless the table
of disagreements has them: among them the type invariants, `PinsBalance`,
`OutstandingCounts`, `NoDuplicateSlots`, `CurrentProc`, `NoffCounts`, `NoPanic` of `Sched`,
`PidUnique`, `CleanSlot`, `ListOK`, `PanicsWhenInUse`, `RequestsTracked`,
`SleeperHasRequest`, `NobodyWaitsForFree`, `RefcntCounts`, `OneEntry`, `NoEntryMeansHeld` and
`LinkCounts` of `InodeTable`, `OpenIsHeld`, `SzIsMapped`, `MappingsDisjoint`.  `MCSchedLive.cfg` checks that
three processes on one CPU all get the sleep-lock and exit, and
`MCProcTableLive.cfg` that init reaps every orphan.  `MCKalloc.cfg`, `MCUart.cfg` and
`MCConsole.cfg` check the heap (regions disjoint and aligned, asserts hold), the
serial line (bytes kept in order, no overrun, somebody sends) and the console
(lines kept, no lost wakeup, a full ring can be read).

**Deadlock** is not checked where processes may all be done or wait for input,
or where a bound has been used up.

**Fairness.**  `virtio`: strong fairness for each process in `rw`, which competes for
the driver's lock and for descriptors; weak fairness for the device and the
interrupt.  `pipe`: weak fairness for a process in `read` or `write`; nothing is
assumed about closing.  `MCLogWake.cfg`: weak fairness for the commit, recovery,
`end_op` and a woken `begin_op`.  `MCSchedLive.cfg`: weak fairness for each CPU's next
step and for the disk's interrupt, strong fairness for a process's way into and out of the
lock.  `MCProcTableLive.cfg`: weak fairness for a process in the kernel and for dispatching
some process, strong fairness for preemption and for init's turns.  The code's
`find_runnable` starts at slot 0 each time; that it reaches a given process in the
end is an assumption that the code does not guarantee when lower slots are always
runnable.

## Where the code disagrees with its comments and assertions

One disagreement has a run and is in `PROJECT.json`: `fs_unlink`
(`proc/syscall.rs:609`), a successful unlink never calls `end_op`.  The others met
while modelling are stated as properties of their modules.  Where another
instance is needed its configuration or its constants are named; else the
property fails when it is added to the module's own configuration (that of
`Network` for the properties of `E1000` and `Udp`).

| source | property | what happens |
|---|---|---|
| `log.rs:58` | `WaiterWakes`, `MCLogWake.cfg` | `begin_op` sleeps on the address of a local; nobody wakes it |
| `log.rs:87` | `NoPanic`; 3 processes, 3 blocks, 1 value, `MAXOPBLOCKS = 1`, `NLOG = 3`, `Calls = {"open"}` | the log area made by mkfs is smaller than what `begin_op` admits |
| `file.rs:179` | `OutstandingCounts` with `Calls = {"write"}` | a failing write never leaves its transaction |
| `proc.rs:428` | `NoSpinCycle`, `MCSchedSpin.cfg` | `sleep` and `wakeup` take two locks in opposite orders |
| `cpu.rs:145` | `IntenaFollowsThread` | a process that moved uses the interrupt state of its old CPU |
| `bio.rs:111` | `PinnedStays`; `MCBCache.cfg` with 3 blocks and `MaxLost = 1` | `bpin` loses an increment, and a logged block is recycled |
| `virtio.rs:283` | `NoPanic` | a request that gets too few descriptors frees 0 and 1, which may be those of others, and keeps its own |
| `virtio.rs:222` | `NoPanic`; 2 processes, `NUM = 6`, `U16 = 6`, `U32 = 12`, `MaxReqs = 7` | a 32 bit index is compared with the device's 16 bit one |
| `fs.rs:114`, `fs.rs:116` | `LockedIsWanted`, `NoLeak` without `~smp` | an entry with a new inode is used with the old data, or loses its data |
| `fs.rs:565` | `ReadBack` of `FileBlocks` with its `Spec`; 1 file, `NBLOCKS = 12`, the other constants as in `MCFileBlocks.cfg` | the first write to an indirect block goes to block 0 |
| `fs.rs:747` | `lost = {}` | truncation keeps the double indirect blocks; `ImageBlocksOwned` counts them in `lost` |
| `fs.rs:584` | `ReadsDoNotAllocate` in the same way, `NBLOCKS = 16` | a read in the double indirect range allocates |
| `fs.rs:583`, `fs.rs:591` | `ImageBlocksOwned` without `~disk.wild` | a new table in the double indirect range: block 0 is taken for it, and what a word of block 0 names is written to |
| `mkfs/src/main.rs:416` | `Overrun` excludes it from `ImageReadBack` | a root directory that fills its last block gets a size of one block more, which a read then allocates |
| `fs.rs:246` | `UnlinkRefusesDots` | "Cannot unlink '.' or '..'": unlink of `aaa/.` waits for a lock it holds |
| `fs.rs:379` | none: `NoTypeThroughDotDot` names the case | the `..` of a directory that outlives its parent leads to a free inode, or to the one that has its number now |
| `fs.rs:183` | none: the outcomes of `Create` in `Directory` | "if the name does not already exist, `create` now allocates a new inode": a name that exists, or a missing parent, is a panic |
| `proc.rs:375` | none: `MappedPages` names the case | a fault in a mapping whose descriptor was closed stops the kernel |
| `net/arp.rs:133` | `panic = FALSE` of `Network` | an answer that finds the ARP table full panics; each repeated answer takes an entry |
| `file.rs:238` | none: return values are left out of `Pipe` | read of a pipe returns 0 whatever it delivered |
| `proc.rs:452` | `TablesEmptyWhenDropped` without `oom'` | a fork that runs out of memory panics in the drop of the page table |
| `page_table.rs:147` | the same | an sbrk that runs out of memory leaves pages above `sz`, which exit or exec then finds in the table |
| `proc/elf.rs:200` | `TablesEmptyWhenDropped` without its case of exec | exec leaves the pages of mappings in the old table |
| `kalloc/linked_list.rs:94` | `NothingLost` | the part in front of an aligned allocation is lost |
| `uart.rs:93` | `WriterGetsOn`, `MCUartWake.cfg` | a writer on a full buffer is never woken |
| `console.rs:51`, `console.rs:57` | `CtrlDGivesZero`, `LineArrives` | `^D` is not kept; all characters go to one address |
| `e1000.rs:202`, `e1000.rs:230` | `RefusedIsInFlight`, `PacketHasInterrupt` | a full transmit ring looks empty; a packet loses its interrupt |
| `net/udp.rs:216`, `net/udp.rs:90` | `AddressedTo` without `~smp`, `FromPeer` with two peers | a packet is put into a closed socket; packets of any peer are accepted |

## What is proved

The theorems hold for every value of the constants under the assumption that the
component's module states (`LogAssumption`, `SchedAssumption`, ...), which TLC
evaluates in the runs.  In each proof module `IInv` is the inductive invariant,
`InitIInv` says that it holds at first, and there is one lemma for each action that
could break it.

### The log

`LogProofs` proves about `Log`, for every finite set of processes, every set of
blocks and values and every size of the log:

* `LogTypeOK`, `LogPinsBalance`, `LogDirtyIsPinned`, `LogNoDuplicateSlots`,
  `LogOutstandingCounts`: invariants of the log;
* `LogImplementsAtomicDisk`: `Spec => CrashAtomicity`, the refinement.

* `LogReservationHolds`: what `begin_op` has admitted fits into the log area, with
  `MAXOPBLOCKS` blocks for each call besides what is logged already; and from it
  `LogWriteFits`: with the log area that mkfs makes, no write of a call that has
  written at most `MAXOPBLOCKS - 2` blocks meets a panic of `write`.

The same module carries this over to the system calls: if every call reaches
`end_op` on every way out (`BalancedCalls`), then `BalancedCallsAreAtomic`, `FsSpec =>
CrashAtomicity`; `BalancedCallsCommit`, `FsSpec => []QuietIsCommitted`; and
`BalancedCallsReserve`.  The hypothesis holds of the calls of the run `log`; unlink and
write break it.

The assumptions: `Procs` is finite, `InitVal` is a value, `Torn` is none,
`MAXOPBLOCKS` and `NLOG` are positive.

All rest on one inductive invariant, `IInv`.  The invariants alone are not
inductive: that a pinned block is unpinned once needs the header without
duplicates (`NoDuplicateSlots`); that a buffer equals its home block after
`install_trans` needs to know how far the copying has got (`SlotsInv`); that a
crash during `install_trans` is harmless needs the header on disk to be the one
in memory in exactly those phases, and empty in the others (`PhaseInv`); and that
a commit takes in whole system calls needs `committing` to exclude them
(`OutstandingCounts`).  There is one lemma for each action and, for the refinement,
a second one that says which step of `AtomicDisk` it is: `begin_op` is `Begin`,
`write` is `Write`, `end_op` is `End`, `write_head` is `Commit`, a power loss is
`Crash`, and copying blocks, erasing the header and recovery are stutters,
because the image that recovery would bring back (`Recovered`) does not change.
With balanced calls every step of `FsSyscalls` is a step of `Log`, and
`QuietIsCommitted` follows from `IInv`: with no call in progress the header is
empty, so nothing is pinned, so nothing is dirty.

The reservation counts pairs of a call and a block that it wrote (`Written`).  It is
inductive together with `WroteInv`: what a call in progress has written is in the
header, so that a block that is new to the header is new to the call, and is at most
`MAXOPBLOCKS`, so that a call that leaves gives back no less than it used.  `LogWriteFits`
leaves out the last two blocks of a call: the header takes one block of the area
that mkfs makes, and a block that a call writes again is absorbed without a new
slot, but `write` tests for a full log before it looks.

### The scheduler and the sleep-lock

`SchedProofs`, for every number of processes, CPUs and rounds: `SchedOneCpu`,
`SchedMutualExclusion`, `SchedNoLostWakeup`.  None of the three is inductive.  That a
process is on one CPU needs to know, for each point of the scheduler's loop, why
nobody else can find the process that it has in `Cpu.proc`: it executes, or it is
`Allocated`, or it has just left and the CPU still has its lock (`CpuOK`), and that a
process that is not Running has left or is about to, with its lock held
(`Leaving`).  That no wakeup is lost needs to know that from the test of `locked` to
the change to Sleeping, and for the whole of wakeup's scan, a process holds
`inner_lock` (`InnerLock`), and what a process's channel says about it (`Channel`): who
goes to sleep while another scans cannot be at a point the scan has passed.  Most
steps change one CPU and one process; the lemmas `GoesOn` (a process moves to its
next point), `GivesUp`, `TestKeeps` and `Awakes` say what such a step keeps.

### The process table

`ProcTableProofs`, for every number of slots, CPUs and pids:
`ProcTableParentAlive`, `ProcTableNoMissedZombie`, `ProcTableStackLeft`.  The first two
lean on each other: exit wakes the parent and hands its children to init before it
becomes a zombie, so a parent must be alive to be woken, and be awake when the
state changes.  Beyond them the invariant says which state goes with which point
of a call (`Places`), that a fork has a slot that is nobody else's and gets a parent
before it can run (`Forks`), and that init stays alive (`InitAlive`).

### The buffer cache

`BCacheProofs`, for every number of buffers, every set of blocks and contents and
every finite set of processes: `BCacheOneBuffer`, `BCacheListOK`, `BCacheRefcntCounts`,
`BCacheReadsLatest`, `BCachePanicsWhenInUse`, `BCacheTypeOK`.  The counts, and what rests
on them, are right as long as no unlocked update of a count was overwritten
(`lost = 0`, part of the properties), since the code does not prevent that.

The invariant has a part for each idea.  `List`: there is a sequence of all the
buffers, each once, that `next`, `prev`, `head` and `tail` are the links of.  It is not a
count of the links but the list itself, a witness that each step of brelse's
rewiring has to produce anew (`ToFrontKeepsList`); from it follows what the two loops
of `bget` return (`Finds`), for the chains that they walk are prefixes of that
sequence (`ChainIs`).  `Guards`: who has a buffer, and who has its sleep-lock.
`Counts`: a count is the number of guards and of pins, so that a buffer with a guard
keeps its block and a pinned block keeps its buffer.  `Contents`: a valid buffer has
the latest contents, one that is not valid finds them on the disk, and what is newer
than the disk is pinned or has a process that will write or pin it.  `OneBuffer`
needs `List` alone; `ReadsLatest` needs `Counts`, because recycling is harmless only if
a count of 0 means that there is neither guard nor pin.  `PanicsWhenInUse`, that `bget`
panics only when each buffer has a guard or a pin, needs both: that its loop sees
every buffer, and that no count outlives what it counts.

The lemmas take the few facts that they need about finite sets and least numbers as
a hypothesis, `Facts`, which `FactsHold` proves from the library at the end.

### The inode table

`InodeTableProofs`, for every set of inodes, every finite set of processes and every
size of the table.  On one CPU and on several:
`InodeTableIputDoesNotBlock`, `InodeTableRefcntCounts`, `InodeTableNoEntryMeansHeld`,
`InodeTableOneEntry`.  A count is the cardinality of the set of processes at the
entry; each step adds one process to that set or takes one out (`CountIn`,
`CountOut`).  So `iget` panics for want of an entry only when each one is somebody's
inode (`NoEntryMeansHeld`).  `iput` does not block
because who holds the data's lock also refers to the entry (`HoldersRefer`): with a
count of 1 that is the caller, who does not hold it.  In the model a
process refers to one inode at a time; `Files` has those that keep several.

On one CPU (`~smp`) also `InodeTableInUseNotFree`, `InodeTableNoLeak`,
`InodeTableLockedIsWanted` and `InodeTableLinkCounts`.  They need `OneCpuInv`: valid data
is that of the entry's inode and agrees with the disk (`ValidIsDisk`); a reference
is to an allocated inode (`RefUsed`); the link count tells whether the directory
names an inode (`Links`); create and unlink have the directory locked to their end,
so that what unlink has found is still there (`DirLocked`); an unlinked inode with
references has been read, without which `iput` would not see that it is to be freed
(`RemovedValid`); while it is freed nobody else can come by it (`FreeingAlone`); and
what is allocated can be reached (`Reached`).  Of the counts this uses only what a
count of 0 or 1 tells (`CountsTell`).  A panic leaves a call half done, so that `OneCpuInv`
is an invariant up to it, and `HaltTells` carries what the theorems say (`Told`) over
the step that panics.  With more CPUs `LockedIsWanted` and `NoLeak` fail;
see the disagreements.

### Pipes

`PipeProofs`, for every set of processes and every size of the ring: `PipeInOrder`,
`PipeSleepersMustWait`.  `InOrder` needs to know what is in the ring: every byte between
`n_read` and `n_write` is at its index (`RingHolds`), which a write keeps because two
numbers less than the ring's size apart have different indices (`ModApart`).

### The network

Proved of `Network`, the composition of card, driver, sockets and ARP, for every size
of the rings and tables, any sets of ports, hosts and processes, on one CPU
and on several.

`CardProofs` has the card: `NetworkSentInOrder`, `NetworkDeliveredInOrder`,
`NetworkCardOwnsHead`, `NetworkPacketSeen`.  Its invariant `CardInv` says of each ring that
the packets in it are consecutive and that the m-th packet is at m modulo the
ring's size, with the flags `dd` set on those descriptors and on no others (`TxRing`,
`RxRing`); the lemmas `ModApart`, `ModSame` and `ModSmall` and those after them are the
arithmetic of such indices.  `Seen` says who will still look at a packet, `Contents`
what the packets hold.

`NetworkProofs` adds the sockets: `NetworkSleepersMustWait`, `NetworkAddressedTo` (on one
CPU), `NetworkReadInOrder`, `NetworkFramesAddressed`.  That packets are read in order needs
`CardInv`: a queue is in order, newer than what was read from it and not newer than
the packet that the interrupt handler has in its hand, which is the number of those
delivered (`Ordered`).  That they are addressed right needs to know that a block that
is not open is as new, and that the one that `rx` has found stays open until the
packet is in its queue (`OneCpu`), and for what is sent that the ARP table holds only
what hosts have said of themselves (`Resolved`).

### Only model-checked

* All liveness (`RwReturns`, `ClosedPipeFrees` and the `Live` configurations), which is
  out of the prover's reach.
* `Files` and `Directory`: paths are parsed by recursion (`SkipElems`, `Walk`), and
  what a recursive definition computes for every input cannot be proved here.
  `PathsResolve` compares `Namei` with `Walk` on the paths of the run; the other
  properties of `Files` rest on what the turns of namex find.
* `FileBlocks` with `Mkfs`: `bmap` and `iappend` walk tables of tables in loops, written as
  recursion and folds; `ImageReadBack` and `DirectReadBack` are about what those compute.
* `AddrSpace`: `PagesAccounted` is a sum over the tables of all processes, changed by
  folds over address ranges; both would need induction over data.
* `Virtio`: `DescsPartition` and `ServedWhenWoken` hold only while the device's index has
  not wrapped (see the disagreements).  That is a condition on the number of
  requests that the code does not have, so that a theorem for every value of the
  constants would be false.
* `Sched`'s `NoPanic` and `NoffCounts`, `ProcTable`'s `PidUnique` and `CleanSlot`, and `Kalloc`,
  `Uart` and `Console`.

## What is not modelled

* Weak memory.  `SpinLock::acquire` uses Release order for its compare-and-swap,
  which does not order what follows; the models are sequentially consistent.
* Layout: headers, inodes and the superblock, page table entries, registers,
  checksums, the headroom of `MBuf`.
* Frames at which the kernel panics: an Ethernet type, an ARP operation or an IP
  protocol that it does not know (`net/ethernet.rs:57`, `net/arp.rs:126`, `net/ip.rs:100`).
  They do not arrive in `Network`, and neither do answers of a host that nobody asked or
  that speaks for another.  An entry of the ARP table with the hardware
  address 0 (`net/arp.rs:148`) is left out: no host of the model has that address.
* Byte-wise copying between kernel and user (`copy_in`, `copy_out`): a copy
  succeeds or fails as a whole or, for pipes, byte by byte.
* Interleaving within one element of a path, and within the rest of a call from the
  lock of the parent on: in `Files` each is a step, on one CPU.  `InodeTable` has the
  steps of `iget`, `iput`, create and unlink on several CPUs, without names; `ialloc` and
  the `iget` at its end are one step there.
* A power loss during a call on names: the log makes a call atomic (`CrashAtomicity`),
  and `Files` starts from the image.
* In `BCache` the counts change in one step in `bget` and `brelse`, which hold the cache's
  lock; the load and the store of `bpin` and `bunpin`, which do not, are two.  What they
  overwrite counts in `lost`.  That `bget` or `brelse` overwrites a pin would be one more
  lost update, of which the properties promise nothing.
* The conversion of the number of used blocks to 16 bits in mkfs's `balloc`, and its
  assertion that they fit into one bitmap block (`mkfs/src/main.rs:317`).
* Descriptors of pipes and sockets in `Files`, and so `sys_pipe`, whose second failure
  leaves the first descriptor behind (`proc/syscall.rs:385`).
* `udp::send` reads a control block without its lock; it is one step.
* Environment variables and the user programs: sequential, without shared state.
* `killed` is never set in this kernel, so no path of it is there.
* `unmmap` has no caller.

## Plan

1. Composition and abstraction: `BCache` with `Virtio`, `Console` with `Uart`, `Files`
   with `InodeTable` (the steps within an element of a path); a buffer cache as a disk with atomic
   blocks, a pipe as a queue.
2. Models: `sys_pipe` and sockets among the descriptors; the arithmetic of `MBuf`.
3. Proofs: `Virtio` (`DescsPartition`, under a bound on the requests), `Kalloc`
   (`Disjoint`), `Files` (`InodeLifetime`, `OffsetsWithinSize`, for any `Elems`).
