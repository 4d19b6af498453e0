# RogOS in TLA+

RogOS (`../src/src`) is a 32-bit teaching kernel for one CPU: preemptive threads, semaphores and
locks, an IDE disk driver, a keyboard, paging and heaps, an inode file system, processes with
`fork`, and a shell. This directory holds TLA+ models of it, TLC configurations, and TLAPS proofs.
Every definition is translated from the C code and keeps its name where there is one; paths below
are relative to `../src/src`. The repository has no tests and no design documents: what the code is
meant to do is taken from its comments and its `ASSERT`s.

## 1. The system

| part | source | state | operations | interacts with |
|---|---|---|---|---|
| scheduler | `thread/thread.c`, `device/timer.c`, `lib/kernel/list.c` | ready list, status, slice, interrupt flag | `schedule`, `thread_block/unblock/yield/start`, clock interrupt, `idle` | everything |
| semaphores, locks | `thread/sync.c` | value, waiters, holder, repeat count | `sema_down/up`, `lock_acquire/release` | console, memory, disk, keyboard, pids |
| disk driver | `device/ide.c` | channel lock, `disk_done`, `expecting_intr`, registers | `ide_read/write`, `identify_disk`, `busy_wait`, disk interrupt, `partition_scan` | scheduler, file system |
| keyboard | `device/keyboard.c`, `device/ioqueue.c` | ring, sleeping reader, modifier keys | `ioqueue_putchar/getchar`, keyboard interrupt | `sys_read`, shell |
| bitmaps | `lib/kernel/bitmap.c` | bits | `bitmap_scan`, `bitmap_set` | memory, inodes, blocks |
| memory | `kernel/memory.c`, `userprog/process.c` | two page pools, virtual address maps, page tables, arenas, free lists | `malloc_page`, `mfree_page`, `sys_malloc`, `sys_free`, `get_a_page` | processes, file system |
| open files | `fs/file.c`, `fs/inode.c`, `userprog/fork.c` | `fd_table`, `file_table`, `open_inodes` | create, open, close, fork | directories, file contents |
| file contents | `fs/file.c`, `fs/fs.c` | size, block addresses, position, block bitmap, sectors | `file_write`, `file_read`, `sys_lseek` | disk, bitmaps |
| directories | `fs/dir.c`, `fs/fs.c`, `fs/inode.c` | entries in sectors, inodes, bitmaps | mkdir, rmdir, unlink, path search, getcwd, opendir, readdir | disk, open files |
| mounting | `fs/fs.c` | super block, the mounted partition | `partition_format`, `mount_partition`, `filesys_init` | disk |
| processes | `userprog/fork.c`, `exec.c`, `process.c` | address space, descriptors, kernel stack | `process_execute`, `sys_fork`, `sys_execv` | memory, files, scheduler |
| system calls | `userprog/syscall_init.c`, `lib/user/syscall.c`, `kernel/kernel.S` | dispatch table | one per call | everything |
| shell, programs | `shell/*`, `command/*` | working directory, command line | built-in commands, path washing | system calls |
| boot, tables, text | `boot/*`, `userprog/tss.c`, `kernel/interrupt.c`, `lib/*` | descriptor tables | set-up, formatting | |

**How it interleaves.** There is one CPU. A thread with interrupts enabled can be preempted between
any two instructions. A system call enters through an interrupt gate, so it runs with interrupts
disabled and gives up the CPU only where it blocks: on a lock or on the disk. Kernel threads and
`start_process()` run with interrupts enabled. `main` boots with interrupts disabled, never enables
them, and ends in `while(1)` (`kernel/main.c:35`).

**What is hard about it.** Lists that share one link field per thread; locks whose own code is
preemptible; interrupts that arrive early, late or for nobody; system calls that choose something
(a slot, an inode, a block, a page), wait, and then use it; three ways a file can grow over the
border between direct and indirect blocks; entries, inodes and two bitmaps that must stay in step;
8-bit and 32-bit arithmetic at the borders; maps that are full; a disk that may be left between any
two sectors of a call; key codes, line buffers and working directories that are remembered and not looked at
again. `PROJECT.json` lists these hazards
with the lines at which they bite and the properties that would catch them going wrong.

## 2. The modules

| module | models | state in the code | one action is |
|---|---|---|---|
| `Threads` | scheduler | `thread_ready_list`, `status`, `current`, `ticks`, IF (`intr`; `saved_if` for a thread that is switched out) | operators for one call of `thread.c`, used by the modules below |
| `Sync` | `sync.c` | `value`, `waiters`, `holder`, `holder_repeat_nr`, and the program point `pc` of a thread inside `sync.c` | what runs between two points where a preemption could matter |
| `LockClients`, `Mutex` | the most general legal client of both; the counted lock it is promised | `held`, `depth`: what the client believes | a call, a step of `sync.c`, a tick |
| `Ide` | driver, drive, `mtime_sleep`, `main`, processes | `expecting_intr`, the registers, the drive, the locals of a request | from one place where the driver waits to the next |
| `IoQueue`, `KeyQueue` | keyboard buffer; the bounded queue it promises | ring, `consumer` | a step of `ioqueue_getchar`, an interrupt |
| `Keyboard` | keys, scan codes, `intr_keyboard_handler` | the three statuses, `ext_scancode`, the bytes on the wire | a key goes down or up, an interrupt |
| `Terminal` | `readline`, `cmd_parse`, the choice of a command in `my_shell`, behind `Keyboard` | `cmd_line`, the cursor, the screen | one character read, one line run |
| `Bitmap` | `bitmap_scan` and its callers | bits, and the bit behind them | an allocation, a release |
| `Memory` | `memory.c`; what starting a process, `fork` and `exec` take | pools, virtual address maps, page tables, arenas, free lists | one call; `get_a_page()` in two |
| `FileIO`, `AppendFile` | reading and writing; the append-only file it promises | inode, bitmap, sectors, locals of each call | from one disk access to the next |
| `OpenFiles` | descriptor tables, inodes in memory, fork | `fd_table`, `file_table`, `open_inodes`, the directory's sector | from one disk access to the next |
| `DirTree`, `FileTree` | directories; the tree of names they promise | the partition: inodes, sectors, tables, bitmaps | one system call |
| `Shell` | the built-in commands on `DirTree`, beside programs | working directory, the path that the prompt prints (`cwd_cache`) | one command |
| `Format` | the layout that `partition_format` computes | none: operators on the size of a partition | |
| `FsCrash`, `AtomicFs` | formatting, mounting and every changing call, with crashes; the atomic calls they promise | the disk sector by sector, the bitmaps and the root in memory, the writes that a call has yet to make | one sector write, a crash, a restart |
| `ThreadsProofs`, `LockClientsProofs`, `IoQueueProofs`, `IdeProofs`, `FileIOSteps`, `FileIOProofs`, `OpenFilesProofs`, `StandaloneProofs` (of `Bitmap`, `Format` and `Keyboard`, which use no other component) | the proofs | | |

`Sync` extends `Threads`; `LockClients`, `Ide` and `IoQueue` compose both with a component.
`Terminal` composes the keyboard with the shell's line editor, `Shell` the shell's commands with the
directories, `FsCrash` the layout with the calls. The file-system modules take the scheduler's
guarantee (one call runs until it waits) as their step size, and take for granted that there are
running processes that make calls. `MC*` modules give the constants that a `.cfg` cannot write.

Five promises are stated as specifications of their own and checked as refinements: `LockClients`
implements `Mutex` (`ImplementsMutex`), `IoQueue` implements `KeyQueue` (`ImplementsQueue`),
`FileIO` implements `AppendFile` (`FileRefinesAppend`), `DirTree` implements `FileTree`
(`ImplementsTree`) and `FsCrash` implements `AtomicFs` (`CallsAreAtomic`). The chain goes on where
modules meet: `Keyboard` uses the bounded queue in place of the ring.

Data is abstracted to what the properties tell apart: a name is a model value, a character is a row
and a column of `keymap`, a path is the sequence of its names, a byte of a file is its file and its
number modulo 3, a directory's size counts entries, and in `FsCrash` a file's size counts blocks and
an inode is its words: the number and size first, then the addresses of its blocks.
Sizes that the code fixes (256 sectors per command, 12 + 128 blocks, 4096-byte pages, 64 slots, 512
bytes in a sector, 128 characters in a line) are constants, so that their borders are reached in a
few steps. An `ASSERT` that fails sets `panic` (`fault` in `OpenFiles`, `"failed"` in `Terminal`)
and nothing happens any more.

## 3. What the runs check

| run | what it shows |
|---|---|
| `locks` | Threads that start, nest a lock, yield, switch interrupts off and on and are preempted between any two steps of `sync.c`: no `ASSERT` fires (`NoPanic`), no wakeup is lost (`NoLostWakeup`), and what clients see is a counted lock with one thread inside (`ImplementsMutex`). |
| `ide` | Boot and a process share a drive: no command is sent to a busy drive and one thread drives it at a time (`ChannelExclusive`), an interrupt of an earlier command never lets a thread move another one's data (`TransferIsMine`), a finished request moved exactly its sectors (`RequestComplete`), the operation that owns the channel ends (`OperationsFinish`), and a ready thread gets the CPU (`ReadyRunsDuringBoot`), the last two unless `main` has reached its loop. |
| `ide_ready_runs` | **Violated**: without that exception a ready thread waits for ever (`ReadyRuns`, section 6). |
| `ioqueue` | Two readers, the keyboard interrupt and `main`, which boots, waits for the disk any number of times and ends in its loop: a sleeper is always recorded (`SleeperIsRecorded`), the ring is a bounded queue (`ImplementsQueue`), and a reader that has the keyboard to itself gets the characters in the ring unless `main` has reached its loop (`TypedIsRead`). |
| `bitmap` | Against a reference definition, over every map with a clear bit and whatever is behind it: `bitmap_scan()` finds the lowest run among the bits it looks at, which for runs of two and more include the one behind the map (`ScanFindsFirstRun`); runs handed out are disjoint and are the bits set (`RunsDisjoint`). |
| `file_io` | A writer and a reader of one file and a writer of another, interleaved at each disk access: `NoPanic`, no block in two places (`BlocksExclusive`), as many blocks as the size needs (`SizeHasBlocks`), reads return what was written (`ReadCorrect`), and each file only ever grows (`FileRefinesAppend`). |
| `open_files` | A process and the child it forks: until a descriptor is inherited, `i_open_cnts` counts slots (`CountMatchesTable`) and a descriptor has a slot of its own (`OwnSlot`); always, no slot refers to a freed inode (`SlotsCounted`). |
| `open_files_slot_race` | **Violated**: `OwnSlot` once two calls may wait for the disk (section 6). |
| `dir_tree` | The shell's commands and the calls of programs in any order: entries, inodes, `.` and `..` form a tree (`TreeWellFormed`), the block bitmap is exact (`BlocksAccounted`), all of it is a tree of names from which no open file is removed (`ImplementsTree`); a path that the shell has washed leads where its names lead one by one (`WashedLeadsThere`), no argument with dots gets a command into an `ASSERT` (`CommandsSafe`), and while the working directory exists `pwd` names it (`PwdIsCwd`) and `ls` lists each entry once (`ListingComplete`). |
| `memory` | The kernel and processes that start, fork and load programs allocate and free in every order: `NoPanic`, no two blocks share a byte with each other or with a program (`BlocksDisjoint`), every block is free once or in use (`HeapAccounted`), every page marked is mapped once and from the right pool (`PagesOnce`). |
| `fs_crash` | The machine stops between any two sectors that a call writes and restarts, twice: each call is done or not begun (`CallsAreAtomic`) and nothing in use is marked free (`MountFindsSound`), but for stops inside a creation, inside a format, and inside a write to a file whose inode has its size in one sector and its blocks in the next; without a crash nothing leaks (`NothingLeaks`); the regions of the partition stay apart and every block of a file lies in the data area and is not the root's (`InsidePartition`). |
| `terminal` | Keys with modifiers in every order while the shell edits, splits and runs lines: the statuses agree with the keys (`StatusMatchesKeys`), each character is the one that was meant (`KeysDecoded`), the line is what the keys left of it whatever its cells held before (`LineEdited`), and its words are found, or the line is refused when there are too many (`WordsParsed`, against a reference definition). |

Three configurations go further than the runs, and hold as well: `IdeTwoProcesses` (`MCIde`; two
processes contend for the channel, and the driver panics only after a whole `busy_wait()`,
`PanicOnlyOnTimeout`), `DirTree` (`MCDirTree`; paths of three names, sizes count entries, search and
`getcwd` are right) and `MemoryTables` (`MCMemory`; address spaces of two page tables).

### Bounds, and why they are enough

- `locks`: two threads besides `main` and `idle`, one lock, nesting two deep, slices of two ticks:
  a holder, a waiter and one that overtakes. The proofs (section 5) lift all of these bounds.
- `ide`: three sectors, two per command, so that requests have a full and a partial round and the
  count register wraps; `time_limit_ms = 3` lets the countdown end. `MainEnd` includes `"block"`,
  which `main.c` does not do: `main` never frees the channel between two of its requests and then
  spins, so with `"spin"` alone no process would get the channel. With both, `main` may still be
  booting, spin, or be gone while processes use the drive. `identify_disk()` takes no lock; that no
  process drives the channel meanwhile rests on there being no mounted partition yet (the guard
  `identified` of `SysCall`), not on the driver.
- `ioqueue`: three slots hold two characters, so the ring wraps, fills and drops keys; reads of up
  to two characters. Two characters are enough to see an exchange.
- `bitmap`: two bytes of four bits; runs of up to three bits straddle the byte border and the end of
  the map. The bit behind the map is set or clear (`After = {0, 1}`).
- `file_io`: two-byte blocks, two direct and three indirect, writes of one and three bytes up to six: a
  write may stay in a block (direct or indirect), take direct blocks, cross into the indirect table or
  grow inside it, and end on a border; a write of 20 is refused. Together the two files are followed up
  to five bytes and one write further (`mcFollowed`). One descriptor reads and seeks.
- `open_files`: three slots, two descriptors per process, five addresses for inodes; slots and
  descriptors run out. `MaxWaiting = 1`: one call waits for the disk at a time. The code does not
  guarantee this; section 6 drops it.
- `dir_tree`: two names, four inodes, six blocks, four entries in a sector. Arguments typed at the
  shell have up to two names, `.` and `..` among them, absolute or not; programs use plain paths. A
  directory stays within its first sector (`.`, `..`, two entries); section 6 shows what happens
  beyond it. Requests that would find a full bitmap are not made (`has_room`). Calls that only
  return -1 change nothing and are not steps. `mcGone` follows a shell whose directory was removed
  only while one other directory or file is left.
- `memory`: nine-byte pages with arenas of two block sizes, requests of 2, 4 and 9 bytes (the last
  one takes pages), two processes of which one may be the other's child, programs of one segment,
  at most three blocks in use and one of them the kernel's (`mcKernel`). Requests that would empty a
  pool are not made: the bitmap's `ASSERT` would fire. `Preempt`, `ForkHeap` and `ExecHeap` are
  off; section 6 turns each of them on.
- `fs_crash`: two names for files and directories, one direct block and a table of two, inodes that
  lie in one sector or in two, bytes of two bits, partitions of 11 and 12 sectors with three and
  four blocks beside the root's, and two crashes: the second one meets what the first one left. The
  regions that a format clears are one step each: it is excepted as a whole (section 6). A damaged
  disk is not followed further, nor the larger partition behind its second crash, whose disk is
  still checked (`mcFollowed`).
- `terminal`: two letters, of which `u` is also a command and ctrl makes a command of the line
  editor of both (ctrl+u, ctrl+l), space, backspace, enter, caps lock, an extended key, right shift
  and right ctrl (with a prefix); lines of five characters, which hold three words, one more than
  `cmd_parse()` lets through; one character in the buffer. What is typed after the shell has left
  for an external command is not followed, and lines of more than two characters are made of `u` and
  spaces, without modifiers (`mcReads`). The proofs lift the bounds on keys.

### Fairness

`Ide` and `IoQueue` assume weak fairness of what the CPU does in the kernel (`KernelStep`: it never
pauses) and strong fairness of the clock and, in `Ide`, of the disk interrupt: the 8259A holds a
request until interrupts are enabled, so an interrupt that is enabled again and again is taken.
`Ide` adds weak fairness of the drive. Nothing is assumed of user code or of the keyboard. All other
specifications are about safety only.

## 4. What is only model-checked

- Liveness: `OperationsFinish`, `ReadyRunsDuringBoot` and `TypedIsRead`. It rests on fairness, which
  is out of the prover's reach. All three end when `main` reaches its loop, behind which nothing runs.
- `DirTree` and `Shell`: a path is followed, and a directory searched, by a recursive operator, which
  rules out proofs about these modules.
- `Terminal` beyond the keyboard (`LineEdited`, `WordsParsed`): what `cmd_parse()` makes of a line is a
  fold over its characters, and a statement about every line needs induction over sequences.
- `CountMatchesTable` and `OwnSlot` of `OpenFiles`: they hold while one call at a time waits for the
  disk, which the code does not guarantee, so there is no general statement to prove.
- `Memory` and `FsCrash`: safety properties within the prover's reach in principle, with no inductive
  invariant written down yet.

## 5. What is proved

`LockClientsProofs`, for every set of threads and locks, every priority and every nesting bound,
under the named assumptions of `Threads`, `Sync` and `LockClients` (`idle_thread` and `main_thread`
are two threads, names of threads, locks and `NULL` are distinct, `MaxNest > 0`):

| theorem | statement |
|---|---|
| `Invariance` | `Spec => []Inv` |
| `TypeCorrect` | `Spec => []TypeOK` |
| `NeverPanics` | `Spec => []NoPanic` |
| `ReadyListSafe` | `Spec => []ReadyListConsistent` |
| `OneListPerTag` | `Spec => []TagInOneList` |
| `NoWakeupIsLost` | `Spec => []NoLostWakeup` |
| `LocksExclude` | `Spec => []MutualExclusion` |
| `BookkeepingAgrees` | `Spec => []HolderMatchesClient` |
| `LocksImplementMutex` | `Spec => ImplementsMutex` |

Mutual exclusion is not inductive: between `sema_down()` and the assignment to `holder`, and between
clearing `holder` and `sema_up()`, a lock is taken although nobody is recorded. `Inv` therefore
says who *owns* a lock (`Owns`: the recorded holder, or a thread at one of those points), that there
is at most one owner and one exactly while the semaphore is 0 (`LockInv`), what each program point
implies for the client's locals (`ClientInv`), why a thread that is not ready does not run
(`StatusInv`), and the scheduler's part (`SchedInv`, from `ThreadsProofs`: one running thread, the
ready list without repetition, which interrupt flag a thread resumes with). The proof that a step
preserves `Inv` has a lemma per action (`AcquireInv` ... `TimerInv`, joined in `NextInv`); frame
lemmas (`ClientFrame`, `ClientStep`, `LockStep`, `QuietStep`) say once what a step of one thread
leaves alone. `ThreadsProofs` has the facts about the list operations and about `schedule()`. The
refinement maps the abstract lock's `inside` to `held` and `depth` of the clients: the step at which
a client's `lock_acquire()` returns is `Enter` (`AcquiredEnters`, from the single owner of `LockInv`),
the call of `lock_release()` is `Leave` (`ReleaseLeaves`), and every other step leaves `inside` alone.

`StandaloneProofs`, for every set of keys and every capacity of the buffer, as long as no two shifts,
ctrls or alts are down together (`~Together`; section 6 shows why):

| theorem | statement |
|---|---|
| `StatusesRight` | `KeyboardSpec => []StatusMatchesKeys` |
| `KeysRight` | `KeyboardSpec => []KeysDecoded` |

`StatusMatchesKeys` speaks of the moments when no byte is on its way; in between, the handler's
belief lags behind. The inductive invariant says what is on the wire: nothing (`Quiet`), the one or
two bytes of a modifier that has changed (`Shifting`), or what is left of the make and break codes of
a key that was struck (`Making`, `Breaking`), and what the handler knows in each case.

`StandaloneProofs`, for every size of byte and map, every set of run lengths, every order of allocations
and releases and whatever is behind the map:

| theorem | statement |
|---|---|
| `ScanFindsTheFirst` | `Spec => []ScanFindsFirstRun` |
| `NoBitTwice` | `Spec => []RunsDisjoint` |
| `InsideIfCareful` | `Careful => (Spec => []RunsInsideMap)` |

`Careful` says that the bit behind the map is set or that every caller asks for one bit, as `palloc()`,
`inode_bitmap_alloc()` and `block_bitmap_alloc()` do; `vaddr_get()` asks for more, and there
`RunsInsideMap` is refuted (section 6). The work is in the loops of `bitmap_scan()`. The second one is
a function of the bit it has reached; the lemmas say, by induction on that bit, that its count is the
length of the run of clear bits that ends there and that no run before it was long enough. The
invariant adds to `RunsDisjoint` what the bit behind the map is once it has been handed out.

`StandaloneProofs` also has `LayoutIsSound`, for every size of partition, sector, inode and inode table (an
inode is no larger than a sector, and the partition has more sectors than the parts before the data
need), that is `LayoutSound(sec_cnt)`: every bit of both bitmaps lies in the sectors of its bitmap,
every byte of an inode in the one or two sectors that `inode_locate()` names and those in the inode
table, and every block whose bit is clear inside the partition. The argument rests on two
inequalities: rounding a bitmap up to sectors leaves room for its bits (`RoundUp`), and the bitmap
that is computed for the blocks that remain is no larger than the one that was set aside for all
free sectors (`DataFits`).

`IoQueueProofs`, for every buffer size, set of readers and set of characters:

| theorem | statement |
|---|---|
| `RingIsQueue` | `Spec => ImplementsQueue` |
| `SleepersAreRecorded` | `Spec => []SleeperIsRecorded` |

The invariant of the first only says that `head` and `tail` are slots of the buffer
(`RingInv`); the work is in showing what the remainders of `ioqueue.c` compute. `NextPos` and
`SizeAndPlace` write `next_pos()`, the length of the ring and the slot of its i-th character without a
remainder, and with them `ioqueue_putchar()` appends a character to the queue (`PutAppends`) and
`ioqueue_getchar()` takes the first one (`GetTakes`). The second one needs the scheduler and the lock:
`SleepersInv` joins `SchedInv` with who is inside the lock and what its fields say at each point
(`LockInv`, one thread between `sema_down()` and `sema_up()`), where a call inside `sync.c` returns to
(`FrameInv`), that the sleeper is the one recorded (`SleepInv`), and that the disk interrupt finds
`main` in the waiting list when `main` is asleep (`DiskInv`), so that it wakes nobody else.

`IdeProofs`, for every set of processes, every size of the drive, of a command and of a request, and
every time limit:

| theorem | statement |
|---|---|
| `ChannelIsExclusive` | `Spec => []ChannelExclusive` |
| `TransfersAreMine` | `Spec => []TransferIsMine` |
| `RequestsAreComplete` | `Spec => []RequestComplete` |
| `PanicsOnlyOnTimeout` | `Spec => []PanicOnlyOnTimeout` |

The kernel may stop in `busy_wait()`, so the inductive invariant `DriverInv` is `IdeInv` while it runs
and the four properties themselves once it has stopped. `IdeInv` says what a thread's point implies
for its request, its progress and its return point (`ThreadOK`: which sectors have moved after how many
rounds), that `identify_disk()`, which takes no lock, is over before any other thread uses the drive
(`IdentifyInv`), who is inside the channel lock (`LockInv`), and how far the drive is
for the one thread that drives it (`ChannelInv`: after the command and until `sema_up()` there is
exactly one of a busy drive, a pending interrupt and a raised semaphore, and otherwise none). The last
is what excludes a late interrupt. `IdeInv` was checked with TLC on the constants of `Ide.cfg` first.
There is a lemma per action; the steps inside `sync.c` use the facts about `schedule()` and
the lists from `ThreadsProofs`.

`FileIOProofs` (with the invariant and the steps that allocate nothing in `FileIOSteps`), for any number
of files, descriptors and blocks, any size of a block and any number of direct and indirect blocks,
with one writing descriptor per file (as `FileIOAssumption` says):

| theorem | statement |
|---|---|
| `BlocksAreExclusive` | `Counted => (Spec => []BlocksExclusive)` |
| `SizesHaveBlocks` | `Counted => (Spec => []SizeHasBlocks)` |
| `ReadsAreCorrect` | `Counted => (Spec => []ReadCorrect)` |
| `FilesRefineAppend` | `Counted => (Spec => FileRefinesAppend)` |
| `FilesNeverPanic` | `Counted /\ Roomy => (Spec => []NoPanic)` |
| `PositionsInFile` | `Counted /\ Roomy => (Spec => []PositionInFile)` |

`Counted` says that a file's limit (140 blocks of 512 bytes) plus a count stays below 2^32: the code
adds them in `uint32_t` and a larger count would wrap around the test of the limit. `Roomy` says that
the partition has room for every file at its largest, that no file grows into its last block and that
no write is of zero bytes: an `ASSERT` fires, or a position leaves its file, where one of these fails
(section 6), so they cannot be dropped. The constants of `FileIO.cfg` satisfy both. The invariant `IInv` says what a writer has done
at each disk access: planned (`Planned`), allocated some blocks, of which those of the indirect table
are in `all_blocks` only (`Allocating`), has all of them and fills the last (`Writing`); what a reader
has yet to read (`ReaderOK`); where each byte is (`Data`); and that each block is in one *place*
(`Exclusive`), where the place of a block is the inode, the table on the disk or, while the table is
being filled, the writer's `all_blocks`. That the places are told apart in this way is what makes
exclusion inductive. `FilesNeverPanic` adds that a write stays within its bound (`Room`) and counts:
the blocks in use inject into the places, so while there is room, one is free. The refinement maps
the content of a file to the bytes below `i_size`; only `write_next()`, which raises `i_size`, is a step
of `AppendFile`.

`OpenFilesProofs`, for every finite number of processes, slots and descriptors, any number of files and
addresses, with inherited descriptors and with any number of calls waiting for the disk (every value of
`MaxWaiting`):

| theorem | statement |
|---|---|
| `SlotsAreCounted` | `Spec => []SlotsCounted` |

With two calls waiting, one may take the slot the other has chosen (section 6), and with an inherited
descriptor a slot may be closed twice: slots do not belong to descriptors, and counts are not exact.
What survives is a bound, `i_open_cnts` of an inode is at least the number of its slots, and it is
enough to keep `inode_close()` from freeing an inode that a slot refers to. `OpenInv` adds to it what a
call that waits may rely on (`Own`: its inode is not on the list and no other call works on it; an
open's has no slot yet, a creation's at most the one it chose) and that the list names each inode
once (`List`), so that `list_remove()` takes an inode off it and an address from `sys_malloc()` is not on it.
There is a lemma per action (`Opens`, `InodeRead`, `Creates`, `EntrySteps`, `Created`, `Closes`,
`Forks`), and lemmas about the helpers (`FreeSlot`, `Installs`, `Removes`, `SlotCount`).

## 6. Where the code and its comments disagree

Two disagreements are runs of the project:

- `ide_ready_runs`: `thread/thread.c:43` says that interrupts must be enabled lest no other thread
  be scheduled; `main` reaches `while(1)` (`kernel/main.c:35`) with interrupts disabled. From then
  on `init`, the shell and every ready thread wait for ever. `bochs.out:203-217` records such a
  stop: IF clear, and an EIP that `build/kernel.map` places in that loop.
- `open_files_slot_race`: `file_open()` takes "a free slot" (`fs/file.c:14`) and waits for the disk
  in `inode_open()` (`fs/file.c:198`) before the slot is marked; a second open takes the same one.

More properties that a comment or an `ASSERT` states are defined in the modules and refuted by TLC.
To see one, take the `.cfg` that the first column names, change the constants as it says and put the
property, as an `INVARIANT`, in place of those of the file. They show where the bounds of the
passing runs are needed.

| configuration | property | what TLC shows |
|---|---|---|
| `Ide`, `time_limit_ms = 30` | `BusyWaitWithinLimit` | "等待30秒" (`device/ide.c:137`), but `time_limit -= 10 >= 0` takes off 1 per 10 ms |
| `IoQueue` | `SleepsOnlyWhenEmpty` | a reader that waited for the lock sleeps on a ring with characters (`device/ioqueue.c:48`) |
| `Bitmap` | `FailureIsReported` | a full map fails an `ASSERT` instead of giving -1 (`lib/kernel/bitmap.c:27`) |
| `Bitmap` | `RunsInsideMap` | a run may include the bit behind the map (`bitmap.c:46`) |
| `FileIOWriteLimit` (kept as a file) | `WriteUpToLimit` | the largest file that is allowed fails `ASSERT` at `fs/file.c:284` |
| `FileIOWriteLimit`, `Reader = {"w1"}`, `WriteCount = {3}`, `MaxSize = 9` | `ReadWhatWasWritten` | a file that was written cannot be read to its last block |
| `FileIO`, `WriteCount = {0, 1}` | `PositionInFile` | a write of nothing to an empty file leaves `fd_pos` at 2^32 - 1 (`fs/file.c:395`) |
| `OpenFiles`, both processes in `Initial`, `MaxWaiting = 2` | `OneInodePerFile` | two opens of one file make two inodes (`fs/inode.c:119`) |
| `OpenFiles`, both processes in `Initial` | `OneWriter` | closing a reader clears `write_deny` (`fs/file.c:226`) |
| `OpenFiles` | `CloseAnswers` | parent and child close one inherited descriptor: `NULL` is followed |
| `OpenFiles` | `FreesKernelMemory` | an inode from a process's heap (`fs/file.c:118`) is freed as kernel memory (`fs/inode.c:135`) |
| `OpenFiles`, both processes in `Initial`, `Existing = {}`, `MaxWaiting = 2` | `EntriesKept` | two files are created at once: both calls read the directory's sector, wait for the disk and write it back, and one entry is lost (`fs/dir.c:198-205`) |
| `DirTreeGrow` (kept as a file) | `DeleteFindsOne` | an entry in a new sector is written twice (`fs/dir.c:191-206`), and deleting it fails an `ASSERT` |
| `DirTree` | `SearchFindsOnlyExisting` | a path through a regular file finds that file (`fs/fs.c:345`) |
| `DirTree`, `Path <- mcPathRoot` | `RemoveAnswers` | removing `/` fails `ASSERT(inode_no != 0)` instead of giving -1 (`fs/fs.c:540`, `fs/fs.c:756`) |
| `DirTree`, `Path <- mcPathDots` | `EntriesLeadSomewhere` | `rmdir` of `/x/.` frees the inode of `x` and leaves its entry (`fs/dir.c:410`) |
| `Memory`, `Preempt = TRUE` | `PagesOnce` | a starting process scans the kernel's pool without its lock (`kernel/memory.c:130`; "扫描或设置位图要保证原子操作", line 93) |
| `Memory`, `ForkHeap = TRUE` | `HeapAccounted` | a child frees a block it inherited: it goes to the parent's free list (`userprog/fork.c:26`) |
| `Memory`, `ExecHeap = TRUE` | `BlocksDisjoint` | a program is loaded over blocks of the heap that `execv()` keeps (`userprog/exec.c:84`) |
| `Memory`, `Segment <- mcFirstPage` | `NoPanic` | a segment on the first page of the space fails the `ASSERT` of `get_a_page()` |
| `FsCrash` | `CreationSound` | the entry of a new file reaches the disk before its inode and its bit (`fs/file.c:147`) |
| `FsCrash` | `FormatSound` | the superblock is written first (`fs/fs.c:65`): a format that was cut off is mounted |
| `FsCrash` | `SplitWriteSound` | an inode in two sectors (`fs/inode.c:70`): a stop between them leaves the new size with the old blocks |
| `FsCrash`, `BITS_PER_SECTOR = 40` | `InsidePartition` | with fewer blocks than a byte has bits, the byte that was set is cleared again, bit 0 with it (`fs/fs.c:83-88`), and the root's block is handed out |
| `FsCrash`, `BITS_PER_SECTOR = 5`, `SecCnt = {14}` | `MountFindsSound` | the bit of the indirect table is not synced by itself (`fs/file.c:336`) and is lost when the table's bit is the last of its sector |
| `FsCrash`, `U8 = 2` | `MountFindsSound` | `inode_sync()` keeps 8 bits of the inode number (`fs/inode.c:43`) |
| `Terminal`, `Hold = {42, 54}`, `Together = TRUE` | `StatusMatchesKeys` | with both shifts down, letting go of one clears the status (`device/keyboard.c:134-135`) |
| `Terminal`, `Hold = {56}` | `AltRecorded` | alt is never recorded as down |
| `Terminal`, `cmd_len = 3` | `LineInArray` | `readline()` may store 512 characters in 128 (`shell/shell.c:142`) |
| `Terminal` | `LineHasWord` | a line of blanks has no `argv[0]` to compare |
| `Terminal` | `ArgvInBounds` | `argc > MAX_ARG_NR` is tested behind the store (`shell/shell.c:124`) |
| `Shell` | `GetcwdAnswers` | `pwd` in a removed directory fails an `ASSERT` |
| `Shell` | `PromptIsCwd` | `cd` clears 512 bytes of the 64 of `cwd_cache` (`shell/shell.c:165`), and with them `final_path`, which `build/kernel.map` places 128 bytes behind it and which is copied next: from the first `cd` on the prompt is empty |

Read off the code and not modelled: the endless loop at `fs/dir.c:292`, the fourth primary
partition (`device/ide.c:304`), `next_pid` read after its lock is released
(`thread/thread.c:54`), `invlpg` of the local variable `vaddr` and not of the page that is freed
(`kernel/memory.c:346`), whose translation stays in the TLB until CR3 is loaded again, the length of a grandchild's name (`userprog/fork.c:37`), and the pages that
`malloc_page()` would keep when it fails half way (`kernel/memory.c:165`).

## 7. Not modelled, and why

- Boot code, `tss.c`, descriptor tables: straight-line hardware set-up. `print.S`, `stdio.c`,
  `string.c`: bytes and formatting, on which no property depends. `bochs/`, `build/`: tools and
  artefacts. `switch.S` and `kernel.S` appear as the change of the running thread and as the
  interrupt flag that a system call enters and leaves with.
- `partition_scan()` runs once during boot on one thread, over a table that nothing else touches;
  the second channel is the first one again, with its own lock and semaphore.
- The parsing of ELF headers in `exec.c` and the kernel stack that `fork()` builds are layout. Pids
  and `thread_all_list` are read by `ps` alone; `thread_start()` appends to the ready list, and the page
  it takes for the `task_struct` is left out of `Threads`.
- Two calls on one directory at a time are cut at their disk accesses only for creation
  (`OpenFiles`, where `EntriesKept` is refuted). `DirTree` and `FsCrash` run one call at a time, so
  what they show holds for one caller and not for two: there is no lock over the file system.
- A lock that is never lost but may be overtaken: `lock_release()` wakes the first waiter and leaves
  the lock free, so a waiter may find it taken again, for ever. No fairness that the scheduler gives
  rules this out, and `OperationsFinish` is about the thread that owns the channel for this reason.
- Failure paths after an exhausted heap or bitmap are unreachable, because the bitmap's `ASSERT`
  fires first.
