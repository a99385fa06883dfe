# Verification of the operatingsys repository

The repository holds four course projects in C: a user-level thread library
(`ulpt-noodlez102`), copy-on-write thread storage (`copy-on-write-noodlez102`), a file
system on a virtual disk (`file-systems-noodlez102`) and a shell with its parser
(`parser-for-shell-noodlez102`). This directory holds TLA+ models of all four, the TLC
configurations that check them, and proofs about each of them that TLAPS checks.
`PROJECT.json` lists components, runs, mutants, source lines, findings,
hazards and theorems.

## Inventory

| Component | State | Operations | Interaction | What is hard, and what makes it correct |
|---|---|---|---|---|
| Threads (`threads.c` 1-235) | `threads[]` (status, stack, tid, exit_status, regs), `current_tid`, `num_threads`, the timer, the signal mask | `schedule`, `scheduler_init`, `pthread_create/exit/join/self` | programs call it; SIGALRM runs `schedule` between any two instructions | interleaving with the handler. No thread is lost or runs on a freed stack, ids name slots, joins deliver the right value, READY threads get the processor |
| Mutex (244-367) | `locked`, a linked list of waiters, the mask | `pthread_mutex_init/destroy/lock/unlock` | changes thread status, calls `schedule` with SIGALRM blocked or not | exclusion, no lost or double wake-up, FIFO, nobody sleeps on a free mutex |
| Barrier (255-262, 369-447) | `count`, `threads_blocked`, `serialed`, `init` | `pthread_barrier_init/wait/destroy` | polls with `schedule` | no early pass, every wait returns, one serial thread, reuse |
| Thread storage (`tls.c`) | `tid_tls_pairs[]`, areas, pages with `ref_count`, protection | `tls_create/destroy/read/write/clone`, fault handler | threads share pages | private areas although pages are shared, exact counts, slots running out, wrap-around |
| File system (`fs.c`) | superblock, bitmap, inodes, directory, descriptors | `make_fs`, `mount_fs`, `umount_fs`, `fs_*` | reads and writes blocks of the disk | what survives a remount, block ownership, offsets after truncate |
| Disk (`disk.c`) | `active`, `handle`, blocks | `make/open/close_disk`, `block_read/write` | used by the file system | bounds, one open disk |
| Parser (`myshell_parser.c`) | the position in the line, the pipeline under construction | `pipeline_build`, `pipeline_free` | called by the shell | errors in the middle of a command, what is then freed; accepts only the grammar of its comments, and the pipeline says what the line says |
| Shell (`myshell.c`) | processes, pipes, SIGCHLD | `main`, `doCommand`, `signalHandler` | fork, exec, waitpid | pipelines end, descriptors are closed, children are reaped |

## Modules

| Module | Models |
|---|---|
| `UThreads` | `threads.c` 1-367: threads, scheduler, timer, mutex, and the programs that call them |
| `WaitList`, `Fifo` | the mutex's list with its pointers, and the queue it implements |
| `Barrier` | `threads.c` 369-447 with the programs of `barriertest.c` |
| `CowTls`, `PrivateStorage` | `tls.c`, and one private area per thread, which it implements |
| `MCCowTls` | symmetry and view for TLC |
| `Parser` | `myshell_parser.c`, with the copies it allocates |
| `Disk`, `FileSystem` | `disk.c`, and `fs.c` on its blocks |
| `FileStore` | files as sequences of cells, which `FileSystem` implements while a disk stays mounted |
| `MCFileSystem` | symmetry and views for TLC |
| `Shell` | `myshell.c` with the processes and pipes it makes |
| `MCShell` | the lines that are typed |
| `UThreadsProofs`, `WaitListProofs`, `BarrierProofs`, `CowTlsProofs`, `ParserProofs`, `FileSystemProofs`, `ShellProofs` | theorems about the module of that name |
| `FileStoreProofs` | `FileSystem` implements `FileStore` |

### UThreads

Variables have the names of the C globals and fields: `status`, `stack`, `tid`,
`exit_status`, `current_tid`, `num_threads`, `is_first_call`, `locked`. `blocked_threads`
is the list of waiters as a sequence (justified by `WaitList`). `alarm` is the timer and
`sigmask` whether SIGALRM is blocked for the executing thread. `setjmp`/`longjmp` do not
save the mask, so a new thread, and one that called `schedule` itself, goes on with the mask
it finds. A thread that the alarm descheduled is still in the handler (`in_handler`): when it
is switched to, it returns from there, and the kernel restores the mask it was interrupted
with, in which SIGALRM is not blocked (`MaskAfter`). So a `pthread_mutex_lock` that has to
wait makes a preempted thread, such as the usual holder of the mutex, preemptible at once.
Registers are abstracted to `pc[t]`, the place where thread `t`
goes on, and `cont`, `loc`, `next_tid`, the locals of the call in progress. `held`,
`nlocks` and `joined` are what the programs know: who is in a critical section, how often
each locked, what `pthread_join` delivered.

An action is a stretch of code of the executing thread. A call is split wherever an alarm
could strike with an effect: `pthread_create` into `CreateCall`, `CreateFind`,
`CreateAlloc`, `CreateReady`, `CreatePublish`; `pthread_exit` into `ExitStatus`,
`ExitValue`, `ExitAlarm`; `pthread_join` into `JoinCall` and the rounds `JoinReturn`,
`JoinWait`; `schedule` into `ScheduleSearch` and `ScheduleSwitch`. The mutex operations
block SIGALRM at once and are atomic up to their call of `schedule`. `Tick` is the handler:
all of `schedule` on behalf of the interrupted thread.

Programs are nondeterministic within what those of the repository do: threads of `Creators`
create and join (each thread once, by the id returned), threads of `Lockers` lock and
unlock, everyone but main exits, main ends the process when it has joined all. Constants
choose the client: `FailIsHeld` is a caller that ignores the -1 of `pthread_mutex_lock`
(as `mutextest.c` does), `DestroyEarly` a main that may destroy the mutex while threads are
still at work (`mutextest.c` joins them first), `NullRetval` whether `pthread_join` gets NULL, `SwitchWindow`
whether an alarm may strike inside a `schedule` that a library call runs. `SwitchWindow`
is off in the passing runs because with it `OnlyCurrentRuns` fails (see Findings).

### WaitList

The three cases of insertion and the removal, over addresses that are reused after `free`
and whose old contents are arbitrary. `Nodes` is the sequence that follows the pointers
from `head` to NULL (`FromHead`); `Queue`, its threads, is the refinement mapping to
`Fifo`. The extra `malloc` of line 334, a leak, is left out.

### Barrier

`threads_blocked++` is a load and a store (the build is not optimised). The test of the
loop, the `schedule` after it, the test of `serialed` and the reset are steps of their own.
All threads are READY throughout, so `schedule` is "the next one in the circle". `batch`
is how many waits the program has released: all at once, or one more each time main has
joined everybody, as in `barriertest.c`. `alarm` is on at first if `Preemptive` says so and
off after the first exit. The branches for `b->init != 1` are never taken between
`pthread_barrier_init` and `pthread_barrier_destroy`.

### CowTls

Each call is one action. That calls do not overlap is an assumption of the model: most
tests keep to it, with one thread at work while the others wait in `pthread_join`, but
`test_clone_large_many.c` (lines 50-52) starts ten threads whose `tls_create` can overlap,
and the code has no lock around any call (see Not modelled). Pages are numbers with
`ref_count`, bytes and protection; a byte is 0 or a written value. Early returns are
actions of their own (`CreateRefused`, `NoArea`, `TooLong`, `CloneRefused`), and so are
the cases without a free slot (`CreateNoSlot`, `CloneNoSlot`). After a store in front of
the table (`corrupt`) nothing more is modelled. `PageFault` is a stray access to a
protected page with the handler's walk over the table. Sums of offset and length are taken
modulo `2^UIntWidth`.

### Parser

The initial states are all lines that fit in a buffer of `MAX_LINE_LENGTH`, as sequences of
tokens: words, words that are too long, and the four special characters. `at` is the
function in progress (`parse_args`, `parse_redirect_in`, `parse_redirect_out`,
`parse_pipes`, `pipeline_free`), `commands` the list built so far with those entries of
`command_args` that were written, and `heap` the copies that `strndup` made, named by the
token they copy. `pipeline_free` runs after a failure and, by the caller, after success.
When no NULL was stored, what it finds in the next entry is either NULL or not (`wild`).
The properties compare the parser with a reading of the line that does not parse: which
command a token belongs to is the number of pipes in front of it.

### Disk, FileSystem and FileStore

The variables are the globals of `fs.c`: `used_block_bitmap` is the set of blocks whose bit
is set, `open_file_descriptors` has the used ones in its domain, `inode_table` and
`directory` are records as in C. `blocks` is the disk; a block holds cells of files or one
of the structures that `umount_fs` writes. Sizes, offsets and lengths count cells, and a
call of `fs_write` writes one value. The proportions of the real disk that matter are kept:
one inode and the beginning of the next fit in a block, so a block holds a pair
(`InodePair`, `NextBlocks`); `inode_metadata_blocks` is smaller than the number of inodes,
so that the last inodes are never written (`InodeBlocks`); data blocks are taken from
block 1 on, where the structures are written too (`DataBlocks`).

Each call is one action: programs use the library from one thread. `fs_write` is one
action although it has a loop, for nothing comes between its rounds; a full disk or a full
file ends the rounds and the cells of the rounds before stay written. Refused calls are
actions of their own. `Restart` is a process that ended after `umount_fs` and a new one.
`fs_delete` compares bytes of the bitmap with an inode number and runs past its end; what
it finds there is a nondeterministic choice. `mount_fs` with a count larger than the
bitmap goes to `corrupt`. `sizes` remembers what the size of each file should be and
`last` the last call and what it returned; no action reads them.

`Client` says what programs do besides reading and writing: delete files, remount, share a
file between descriptors. `FileStore` is the promise to a program that does none of the
three; it may refuse a new file or end a write early but not change another file or return
anything but what was written last.

### Shell

`pc` follows `main` and `doCommand` in the parent, one step for each system call that a
signal can come before or into. `procs` are the children in the order of `fork`: the
command, the ends of pipes it has open, where its standard input and output go. A child
inherits all ends the shell has open; the ones it leaves open count when a reader waits
for the end of its input. Programs are external: one reads all its input or none, then
writes so many units and exits. SIGCHLD is `pending` until the shell's next step, where
`signalHandler` reaps every zombie; it ends a blocked `fgets` (then the line in the buffer
is run again, since `feof` is false) or a blocked `waitpid`. The model assumes that children
end but are not stopped or continued: with `sa_flags` 0 (`myshell.c` 105-109, no
`SA_NOCLDSTOP`) those raise SIGCHLD too, and would interrupt the same two calls.

## Runs

Passing runs:

| Run | Properties | Instance |
|---|---|---|
| `UThreads_shared` | `TypeOK`, `OnlyCurrentRuns`, `BlockedIffWaiting`, `NoWaiterOnFreeMutex`, `LockHasOwner`, `StacksInUseAreLive`, `SlotIsId`, `JoinedValueOrPreempted`, `SearchTerminates`, `JoinReturns` | 4 TCBs, 3 threads lock once, callers ignore -1, the mutex is destroyed after the joins, strong fairness |
| `UThreads_strict` | `MutualExclusion`, `DestroyedIsIdle`, `ReadyRunsWhileArmed` | 3 threads lock, callers honour -1, the mutex is destroyed at any time, timer fairness |
| `WaitList_fifo` | `NoStaleNode`, `ImplementsFifo` | 3 threads, 3 addresses |
| `Barrier_reuse` | `NoEarlyPass`, `IdleIsReset`, `OneSerialUnpreempted`, `WaitReturnsUnpreempted` | 3 threads, 3 waits each, with and without the alarm |
| `CowTls_private` | `RefCountExact`, `AllProtected`, `FaultFindsArea`, `ImplementsPrivateStorage` | 3 threads, 3 slots, areas of 2 pages |
| `CowTls_exhaust` | `NoDanglingPage`, `OthersUntouched` | 3 threads, 2 slots, offsets that wrap |
| `Parser_lines` | `AcceptedIsGrammatical`, `UsualLineAccepted`, `FaithfulPipeline`, `FreeReleasesAll`, `ArgsStayInside` | all lines of up to 7 characters, words of 1 or 2 |
| `FileSystem_store` | `BlocksOwnedOnce`, `ImplementsFileStore` | 4 blocks of 2 cells, 2 files of up to 2 blocks, 2 descriptors |
| `FileSystem_life` | `OpenHasEntry`, `DirectorySurvives`, `InodesNotShared` | 3 inodes, 2 names, 2 descriptors; delete, remount, share |
| `Shell_lines` | `NoDescriptorLeft`, `PipelineDelivers`, `LinesRunOnce`, `LineFinishes`, `ZombiesReaped` | two lines of seven kinds, pipes of capacity 1 |

Why the bounds are enough. Four TCBs give main plus three threads: one holder, one waiter
and one more that arrives while the waiter is woken, and a full table. Main does not lock
there: a main that waits in `pthread_join` inside its critical section is stuck by its own
doing. `UThreads_strict` has the early destruction of the mutex. The theorems on the safety
properties cover every choice of lockers and both clients of `pthread_mutex_destroy`. The list behaves
differently for 0, 1, 2 and 3 waiters and not beyond. An area of 3 bytes on pages of 2 has a
last page that is partly used; offset 1 with lengths 1 to 3 writes within one page, across
the boundary, and past the end; three threads share a page two and three times. `MaxRefs`
caps counts that lost clones would raise for ever and is not reached by registered clones.
Seven characters hold four words, a command whose input is redirected twice (the first path
is replaced), and every order of two redirections with a pipe behind them; a buffer of 8
characters and an array of 5 entries keep the ratio of `MAX_LINE_LENGTH` and
`MAX_ARGV_LENGTH`.

In `FileSystem_store`, writes of 3 cells from positions 0, 1 and 3 start and end inside
blocks, allocate none, one or two blocks, reach the end of a file, and two files of two
blocks need one block more than there is. In `FileSystem_life`, one inode is written in
full, one in part and one not at all; the branch of `fs_create` without a free directory
entry needs more names than there are entries and is not reached. Block 1, read as a
bitmap when it holds data, is all zeros or all ones. The views leave out `last` and, in
`FileSystem_life`, contents that nothing reads again (see `MCFileSystem`).

In `Shell_lines` a pipe holds one unit and a command that writes two fills it. The lines
are one command in the foreground or background, pipelines of two and three commands, one
in the background, one whose first command cannot open its file, and a line that does not
parse. `MaxRuns` bounds the lines that are run, for after a background line a line can be
repeated for ever; at the bound the model stops.

Fairness. `FairSpec` of `UThreads` and `Barrier` is strong fairness of each thread's own
steps: a thread that is switched to again and again executes at least one step of its
code in a quantum of 50 ms, and programs do not stay outside the library for ever (their
critical sections end). `TimerSpec` does not assume that: programs may compute for ever;
only the periodic alarm, as long as it is armed and again and again not blocked, and steps
inside the library go on.
`Shell` assumes weak fairness of the shell and of each child, which is the kernel's
scheduler; nothing makes users type or end their input. Its deadlock check is off: the
shell exits, and a stage that fills its pipe is stuck.

### Findings

Two runs must find a violation; the entries in `PROJECT.json` quote the lines they contradict.

`UThreads_window`, `OnlyCurrentRuns`: an alarm inside a library call of
`schedule` makes a thread run that was already chosen, and another one stays `TS_RUNNING`
and is never found again. A thread that joins it spins for ever: `JoinReturns` is for alarms
outside such calls.

`FileSystem_deleteopen`, `ClosedIsDeletable`: the tests disagree with the code, and with each
other, about deleting an open file. `fs_delete` refuses while any descriptor of the file is
open (`fs.c` 368), which is what `test_fs_delete.c` line 15 asserts and what keeps descriptors
from outliving their files (`OpenHasEntry`). `test_writes_open.c` opens a file at line 16,
opens and closes it once more, and asserts at line 25 that `fs_delete` returns 0 ("Now deletion
should succeed") with the first descriptor still open. `test_big_writes.c` asserts at line 101
that a file is deleted whose only descriptor is open. All three tests are built by the
makefile; the last two assertions fail.

Other behaviour of the code that the models contain, and where the properties say so:

- Callers that ignore the -1 of a woken waiter, as `mutextest.c` does, share the mutex:
  `MutualExclusion` is checked and proved for callers that honour it.
- A lost increment of `threads_blocked` leaves the waiters of a barrier polling for ever:
  `WaitReturnsUnpreempted` is about barriers used without the alarm, batch by batch.
- An alarm between the two assignments of `pthread_exit` loses the exit value: the exception
  in `JoinedValueOrPreempted`.
- There is no preemption after the first exit: the exception in `ReadyRunsWhileArmed`. A
  `pthread_mutex_lock` that has to wait leaves SIGALRM blocked; if it switches to a new thread,
  or to one that waits in a `schedule` of its own, that thread is not preempted until it locks
  or unlocks, and when it computes for ever the others starve: the premise of
  `ReadyRunsWhileArmed`, which fails without it. A thread that the alarm had descheduled is
  preemptible again as soon as it returns from the handler.
- `pthread_join(t, NULL)` writes through NULL: `JoinReturn` goes to `crash`.
- A reused barrier has no serial thread, since nothing clears `serialed` (`SerialedAfter`).
- A wrapped `offset + length` is accepted and transfers nothing (`Sum`, `Indices`).
- Slots of `tls.c` are used once, since `tls_destroy` stores 0 and not -1 as the id. Without
  a free one, `tls_create` stores in front of the table (`CreateNoSlot`), and `tls_clone`
  returns 0 and loses the area it built (`CloneNoSlot`).
- The fault handler faults itself on a destroyed slot: the condition of `FaultFindsArea`.
- The parser rejects `> y < x` although the comment at `myshell_parser.c` 264-266 speaks of
  either order (`InThenOut`), and accepts an empty last command, as in `ls |`
  (`Grammatical`).
- `pipeline_free` reads an entry of `command_args` that was never written when a word that is
  too long follows an argument (`ArgsStayInside`), and a path that is redirected twice
  leaks (`FreeReleasesAll`).
- `fs_write` takes data blocks from block 1 on, where `umount_fs` writes inodes and directory
  over them; `umount_fs` writes no bitmap, so after another process has mounted the disk
  used blocks look free. `BlocksOwnedOnce` and `ImplementsFileStore` are for a disk that
  stays mounted, and `DirectorySurvives` says nothing of contents.
- `umount_fs` writes 33 of 64 inodes in full and one more in part: the conditions in
  `DirectorySurvives` and `InodesNotShared`. `DirectorySurvives` leaves out what follows a
  `mount_fs` that copied bytes from behind the bitmap (line 160), the state `corrupt`.
- A file has 258 blocks of 4 KiB at most, the 256 of `direct_offset` and the two fields behind
  it (`DirectBlocks`), and `fs_write` then fails; `test_bonus.c` (extra credit, not in the
  makefile) asserts writes of 30 and 40 MiB (lines 32 and 45).
- `fs_delete` clears bits by the value of bitmap bytes and resets no `file_type`, so inodes
  are used up, and a file created later has an entry and an inode with different numbers;
  its reads and writes are refused when the entry with the inode's number is free
  (`Valid`). `fs_listfiles` then lists the first entries, used or not (`Listfiles`).
- After `fs_truncate` through one descriptor another one reads behind the end
  (`BytesToRead`); `ImplementsFileStore` has one descriptor per file.
- `make_fs` on the mounted disk erases it and returns -1 (`MakeFsMounted`).
- The end of a background child interrupts `fgets`, and the last line is run again; each
  background line run again interrupts the next `fgets`. `LinesRunOnce` excludes scripts
  with background lines.
- Commands of a background pipeline are not connected, since the child closes `fd[1]`
  before `dup2` (`KeptEnds`); `PipelineDelivers` is about the foreground. Its early end can
  also cut short the wait for a foreground command.
- A command that writes more than a pipe holds before the next one exists is stuck with the
  shell (`Stuck`).

## Proofs

Every theorem holds for all values of the constants that satisfy the assumptions of its
module: any number of threads, slots, pages, blocks, files, lines and lengths. The third
column has what a theorem assumes beyond that.

| Theorem | Property | Extra assumption |
|---|---|---|
| `UThreadsProofs!TypeCorrect` | `TypeOK` | |
| `UThreadsProofs!NoSleeperOnFreeMutex` | `NoWaiterOnFreeMutex` | |
| `UThreadsProofs!MutexExcludes` | `MutualExclusion` | `~FailIsHeld` |
| `UThreadsProofs!DestroyIsSafe` | `DestroyedIsIdle` | `~FailIsHeld` |
| `UThreadsProofs!PreemptedIsFound` | `OnlyCurrentRuns` | `MainCreates` |
| `UThreadsProofs!SleepersAreListed` | `BlockedIffWaiting` | `MainCreates` |
| `UThreadsProofs!FreedStacksAreDead` | `StacksInUseAreLive` | `MainCreates` |
| `UThreadsProofs!IdNamesSlot` | `SlotIsId` | `MainCreates` |
| `UThreadsProofs!JoinDeliversValue` | `JoinedValueOrPreempted` | `MainCreates` |
| `UThreadsProofs!LockIsPassedOn` | `LockHasOwner` | `MainCreates` |
| `UThreadsProofs!SearchFindsThread` | `SearchTerminates` | `MainCreates`, `FailIsHeld` |
| `WaitListProofs!ListReachesItsNodes` | `NoStaleNode` | |
| `WaitListProofs!ListIsQueue` | `ImplementsFifo`, a refinement | |
| `BarrierProofs!NobodyPassesEarly` | `NoEarlyPass` | |
| `BarrierProofs!LeftBarrierIsReset` | `IdleIsReset` | |
| `BarrierProofs!SerialIsUnique` | `OneSerialUnpreempted` | |
| `CowTlsProofs!PagesOutliveReferences` | `NoDanglingPage` | |
| `CowTlsProofs!EverythingProtected` | `AllProtected` | |
| `CowTlsProofs!CallsKeepOtherAreas` | `OthersUntouched`, of steps | |
| `CowTlsProofs!CountsAreExact` | `RefCountExact` | `~Exhaust` |
| `CowTlsProofs!HandlerFindsArea` | `FaultFindsArea` | `~Exhaust` |
| `CowTlsProofs!SharingIsInvisible` | `ImplementsPrivateStorage`, a refinement | `~Exhaust`, `NoWrap` |
| `ParserProofs!AcceptsOnlyGrammar` | `AcceptedIsGrammatical` | |
| `ParserProofs!AcceptsUsualLines` | `UsualLineAccepted` | |
| `ParserProofs!PipelineIsFaithful` | `FaithfulPipeline` | |
| `ParserProofs!FreeLeavesReplacedPaths` | `FreeReleasesAll` | |
| `ParserProofs!ArgumentsFit` | `ArgsStayInside` | |
| `FileSystemProofs!DescriptorsHaveFiles` | `OpenHasEntry` | |
| `FileSystemProofs!FilesSurvive` | `DirectorySurvives` | |
| `FileSystemProofs!InodesAreExclusive` | `InodesNotShared` | |
| `FileSystemProofs!BlocksHaveOneOwner` | `BlocksOwnedOnce` | `MountsOnce`, the disk has fewer than `2^CountWidth` blocks |
| `FileStoreProofs!FilesAreSequences` | `ImplementsFileStore`, a refinement | `Plain`, the disk has fewer than `2^CountWidth` blocks |
| `ShellProofs!ShellClosesItsEnds` | `NoDescriptorLeft` | |
| `ShellProofs!PipelinesDeliver` | `PipelineDelivers` | |
| `ShellProofs!ForegroundRunsOnce` | `LinesRunOnce` | |

The extra assumptions are what the corresponding run fixes, and are needed:

- `MainCreates`: only main creates threads, as in every program of the repository, and no
  alarm strikes inside a library call of `schedule`. `UThreads_window` shows that the second
  half is needed; with two creators the search for a free slot is shared.
- `FailIsHeld` or its negation is the kind of caller. With `FailIsHeld` two threads share the
  mutex; without it a sleeper can be stranded and the search of `schedule` then need not end.
- `~Exhaust`: slots do not run out. `tls_clone` without a slot loses the area it built, and
  its pages stay counted. `NoWrap`: `offset + length` does not wrap; a wrapped range is
  accepted and transfers nothing, which a private area would refuse.
- `MountsOnce`: the program neither deletes nor remounts; each of the two gives away blocks
  in use (see Findings). A count of `CountWidth` bits must be able to count all blocks; on
  the real disk it has 16 for 8192 blocks.
- `Plain`: `MountsOnce`, and a file has one descriptor at a time (`Client = {}`). With two, one
  can be behind the end of a file that the other has truncated, and reads on.

Each inductive invariant was checked by TLC on the instances of the runs before it was
proved.

### UThreadsProofs

- `TypeInv` adds to `TypeOK` that a joiner's `loc` is a slot (`JoinsASlot`): otherwise
  `JoinReturn` could index the table with `MaxThreads`.
- `HeldImpliesLocked` (callers honour -1): exclusion, a free mutex has no holder, and a
  destroyed one is free. `MutualExclusion` alone is not inductive, since it says nothing of
  `locked`.
- `SchedInv` joins the three scheduling properties and `NoWaiterOnFreeMutex` with what they
  need of each other: only the executing thread is between search and switch, and the
  thread it jumps to is READY (`SwitchIsToReady`); an executing thread that put itself to
  sleep is inside `schedule` (`SleeperIsSwitching`); before the first `pthread_create` only
  main exists (`OnlyMainBefore`); a slot without a stack is EMPTY and not the executing
  one (`UnusedIsEmpty`); only main creates and joins, and a slot it is filling is not
  yet scheduled (`SlotInCreation`).
- `CallInv` is what calls in progress rely on. `IdInv`: the slots with a stack, freed or not,
  are those below `num_threads`, so the first free slot is `num_threads`. `ExitInv`: an
  exited thread has stored its value or stands between the two assignments, and then never
  runs again. `SleepInv`: a thread that was queued is asleep, or on its way there with
  SIGALRM blocked, or was woken. `OwnerInv`: threads in critical sections can run.
  `SearchTerminates` follows: main can run or sleeps, and if it sleeps the mutex is locked
  and its owner can run.

### WaitListProofs

The invariant is that some sequence `s` of distinct allocated nodes follows the pointers
from `head` to NULL, all allocated nodes are on it, and `tail` is its end or NULL
(`Chain(s)`). `Nodes` is defined by a choice, so it has to be shown that there is only one
such sequence (two would differ at a least index, where both are what the same pointer
points to) and that it is no longer than there are addresses (its nodes are distinct). Each
action then maps to the action of `Fifo` on the sequence of threads.

### BarrierProofs

`RoundInv(r)` says that `r` rounds are over: every thread has left round `r`, or is still on
its way out of it, and `Counted(r)` are those whose increment counts for the next one.
Increments that an alarm loses, and ones that a late `threads_blocked = 0` erases, only make
`threads_blocked` smaller than `Counted(r)`, so whoever leaves the loop has seen everybody.
The number of the round is what the code does not have and the invariant needs: a fast
thread may be in the next wait while a slow one has not left this one.

### CowTlsProofs

`AreasInv`: a slot has an area exactly when it has a thread, with as many pages as its size
asks for, all different. `TidsInv`: a thread has one slot, and slots are taken in order.
`HeldInv`: a page that is pointed to is mapped and its count is at least the number of
pointers to it; `ExactInv`, without lost clones, that the two are equal. `NoDanglingPage`
needs `HeldInv` for the counts as well: with a count that is too small, a `tls_destroy`
would unmap a page in use. For the properties of contents, `Kept(t)` says that a step leaves
the slot of `t`, its row of pages and their bytes alone, from which its area is unchanged;
for `tls_write` this is that a page with two holders is copied and one with a single holder
is nobody else's. `SharingIsInvisible` maps each call to the call of `PrivateStorage`.

### ParserProofs

`GrammarInv`: as long as there was no error, the tokens in front of the parser obey the
grammar (`Good`), and where in a command the parser is says which token is behind it.
`UsualInv`: on a line in the usual form each function finds itself behind the arguments or
behind one redirection of each kind, and none fails. `PathInv` and `HeapInv`: a copy is held
by a command or was replaced by a later redirection of the same command. `RoomInv`: the
arguments read so far are the words right in front of the parser, and as `n` words fill
`2n - 1` characters at least, `command_args` has room for them. `FaithInv`: the commands built
so far say what the tokens in front of the parser say; at the end that is the whole line.

### FileSystemProofs

`Agree(dir, tab, sz)` relates a directory and a table of inodes to the sizes files should
have. It holds of the tables in memory while a disk is open (`MemInv`) and of those that
`mount_fs` would load otherwise (`DiskInv`): the proofs for `umount_fs` and `mount_fs` show
that it is carried over although only a part of the inodes is written. It does not say the
same of all inodes: of inode `InodeBlocks` the type survives and the size does not, and of
the later ones nothing does. `OpenInv`: descriptors point to entries in use.

`OwnedInv`: the bitmap has exactly the blocks that inodes point to, each from one place, and
the count in the superblock is theirs. For `fs_write` the r-th missing block of a file gets
the r-th free block of the disk; that these are different for different places is a fact
about ranks in finite sets of numbers, proved without induction (`NthFree`).

### FileStoreProofs

The proof that calls on blocks are calls on sequences. `SInv` adds three facts to the `BInv` of
`FileSystemProofs`. `PlaceInv`: inodes and directory entries are taken in order and none is
given back, so the two numbers of a file are the same; the tests in `fs.c` that use one for the
other are then right, and the entries `fs_listfiles` copies from the front are the used ones.
`SeekInv`: no descriptor is behind the end of its file. `FullInv`: every cell before the end of
a file is in a block.

`fs_write` needs most of the argument. The cells it stores are a prefix of those it was given,
because the rank of a missing block grows with its index (`StoredPrefix`). No block it writes
to is one of another file's, and the cells of its own file that it hits are those from the
offset on (`OtherFileKept`, `OwnFileWritten`): both follow from blocks having one owner and from
a position being determined by its quotient and remainder. `FilesView` and `FdsView` say what
the refinement mapping yields in a state of `SInv`, and each action of `FileSystem` has a lemma
that it is the action of `FileStore` with the same name, a refusal, or a stuttering step.

### ShellProofs

`EndsInv` is which ends of pipes the shell has open at each point of `doCommand`. `PipeInv`: a
process reads from the one started before it in the same line; until it ends it holds the
end it writes to, so its reader cannot find the end of the input before; and what was
written is in the pipe or was read (`Accounted`). `OnceInv`: while nothing was put in the
background, only the process that the shell waits for is alive, so no SIGCHLD is left over
to interrupt the next `fgets`.

### Assumptions on the constants

They are weak: numbers are natural numbers and positive where a table, page, pipe or buffer of
that size is meant, lines are of the type `CommandLine` and have at most `MaxStages`
commands and different numbers, memory is finite (`FiniteMemory`), markers such as NULL are
not addresses, names or threads. `2 ^ UIntWidth \in Nat` and `2 ^ CountWidth \in Nat` are true
of all widths; they are stated because the prover has no theory of powers.

### Only model-checked

Liveness, since fairness and ENABLED are outside the prover's reach:
`ReadyRunsWhileArmed`, `JoinReturns`, `WaitReturnsUnpreempted`, `LineFinishes`,
`ZombiesReaped`.

## Not modelled

- The alarm between `current_tid = next_tid` and `longjmp` in `schedule`: it saves registers
  of one thread over those of another, which the abstraction of registers cannot show.
- `pthread_mutex_init` allocates the size of a pointer for the struct; memory layout is not
  modelled. Failure of `malloc` and `mmap` is not handled by the code and not modelled.
- Calls of `tls.c` that overlap on several processors, as those of `test_clone_large_many.c`
  can: there is no lock in the code and nothing that orders them, so two `tls_create` may take
  the same slot and no property of such programs could hold.
- SIGCHLD of children that are stopped or continued.
- A process that ends with a disk mounted: nothing is written before `umount_fs` but data
  blocks, and the code has no recovery. Errors of the host in `disk.c`, `pipe` and `fork`.
- A file longer than its blocks whose size another descriptor has truncated: `fs_write` then
  takes the size for the number of a block (second guard of `Write`).
- `pipeline_free` of an uninitialised pointer when input ends before the first line, and the
  pipelines the shell never frees.

## Plan

1. Done: the modules of all components, their runs, and the proofs above, which state every
   safety property and every refinement that a passing run checks.
2. Left to TLC: the liveness properties listed under "Only model-checked".
