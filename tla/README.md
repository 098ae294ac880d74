# TLA+ specifications of the ECE 445M RTOS

The repository holds a small real-time operating system for the TM4C123
(`RTOS_Labs_common/`), the Lab 3 program that runs on it
(`RTOS_Lab3_RTOSpriority/Lab3.c`) and a port of an early version to the
Raspberry Pi (`implementation/`). This directory specifies the parts that carry
the system's logic, checks them with TLC and proves the safety of the kernel, of
its linked lists and processes, the mailbox, the heap, the file system, the UART
and the Lab 3 data path with TLAPS.
Line numbers below are those of `RTOS_Labs_common/OS.c` unless another file is
named.

## 1. Inventory

| Component | State | Operations | Made correct by | Status |
|---|---|---|---|---|
| Kernel (`OS.c`, `osasm.s`) | `TCB_array`, `TCB_priority_array` (a circular list per priority), `currThread`, the PendSV bit, each semaphore's `Value` and `blocked` list | `OS_AddThread`, `OS_Launch`, `OS_Suspend`, `OS_Wait`, `OS_Signal`, `OS_Sleep`, `OS_Kill`, SysTick and PendSV handlers | every TCB in the one list its status says; count and list agree; priority order; nobody starves; no TCB given away in use | `OSKernel`, `OSLists` |
| OS fifo (901-970) | `PutI`, `GetI`, `Fifo`, `CurrentSize`, `LostData` | `OS_Fifo_Init/Put/Get/Size` | a bounded queue, refused samples counted | `OSFifo` |
| Mailbox (976-1020) | `Mail`, `BoxFree`, `BoxDataValid` | `OS_MailBox_Init/Send/Recv` | one slot, each mail read once | `OSMailBox` |
| Lab 3 data path (`Lab3.c` 184-242) | `NumSamples`, `DataLost`, a batch | `Producer` (interrupt), `Consumer`, `Display` | batches of consecutive samples; the run ends | `Lab3Data` |
| Processes (580-685, 833-848) | `PCB_array`, `num_threads`, text and data of the loader | `OS_AddProcess`, the PCB part of `OS_AddThread` and `OS_Kill` | counts match the threads; text and data freed once, after the last thread | `OSProcess` |
| Heap (`heap.c`) | boundary tags in `heap[]`, statistics | `Malloc`, `Calloc`, `Realloc`, `Free`, `Stats` | blocks tile the heap, live blocks disjoint | `Heap` |
| File system (`eFile.c`, commands of `Interpreter.c`) | directory in RAM and on sector 0, sector chains, the open file | `Format`, `Mount`, `Create`, open, read, write, close, `Delete`, `Unmount` | chains disjoint, no byte lost, survival of power loss | `EFile` |
| UART (`UART0int.c`, `inc/FIFO.h`) | two fifos in memory, two in hardware, the interrupt mask and status | `UART_InChar`, `UART_OutChar`, `UART0_Handler` | no character lost, repeated or stuck | `UART0int` |
| LCD (`ST7735.c` 1408-1435) | `LCDFree` | `ST7735_Message` by `Display` and `ButtonWork` | one thread draws; the LCD is released | in `Lab3Data` |
| Binary semaphores (470-495), CAN (`can0.c`), interpreter, background threads, Pi port (`implementation/`), drivers, `OS-2.2.c`, `os_temp.c`, toolchain | | | | see section 5 |

**How they interact.** Everything rests on the kernel: fifo and mailbox wait and
signal on its semaphores, Lab 3 uses both from threads and interrupt handlers.
Code between `StartCritical` and `EndCritical` runs with PRIMASK set on the only
core, so it is atomic. Outside of it a thread is interrupted between any two
instructions, by handlers (which may call `OS_Signal` and `OS_AddThread`) and by
PendSV, which switches threads and has the lowest priority of all.

**What is hard.** The switch is asynchronous: `OS_Wait` and `OS_Kill` leave
their critical section with the caller already BLOCKED or DYING and suspend it
only afterwards (395, 861), and handlers run in between. One pair of links
serves two kinds of list. `OS_Signal` writes through NULL when the last waiter
leaves (446). Shared variables of fifo and mailbox are used outside critical
sections. `PROJECT.json` lists every hazard with its line and the properties
aimed at it.

## 2. Modules

**`OSKernel`** is the kernel with rings and lists as sequences. One action per
operation; its variables are the fields and globals named next to them. Two need
explanation. `atSuspend` holds the threads that have left a critical section and
whose next instruction is the call of `OS_Suspend`: it makes the windows above
visible. `machine` records where the system stops: the debug loop of `OS_Signal`
(435), a hard fault, a scheduler without a thread (1323). The store through NULL
at 446 depends on the memory map, so it is a constant: `NullStore` is the set of
its possible outcomes, `"ignored"`, `"fault"` or both. `OS_Signal` takes a flag
that says whether a thread or a handler calls it, because only a thread suspends
itself later; for a handler the PendSV bit is set at once. The environment is
that of `Testmain7` and the switch handlers: any thread calls anything at any
time, handlers signal and add threads. Threads of `IdlePriority` never block,
which is the program's own rule for its idle thread (`Lab3.c` 298, 793).

**`OSLists`** is the same kernel pointer by pointer: `next`, `prev`, the head of
every ring and blocked list, the insertion loop of `OS_Wait`. It instantiates
`OSKernel` with `ready` and `blocked` read off the pointers and takes over the
operations that move no TCB. `ImplementsKernel` is the refinement.

**`CountingSemaphore`** is what `OS_Wait` and `OS_Signal` promise: units, a set
of waiting threads, and a signal that hands its unit to one of them. `OSKernel`
implements it with `Value` plus the length of the list as the units, so that a
wait that passes without a unit is no stutter. Fifo and mailbox are built on it,
and so are checked against the semaphore's promise, not against one schedule.

**`OSFifo`**, **`OSMailBox`** give each statement of `OS_Fifo_Get`,
`OS_MailBox_Send` and `OS_MailBox_Recv` that touches shared state a step of its
own. `OS_Fifo_Put` is one step: it runs in a handler, and Lab 3 has one producer
and one consumer. They promise **`LossyQueue`** and **`OneSlotBox`**.

**`Lab3Data`** composes both into task 3 of Lab 3. A sample is its number and
the mail is the batch it was computed from, so that order and loss are visible.
`Display` draws what it receives and shares the LCD with `ButtonWork` of task 2,
one at a time, so a button may hold the path up. Threads interleave freely, a
superset of what priorities allow. `Overrun` says whether a sample may come in
the window described in section 3.

**`Heap`** is the allocator, each call one step: two tags per block, first fit,
split, merge with both neighbours, the statistics. `owned` is what the program
was given; it frees and writes only that, any number of times, and what it
writes looks like a tag. The walk of `Heap_Malloc` is the set of the first tags
of the blocks (`Starts`). Freeing the last block reads the word behind the array
(274); it is taken to be one that is not negative, as `heap_stats.size` is. The
promise is **`Allocator`**. Calls of two threads at once are not modelled.
`Heap_Realloc` frees before it allocates and copies nothing, against its header
(178), and `Heap_Calloc` clears from index 1 (160); both are modelled so, and
`Allocator` promises nothing of the contents they give.

**`OSProcess`** extends `OSKernel` and takes over its actions; those that add or
kill a thread also count it in a PCB (`Joins`, `Leaves`). `image` follows the
text and data that the loader allocates and the last `OS_Kill` frees. Two ghosts
show what the code does not prevent: `revived` holds the processes that got a
thread from an interrupt handler after their last one was killed (838, then 537:
the handler copies the `pcb` of the thread that is dying), and `masked` is the
return of `OS_AddProcess` without `EndCritical` (667), after which nothing moves.

**`EFile`** runs the commands of the interpreter, each in the order of its calls
of `eFile.c`. A call is cut where it has written a sector, because `PowerLoss`
may come there; the next boot mounts the disk, as `mount` does by hand. Every
access to the disk may fail. A byte is the name of the file it was written to:
`saved` counts what `eFile_Write` accepted. `damaged` is set when a call that
writes is cut short (the code undoes nothing) or finds no free sector, when a disk
is formatted under an open file, and when the power goes while `eFile_Write` links
a sector (`Linking`, 334 to 370; section 3 says what happens then). The promises
end there, up to the next `format`. Losing the power at any other sector write, in
`touch`, in `format` or when a file is closed, damages nothing. Two ends of chains
are modelled as they are: the free chain ends in sector 0, which `eFile_Write` then
links (345), and `eFile_ReadNext` reads on behind the last sector (456).

**`UART0int`** lets the foreground write a character step by step while the
handler, one step, and the hardware move characters as well. Indexes run freely
and wrap at `INDEXES`, a multiple of the fifo size as 2^32 is. The statuses are
the raw ones, which is what the handler reads (166). `Collide` says whether a
receive interrupt may come while the foreground copies. From `UART_OutChar` to
the line the UART promises **`LossyQueue`**.

**`OSKernelProofs`**, **`OSListsProofs`**, **`OSMailBoxProofs`**,
**`OSProcessProofs`**, **`Lab3DataProofs`**, **`HeapProofs`**, **`EFileProofs`**,
**`UART0intProofs`** hold the proofs. The `MC*` modules are what
TLC is run on.
An operator that no action uses and that stands just before the one it resembles
(`RemoveNothing`, `StoreUnwaited`, ...) is a deliberate bug: `PROJECT.json`
pairs it with a property that must notice it.

## 3. Runs

| Run | Instance | Shows |
|---|---|---|
| `kernel_safety` | 4 TCBs, 3 priorities, 1 semaphore, an idle thread, both outcomes of 446 | placement of every TCB, count = list, order of waiters, no use of a free TCB, choice of the highest, `CountingSemaphore` |
| `kernel_live` | 3 TCBs, 3 priorities, sleeps of up to 2 ticks | priorities prevail, equals take turns, sleepers wake |
| `lists_refine` | 3 TCBs of 3 priorities, all may block | the pointer code implements the sequences; links stay consistent |
| `mailbox` | 3 threads, 2 mails | one slot, one user |
| `lab3_data` | fifo of 2, batches of 3, 6 samples | queue, slot, consecutive batches; `Display` finishes although it shares the LCD |
| `lab3_overrun` | the same, with samples in the window | violated: see below |
| `heap` | 14 words, requests of 0, 5 and 9 bytes | tags tile and agree, no block lost or given twice, statistics, merging, `Allocator` |
| `heap_room` | the same | violated: see below |
| `process` | 3 TCBs of one priority, all of which may block, 2 PCBs, 1 semaphore | counts are the live threads; text and data live as long as they |
| `efile` | 4 sectors, 2 files and the free entry, 3 names, 2 bytes in a sector; names are symmetric | until the disk is damaged: chains end and stay apart, files have their bytes, the disk alone has every file no call works on |
| `uart` | fifos of 2, 4 index values, hardware fifos of 2, 5 characters each way | order, nothing dropped, `LossyQueue`, every character reaches the line |
| `uart_collide` | the same, with the receive interrupt while copying | violated: see below |

**Bounds.** Four TCBs give an idle thread, a running thread and two waiters, the
least for which equal priorities can overtake; three waiters of three priorities
(`lists_refine`) reach every branch of the insertion loop. `MaxValue` and
`MaxSleep` cap counters that only add states of the same shape. The fifo is
smaller than a batch as in the code (32 < 64), which `DisplayFinishes` needs: a
batch cannot be complete in the fifo when `Consumer` leaves its loop. Two batches
show a second mail behind one that is not read yet. Fourteen words of heap hold
three blocks, the least for a merge on both sides, and a free block behind one of
no words. With two PCBs and three TCBs a PCB is reused while the other process
lives, and either may run out. Three sectors for data let a file grow over a
sector boundary beside another file and use up the free chain; a third name
replaces a deleted one. Five characters wrap the indexes of the UART and are more
than its fifos hold.

**Fairness.** `OSKernel`: weak fairness of `SysTick_Handler` (a free running
timer) and `PendSV_Handler` (a pending exception is taken); none for threads,
which may compute for ever. `Lab3Data`: weak fairness of the interrupt and of
both threads, whose priorities are the highest of the program, and of each
thread's drawing: `ButtonWork` is of the next priority and gets on while the two
wait for samples. Buttons need not be pushed. `UART0int`: weak fairness of
`UART_OutChar` once it has a character, of the handler (a pending interrupt is
taken) and of the line.

**The overrun.** `OS_Fifo_Get` waits for `CurrentSize` and then reads the slot.
A put that arrives in between, when all other slots are unread as well, sees
room (924), overwrites the slot about to be read and returns 1, though its
header says "true if data is properly saved" (915). `lab3_overrun` shows the
batch <3, 2, 3>. With no sample in that window (`Overrun = FALSE`) the fifo is a
queue, and `lab3_data` checks it with samples that are refused.

**The heap.** A split that uses all words but two leaves a free block of no words
with tag 0. `Heap_Malloc` takes a tag 0 for the end (105), so the free blocks
behind it are out of reach for as long as a block in front of it is too small,
and no merge removes it (only a negative tag merges); `heap_room` shows the
refusal.

**The power.** `eFile_Write` extends a file by three sector writes: the full
sector, which now leads to the first free one (334), the directory, which takes
that one off the free chain (349), and the new sector, which ends there (367). The
code has no protection for the moments in between. With power lost after the
first write, the next boot finds a file that leads to the head of the free chain,
and the next `touch` gives that sector to a second file as well: `touch a`, three
bytes into `a` (sectors of two), the power at the directory, and `touch b` puts
`b` into the chain of `a`. With power lost after the second write the file leads
through the new sector to what is then the head. So `ChainsApart` and `BytesKept`
do not hold after a loss while `Linking`, and none of the properties claims
anything then; for the other files, `SurvivesPowerLoss` still says that the disk
has them at that moment. `touch` and `format` order their writes so that a loss
harms no file: the new file's sector is written before the directory names it (the
loss in between cuts the rest of the free chain off, for that sector leads to none),
and the directory of a half formatted disk leads to sectors whose old links, like all
links the program ever makes, go to later sectors only. That the run and the
theorems do cover. A sector write is taken to happen or not: one that is torn by
the loss is not modelled.

**The UART.** `UART_OutChar` masks the transmit interrupt before it takes
characters from `TxFifo` (144), but `UART0_Handler` reads the raw status, which
the mask does not change (166): entered for a received character, it takes
characters from the same fifo in the middle of `TxFifo_Get`. `uart_collide` shows
a character that leaves the line twice. Without that entry, `uart` holds. The
step of `UART_OutChar` that reads leaves out the test for an empty fifo in
`TxFifo_Get` (`FIFO.h` 55): the loop has just seen a character, and only the handler
that collides could have taken it since, so it bears on what follows the
collision only.

## 4. Proofs

All for any value of the constants, from the assumptions named in the modules
alone (`KernelAssumption`, `ListsAssumption`, which is the same for `OSLists`,
`MailBoxAssumption`, `ProcessAssumption`, `Lab3Assumption`, `HeapAssumption`,
`EFileAssumption`, `UARTAssumption`).

* `OSKernelProofs` begins with lemmas about what `Append`, `RemoveAt`, `InsertAt`,
  `Tail` and a rotation do to the elements of an injective sequence. The inductive
  invariant `IInv` is the conjunction of the types, `CountMatchesList`, `Linked`,
  `Control`, `SignalNeverSpins`, `RunningNotFree`, `RunsOnlyAlive` and
  `SchedulerFindsThread`. `Linked` is its core: a ring holds exactly the ALIVE and
  SLEEPING threads of its priority, once each, and the blocked lists are disjoint
  and hold exactly the BLOCKED ones.
  None of the parts is inductive alone: `removeThreadPriority` is meaningless for
  a TCB that is not in the ring, so even the types need `Linked`; `Linked` needs
  `RunsOnlyAlive` to know that the caller of `OS_Wait` is in its ring, and that
  needs the window of `atSuspend`. `Linked` is not claimed after a fault. It gives
  type correctness, the safety invariants, `Placement` and `SwitchesToHighest`.
  Its second part is about the semaphores: every step does one of three things to
  a blocked list (nothing, one thread joins at its place, the head leaves). From
  this follow `WaitersSorted`, `NoOvertaking` and the refinement of
  `CountingSemaphore`.
* `OSListsProofs`: the invariant `Inv` says that the pointers represent the
  sequences read off them (`Represents`: each head and the `next` and `prev` of its
  members form the ring or list of one sequence, and no TCB is in two of them) and
  that the `IInv` of the kernel holds of these. Each half needs the other. The
  kernel's half says that the TCB taken out of a ring is in it, and that one put
  into a ring or list is in none; the pointers' half says that the walks of the
  code find what the sequences say. The walks are recursive functions; that they
  exist and follow the sequence is proved by the least counterexample (`WalkExists`,
  `ChainWalk`), so that `Ring`, `List`, the last TCB of a ring and the insertion
  point of `OS_Wait` are known positions of it. Then one lemma per operation shows
  what the surgery does to its own ring or list (`LastInRing`, `RemovedFromRing`,
  `InsertedInList`, `HeadTaken`, `RingTurned`), and `RingChanged` and `ListChanged`
  that the others, which share no TCB with it, stay as they are. The ring of one
  TCB is a case of its own: it keeps pointing at itself when it is taken out (only
  the head says that the ring is empty). The store through NULL in `OS_Signal` is
  kept apart: either it is ignored, or nothing follows. `PointersImplementKernel`,
  `LinksConsistent` and, by it, all theorems on the kernel follow for the pointers
  (`PointersKeepKernelTheorems`). That `Kernel` (the instance the actions of
  `OSLists` are built from) and the instance of `OSKernelProofs` are the same is
  `SameKernel`.
* `OSMailBoxProofs`: the unit of `BoxFree`, the unit of `BoxDataValid` and the
  thread between its two semaphores are one token (`OneUser`). With it every
  step is a deposit, a collection or a stutter of `OneSlotBox`.
* `OSProcessProofs`: every step of `OSProcess` is a step of `OSKernel` or leaves
  its variables alone (`KernelWithProcesses`), so all theorems about the kernel
  hold with processes. `PInv` adds types, `CountsThreads` and
  `ImageLivesWithThreads`; it rests on `IInv`, because only an ALIVE thread kills
  itself and only a dead TCB is given away.
* `Lab3DataProofs`: `TypesInv` joins the types with `Control` (only `Consumer`
  waits for samples, and only while there is none) and bounds `CurrentSize` even
  with overruns; `LCDToken` makes the LCD a token that is free or has one holder.
  Without overruns `Indexes` ties `PutI` to `GetI` and `CurrentSize` (`PutI` is
  where the unread elements end), which gives the refinement of `LossyQueue`.
  `Stream` says that the samples so far are the complete batches, the batch in
  `x`, the element just read and the unread ones, in this order;
  `BatchesConsecutive` follows. `BoxImplemented` takes the steps of the mailbox from
  `OSMailBoxProofs` and adds that nothing else touches its two semaphores. These
  three assume `~Overrun`: `lab3_overrun` shows what happens otherwise.
* `HeapProofs`: `IInv` says that the blocks tile the array, that the two tags of
  a block agree and are even, that the blocks in use are those the program owns,
  that the statistics are the sums of the tags and that no two free blocks with
  words are neighbours. The parts need each other. Ownership is what
  makes a write harmless and lets `Heap_Free` find a tag in front of the pointer;
  tiling is what makes the word in front of that the end tag of the neighbour;
  the numbers must be even, or a split would leave a rest of one word, which has
  no room for two tags. Marking, splitting and merging all replace a run of
  blocks by one or two with the same ends: `Rewritten` says once what this does
  to the walk along the tags, and `Loose` is the invariant with exceptions for
  the free neighbours that `Heap_Free` still has to join. `Starts` and the sum of
  the tags are recursive functions; that they exist is proved by induction over
  the distance to the end of the array (`SetInduction`, from the least
  counterexample), after which they unfold. TLC checked `IInv` on the instance
  of the run `heap` before it was proved. `Invariance` gives `TagsAgree`,
  `OwnedExactly`, `StatsMatch`, `Coalesced` and the refinement of `Allocator`.
* `EFileProofs`: while the disk is not damaged and `format` is not at work, there are
  sequences of sectors `c`, one for each file and one for free space, without
  duplicates and without common sectors, such that the disk links each of them
  from the sector in its entry to 0 and the files' sectors hold their bytes, all
  but the last of each full (`Structure`). The properties cannot be proved
  without `c`: what they say of the chains in `View` is not inductive, because
  `View` mixes RAM and disk, and inside a call neither is consistent alone. The
  invariant says what the exceptions are. `DiskNamed` are the files that the next
  boot finds. While `touch` runs, its new entry (`New`) is in RAM
  only, and the free chain begins behind its sector once that is written
  (`FreeHead`). While a sector is linked to a file, the file's chain leads to it
  and not to 0 (`Leads`), and it is in no chain at all from the write of the
  directory to that of the sector. `Mirrors` ties the entries in RAM to those on
  the disk, and `Unwritten` counts the bytes the disk does not have yet. A
  sector is taken off with `Tail`, added with `Append`; what a chain does not
  touch stays (`LinkedFrame`, `FileFrame`), which is where disjointness is used. The
  loss of power needs two more facts. The free chain on the disk must be one even
  while `touch` is at its head (`FreeOnDisk`), and a disk that is half formatted must
  have a free chain at all: every sector leads to a later one or to none (`Rising`),
  from which a chain ends (`RisingChain`, by `SetInduction` from the last sector
  back). That holds because a file is only extended by the first free sector and
  all sectors of files are before it (`Behind`). TLC checked the structure, `Rising`
  and `Behind` on the instance of the run `efile` before they were proved. At the
  end `LinkedChain` shows that `Walk` visits the sectors of such a sequence and
  `HoldsIs` that the sum over them is the number of bytes: both are recursive functions, unfolded after a proof
  by the least counterexample that they exist. `ChainsStayApart`, `NoByteLost`,
  `DiskSurvives` and `TypeCorrect` follow. They hold for power lost at any sector
  write of `touch`, `format` and the closing of a file. Once `damaged` is set nothing
  but the types is claimed up to the next `format`, as the code repairs nothing:
  after an error of the disk in a call that writes, an exhausted free chain, and a
  loss of power while `eFile_Write` links a sector (section 3).
* `UART0intProofs`: characters are numbered, so `TxStream` can say which numbers
  the line, the hardware, the foreground's `letter` and `TxFifo` hold: consecutive
  ones, up to `written`. It is inductive only with `CopyControl` (the interrupt is
  masked while the foreground copies, what it read is still at `TxGetI`), and that
  only if no receive interrupt enters in between, so `LineInOrder`,
  `ChannelImplemented` and `TypesCorrect` assume `~Collide`; `uart_collide` shows
  the rest. `RxStream` is the same for what was received and `NothingLost` needs no
  such assumption. The lemmas before them are about free running indexes: a
  multiple of the fifo size wraps to the same slot.

**Checked by TLC only**: liveness, which is out of the prover's reach. Every
invariant and action property of the runs that must pass is proved.

## 5. Not modelled

* Binary semaphores: `OS_bWait` spins through `OS_Suspend`. Only tests use them,
  and what can go wrong, a waiter of high priority that starves the owner, lies in
  the priority scheduling that `kernel_live` is about.
* CAN: three statements over registers of the controller; no program here calls
  it. A message copied while the next one arrives could mix with it (`can0.c` 158).
* The Pi port: a first version, round robin without priorities or blocking, with
  its PCB and semaphore code commented out. It shares no definition with `OSKernel`.
* Background threads and time: they configure timers. What their handlers call is
  in `OSKernel` (`ISRSignals`, `ISRAdds`).
* The LCD command of the interpreter, which passes the value -1 and so keeps
  `LCDFree` (`ST7735.c` 1414): `Lab3Data` has the callers that print counts. The
  parser of the interpreter, drawing and the FFT keep no shared state.
* `OS_Fifo_Size`, `eFile_DirNext`, `eFile_Size`, which nothing calls; the empty
  `eFile_DOpen` and `eFile_DClose`.
* A file command with an empty argument: `EFileAssumption` keeps the empty name,
  which marks an unused entry, out of `Names`.
* What `touch` reports when the directory is full. The test looks at the wrong entry
  (`eFile.c` 181): the new file goes to the entry of the free chain, where no call
  finds it, and its sector is lost. The model does so (`FreeSlot`), but the
  properties of `EFile` are about the named entries and do not notice.
* What a process promises that got a thread after its last one was killed
  (`revived`): its text and data are freed while the thread runs in them.
* The contents of a block after `Heap_Realloc` (heap.c 211): `owned` follows what
  the call gives, so `OwnedExactly` does not notice a block lost by a failed one.
* Heap calls of two threads at once: the code has no lock, so nothing holds of
  them; it is listed as a hazard.
* Drivers for ADC, disk, timer and GPIO: registers only. `OS-2.2.c`, `os_temp.c`,
  `RxTxFifo.c` and the pointer fifos of `FIFO.h` are not used. The toolchain, its
  headers and the register headers, most of the lines of the repository, are
  vendored.
