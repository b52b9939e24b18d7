# A TLA+ model of the Toutatis kernel

Toutatis is a small 32-bit x86 kernel: a higher-half kernel with paging, a heap
indexed by a red-black tree, and preemptive multitasking on one processor. This
directory holds TLA+ modules translated from `src/kernel`, TLC configurations
that check them on small instances, and TLAPS proofs. `PROJECT.json` maps every
definition to the lines it models and lists runs, faults, findings, hazards and
theorems.

## 1. The system

| Part | Source | State | Operations that change it |
|---|---|---|---|
| Scheduler | `scheduler.c` | ring of `thread_t` (`next`, `prev`, `state`), `current_thread`, `kernel_thread`, `tss.esp0`, `current_directory` | `schedule_thread`, `unschedule_thread`, `schedule_tick`, `switch_next`, `scheduling_init` |
| Threads | `thread.c`, `syscall.c` | heap blocks of a thread, ids, `num_threads` | `create_kernel_thread`, `create_thread`, `destroy_thread`, `thread_exit` |
| Free-block tree | `rb_tree.c` | nodes, colours, lists of duplicates | `insert_rbnode`, `remove_rbnode` |
| Heap | `mem_alloc.c`, `kheap.c` | block headers and footers, `end_address`, `mem_used` | `alloc`, `free`, `expand`, `contract` |
| Physical memory | `paging.c` | bitmap of frames, `used_frames`, page entries | `alloc_page`, `free_page`, `map_page`, `paging_mark_reserved`, `paging_finalize` |
| Interrupt controllers | `pic.c` | masks, requests and in-service bits of two 8259 chips | `pic_acknowledge`, `pic_enable_irq`, `pic_disable_irq`, `pic_disable` |
| Interrupt handlers | `system.c` | a list in a fixed array, per vector | `attach_interrupt_handler`, `detach_interrupt_handler`, dispatch |
| Keyboard | `keyboard.c` | ring buffer, last character, shift | `keyboard_handler`, `keyboard_getchar`, `keyboard_lastchar` |
| Address spaces, processes | `paging.c`, `process.c` | page directories, `current_directory`, `cr3`, the TLB | `get_page`, `clone_page_directory`, `switch_page_directory`, `create_process` |
| Console | `vga.c`, `logging.c` | `xpos`, `ypos`, video memory, cursor registers | `vga_print_char`, `vga_scroll`, `set_cursor_pos` |
| Formatting, strings | `vsprintf.c`, `utils.c`, `string.c` | the caller's buffers | `vsprintf`, `number`, `memmove`, `strncpy`, ... |
| Boot | `main.c`, `gdt.c`, `idt.c`, `initrd.c`, `*.s` | tables written once | |
| Vnodes | `vnode.c` | reference counts, free list | nothing calls them |

How they interact. The timer interrupt enters `irq_handler`, which ends the
interrupt at the controllers and calls `schedule_tick`; the tick moves along the
ring and frees a finished thread through `kfree`. `kmalloc` searches the tree,
and grows the heap by pages that `alloc_page` takes from the bitmap. `main`
creates threads with interrupts enabled, so every step of `create_thread`
can be separated by ticks in which other threads run, exit and are freed. A
process is a clone of the kernel's page directory in a page of the heap, and a tick
loads the directory of the thread it switches to. `main` prints through `kprintf`,
and the keyboard's echo and the printing system calls interrupt it.

What makes it hard: there is one processor and no lock (the `spin_lock` calls
are commented out), so correctness rests on which sections disable interrupts;
structures are freed by the interrupt handler that runs on them; the heap keeps
its index inside the free blocks themselves; the controllers can report
interrupts that no device asked for. The hazards in `PROJECT.json` give the line
where each of these bites.

## 2. Modules

**Atomicity.** Every gate clears the interrupt flag, so an interrupt or system
call is one step, and so is code between `irq_save` and `irq_restore`. All other
code is cut where an interrupt could make a difference.

**Faults.** A definition whose comment starts with `Fault` is a variant of the
next definition with one slip in it. No specification uses it. Substituting
it shows that a property would notice the slip; each property of a passing run
has at least one such fault.

* `Scheduler`: `scheduler.c`, `thread.c`. A thread is an address `kmalloc` can
  return; its fields are functions on addresses, and addresses are used again.
  `create_thread` is six steps with its error returns. Kernel stacks are counted
  in trap frames: a trap from user mode starts at `tss_esp0`, and a frame that
  does not fit marks the stack's heap block as smashed. What happens after such
  an overrun is not defined, and the model stops there (`status`).
* `ReadyQueue`: what the scheduler promises, a first-in first-out queue whose head
  runs. The refinement mapping is in `Scheduler`: the queue is the ring
  read along `next` from `current_thread`.
* `RBTree`: `rb_tree.c` as operators on a tree record: the single-descent
  insertion and removal, rotations, duplicates, `assert_tree`.
* `BestFit`: the block layout of the 32-bit build and the callbacks `compare` and
  `select_dup`. It instantiates `RBTree`.
* `FreeTree`: the tree under any sequence of the three calls the heap makes.
  `BlockSet` is what it promises (take this block, or a block of the smallest
  sufficient size); `MCFreeTree` relates the two.
* `MemAlloc`: `mem_alloc.c` over the tree, with byte addresses. Where the code
  reads memory nobody has written, the model chooses: `stale` is an old magic
  left where a header comes to lie, `mapped` a cached translation of a page given
  back. A `status` other than `"ok"` names the point where the kernel asserts,
  faults or corrupts memory.
* `Paging`: the bitmap, `alloc_page` and `free_page`, the boot sequence, and the
  heap's end as it moves a page at a time. `test_frame` yields the masked word, as
  in the code. Bits set past the bitmap at boot are kept apart in `outside`.
* `AddressSpace` extends `Paging` with page directories: which table each entry
  links, the heap page and the frame a directory is in, `current_directory`,
  `cr3`, and the processor's cache of translations, which fills on access, is
  emptied by a load of `cr3` and loses entries at any time. `clone_page_directory`
  stops the kernel where the unfinished `copy_frame` would be called and where its
  `memset` faults. Every operation of `Paging` that it uses is the one of that module, so
  that `SpacesSpec => Spec`.
* `Pic`: `pic.c` and `irq_handler` against the two cascaded chips, which are
  external and modelled from how the driver uses them. `switch_next` enters the
  timer's gate by software.
* `HandlerList`: the handlers of one vector. `attached` records what callers
  asked for.
* `Keyboard` and `CharQueue`: the handler interrupts the two readers between any
  two accesses; the buffer implements a bounded queue in which every press arrives
  that does not find it full.
* `Console`: `vga.c` under two kinds of writers. `main`'s `vga_print_char` is cut at
  every access; `xpos` and `ypos` are neither volatile nor protected, so in an
  optimised build what `main` holds in registers may be older than the variables, or
  not stored yet, and the model allows every such choice. A print with interrupts
  disabled is one step. `func2` and, in its last loop, `main` store characters into
  video memory without `vga.c` (`store_video`), at any place and between any two steps.
  `Terminal` is what the screen promises: a page that feeds a line at the bottom, and
  on which others may write.
* `Numbers`, `Format`, `Strings`: the pure routines as operators, and `vsprintf` as
  one step per turn of its loop, which moves the index in the format, the place in
  the buffer and the argument pointer. A call is given by the directives it was
  written from; `Meant` says what they mean without the code's algorithm. Characters
  are kept because the properties are about the text that results; what no call of
  `vsprintf` can reach, such as `0x` in `atoi`, is left out.
  `MCLibrary` puts them and `HandlerList` into one state space, in which one of them
  moves at a time.
* `SchedulerProofs`, `ReadyQueueProofs`, `PagingProofs`, `AddressSpaceProofs`, `PicProofs`,
  `KeyboardProofs`, `ConsoleProofs`: theorems. The other `MC*` modules hold values of
  constants and refinement mappings.

## 3. Runs

Runs that hold:

| Run | Instance | What it shows |
|---|---|---|
| `scheduler` | 3 thread addresses, 2 processes, ids to 5, 2 frames per stack | Through every interleaving of `create_thread`, `thread_exit`, traps and ticks a finished thread is current and can be left (`FinishedLeaves`) and is not resumed (`NeverResumed`); trap stack and heap blocks belong to the right thread (`TrapStackIsOwn`, `StacksFollowThread`); `create_thread` returns its own thread's id although it may read it from freed memory (`CreateReturnsOwnId`). `RingInvariant`, the inductive invariant of the proof, says that the list is one doubly linked ring, that one thread is marked running, that its address space is loaded and that `num_threads` counts the ring. The ring implements `ReadyQueue`; every thread runs again (`EveryThreadRuns`); every finished thread is freed (`FinishedIsFreed`). |
| `free_tree` | 8 blocks of 6 sizes | After any insertions and removals the tree is red-black and ordered with one list of duplicates per size, and it implements `BlockSet`. |
| `heap` | pages of 128 bytes, 2 to 6 of them, three kinds of request, 3 live | Blocks tile the heap, free ones are coalesced and are exactly those in the tree, `mem_used` is right, each pointer owns its block, no call disturbs another allocation, and the heap goes wrong only where `FailsOnlyAtLimits` says (below). |
| `paging` | 10 frames in words of 4, up to 4 heap pages, 2 processes, tables of 2 pages | No frame serves two pages (`FrameExclusive`); mapped frames are marked; `used_frames` is too large by exactly the reserved frames outside memory. Every process has the kernel's tables, also for pages mapped after it was made, and no table of its own (`KernelSpaceShared`). Cached translations are stale only for pages given back since `cr3` was loaded, and no access reaches another page's or the kernel's frame, except through such a translation of a frame that is first in its word (`TranslationsSound`). A directory is in a frame of its own unless its page is one of those (`CloneHasFrame`). |
| `pic` | devices on lines 0, 1, 7, 8, 15 | Whenever the kernel runs with interrupts enabled nothing is in service, and exactly the interrupts without a request count as spurious. A timer request is served unless withdrawn or masked (`TimerServed`). |
| `keyboard` | 2 keys and shift, buffer of 4 | The ring implements `CharQueue` and each press is a `Put` of its character, never a step that leaves a queue with room as it was; `main` acts on no press twice. |
| `console` | 3 rows, 2 columns, tab stop 2, registers of 2 bits | Whatever interrupts what, the cursor is on the screen between prints and no scroll moves more rows than there are (`ScreenBounds`); a print that is not itself interrupted does what a terminal does with that character, whatever interrupted prints and stores of other threads left before it (`ImplementsTerminal`). |
| `library` | ints of 5 bits; 7560 formats with four things behind each; 7 bytes of memory in words of 2; 3 handlers in 4 slots | What `kprintf` sends to the screen is what its format means, and no argument that was not given is part of it (`MessageIsMeant`, `OwnArguments`); `strtol` reads back what `number` wrote (`ReadsBack`); `memmove` always and `memcpy` downwards move a block as it was (`BlocksMove`); `strcmp` is the order of a dictionary and `strncpy` cuts and terminates (`StringsAgree`). Dispatch of an interrupt ends and calls no free slot, and the links agree (`WalkSound`); attaching and detaching loses, adds or reorders no call, except that of a handler attached to a list that was emptied with its head elsewhere than at the first slot (`LostOnlyBehindStaleHead`). |

`MessageIsMeant` and `OwnArguments` speak of the message up to its null. The loop scans
two characters more; what they make `vsprintf` write or take is behind the message.

Runs that refute what a comment or an assertion of the code says. Each
counterexample is a finding in `PROJECT.json`:

| Run | Statement | What the code does |
|---|---|---|
| `scheduler_magic` | `mem_alloc.c:284`, "Wrong header magic" | `scheduler.c:113` sets `esp0` below the saved frame, so a user thread loses a frame of its kernel stack per slice until it overwrites the block's header. |
| `heap_magic` | `mem_alloc.c:284`, same assertion | An aligned block that is not split gets no magic (`mem_alloc.c:224`). |
| `paging_leak` | `paging.c:115`, "allocate a free physical frame" | Freed frames stay marked unless their bit is the first of a word; the scan then leaves the bitmap. |
| `handlers_head` | `system.c:150`, "the list is empty and head will be 0" | Detaching the last handler leaves `handlers_heads` as it was; a handler attached next goes to the first free slot and is not called (`AllAttachedCalled`). |

The properties of `heap` are stated while `status` is `"ok"`: they say that the
structure is right up to the first step where the code itself goes wrong.
`FailsOnlyAtLimits` says of every such step that it has one of these causes and no
other. It sorts failures and excludes none of those listed: each of the hazards at
these lines happens while it holds. TLC reaches each of them (check
`heap.status # "overlap"`, or another value, as an invariant to see the history):

* `"overlap"`: in `compare` the size less the alignment offset is unsigned and
  wraps (`mem_alloc.c:79`), so the search takes a block that the alignment makes
  too small, although the comment on line 81 says "node is big enough"; or the
  search finds a block that fits and `select_dup`, which does not look at the
  alignment (line 100), takes another of the same size.
* `"sliver"`: what contraction leaves of the last block can be smaller than a
  header and a footer (`mem_alloc.c:345`; line 344: "the node will still exist").
* `"exhausted"`: at `max_size` `expand` does nothing, and `alloc`, "with a bigger heap
  this time" (line 211), has written a header past the end.
* `"fault"`: `free` reads the size of the right neighbour before it compares its
  address with the end of the heap (`mem_alloc.c:299`), and the page there may not
  be mapped.

`FailsOnlyAtLimits` also says that a neighbour `free` merges with is always found in
the tree. Since the model stops at the first of the failures above, this is about
heaps that were healthy until then. It does not contradict line 11 of `TODO`
("Left footer not found" while a thread was freed): after an overlap or a sliver
the kernel runs on with a corrupt heap, which is not modelled.

Other things the models make visible, which no caller meets today or which
another defect hides:

* `remove_rbnode` removes a node whatever its address when no duplicate matches
  (`rb_tree.c:263`; line 151: "with a matching address"); the heap never asks for
  an absent block.
* `free_page` does not invalidate the translation. That `clear_frame` keeps most
  frames marked hides it: a stale translation can lead to a frame with a new owner
  only for the first frame of a word of the bitmap. If `clear_frame` is mended,
  `TranslationsSound` fails until a page given back is invalidated.
* When memory is used up `expand` grows the heap by a page without a frame. A page
  directory put there is stopped by the fault of its own `memset`, unless an old
  translation of the page is cached; then `entries_phys_addr` is 0 and the next
  switch loads 0 into `cr3`.
* Two newlines at the bottom of the screen, one of them interrupting the other, can
  scroll by two rows and blank one; the screen recovers as it scrolls.
* `strlen` returns one more than the length, so `strcat` appends behind the null;
  `strncmp` compares one character more than `n`; `strtol` takes a letter equal to the
  base for a digit and refuses the base 0 it has code for; an unknown conversion
  leaves a byte of the buffer unwritten; a `%` directly behind a format in memory
  takes arguments that were not given, after the message is complete; of `+` and a
  space the last one counts.

**Bounds.** They are named constants. Three thread addresses with five ids give a
ring of three and addresses that are freed and used again; two frames per stack
let the overrun happen while other threads are in every state. Eight blocks give a
tree of six nodes, in which every rotation and every sibling case of insertion and
removal occurs, and one list of three blocks of a size. The heap's pages are 128
bytes so that one request fits many times in a page, one takes most of it and one
is a page, aligned; the heap reaches its least and its largest size. Ten frames
leave the bitmap's last word incomplete and run out; four heap pages lie in two
tables, so that a table missing in a process would be noticed. Three rows are the
fewest in which a scroll by two leaves a row. Ints of five bits wrap within the
values printed; seven bytes hold every overlap of blocks of up to three words.
`MaxLive` and `MaxId` bound histories; `CounterRange`, `UIntRange` and `ByteRange`
are where counters, ints and cursor registers wrap. Symmetry, of the processes, is
used in `paging` only, which checks no liveness.

**Deadlock** is not checked where the kernel may really stop (an assertion, `stop()`,
memory used up), where a bound stops the model, or where a message is complete; it
is checked for the tree, the controllers, the keyboard and the console.

**Fairness.** `Scheduler`: weak fairness of `scheduling_init` (`main` gets there)
and of the timer, which the PIT raises periodically and no section of code keeps
masked for ever; none for threads or `main`. `Pic`: strong fairness of `Signal`,
since the processor samples INTR between instructions but a software
interrupt may come first any number of times; weak fairness of the
acknowledgement cycles and of the handler. Devices are not assumed fair.

## 4. Proofs

All theorems hold for every value of the constants that the named assumptions of
the modules allow; the assumptions are about sizes (a word has bits, a buffer has
room for one character) and about model values being distinct.

`SchedulerProofs`, for any finite set of thread addresses without the null
pointer, any processes, any positive `StackFrames` and any `MaxId`:

* `RingAlways`: `Spec => []RingInvariant`. That the ring is linked is not inductive
  alone: a step of `create_thread` works on a structure that must be known to
  be outside the ring (`CallState`); removal needs the finished thread not to be
  the only one, that is, to differ from the kernel thread (`FinishedIsCurrent`);
  and the boot state must be empty (`BootState`). The lemmas `InsertLinked`,
  `InsertConnected`, `RemoveLinked`, `RemoveConnected` are about any doubly linked
  ring; `NextReady` shows that `next_ready_thread` is the successor. There is one
  lemma for each action or group of actions.
* `RingSafe`: the parts of the invariant that a reader looks for follow.
* `FinishedAlwaysLeaves`, `FinishedNeverResumed`: the exit protocol, the second an
  action property.
* `CreateAlwaysReturnsOwnId`. `IdInvariant` says that from the filling of the
  structure to the return the last id handed out is the one in it; it is preserved
  because only one call at a time creates threads.
* `StacksAlwaysFollow`, `TrapStackAlwaysOwn`, from `StackInvariant`: each block of
  the heap belongs to a live structure, a structure knows its user stack, a
  registered thread has a kernel stack, and the stack of the next trap is the one
  `schedule_tick` loaded last. Before scheduling starts there are no user stacks,
  which `NoStackAtBoot` states apart.

`ReadyQueueProofs`: `ReadyQueueImplemented`, `Spec => ImplementsReadyQueue`, for any
number of threads. The queue is the walk along `next` from the current thread, a
recursive function, and the facts about it are proved by induction over its index
(`SetInduction`, stated for sets because the provers cannot instantiate a predicate):
in a single ring the walk meets every thread once and leads back to its start
(`WalkIsRing`). Linking a thread before the current one then appends it
(`WalkAppend`), moving on rotates (`WalkRotate`), unlinking the current thread takes
the head off (`WalkLeave`); `RingInvariant` gives these lemmas their hypotheses.

`PagingProofs`, for any memory, kernel and heap sizes: `FramesAlways` proves
`FrameInvariant` (mapped frames are marked, nothing is mapped above the end, the
heap is empty until the kernel is mapped), from which `FramesExclusive` and
`MappedAlwaysSet` follow. The leak refuted by `paging_leak` does not contradict
them: a frame wrongly kept is never handed out. `UsedAlwaysCounts` needs in addition
that the bitmap is finite and how one bit changes its cardinality.

`AddressSpaceProofs`: `SpacesImplementPaging` shows that `AddressSpace` implements
`Paging`, so that `SpacesKeepFrames` has the theorems above for the composition.
`SpacesAlways` proves `SpacesInvariant`: the tables of the kernel's space exist
before anything is mapped in them, no process has a table of its own, and a cached
translation agrees with the page's entry or the page was given back since `cr3`
was loaded. `KernelSpaceAlwaysShared`, `TranslationsAlwaysSound` and
`CloneAlwaysHasFrame` follow.

`PicProofs`: `ServiceAlways` proves `ServiceInvariant`, which says for every place
the handler can be at what the two chips have in service; it is needed because the
property speaks only of the moments with interrupts enabled.
`NothingEverLeftInService` and `SpuriousAlwaysMeansNoRequest` follow.

`KeyboardProofs`, for a buffer of any size: `BufferAlways` proves that the indices
stay in the buffer; with it `BufferImplementsQueue` shows that the ring implements
`CharQueue` and that each press arrives (`PressStores`), where `StoreAppends` and
`AdvanceTakesHead` are the arithmetic of the two indices modulo the size.
`NeverPressedTwice` is the action property about `main`'s polling.

`ConsoleProofs`, for a screen of any size: `ScreenAlwaysBounded`, from an invariant
that bounds the cursor at each step of a print which others interrupt.

Only model-checked: liveness (fairness is outside the prover's reach); the tree,
the heap, formatting and the string functions; the refinements `ImplementsBlockSet`
and `ImplementsTerminal`; `HandlerList`, whose walk is a recursive operator.

## 5. Not modelled

* Code that nothing in the kernel calls: `vnode.c`, `sleep`, `scheduling_finish`,
  `destroy_process`, `lookup_rbnode`, `invalidate_page_tables_at`, `set_pos`,
  `memcmp`, `memchr`, `strnlen`. A model would have to invent the calls. `vfs.c` is
  empty. Some functions are modelled although nothing calls them, because what they
  are for fixes their calls: `detach_interrupt_handler`, `keyboard_getchar`,
  `pic_disable_irq` (but for its wrapper `disable_irq`, which nothing calls either),
  `strtol`, `strcat`, `strcpy`, `strncmp` and `memmove`.
* What lies behind `copy_frame`: `clone_page_directory` reaches it only for a table
  that is not the kernel's, and it stops there.
* Boot code that runs once on data of the boot loader: the multiboot structures,
  the placement allocator, the ram disk, the descriptor tables.
* The serial port, which is polled and keeps nothing but an address; the timer's
  divisor; the text attribute of the screen; protection bits of pages.
* The 1024 bytes of the buffer in `kprintf`; run-time accounting in cycles and thread
  priorities, which nothing reads.
* Heap, TLB and scheduler together. The tick that frees a finished thread runs on the
  stack it frees (`scheduler.c:104`); if that block is the last of the heap,
  `contract` unmaps its pages and the tick goes on through translations still in the
  TLB. Each half is modelled, the stack freed under the tick in `Scheduler` and the
  stale translation in `AddressSpace`; the product with the heap is out of TLC's
  reach.

## 6. Plan

1. Done: every part of the kernel that keeps state and is called, the composition
   of page directories with frames, the library routines, and proofs of the
   invariants of six modules and of three refinements (`ImplementsReadyQueue`,
   `ImplementsCharQueue`, `AddressSpace` over `Paging`).
2. Left, as theorems: what one print does to the screen, for any size
   (`ImplementsTerminal`); the layout of the heap over the tree (`Tiled`, `Coalesced`,
   `LiveOwnsBlock`); the properties of `HandlerList`, along the lines of
   `ReadyQueueProofs`.
