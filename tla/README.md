# QuantumNEC: models, checks and proofs

QuantumNEC is a small x86-64 kernel in C++ (`source/kernel`, `include/kernel`,
`include/lib`). These modules model its core logic in TLA+, check the models on
small instances with TLC, and prove the main safety results with TLAPS for every
value of the constants.

## 1. The system

| Part | Code | State it keeps | Operations |
|---|---|---|---|
| Task scheduler (MuQSS) | `source/kernel/task/schedule/Muqss.cpp`, `include/kernel/task/schedule/*.hpp` | per core: `running_task`, `next`, a priority queue, a real-time FIFO, a lock; per task: slice, deadline, priority, cpu | `schedule`, `yield`, `wake_up`, `first_initialize` |
| Process control block | `source/kernel/task/task.cpp`, `include/kernel/task/task.hpp` | name, PID, page table, thread, `schedule`, `is_empty` | move construction and assignment, `save_context`, `activate`, `initialize_task` |
| Spin lock | `include/kernel/task/lock/spinlock.hpp` | an atomic flag | `lock`, `try_lock`, `unlock` |
| Page allocator | `include/kernel/memory/allocator/page.hpp`, `source/.../page.cpp`, `include/lib/bitset` | for each page size a tree of zones, each with a bitmap | `initialize`, `allocate`, `deallocate`, and the `_` versions without the lock |
| Kernel heap | `include/kernel/memory/allocator/kheap.hpp`, `slab.hpp`, `source/.../kheap.cpp` | 16 slab caches, each a list of slabs with a colour map | `initialize`, `allocate`, `deallocate`, `operator new/delete` |
| Paging | `source/kernel/memory/paging/page_table.cpp`, `page_table.hpp` | page tables of 4 or 5 levels | `map`, `unmap`, `find_physcial_address`, `copy`, `activate` |
| Containers | `include/lib/rbtree.hpp`, `mlist.hpp`, `skiplist.hpp`, `bitset` | nodes and links | insert, find, erase, iterate |
| Interrupts | `source/kernel/interrupt`, `include/kernel/interrupt` | IDT, handler table, local and I/O APIC, HPET | entry stubs, `do_IRQ`, `Clock::handler`, APIC calibration |
| System calls and services | `source/kernel/syscall` | a table of services | `register_syscall`, `call`, `Servicer::enable`, module and ELF loading |
| Boot | `source/kernel/boot/kloader.cpp`, `source/kernel/driver` | - | order of initialisation, application processors (`smp_start`), ACPI tables |
| Output | `source/kernel/display`, `source/lib/string.cpp`, `include/lib/format.hpp` | cursor, buffers | printing, formatting |

How they interact. The clock interrupt of a core (`Clock::handler`) saves the
context into the core's `running_task`, runs `schedule()` and returns the frame
of whatever `running_task` holds then. Services are enabled by
`Servicer::enable`, which gives their PCB to `wake_up`; that looks at the running
tasks of *all* cores and may write the `next` slot of any of them. Slots of cores
are nodes of one red-black tree, `running_queue`, which `get_current()` searches
and extends without a lock. Page tables and stacks come from the page allocator;
the heap takes 2 MiB pages from it without its lock, and the page allocator takes
its zone descriptors from the heap without the heap's.

At this commit `loader_entry` has the calls that start the system calls, the
other processors, the loader and interrupts commented out (`kloader.cpp:126-129`)
and runs a self-test of the allocators instead. The models are of the components
as the kernel's code composes them when those calls are made; `smp_start`
(`smp.cpp`) makes them for the other cores. `Interrupts` has both: a boot that
stays in `loader_entry`, as committed, and one that makes the four calls.

## 2. What is hard here

Concurrency: one scheduler state per core, written by other cores; unlocked reads
(`Muqss.cpp:36`, `:172`);
a short-circuit that skips `try_lock` (`:184`). Ordering: a context loaded from
`next` before `next` is moved (`:105`, `:117`). Failure: a null dereference raises
a page fault whose handler never returns, with the locks still taken. The boot:
timers that count before their handler is there, cores that share tables of
handlers and pairs of device registers, interrupts that come in with interrupts
left enabled (`idt.cpp:13`). Sharing: page tables whose upper half all spaces have
in common, frames that return to the allocator while an entry names them.
Arithmetic over zones, words and bits in the allocators, and at the ends of blocks,
strings and tables. `PROJECT.json` lists every hazard at its line with the
properties that cover it, or the reason none does.

## 3. The modules

| Module | Models | Used by |
|---|---|---|
| `Muqss` | the scheduler of all cores, the moves of PCBs, the spin locks, the clock handler's and the system call's use of them | `MC_Muqss`, `MC_Muqss3`, `MuqssProofs` |
| `Scheduler` | what a task may rely on: it comes once, to one core, waits and runs there alone | `Muqss` (refinement) |
| `MuqssProofs` | theorems for any cores, tasks and time slice, at one priority or, where they say so, any | `MuqssLockProofs` |
| `MuqssLockProofs` | theorems about locks and address spaces, with one priority for all tasks | |
| `RBTree` | `Library::RBTree`: find, insert, `operator[]`, iteration | `MC_RBTree`, `RBTreeProofs` |
| `KeySet` | what the users of the tree rely on: a growing set of keys | `RBTree` (refinement) |
| `RBTreeProofs` | theorems about search, order, balance and the set of keys, for any keys and nodes, with one caller | |
| `PageAllocator` | zones, bitmaps, `_allocate` and `_deallocate` of one page size | `MC_Page`, `PageProofs` |
| `PageProofs` | theorems about requests of several pages, for any sizes, memory map and clients, as long as each is served soundly | |
| `KernelHeap` | slab caches, their growth and release, `operator new` and `delete` | `MC_Heap`, `HeapProofs` |
| `Objects` | what a client of the heap relies on: objects of its own | `KernelHeap` (refinement) |
| `HeapProofs` | theorems about objects, maps and requests, for any sizes and pages | |
| `PageTable` | tables of the kernel and of tasks: map, unmap, search, copy, destructor | `MC_PageTable`, `PageTableProofs` |
| `PageTableProofs` | theorems about walks and maps, for any tables, tasks and requests | |
| `List` | the intrusive list `Library::List` | `MC_Library`, `ListProofs` |
| `Sequence` | what its users rely on: a sequence, each node in it once | `List` (refinement) |
| `ListProofs` | the links of a list and that it is a sequence, for any nodes | |
| `Skiplist`, `Strings`, `Format` | the skip list, the memory and string functions, the formatter | `MC_Library` |
| `Routing` | reading the MADT, and `register_ioapic` access by access | `Interrupts` |
| `Elf` | `load_elf_file` and what a new task's text segment shows of it | `Interrupts` |
| `Interrupts` | the boot of all cores, gates, stubs, timer, the way of an interrupt | `MC_Platform`, `InterruptProofs` |
| `InterruptProofs` | theorems about locks, frames, the order of the boot, the routes of devices and the image of a file, for any cores, firmware and files | |

A definition named `<What>_<Operation>` just before `<Operation>` is a variant:
the operation with one plausible bug in it. Variants are no part of any
specification; they are substituted for the operation to see that a property
notices.

### Muqss

*State.* `running_task[c]`, `next[c]`, `scheduler_queue[c]`, `RT_task_queue[c]`
and `lock[c]` are the members of `mCore` of core `c`. A PCB is its identity
(`Task`); the slot `next` also has the flag `is_empty`, because the code asks the
flag (`has_task()`) and moves the contents, and the two can disagree. `time_slice`,
`virtual_deadline` and `cpu` are fields of a task's `Schedule`. `active[c]` is whose
page table and kernel stack `activate()` loaded last. `fresh` are PCBs that were
built and not yet given to `wake_up`. `queues` are the cores that have a node in
`running_queue`. `pcb`, `rq`, `top`, `target` are locals of `wake_up`.

*Steps.* `pc[c]` says where core `c` stands. A step is one critical section, or one
access outside of any lock to a variable that another core writes. So
`Muqss::schedule` is `Expire`/`KeepRunning`, `CheckNext` (the unlocked read of
`next`), `RTLock` and `TakeRT`, `NPLock` and `TakeNP`, `SwitchLock`, `Activate` and
`MoveNext`; `yield` is `Yield`, `YieldLock`, `YieldSelect`, `YieldPush`; `wake_up` is
`WakeScan` (or `WakeStale`), `WakeContinue`, `WakeOutrank`, `WakeTryLock`, `WakePop`,
`WakeStore`, `LocalLock`, `WakeLocal`. Where the short-circuit skips `try_lock`, nothing orders the store against the
owner's steps, and it is four of them: `BargeMove` (the contents), `BargeFlag` (`is_empty`), `BargeCpu` (which faults
if the slot has lost its `Schedule` by then) and `BargeUnlock`. `Tick`, `TickLock`, `SaveContext` and `Return`
are `Clock::handler`. Interrupts are masked in handlers and in system calls, so
`Tick`, `Yield` and `Enable` start in "user" only.

*Faults.* A null dereference raises a page fault, and
`GeneralInterruptHandle::handler` never returns from one: the core goes to "dead"
and what it had locked stays locked. Other cores go on.

*Undefined behaviour.* The comparison of two tasks in the heap of `wake_up` reads
running tasks that other cores are moving. `WakeScan` builds the heap from the state at
that step; each later look at its top reads the slot again, which may have been emptied
since (`WakeStale`) or hold another task. If several tasks compare as equal, any of them
may be on top (`Tops`, `TopCores`).

*The store without the lock.* `BargeMove` is still coarser than the code: the contents of a PCB (`task.cpp:97-102`) move
in one step, so a slot with the name of one task and the `Schedule` of another is not modelled. No
property of the models relies on that: with one priority for all tasks, which is what `first_initialize`
sets and nothing changes, nobody comes there (`NoBarge`), and with several the only claims made are the types
and `RTFirst`, about the queues.

*Who calls.* The system call that would yield is a comment (`syscall.cpp:42`), so nothing calls `yield` at
this commit; the model has it as the code of `Muqss.cpp` is written.

*Left out.* The frame a constructor fills, page tables and stacks as memory (a PCB
stands for them), and the deadline's unit. `MaxTime` bounds the clock reading; when
it is reached the clock of the model stands still.

*Abstract.* `Scheduler` knows of each core only what it runs, what it hands to some core and what waits on it. In
the refinement `waiting` is what the two queues and the slot `next` hold, `handed` the argument of `wake_up`. The
code loses tasks (section 7), so the abstract scheduler may: one that waits at a time, or the running one when another starts.

### RBTree and KeySet

A step is one iteration of a loop or one group of link writes of `find`, `insert`
and `operator[]`; a whole rotation is one step, so a search that runs on another core
in the middle of one is not modelled. `node` is the heap of
nodes: key, colour, parent and the two children. `Actor` are the cores that call the
tree at once. `erase` is not modelled: nothing in the kernel calls it.
`KeySet` is the abstract specification; the refinement maps `keys` to the keys that
are reachable from the root.

### PageAllocator

Addresses are counted in pages. `zone_tree` is the tree of zones by base, `head` the
zones with `owner == nullptr`, that is, the first of an array; `zone_count[h]` and
`free_page[h]` are the head's fields; `pages[z]` the bits that are set. `held` is not
a variable of the code: it is what the callers were given and will give back.
Every call holds the page lock from its first to its last statement, so a call is one
step. `find(S, n)` is what `bitset::find<false>` computes, with its treatment of full
words; `ClearAtTop`/`ClearAtBottom` are `count_from_high`/`count_from_low`.
`AllocateInZone` and `AllocateSpan` are the two searches of `_allocate` and `Grow` its
third part; `DeallocateInZone`, `DeallocateSpan` and `DeallocateNothing` are the paths
of `_deallocate`. `lucky` stands for what is read behind the last zone of an array
(`page.hpp:152`): it may be anything, so every outcome of the test is tried. What the
allocator of the next page size returns to `Grow` is one of `Bases`; it never overlaps
a zone there is: that half of growth is assumed, the other half, when it comes, is `GrowsOnlyWhenFull`.
An entry of the memory map that crosses a zone's end sets bits past its bitmap, which land in the 48 bytes that
pad the zone's node (`PageAssumption` bounds the entry by them; a longer one would be written over the next
node). Requests are at most two zones long.

### KernelHeap and Objects

A call of `new` or `delete` holds `kheap_lock` throughout and is a step. The lock is that of `allocator<void>`: it
is a static of the template (`kheap.hpp:75`), so the containers' allocators, one for each type of their elements, have
locks of their own over the same caches, and `page.hpp:190` calls without any. They are not in the model. `heap` is
the record of all slab caches: per slab its counts and its colour map (a set of bits),
whether its list node names it (`container`, unset by the growth at `kheap.hpp:161`),
per cache the list and its two totals, and the pages the page allocator has left.
`_allocate` and `_deallocate` are functions from such a record to the next one,
because growing a large cache calls `_allocate` twice more (`:177`, `:182`).
`meta` remembers which objects those were (a large slab's `Slab` and map; a small one's lie in its own page, `Headers`), `held` what clients have, `lost` what
went into the sized `delete`, which does nothing. `fault`: a null pointer was followed
with the lock taken, and no call comes back any more. `Scribbled` is what the growth of a small
cache writes: it takes nearly every byte of the page for a slot (`:155`, the division binds before the sum) and fills and
clears a colour map for all of them (`:162`, `:163`), which ends far behind the page. What lies there is
another page's, and what becomes of it is not modelled: `GrowthInPage` says that there is no such write and is refuted
(section 7), and `ObjectsApart` speaks of the bytes that are handed out. Sizes are scaled: the page, the
word of a map and its bytes, the caches and `sizeof(Slab)` are constants with the code's relations
to one another as `HeapAssumption`.

### PageTable

`table` is memory: a frame of the pool or of the loader to its entries. `Map` takes a
request page by page, each time from the top table (`MapPage`): `Descend` goes one level
down and puts a new table where none or a huge page is (`:78`), `Leaf` writes the entry
and gives back the table that a huge page replaces (`:44-48`). `unmap` and `copy` do what
their code does; `find_physcial_address` is a `Seek` a level, which goes through a
huge page as if it were a table. `Translate` is the processor's walk, written
independently of them. Spaces are made, filled, activated and
destroyed in any order; the kernel's maps come before the first task. Entries are base,
present, size and user bits. Bound: a map of n pages takes place when 3n frames are left
(`Room`), since each page needs at most three tables. `Map` is a recursive function of the
number of pages. Left out: pages of 1 GiB, which nobody asks for, and five levels, for which
`page_table.cpp:89` starts every walk at level 5 whatever the size of the page.

### The library

`List`: `next` and `prev` of each node, stale ones included; `listed` is what the
client has put in. A removed node keeps its links; the model's client removes a node
once, as the kernel does. `Skiplist`: the pointers of each level, and `_random`, from which
`get_insert_level` computes the same number in every round, so a node has all levels or none. It is a static that all
lists of a type share (`skiplist.hpp:231`), so the list starts with any value of it and other lists move it at any
time (`Elsewhere`); an insertion that meets a bad one in a list without levels links nothing. `Strings`: functions on a
memory of bytes, signed where `char` is. `Format`: a format string is a sequence of the pieces that fmt's
check at compile time knows; `vformat` scans it character by character, and a
specification without its own ':' reads on (`format.hpp:286`), behind the end of an empty literal if there is no other:
one character of seven kinds stands there, among them a width, a sign, an alignment and a base. They share nothing,
so `MC_Library` runs one of them in each behaviour.

### Routing, Elf, Interrupts

`boot[c]` is the list of calls a core has still to make, `loader_entry` or
`smp_start`; the core waits at "parked" until `Smp` sets its `goto_address`. Calls that
touch what is shared go step by step: `Lvt` (the timer is unmasked and counts from
the largest value), `Calibrate`, `Timer`, `Clock` and `Syscall` (the handler and its
routes). `todo[c]` are the requests to `register_ioapic` that are left, and each write
of a select or window register (`Select`, `Window`, `Stray`) is a step of its own. A
tick is requested by `Tick`, comes in by `Deliver` when interrupts are enabled and
none is in service, and goes `Stub`, `do_IRQ`, `Eoi`, `Handler` (lock, save, lock,
switch: `Clock::handler` and what `Muqss` has in detail), `Iret`. `frames[c]` is the
stack of what interrupts found the core doing. A handler that never returns leaves the
core "stuck". `Idt` is one step: the core with the local number 0 wipes the table of handlers in it, whichever core that
is. The windows of two cores may interleave, and a window writes whatever register is selected by then; what the loop
over the MADT reads behind the table is `beyond`. A timer comes to no core before its requests are done. What `Muqss` does between the locks is not repeated here; what
`Muqss` assumes of interrupts (masked in handlers) is what `TasksRunClean` and
`NoSelfDeadlock` show. `Elf` is a pure function, of files with the ELF magic and of others; the boot module is loaded by `Modules`.

## 4. Runs

A run checks a few properties, each one the conjunction of what is named beside it: for example
`CoresStayClean` is `NoSelfDeadlock` and `TasksRunClean`, `FirmwareIsObeyed` is `TableIsReadExactly` and
`RoutesAreExact`, `BootIsPrepared` the types, `ClockIsPrepared` and `TimerIsCalibrated`, `SpacesAreLaidOut`
the types, `KernelIsShared`, `DirectMapIsLinear` and `TasksAreApart`, `WalksAreRight` `NoTableIsFree` and
`FindAgrees`, `RequestsAreMet` `RefusesOnlyWhenFull` and `FaultAfterGrowth`.

Each run ends in less than four minutes.

| Run | Instance | Shows |
|---|---|---|
| `muqss_normal` | 2 cores, 2 init tasks, 2 services, one priority | types, locks, contained faults, that a core which queued its task finds another (`SwitchIsReady`), which core and which address space a task has, refinement of `Scheduler`, and that every handler ends or faults |
| `muqss_realtime` | 3 cores, 3 init tasks, 2 services: an isochronous and an idle service, an idle and two normal init tasks, equal deadlines | `RTFirst`, whatever wake-ups store without the lock meanwhile, and on the paths of `wake_up` that pop a core from the heap and compare two more, or look at the same top again |
| `rbtree` | 8 keys in every order, one inserted twice | no key is lost in any step and iteration is sorted (`Ordered`), balance, refinement of `KeySet` |
| `page_single` | 7 clients, single pages, 2 boot zones with reserved pages, new zones at 8 and 14 | types, no overlap, marks, reserved pages, nothing leaked, the count, in every order of allocations and releases |
| `page_span` | 2 clients, blocks longer than a zone by one or two pages, 4 zones | blocks that lie over two zones stay disjoint and are given back |
| `page_boot` | 5 clients, blocks of 1 to 3 pages, no release | blocks of several pages, while bitmaps have no holes, fill a zone before it is given company |
| `kernel_heap` | 3 caches (one small, two large), 5 pages of 8 bytes, requests of every cache and one too large | objects disjoint, maps and counters exact until a cache grows, what growing leads to within its pages, refinement of `Objects` |
| `page_table` | 4 levels of 4 entries, the kernel and 2 tasks, 14 frames; the kernel's map requests are those of the ACPI code, the tasks' those of `PCB` | what a map changes, of which pages below a huge page it leaves nothing, and what it must leave, in every order of making, mapping and destroying |
| `library` | a list of 4 nodes; 4 keys; 5 bytes of memory with 4 values; format strings of 3 pieces out of 10, with two numbers and a string | the four components, each against what its callers rely on |
| `platform` | 2 cores, 6 firmware tables, one of which gives the number 0 to the second core, 4 files, one without the magic | boot and interrupts: order, calibration, locks, the image of a file, and that ticks are served and cores come up |
| `platform_routes` | 3 cores, the same tables, the boots alone | the table is read as it stands, and routes, while two cores register the system call at once |

`muqss_leak` checks a sentence of the repository against the code and finds it refuted
(section 7).

*Why the bounds are enough.* Two cores give every pair of a tick, a yield and a
wake-up on different cores; a third one is needed only where the heap is compared after
a pop, and `muqss_realtime` has it. Two services make a queue with two tasks besides the
init task. A slice of one tick reaches expiry and refill. Clock readings of
0 and 1 order two deadlines in `muqss_normal`, so that a wake-up there takes another core's lock; in
`muqss_realtime` the clock stands still and deadlines are equal, and wake-ups store by priority or not at all. In the tree, the eighth
insertion is the first that can recolour a red pair up to a rotation. In the page runs
a zone has 4 or 6 pages in words of 2 or 3 bits, so a zone has more than one word, and
7 clients exhaust both boot zones, whose reserved pages are more than one. A base of 14
is not a multiple of a zone, like the bases the next page size returns, which are
multiples of half a zone.
In the heap, three caches are a small one, one whose map has two words and one whose map has
one; two pages more than caches let one cache grow twice or two once. In `page_table`, four
entries a table give two for the lower and two for the upper half, the text spans the edge of a
table, and the frames suffice for both tasks and all maps. In `library`, four nodes have two
neighbours that are nodes, five bytes hold a block at every offset to a word of two bytes, and
three pieces put a field between two others; the skip list starts with every remainder of the number its levels come from. In `platform`, two cores are the boot processor and
one other; the tables have no, one and several I/O APICs, out of order, one of a single pin
and one that has the pin of system calls. Two cores that register at once need a third to send them off: `platform_routes`.

*Symmetry* is used for the clients of the allocator and the two tasks of `page_table`: no
property of those runs is a liveness property, and the models treat them alike. Cores are not
symmetric (`Main` and `BSP` tell them apart).

*Deadlock* is checked where the system cannot stop. It may stop in `kernel_heap` (a fault with
the lock taken), in `library` (a formatted string ends) and in `platform` (every core stuck in a
handler; in `platform_routes` the boots end). In `page_boot` memory is used up and nothing is
given back, and in `page_span` the head's counter reaches `MaxCount`, the bound of the
model: `free_page` grows for ever because a release adds to the head what an allocation
took from another zone.

## 5. Fairness

`FairSpec` has weak fairness of `Step(c)`, the next step of core `c` inside a handler, a
system call or the boot code: a core that runs with interrupts masked executes its next
instruction. A spin on a taken lock is not enabled, so no fairness of the lock itself is
assumed; the code's `test_and_set` loop gives none. `Tick(c)` is weakly fair: the local
APIC timer is periodic. `Yield` and `Enable` are what programs do, and need not happen.
`HandlerReturns` is stated under `FairSpec`, for tasks of one priority. A core that spins might be passed
over for ever only if others took the lock infinitely often; a lock is taken by its own core, which is the one that
spins, and by a wake-up of another core, once for each service, of which there are finitely many. With several
priorities it is false, since the loop of `wake_up` need not end (section 7).

`Interrupts!Spec` has weak fairness of `Run(c)`, the next instruction of core `c`, and of
`Deliver(c)`: a processor takes an interrupt that is requested and enabled. Nothing is assumed
of `Tick`, `Fault` and `Spurious`. `TickIsServed` says that a requested tick gets to the
scheduler or that the core is stuck, and `CoresComeUp` that a core sent to `smp_start` comes to
run tasks. A lock is free again by the fairness of its holder; the two liveness properties do not
depend on who gets it first, since in the model only the core itself and `wake_up` of the boot
processor, once, take it. Everything else is safety.

## 6. Proofs

*Scheduler, any number of cores and tasks (`MuqssProofs`).* The types (`TypeCorrect`) and that the FIFO queue goes first
(`RealTimeFirst`) are proved for any priorities. The rest assumes `OnePriority`: all tasks have one, as `first_initialize`
sets it. Without that it is false: `AddressSpaceMatches`, `CpuNamesHolder` and `LockExclusion` fail in the configuration of
section 7. `NoBarge`, that nobody is on the path of the store without the lock, is part of the invariant.
What holds at any priorities is `AnyInv`: the types, `Filled` (which slots and locals hold a task where a handler stands) and
`SwitchReady`, why a switch can rely on an unlocked read: a core that has queued its running task found `next` occupied, or
occupied it itself, and other cores' wake-ups overwrite `next` with a task but never empty it. `IInv` adds `NoBarge`,
`NoTaskTwice`, `CpuNamesHolder` and `BootInv`, which says that the init task of a core that boots is nowhere yet. `SwitchIsReady`
is what of this the code counts on when it switches; that
other handlers follow a null pointer (`SaveContext` after a yield, the comparisons of `WakeScan`) is what the code does, and
the core is then "dead". The argument for `NoTaskTwice`
and `CpuNamesHolder` goes through `Orderly`: in any step a task appears in at most one
new place, on the core its `cpu` then names, and only if it left the place it had or was
in none. `Orderly` is proved of each action (`MoveOrderly`), and the invariants follow
from it at once. `NoMigration` (`Stationary`) is an action property from the same invariant.

That the scheduler implements `Scheduler` (`SchedulerImplemented`) is shown step by step: `StartMain` is
`Begin`, `Enable` is `Offer`, `WakeStore` and `WakeLocal` are `Hand`, the paths that queue the running task are
`Stop`, `YieldSelect` is `Lose`, `MoveNext` is `Start`, and the others are no step. What the abstract actions lose is
what the slot `next` held when it was overwritten; that this is a task in no queue needs `NoTaskTwice`, so `IInv` is
used as it is. It needs one addition, `Idle`: a core that boots runs nothing yet, and a task is handed on
only inside `wake_up`. `PromiseOfOnePlace` and `PromiseOfSettling` are about the abstract scheduler alone, and so show
that it is worth implementing: no task is in two places, a core's task stays its own, and a lost one stays lost. They follow
from one fact about its steps (`Follows`): where a task newly is, it came from `new`, from the core that
hands it, or from another place of the same core, and it is nowhere else afterwards.

*Locks (`MuqssLockProofs`).* The condition of `wake_up` at `Muqss.cpp:184` skips
`try_lock` for a higher priority, and then exclusion is false (`MuqssRelease.cfg`). At one priority
no core stores without the lock. Each step is one of five kinds with regard to locks
(`LockEffect`), and each kind keeps sections exclusive and covered (`LockStep`). That a
task runs in its own address space follows: between `activate()` and the move the core
has its lock, so nobody writes `next`.

*Pages (`PageProofs`).* For any sizes of zone and word, any bases, any clients and any requests that are regular:
none, of at most two zones, is for a whole number of them (`page.hpp:216` would leave the last new zone unmarked),
and every entry of the memory map keeps to one zone (`Regular`). The two faults that requests for several pages meet
depend on the history, so no condition on the constants rules them out without ruling out the requests: `find` reports a run
over a full word (`bitset:184`), and a block is begun in the last zone of an array (`:152`). Each theorem
therefore speaks of the behaviours in which every request that is served is served soundly,
`Spec /\ [][Sound]_vars`: the search's run is clear, and a block over the end of a zone has its next zone.
Under it, types, `NoOverlap`, `HeldMarked` and
`ReservedSafe`; a behaviour loses them, if it does, from the first unsound step on. `PageSound.cfg`, no run of the
project, checks the same on a small instance with requests of five sizes (186 628 states), and `SinglesAreSound`
proves that requests for one page at a time are always served soundly, so for them the condition says nothing. None
of the invariants is inductive. `IInv` adds that all zones of an array are in
the tree (`Whole`) and share no page (`Disjoint`), so that a page has one bit
(`MarkedIn`), and that held and reserved pages are all marked, once each (`Once`). A release clears the pages of its holder,
in one zone or two, and no other.

From the same invariant, each with an addition of its own: in a zone at its alignment every marked page is
somebody's (`NothingLeaks`; in a zone at half a zone's alignment releases do nothing, and pages are lost); `free_page` of an
array never falls below its clear bits (`CountNeverShort`), for
which the clear bits of an array are counted as the sum over its zones; and memory is taken from the next
allocator only when no zone has the pages in one piece (`GrowsOnlyWhenFull`). That the memory it gives overlaps
no zone is `Grow`'s guard, and so assumed.

*Heap (`HeapProofs`).* For any sizes of caches, pages, words and requests that stand to one another as the
code's do (`HeapAssumption`): no two objects share a byte, and none a byte with what a page sets apart for
its own `Slab` and map, maps and counters agree with what is in use, a request is refused only when no slab of its
cache has a clear bit (a bit of a grown large slab's map may be set and nobody's, `kheap.hpp:188`), and the heap
implements `Objects`. What the growth of a small cache writes behind its page is not spoken of (`HeapGrowth.cfg`). The slots of
a grown small slab run on past the `Slab` in its page; that the second of them is never given, so that nothing reaches
there, is `OneSlot`: the next walk faults. A growth calls the allocator
in the middle, so the invariant `Sound` is one of a heap and a set of objects, and is shown of every heap
on the way, not only of those between calls. It says where a slab stands: the slab of `initialize`
is the last of its list (`PoolsAreLast`), every slab added by a growth comes before it and has no `container`, so that
the search follows a null pointer as soon as a cache has grown (`FaultAfterGrowth`), and until then the slab
of `initialize` is the only one, with exact counters (`PoolsAgree`, `TotalsAgree`). An object is one set bit of one
slab (`Placed`); distinct bits are distinct multiples of the size within a page, and pages are disjoint.

*Red-black tree (`RBTreeProofs`).* For any keys and nodes and one caller; with two, insertions run into each other and
a key is lost (`RBTreeRace.cfg`). The model says by recursion over the links what is in the tree, so the
invariant carries a map `u` from each node to the nodes at and below it. `Shape` says that links agree both ways,
that a node's set is itself and its children's, disjoint and on their sides, and that keys differ. A child's set is smaller, and so
paths end: `FindIs`, `TreeIs`, `AncestorsAre` and `IterationIs` turn the model's search, reachability, ancestors and
iteration into facts about `u`. The rest is what an operation does to `u`: a rotation changes the sets of two nodes
(`TurnShape`), a new leaf joins those on its way (`HungShape`). For the balance the invariant says that every node
has a black height (`Even`) and that a red node has a black parent, but for the node that is being put right
(`Coloured`); `RecolourColoured`, `InnerTurn`, `OuterTurn` and `BlackenColoured` take one round of the loop each. That
ways down have equally many black nodes is counted from the heights (`OverIs`). Between the steps the invariant
says where the caller is: a search is on the way to its key (`Below`), what is to be inserted is not there (`Missing`), and
every node that was made is in the tree, or its key is, or it is about to be linked (`Covered`). There is a lemma for each action.

*Page tables (`PageTableProofs`).* For tables of any even number of entries, any tasks, requests and loader's
tables. A map makes its pages what it was asked for; of
the others it unmaps those that share a huge page with a small one of its own (`page_table.cpp:78`, `TornBy`), which the
configuration `PageTableTorn.cfg` refutes as a wish, and changes none else (`MapsAreExact`). That it changes nothing else is a
matter of sharing: `Shaped` says that the tables are
trees, every table has a level, an entry leads to a table one level down, and no two entries lead to the same
table except in the kernel's halves of top tables. Walks that come to one table then came by the same
digits of their addresses (`Meets`), so that writing the entry of page v changes the walks of v and of what shares its
digits only. The invariant is that levels exist which shape the tables, that no table is free (`Good`), that spaces
have top tables of their own (`Rooted`), equal in the kernel's half (`Alike`), and that the direct map is linear
and closed to tasks (`Linear`). The kernel's maps end with the first task, or they would
break `Alike`; a task's lie in its own half. One level of a map, the entry and one page are lemmas (`Descended`, `Left`,
`Put`); a map of n pages follows by taking the least number of pages that would go wrong. `TasksAreApart`,
`NoTableIsFree` and the agreement of search and walk follow from the shape.

*Lists (`ListProofs`).* For any finite set of nodes, `Linked` with the types is inductive: the links
agree in both directions between the head, the listed nodes and the end, so no listed node leads to
a removed one, whose own links are stale. That does not exclude a second ring of listed nodes. For the refinement of
`Sequence` the invariant also carries the path from the head to the end, which has every listed node once, and
each insertion and removal changes that path as `Sequence` says.

*Interrupts (`InterruptProofs`).* For any number of cores, any firmware and files: no handler comes to wait
for a lock its own core holds (`NoSelfDeadlock`), and a task runs with interrupts on, none in
service, no frame left and no lock held (`TasksRunClean`); together they are `AlwaysClean`. The gates leave interrupts
enabled, so the argument needs more than the gates: `WhereEnabled` says that interrupts are on in
tasks and in the stub before its CLI only; `WhereLocked` that a core with a lock stands between
lock and unlock; hence no interrupt comes there. `FrameOfTask` says that under any frames of
interrupted stubs lies one of a task, so that the last `Iret` returns to one, and `StiIsLast` that
a boot enables interrupts by its last call.
For the order of the boot (`BootIsPrepared`) a second invariant, `Ahead`, keeps the calls to come a
tail of the core's plan; how many are left then says what was done: that the timer has its period, the
core its first task and, on a machine that gives the local number 0 to the boot processor alone, the clock its handler.
Another core comes to a step only when the boot processor has done
what the step needs, because it is sent off by a late call.
For the routes (`RoutesObeyed`: the table is read as the firmware wrote it, and the entries of the I/O APICs
are what the overrides ask for) a third invariant, `Wired`, says how far `register_ioapic` has come. `Known`: before the
table is read no entry is written, and after that the chips are the firmware's. `Requests`: what a core has left
to register is a tail of the list of the call it is in. `Chips`: an entry that has been written delivers what was asked of its
pin, or the other half is about to be written. `Done`: every request that no core has left is in an entry, or no chip has
its pin. `Accessing`: a core between the writes of a select register and a window finds the select register as it left
it, if it is alone there (`Private`), and else one of the registers that the cores which all register the system call select
(`Reached`): the two of their pin and the two that `enable` leaves (`:65`). So the race of three cores spoils
those four registers of one chip and no other pin (`RacedWindow`), which is what the property claims: of the pin of
system calls it speaks only when no two cores register it at once (`Loose`).
A file without the ELF magic shows nothing (`FilesAreLoaded`), and one with it its segments at their addresses if a linker laid it out (`LaidOut`): its segments lie apart,
physical addresses equal virtual ones, no segment has more bytes in the file than in memory, and one is loaded.
`load_elf_file` checks the magic and none of that, so it is an assumption on the files (`FileAssumption`); the copies of
apart segments do not touch one another, and the pages allocated reach past the end of the last.

*Assumptions.* Each theorem holds for all values that satisfy the named `ASSUME` of its model, which TLC
evaluates in the runs. Besides types: `NodeFinite` and `RBTreeAssumption` (finitely many nodes; keys are numbers), `FileAssumption`
(the files are well formed), `HeapAssumption` (the sizes are increasing, divide a page, and the map of a large
cache fits the small one's object; there are pages for `initialize`), and `PageTableAssumption` (an even
number of entries; the loader's tables are shaped as above and map the upper half linearly; the kernel's
requests lie in its half at their linear addresses, the tasks' in theirs). The loader's tables and the
requests are what `kloader`, `acpi/table.cpp` and `task.cpp` pass. The theorems about the tree also assume
that there is one caller (`Actor = {a}`), and `RoutesObeyed` that the tables are `Plausible` (`FirmwareInOrder`): nothing that the
loop over the MADT would keep begins in the 44 bytes it reads behind the table (`madt.cpp:18`; `PlatformBehind.cfg` shows what
follows otherwise), the entries fit the arrays of 8 I/O APICs and 64 overrides, the chips' ranges of interrupts are
disjoint and none has more than 120 pins, an interrupt has one override and none is sent to another one's pin.
Those, `OnePriority`, `Regular` and `Sound` stand in the statements.

*Induction over data.* The induction theorems of the library take an operator as a parameter, which the
provers here cannot instantiate. Where a proof needs induction over numbers (the sum of an array's clear bits, a walk
along a list, the pages of a map, a path in the tree), it takes the least number for which the claim fails (`WFMin`, whose set is an
ordinary argument) and refutes it.

*Only model-checked.* Liveness (`HandlerReturns`, `TickIsServed`, `CoresComeUp`), which is out of the prover's
reach, and the refutation. The skip list, strings and formats: what their recursive definitions compute is induction over data.

## 7. Where the code disagrees with what is said of it

Refuted by the run `muqss_leak`: no "resource leakage" (`Muqss.cpp:111`). A wake-up before the slice
ends makes the switch overwrite `running_task` (`:117`).

Further configurations, which are no runs of the project, refute a sentence, or what one would expect, each:

| Configuration, module | Property | Said or expected | Code |
|---|---|---|---|
| `MuqssClearNext.cfg`, `MC_Muqss` | `ClearedNextHasNoTask` | "Clear next" (`Muqss.cpp:112`) | `PCB::operator=(PCB&&)` sets `is_empty` to false whatever it is given (`task.cpp:103`) |
| `MuqssRelease.cfg`, `MC_Muqss` | `ReleaseOnlyIfAcquired` | "Only release rq.core.lock if acquired" (`CRITICAL_BUGS_ANALYSIS.md:108`) | the short-circuit at `:184` skips `try_lock`, `:187` unlocks |
| `RBTreeRace.cfg`, `MC_RBTree` | `NoCoreLost` | the lock is held for `running_queue` (`CRITICAL_BUGS_ANALYSIS.md:113`) | `get_current` extends the tree without one |
| `PageFind.cfg`, `MC_Page` | `RoomIsFree` | "free room in each zone" (`page.hpp:124`) | `find` counts on over a full word (`bitset:184`) |
| `HeapGrowth.cfg`, `MC_Heap` | `GrowthInPage` | a growth writes its own page | the colour map is filled for too many slots, over the page behind (`kheap.hpp:155`, `:162`, `:163`) |
| `PageTableTorn.cfg`, `MC_PageTable` | `NothingIsTorn` | a map unmaps nothing | a small page below a huge one takes the others with it (`page_table.cpp:78`) |
| `LibraryAsSaid.cfg`, `MC_Library` | `SkipCountIsLength` | `count` is the number of keys | a first insertion without a level links nothing and is counted (`skiplist.hpp:145-149`, `:231`) |
| the same | `FormatOutputIsAlwaysTheText` | a field gets its argument in its form | a field without a ':' takes another's, or what lies behind an empty literal (`format.hpp:286`); '9' is taken for a fill (`:113`); left alignment is one column too wide (`:63`); a string has no width (`:193`) |
| the same | `MemsetFillsWithAny` | a block is filled with the value | from 0x80 on the promoted byte is shifted as a signed number (`string.cpp:323`) |
| the same | `StrchrFindsTheFirst`, `StrrchrFindsTheLast` | "the first occurrence" (`string.cpp:130`), the last (`:148`) | `strchr` skips the first place, and `strrchr` also the place behind each that it finds |
| `PlatformContended.cfg`, `MC_Platform` | `EveryRouteIsExact` | each pin gets what was registered for it | of three cores two register the system call at once, and one selects the entry's other half between the other's select and its data (`apic.cpp:16-25`) |
| `PlatformOrder.cfg`, `MC_Platform` | `ClockIsHandled` | a tick finds the clock's handler | a second core with the local number 0 wipes the table (`idt.cpp:32`) |
| `PlatformBehind.cfg`, `MC_Platform` | `TableIsReadExactly` | the kernel knows the processors of the table | the loop reads 44 bytes on behind it (`madt.cpp:18`) |

(TLC stops at the first property of `LibraryAsSaid.cfg`; each fails when it is left alone there.)
`MuqssRelease.cfg` uses a priority from the range that the comment in `first_initialize`
documents; `first_initialize` itself sets one value.

The models also have the following, which the passing runs' instances avoid. Each is
seen by changing one line of a configuration:

| Change | What fails | Because |
|---|---|---|
| `MuqssNormal.cfg`, `Priority <- OneISO` | `AddressSpaceMatches` ("Thread-safe task activation", `Muqss.cpp:106`), `CpuNamesHolder`, `LockExclusion` | the store without `try_lock` replaces `next` between `activate()` and the move, names its core late, and clears a lock that is not its own |
| the same | `HandlerReturns` (a woken task rejoins the queue, `Muqss.md:270`) | `continue` at `Muqss.cpp:180` leaves the heap as it was |
| `PageFind.cfg`, `WORD = 6` | `HeldMarked` | `page.hpp:152` lets a block begin in the last zone and go on behind it |
| `PageSpan.cfg`, `Sizes = {12}` | `HeldMarked` | the loops over the trunk (`page.hpp:156`, `:174`) end one zone early |
| `PageBoot.cfg`, `Sizes = {4}` | `HeldMarked` | the last new zone marks `page_count % 1024` pages, none for a multiple (`page.hpp:216`) |
| `PageSingle.cfg`, `Map <- Crossing` | `ReservedSafe` | what crosses a zone boundary is not marked (`page.cpp:56`) |

(`PageFind.cfg` names `RoomIsFree`, which is `NoOverlap`; for these rows put `HeldMarked` in its place, and
among the invariants of `PageSpan.cfg` and `PageBoot.cfg`; in `MuqssNormal.cfg` leave the property that is named.)
`NothingLeaks` speaks of aligned zones only: a block in a zone at half a zone's alignment is
never found by `_deallocate` (`page.hpp:230`) and stays marked. `CountNeverShort` is one
half of "the total number of free pages" (`page.hpp:88`); the other half is false, since an
allocation moves the count of the zone it is in and the head's is the one that is read
(`page.hpp:128`). When the head is the last zone of its array a release over its end writes behind the
array (`page.hpp:251`); the model clears nothing there.

What the models have as the code has it, and no property states, because it is not what is said:

- `string.cpp`: `strcpy`, `strncpy` and `strcat` write no end; `strncat` overwrites the last byte before it;
  the digits of the least 64-bit number.
- `mlist.hpp:152`: a second `remove` of a node unlinks its former neighbours from each other's successors.
- `skiplist.hpp`: an insertion of a key that is there, and a removal, leak the node.
- `rbtree.hpp:422`: `erase`, which nothing calls, moves the data of the predecessor into a node and not its key,
  and leaves a new root (`:348`, `:384`) the parent link to the old one.
- `page_table.cpp:179`: the destructor gives back the top table only; the tables below it are lost.
- `page_table.hpp:127`: the setters of single bits or the new value in and never clear one.
- `idt.cpp:7-13`: the two types of gate are swapped; only the CLI of the stubs (`entry.S:7`) masks interrupts.
- `apic.cpp:65-68`: `enable` means to unmask the entry and writes a model-specific register instead; the
  entry works because `write` before it cleared the mask. The destination goes to bits 32 and up
  and so is always 0.
- `madt.cpp:41`: the number of pins is read next to the select register, not from the version register.
- `kheap.hpp:161`: a grown slab is not to be found again, so the next walk faults (`FaultAfterGrowth`).

## 8. Not modelled

- Segment descriptors. (`gdt.cpp:7` has the two dimensions of the exception stacks swapped, so those of
  different cores overlap.) That a frame finds its stack is therefore not claimed.
- The display and the serial port, whose text is `Format`'s; `ipc.hpp`, which has declarations only.
- Finding the ACPI tables, their headers and checksums; device addresses.
- The HPET's arithmetic: `hpet.cpp:8` counts femtoseconds in 64 bits, which wrap after some five hours, so
  deadlines then go back. The scheduler's model takes the clock for a reading that never does.
- `PidPool::get` (`task.hpp:16`), which never sets the bit it found, so every task has the same id; nothing
  reads it. The table of services, indexed without a bound (`syscall.cpp:32`); the direction flag that
  `enable_interrupt` sets (`idt.hpp:108`).
- `RBTree::erase`, blocks of more than two zones and `bitset::any`: nothing in the kernel but the self-test calls them.
- The page allocator's model has one page size. The calls between sizes and to the heap skip the callee's
  lock (`page.hpp:190`, `:196`, `kheap.hpp:139`); the models take each call for one step, so
  they say nothing of two cores in an allocator and the heap at once.
- Memory that is not installed (`page.cpp:13` counts 128 zones whatever the map says).

## 9. Plan

1. `MemoryLocks`: the locks and the call graph of the page sizes and the heap. Properties: exclusion of the
   allocator's sections, no wait cycle.
2. `PageAllocator`, blocks of more than two zones; `NoOverlap` of `BootSpec`.
3. `RBTree` with `erase`.
4. `Skiplist` with the path of a search as a set of nodes, to prove about.
