# A formal model of Korus OS

Korus OS (`src/core`) is a 32-bit x86 kernel in C: a heap and a frame
allocator, a cooperative thread scheduler, a process table, a small virtual
file system, an ELF loader, an ATA driver, a keyboard, a text screen and a
shell. This directory holds TLA+ models of it, the TLC configurations that
check them on small instances, and TLAPS proofs of what matters most.

The kernel runs on one processor, enables no interrupt handler of its own and
installs no IDT: every function runs to its end before another begins. What
interleaves is therefore calls with calls (an operation leaves a table in a
state which the next one finds), the kernel with its devices (a drive answers
between two looks at its status), and loops with the allocations in them (memory
runs out at any of a load's pages). Those are the steps of the models.

## Inventory

| Component | State | Operations | Correct if |
|---|---|---|---|
| Kernel heap (`kernel/memory.c:35-48, 265-323`) | list of block headers inside the heap | `init_memory`, `kmalloc`, `kfree` | blocks tile the heap, grants are disjoint and large enough |
| Frames, paging (`kernel/memory.c:20-34, 50-221`) | bitmap, counter, page directory and tables | `alloc_page`, `free_page`, `map_page`, `unmap_page` | each frame has one owner, a mapping changes only when asked |
| Scheduler (`kernel/scheduler.c`) | `thread_table`, `current_thread`, counters | `create_thread`, `schedule`, `thread_sleep`, `terminate_thread` | one running thread, ids and stacks unique, no ready thread is passed over for long, sleeps are exact |
| Processes (`kernel/process.c`) | `proc_table`, `current_proc`, counters | `create_process`, `terminate_process`, `exec_program` | memory and threads have one owner and are given back once |
| System calls (`kernel/syscall.c`) | none of its own | 11 calls | each does what its function does |
| VFS and memfs (`fs/vfs.c`) | `memfs_files`, `fds`, the shared node | open, read, write, close | descriptors stay within files, inodes unique, writes lose nothing |
| ELF loader (`loader/elf_loader.c`) | none of its own | `load_elf`, `load_elf_from_file` | a load that succeeds mapped every page |
| ATA driver (`kernel/disk.c`) | `drives`, loop counters; the drives' own state | `init_disk`, `disk_read`, `disk_write` | the sectors moved are those asked for, every call returns |
| Keyboard (`drivers/keyboard.c`) | ring buffer, modifiers, the line | `kb_getchar`, `kb_readline` | no character is lost, the line is what is shown |
| Screen (`drivers/screen.c`) | 80x25 cells, cursor | `screen_putchar`, `screen_clear` | the cursor stays on the screen |
| Device registry (`kernel/devices.c`) | `device_table`, `device_count`, `next_device_id` | `init_devices`, `register_device`, `detect_devices`, `list_devices` | all that is there is listed once, as far as there is room |
| PCI (`drivers/pci.c`) | `pci_devices`, `pci_device_count` | `init_pci`, `pci_scan_bus`, `pci_detect_device` | each function of each device once, with its own fields |
| TCP/IP (`net/tcpip.c`) | `network_up`, `packets_sent`, `next_port`; a connection table no code fills | `init_network`, `tcp_send`, `tcp_receive` | the IP headers sent are whole, the packets distinct |
| Shell (`shell/shell.c`) | none but the line | `shell_execute`, `parse_args`, the commands | a command gets the words of the line |
| Start (`kernel/kernel.c`, `boot/`) | none | calls the `init_` functions, `kernel_panic` | nothing is emptied after it was filled |

How they interact: `exec_program` loads an image (VFS, heap, frames), creates a
process (heap for the user stack, scheduler for a thread); system calls reach
processes, scheduler, heap, VFS, keyboard and screen; the heap and the frames
share one physical memory without knowing of each other; the shell reads lines
from the keyboard, which echoes them to the screen; the PCI scan puts what it
finds into its own table and into the device registry.

What is hard to test here is listed in `PROJECT.json` under `hazards`, each at
its line: tables that keep stale names of each other (`current_thread`,
`current_proc`, the one static VFS node), operations that fail half way
(`create_process`, `vfs_open`, `map_page`, `map_elf_segments`), counters that
drift from the tables, timeouts that race the drive, two views of one line.

## Modules

| Module | Models | Its state in the code |
|---|---|---|
| `Allocator` | abstract: what `kmalloc` and `kfree` promise | `live`: the grants |
| `KernelHeap` | the block list of `memory.c` | `hdr`: the headers by address; `live` is history: which pointers callers hold and the sizes they asked for |
| `Scheduler` | `scheduler.c` | one function of the slot per field of `thread_table`; `allocated` are the blocks the heap gave out |
| `SchedulerHistory` | the same, with how many calls of `schedule` each ready thread was left waiting by and each sleeper slept through | history only |
| `Process` | the process table of `process.c` and the process calls of `syscall.c`, over `Scheduler` | one function of the slot per field of `proc_table`; `held`: blocks of `sys_malloc` |
| `Loader` | abstract: what `load_elf` takes from the free frames and answers | `free`, `left`: pages that still want a frame, `result` |
| `Exec` | `exec_program` and `load_elf_from_file`, step by step, over `Process` and `Loader` | place in the functions, `buffer`; `had` is history |
| `Vfs` | `vfs.c` with its listing, the file calls of `syscall.c`, and what `load_elf_from_file` does to descriptors | `memfs_files` and its counters, the fields of `fds`, `found`: the inode in the shared node |
| `VfsHistory` | the same, with the file each descriptor was opened for | history only |
| `Paging` | the bitmap and the page tables of `memory.c` | `bitmap`, `used_frames`, `dir_frame` and `dir_user` for `kernel_page_dir`, `table` for the bytes of frames read as tables |
| `ElfLoader` | `load_elf` page by page over `Paging` | the loop variables of `map_elf_segments` |
| `Memory` | `KernelHeap` and `Paging` in one physical memory | both |
| `AtaDisk` | `disk.c` on one channel; the two drives are external | place in the function, `s`, `timeout`, `drives[].present` |
| `Screen` | `screen.c` | `vga`, `cursor_x`, `cursor_y` |
| `Console` | `keyboard.c` and `kb_readline`, over `Screen`; the keyboard is external | `kb_buffer`, the modifiers, the line |
| `Shell` | `shell_execute` and `parse_args`, on the line `Console` has read | operators on the buffer, which `parse_args` cuts in place |
| `Devices` | `devices.c`; the serial ports that answer are external | `devices`: a record of the three statics |
| `Pci` | `pci.c` over `Devices`; configuration space is external | `pci_devices`, and the function the loops have reached |
| `Network` | `tcp_send` and `init_network` of `tcpip.c` | its statics; `sent` is history: the IP and TCP headers built |
| `Kernel` | `kernel_main`, over `Pci` and `Network` | `pc`: the call it is at |
| `KernelHeapProofs`, `ProcessProofs`, `VfsProofs`, `PagingProofs`, `AtaDiskProofs`, `ConsoleProofs`, `KernelProofs` | theorems about `KernelHeap`; `Scheduler`, `SchedulerHistory`, `Process` and `Exec`; `Vfs`; `Paging` and `ElfLoader`; `AtaDisk`; `Console` over `Screen`, and `Shell`; `Kernel` with `Devices`, `Pci` and `Network` | |
| `NaturalLemmas` | that a set of numbers has a least element, and below a bound a greatest, for the proofs about scans and loops | |

`MC*` modules give the constants their values for TLC. An operation of the code
is an action, with the failing path in an action of its own where it does
something else (`CreateThreadFails`, `MapNothing`, `KmallocFails`). Operations
that cannot be interrupted are one step. `ElfLoader` has one step per page,
since memory may run out at each, `Exec` one per call that may fail, and
`AtaDisk` one per look at the status register, since the drive moves in between.
`Pci` has one step per function the scan looks at, so that what the scan has
done so far is a state. `map` in `PROJECT.json` gives for
each definition the lines it stands for.

`Scheduler` and `Process` take their memory from what `Allocator` promises, a
pointer nobody holds or NULL at any time, and `KernelHeap` is shown to implement
`Allocator`: checked by the run `heap` and proved by `HeapRefinesAllocator`. In
the same way `Exec` takes its frames from what `Loader` promises, and `ElfLoader`
over `Paging` is shown to implement `Loader` (`RefinesLoader`, run `elf_loader`):
`Loader` does not know of pages, tables and frames but only how many frames are
left and how many the image still wants. And `Exec` is shown to implement
`Process` with its buffer taken out of the heap (`RefinesProcess`, run
`process`): all that `exec_program` does to threads and processes is one
`create_process` or nothing, so what holds of every step of `Process` holds
around it.

Data is abstracted to what the properties tell apart. Block and frame contents,
names of threads, priorities, registers (`switch_context` has no body), file
contents, colours, sector data (only whose sector it is) are left out. A path is
its leading slashes and its name. An ELF segment is its pages and its flags.

## Runs

Runs that pass:

| Run | Question | Bounds |
|---|---|---|
| `heap` | is every heap reachable by `kmalloc` and `kfree` well formed, and an `Allocator`? | 112 bytes: six blocks at most, so that splits, both kinds of merge (with the next block, with none) and exhaustion meet; an 8-bit word; a size of each kind (0, below alignment, just not splittable, large, and 254, which wraps to 0 in `ALIGN`) |
| `scheduler` | does the round robin keep its table, pass over nobody for long, wake sleepers on time? | 3 slots, ids up to 3, sleeps of 0 to 2 ticks: enough for a slot to be reused while `current_thread` still names it, for one thread to overtake another, and for a sleeper among running ones |
| `process` | do processes, threads and memory stay consistent over programs that start, fail at any step, and end? | 3 threads (one is the idle thread), 3 processes, 3 blocks, ids up to 3, 2 frames: a program with its two stacks beside the buffer of the next, failure at every allocation, images that want more frames than there are |
| `vfs` | do files and descriptors stay consistent? | 3 files, 4 descriptors (one beyond the three the system calls route to the terminal), files of 4 bytes, 5 paths; a word of 16 values and writes of 2, 3 and 14 bytes, the last of which wraps behind an offset of 2 or more |
| `elf_loader` | who owns each frame, and what do loads map, as memory runs out? | 9 frames in words of 2 (the last is partial), 2 tables of 2 entries, a valid image with a segment up to the last page, whose end wraps, and behind it two that share a page, one with nothing to load, three files `validate_elf` refuses |
| `disk` | do late, failing and silent drives make the driver move wrong data or hang? | 2 drives, waits of 2 tries, a counter of 8 values, commands that address 4 sectors, calls for 2 sectors at two places within them and at one beyond, mounts of one |
| `console` | does the screen show the line being edited, and do commands get its words? | 2 by 2 cells, so that every line wraps and scrolls, lines of up to 4 characters, which hold two words, a letter, a slash and a space, all keys with press and release, up to 2 arguments |
| `kernel` | what does the kernel know of its devices when the shell runs, and what does it send? | 2 buses of 2 slots of 2 functions, every wiring of them with 3 chips, each subset of the two serial ports; tables of 3 and 6 entries, so that both overflow; 2 packets of the greatest length (and calls for 0 and for one byte more), to an address whose words are all ones and to the gateway, port 80 |

What their properties say is stated above each in its module. The ones to read
first:

* `HeapTiled`, `GrantsBacked` and `RefinesAllocator`
  (`KernelHeap`): through splits and merges in place, no grant overlaps another.
* `BoundedBypass` and `SleepExact` (`SchedulerHistory`): fewer calls of
  `schedule` than there are slots leave a ready thread waiting; a sleeper is
  woken by exactly the call of `schedule` its delay names.
* `BlocksOwned` and `RefinesProcess` (`Exec`): every block in use has one owner
  and the buffer of the loader is gone whichever way `exec_program` returns; a
  program that does not start leaves no thread and no block.
* `CountsNeverHigh` (`Process`): the counts that refuse new threads and processes
  never exceed what is in the tables, so that none is refused without cause.
* `ListingComplete` (`Vfs`): the listing reaches every file, its total is their
  number and each size is its file's.
* `NoWriteShrinks` (`Vfs`): with several descriptors on a file at different
  offsets, no write cuts the file short.
* `MappingsIndependent` (`Paging`): no operation changes where two pages lead,
  although frames come back with old bytes and become page tables.
* `LoadedUnlessExhausted` (`ElfLoader`): a load that returns 0 mapped every
  page of the segments whose end does not wrap, but for pages without a page
  table, which `map_page` loses silently; then no frame is left.
* `DescriptorsWithinFile` (`Vfs`): only a write of a size less than 4096 from
  4 GB, whose sum with the offset wraps, copies past the data array of a file.
* `RightSectors` and `CallReturns` (`AtaDisk`): for addresses of 28 bits.
* `RefinesLoader` (`ElfLoader`): the page-by-page load is a `Loader`.
* `ArgsAreWords` (`Shell`): whatever was typed and erased, a command gets the
  words of the line, although the parser writes into the buffer it reads.
* `ScanFindsAll` and `RegistryHoldsAll` (`Kernel`): each PCI function that is
  there once, devices that answer at functions they do not have included; the
  registry holds the fixed devices and the PCI table, up to its size.
* `LineShown` and `EarlierTextKept` (`Console`): the count of characters in
  `kb_readline` and of columns in `screen_putchar` agree.

Runs that show the code do other than its documentation says (`findings`):

| Run | What happens |
|---|---|
| `memory_overlap` | only the first 2 MB of frames are reserved (`memory.c:119`) but the heap spans 1 MB to 65 MB: `alloc_page` clears frames with heap headers in them. The buffer of 1 MB that `load_elf_from_file` asks for is enough |
| `disk_stale` | `ata_wait_bsy` reports success when its counter runs out (`disk.c:45`): after a failed call a late drive hands the old sectors to the new call |
| `console_wrap` | a backspace in column 0 shortens the line but not the screen (`screen.c:135`) |
| `vfs_shared_node` | all files share one static node (`vfs.c:138`): opening a second file redirects descriptors already open |

### Divergences seen while modelling, without a run

These are certain after one or two calls and plain in the action that models
them; a counterexample would say no more than the line does.

* `kfree` merges with the next block only (`memory.c:319`), so its comment
  (`memory.c:308`) promises more than it does; `ALIGN` wraps for the last three
  sizes of `u32` (`memory.c:278`), which are granted a block of no bytes.
  `GrantLargeEnough` leaves these sizes out; the callers of all others are not
  disturbed by them.
* `frame_find_free` never looks at the last partial word (`memory.c:87`).
* The user bit of a directory entry is that of its first mapping
  (`memory.c:191`). Paging is never turned on: no code writes CR0 or CR3, and
  `map_elf_segments` copies to `p_vaddr` as a physical address.
* The kernel never switches threads: `schedule` is reached through
  `thread_sleep` alone, which returns while `current_thread` is NULL, as it is
  from `init_scheduler` on (`scheduler.c:288`).
* With no other thread ready `schedule` returns with the current one still
  SLEEPING or READY (`scheduler.c:232`). `terminate_thread` empties the current
  slot and `thread_sleep` marks it SLEEPING again (`scheduler.c:292`): the thread
  wakes without a stack and is not counted (`scheduler.c:268`).
* `create_process` returns -1 with its slot already RUNNING (`process.c:108`);
  a process in slot 0 is its own parent (`process.c:99`); `current_proc` is set
  once, so `sys_exit` ends slot 0 (`process.c:76`); blocks of `sys_malloc`
  outlive their program (`process.c:141`), and so do the frames of its image,
  also where `create_process` fails after the load (`process.c:306`), although
  `terminate_process` says that it frees all resources (`process.c:126-127`).
* `vfs_open` creates the file before it looks for a descriptor (`vfs.c:351`),
  names it `path + 1` whatever the slashes (`vfs.c:333`), and ignores TRUNC and
  APPEND (`vfs.c:358`). Descriptors 0 to 2 are handed out and cannot be closed
  (`syscall.c:115`).
* `detect_devices` registers no disk, network card or PCI device, which
  `devices.h:60-63` says it does; `pci_detect_device` ignores a refused
  registration (`pci.c:206`), so with 64 PCI devices the last are in one table
  only.
* `next_port` wraps from 65535 to 0, out of the ephemeral range (`tcpip.c:304`),
  and the packet identification repeats after 65536 packets (`tcpip.c:293`).
  Nothing in the tree calls `tcp_send`, and nothing sends what it builds.
* `memfs_write` adds offset and size in `u32` (`vfs.c:71`). For a size near 4 GB
  the sum wraps past the test, and the copy leaves the data array (`vfs.c:76`).
  `Vfs` takes that step and stops there (`overrun`): what the kernel is like
  afterwards depends on what lies behind the array.
* `map_elf_segments` computes the end of a segment in `u32` (`elf_loader.c:118`):
  for one that reaches the last page or passes 4 GB it is 0 or low, the loop maps
  no page or only the low ones, and `load_elf` returns 0.
  It gives back none of the pages it took when one is refused (`elf_loader.c:122`),
  and a page that two segments share gets a second frame (`elf_loader.c:121`).
* The driver gives a drive 28 bits of the address (`disk.c:72`, `disk.c:195-197`)
  and tests none of the others: a read or a write from sector 2^28 on moves the
  sectors of the address modulo 2^28 and returns 0.
* `tcp_send` leaves the checksum of the TCP header 0 (`tcpip.c:311`), which a
  receiver would refuse, and builds no Ethernet header.
* One flag serves both shift keys (`keyboard.c:110`).
* `disk_write` sends FLUSH between the sectors of one command (`disk.c:247`); a
  drive that already asks for the next sector drops the command, and the call
  fails. `RightSectors` holds because it then returns an error.

## Assumptions on the outside

* `scheduler` assumes no fairness. Nothing in the kernel calls `schedule` of its
  own accord: no timer is connected to it, and `thread_sleep` reaches it only from
  a current thread (`scheduler.c:288`). That a ready thread runs or a sleeper
  wakes in the end cannot be said of this code; what waiting there is is counted
  in calls of `schedule`.
* Fairness of `disk`: the processor goes on, nothing else. The drives may stop
  at any time, which is what `CallReturns` is about. With no drive present there
  is no call left to make, so the run does not check deadlock.
* `kernel` does not check deadlock either: `kernel_panic` stops the machine, and
  the packets are bounded. Its wirings are those a PCI bus may have: function 0
  is there if any is, and a device of one function may answer at all of them.
* Fairness of `console`: `kb_getchar` goes on. `ReadReturns` has the user's part
  as its premise: Enter is pressed again and again.
* Drives (`AtaDisk`): a busy drive hears no command; one that is not busy takes
  any, in place of the one it was at. A drive may ask, fail or be silent.
* Callers of the heap free what they were granted, once. Callers of `free_page`
  may free what is not theirs, but no frame with a page table in it, whose
  address no function returns. Both are what the callers in `src` do.
* Nothing else writes to the memory of a component. `memory_overlap` shows where
  that is not so.

## Proofs

The `*Proofs` modules prove for every value of the constants what the runs
check on small ones. What they assume of the constants are the `ASSUME`s of the
modules, which TLC evaluates on every run:

| Assumption | Says |
|---|---|
| `HeapAssumption` | the heap is aligned and fits in the word |
| `SchedulerAssumption`, `ProcessAssumption`, `ExecAssumption` | tables have at least one slot; NULL is no block; a program wants a number of frames |
| `VfsAssumption` | tables have their sizes; the file of `vfs_init` fits in the data array, and its size in the word |
| `PagingAssumption`, `ElfLoaderAssumption`, `ImagesAssumption` | some frame is reserved (`memory.c:118-121`), page 0 and the tables exist; a segment begins in the address space and is not longer than it (`p_memsz` is a `u32` and not 0), but may end beyond; its pages are PRESENT and USER (`elf_loader.c:113`) |
| `AtaDiskAssumption` | the wait counter starts above 0 and fits in its word; a call asks for 1 to 255 sectors, at any address; a command names some number of sectors |
| `ScreenAssumption`, `ConsoleAssumption` | the screen has a cell, a line room for a character, the ring room for one; the key maps give characters |
| `ShellAssumption` | NUL, which `kb_readline` puts behind the line, is none of the characters in it |
| `DevicesAssumption`, `PciAssumption` | the registry has a slot; there is a bus with a slot and a function; the registers of a chip are bytes, and its vendor is not 0xFFFF, which an empty slot reads as |
| `NetworkAssumption` | addresses are pairs of 16-bit words, ports are such words, lengths are natural numbers |

The theorems have no hypothesis but these. Sizes, addresses and segments that
wrap are among the values they hold for; what a property leaves out of them is in
its own statement (`Wraps`, `Intact`, `Addressable`).

* `HeapInvariant`: `IInv` says that headers are typed, that the blocks are apart,
  each linked to the one that starts at its end, the last ending with the heap,
  and that grants are the data of blocks in use. Tiling alone is not inductive:
  a merge needs that the next block is the one behind, a split that no third
  block lies inside. From it `HeapTypeCorrect`, `HeapAlwaysTiled`,
  `HeapGrantsBacked`, `HeapGrantsLargeEnough`, `HeapGrantsDisjoint` and
  `HeapRefinesAllocator`, each step of the list being a step of `Allocator` or a
  stutter. What `Allocator` grants is the aligned size: 0 bytes for one that
  wraps.
* `SchedulerInvariant`: from it `SchedulerTypeCorrect`, `SchedulerOneRunning`,
  `SchedulerIdsUnique`, `SchedulerStacksOwned`. `IdsUnique` needs that ids of
  live threads are below `next_thread_id`; `StacksOwned` that each stack in the
  table is allocated.
* `SchedulerBoundedBypass`: the calls of `schedule` that left a ready thread waiting
  and its distance from the current slot add up to the number of slots at most;
  each call that leaves it waiting brings the current slot nearer.
* `SchedulerSleepExact`: what is left of a sleep and what has passed of it add up
  to the delay asked for.

* `ProcessInvariant`, `ProcessMemoryOwned`: the first lemmas of `ProcessProofs` are
  about `TInv`, the thread table whoever else has blocks of the heap; `PTable`
  adds the process table and what `sys_malloc` gave, each block in one of the
  three places. `ProcessThreadsLive` needs that no process lists a thread id that
  is still to be given (`ThreadsGiven`), since `terminate_process` ends its
  threads by id; `CountsNeverHigh` that an operation which empties a slot takes
  one from the cardinality of the used ones. That `terminate_process` of the
  current thread leaves the scheduler with a stale `current_thread` breaks none
  of these.
* `ExecInvariant`: `XInv` adds the buffer of `load_elf_from_file`, which is in no
  table, and `FramesPaid`: a valid image that was loaded took its frames. From it
  `ExecTypeCorrect`, `ExecBlocksOwned`, `ExecProcessThreadsLive` and
  `ExecCountsNeverHigh`. `ExecRefinesProcess` maps the heap to the blocks besides
  the buffer: of the steps of `exec_program` one is a `create_process`, and all
  others are stutters.
* `VfsInvariant`: besides the properties, that inodes in use are below the counter
  and that the count is the number of files. From it `VfsTypeCorrect`,
  `VfsDescriptorsWithinFile`, `VfsInodesUnique`. All but the types hold while
  `Intact`; a write of a size further than the data array from the end of the word
  keeps it. `VfsNoWriteShrinks` follows step by step. `VfsListingComplete` is about ranks: the listing numbers the
  files by how many precede them, which is one to one onto `0 .. count - 1`. The
  scans of the table stop at the first slot that fits: `LeastExists`, from the
  well-foundedness of the order of the naturals.
* `PagingInvariant`: `FramesAccounted` is inductive with the types. A free frame is
  then no table, so that clearing it moves no page (`AllocMovesNoPage`), and two
  directory entries have two tables, so that a write to one moves one page:
  `PagingMappingsIndependent`.
* `ElfLoaderInvariant`: `MappedSoFar` says of every page behind the loops that it
  leads to a granted frame no other page leads to, with the flags of the last
  segment that had it; or there is no table for it, and then no frame is left,
  now or until the load ends, since a load gives none back. Two segments may share
  a page, and the frame it had first is then lost. The pages behind the loops are
  those the code walks; `ImagePagesWalked` says that these are all pages of a
  segment whose end does not wrap. From it
  `ElfLoaderTypeCorrect`, `PagingFramesAccounted` and `ElfLoadedUnlessExhausted`.
  `ElfRefinesLoader`: `PagesLeft` is the cardinality of the pages still wanted,
  of which each step removes the one it maps.
* `AtaDiskInvariant`: until a call fails, a drive has nothing left of earlier
  calls (`Served`), and of the call in progress what the driver still waits for
  or nothing, where it has given up. `AtaDataAtRequest` needs none of this and
  holds also after failures, because the driver looks at the status of the
  selected drive last; `AtaRightSectors` rests on it. A call whose address the
  registers do not hold is served too, with sectors of another address:
  `Addressable` tells the two apart.
* `ConsoleInvariant`: `LineShown` with `NothingLeftBehind` and `AfterOrigin`: the
  cursor is never before the end of the line as counted from its origin, also
  when backspaces in column 0 have made the two differ. With that the editor
  paints no cell before the line: `ConsoleEarlierTextKept`. `PutcharWrites` and
  `BackspaceWrites` say what `screen_putchar` does in terms of the cell number,
  whatever the line does to the rows.

* `ConsoleArgsAreWords`: `ConsoleInvariant` says what a line is, and the rest is
  about any sequence of characters and any number of rounds. `Cutting` is the
  loop invariant of `parse_args`: the buffer is the line but for NULs in place of
  spaces it has passed, its place is where no word is cut in two, and argv are
  the words behind it, numbered without a gap. `NextArgKeeps` is one round. That
  the recursion over the rounds has a solution (`RoundsExist`), and that the
  invariant holds after each of them (`ParseArgsCuts`), go by the least round at
  which it would not: `LeastExists` in place of an induction rule.
* `KernelInvariant`: until the registry is filled it is empty; from then on it
  lists (`Lists`) the fixed devices and after them the PCI table, or as many as
  there is room for, with ids equal to their slots; `ScanInv` says that the PCI
  table holds the functions there are before the place the loops have reached
  (`Passed`), each at the index of how many precede it, and that the loops are
  past function 0 only where its header says there are more. Without that last
  part a device of one function that answers at all of them would be listed
  again. `PassedSkipping` and `PassedFunction` say what a step adds to `Passed`:
  nothing, or the one function it looks at. From it `KernelScanFindsAll` and
  `KernelRegistryHoldsAll`: the properties speak of the end, the invariant of
  every step on the way. The start order matters in the phases of `KernelInv`: `init_devices`
  after `detect_devices` leaves `Lists` false.
* `KernelIpHeadersVerify`: the n-th packet has identification n - 1 and the n-th port
  modulo 65536, and the sum of the ten words of its IP header is all ones:
  `SumWithChecksum` by arithmetic on quotients and remainders of the sum, for
  any words, after `ChecksumLoopEnds`: the `while` of `ip_checksum` is done after
  two rounds, which is why `Folded` has two.

Left to TLC:

* Liveness (`CallReturns`, `ReadReturns`): its fairness is out of the prover's reach. Every other property of a run that
  passes is proved.
* The runs with findings, whose counterexamples are what they show.

## Not modelled

* Output: `get_memory_info`, `show_disk_info`, the other listings, the formatting
  of numbers, colours, `kernel_log`.
* `switch_to_user_mode`, which never returns; the boot assembly; the build files.
* The mount table, written once by `vfs_init` and read by nobody;
  `find_free_connection` and the body of `tcp_receive` behind its test, which no
  state reaches.
* The command table of the shell: each command is one of the operations of the
  other modules, or output.
* The bit of the multiboot flags that chooses the memory size: the number of
  frames is a constant of `Paging`.
* The contents of files, blocks, sectors and images.
