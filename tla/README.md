# Choco OS: specifications, model checks and proofs

Choco OS (the repository's `kernel/`) is a 64-bit single-CPU kernel written in C: a
preemptive scheduler, a heap, PS/2 and e1000 drivers, a small network stack, a RAM
file system, an in-kernel LLM, and a shell, a chat program and two games on top.
This directory holds TLA+ models of its concurrent and stateful parts, the TLC runs
that check them on small instances, and TLAPS proofs for every instance.

`PROJECT.json` is the index: components, runs, mutants, the source lines of every
definition, the hazards, the findings and the theorems. Paths below are relative to
`src/kernel/src/`.

## The system

One CPU. Code runs in kernel threads (`idle`, `net-rx`, `shell`, and one `llm-bot`
at a time) and in interrupt handlers (timer, keyboard, the yield vector 0x30). A
handler runs with interrupts off and is atomic for threads; a thread can be
preempted at any instruction while the interrupt flag is set. Nothing is persistent
and nothing restarts but threads, so there is no crash recovery to model.

| Component | State | Operations | Interacts with | What is hard | What makes it correct |
|---|---|---|---|---|---|
| scheduler (`sched.c`, `isr.c`, `timer.c`, `main.c`) | ring of `Thread`, `current`, `slice_start`, ticks | create, start, yield, sleep, exit; `sched_tick`, `sched_preempt`, `reap_zombies` | heap (structs and stacks), timer, all threads | ticks between any two stores; freeing a thread while running on its stack | ring integrity, one running thread, sleeps neither short nor endless, no starvation, exits are final |
| heap (`heap.c`) | block list, `used_size` | `malloc`, `free`, `realloc`, `calloc` | every thread; the timer interrupt frees | interrupts between calls, long split/merge sequences | blocks tile the arena, one owner per block, no lost memory, first fit |
| ChocoCord (`chat.c`) | channels, messages, `job`, `bot_running`, `typing`, `dirty`, the input line | keys, `send_message`, redraw, `bot_worker`, `bot_emit` | keyboard, llm, scheduler | two threads share all of it without a lock | one job at a time, no overwritten message, no lost redraw, truthful indicator |
| llm (`llm.c`) | two model slots, `llm_busy` | `llm_generate`, `llm_describe`, `load_model` | shell, ChocoCord, heap | two callers, failures half way through a load | one generation at a time, coherent slots, the flag is always cleared |
| keyboard (`keyboard.c`) | prefix and modifier flags, event ring | `keyboard_handler`, poll, wait, flush | interrupt against the shell thread | multi-byte codes, ring at its limits | no stuck modifier, FIFO, drops only when full |
| e1000 (`e1000.c`) | RX and TX descriptor rings | init, send, recv | the device, two sending threads | unlocked sends, ring full | frames sent once, intact, in order |
| network (`net.c`) | ARP cache, `icmp_state`, `udp_sock`, addresses | `handle_*` on `net-rx`; resolve, ping, DHCP, DNS on the shell | e1000, timer | loss, delay, one socket slot, the RX thread waiting for itself | an answer is matched to its request; waits end |
| vfs, initrd, file commands (`vfs.c`, `initrd.c`, `shell.c`) | tree of nodes, `cwd` | resolve, create, mkdirs, write, truncate, unlink; `load_tar`; `cat`, `ls`, `write`, `mkdir`, `rm`, `cd`, `pwd` | heap | partial failure, a stale `cwd`, cut names | a tree, contents as written, `cwd` stays in it |
| pmm, vmm (`pmm.c`, `vmm.c`) | page bitmap; page tables | allocate runs; map | heap init, e1000 init | rounding, unchecked failures | no page twice, no entry outside a table, the window is mapped |
| terminal and line editor (`term.c`, `shell.c`) | cursor, screen; line, history | print, scroll, clear; insert, erase, recall, Enter, ^C, ^L | keyboard, framebuffer | a screen and a line that are changed apart | the screen shows the line that Enter runs |
| games (`snake.c`, `pong.c`) | body, apple, direction; paddles, ball | `snake_update`, `pong_update` | keyboard, timer, heap | narrow integers, a body that grows and is reallocated | the snake is whole and in the grid |
| llm support (`llm_common.c`, `llm_math.c`) | sorted vocabulary, sampler | `tok_sort`, `tok_lookup`, `encode`, `decode`, `llm_sample` | llm, qwen | sorts and searches, greedy merges, a cutoff before the sort | the prompt survives the tokenizer; the nucleus and nothing else is drawn |
| qwen (`qwen.c`) | model, tokenizer, KV cache | `qwen_run` | llm | numeric | not modelled |
| the rest (`kprintf`, `serial`, `framebuffer`, `ps2`, `pic`, `idt`, `pci`, `rtc`, libc routines) | ports and pixels | | | straight-line I/O | not modelled |

The hazards these behaviours bring, each at its line, are in `PROJECT.json`.

## Modules

| Module | Models |
|---|---|
| `Sched` | the scheduler and the interrupts that enter it |
| `Allocator` | what `malloc` and `free` promise: disjoint regions (abstract) |
| `Heap` | the first-fit free list, shown to implement `Allocator` |
| `Chat` | the chat loop and the `llm-bot` worker |
| `Llm` | `llm_busy` and the model slots under two callers |
| `EventQueue` | what the keyboard and the receive ring promise: a bounded FIFO queue with flush (abstract) |
| `Keyboard` | scancode decoder and event ring, shown to implement `EventQueue` |
| `Arp` | the ARP cache and `resolve_mac` on two threads |
| `Net` | the UDP socket and `icmp_state` between net-rx and DHCP, resolver and ping on the shell |
| `E1000` | the descriptor rings shared with the device; its receive ring is shown to implement `EventQueue` |
| `FileTree` | what the file system promises: a map from paths to contents (abstract) |
| `Vfs` | the nodes: paths, creation, writing, removal, with every allocation that can fail |
| `Files` | `Vfs` in use, by `initrd_init` and the shell's commands; shown to implement `FileTree` |
| `Memory` | the page bitmap, the heap's arena, the page-table walk and the rings' pages, in the order of `_start` |
| `Console` | the terminal and the line editor on it |
| `Snake` | the snake game |
| `Tokens` | heapsort and binary search of the vocabulary, encoding and decoding |
| `Sampler` | how `llm_sample` draws a token |
| `Machine` | `Memory`, `Console`, `Snake`, `Tokens` and `Sampler` composed: the kernel from power on as one user sees it |
| `MC*` | instances for TLC |
| `SchedProofs`, `HeapProofs`, `ChatProofs` (also of `Llm`), `KeyboardProofs`, `NetProofs` (also of `Arp`), `E1000Proofs`, `FilesProofs`, `MachineProofs` | theorems |

How the models correspond to the code:

* **Steps.** A handler is one action, or a few when its loop is worth showing
  (`Wake`, `Reap`, `Switch` of `sched_preempt`); nothing interleaves with them because
  the interrupt flag is part of the state. Thread code is one action per store or
  test that another thread or handler can see; steps on locals are merged.
* **Sched.** `state`, `next`, `ring`, `current` are the fields of the same names.
  `left[t]` is `wake_tick - timer_ticks` and `used` is `timer_ticks - slice_start`, so
  the state is finite. `pc[t]` says where the thread is in `thread_create`,
  `thread_sleep_ms` or `thread_exit`, `isr` which part of `sched_preempt` runs.
  `owed` (ticks the thread must still sleep) and `passed` (who was dispatched while it
  waited) are history variables. A struct that is not allocated is `FREE`, so
  that a freed struct in the ring would be seen.
* **Heap.** A block is the address of its header, `size`, `free`, `next`, `prev` are its
  fields. `lock` names who has interrupts off: other actors start nothing meanwhile.
  `blocks`, `held` and `asked` are history variables: the linked headers, what
  callers own and what they asked for. `realloc` within the block's size returns the
  same pointer and is not an action.
* **Chat.** `ui` is the position of `chat_run`, `bot[w]` that of a worker. Of the
  messages only the one the job points to is kept: the pieces of its text, and how many
  messages were pushed behind it. `fresh` and `shown` are history: whether the chat area
  shows the messages, and the typing indicator on the screen. The first-run greeting and
  all layout are left out.
* **Llm.** A field of a slot holds the model its contents were made from, so a slot
  that mixes two models is visible; `raced` is a history variable. `qwen3` has no slot and is left out.
* **Keyboard.** The physical keyboard is the environment: keys go down, repeat and go
  up, and put their codes on the wire; a key sends its code only when the previous one
  has been delivered. A byte is one interrupt. Left and right Ctrl share
  a code but for `E0`, and so do an arrow and its keypad key. Alphabet tables shrink to
  one letter with two cases.
* **Arp.** A host is its own IP and MAC address, and its MAC address does not change.
  The shell and net-rx both send; net-rx also fills the cache. `hop` and `slot` are the
  locals of a lookup, `seen` and `raced` history variables: what of `our_mask` and `our_gw`
  was stored when the hop was chosen, and whether a lookup overlapped an eviction. DHCP's end is
  stores of their own, because net-rx can send between them: `our_ip` (`StoreIp`), then the options in
  any order or not at all, each first in part, because `memcpy` copies bytes (`gcc_utils.c:10`). A
  mask written in part can take a far host for a neighbour, and a gateway written in part
  (`Stray`) can be any host's address. The tests keep the code's order: the subnet first, then
  255.255.255.255 (`BCAST`) and 0.0.0.0 (`Zero`). The bytes of the packets and the ARP reply that
  `handle_arp` sends have no state.
* **Net.** `air` holds the frames on their way to us: any of them is delivered next, once,
  again, or never. The number of the command stands for the DHCP `xid`, the DNS id and
  the local port, which the code makes different for every exchange. One server is
  DHCP server, gateway and DNS server. `resolve_mac` (in `Arp`) either
  succeeds or the packet is lost. What waits on the clock may time out; `thread_sleep_ms(500)`
  between two pings is a guard that lets net-rx finish what it does.
* **E1000.** The registers `TDH`, `TDT`, `RDH`, `RDT`, the DD bits (`done`, `filled`), and
  the driver's indices. The device is the environment. A slot being copied into holds the
  name of the thread that copies; a second copy makes it torn. `tx_tail` is read
  where the code reads it; the loaded sum of `tx_tail + 1` stays in `slot`.
  `queued` (frames given to the device) and `raced` are history variables.
* **Vfs, Files.** A node is a slot of the heap; `next` and `children` are one sequence per
  directory. A command is one step, but for `mkdir`, `write` and the loading of a boot
  module, which allocate more than once: they are lists of requests (`todo`), and each
  allocation may fail. A byte is a small number, a path its components. A freed node keeps its fields as
  long as `cwd` leads to it, and `calloc` may return it. `asked` and `missed` are history
  variables: the write that is carried out, and whether memory ran out during it.
* **Memory.** Addresses are page numbers and `bitmap` is the set of pages marked used.
  A virtual address is the sequence of its four table indices. A machine is a
  memory map, the boot loader's page tables and where the card's window goes.
  `handed`, all that `pmm_alloc_pages` returned, is a history variable for the heap's
  arena and the rings' pages, which the code keeps in variables of its own. When a page cannot
  be had, `e1000_init` goes on with page 0 and writes descriptors there; page 0 is nobody's, because Limine
  reports nothing below `0x1000` as usable (`MachinesAssumption`). If a machine had
  the bitmap in page 0, these writes would mark pages in use as free.
* **Console.** The row of the cursor is kept with its characters, and everywhere where a
  cursor mark has been left; `\b` erases, as `term_print_char` does. The length of the line is that of
  `buf`. A command that only prints is its output.
* **Snake.** `snake` holds `snake_size` segments. `uint8_t` is modulo `BYTE`. The random
  apple is any cell. `tail` is kept only while it is still to be read, and what a game leaves
  in static variables, but for its memory, is forgotten when it ends: `snake_reset` sets
  it all.
* **Tokens.** A string is a sequence of bytes; the text of a byte token, `<0x0A>`, is one symbol.
  Every swap of the heapsort, byte of the scan and merge is a step.
* **Sampler.** A probability is a whole number of hundredths, the coin any multiple of
  `1 / Coins`. The softmax and the rounding of floats are left out.
* **Machine.** One thing runs at a time: `_start`, then the shell's thread, which reads a
  key or runs the game or the model. When a program ends, what it kept is reset
  so that the next one starts from a state the first could start from; `Inv` says so.

## Runs

| Run | Instance | Shows |
|---|---|---|
| `sched` | 2 daemons, 2 workers, quantum 3, sleeps up to 2, fairness | ring, states, sleeps, at most one zombie, round robin, finality of exits; ready threads run |
| `heap` | 2 threads, interrupt handler, 20 units: up to 4 blocks | tiling, merging, accounting, ownership and sizes, first fit, refinement of `Allocator` |
| `chat` | 2 channels, 2 thread structs, a text that overflows, fairness; `thread_create` may fail | one bot, own message, no lost update, no indicator left behind; the bot finishes |
| `llm` | 2 callers, 2 models and an unknown name, fairness | `llm_busy` is set only while somebody generates and is cleared; coherent slots through every failed load |
| `llm_story` | the same | violation: two stories at once |
| `keyboard` | 5 keys, two of which share a code, ring of 3 | no stuck modifier; FIFO refinement, drops only when full |
| `files` | 3 slots for nodes, an archive of 2 files and a model file, 7 paths, one line of text | a tree in which paths are truthful; the map from paths to contents; what a write leaves; when `cwd` is lost |
| `machine` | 6 machines, a screen of 2 rows by 4, 3 characters, 2 lines of history, a grid of 3 by 2, 2 vocabularies, 9 texts, 6 distributions | memory shared out once; the screen shows the line; a whole snake; a prompt that comes back; the nucleus |
| `arp` | 3 hosts on the link, one behind the gateway, 2 cache slots, options in any order, fairness | a truthful cache, the right MAC address, and no send that waits for ever |
| `net` | 2 hosts, 2 commands of up to 2 pings, fairness | answers matched to their questions under loss, repetition and reordering; one reader of the socket; every command ends |
| `net_ping` | the same | violation: a reply is counted for a ping of a later command |
| `e1000` | 2 transmit and 3 receive descriptors, 2 frames, one overlap of two senders | frames sent once, whole and in order; a FIFO receive ring; refusals and losses only when full |

**Bounds.** Two workers are enough for one to exit while another is created or reaped,
and two daemons for one to be passed over; a quantum of 3 makes sleeps of 1 and 2 end
inside, at and after a slice. Twenty units with headers of 2 hold four minimal
blocks, so a block can have a free neighbour on either side, on both, or on none, and
can be split exactly and with one unit to spare. Two channels are needed for "another
channel". The keys of `keyboard` are those that can confuse the decoder: two Ctrl keys that
differ in `E0`, Shift and Caps Lock over a letter; its ring has room for two events. Arrows, keypad keys
and Alt are empty sets here; with an arrow for the left Ctrl, or also a keypad key for Shift,
the same properties hold in 7 million states.
The three nodes of `files` hold a directory with a
directory and a file in it, or fill up so that allocations fail; the names include one that is
cut. The memory maps of `machine` are one that is large enough, one with
holes in which allocations fail one by one, with a table and with a huge page over the window, one with fewer pages than
tables are needed, with and without a card, and one without room for the bitmap. Lines fill and leave a row and the
screen scrolls; `BYTE` = 4 lets the snake grow past the range of its index and
`MaxSnake` ends there; the vocabularies have ties, merges of merges, a code point and
letters that are bytes only; the distributions have ties at the cutoff. Two cache slots for three hosts
make `arp` evict. Two commands make an answer meet the exchange after its own, and two
pings the ping after its own. The rings of `e1000` fill and wrap; after a call of
`e1000_send` that overlaps another (`MaxRaced` = 1) no further one is followed. Counters
are cut off where nothing looks at them any more: `left`, `used`, `newer`, `passed`.

**Fairness.** `Sched`: the CPU finishes handlers and sections with interrupts off (weak),
and a tick that is pending when the flag is set again is delivered (strong: the flag
goes up and down, and the PIC holds the interrupt). Threads themselves get no fairness:
that they run is what is shown. `Chat` and `Llm`: each thread that is ready gets the CPU
(weak), which is `ReadyRuns` of `Sched`; the user is never required to press a key, and
`NoMoreKeys` is fair because the loop drains keys faster than they are typed.
Generations end because `max_tokens` or the context bounds them. `Arp` and `Net`: the same
for both threads, the options of a DHCP answer have an end, and the clock reaches every deadline; in `Net` strongly, because
datagrams that do not match interrupt a wait again and again, while its deadline
stays. Nothing is assumed of the network, the user or the device: `E1000` has
no fairness.

**Deadlock** is checked in every run but `net`, `net_ping` and `machine`. In the first two
the user has typed all commands of the bound, and nothing needs to happen any more. In
`machine` a computer without room for the bitmap or the heap stops (the code goes on with address 0,
which is undefined), and a snake of `MaxSnake` segments is not followed further.

In every module `Inv` is the type invariant together with the component's basic
consistency, each a definition of its own.

Each property has a mutant in its module (operators with a suffix, "Mutant" in the
comment): a plausible bug under which TLC finds the property violated.

## Findings

1. `llm.c:596`: test and set of `llm_busy` are not atomic, so two generations can run on
   one run state (`llm_story`).
2. `net.c:291`: every ping has the same id, and every `ping` command counts from 1, so a late
   or repeated reply to one command is taken, and timed, as the reply to the next, also of
   another host; `net.h:21` promises the round trip (`net_ping`).

More follow from interleavings and failures that the models take, and are stated as
the exception of a property that holds otherwise:

* `llm_describe` (`llm.c:503`) loads without looking at `llm_busy`, and `load_model` has no
  lock. When two loads overlap, a slot can mix two models, and one model can end up in both
  slots. `raced` records that loads overlapped; `SlotsCoherent`, `DescribeTellsTruth` and
  `RoomForEveryModel` hold until then, and TLC refutes each without that exception.
* Between `typing = false` (`chat.c:428`) and `bot_running = false` (`chat.c:430`) the user
  can be told that the bot is busy in another channel when it is not.
* The result of `thread_create` is ignored at `chat.c:464`: when it fails (`CreateFails`), the
  channel types for ever and no channel is answered again. Liveness is stated for a bot that
  was created.
* The shell and net-rx can be in `e1000_send` (`e1000.c:227`) at once. Besides a torn or lost
  frame, this can leave a descriptor with DD clear that the device has already passed:
  then every send that comes round to it fails, for good. `TxExact` and
  `RefusedOnlyWhenFull` hold until two senders overlap.
* When `TX_DESC_COUNT` frames wait for the device, `TDT` equals `TDH`, which means an
  empty ring to the device, and the wait at `e1000.c:233` never succeeds.
* A lookup in the ARP cache that has found slot 0 while it is evicted (`net.c:116`) reads
  another host's address; `RightMac` holds otherwise.
* Once a mask is known, a packet to 255.255.255.255 goes to the gateway's MAC address, because
  the subnet is tested first (`net.c:167`); and while DHCP stores its options (`net.c:531`), a reply of
  net-rx to a far host can go to everybody or to another host of the link. `RightMac` says so: it
  promises a neighbour its packets throughout, and the gateway the others once it is known.
* `rm` of the current directory (`shell.c:287`) succeeds when it is empty. `cwd` then leads to freed
  memory; when a new node gets it, the shell is in that node's place without a `cd`, and
  `calloc` can even return the directory in which the new node is to be made. `CwdKept` says that this takes an `rm` of
  that very directory, and `Implements` that the tree is not harmed; what the shell does when other
  data get that memory is undefined and not followed.
* `write` (`shell.c:237`) cuts the name at 63 characters when it makes a file but not when it
  looks for it: the file is there under the cut name, and under the given one it is not found. And
  it truncates first and looks at no result (`shell.c:251`): out of memory, the old contents are gone and the
  new are cut, or have zeros in the middle. `WriteShows` states both.
* `\b` does not go back over the edge of a row (`term.c:112`), so that a line that has filled one is
  shown wrongly after an erasure or a recall. `ShowsLine` holds until then (`wrapped`). The blanks
  of `redraw_line` are not needed, for `\b` erases; Up and Down lose a line that was typed
  and not entered.
* Segments of a snake behind the 256th do not move (`snake.c:87`, an index in `uint8_t`);
  `SnakeWhole` holds up to that size.
* `e1000_init` (`e1000.c:179`) looks at no page allocation: out of memory, the device is given page 0.
  `get_next_level` (`vmm.c:46`) takes a huge page of the boot loader's direct map for a
  table: when the window lies under one, an entry is written into the memory it maps. `MemoryTruth` states both as
  exceptions.
* Without room for the bitmap `pmm_init` returns and the first allocation reads from address 0
  (`pmm.c:114`); without a heap no thread can be made.
* The cutoff of `sample_topp` (`llm_common.c:157`) leaves a token as long as topp is at least `1 / n`:
  the likeliest has at least `1 / n`, which is then not below `(1 - topp) / (n - 1)`. `-p` is in hundredths and
  vocabularies are larger than 100, so `SamplerAssumption` is all that can happen; below it
  `probindex[-1]` would be read.

## Proofs

Eight modules prove, for all values of the constants that the named assumptions allow,
the safety properties of the runs: invariants, action properties and refinements, all but
two of `machine`.

| Module | Theorems | Properties | For any |
|---|---|---|---|
| `SchedProofs` | `TypeCorrect`, `RingIsSound`, `OneThreadRuns`, `SchedInvariant`, `SleepsLongEnough`, `SleepsNotTooLong`, `SleepsRight`, `ExitsAreFinal`, `ExitsAreReaped`, `DispatchIsFair` | `TypeOK`, `RingIntegrity`, `OneRunning`, `Inv`, `NoEarlyReturn`, `PromptWake`, `SleepTimes`, `ExitIsFinal`, `OneZombie`, `RoundRobin` | threads, quantum, sleeps |
| `HeapProofs` | `TypeCorrect`, `BlocksTile`, `NeighboursMerged`, `OneOwner`, `SizedRight`, `HeapInvariant`, `FirstFitHolds`, `UsedIsRight`, `HeapImplements` | `TypeOK`, `Tiling`, `Coalesced`, `Ownership`, `RightSize`, `Inv`, `FirstFit`, `Accounting`, `Implements` | arena, header, alignment, threads |
| `ChatProofs` | `OneBotAtATime`, `MessageIsOwned`, `UpdatesAreSeen` | `Inv`, `OwnMessage`, `NoLostUpdate` | channels, worker structs, lengths |
| | `SlotsAreTrue`, `RoomIsEnough` | `LlmInv`, `RoomForEveryModel` | callers, models, slots |
| `KeyboardProofs` | `NoStuckModifier`, `DroppedWhenFull`, `RingIsQueue` | `Inv`, `DropOnlyWhenFull`, `Implements` | keyboard, ring size |
| `NetProofs` | `AnswersAreOurs`, `PingsAreMatched`, `BufferIsTheReaders` | `Inv`, `PingMatched`, `ReaderAlone` | servers, hosts, commands |
| | `CacheIsTrue`, `MacIsRight` | `ArpInv`, `RightMac` | hosts, cache size |
| `E1000Proofs` | `ReceiveRing`, `SentExactly`, `RefusedWhenFull`, `RingIsQueue` | `Inv`, `TxExact`, `RefusedOnlyWhenFull`, `Implements` | ring sizes, frames |
| `FilesProofs` | `NodesAreATree`, `NodesAreAMap`, `CwdStays`, `LinesAreShown` | `Inv`, `Implements`, `CwdKept`, `WriteShows` | nodes, archive, paths, lines |
| `MachineProofs` | `ScreenIsTrue`, `MemoryIsShared`, `SnakeIsWhole` | `Inv`, `BootTruth`, `SnakeWhole` | screens, prompts, lines, commands' output; memory maps, boot tables, windows; grids |

In each module `IInv` is the inductive invariant, `Invariance` states `Spec => []IInv`, and
one lemma per action (or per group of actions that disturb the same part) shows that
a step keeps it; of `Llm` and `Arp` they are `LlmIInv` and `ArpIInv`, of the file system
`FilesInv`, `Calm` and `WriteInv`, of the console, snake and memory `ScreenInv`, `SnakeInv` and `MemInv`. Each was checked by
TLC on the instance of the run before it was proved.

Assumptions, each evaluated by TLC on a run:

* `ThreadsAssumption`, `TimeAssumption` (`Sched`): the boot context and `NULL` are not client
  threads, the shell is a daemon, quantum and sleeps are positive.
* `SizesAssumption`, `NamesAssumption` (`Heap`): a positive header and alignment, an arena
  larger than a header, and names that differ.
* `ChatAssumption`: at least one channel, room for a character and a piece of text.
* `LlmAssumption`, `RoomAssumption` (`Llm`): names differ; callers and ISO models are
  finite, and there are as many slots as ISO models (`llm.c:458` relies on it).
* `KeyboardAssumption`, `CodeAssumption`, `EventAssumption` (`Keyboard`): the scancodes of
  different kinds of keys differ, as the table at `keyboard.c:17` has it, only arrows and the
  right Ctrl and Alt are extended, and no event is the placeholder `None`.
* `ArpAssumption`, `NetAssumption`, `RingAssumption` (`E1000`): names and special addresses differ, the cache and
  the rings are not empty, a receive ring has two descriptors at least.
* `VfsAssumption`, `FilesAssumption`: finitely many slots, names that differ (`.` and `..` name no file,
  the long name is cut to another one), and typed archives, paths and lines; a line has no NUL.
* `MemoryAssumption`, `MachinesAssumption`: positive sizes, and what the boot loader hands over: a typed
  map with a region that counts; a window of addresses that differ; page tables that are a tree on
  the way to the window and lie in no memory that is reported as usable; and page 0 neither usable
  nor a table. The last is what the protocol of Limine promises and `e1000_init` relies on when
  it has no page for a ring; `pmm_init` does not ("just in case", `pmm.c:97`).
* `ConsoleAssumption`, `StoryAssumption`: positive sizes; the user types what can be printed, the prompt is
  not empty and consists of such characters, and what a command prints is nothing or ends with `\n`. All
  commands of `shell.c` do that (`cat` adds the `\n` that a file lacks), and `cmd_llm` prints one at least.
* `SnakeAssumption`: the grid and the start are within the range of an index.

The arguments:

*Scheduler.* `IInv` adds to the stated invariants that the interrupt flag is off exactly
inside a section or handler, which thread can be at which point of the API, that at most
one struct is being created and is not linked yet, and how `left` and `used` relate
between ticks. The ring is the hard part: `Reach(ring, Threads)` is an intersection of
closed sets, and the proof shows that inserting behind `ring` adds one node to it and that
removing the node behind `walk` takes one away, without induction.
`OneZombie` needs `ZombieInv`: besides `current` there is one zombie at most, the walk of
`reap_zombies` has it still ahead, and there is none left when the walk ends. It may end early,
behind `ring`, only after it has freed that one. `RoundRobin` needs `OrderInv`: what was dispatched
since `t` became ready lies on the arc of the ring from behind `t` to `current`. The next
dispatch is on the other arc, from `current` to `t`, and the two are disjoint
(`ArcsDisjoint`) because `next` is injective on the ring; the lemmas `ArcInsert` and
`ArcRemove` say that creation and reaping take no dispatched thread off an arc but the
one that is freed.

*Heap.* `IInv` adds where each actor is when it holds the lock, that `at`, `old` and `held`
are linked blocks, that a block about to be split or taken fits, and that between
`Mark` and the second merge the only free neighbours are those around the block being freed.
`Tiling` is preserved by `Split` and `Coalesce` by cases on which pointer of which
block changed. `HeapImplements` maps `Take` to `Allocate` and `Mark` to `Release`; every other
step leaves the allocated regions as they are. `UsedIsRight` is about a sum. The
provers cannot use the library's induction rules, but they can use that strict inclusion of
finite sets is well-founded (`MinimalSubset`): a minimal counterexample shows that the
recursive sum of the library is well-defined and does not depend on the order of its elements (`SumsExist`,
`SumIs`), so that `Take` and `Mark` change it by one block and splits and merges, which
touch free blocks only, not at all.

*Chat.* `BotInv` says that `bot_running` holds from the test in `send_message` to the
worker's last store, so there is one worker, which owns `job`; `WorkInv` what it has done to
the job. `NoLostUpdate` is about the moment the loop sleeps; `FreshInv` and `ShownInv`
carry it through the loop: from where `dirty` is cleared to where the channel is drawn, an
old screen is excused only by someone who is about to set `dirty`.

*Llm.* As long as two loads have not overlapped, one caller at most is past `load_model`'s
search, its model is in no loaded slot, and the fields it has filled are its model's
(`LoadInv`, `FilledInv`, `DistinctInv`). A slot that an earlier, failed load left half
filled is not loaded, and is filled again from the start. That the loaded slots name
distinct models gives `RoomForEveryModel` by the pigeonhole principle. `First` is
well-defined by a minimal interval, again well-foundedness in place of induction.

*Keyboard.* Two invariants that do not meet. `WireInv` says how the bytes still on the wire
complete a press or release and what the flags show until then; a flag changes
with the last byte only, and prefixes are cleared with it. `QueueInv` says which
entries of the ring hold events. The refinement maps the ring to the sequence from
`eq_read` to `eq_write`; each of the abstract queue's actions is one store to an index.

*Arp.* A neighbour that a thread looks for is where its packet is to go under the settings that it
saw; it may also look for a far host, or for half a gateway, which nothing in the cache answers
(`LookupInv`). `HopIsRight` is the case distinction over what is stored of mask and gateway. The slot it found is still that host's
unless net-rx has begun to evict it (`FetchInv`), which `raced` records. Only the first slot is
overwritten, only by net-rx, and until its MAC is stored it bears the new address (`EvictInv`).

*Net.* The network may deliver any packet again or never, so the invariant is about packets:
`PacketInv` says what a packet that exists anywhere, in the air or in a buffer, tells about the
exchange whose number it bears. The rest says who may touch the buffer (`SocketInv`), where
the shell is (`ClientInv`), how far DHCP has come (`DhcpInv`), and that a reply whose
sequence number was compared is stored before the next ping (`PingInv`).

*E1000.* `RxInv` and `QueueInv` divide each ring into the descriptors of the device, of the
driver and of the call in progress, as intervals modulo the length. `TDH = TDT` does not tell a full
transmit ring from an empty one, so `Owned` counts the frames queued; the DD bit tells
`e1000_send` what the registers do not. `TxInv` holds as long as two threads have not been in
`e1000_send` at once. The receive ring refines the queue whose capacity is one less than the
number of descriptors, because `RDT` stays behind.

*Files.* `TreeInv` says that there is a map `P` from the nodes of the tree to their paths, such that each
is among the children of the node its path goes through, under its last name, and that nothing but its
children hangs on a directory (`Hangs`). Nodes outside of `P` are freed ones that `cwd` still leads to, and
what was made in them: no node of the tree leads there, so what a command does to them the tree
does not notice. `Moves` then says what a step does to `P`: nothing (`Quiet`), one more node at the end of
its directory (`Grows`), other contents of one file (`Changes`), one leaf less (`Shrinks`), or the first
mount (`Starts`). From that, `NodesAreAMap` is a case for each. `NodesAreATree` needs that paths of the
tree differ and are no longer than there are slots; then `vfs_node_path` climbs up prefix by
prefix, and what it prints leads down to the node again (`Climbs`, `OnWay`). `TodoInv` keeps in order what is left
of a command: what is done to a file comes behind its creation, and attaching it last.
`LinesAreShown` follows one write through its requests: no step of it moves a path that leads
somewhere (`SameWalks`), so that the file is where it was looked for, or missing
from the start (`Making`), then emptied (`Clearing`), and then holds a part of the line, with zeros
where memory ran out (`Filling`). A name that was cut names no node. Recursion over paths is
replaced by walks (`Walked`, `Climbs`): functions that satisfy one equation per step, shown to exist and to
be unique by a least counterexample.

*Memory.* A table of the boot loader or a new one is `Placed` by the indices that lead to it. A page is spoken for
(`Spoken`) if it is not usable or marked. Tables that a walk goes through are, so `pmm_alloc_pages` does
not return one of them, and a new table gets a place that no other has: two addresses lead to the same last
table only if their first three indices agree. Entries that are written for the window are behind all
ways and cut none. That the first free run is found, and that pages handed out differ,
are statements about least numbers.

*Console.* A terminal is one of `Terminals` if the cursor and the row are within its sizes and a mark is
where the cursor is drawn, or nowhere. Every step of `term_print_char` leads from one to
another: `Shown` says what a printed character adds to the row, or `\b` takes away, as long as no row was filled;
and behind `\n` the row is blank (`Fresh`), so that a prompt begins at the margin because every output
ends its line. `term_print` is a fold of the library, defined by recursion over sets of indices;
that there is a function which satisfies that recursion is shown by a least counterexample (`FoldsExist`,
`PrintsAre`). So a text has screens on the way (`Steps`), `TextConcat` splits it and `RedrawShown` follows
`redraw_line` through its four parts. `ScreenInv` adds to `Inv` what the lines of the history
are, and that the screen of a terminal that is not hidden shows its cursor.

*Snake.* The body that `snake_update` makes is the old one moved up by one segment behind the new head,
up to segment `BYTE`; so each segment is where its predecessor was, and near it because the head has moved to
a neighbour on the torus (`AheadIsNear`, `BackIsNear`, with the wrap of an unsigned index).

Only model-checked:

* Liveness (`ReadyRuns`, `BotComesBack`, `BusyEnds`, `SendsEnd`, `CommandsEnd`): fairness is
  out of the provers' reach.
* `Machine`'s `TokenRoundTrip`: it says what heapsort, binary search and greedy merges compute
  together, and every part of that is an induction over the vocabulary or the text.
* `NucleusExact`: it compares sums over a sorted list with sums over a set, with ties.

Beside the two findings' properties, which are false, nothing else that a run checks is unproved.

## Plan

Done: the models of all parts that keep state, and the safety of scheduler, heap, chat, model slots,
keyboard, ARP, network clients, card, file system, memory, console and snake. What could
still be proved is the tokenizer's sort, its merges, and the sampler's nucleus.

## Not modelled

* Device set-up and port I/O (`ps2.c`, `pic.c`, `idt.c`, `pci.c`, `rtc.c`, `serial.c`, the registers of
  `e1000_init`), pixels (`framebuffer.c`), formatted output and byte routines:
  straight-line code with no protocol.
* The arithmetic of the models (`forward`, `qwen.c`, `llm_math.c`, softmax): floating point
  is out of TLC's reach. `load_qwen` has the shape of `load_model`.
* The bytes of packets, of tar headers and of tokenizer files, checksums, and the wrapping of chat
  messages: layout and wording.
* `pong.c`: a game of two paddles and a ball, in pixels, that allocates nothing and shares nothing.
* `pmm_free_pages`, `vmm_unmap_page` and `vmm_switch_pml4`, which nobody calls.
* In `Tokens`: texts that contain the letters of a byte token, and the bytes of a code point that are
  printed as byte tokens one by one.
* The boot loader, and the tools on the host.
