# Verification of TurboxOS

TLA+ models of the TurboxOS kernel, model-checked with TLC and proved with TLAPS.
Paths without a directory are modules of this directory; `kernel/fork.cpp` and the like
are paths of the repository. `PROJECT.json` maps every definition to the lines it models.

## 1. The system

TurboxOS is a 32-bit teaching kernel: one processor, no preemption, no interrupts in use,
**no stack per process**. `sched_yield` *calls* the entry function of the next ready
process, from its beginning, on the stack of its caller. Everything that is hard about
this kernel follows from this one decision.

| Component | State | Operations | Talks to |
|---|---|---|---|
| boot (`boot/`, `linker.ld`) | mode of the processor | read the disk, enter protected mode, call `kernel_main` | kernel main |
| GDT, IDT, stub (`hw/`, `kernel/syscall_stub.asm`) | descriptor tables | `gdt_init`, `idt_init`, `int 0x80` | system calls |
| HAL, drivers (`hal/`, `drv/`) | cursor, screen, tick count | `vga_putc`, `kbd_getc`, `hal_init` | called by kernel main, interpreter, system calls |
| page allocator (`mm/pmm.cpp`) | bitmap, counter, hint | `pmm_init`, `pmm_alloc_page`, `pmm_free_page` | heap |
| heap (`mm/heap.cpp`) | list of blocks | `kmalloc`, `kfree`, `heap_grow` | page allocator |
| process table (`kernel/fork.cpp`) | 16 PCBs with state, entry, mailbox; `g_current`; hint | `procs_init`, `kernel_fork`, `proc_exit_current`, `proc_run`, deliver, take | scheduler, IPC |
| scheduler (`kernel/sched.cpp`) | none of its own: the stack of activations | `sched_yield` | process table |
| IPC (`kernel/ipc.cpp`) | none of its own: the mailboxes | `ipc_send`, `ipc_recv` | process table, scheduler |
| kernel main, dispatch (`kernel/kernel.cpp`) | – | boot order, idle loop, `syscall_dispatch` | all |
| FS server and client (`middle/`) | locals of the waiting calls | `fs_server_loop`, `vfs_run`, `vfs_create`, `vfs_write` | IPC, file system |
| file system (`fs/turboxfs.cpp`) | table of 64 files, ready flag | `tfs_init/create/write/read/list`, interpreter `tfs_run_fd` | middle, system calls |
| system call API (`syscall/`) | – | `tbx_*` | `int 0x80` |
| shell (`user/shell.cpp`) | session table of 16 files, line | commands, line editor | API |
| demo (`user/demo.cpp`) | – | create, write, run, read | API |
| runtime (`runtime/string.cpp`) | – | `mem*`, `str*`, `itoa` | used by the interpreter, file system, shell |
| tools (`tools/`) | host files | build; `pack_image.py` writes the image, `bridge.py` reads it and writes the state file | web terminal |
| web terminal (`web/terminal.js`) | files in the browser, mode, history | commands; the fetch of the state file and what follows it | tools |

What is hard to test here:

* *ordering and stale state*: any wait runs any number of other processes, which exit,
  fork into freed slots, send, and are entered again from the beginning, before the wait
  goes on with what it had read earlier (`g_current`, the state of the receiver);
* *activations that never continue*: the FS server never returns, so whatever it was
  called from is buried;
* *tables at their limits and rings*: slots, pages, files, session entries, hints one past
  the end, more memory than the bitmap describes;
* *partial failure*: a heap that grows only partly; a file that is created but not noted;
  an image that is read while it is being written; a fetch that fails half-way;
* *asynchrony*: the web terminal takes commands while its files are being fetched;
* *two copies of a layout or of a convention*: pack and parse, push and pop, the descriptors
  of the loader and those of `gdt.cpp`, signed and unsigned characters.

What makes each component correct:

* processes and IPC: the FS server keeps pid 2; `g_current` is the process that runs; a
  word is delivered only to a living process, once, and not to a successor in the slot;
  an answer always finds room;
* page allocator: a page has one owner; the counter is exact; refusal only when full;
* heap: blocks tile the pages it owns; a caller has the room it asked for;
* file system: handle, name and written content are for good; the script runs line by line;
* shell: the handle in its table is that of the file it names;
* console: the screen is the end of what was printed, the line that is edited is what the
  screen shows, and both are what was typed;
* web terminal: its files are what the commands have made of nothing and of the state file;
* tools: what was packed is what is parsed;
* runtime: the functions compute what their libc namesakes do;
* stub and tables: a system call gets to the dispatcher and back, and changes only `eax`.

## 2. Modules

```
 Mailboxes  <--refines--  Kernel (EXTENDS ProcTable)      KernelProofs    MCKernel
 PageAllocator <--refines--  Pmm                          PmmProofs       MCPmm
                              ^ INSTANCE
                             Heap                         HeapProofs      MCHeap
 FileStore  <--refines--  Tfs                             TfsProofs       MCTfs
                           ^ INSTANCE
                          Shell                          ShellProofs      MCShell
                          Script (interpreter)           TfsProofs        MCScript
                          Console                        ConsoleProofs    MCConsole
                          Boot
                          Terminal  (state file made with Image)
                                                         ShellProofs      MCTerminal
 Runtime, Tokens, Image, Gate  <--EXTENDS--  Library     LibraryProofs    MCLibrary
 Induction  <--EXTENDS--  HeapProofs, ConsoleProofs, LibraryProofs, ShellProofs, TfsProofs
```

`TfsProofs` is about all of `turboxfs.cpp`, and `ShellProofs` about the two shells, the one of
the kernel and the one of the browser. As each EXTENDS two models, `Script` and `Terminal`
name their specifications `ScriptSpec` and `WebSpec`.

**ProcTable** is the table of `fork.cpp` as operations. A pid is a slot plus one. No code
stores BLOCKED or ZOMBIE, so a slot is FREE or READY. The ring search of `kernel_fork` is
the free slot with the least `ScanOffset`.

**Kernel** composes it with `sched.cpp`, `ipc.cpp`, `ipc_adapter.cpp`, `kernel_main` and
the system calls. Its central variable is `stack`, the sequence of activations. An
activation has the slot it runs for, the local `cur` of the `sched_yield` that called it
(`saved`), a program counter, and the locals of the `ipc_send` or `ipc_recv` it is in
(`me`, `to`, `msg`, `spin`). Only the top executes. A step runs from one scheduling point
to the next; nothing can come in between, as there is one thread and the only interrupt
is the system call itself. `sched_yield(st, cur, f)` pushes an activation of the next
ready slot after `cur`, the caller last, slot 0 never; `Return` pops one and restores
`g_current`. Programs are arbitrary: at any moment they may fork, exit, create a file, run
one, or return. `files` is the number of files, `Tfs!Count`, and a handle is any number below
it. `Tfs!HandlesAreCounted` says that the table may be taken for this number: a step of
`Tfs` does to `Count` what `SysRun` and `SysCreate` do to `files`, or leaves it alone.

**Mailboxes** is what this is for: living processes, one of which executes, and one unread
word for each. A word is put by the process that executes, in its own name, by a call of
`ipc_send` that is for this receiver and this word and ends with it, into the empty mailbox of
a living process; it stays until its owner takes it in a call of `ipc_recv`, or exits. A call
may be given up or be lost while others execute, and never comes back. `Kernel` shows that it
does this with the calls read off the activations that can still continue (`Sends`,
`InReceive`).

**Pmm** is `pmm.cpp`; the bitmap is the set of the pages whose bit is set, and the fields
`total`, `free`, `last` are its counters. **PageAllocator** is the promise: exclusive
owners, refusal only when there is no page, harmless bogus frees.

**Heap** is `heap.cpp` on an instance of `Pmm`. `kmalloc` takes pages one at a time, each
a step of `Pmm`, so that memory may run out after any of them; no other client runs in
between (`call = Idle` guards them). `others` are pages of other clients, which
make the heap's pages come in any order and with gaps. A list is a sequence; a block is
its address, size and flag.

**Tfs** is the file table, **FileStore** its promise, **Script** the interpreter with its
line buffer, and **Shell** the session table of `shell.cpp` over an instance of `Tfs`.

**Console** is the screen with its cursor (`vga`), the keyboard controller's one-byte buffer
(`obf`), and the line editor of `shell_main`. `kbd_getc` polls inside a system call, so only
the controller moves between two keys; output comes between the lines. Three history
variables say what ought to be: `paper` is the text without scrolling, `home` the place
where the prompt ended and what its row was then, `typed` the keys since the last line. Output
is any byte, as `SYS_PUTC` passes every byte on: each stands in a cell but for the line feed and
the backspace, which moves and does not erase.

**Boot** is the order from the boot sector to the first system call.

**Terminal** is `web/terminal.js`. The page has one thread; the chain of `then` and `catch`
of `trySyncFromBridge` is the variable `stage`, with one action per callback. A key is a task
of its own, and the callbacks a task makes ready run before the next task: so keys are
handled while the fetch or the body is awaited and after the end, and nowhere else. The
state file of its run is the one `parse_image` gets out of an image of `pack_image`
(**Image**); MCTerminal asserts this.

**Runtime** (`string.cpp`), **Tokens** (the shell's cutting of a line in place), **Image** (the
layout of the image in `pack_image.py` and, separately, in `bridge.py`) and **Gate** (the
descriptor tables as the processor reads them; the stack and registers from `sys_call` over
`isr_syscall_stub` to `syscall_dispatch` and back) are algorithms without state. The module
**Library** turns each call with its arguments into a state, and compares it with what it
is meant to compute. Memory is a function from addresses to bytes; a stack is a sequence with
the word at `esp` last. What C++ may do behind the stub, namely change `ecx`, `edx` and its
own arguments, is a parameter (`junk`).

## 3. Runs

| Run | Bounds | What it shows |
|---|---|---|
| `Kernel` | 5 slots, 2 turns per wait, 2 files, 8 activations | the eleven properties of `Kernel` |
| `Pmm` | 10 pages, 3 reserved, any memory from 0 to 11 pages | the six properties of `Pmm` |
| `Heap` | 4 pages of 64 bytes, 3 sizes | the five invariants of `Heap`, and that `kmalloc` returns |
| `Tfs` | 3 slots, 4 names, files of 2 bytes | types, refinement of `FileStore`, the counting of handles that `Kernel` relies on |
| `Script` | files of up to 5 characters, buffer of 2 | the pass is the meaning of the script |
| `Shell` | 2 entries, 3 slots, 4 names | session table against file table |
| `Console` | 2 rows of 3 columns, 3 rows of text, 5 keys and 3 letters per line | keyboard, line and screen agree |
| `Terminal` | 4 commands, 2 names, 1 text, two state files | files are explained by the history; the mode is decided |
| `Library` | ints of 8 bits, 6 bytes of memory, lines of 6 characters, images of 3 files | the algorithms compute what they are meant to |

Three further runs end in a counterexample; section 5 lists them.

Why the bounds are enough to meet the cases:

* *Kernel.* Five slots are kernel main, the server, and three programs: one that exits, one
  that reuses, one that has a request under way. The reuse needs the ring hint to wrap,
  which three programs and one exit bring about. Eight activations hold two full rounds,
  kernel main included, so that buried activations, restarted programs and late answers
  coexist. Two turns stand for 1024: the first turn, a later one, and the limit. The
  model stops when the stack is full (`MaxDepth`); the real one overflows, and therefore
  the run does not ask for the absence of deadlock. The proofs need none of these bounds.
* *Pmm.* Memory below, at and above the reserved pages, and beyond the bitmap; sizes that
  are no multiple of a page; frees of every page, of address 0, of an address inside a
  page, and beyond the bitmap.
* *Heap.* The page is 64 bytes with the header of 12 and the split threshold of 28 of the
  source, so that with sizes 19, 52 and 60 a page is split, is filled exactly, and is too
  small. Sizes whose rounding wraps around at 2^32 are left out, and `WordSize` is scaled.
* *Tfs, Shell.* More names than slots and more slots than entries, so that both tables fill
  up; texts that fit, fill and overflow a file.
* *Script.* Every sequence of the six kinds of character up to length five has lines that
  are longer than the buffer, CRs before, in and after them, an exit in each place, and
  last lines with and without a line feed.
* *Terminal.* Four commands are one to create and one to write a file before the fetch ends,
  and the same after it. One state file has a name twice and a name the user can create as
  well, and the kernel binary, which is no text; the other is empty.
* *Library.* With eight bits every int is tried, the least one included, in bases that are
  too small, the smallest, the largest and too large; `itoa` takes the width from `IntBits`
  and from nothing else. Six bytes over 0, 1 and 255 hold two strings with
  a tail behind them, 255 is negative as a char, and `memset` is given 256 as well. Lines of six characters have two words and
  a rest with blanks around each. An image is cut after every byte. For all four
  properties there are theorems without these bounds. Contents are any bytes, which are decoded
  as Python does it (`GetByte`): the files hold letters of one to four bytes, so that an image is
  also cut inside a letter; the kernels have bytes that begin no letter, letters that are not
  completed, and a form that is too long.
* *Console.* Three columns and a line of three letters behind a prompt: a line fits, fills
  its row exactly, wraps, is full and is typed on. Three rows of text scroll once. Five
  keys fill a line, are refused once, and erase. The table of scan codes has one code of
  each kind, a second letter (the blank), and the break code of each.

Each property of these runs has a mutant: a definition with a plausible mistake
(`..._unclamped`, `...Twice`, `...KeepingCurrent`), under which TLC finds the property
violated. They stand right before the definition they are mistakes of.

Deadlock is an error in `Pmm`, `Heap`, `Tfs`, `Shell` and `Terminal`. `Script` stops when the
script has ended, `Console` when the bounds on text and keys are used up, `Library` after
its one call.

Two specifications assume fairness:

* `Heap`: weak fairness of what a `kmalloc` that has begun does next. There is one thread and
  no preemption, so this is what the processor executes; the other clients of `Pmm` are
  other code of the same thread and cannot come in between. `KmallocReturns` needs nothing
  else. No fairness is assumed for the start of a call.
* `Terminal`: weak fairness of `Sync`. The event loop of the browser runs callbacks that are
  ready, and a fetch is settled in the end, with an answer or with an error. The user
  need not type anything, and may type without end.

The liveness one would like to have of `Kernel` (a request is answered and its caller goes on)
is false, as `BuriedForGood` and `AnsweredCallerContinues` show, and is not stated.

## 4. Properties that carry the argument

* `RoundAscends`: between two activations of the server, slots rise along the stack and
  each activation was called by the one below. So the ring never wraps without passing
  the server, and no program has two activations that can continue.
* `BuriedForGood`: below an activation of the server nothing ever executes again.
* `ServerNeverWaits` and `MailFollowsProtocol`: there is at most one answer per process
  under way, the server never spins in `ipc_send`, the word -1, which `ipc_recv` could not
  tell from an empty mailbox, is never sent.
* `LateAnswer`: an answer can meet a later activation of its process, which takes it for the
  answer to its own request. Wherever both are under way, the process is at the first turn
  of its `ipc_recv` and takes the answer next; so the slip stays in one exchange.
* `NoReuseUnderRequest`, `NoMailToTheDead`: exit and fork do not misdirect words.
* `MailboxesSpec`: `ipc_send` and `ipc_recv` read `g_current` before their loops and go on after
  any number of yields; still it is the process that executes that puts its own word, and takes
  its own. No call delivers twice, and no other step touches a mailbox in use.
* `CountIsExact`, `RefusesOnlyWhenFull`, `PageAllocatorSpec`; `BlocksTileThePages`,
  `RoomForTheRequest`; `FileStoreSpec`; `RunsTheScript`; `SessionNamesItsFiles`.
* `HandlesAreCounted`: what joins `Tfs` to `Kernel`. A hole in the table, or a file found in
  a slot beyond the number of files, would make the server's check of a handle another one
  than the model of the kernel has.
* `KmallocReturns`: the search is repeated once, whatever the growth has brought.
* `ScreenShowsLine` with `LineIsTyped`: two copies of the line, one in memory and one on the
  screen, are kept in step by echo and "\b \b". It is stated for lines that have not
  wrapped: `vga_putc` does not go back over a row, and after that the copies do differ. Behind
  the cursor nothing of the line is left: what stands there is blank, or stood there when the
  prompt came, as a program can go back by '\b' over what it has printed.
* `FilesAreTheHistory`: the files of the web terminal are what the commands have made of
  nothing; or there is one point in the history at which the state file was laid over them.
  So the synchronisation takes effect once and as a whole, removes no file, and loses nothing
  that is written after it.
* `ImageArrives`: from a whole image `parse_image` reads what was packed, a text letter for
  letter. From one of which only a beginning has been written it reads nothing, or every name
  with a beginning of its contents, the last letter of which may be broken and is U+FFFD then.
* `BlocksTileThePages`: blocks do not overlap and lie in pages the heap owns, and every byte
  of these is in a block, whatever is cut, merged and hung on, in any order of the pages.
* `SystemCallsPass`: `sys_call` tells the compiler that only `eax` changes. The number and the
  arguments get to the dispatcher, and everything but `eax` comes back.

## 5. Where code and documentation disagree

| Run | What TLC shows |
|---|---|
| `AnsweredCallerContinues` | The first `vfs_run` of any program calls the server on the caller's stack. The server answers and never returns, so the activation that waits never takes the answer, against `middle/ipc_adapter.cpp:73`. `demo_main` never gets to its step 4. |
| `GrowthSuffices` | `heap_grow` merges the new page into an allocated last block, and `kmalloc` returns 0 although it got the pages it needed, against `mm/heap.cpp:115`. |
| `SystemCallsHaveAGate` | `kernel_main` never calls `idt_init`, against `hw/idt.cpp:16`. |

`kernel_main` calls neither `gdt_init` nor `tfs_init` either. The other modules describe the
code behind these calls, and assume that int 0x80 reaches `syscall_dispatch` and that the
static variables start as zero (`linker.ld` leaves this to a loader that does not do it).
`Kernel` has the constant `TfsReady`: its runs take it as TRUE, its proofs allow both.

Seen while modelling, without a run of their own:

* A process that yields alone is called again by itself, against `kernel/sched.cpp:43` and
  `SPEC.md:146`. An answer is not matched with the request it answers, against the
  rendezvous of `middle/ipc_adapter.cpp:102`; `LateAnswer` says how far this can go.
* `hw/idt.cpp:79` speaks of a trap gate; 0xEE is an interrupt gate, which turns interrupts off.
  `isr_default_stub` is declared weak and defined nowhere, so its address is 0.
* The list of `heap.cpp` is not ordered by address (`mm/heap.cpp:41`), and
  `align4(size)` plus the header wraps around for sizes near 2^32.
* `vga_putc` prints the character 0 like any other, unlike `drv/drv.h` says.
* `parse_image` raises `struct.error`, not `ValueError`, on a truncated table, and
  shortens contents that are cut off without a word; a letter that is cut in two becomes U+FFFD.
* A program that prints letters and then '\b' leaves them behind the prompt, where the line
  that is typed goes over them one by one (`drv/vga.cpp:88`).
* `kfree` merges blocks that stand side by side in the list, and `FullyCoalesced` speaks of
  these. `SPEC.md:106` and `mm/heap.cpp:147` can be read as neighbours in memory, which may
  stand apart in the list and are then not merged.
* `runScript` of the web terminal is not the interpreter of the kernel: it strips no leading
  blanks and knows neither `putc` nor `exit`.

## 6. Theorems

The theorems hold for every value of the constants that satisfies the named assumptions.

| Module | Assumptions | Theorems |
|---|---|---|
| `KernelProofs` | at least 3 slots, a positive spin limit, at most 2^24 files | types, the seven state invariants, `BuriedForGood`, `NoReuseUnderRequest`, refinement of `Mailboxes` |
| `PmmProofs` | at least one reserved page, the bitmap covers them | the five state invariants, refinement of `PageAllocator` |
| `HeapProofs` | sizes of page, header and threshold are multiples of 4, a page holds a header and a rest worth cutting off, no request wraps around; those of `PmmProofs` | the five invariants of `Heap` |
| `TfsProofs` | names and bad names are disjoint; scripts are sequences of tokens, and the line buffer holds a character | types, `UsedIsPrefix`, `HandlesAreCounted`, refinement of `FileStore`; `RunsTheScript` for scripts of any length |
| `ShellProofs` | the sizes of both tables are natural numbers; texts and state files are sequences of characters | the three properties of `Shell`; types and `FilesAreTheHistory` of `Terminal` for histories and state files of any length |
| `ConsoleProofs` | at least one row and one column; numbers for the limits and codes; every glyph is a cell, no cell is a line feed or backspace, and keys give glyphs or control characters | the three invariants of `Console` |
| `LibraryProofs` | addresses below 2^32, chars from -128 to 127; lines without a NUL; contents are any bytes, texts sequences of letters, names have no NUL; memory is bytes up to a NUL, an int has at least two bits | `StringsAgree` for any memory and areas in it, any int of any width and any base, `TokensAreWords` for lines of any length, `ImageArrives` for any kernel and files, `SystemCallsPass` for any registers, arguments, results and addresses |
| `Induction` | none | induction over the numbers up to a bound, and what follows from it for loops and for functions defined by recursion; cited by the five modules above whose code has loops |

*Kernel.* The invariants are not inductive as they stand. `IInv` adds:

* `Boot`: kernel main is alone until its first yield, and the first fork finds an empty
  table with the hint at 1, which is why the server gets pid 2;
* `Shapes`, `FrameOK`: an activation runs the code of its slot; what it sends is well formed;
* `Suspended`: what is below the top is inside `sched_yield`, never in the `ipc_send` of
  the server, and alive unless it is buried;
* `Answering`: while the server answers nothing new has arrived, and there is room;
* `LateAnswer`: a process with both a request and an answer under way is at the first turn
  of its `ipc_recv`, so it takes the answer next;
* `DeadRequest`: the request of a process that has exited is taken by the server in its
  next step.

The refinement of `Mailboxes` needs one fact more, `LiveBelow`: an activation that can still
continue is the only one of its process. So what a process sends, and whether it receives, is
what its one activation says; a yield or a return changes who executes, and a new activation of
a process or one of the server is where calls are lost (`CallViews`, `ReturnViews`).

The argument: the server is always READY in slot 1. A yield from slot s goes to the next
ready slot above s, or around the ring to the server, which is the first of the ring. So
slots rise until the server is entered again (`RoundAscends`), a program whose activation
is not buried is not entered a second time, and an exit, which starts its yield from slot
0, goes to the server at once, before any fork can take the slot. Each action then has a
lemma of its own, and `BuriedForGood` follows from the fact that a step either changes the
top activation, pushes one, or pops one that is not the server's.

*Pmm.* `IInv` is the type invariant, the bound of the hint, the fences and the exact count.
That the ring of the scan meets every page once, whatever the hint, gives completeness.

*Tfs.* `IInv` adds that names are distinct, and that files exist only in an initialised
table and have admissible names. For `HandlesAreCounted`, a beginning of the table holds as
many slots as there are files (`UsedIs`), so the first free slot is the number of files, and
the file found under a name is below it.

*Script.* The meaning of a script is stated without a pass: a line starts at the beginning and
behind every line feed (`Starts`), ends at the next one (`LineEnd`), is what stands between
without the carriage returns and cut to the buffer (`LineAt`), and has an effect if it is
neither skipped nor at or behind the first `exit` (`EffectAt`). `ScriptInv` says that the pass is
inside the line that starts at some b, with every line before b executed, none of them an
exit, and its part up to the current character collected (`AtLine`); or that all is done and
`ran` is the whole meaning.

*Shell.* `IInv` has `TableInv`, what is needed of the file table: a name is held by one
slot at most, and files exist only once `tfs_init` has run, which therefore takes none away.
`FilesStay` says that used slots keep their names; each operation of `Tfs` gets a lemma
for both. On top of it no name has two entries of the session table, and what
the shell has created is registered unless the table is full. That the table is the
only one to hold handles is not needed: other programs may do anything through `Tfs`.

*Terminal.* `WebInv` adds to `FilesAreTheHistory` that the mode is `sync` only once the
synchronisation is over. So there is one state file, and the point of the history where it is laid
over the files does not move any more. What a history means is a fold; `MeantNext` says
that one more command has its effect on what the others meant. Laying a list of files
over others one by one comes to replacing each by the last entry of its name (`ListIsLaid`,
`OverlaidReplaces`), whatever names the list has twice.

*Heap.* `IInv` describes the list by which byte is in which block, and not by order, because
`pmm_alloc_page` gives pages in any order: no byte is in two blocks (`Disjoint`), the bytes in
blocks are those of the heap's pages (`Tiles`), blocks are whole words and not empty, no two
free neighbours touch (`Merged`), and allocated blocks and what callers hold correspond
(`Holds`, `Distinct`). In this form each operation has a short lemma: cutting a block divides
its bytes, hanging on a page adds the page's bytes, merging unites the bytes of two.
`BlocksTileThePages`, which speaks of addresses, follows since a block is an interval. The
invariant of `PmmProofs` is taken over for the allocator: its theorems are instantiated,
each step of the heap is a step of the allocator or leaves it alone, and a page that
is given out was in nobody's hands. The pass of `kfree` over the list is a loop; its invariant
(`Joined`) is that the blocks behind the current one are the old ones, those up to it are
merged, and both together hold the same bytes. That a request does not wrap around
(`HeapAssumption`) is needed for `RoomForTheRequest`, and fails in the code for sizes near 2^32.

*Console.* `IInv` compares screen and paper row by row: the row of the cursor is the last of
the paper, those above it are the ones before, those below are blank (`Shows`); while
a line is edited it stands on the paper behind the prompt, in as many rows as it has wrapped to,
and as long as it has not wrapped what is behind it is blank or is what the prompt found there
(`LineShown`, `LineIn`), so that "\b \b" uncovers nothing (`RubbedOut`); and the line is what the keys typed
make of an empty one, but for the key that the controller still holds (`KeysInv`).
`vga_putc` has a lemma for each of its branches: line feed, backspace, a letter in the middle
or at the end of a row, each with and without scrolling. `vga_puts`, the text on the paper and
the keys of a line are folds; the lemmas `PutsRuns`, `PrintRuns` and `EditRuns` give the run a
fold consists of, and its steps are then followed one by one.

*Library.* For `TokensAreWords` the position of the first blank or NUL at or after another one
is a minimum (`First`), so each of the shell's three scans is described by what it passes and
where it stops (`TokenFound`), and a cut leaves everything behind it as it was (`Uncut`). The
reference cuts the line into words; both agree on the two ends of each word (`BeginsAt`,
`TrimmedAt`). For `ImageArrives` the image is described by where its parts lie (`Layout`): the
cursor of the writer runs over the sums of the lengths (`CursorRuns`), what is written in a
loop is found at such sums (`FlattenRuns`, `PartsPlaced`), and a row of the table has its
three fields at fixed places (`RowParts`). The reader computes the same places
(`ImageIsRead`): a number that fits 32 bits comes back from its bytes (`PackedBack`), a name
ends at the first NUL (`NameRead`), and a slice beyond the end is a beginning (`Sliced`).
The decoder is followed byte by byte (`DecoderRuns`). What it has got stays (`LettersStay`): only the
letter it is in is open, and that is where the decoding of a beginning may differ
(`DecodedCut`). Each letter of a text leaves it with this letter and no part of another
(`LetterDecoded`), so a text comes back (`TextDecoded`). For `StringsAgree` the run of `memcpy` is followed byte by byte (`CopyRuns`): it
leaves what is not yet written as it was, so that the source, if it lies apart, is intact until it
is read. Comparisons are reduced to one fact, `OrderIs`: strings that agree up to a place are
ordered by what stands there, a byte or the end; `Stopped` shows that each loop stops at such
a place, and `StopFound` that the loop without a bound stops inside memory. For `itoa` the digits
of a number are a function defined by recursion on its quotients (`DigitsFound`); written
in their order they are worth the number and do not begin with 0 (`DigitsShow`), a number below
2^k has at most k of them (`DigitsFit`), and the sign of a decimal number has room, as its last
digit alone takes two of the bits. For `SystemCallsPass` a stack is any sequence; lemmas say what pushing a frame
adds and dropping it leaves (`DropPushed`, `CallFacts`, `CallReturns`, `PopFacts`),
`StubFacts` puts them together along the stub, `Descriptors` and `Halves` take numbers apart
and together.

*Induction.* The library's induction theorems take the predicate as a parameter, which the
provers cannot instantiate. Sets can take its place: a set of numbers that is not empty has a
least element, because the strict subsets of a finite set are well founded
(`FS_StrictSubsetOrderingWellFounded`). From this follow induction over a set (`NatInduct`,
`UpTo`), the run a fold describes (`Iterates`, `Turns`, `LastTurn`), and that a loop which
keeps a set of states reaches its end in it (`LoopExists`), and that a function whose value
at a number depends on its value at a lower one exists (`RecursionExists`). Without the last one
nothing is known of a recursive function, which TLA+ defines by CHOOSE.

The proofs changed five definitions. `Coalesce` of `Heap` was recursive and is a fold now, with
one turn of the loop as an operator of its own. The cases of `Edited` in `Console` overlapped,
so that TLA+ left open what a backspace does in a line that is full; they exclude
each other now. `Packable` of `Image` left out that `struct.pack` refuses numbers beyond 32 bits,
without which offsets do not come back. The meaning of a script was recursive and is
described by positions now. The powers of two in `Runtime` are a function of their own
(`PowerOf2`), as the provers know none; and the calls of `Library` got the fill bytes of
`memset` as a constant and areas anywhere in memory, of which TLC took some before.

Every invariant and every action property of the runs has a theorem. Only model-checked is
liveness, as fairness and `ENABLED` are out of the reach of the provers: `KmallocReturns` of
`Heap` and `ModeIsDecided` of `Terminal`. `Boot` has a counterexample only.

## 7. Not modelled

* `demo.cpp`: a fixed sequence of system calls, each with its test for an error. The programs
  of `Kernel` and the clients of `Tfs` make these calls in any order.
* `build.py`, the command lines of the scripts, the files of `--demo`: sequential code of the
  host that runs once and keeps no state.
* The clearing of pages, the 32 sectors the boot sector reads, `.bss`, which nobody clears.
* Timer of the HAL: state without a reader (`g_ticks`). The attribute byte of the screen.
* What is printed: messages and `sh_putdec` of the shell, `ls`, `print` and `putc` of the
  interpreter, `ls`, `cat` and `runScript` of the web terminal. They change nothing.
* Files named `hasOwnProperty` or `__proto__` in the web terminal: `files` is a plain object
  there, and the first name hides a method that later commands call.
* State files that are JSON but not lists of a name and a content: an entry that is null, for
  one, would make the loop of the browser throw after it has laid some files over the others.
  `bridge.py` writes none.
* Null pointers are the bad names and invalid handles of `Tfs`.

## 8. Plan

Done: process table, scheduler, IPC, FS server (first, as everything else depends on
them), page allocator, heap, file table, interpreter, session table, boot order,
screen, keyboard and line editor, web terminal, image, runtime, tokeniser, descriptor tables
and system call stub; the theorems of section 6.

Next: one specification composed of `Kernel` and `Tfs`. `HandlesAreCounted` shows that every
step on the table is one `Kernel` has for `files`; what is left is to let the programs of
`Kernel` write and read the files they run.
