# Asea OS in TLA+

TLA+ models of the kernel of Asea OS (a small operating system for 32-bit PCs,
written in C++ and some assembly), with the configurations that model-check
them and proofs about three of them.

Everything is translated from the source under `src/`; `PROJECT.json` ("map")
names the lines each definition stands for. Devices and the processor are not
in the repository: what the models say of them is what the code relies on, and
their definitions are marked external in the map.

## 1. The system

One processor runs `kernelMain`. It prints its banner, makes the segment
descriptors, the interrupt manager, the driver manager, the keyboard and the
mouse driver, scans the PCI bus, activates the drivers, enables interrupts and
loops for ever. Everything after that happens in interrupt handlers, which run
on top of `kernelMain` with interrupts disabled. There are no threads, locks or
files.

| part | state it keeps | operations | talks to |
| --- | --- | --- | --- |
| memory manager (`memmgr.cpp`) | a doubly linked list of chunk headers inside the heap, the first chunk, the active manager | constructor, `malloc`, `free`, destructor | its clients (kernelMain's use is commented out) |
| interrupt manager (`interrupts.cpp`) | IDT, table of handlers, the active manager, processor flag IF | construct, `Activate`, `Deactivate`, register and unregister a handler, dispatch | the 8259 controllers, drivers, main |
| interrupt stubs (`interruptstubs.s`) | one global byte `interruptnumber` | hand over the vector; `iret` for everything else | interrupt manager |
| kernel boot (`kernel.cpp`, `loader.s`) | objects on kernelMain's stack | the order in which they are made and activated | everything |
| text console (`_sysprintf`, `cursor.h`) | static `x`, `y`, video memory, CRT index register | print a string, move the cursor | main and handlers |
| keyboard driver (`keyboard.cpp`) | `Uppercase`, `NumLock`, `MediaKey` | `Activate`, `HandleInterrupt` with its busy waits | port 0x60/0x64, console |
| mouse driver (`mouse.cpp`) | packet buffer, offset, buttons | `Activate`, `HandleInterrupt` | port 0x60/0x64, pointer |
| mouse pointer (`MouseToConsole`) | `x`, `y` of type `int8_t`, colours in video memory | `OnMouseMove` | mouse driver, console |
| driver manager (`driver.cpp`) | array of drivers, count | `AddDriver`, `ActivateAll` | drivers, PCI scan |
| PCI bus (`pci.cpp`) | none of its own (configuration space) | scan, read BARs, select a driver | driver manager, console |
| segment descriptors (`gdt.cpp`) | four descriptors | encode, decode, `lgdt` | interrupt manager, whose gates name the code segment |
| VGA graphics (`vga.cpp`) | `mode_set`, the table it copies | `SetMode`, `PutPixel` | the adapter's ports and memory; only with `VGA_ENABLED` |
| port I/O, standard library, messages | none | single instructions; `itoa`, `strcmp`, `printfhex`, ... | everything |

What is hard in this code:

- **Interleaving.** An interrupt can arrive between any two memory accesses of
  main; console state, the active manager and the vector byte are shared
  without locks.
- **Shared output register.** Keyboard and mouse send through the same port
  0x60. The keyboard handler reads it without asking whose byte it gets, and
  spins inside the handler until a certain byte comes, throwing away the rest.
- **Latched interrupts.** A byte that a wait has read has still latched its
  interrupt: the handler is run for a byte that is gone, or reads one that
  belongs to the other device.
- **Ports with a state.** Registers that are locked by another register, a
  port that takes indices and data in turn, answers that come late.
- **Toggled flags.** Shift, caps lock, num lock and the 0xE0 prefix are toggled
  and never set: one lost or repeated byte inverts them for good.
- **Pointer surgery.** Splitting and merging chunks in `size_t` arithmetic that
  wraps.
- **End-of-interrupt without a line.** It ends whatever is most urgent.
- **Narrow integers.** `int8_t` pointer coordinates, `uint8_t` text positions.

Each hazard, at its line and with the properties that would catch it going
wrong, is in `PROJECT.json` ("hazards").

What makes each component correct:

- memory manager: the chunks tile the region; a block belongs to one client, and
  its room changes only when the block directly behind it is freed; `malloc` is
  first fit and ends.
- interrupts: the handler called is the one registered for the line accepted;
  each routed interrupt is ended exactly once, except in one window of
  `Deactivate`; no dangling handler.
- boot: whenever a device raises its line, its handler is there; the keyboard is
  served in the end, and so is the mouse unless the slave controller has been
  blocked by a line without a gate.
- console: it is a terminal (characters in order, wrap, wipe, cursor) as long
  as prints do not overlap; with overlap it stays in bounds and comes to an end.
- keyboard: flags agree with the keys, except after losses that section 2 names;
  unless a byte of the mouse was taken for the keyboard's, no command is written
  over and every wait ends; spurious interrupts do nothing.
- mouse: the driver is out of step with the packets by the bytes that were lost and
  no more; while none is lost, buttons are reported in pairs; no byte stays in
  the register for ever.
- pointer: stays on the page, follows the mouse, leaves no trail.
- activation of the drivers: if the mouse's driver reads the configuration and no
  other byte, the controller ends up with both devices and both interrupts on and
  everything else as it was, and no byte silences the devices; the mouse's
  acknowledgement is not lost.
- PCI scan: each function that exists is reported once; no address that was left
  uninitialised becomes the port of an ordinary device.
- segments and gates: the segments cover what was asked for; each interrupt gets
  through its gate and the code segment to the stub for its vector.
- VGA: after `SetMode` the registers hold the table, whatever they held before
  (those of the attribute controller, if the adapter takes port 0x3C1 for 0x3C0);
  pixels go to graphics memory.

## 2. Modules

| module | models | kind |
| --- | --- | --- |
| `Allocator` | what a heap promises | abstract specification |
| `MemMgr` | `memmgr.cpp` | component; implements `Allocator` |
| `MemMgrProofs` | | theorems about `MemMgr` |
| `Interrupts` | `interrupts.cpp`, `interruptstubs.s`, the two 8259 | component |
| `Kernel` | `kernelMain`'s order of statements | composes with `Interrupts` |
| `InterruptsProofs`, `KernelProofs` | | theorems about `Interrupts` and `Kernel` |
| `Terminal` | what a text terminal shows | abstract specification |
| `Console` | `_sysprintf`, `cursor_update` | component; implements `Terminal` |
| `ConsoleProofs` | | theorems about `Console` |
| `Keyboard` | `KeyboardDriver::HandleInterrupt` and its waits, the keyboard, the mouse's bytes in the same register | component |
| `KeyboardProofs` | | theorems about `Keyboard` |
| `Pointer` | `MouseToConsole` | component |
| `Mouse` | `MouseDriver::HandleInterrupt`, the mouse, the shared register, a late acknowledgement | composes with `Pointer` |
| `MouseProofs` | | theorems about `Pointer` and `Mouse` |
| `Drivers` | `DriverManager`, both `Activate` functions, the 8042 controller | component |
| `DriversProofs` | | theorems about `Drivers` |
| `Pci` | `PCInterconnectController::SelectDrivers` and what it calls, `printfhex` | component |
| `Gdt` | `gdt.cpp`, and the gates made by `interrupts.cpp` | component |
| `Vga` | `vga.cpp`, the VGA adapter | component |
| `Boot` | what `kernelMain` sets up before interrupts | composes `Gdt`, `Pci` and `Vga` |
| `BootProofs` | | theorems about `Gdt`, `Pci`, `Vga` and `Boot` |
| `MC...` | | instances for TLC |

Operators whose names begin with `Bad` are faulty variants of the definition
that follows them. Nothing uses them; replacing the definition by the variant
must make the property named in `PROJECT.json` ("mutants") fail.

### MemMgr

`chunks` is a function from the address of each header on the list to its four
fields; `first` is the head. `Construct` and `Destroy` are the constructor and
the destructor. `malloc` is the call (`MallocCall`), one step per iteration of
its search (`MallocSkip`) and its two ends (`MallocFail`, `MallocTake`). There
is nobody to run between the iterations; they are steps so that the end of
the loop is a liveness property. `free` is one step: `Merge` with the previous
chunk, then with the next chunk of whatever is left. `size_t` is modulo
`Word`. `blocks` and `end` are history variables: what clients hold.

`Allocator` says only that granted blocks lie in the region and stay at
least a header apart. The refinement maps `end` and `blocks` to themselves and
`Gap` to `HeaderSize`: nothing that `free` or `malloc` does to the list may
change or endanger what a client holds. `Allocator` says nothing of a chunk
that is larger than its block; `RoomOfBlocks` does, exactly: `malloc` leaves at
most a header unused, and a chunk in use grows when the chunk behind it is
freed, and at no other time.

### Interrupts and Kernel

`irr`, `isr` and `interruptFlag` are the controllers and IF; `frames` is the stack of
interrupts being run, each with its place in the code: `Stub` (writes
`interruptnumber`), `Bottom` (`handleInterrupt` tests the active manager),
`HandlerReturns`, `EoiMaster`, `EoiSlave`, `Iret`. Lines without a gate get
`IgnoreInterruptRequest`, a bare `iret`, and so stay in service. `Activate` and
`Deactivate` are split at every statement. The condition of `Deactivate`
assigns (`if(ActiveInterruptManager = this)`), and the model does too. `lost`
collects the routed lines whose interrupt returned without end-of-interrupt.

`Kernel` adds a program counter over the statements of `kernelMain` that touch
interrupts. `rested` allows each line to be raised once between two turns of
`while(1)`: without it a timer that interrupts again before every `iret` would
keep the processor from everything less urgent, which no PC does.

### Console

The build has no optimisation flag, so every mention of `x`, `y` and a cell is
a load or a store of memory; each is a step of main. A handler's print
(`Interrupt`) is one step, since handlers run with interrupts disabled.
`Interruptible` says where interrupts may come. `shown` is the page, the position
and the cursor as they were after the last complete character; `Terminal` is
implemented by it.

### Keyboard

Scan codes are abstracted to the classes that the switch treats alike (a
letter, a letter that is a media key behind 0xE0, a digit of the number pad,
`/`, shift, lock, ...). `HandleInterrupt` is a step up to its first wait; each
turn of a wait (`key_toggle`, `kbd_ack`) is a step that reads one byte, while
the user moves keys and the keyboard repeats, obeys commands and sends. The
bytes on their way are one queue whose head is in the controller's register.
Reading the empty register returns the last byte again. A byte that enters the
empty register latches its device's interrupt even if a wait reads it.

The mouse sends through the same register. `buffer` keeps with each byte whose
it is, which the keyboard's driver never asks: it takes any byte for a scan
code or an answer. The mouse's handler (`MouseHandles`) comes second and only
when no other handler runs. `mistaken` says that the driver has acted on
a byte of the mouse. `toggled` is the set of lock keys that were pressed an odd
number of times, as long as the driver was shown everything: it becomes
`Unseen` when a wait swallows a byte, a command clears the keyboard's own
buffer, a key moves while scanning is disabled, a key with prefix is repeated,
or a byte of the mouse is taken for the keyboard's. `Init` is what `Activate`
leaves: the answer to its last command may not have been read.

### Mouse and Pointer

`Pointer` is the arithmetic of `OnMouseMove`: the sum is converted to `int8_t`,
then compared with the edges. `inverted` is the set of cells whose colours are
exchanged; text overprints them. `Mouse` extends it: `queue` is the shared
register with the bytes behind it, each with its origin; `latched` the devices
whose interrupt is pending. `KeyboardHandles(n)` is the keyboard's handler as
the mouse driver sees it: it takes the next n bytes, whosever they are.
`Activate` reads for the mouse's acknowledgement without waiting for it; in one
of the two initial states of `Mouse` it comes later and becomes the first byte
of a packet, so that the driver is out of step until another byte is lost.

### Drivers

`i` and `line` are the driver and the statement of its `Activate` that
`ActivateAll` has come to; each port access is a step, named for what it is for
(`Drain`, `Enable`, `Ask`, `Get`, `Announce`, `Set`, `Command`, `AckRead`).
`Activate` never waits for the controller, which the model takes to obey at
once; the devices behind it are slow, so `Obey` and `Arrive` happen at any time.
What a controller does with its answer while the register is full differs:
`overwrites` chooses once for each behaviour. `got` records what each driver
took for the configuration. A byte is the set of its bits, so that `| 2` and
`& ~0x10` are what they are in the code.

### Pci

One step per turn of the innermost loop of `SelectDrivers`; the configuration
space is `slots`, a kind of device in each. A `BaseAddressRegister` that the
code returns without having assigned a field has any value in it. `GetDriver`'s
switches have only empty cases, so it returns no driver. `report` is what is
printed, as the hexadecimal digits of `printfhex`, and the properties read the
numbers back from the digits: a line that a reader would take for another device
is an error.

### Gdt

`GlobalDescriptorTable` makes four descriptors, each a sequence of eight bytes,
and loads the table's limit; `SetInterruptDescriptorTable` is the first half of
the constructor of `InterruptManager`, a gate for every vector (the other half,
the controllers, is in `Interrupts`). The constructor of a descriptor stores the
low byte of the limit twice and compares its bits 16 to 19 instead of storing
them; `Base` and `Limit` read a descriptor as the processor does.
`GatesReachStubs` follows an interrupt from its gate through the table to an
address.

### Vga

`WriteRegisters` is a step per register. `adapter` are the adapter's registers,
with the lock on half of the CRT registers, and `awaits` is the turn of the
attribute controller's port. `registers` is the driver's table, which
`WriteRegisters` changes as it unlocks. The driver sends indices of the
attribute controller to 0x3C1: `aliased` says whether the adapter takes that
for 0x3C0, and only then can the attribute registers be loaded. `pixel` is the
last byte that `PutPixel` wrote. `kernelMain` sets one mode and then draws;
here modes and pixels come in any order.

### Boot

The stages of `kernelMain` before it activates the drivers: `Gdt`, then the scan
of `Pci`, then `Vga`. `Scanned` forgets what the scan has found, and only then
chooses what the BIOS has left in the VGA adapter, so that the states of the
three parts add up and do not multiply.

## 3. Runs

| run | module, cfg | shows |
| --- | --- | --- |
| `heap` | `MCMemMgr` | types, tiling, ownership and room of blocks, first fit, `malloc` returns, implements `Allocator` |
| `interrupts` | `MCInterrupts` | right handler, service bits accounted for, IF agrees with the active manager, no dangling handler, EOI ends own service, losses only inside `Deactivate`, registrations kept |
| `kernel` | `MCKernel` | boot order; keyboard and mouse are served |
| `console` | `MCConsole` | implements `Terminal`; text is never overprinted |
| `console_preempted` | `MCConsole`, `MCConsolePreempted.cfg` | in bounds and ending although handlers print in the middle |
| `keyboard` | `MCKeyboard` | flags follow the keys, no command is overwritten and every wait ends unless a byte of the mouse was mistaken, left-over interrupts are harmless |
| `keyboard_arrows` | `MCKeyboardArrows.cfg` | **violated**: a held arrow key prints digits |
| `drivers` | `MCDrivers` | both devices armed, acknowledgement not lost, no stuck byte |
| `drivers_state` | `MCDriversState.cfg` | **violated**: another byte is taken for the configuration |
| `boot` | `MCBoot` | segments cover what was asked for, gates reach their stubs, each PCI function printed once and no uninitialised address made a port base, VGA table loaded as far as the adapter lets it, pixels in graphics memory |
| `pointer` | `MCPointer` | on the page, no trails |
| `mouse` | `MCMouse` | in step, buttons known and told, no stuck byte |

Bounds, and why they are enough:

- `heap`: header 2, word 32, regions of 1, 2, 3 and 14 bytes, requests 0, 1, 3,
  29, 31. The largest region holds four chunks, so that a freed chunk meets
  every combination of free and allocated neighbours, and a third chunk beyond
  them whose links must be repaired; the largest requests make `size + header + 1` wrap.
- `interrupts`: two managers, two handlers (symmetric), lines 0, 12 and 14:
  one at the master, one at the slave, and an unrouted one that is less urgent
  than the mouse at the same controller. `frames` is not bounded: IF keeps
  nesting at one, and trap gates (a variant) break `RightHandler`.
- `kernel`: the three routed lines, and one stray line on each controller.
- `console`: a page of 2 by 3 cells whose positions take two digits of base 6;
  every kind of character alone and combined. It wraps, wipes and carries into
  the cursor's high byte. `console_preempted` uses a page of 2 by 2 and at most
  `MaxKeys` = 2 prints within one message: one moves the variables before the
  test, one after it. Unlimited typing would keep a wipe busy for ever.
- `keyboard`: a shift key, both lock keys and an arrow key, and `MaxBytes` = 3
  bytes of key codes queued (a code with prefix and another byte). The other
  keys change no flag, and the right shift key is handled as the left one
  is. Of the mouse's bytes, one looks like an acknowledgement and one like caps
  lock; at most one is on its way at a time, any number of them one after the
  other, and none after one that was mistaken (two of the properties say nothing
  then). `keyboard_arrows` needs no mouse.
- `pointer`: `int8_t` of three bits and a page of 2 by 3: every offset from
  every cell, with sums that wrap in both directions.
- `mouse`: bytes of three bits, a page of 2 by 2, three first bytes, three
  changes (zero, positive, negative), four bytes on their way: a packet and the
  beginning of the next one, or a key's byte before it.
- `drivers`: four configurations (interfaces on or off, interrupts or none), two
  scan codes, `MaxKeys` = 2 and `MaxMoves` = 1 bytes during and after the
  boot: a byte in the register and one behind it, besides the answers.
- `boot`: five vectors, the three that have stubs and two that have not (0x28
  is the slave controller's base), stubs on both sides of a 64 KiB boundary and
  at the end of the code segment; `BootProofs` has the rest. Two buses of two
  devices with two functions, so that both loops carry; six BARs as in the code;
  ordinary devices, one that answers for every function number, one with two
  functions, a bridge, an empty slot. VGA: a mode that is supported and one
  that is not, adapters that are locked or not, with text memory or none, in
  either turn of the port; corners of the screen and a column beyond it.

Fairness:

- `MemMgr`: weak fairness of `malloc`'s loop; nothing else has to happen.
- `Kernel`: weak fairness of the processor. Devices need not do anything.
- `Console`: weak fairness of main: interrupt handlers return.
- `Keyboard`: weak fairness of the driver and of the keyboard's answers to
  commands, and strong fairness of each lock key's release: whoever presses it
  lets go of it, even if the bytes on their way hold that back for a time. Only
  `WaitsEnd` needs this: a lock key's wait ends with its release.
- `Drivers`: weak fairness of the handlers, once interrupts are enabled.

Deadlock is checked in every run.

### Findings

- `keyboard_arrows`: 0xE0 toggles `MediaKey`, and nothing clears it after the
  code it precedes. With num lock on, a held arrow key prints a digit every second
  time it repeats.
- `drivers_state`: the keyboard's acknowledgement of 0xF4, which its driver does
  not read, can be what the mouse's driver reads where it asks for the
  controller's configuration. Written back, it switches both devices off.
  `Armed` shows that all is well if that does not happen.

More observations, which need no run of their own:

- `free` tests `chunk->prev->allocated` (`memmgr.cpp:84`), where one would expect
  `!chunk->prev->allocated`. After malloc A, malloc B, free B, the chunk of A,
  still in use, swallows B's: the bytes are nobody's until A is freed. A free
  predecessor, on the other hand, is not merged: two free chunks stay side by
  side, and a request that only both together could hold fails, until the lower
  one is allocated and freed again. No text of the repository says what `free`
  is to do. `RoomOfBlocks` states what it does; with the test negated, TLC finds
  it violated.
- The condition of `Deactivate` is an assignment, so that deactivating any
  manager deactivates the active one.
- `LostOnlyInDeactivate` describes the one window in which a timer, keyboard or
  mouse interrupt is never ended.
- The release of a shift key can fall into the window in which the keyboard's
  handler has disabled scanning; `Uppercase` then stays inverted. That is one of
  the losses that `FlagsFollowKeys` excludes (`Unseen`).
- A byte of the mouse with the value 0xFA ends a wait of the keyboard's handler
  before the keyboard has taken the command, and the next one is written over
  it. One with the value of a lock key's press, read upon a left-over IRQ 1,
  makes the handler wait, with interrupts disabled, until somebody presses and
  lets go of that key. `CommandsTaken` and `WaitsEnd` hold exactly up to such a
  byte (`mistaken`); without the exception TLC finds both.
- An acknowledgement of the mouse that comes after `Activate` has read for it
  puts the mouse driver out of step from its first packet on (`InStep`).
- The limits of the segments are neither what was asked for nor what the source
  suggests: 256 MiB and 224 MiB instead of 64 MiB and 126 MiB (`64*2014*1024`
  has a 2014 where a 1024 may be meant). They are larger, so nothing is cut off.
  `LimitRoundTrip` says which limits would survive.
- The limit that `lgdt` loads is the size of the table, one more than its last
  byte; nothing selects the descriptor that would begin there.
- `SetMode` of the VGA driver loads the table of 320x200x256 for both modes that
  it reports.
- The attribute controller's indices are sent to 0x3C1. On an adapter that does
  not take that port for 0x3C0, `SetMode` loads none of its registers.

## 4. Proofs

Every invariant and every action property that a run checks is proved as well,
and so are both refinements: for every value of the constants that satisfies the
assumption of the module. The assumptions say what the constants are (an IRQ is
one of sixteen lines, a PCI address has 8, 5 and 3 bits, positions and
coordinates fit their bytes); TLC evaluates them in the runs. Only the theorems
of the console have hypotheses besides.

The invariants that the runs check are seldom inductive. For each component its
proof module defines one that is, shows in one lemma per action that the action
preserves it, and derives the theorems from that.

### The heap (`MemMgrProofs`)

For every region, request, header size and word width (the region lies within the
address space and does not start at address zero): `TypeCorrect`,
`ChunksTileRegion`, `BlocksKeepRoom` and `MallocIsFirstFit` are what the run
`heap` checks, and `AllocatedChunksAreLive` is a part of it;
`BlocksStayDisjoint`, that no two clients' blocks overlap;
`HeapImplementsAllocator`, that every step is a step of `Allocator` or a stutter.
`IInv` is the conjunction of

- `TypeOK`, which places `chunk` on the list;
- `TilesRegion` (headers below the end, each chunk reaching exactly to its
  successor, the last to the end of the region, the two directions of the links
  agreeing): without it a merge could swallow a live chunk;
- `AllocatedIffLive`: ties the marks to what clients hold, and gives disjointness;
- `Scanned`: all chunks below the loop variable were found unfit; `FirstFit`
  is proved from it;
- `Quiet`: the fields that are meaningless outside of `malloc` are reset.

`free` is split into its two merges. `FreedReaches` follows them with the address
after each chunk, from which `BlocksKeepRoom` is proved.

### Interrupts and boot order (`InterruptsProofs`, `KernelProofs`)

For any set of lines, managers and handlers. `IInv` is `Types` and

- `Frames`: at most one interrupt runs, with IF clear; where it is in the
  dispatcher says what it has (the number its stub wrote, the handler for it)
  and that its service is the most urgent of its controllers until it is ended.
  Without "at most one", `interruptnumber` could be another interrupt's when
  `handleInterrupt` reads it; without "most urgent", the end-of-interrupt could
  end another service;
- `Accounted`: a routed line in service is being served or was lost, and the
  cascade is in service only with a line of the slave;
- `MainFlag`: at each statement of `Activate` and `Deactivate`, how IF *as main
  finds it* goes with the active manager. A handler that runs clears IF, so the
  flag itself agrees with nothing;
- `NoDanglingHandler`.

`DispatchFindsRightHandler`, `ServiceIsAccounted`, `FlagFollowsManager`,
`TableHasNoDanglingHandler` and `InterruptsTypeOK` follow from it, and so do the
action properties `CommandsEndOwnService`, `LostNowhereElse` and
`RegistrationsLast`.

`KernelRunsInterrupts` proves that runs of `Kernel` are runs of `Interrupts`:
all of this holds of `kernelMain`'s order of calls. `KernelHandlesDevices` proves
`DevicesHandled` with `Booted`: before `Activate` nothing interrupts, from then
on both handlers are in the table, and `Deactivate` is never entered.

### Console (`ConsoleProofs`)

For a page of any size that positions of a byte can address.

- `ConsoleStaysOnPage`, wherever interrupts come and however often their handlers
  print: `Bounds` says, place by place of `_sysprintf`, which of `x` and `y` may
  have passed the edge and what a loaded value may be. It is made of what a
  handler's whole print leaves true. The hypothesis `NoBackspaces` is that no
  message of main contains one (none does; keys print through handlers):
  a backspace that is interrupted between its test and its decrement does leave
  the page.
- `ConsoleInvariant`, `ConsoleIsTerminal`, `ConsoleBlankAhead`, if interrupts come
  only between messages (`Undisturbed`): `TInv` says what main has made of `x`,
  `y`, memory and the cursor's registers at each place, in terms of `shown`, and
  which cells the wiping loops have come to. `ConsoleIsTerminal` is the
  refinement: every step is a stutter of `Terminal` or, at the last store of a
  character or a cursor, its step. With overlapping prints it is false; that is
  the hazard, and `ConsoleStaysOnPage` is what remains.

### Keyboard (`KeyboardProofs`)

For any keys, any bytes of the mouse and any number on their way. `KInv` is

- `Types`;
- `Turn`: as long as no byte of the mouse was mistaken, each wait has its shape:
  which command is on its way, whether the keyboard scans, and how many answers
  are in the queue and where. `KeyboardCommandsTaken` is the case before a
  command is written;
- `LeftOver`: an interrupt whose byte is gone finds an answer in the register,
  which `KeyboardSpuriousHarmless` needs.

`KeyboardFlagsFollowKeys` needs more, since the flags agree with the keys only
when nothing is on its way. `Foreseen` says what they *will* be: a flag, plus the
parity of the bytes in the queue that will toggle it, plus the toggle that the
current wait ends in, is the parity of the keys that are down. Repetitions of a
shift or lock key would toggle too; what saves the driver is that it waits for
the release and swallows them. `Doomed` says that there are such bytes behind the
first press: the wait will swallow one, and from then on the property
excludes the behaviour (`Unseen`). `Foreseen` is claimed of the states that are
neither `Unseen` nor `Doomed`, together with `LocksSeen` (a lock key that is down
has its press on its way or is waited for) and `ShiftRepeats` (a shift key repeats
only while its press still keeps the driver busy), which say that a repetition
leads to a doomed state.

### Mouse and pointer (`MouseProofs`)

For every page that coordinates of their width can address, any first bytes and
changes, any number of bytes on their way.

- `PointerStaysOnPage`, `OnlyTextMakesGhosts`, and `PointerFollowsMouse`: the
  pointer moves by what the mouse says whenever the sum fits.
- `MouseInStep`, `MouseKnowsButtons`, `MouseNoStuckByte`. `MInv` counts: the parts
  of the packets in the queue go round, beginning with the one that `offset` and
  the number of lost bytes modulo three call for (`GoesRound(queue, Phase)`).
  `FlagsKnown` says where the buttons are: in the last first byte in the queue, else
  in the packet buffer, else with the driver; `pressed` has the bits of
  `buttons`.
- `MouseMovesPointer`: whatever the driver makes of the bytes is a run of
  `Pointer`, so that it stays on the page even out of step.

### Activation of the drivers (`DriversProofs`)

For every configuration the BIOS may leave and any number of keys and movements:
`DriversTypeOK`, `BothArmed`, `AcknowledgementFirst`. `DInv` follows the
configuration from statement to statement (`ConfigInTurn`): which of its bits the
controller has, and which the driver's copy, when what it read was the current
configuration. `AnswerWaits` (an answer waits only between the question and its
read), `Announced`, `MouseOrdered` (the mouse is silent until it has taken 0xF4)
and `AckComesFirst` say whose byte the reads find.

### Before interrupts (`BootProofs`)

- `Gdt`: `BaseRoundTrip`, for every base of 32 bits; `LimitRoundTrip`, for every
  limit below 64 KiB: it survives only if its two bytes are equal.
  `SegmentsCoverAlways` and `GatesReachStubsAlways` for every set of vectors and
  wherever the stubs lie in the code segment. The invariant is that descriptors
  and gates are absent or as their constructors make them. Numbers are taken
  apart by repeated division by 256 (`FourBytes`), so that every step is linear.
- `Pci`: `EveryDeviceReported`, `PortBaseIsLastIoBar`, for every number of buses,
  devices, functions and BARs within the widths of an address, and every content
  of the configuration space. `PInv`: the lines printed are true, in the order
  of the loops, and none has been left out of what the scan has passed
  (`Lines`); `portBase` is what the BARs read so far lead to (`Ports`).
- `Vga`: `RegistersLoaded` (the attribute controller's registers only on adapters
  that take port 0x3C1 for 0x3C0), `PixelsInFrameBuffer`. `VgaProgress`: the groups
  written so far hold the table, and the CRT registers are unlocked while they
  are written.
- `BInv` puts them together, and `BootMakesInterrupts` proves that a run of
  `Boot` is one of `Gdt`, so that scanning and drawing leave the segments alone.

### Only model-checked

Liveness: `MallocReturns`, `RequestsServed`, `MessageEnds`, `WaitsEnd` and
`NobodyStuck`. The prover does not handle them, since they need fairness and
ENABLED. The two violated properties are shown by counterexamples. Nothing is
proved by induction over data, and no proof needs it.

## 5. Not modelled

- Exceptions, and `HandleException` of the stubs, which nothing instantiates;
  spurious interrupts of the 8259.
- `loader.s`, the build, type and colour lists: no behaviour of their own.
- Colours of text, `cursor_enable` and `cursor_disable`: they run once, before
  anything else does.
- `printf` and `putchar`, which pass their argument on; system messages.
- What is called nowhere: `itoa`, `strcmp`, `basic.h`, `_reboot`, `_sleep`,
  `_kernelPanic`, `PCInterconnectController::Write`, the VGA driver's table for
  640x480. `GetColorIndex` only chooses the byte that is written.
- `free(0)`: the code has no guard, writes below address zero, and nothing
  calls it.

## 6. Plan

Done: every component of section 2, in the order heap, interrupts, boot order,
console, keyboard, pointer, mouse, activation, PCI, segments, VGA (the heap has
the deepest invariant, and everything else depends on interrupts); and theorems
for every invariant, action property and refinement that a run checks.

Worth proving next, without a run that checks it:

- that the lock in front of the CRT registers makes the step `unlock` necessary:
  no register is loaded while it is closed;
- that `Unseen` is entered only by the losses that section 2 lists, as an action
  property of `Keyboard`.
