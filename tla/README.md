# EverythingNet in TLA+

EverythingNet is a C program that runs on every device of a home network, from
a DOS machine to a Nintendo Switch.  Every device broadcasts the list of the
nodes it knows, merges the lists it hears, and so comes to know all others:
a "Decentralized mesh of all devices on your network" (`src/README.md:7`).
Discovery is what the program does today; hosting applications is announced in
its capabilities, and not written yet.  The repository also carries the tools
that configure and build it for all these machines: Kconfig and Kbuild, as
BusyBox changed them.

This directory holds TLA+ modules that model the program, TLC configurations
that check them on small instances, and proofs, checked by TLAPS, of their most
important properties for every value of the constants.  `PROJECT.json` maps every
definition to the lines it models, and lists the runs, the mutants (a plausible
bug for each property, which the run must find), the hazards and the findings.

    tlc -config mesh_gateway.cfg MCMeshHistory   # one run
    tlapm NodeMeshProofs.tla                     # one module's proofs

## 1. The system

| Component | State | Operations | Correct when |
|---|---|---|---|
| Discovery protocol: `app/net.c`, `app/node.c`, sockets in `plat/common/posix_net.c` | `NODE_NodeList`, `counter`, `NODE_DiscoverySourceNode`, the kernel's receive buffer | `NET_HandleBcast`, `PLAT_NetCheckBcastData`, `NODE_CheckForNewNodes`, `NODE_MaybeAddEntry`, `PLAT_NetDoBroadcast` | no duplicates, only real nodes, true credits, everybody ends up known |
| Node list in memory and on the wire: `app/node.c`, `include/evrnet/node.h`, `nodeType.h`, `endian.h` | the bytes of the list, the packet buffer, `entryPtrs` | `NODE_Init`, `NODE_ListToBE`, `NODE_ListToNative`, `ENTRY_NEXT`, `ENTRY_PREV`, `NODE_CheckLen` | native at rest, wire order when sent, no pointer astray |
| Main loop and timers: `app/main.c`, `plat/*/timer*.c` | `usecToSleep`, `startTime`, `counter` | `PLAT_StartTimer`, `PLAT_EndTimer`, `PLAT_USleep` | one iteration is 500ms; an announcement every 15 calls |
| POSIX networking: `plat/common/posix_net.c` | sockets, `bcastAddr`, `knownIfaces` | `POSIX_NetInit`, `POSIX_NetShutdown`, multicast | exactly the usable interfaces are used |
| Startup and exit: `plat/*/init.c`, `plat/*/info.c`, `plat/linux/gfx_init*.c`, `app/exit.c`, `app/state.c` | `PLAT_Info`, `NODE_LocalUUID`, callbacks, the X connection; what failed unnoticed | `PLAT_Init`, `LINUX_GfxInit`, `APP_CleanupAndExit` | comes up or ends cleanly, unless it falls over a failure nobody looks at; claims what it can do |
| Linux device name: `plat/linux/info_device.c` | `dmiPathIdx`, `scratchBuf` | `LINUX_GatherDeviceInfo` | the first useful model name |
| CPU names and system versions: `plat/{linux,dos,osx}/info_cpu.c`, `plat/osx/info.c`, `plat/common/arm-cpu-list.c` | `buf`, `ptr`, the handler of SIGILL | `cpuinfoFindLine`, `LINUX_GatherCPUInfo`, `DOS_GatherCPUInfo`, `OSX_GatherInfo` | the scan ends; the name is what the host says, but for stated exceptions |
| Kconfig language and symbols: `scripts/kconfig/expr.c`, `menu.c`, `symbol.c`, `zconf.y` | the tree of menus, properties, `struct symbol`, `modules_val` | the parser's actions, `menu_finalize`, `sym_calc_value`, `sym_set_tristate_value`, `sym_set_string_value` | no stale value; dependencies and choices hold |
| Configurators conf and menuconfig: `scripts/kconfig/conf.c`, `mconf.c`, `confdata.c` | `input_mode`, `rootEntry`, `conf_cnt`, `.config`, `include/autoconf.h` | `conf`, `check_conf`, `conf_read`, `conf_write`, `build_conf` | ends; what is written is settled |
| Incremental build: `Makefile`, `scripts/Makefile.build`, `scripts/Kbuild.include`, `scripts/basic/*` | which file is newer, `include/config/`, the `.cmd` files | `silentoldconfig`, `split-include`, `fixdep`, `if_changed_rule` | as if all were compiled anew |
| Other configurators and scripts: `gconf.c`, `qconf.cc`, `lxdialog/`, `docproc.c` | | user interface, reports | |
| Capabilities as text: `app/cap.c` | none | `CAP_Cap2Str` | |
| Windows, GameCube, Wii, Wii U, PlayStation 3 | | stubs; do not link: no `PLAT_NetDoBroadcast` | |
| DOS and NT 4.0 networking | | stubs that send and receive nothing | |
| Bundled libc and printf | | `strlen`, `printf` ... for platforms without | |

How they interact.  `main` calls `PLAT_Init` of the platform, which fills in
`PLAT_Info` and `NODE_LocalUUID` and opens the sockets; `NODE_Init` makes the first
list entry of them; then `main` calls `NET_HandleBcast` every 500ms for ever.  That
function reads datagrams, calls `NODE_CheckForNewNodes` on each, and every 15th
call converts the list to big endian, copies it to the packet buffer, converts
it back and broadcasts it.  A device is one thread: within it nothing interleaves
but the clock and the kernel's receive buffer.  Everything hard comes from many
devices, an unreliable network between them, and shared mutable state that is
temporarily in another form.

Before that, on the machine it is built on, `make` starts `conf` where `.config` is
newer than the header made of it; `conf` parses the Kconfig files, reads `.config`,
asks for what is new, and writes both; `split-include` and `fixdep` then decide
what is compiled again.  These programs share files only, and any may be
interrupted.

What is hard, and where (each is a row of `hazards` in `PROJECT.json`):

- *Interleaving.* The same node is heard of along several paths, from lists that
  changed in between (`node.c:254`).
- *Stale state.* The source pointer is set by one entry of a message and used for
  the next (`node.c:326`); the only list is in wire order for a while
  (`net.c:73`); `realloc` moves it in the middle of a merge (`node.c:300`: read, not modelled,
  as a pointer is a position in `ListWire`).
- *Unreliable delivery, crashes.* UDP loses, repeats and reorders; a device that
  restarts knows nothing, and others list its last launch.
- *Liveness.* Nobody asks for a list again: a node behind a gateway is only known
  because everybody repeats everything (`net.c:85`).
- *Limits.* Interfaces (`CONFIG_NET_MAX_INT`), packet size, 512 pointers, the
  receive buffer, and integers that wrap (`net.c:91`, `main.c:68`).
- *Partial failure.* One interface of several, one call of several at startup.
- *Long sequences.* A symbol is set, hidden, saved, loaded, found new again; what
  was computed from it is cached meanwhile (`symbol.c:371`), and a choice has values
  and flags of its own that have to agree with those of its members
  (`confdata.c:240`).
- *Interrupted work.* `conf_write` renames three files one by one; `make` is stopped
  in the middle of `split-include` or of a compilation (`Makefile.build:185`).

## 2. The plan

Written, in this order:

1. `NodeMesh`, the protocol; `MeshHistory` on top of it shows that it implements
   `Directory`, the abstract specification of discovery.  `MCNodeMesh`,
   `MCMeshHistory`: instances.  `NodeMeshProofs`: proofs, of both.
2. `NetInit` (`MCNetInit`, `NetInitProofs`): which interfaces a device serves.
3. `MainLoop` (`MainLoopProofs`): when a device announces.
4. `ListWire` (`MCListWire`, `ListWireProofs`), implements `GossipList`, the
   abstract specification of one device's list.
5. `Startup` (`StartupProofs`): how a device comes up and goes down.
6. `DeviceInfo`: the search for a device's name.
7. `EntryLayout` (`EntryLayoutProofs`): where the fields of an entry are.
8. `LinuxCpu`, `DosCpu`, `OsxInfo`: what a host says of its CPU and system, each a
   component of its own; `HostInfo` (`MCHostInfo`, `HostInfoProofs`) runs them and
   `DeviceInfo`.
9. `Kexpr`, `Kmenu`, `Ksym`: the Kconfig language, from expressions to the values of
   symbols; no state of their own but the table of symbols they hand on.
10. `Kconf`, `Mconf`: the two configurators on top of them, sharing `.config`.
11. `Kmake` (`KmakeProofs`): make, beside any program that writes the files of a
    configuration (`Kfiles`); `Kbuild` (`MCKconf`) composes it with both, and implements it.

`NodeMesh` takes from 2 the list of interfaces (`Ifaces`), from 3 that a call
announces if its counter says so (`Due`), and from 4 that an entry is copied
whole: the same three questions it leaves open are answered there.  `ListWire` in turn
takes an entry's fields as given; `EntryLayout` shows that they are found in every
copy.

What would be next: two `ListWire` devices of different
byte order that exchange lists (today `ImplementsGossipList` says of each that it
sends wire order and reads it).

## 3. The modules

### NodeMesh: discovery

One process per device; `pc` says where it is in `NET_HandleBcast`.

| Action | Code |
|---|---|
| `Boot`, `Crash` | `PLAT_Init` binds the socket, `NODE_Init` makes the list; the process may die at any step, and keeps nothing |
| `NoData`, `Again`, `RecvError` | `poll` reports nothing, `recvfrom` says `EAGAIN`, one of them fails |
| `Refuse`, `RefuseEmpty` | a datagram with a wrong magic or length; an empty one |
| `Loopback` | the own announcement comes back: the receive loop ends at once |
| `Accept`, `Merge` | a message; one turn of the loop of `NODE_CheckForNewNodes`, with `NODE_MaybeAddEntry` |
| `SendIface`, `SendFails`, `FinishTick` | one `sendto` of `PLAT_NetDoBroadcast`; a failing one ends the function; `counter++` |
| `InjectJunk`, `Reorder`, `Duplicate` | the network |

A step is one system call or one entry merged, so anything may happen in
between.  A broadcast goes to every device of the network, the sender included,
or with `"loss"` to any subset; a full receive buffer (`QueueCap`) loses what
arrives.  `reads` counts the `recvfrom` calls of one `PLAT_NetCheckBcastData`: it
loops over the interfaces, though there is one socket.  An entry is its UUID and
the launch of the device its data comes from: `NODE_MaybeAddEntry` copies the
rest with it.  `credit` remembers the message printed when an entry was added
("discovery source: Broadcast", or the node that told us).

`Directory` says the same without messages: a set of running devices, each with
a set of entries, that grows one entry at a time by something a neighbour has
ever listed.  The message that carried it may be old, hence the history variable
`told` of `MeshHistory`: the actions of `NodeMesh`, unchanged, beside it.

### ListWire: the list, in memory and on the wire

One device; one step per turn of each loop over a list.  Every integer of the
list has a byte order, `"wire"` or `"little"`, and `host` is the device's own: on a
big-endian host the conversions are empty, as in `endian.h`.  The subtle point
is that the size of an entry, which leads to the next one, is itself converted:
`NODE_ListToBE` collects all pointers in a table first (`Collect`, then `EntryToBE`),
`NODE_ListToNative` converts an entry before it steps on (`Restore`, `ToNative`).
A step made from a size in the wrong order gives the pointer `Wild`.  `Search`,
`FindLast` and `AddEntry` are the three parts of `NODE_MaybeAddEntry`; `realloc` and
the copy behind the last entry are `Extended`.  A pointer is a position in the list,
so the model can not tell whether `realloc` moved it: that the code recomputes the one
pointer it keeps (`lastEntryOffset`, `node.c:291-304`) is read, not checked.  More entries than the table or
the packet has room for lead to `"overrun"`: what is written past the end is
undefined, and nothing is said of what follows.

`GossipList` is the same device without bytes.  Under the refinement mapping the
abstract `pending` is what is left of the message from pointer `e` on, and `sent` is
what a receiver would make of the packet: nothing, if one integer in it were in
the wrong order.

### MainLoop: the pace

`main`'s loop with the timer of `posix_timers.c`.  The clock is `gettimeofday`, which
may be set at any step (`SetClock`); its differences are cut to `uint32_t`, and
`usecToSleep` is a `long`, so it matters whether that is wider (`LongIsWide`).
`counter` and `calls` follow the announcements of `NET_HandleBcast`.

### NetInit: the interfaces

`POSIX_NetInit` call by call: any may fail, and then the program ends.  `ifs` is the
list of `getifaddrs`, `cur` the position of `ifaces`, `bcast` the interfaces taken.
The four builds differ in `CONFIG_PLAT_CAN_HAVE_MULTIPLE_INTERFACES` and
`CONFIG_PLAT_SUPPORTS_MULTICAST`.

### Startup: up and down again

`todo` is what is left of the platform's `PLAT_Init`, a call at a time; which calls
exist, which of them are fatal and what they fill in is read from the six
platforms that link (Linux, Android, OS X, NT 4.0, DOS, Switch).  The Linux back
end for Xorg and GLX opens a display, a window and a context, and closes them
again when a later call fails.  `APP_CleanupAndExit` calls the callbacks that are
set, in order, and hangs if there is none to exit with.

Not every failure is looked at.  `Passed` are the calls in which one counts as success
and leaves a string NULL or unwritten (`GatherMisses`): `NODE_Init`, which copies the
strings, may then crash.  `Dies` are those in which the call itself uses what it did not
get (`CallCrashes`).  `missed` remembers them, and `Settles` says what the code does
achieve: the program gets into its main loop or out through the exit callback, and if it
crashes, one of these, and no failure that is looked at, was before it.  Section 7 lists
them one by one.  Of `PLAT_Info` only the strings are kept; where `NODE_LocalUUID` comes
from is not modelled beyond the calls that may fail.

### DeviceInfo: a name for a PC

`LINUX_GatherDeviceInfo` on x86: the vendor's file, then the model files in turn.
A file is missing, unreadable, garbage as `isGarbageName` sees it, or useful.

### EntryLayout: the fields of an entry

An entry has no `struct`: `node.h` finds each field from the *absolute* address of the
one before it, with padding, and `ALIGN4(a + b)` has no parentheses around its
argument, so that `%` sees `b` alone.  `Layout` is what the accessors compute, the
wrapping subtraction of `uintptr_t` included; `NODE_Init` writes the fields one by one
(`WriteString`, `WriteOther`), each where the strings written so far put it, and `Copy`
is every `realloc` and `memcpy` of a finished entry to another address: behind the
header of a list (8 bytes) or of a packet (32), and the entries before it.  `malloc`
aligns to 8, and `FieldsApart` shows that the size of an entry is a multiple of 8,
which is what `Before` takes for granted of the others.

### HostInfo, LinuxCpu, DosCpu, OsxInfo: a host describes itself

Each function by itself, a step being one turn of its scanning loop or the code
between two of them; they share no state, so `HostInfo` runs one per behaviour.
`LinuxCpu` has the one loop of `cpuinfoFindLine` with its habit of starting each turn
on the newline before the line (`LineBehind`), the keys that PowerPC asks for one
after the other, the device tree on ARM, and the suffixes that are cut off.  A key is
a sequence of words and a value one of parts, so that `strncmp`, `strstr` and `strchr` are
prefixes and parts.  `DosCpu` has the SIGILL handler that `longjmp`s out of CPUID.
`OsxInfo` looks for two keys and the strings behind them by position, one `strstr` a
step, in files whose tags come in any order.

`NamesTrue` compares what is gathered with what the host says, read off the whole file at
once: the line with exactly the key asked for, the model in the device tree, the CPU's
family and vendor, the string behind the key.  The code does not always get that right, and
the property names each exception instead of sharing the code's test: an earlier line whose
longer key begins like the one asked for (`Mistaken`); a model that an entry of
`armCPUNames` begins with, or that begins with it (`Alike`), where any other must keep its
own name; a file read as empty; on DOS the Pentiums that the code tells by Intel's
models 4 and 6 (`Generation`) and CPUs of family 6 on, of which all but AMD's are called
Intel (`SaidIntel`); on Mac OS X a string that is not closed or too long, or missing behind
the version's key (`Sound`).

### Kexpr, Kmenu, Ksym: the Kconfig language

`Kexpr` is `expr.c`: an expression is a tuple, Null where C has NULL.  The C code
rewrites trees through pointers to slots; here a slot is a path (`At`, `Put`), and
the pairs of slots are visited in the order of the recursion (`Terms`, `Nodes`).

`Kmenu` folds the parser's actions over the statements of a file (`Read`) and then
runs `menu_finalize` (`Finalize`): dependencies handed down (`Inherit`), followers that
depend on an entry gathered below it (`Gather`), entries without a prompt taken up
and values of a choice noted (`Collect`).  `WarnsOfRecursion` is `sym_check_deps`.

`Ksym` is the values.  `sym_calc_value` changes the table it reads from: it is
marked valid before anything is known, computes what it needs, and leaves the rest
alone.  So every operator takes a table and returns one, and `CalcValue` is the code's
sequence of calls in order: `Unwritten`, `CalcVisibility`, `Blank`, `NewValue`,
`ValueOfChoice`, `ValidateRange`, `NoteModules`, `WriteValues`.  `ClearAllValid`,
`SetTristate`, `SetString` are the ways to set something.  The variable `table` holds
what `conf_parse` makes of the files; it never changes.

### Kconf and Mconf: the configurators

`work` is the stack of calls not yet returned from: `<<"conf", m>>`, `<<"check", m>>`,
`<<"sym", m>>`, `<<"string", m>>`, `<<"choice", m>>` and so on, so that one action is one
call or one answer.

| Action | Code |
|---|---|
| `Start`, `MenuStart` | `main` up to the first question, `conf_read` included |
| `Visit`, `Check`, `AfterChoice` | one call of `conf`, of `check_conf`; the end of the choice's case in `conf` |
| `AskSym`, `AskString`, `AskChoice` | an answer that ends the loop of `conf_sym`, `conf_string`, `conf_choice`; typed, or made up as the mode says |
| `Abort` | `check_stdin` or the end of the input: `exit(1)` |
| `Rounds` | the loop of `main` around `check_conf` |
| `WriteHeader`, `Rename`, `Kill` | `conf_write`, whose renames come one after the other; killed in between |
| `Edit` | somebody edits `.config` |
| `SetRow`, `OpenRow`, `LeaveMenu`, `Radio`, `Input` | keys and dialogs of menuconfig, on the rows `build_conf` shows |
| `Load`, `SaveAs`, `Question` | menuconfig's load, save, and "Do you wish to save" |

Modes are those of `conf`: config, oldconfig, silentoldconfig, defconfig, randconfig,
allyes, allmod, allno; a random answer is any.

### Kmake and Kbuild: make

What make compares is kept as which file is newer than which: `newer`, `unsplit`,
`changed`, `dirty`.  `MakeReads` reads `.config` for `Makefile.flags` and starts
silentoldconfig where needed, `Split` writes the files of the options whose line changed,
`Compile` compiles what is `Outdated` and has `fixdep` (`ParseDepFile`) list the options
found in the sources; `Killed` and the second halves of `Split` and `Compile` are
interruptions.  `built` remembers what an object was compiled with, which is what
`UpToDate` compares with what it would be compiled with now.

`Kmake` sees no more of conf and menuconfig than make does: the two files, and how far
`main` has come (`phase`, `saved`, `header` of `Kfiles`).  `ConfGoesOn` may write any header
and then renames `.config` after it, `MenuGoesOn` may save any `.config`.  `Kbuild` puts the
real programs in their place: each of its actions is one of `Kconf` or `Mconf` together
with what that means for make (`ConfTimes`, `MenuTimes`, `KillTimes` ...).  That they write
nothing else is `ImplementsMake`.

## 4. The runs

| Run | Question | Instance |
|---|---|---|
| `mesh_faults` | Is the invariant the proofs use kept in fact, under every fault and a restart? Does each step of the receive loop leave less to do? | two devices and two networks: a on both, b on one of them |
| `mesh_gateway` | Are lists correct, is every step one of `Directory` (a list only grows, an entry at a time), and does everybody end up known, through the gateway too? | a - b - c, b a gateway, buffers of one datagram |
| `mesh_restart` | And if a device may crash, at any step? Do a device's own announcements pile up? | two devices, one of them with two interfaces, an announcement every three calls, buffers of four |
| `netinit` | Are exactly the usable interfaces kept, is the user told of those left out, and does it end? | all lists of up to four, room for two |
| `mainloop` | Does the loop keep its pace across wraps and settings of the clock? | clock modulo 16, counter modulo 16, period 15 |
| `listwire` | Is the list native at rest and in wire order when sent; does every loop end; does it implement `GossipList`? Does all this hold up to the overrun? | four nodes, room for three, both byte orders |
| `startup` | Does every platform come up or end, closing what it opened and claiming what it has, and is a crash always due to a failure nobody looks at? | six platforms, any call failing, noticed or not |
| `hostinfo` | Is the first useful model found, is the CPU's and the system's name the one the host gives, but for stated exceptions, and does each scan end? | all DMI contents; all `cpuinfo` of up to four lines; all plists of up to five pieces; every DOS and Mac CPU |
| `kconfig` | Is no stale value used, is what is written settled, do choices and dependencies hold, does loading forget, is everything compiled that must be, do the configurators write only what `Kmake` lets them, and does it all end? | five Kconfig files, two programs in a row, one interruption |
| `entrylayout` | Is a field found where it was written, in every copy, aligned, and apart from the others? | strings of 0, 3 and 6, two addresses, 0 or 40 bytes before |

Two more runs, `netinit_noname` and `deviceinfo_unknown`, check one sentence each of a
message and a comment and find it violated; section 7 has them.

`MCKconf` also states two ASSUMEs that TLC evaluates before the run:
`RewritingKeepsValues`, that no rewriting of an expression (`EliminateYn`, `Transform`,
`EliminateDups`, `TransBool`) changes what it is, for every expression of two literals
over a bool and a tristate and every valuation; and `RecursionIsFound`, that
`WarnsOfRecursion` warns exactly where a symbol depends on itself, for every graph of
three symbols with lists of up to two dependencies.

The bounds, and why they are enough:

- Devices.  Credits need three devices in a line (teller, told and a node the
  third only hears of); restarts and faults need two.  The proofs have no bound.
- `SendPeriod` (up to 3) and `CounterMod` (up to 4) in `NodeMesh` are small: how often a device
  announces does not matter to what a message does, and `MainLoop` has the real
  15.  In `mesh_restart` they are 3 and 4, so that two announcements are one call
  apart at the wrap, as with 15 and 2^32.  `CounterMod = 16` there has the real remainder: 2^32 mod 15 = 16 mod 15 = 1.
- `QueueCap` is 1 or 2 where it stands for loss; in `mesh_restart` it is 4, more
  than the three that the property allows, so that a violation fits.
- `MaxLaunch` is 1 or 2: one restart gives an old and a new launch of device b,
  with messages and list entries of both.
- `MainLoop`: `Loop = 3`, `Wrap = 16`: work of 0, 2 (less) and 4 (more than an
  iteration); the clock set by 1 forward or 3 backward (13 modulo 16).
- `ListWire`: messages are all lists without duplicates of up to three of the four
  nodes, which is every order in which known and unknown entries can meet.
- `NetInit`: four interfaces, room for two: full in the middle, at the end, never.
- `DeviceInfo`: the three paths the code has.  `LinuxCpu`: four lines are a line asked
  for, one before that begins like it, an empty one and one behind, in any order.
  `OsxInfo`: five pieces are both keys with their strings and one thing out of place;
  `NameSize = 3` tokens stand for a buffer that a long text does not fit in.
- `EntryLayout`: lengths that leave every remainder the padding tells apart; the
  addresses differ by a multiple of 8 that is none of 16, and so do the headers.
- `Kconf`: `MaxRuns = 2`: a configuration is written, then read by a second program,
  after an edit by hand or a newer Kconfig file (`Later`) in between.  The Kconfig files:
  `EvrNet` has this repository's platforms, selects, ranges and choice; `Modular` has
  modules, tristates, selects against the order of the file and an entry that
  gathers others; `Menus` is small enough for every order of keys in menuconfig; `Small`
  and `Grown` are one file before and after a platform was added, and are built.
  `MaxNumber = 9` has a number on either end of the ranges and one outside.
- `Mconf`: menuconfig is the last program of a behaviour (`MenuStart` uses up the runs);
  within it the sequence of settings, loads and saves is unbounded.
- `Kmake`, `Kbuild`: `MaxStops = 1` interruption, two objects, one that never changes and one
  whose source gains a use of an option.

`CHECK_DEADLOCK FALSE` stands where the modelled code ends and the model has no step
for it: `POSIX_NetInit` returns or exits, and after `"overrun"` in `ListWire` and
`"astray"` in `DeviceInfo` the model says nothing of what undefined behaviour does.
Deadlock is checked in the others: the mesh, the main loop and `EntryLayout` never
stop; in `Kbuild` nobody may want anything any more, and in `Startup` and `HostInfo` the
end is a step of its own that changes nothing (`Rest`, `HRest`), so that stopping
anywhere else would be found.

## 5. Fairness

- `DeviceFairness`: a process that can go on does, since `main` loops while
  `keepRunning`, which nobody clears, and no call blocks (`poll` has a timeout of 0);
  a device that is off is switched on again while it has launches left.
- `LinkFairness`: what is broadcast for ever is received for ever by each
  neighbour, as long as the sender does send: a lossy link is not a dead one.
- `DrainsEnd`: the receive loop of `NET_HandleBcast` ends again and again.  The code
  alone does not ensure it: it reads until nothing is left.  It is a fact of time
  (a datagram takes micro-, an announcement 7.5 seconds), assumed, and listed
  among the hazards.  Without it a device could receive for ever.
- `NetInit`: weak fairness of the whole next-state relation, one thread whose calls
  return.  `TransientSpec` adds that a `getnameinfo` that fails does not do so for ever;
  `netinit_noname` shows what happens without.
- `Startup`: the same, as "at an end again and again, or `Next` again and again": a step is
  possible wherever the program is not at an end, as the check for deadlock shows.
- `MainLoop`: the steps the program makes by itself (`Work`), not the setting of the clock.
- `ListWire`: weak fairness of `Handle`, the loops, not of the arrival of messages or of
  announcing.
- `HostInfo`: weak fairness of the next step, one thread; a file answers or fails.
- `Kbuild`: the programs go on, and who is asked answers something that is taken;
  nothing has to be done in menuconfig (`AtMenu`), and no make has to be started.
  There is a step of `Proceed` wherever something is busy, as the check for deadlock
  shows, so weak fairness of it can be written without ENABLED (`BFairSpec`).

ENABLED is beyond the provers, so what the proofs start from is fairness written
without it.  In `Startup` and `MainLoop` that is the `FairSpec` of the run.  `NetInit`, `ListWire`
and `HostInfo` have a `LiveSpec` (`HLiveSpec`) beside it: "at rest again and again, or a step
again and again".  It says the same as long as there is a step wherever the program
is not at rest: in `ListWire` by the invariant `IInv`, in `NetInit` because the
guards of each phase are exhaustive, in `HostInfo` as its run has no deadlock.  The runs keep
the specifications with `WF_`, since a mutant that gets stuck breaks only those.

## 6. The proofs

All of them hold for every value of the constants that the modules' `ASSUME`s
allow; these say only that constants have their type and periods and ranges are
not 0 (`MeshAssumption`, `NetInitAssumption`, `MainLoopAssumption`,
`ListWireAssumption`, `DeviceInfoAssumption`, `HostInfoAssumption`), that an object has
sources (`SourcesAssumption`), and that addresses are aligned to 8 and
wrap at a multiple of 8 (`LayoutAssumption`); TLC evaluates them in every run.  Some
theorems have a hypothesis of their own, a bound or a condition named below.

Each module of proofs has the same shape: `IInv` is the inductive invariant,
stated in the module of the component; one lemma that `Init` implies it, one for
every action, and theorems that combine them.

**NodeMeshProofs**: `TypeCorrect`, `NoDuplicatesCorrect`, `LocalFirstCorrect`,
`OnlyRealNodesCorrect`, `CreditIsTrueCorrect`, and `Invariant`, on which they rest.  What a device
prints as a node's discovery source depends on a message sent at another time by
another device, so the invariant has to speak of messages under way: `QueueOK` says
every one in a buffer comes from a neighbour, starts with the neighbour's own
entry (which is `LocalFirst`, when it was sent) and holds real entries only; `MergeOK`
carries that through a message half merged: as long as the source is not set the
next entry is the sender's, and from then on the source is listed.  No assumption
is made that UUIDs differ: the theorems also hold of devices that share one.  `TypeOK`
and `LocalFirst` are conjuncts of `IInv`, and `mesh_faults` checks them as such.

`OwnBacklogCorrect` counts: how many announcements of its own may lie in a device's
receive buffer, where every call of `NET_HandleBcast` reads back one and every
`SendPeriod`-th sends one per interface.  `BacklogInv` bounds their number by the place of
`counter` between two announcements (`Room`), by `iface` while one is being sent, and by what
is left over (`Carry`) where the counter wraps and two announcements are `WrapGap` calls
apart.  The proof rests on lemmas about the set of positions `Own` (what appending,
reading and reordering do to its size) and about the remainder of the counter.  Its
hypothesis, `BacklogAssumption`: UUIDs are unique; messages may be lost, reordered
or refused by `sendto`, but nothing is repeated and neither `poll` nor `recvfrom` fails; and
the announcements left over fit in a period.  With a period of 15 and a counter of
32 bits, 2^32 mod 15 = 1, so that `n` interfaces need `2n - 1 <= 15`: the theorem covers
exactly the 8 interfaces that `CONFIG_NET_MAX_INT` defaults to, and nothing is claimed
of larger values, which Kconfig allows.

`ImplementsDirectoryCorrect`.  An entry that `Merge` adds was in a
message, and `Directory` asks that a neighbour has listed it at some time.  `HInv` has
what is needed beside `IInv`: whatever a running device lists is in its history
(`told`), and every entry of every message under way, or half merged, is in the
history of the device it came from (`FromHistory`).  The history only grows, so a
message however old stays true.  `Boot`, `Crash` and `Merge` of an unknown entry map to
`Directory`'s steps, all others to a stutter.

`DrainRunsDownCorrect` is what the code itself does for the end of its receive loop: a
lexicographic measure (datagrams left, entries of the message left, interfaces not
yet asked) that every step of a device inside the loop lowers, whichever messages and
failures it meets.  What it can not show is that others send more slowly than that;
this is `DrainsEnd`, assumed by the runs.

**NetInitProofs**: `InterfacesCompleteCorrect`, for any limit and any list, and
`WarnsIfDroppedCorrect`: where the loop is left, a usable interface behind `ifaces` means
that the list was full, which is when the warning is printed.  `Collected`
says what is known in the middle: the usable interfaces before `ifaces` are those
taken.  It survives a failing `getnameinfo`, which leaves both where they were.
`InitEndsCorrect`: a failing `getnameinfo` takes the loop back to the same interface, so the
rank (calls and interfaces left) stands still there; if it never fell again the
loop would be at that call again and again, and there it succeeds in the end.

**MainLoopProofs**: `NeverLateCorrect`, for any period and any range of the counter:
`calls` is counted from a multiple of the period, unless the counter has just
wrapped, when `Due` holds.  `SleepBoundedCorrect`, if a `long` holds every `uint32_t`
(without that it is false, see section 7).  `KeepsPaceCorrect`, under the same
assumption, rests on `Timed`: while nobody sets it, the clock is ahead of
`startTime` by the work done, modulo its range.  `KeepsAnnouncingCorrect`: four steps
for each call that is left until `Due`.

**ListWireProofs**: `NativeAtRestCorrect`, `SentInWireOrderCorrect`, `NoWildPointerCorrect`,
`ListedOnceCorrect`, `ImplementsCorrect`, `HandlerEndsCorrect`.  `Sending` and `Hearing` say how far each loop has come: before
the position converted, behind it not (`Halfway`), the table filled with the
positions in order (`AllCollected`), the searched part without the entry looked
for (`NotAmong`).  `ImplementsCorrect` is the refinement of `GossipList`: initial states
map to initial states, `Receive`, `Known` and `AddEntry`, and `Send` to `Hear`, `Take` and
`Announce`, and every other step to a stutter.  `ListedOnceCorrect` follows from it: what
`GossipList` takes is not listed yet.  `HandlerEndsCorrect` needs both: the rank of a merge is
the number of entries left of the message times that of one search of the list, and the
list grows meanwhile; without duplicates it is no longer than there are nodes, which
bounds the search.

**StartupProofs**: `CleansUpCorrect`, `CapTrueCorrect`, `NeverHangs`, the safety half of
`Settles`, and `SettlesCorrect`, all of it, for any of the platforms, whichever calls fail and
whichever failures go unnoticed.  With `Unnoticed = {}` they say that the program never
crashes; with all of them, that nothing else makes it crash.  `todo` is always what is left
of one of a few lists (`From`), so `IInv` says for every place in each list what holds
there: in `PLAT_Init`, which strings are gathered, if nothing was missed, and which callbacks are set
(`Gathering`), in `LINUX_GfxInit`, what of the X connection is open (`TryingXorg`), behind
it, that graphics are settled with everything open and offered or nothing of
either (`Settled`), and in `APP_CleanupAndExit`, that what is open still has its callback
to come (`Exiting`).  Without the places, `CleansUp` and `CapTrue` are not inductive: what
a failing call has to close depends on the calls before it.

**HostInfoProofs**: `FirstUsefulCorrect`, for any number of paths, and `NamesTrueCorrect`,
for any `cpuinfo`, device tree, plist and CPU: three scanners that keep no more than a
position, against a definition that looks at the whole file and states the exceptions
(section 3).  The invariant `HInv`
has, for each host, what its search has passed: no line before `pos` fits the
key asked for, so that the one that does is the first (`Linux!IInv`); `pos` is the
first place of the key looked for, or the string behind it, if the file is one in which each key has
its string (`Osx!IInv`); and which of CPUID's answers is in (`Dos!IInv`).  `FindsModelCorrect` and `GatherEndsCorrect` say
that they end: `Effort` counts the turns left, for `cpuinfo` over all the keys still to be
asked for (`Turns`); a search that ran off the paths had passed each of them and found none
(`NoneMissed`).

**KmakeProofs**: `UpToDateCorrect`, for any objects, any sources, any configuration that is
written and any number of interruptions.  What `UpToDate` compares was read at
different times, so `MakeInv` has what connects them: unless `MARKER` is older than the
header, `include/config` says what the header says (`SplitDone`); an object that is newer
than its sources was compiled with what `include/config` says, except for options
whose file is newer than it (`Remembered`), which an interrupted `Split` keeps true
since it writes a file and its time together; and make's reading of `.config`
is true or conf has run (`ConfigKnown`).  It is proved of `Kmake`; that `Kbuild`, with the real
conf and menuconfig, takes no other steps is `ImplementsMake`, which TLC checks: `Kbuild`
reaches recursive operators, with which the provers here cannot work.

**EntryLayoutProofs**: `FoundWhereWrittenCorrect`, `IntegersAlignedCorrect`, for strings of
any length and addresses of any width.  `WrapUnseen` and `PadIsRelative` show what the
macros add although they lack parentheses; `LayoutIsRelative`, that at an address
aligned to 8 the layout does not depend on the address; `LayoutIgnoresLater`, that a
string does not move the fields before it.  `FieldsApartCorrect`: with the strings short
enough for `StringsFit`, so that the 16-bit size does not wrap, the fields are in order
and apart, the entry ends within its size, and that size is a multiple of 8.

**Liveness by rank.**  Six of the theorems are liveness properties: `SettlesCorrect`,
`KeepsAnnouncingCorrect`, `FindsModelCorrect`, `GatherEndsCorrect`, `InitEndsCorrect`,
`HandlerEndsCorrect`.  Each has a rank, a number that every step of the program lowers,
shown with the safety invariants above.  From "the rank is at some time at most `i + 1`" to
"at most `i`" is one temporal step, for every `i`; but induction below `[]` and `<>` is not to be
had here, so the step is composed with itself, four times over, then four times that, up
to a number written in the module (`Nearer4`, `Nearer16` ... or `Descent4` ...).  That is why these
theorems, unlike the others, have a bound of their own, far above what the code can meet:

| Theorem | Bound | In the code |
|---|---|---|
| `SettlesCorrect` | none: there are at most 16 calls | |
| `KeepsAnnouncingCorrect` | `SendPeriod <= 15` | 15, `net.c:85` |
| `FindsModelCorrect` | `NPaths <= 8000` | three paths |
| `GatherEndsCorrect` | `MaxLines <= 1360` | a `cpuinfo` of a few lines for each CPU |
| `InitEndsCorrect` | `ListsBound`: lists of up to 1000 interfaces | what `getifaddrs` returns |
| `HandlerEndsCorrect` | `HandlerBound`: 2048 nodes, 2048 entries in a packet | a packet of 64 KB, of entries of more than 32 bytes; a table of 512 |

Only model-checked:

- `Convergence` and `Ends`.  How far a node's entry has come is a fact about every path
  of the network, and the number of steps has no bound (messages are lost, devices
  restart), so there is no fixed rank to descend; `Ends` is about `Kbuild` (see below).
- Everything about the values of symbols: `CacheTrue`, `SettledIsStable`, `OneOfEachChoice`,
  `DependenciesHold`, `LoadForgets`.  `CalcValue`, `Finalize` and the functions on expressions
  call each other and themselves over trees and tables; they are RECURSIVE operators, and
  a module that reaches one is closed to the provers here.  So is `ImplementsMake`,
  whose `Kbuild` is built from them.
- That the `FairSpec`s with `WF_` imply the `LiveSpec`s beside them, for want of ENABLED.

## 7. Where code and documentation disagree

Found by a run:

| Run | What it shows |
|---|---|
| `netinit_noname` | When `getnameinfo` keeps failing, `continue` retries the same interface for ever instead of "continuing without it". |
| `deviceinfo_unknown` | When no file names a model, the code says "Unknown Model" and goes on searching behind the end of the list. |

Met while modelling, and visible in the models, though no run is kept for them:

| Where | What |
|---|---|
| `SendFails` of `NodeMesh` | `PLAT_NetDoBroadcast` returns at the first interface that fails; the others, "all known interfaces" of `plat.h:81`, get nothing. |
| `Loopback` of `NodeMesh` | Devices with the same UUID take each other's announcements for their own, and never list each other. |
| `LeaveLoop` of `NetInit` | The limit is tested first: a host with exactly as many interfaces as there is room for is told to rebuild if an unusable one follows. |
| `UsecToSleep` of `MainLoop` | With a 32-bit `long` (`LongIsWide` false), a clock set back makes the loop sleep by as much longer. |
| `Due` of `MainLoop` | 2^32 is no multiple of 15: at the wrap two announcements are one call apart, not the 15 of `net.h`. |
| `Overrun` of `ListWire` | `NODE_CheckLen`, which would "bail out", is never called: a longer list overruns its buffers. |
| `OsxCalls` of `Startup` | On OS X no call sets `NODE_LocalUUID`: it stays 0, which `plat_init.txt` rules out. |
| `GlxBuilds` of `Startup` | `GFX_GLX` depends on a symbol that no Kconfig file defines, so only the builds without it exist today: a Linux desktop with Xorg never hosts. |
| `Layout` of `EntryLayout` | `nodeType.h:41` lists `os` right behind `memSz`; the device's name is between them. |
| `Fits`, `Mistaken` of `LinuxCpu` | Only the length of the key asked for is compared: an earlier line "model name extra" would be taken for "model name", "cpu family" for "cpu". |
| `Agrees`, `Alike` of `LinuxCpu` | `strncmp` over the shorter length: a Cortex-A5 is named as an A53, an A7 as an A78. |
| `Passed` of `Startup` | Failures that count as success: a NULL from the `malloc` of the name on OS X, which makes `sysctlbyname` only report a length (`osx/info_device.c:15`); a `read` of 0 bytes of `/proc/cpuinfo`, which returns `-errno`, perhaps 0, with `PLAT_Info.cpu` NULL (`info_cpu.c:125-129`); `GetComputerNameA`, whose buffer then holds anything (`nt4/info.c:74`). |
| `Dies` of `Startup` | Results used without a look: `glXMakeCurrent`, after which `strlen` is taken of a `glGetString` that may be NULL (`gfx_init_glx.c:96-114`); the `malloc`s of `gfx_init_glx.c:145` and `info_cpu.c:333`; a search behind the last of `dmiPaths`; a `<string>` that is never closed (`osx/info.c:125`). |
| `NotFound` of `LinuxCpu` | On x86 a `cpuinfo` without "model name" ends the program, where the comment of `info_cpu.c:287` expects a name all the same; a last line without a newline is never found. |
| `NoEnd`, `Fallback` of `OsxInfo` | `ptr` is tested where `ptrEnd` is meant, and the version's fallback overwrites the name. |
| `ModelOf`, `Vendor` of `DosCpu` | AMD's K5 and K6 are told apart by Intel's model numbers, so that a K6-2 is named a K5; from family 6 on whoever is not AMD is called Intel. |
| `CalcChoice`, `Lines` of `Ksym`, `Kconf` | allnoconfig goes through the menus twice, which is once too few for two selects that follow each other against the order of the file. |
| `AskChoice` of `Kconf` | Only the first entry below a chosen value is visited by `conf_choice`; a second one that is new would make `check_conf` start again for ever. |
| `Kill` of `Kconf` | Killed between its renames, `conf_write` leaves no `.config`, or an old one older than the header, which make then takes for up to date (`torn`). |
| `MakeReads` of `Kmake` | `.config` is read for the flags before silentoldconfig updates it: the flags of that make are the old ones (`configured`). |
| `Compile` of `Kmake` | `if_changed_rule` runs the compiler, `fixdep` and the `mv` of the `.cmd` file one after the other, and no `.DELETE_ON_ERROR` is set: where `fixdep` alone is killed or fails (`Makefile.build:187-191`), the new object stays beside the `.cmd` file of the one before.  The model has only interruptions by a signal that make catches, after which it removes the object; `UpToDate` does not speak of the others. |
| `SaveAs` of `Mconf` | Saving under the name `.config` from the menu writes no header. |
| `EvrNet` of `MCKconf` | `C_STD`'s first default has no condition, so the others are never used, and the one for the GameCube and Wii names a symbol no file defines. |

The passing runs and the theorems describe the code as it is: `mesh_gateway` and
`mesh_restart` assume distinct UUIDs and no interface that fails for good, `netinit`
a `getnameinfo` that recovers, `mainloop`'s `SleepBounded` a 64-bit `long`.

## 8. Not modelled

- Memory exhaustion: where it is checked (`NODE_Init`, `NODE_ListToBE`) it ends the
  program, which `Crash` of `NodeMesh` covers; the `realloc` of `NODE_MaybeAddEntry` is
  not checked, and taken to succeed, and so are the one at the end of `NODE_Init` and those
  of text buffers in `Startup` but for the ones in section 7.
- What Xlib does by itself when the connection breaks: its error handler ends the program.
- The room that the fixed buffers of `PLAT_Init` have for the names copied into them: in
  `Startup` a string is there or not, and only `OsxInfo` has a text too long for its place.
- Multicast: `NET_HandleBcast` calls `PLAT_NetCheckMcastData` and `PLAT_NetDoMulticast`, but
  the socket is neither bound to the port nor joined to the group, so that nothing
  arrives and nobody receives what is sent.  The CRC is a TODO in the code, and the distance of a node is sent but
  never updated.
- The Wayland, DRM and fbdev back ends: `LINUX_GfxInit` does not call them.
- Windows, GameCube and Wii: they do not link.  The DOS and NT 4.0 network stubs do
  nothing.
- `NODE_CheckLen`: static and never called (see `Overrun`).
- Of Kconfig: `source`, help texts, the `modules=` of other trees, hex symbols, and the
  lexer: the models start from the parser's tokens, and the repository uses no
  others.  `KCONFIG_ALLCONFIG` files.  Symbols written in two entries, and files
  whose symbols depend on themselves (the parser warns of these): the instances have
  none.  In menuconfig: search, help, resizing, the single-menu mode and the
  dialog boxes; gconf and qconf, which call the same functions from GTK and Qt.
- Of the build: linking, cleaning, the descent into directories, and clocks so
  coarse that two files made one after the other are equally old.
- Capabilities as text, the bundled libc and printf: formatting and textbook string
  functions, without state.
- `docproc.c`, `bloat-o-meter` and the other scripts: not called by this repository's
  build.
