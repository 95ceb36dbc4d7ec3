# A TLA+ development of MiniWin

MiniWin is a small desktop operating system for 32-bit PCs: a boot loader, one
kernel image with drivers, a file system, a network stack, a browser, a word
processor and a shell, and a loader for programs. This directory holds TLA+
models of the parts of its kernel whose correctness depends on the order in
which things happen, the TLC configurations that check them on small instances,
and TLAPS proofs, for instances of any size, about the file system, the TCP
connection, the memory manager, the program window, the installer, the namespace,
the partition table, the drivers, the desktop's windows, its shell and its documents.

All paths below are relative to `src/`; `kernel/` is meant where none is given.

## 1. The system and how it runs

The kernel is one translation unit (`kernel.c` includes every header), with one
thread and no interrupts enabled: every device is polled. `kmain()`
(`kernel.c:117`) boots and then repeats one pass for ever:

    usb_poll  handle_mouse  handle_keyboard  net_stack_poll  term_install_poll
    web_poll  pw_step  render_frame  delay

Whatever a pass calls runs to its end. Four consequences shape every model here:

- An event handler is one atomic step with respect to the other handlers. What
  interleaves is the *order* of handlers, never their insides. The one exception
  is the program in a window, a coroutine that gives the processor back when it
  calls a drawing or event function (`coro.h`, `apps/progwin.h`).
- What lies outside the kernel interleaves with everything: the power, the disk
  that reports a failure of a write that has landed, the device that is pulled
  out, the network, the peers, the user.
- State that one handler leaves for another is where the errors are: a slot
  number kept by a window, a parked packet, a transaction id, a row of a list, a
  syllable that is being composed.
- Clocks are polled: seconds of the real-time clock modulo a day
  (`netclock.h:25`), and passes of the loop as a backstop.

### Inventory

| Part | State it keeps | Operations | Talks to | What is hard, and what makes it correct |
|---|---|---|---|---|
| MWFS `mwfs.h` | on the disk: directory entries, inode table, bitmap, data sectors; in memory: the locals of the call | put, copy, unlink, rename, read, mkdir, rmdir, `part check [fix]` | disk drivers below; `fs.h`, `vfs.h`, the shell above | a power cut or a failing write between any two sectors. A name reads as its old or its new content; files never share sectors; the repair gives back garbage and only garbage |
| Volumes, directories and paths `vfs.h`, `apps/shell_fs.h` | mount table, current directory, directories | mount, unmount, resolve, move and copy across volumes | MWFS, shell, MiniFiles | a path that outlives its volume; a move between volumes is a copy and a removal |
| Partitions `storage.h`, `apps/shell_part.h` | ids, the table in sector 0, the question that waits for YES | create, delete, format, mount | drivers, shell, MiniFiles | the running system's entry; gaps and alignment |
| Documents `fs.h`, `apps/notepad/*`, `ui/desktop_files.h` | slot index over `/docs`, its copy on the desktop, windows with text, bound slot and dialog | save, save as, new, close, open, rescan, delete, rename | MWFS; MiniFiles, MiniShell and programs change the same directory | a slot kept by a window stands for another document; a text thrown away by a failed save |
| Notepad's editing, Korean input `hangul_ime.h`, `clipboard.h` | text, selection, undo snapshot, the syllable being composed | type, cut, paste, undo, switch focus | keyboard, clipboard | one composing syllable and several windows |
| TCP `tcp.h` | one connection: state, sequence numbers, send queue, retransmit slot, peer window, receive buffer | connect, send, close, poll_recv, handle_packet, poll_retransmit | IP; HTTP, TLS | loss, repetition, reordering, windows that shut, an interface that refuses |
| ARP and IP output `arp.h`, `ip.h` | neighbour cache, one parked packet | send, handle reply and request, flush | network card; TCP, UDP, ICMP | a cache too small for its users; a packet parked under an address that has gone |
| DHCP `dhcp.h`, `netclock.h` | conversation state, offered address, lease age, `net_cfg` | discover, request, renew, rebind, drop | UDP; ARP, DNS use the address | late and repeated replies; an address used past its lease |
| DNS `dns.h` | one lookup: id, host, servers, attempt, result | resolve, poll, handle reply | UDP; the web | old replies under a reused id; a lookup that never ends |
| ICMP, UDP `icmp.h`, `udp.h`, `net_stack.h` | the table of listeners | check, dispatch, echo | IP, cards | an answer waits in the ring while a timer runs |
| Web fetch and responses `http.h`, `https.h`, `httpresp.h`, `apps/web/*` | the load in progress, response parser, history | go, redirect, cancel, parse | DNS, TCP, TLS | bytes cut anywhere; answers of a load that was replaced |
| TLS and certificates `tls.h`, `x509.h`, `asn1.h`, `pkcs1.h` | handshake state, keys, record buffers | handshake, records, chain | TCP | order of messages, records in pieces, one check left out |
| Cryptography `bignum.h`, `ecc.h`, `x25519.h`, `gcm.h`, `sha*.h` | numbers, points, the block a hash is in | modular arithmetic, point operations, seal and open, update and finish | TLS | carries, special cases, ends of blocks |
| HTML engine `dom.h`, `css.h`, `layout.h`, `render.h` | document tree, rules, display list | parse, style, lay out, paint | the web app | any order of tags in arenas that fill up; items renumbered while lines are built |
| Memory manager `mm.h`, `memmap.h` | page bitmap, chunks and blocks of the heap | page_alloc, kmalloc, kfree | everybody | long sequences of calls: two owners of one page, a chunk returned too early |
| Program window and coroutines `apps/progwin.h`, `coro.h`, `mwp_api2.h` | the running program, its stack, its allocations, its keys | launch, yield, close, fault | windows, heap, file system | a close or a fault at any yield must give back everything, once |
| Installer `os_inst.h`, `apps/installer.h` | the job: phase, position | start, step, verify | drivers, program window, shell | the boot sector goes last; two drivers of one job |
| Disk drivers `blk.h`, `ata.h`, `ahci.h`, `nvme.h`, `mpt.h`, `fdc.h`, `atapi.h` | queues, phase bits, track buffers, device numbers | read, write, flush, scan | the file system | a command that timed out is answered later |
| Network cards `e1000.h`, `rtl8139.h` | receive and transmit rings | send, poll | the stack | wrap of a ring, a full ring |
| USB and input `usb/*`, `keyboard.h`, `mouse.h` | device table, transfer rings, key state | enumerate, poll, merge | windows | hot plugging, cycle bits, two keyboards, bytes of two devices in one buffer |
| Windows and desktop `ui/*` | windows, stack, focus, captured drag | mouse, keyboard | every app | input reaches the window it was meant for |
| File manager `apps/minifiles.h` | rows, tree, selection, clipboard | open, delete, rename, copy, paste | file system, documents | rows are indices into a copy |
| MiniShell `apps/terminal.h` | session, input line, question, ring of lines | commands, passwords, YES | file system, installer, partitions | one line for three purposes |
| Settings, drawing, fonts, machine support, boot code, tools, third-party data | - | - | - | switches, functions, tables, straight-line initialisation |

`PROJECT.json` lists each part with its sources and says what of it is left out;
its hazard list names, line by line, what in this code a test would hardly reach,
with the properties that watch it.

## 2. The modules

Each module of the second column declares its state, its actions and its
properties by itself; the modules `MC...` put those that share no state side by
side. A behaviour of such a sum picks one part at the start and runs only that
one, so its states are the sum of the parts' states and not their product. The
theorems about a part, with the lemmas they rest on, follow its specification: in its
own module where they are long (`Mwfs` has `MwfsProof`), otherwise in the `MC...` module
that makes an instance of it, in terms of that instance. The theorems about a sum are in
its `MC...` module, behind those of its parts.

| Instance | Module | Models |
|---|---|---|
| `MCMwfs` | `Mwfs` | the file system, one action per sector write (`mwfs.h`) |
| | `MwfsAbs` | what the file system promises: atomic saves, renames in two steps |
| | `MwfsProof` | the inductive invariant of `Mwfs` and the theorems |
| `MCTcp` | `Tcp` | the connection, its peer and the network |
| `MCNet` | `IpOut`, `Dhcp`, `Dns`, `Tcp` | neighbour cache and parking place; the lease; lookups; a second connection over the first |
| | `HttpResp`, `Tls`, `CertChain`, `WebLoad` | a response in any pieces; records and handshake; chains; loads of pages one over the other |
| | `Numbers`, `Curves`, `Sealing` | limbs and Montgomery form; curves and X25519; GCM, hashed streams, padding |
| | `Dom`, `Css`, `Lines`, `Table` | tree; selectors and cascade; lines of a paragraph; tables |
| `MCMachine` | `Mm`, `ProgWin`, `Install`, `Vfs`, `Parts` | pages and heap; the program in its window; installations; namespace; partition table |
| `MCDevices` | `Queues`, `Floppy`, `Buses` | four disk drivers; track and sector buffers; the scan |
| | `NicRing`, `Usb`, `XhciRing`, `Input` | two network cards; plugging and enumeration; rings of xHCI; PS/2 and USB keys and pointer |
| `MCDesk` | `Frame`, `Scroll`, `Desk` | one window's frame; a scroll bar; the windows and what presses and keys do to them |
| | `Hangul`, `Typing`, `Docs` | syllables; texts and their one composition; documents, slots and windows |
| | `Tree`, `Files`, `Shell` | MiniFiles' two halves; MiniShell's session and input line |
| `MCLive` | eight of the above | what must end, on constants small enough to search for cycles |

How they fit together. `Mwfs` shows that saves, removals and renames are what
`MwfsAbs` says; `Docs`, `Vfs` and `Files` use a file system that is atomic in just
that way. What one part takes from another is any input the other may give:
`Tcp` meets `ip_send()` only in its verdict, which is a choice in `Tcp` (`Refused`)
and a checked promise in `IpOut` (`FailedNeverLeaves`); `WebLoad` takes from
`Dns`, `Tcp` and `HttpResp` that a lookup, a connection or a response succeeds,
fails or is still under way; `Curves` computes with integers modulo a prime
because `Numbers` shows that the limbs compute them; `CertChain` takes a signature
as the key that made it, which `Curves` checks for ECDSA and `Sealing` for the
padding of RSA; `Typing` counts the steps of a syllable and `Hangul` says what they spell. The lease is
an input of `IpOut` (`LeaseChanges`) and of `Dns` (`Configured`).

`PROJECT.json` maps the actions and the principal definitions to their lines; a helper
that serves only one of them stands for lines of the same range. Beside many definitions stands
a second one that differs from it in a single way ("KeepsOld" beside "Follows",
"BeforeBySpec" beside "Before"); no action uses it. It is what a plausible mistake
would look like, and TLC refutes the property it threatens when it is put in the
place of the other. `PROJECT.json` names one for every property of every
passing run, and the named parts of a property have their own, so none of them
holds by the shape of the model.

### Mwfs

State: `dir`, `itable`, `bitmap`, `sec` are on the disk; `op` is the call in
progress, with its locals and a `pc` that says which write comes next; `dirty`
remembers a power cut or an I/O error since the last repair was started. A call
is a chain of actions, one for each sector it writes, in the order of the code:

    put, copy   FilePut  (Alloc WriteData)*  StoreIno  Switch  FreeBit* FreeIno
    unlink      Unlink  FreeBit* FreeIno
    rename      RenameTo  RenameFrom  FreeBit* FreeIno
    check fix   CheckStart (WalkRemove | WalkReach Mark* MarkDone)* WalkDone
                (Orphan FreeBit* FreeIno)* OrphansDone Leak* CheckDone

`PowerCut` may come between any two of them. A write may fail without effect
("lost") or be reported failed although it has landed ("landed": the flush of
`ata_at_write()` times out after the sector is written); with `ReadFaults` a
sector may be unreadable. Abstractions: a version stands for the bytes, size and
CRC of a file, so "the CRC matches" is "all sectors hold this version"; files
have direct sectors only; the directory has a fixed number of entries that fit
its sectors; next-fit allocation is any free inode or sector. Bounds:
`MaxBlocks` and the sizes of the constant sets.

`CheckFirst` is a *policy of the user*, not of the code: with `TRUE` a volume
that suffered a power cut or a failed write is repaired before it is used
again. The code does not enforce it, and section 4 shows what follows when it is
not kept.

### Tcp

State: `conn` is `tcp_conn`; `app` what the application has written and read;
`peer` the server's end; `sent` every segment the kernel has ever put on the
wire. Any of them may arrive at any time and any number of times, so the network
loses, repeats, delays and reorders. The peer's segments are not kept: an honest
peer may send any slice of its stream with any window and any acknowledgement it
has ever been entitled to, which includes every old segment. `HandlePacket` is the
whole of `tcp_handle_packet()` including the acknowledgement it sends and the
pump it runs; `Become` writes the connection a handler leaves and the segments
it emits. Timers are abstracted: a timer that runs may have expired at any poll.
`SeqSpace` replaces 2^32 and the instances start at its edge, so that sequence
numbers wrap.

Left out: checksums (always right), options (the MSS is a constant), urgent
data. Bounds: `OutLen`, `InLen`, `Conns`.

### IpOut, Dhcp, Dns

`IpOut`: `cache` and `park` are `arp_cache` and `ip_pending`; `asked` is what is
on the wire; `verdict` and `frames` record what the callers of `ip_send()` were
told and what left the machine, for the first `Tracked` packets. A request's time
stamp keeps the low bits of the tick counter as in the code, so that an old
question may look recent again (`TickMod`).

`Dhcp`: one action per handler and timer. A transaction id is only ever compared
with the current one, so an ACK carries just whether it is `current`. The servers
count the lease down on their own; when it is over an address may go to another
machine. `Prompt` says that an ACK is heard within the second it was sent, or
never.

`Dns`: `dns` is `dns_client`; `wire` every question ever asked. Each may be
answered at any time, by the truth or by an error, with or without an echo of the
question. Ids come from a small set, so that lookups share them.

### Docs, Typing, Hangul

`Docs`: `dir` and `file` are `/docs`; `tab` the slot index, where a name without a
file is a reservation; `icon` the desktop's copy; `win` Notepad's windows. `home`
is a history variable: the name a window's document was last read from or saved
to. Every event is one step and does everything its handler does. Which actions
run which rescan is as in the code: `del` by number does not. `Careful` is again a
policy of the user: nobody removes, renames or overwrites by other means a document
that is open in Notepad. Only MiniFiles' delete and rename enforce it.

`Typing` is what happens to the texts: a text is the sequence of its bytes, a
letter one byte and a syllable three, so that a syllable may not fit where a letter
does. `comp` is the one composition and `meant` the text the user typed, from which
`AsTyped` judges. `Settles` says that the user ends a syllable before turning to
another window; section 4 says what happens otherwise. `Hangul` is the automaton that
makes syllables of keys, with its tables; a behaviour is a sequence of keys, and
`AsSpelt` reads the text back into the keys that spell it.

### The machine

`Mm`: sizes are counted in units of 16 bytes, memory is the partial function from
units to headers, and `held` is what callers own; a `Realloc` that stays where it is
records the size that was asked for. Frees may name any address ever handed out, also
twice. `ProgWin`: `cpu` says who executes; `owed` is what a program
took and has not given back. `Install`: a target is its system sectors, of which
sector 0 boots, and its root volume, one sector a step; the machine may be reset at any of
them. What was accepted may stand there as written ("new") or not ("bad"), a formatted root
volume may also open and be damaged behind ("flawed"), and a refused write may have landed:
the code reads the copied sectors back and of the root volume asks only that it opens.
`Vfs`: a volume is a table of inodes, an operation one step; `Norm` takes
the dots out of a path, `Resolve` walks what remains, and `Lookup` does so unless the
path is too long.
`Sensible` is a policy of the user: nobody moves a directory below itself. `Parts`: sectors in units, one
disk with its table, and the question that waits for a YES while other parts of the
desktop go on.

### Devices

Each module has the driver and the device: `Queues` a disk that executes a command
before or after the driver's patience ends, fails it, or never answers, a cache that
a power cut empties, and the rings with their phase bits; a fault that an ATA drive reports
after the data of a write is not read, as in the code, and `deaf` remembers that it was;
`Floppy` a head that slips
and a transfer that fails in the middle; `NicRing` a ring that the card fills while
the stack empties it; `Usb` devices that come and go between any two steps of an
enumeration; `XhciRing` two rings with a link and cycle bits; `Input` the i8042's one
buffer with bytes of two devices and USB beside it, whose keyboard's every report sets the
one `shift_held` that the PS/2 keyboard sets too; `ps2` remembers what the PS/2 keys alone
make of it.

### The way to a page

`HttpResp`: what a server sends is a sequence of a few kinds of byte, handed over in
any pieces. `Tls`: a record is a header unit and its payload, a handshake message two
units that records may separate; what a signature or a digest covers is the list of
messages. `CertChain`: certificates as records of names, keys, dates and extensions.
`WebLoad`: lease, lookup, connection and response are what this code sees of them;
the user may start the next load at any point.

`Numbers` keeps limbs, with their width and the carries, at four bits instead of 32;
each operation is checked against the integers. `Curves` runs scalar multiplication,
ECDHE, ECDSA and the ladder over a curve with 23 points and one over 29 elements,
against point addition by slopes. `Sealing` has GCM over a field of six bits, with
any permutation as the cipher, hashes as the sequence of blocks they took, and both
paddings.

`Dom`: a page is any sequence of tags of one theme, texts and raw elements, the
arenas are `NodeMax`, `AttrMax`, `PoolMax` and `StackMax`. `Css`: the selector as it is
written and what the arena holds of it are told apart, so that a rule that means
something else can be seen. `Lines`: fragments own stretches of the display list, as
in the code, and the list is compacted when words merge. `Table`: cells with spans,
row by row.

### The desktop

`Frame`: one window on a screen of a few pixels whose metrics keep the order they
have in the themes, a step for each poll of the mouse. `Scroll`: the coordinate along
the bar. `Desk`: which windows are open, minimized, in which order, and what waits
to be let go; where they lie is left out, so any may be under the pointer. `Tree`
and `Files`: the rows are a copy of the directory, and the directory changes behind
them. `Shell`: a piece of the input line remembers whether it was typed while a
password was asked for.

## 3. The runs that pass

States and times are those of two workers on an ordinary machine. Deadlock is not
checked where a bounded part comes to its end (the last connection of `Tcp`, a page of
`Length` tokens, a bounded number of lookups or keys): in `Tcp_stream`, `Net_safety`,
`Desk_safety` and `Live`. It is checked in the runs of `Mwfs`, in `Machine_safety` and in
`Devices_safety`.

**Mwfs_safety** (56 730 states, symmetric in names, inodes and sectors). Two
names, four inodes, four sectors and three versions of 0, 1 and 2 sectors, so
that a second save of a two-sector version finds the volume full, an old and a
new file and an orphan exist together, and a rename meets a file at its
destination. `FilesIntact` and `NoCrossLink` are the safety of files at every
sector write; `CleanWhenQuiet` says that without failures nothing is leaked, in
particular by saves that end early because the volume is full; `RepairLosesNoFile`
constrains what `part check fix` removes; and `ImplementsAbs` is the refinement:
mapped by `Reading`, `Pending` and `Twins` every behaviour is one of `MwfsAbs`, so a
power cut or a failed call leaves every name with its old or its new content and
touches no other.

**Mwfs_faults** (168 514 states). Three inodes, two sectors, two versions, writes
that are lost and writes that land but are reported failed, and reads that fail
anywhere. Files can be lost here, but `NoCrossLink` holds and `CallReturns` shows
that every call comes back, the repair's walk by position included.

**Tcp_stream** (108 656 states). One connection, three bytes out and two in, buffers
of two, windows from 0 to 2, segments of one or two bytes, one retry, sixteen
sequence numbers. That is enough for a queue that fills, a segment cut by the window,
a repeated segment that overlaps what is held, a FIN that overtakes data, a window
that shuts with data queued, and a refusal at any of them. `StreamsTrue`: both streams
arrive as they were written, nothing that was acknowledged is missing, and a FIN
counts only after all of it. `WireTrue`: a closed connection sends nothing, and a
retransmission sends the bytes it sent before. `Completes`: what is in flight, and a
close, come to an end.

**Net_safety** (1 850 720 states). Fifteen parts.

| Property | Parts and what of them |
|---|---|
| `PacketsGoRight` | one cache entry for a neighbour, a packet leaves once and never after its caller was told it failed; no address past its lease; a resolved address is the host's and every server was asked; nothing of a first connection reaches the second |
| `ResponsesWhole` | the end of a response is seen when and only when it is there and its body is what was sent; client and server of TLS agree on what was said, no record waits for ever for room, data is whole |
| `TrustIsEarned` | a chain is trusted if and only if it is in order, in date, for this host and ends in an anchor; limbs compute what integers do; points stay on the curve, both ends of an exchange get one secret, a signature that is taken is the key's; what opens is what was sealed and no keystream is used twice |
| `ShowsWhatWasAsked` | the page that is shown is the one asked for last, over the right transport; a form goes only where it was sent, redirects end |
| `TreeAndStyle` | the document is one tree, the stack of open elements a path of it, the arenas whole; a selector matches by a path, every rule that matches is found, the declaration that counts is the cascade's |
| `LaidOut` | every item of a line belongs to one fragment, no text is lost or drawn over another, lines break where they can; cells do not overlap, columns keep their contents' widths, rows their heights |
| `StepsRight` | a parked packet leaves by the next hop of its moment; a digest is that of all that was fed in, however it was cut; no end tag inside a cell closes what is outside |

Bounds, part by part (in `MCNet`): three neighbours, a cache of two and two leases with
different gateways; two servers, two addresses, leases of eight seconds; two lookups
with two ids and every list of servers; a connection of one byte each way after
another; bodies that look like the framing around them, in pieces of up to three
bytes; a flight as one record, cut inside a message, and as one record per
message; chains of one to four certificates with one thing wrong at each place;
two acts of the user and two redirects; bignums of three limbs of four bits;
pages of five tokens in arenas smaller than they ask for; sheets of three rule sets; lines of
four things around the width of the box; tables of five cells.

**Machine_safety** (3 514 543 states). `MemorySound`: blocks tile their chunks, no
byte or page has two owners, what fits is found, only what is held is freed, and the
heap gives its pages back. `ProgramsApart`: a program that is
left or ended anywhere leaves nothing of itself in the kernel, and its keys reach it
in order. `DisksSound`: the new boot sector is on a target only after every other sector
and the format of the root volume were accepted, and "done" is said only when all copied
sectors were read back as they should be and the root volume opens (not that a target
that starts is whole: see `Install_half`); directories are a tree; the current directory is on a
mounted volume and what a mount covers stays empty; partitions do not overlap, a gap
that is offered is free, and the entry the system runs from stays as it is.
`StepsSound`: a sleep is not cut short; other boot code is kept, one job runs at a
time; a move keeps what it moves. Bounds: six
pages in two chunks; two programs, a ring of three keys; a disk and a partition as
targets of two sectors; three inodes and paths of three names on two volumes; a disk
of eight units with two entries.

**Devices_safety** (2 668 184 states). `DrivesKeep`: a write that was acknowledged, and of
which the device reported no fault (see `Ata_unsaid`), survives a power cut and stands where
it was written; the track buffer says what the
medium says and the head is where the driver believes; a device keeps its number.
`RingsAgree`: the driver of a card always reads where a frame begins, an answer in the ring
is heard before the timer it would stop; a device pulled out is noticed, each table entry has
one user; both ends of an xHCI ring agree on the lap. `InputTrue`: bytes stay framed,
movement is not lost, a key that was let go does not repeat. `AnswersMatch`: an
answer is taken for the call it belongs to, a receipt for its frame, a report for
its device; the keys of the PS/2 keyboard come in their order, with their shift unless a
USB keyboard is there and has changed it; a key that is new in a report is typed once. Bounds:
rings of two and three, two sectors, two ports, three plugs, four frames, reports with room
for one key, so that a second one overflows them.

**Desk_safety** (1 597 528 states). `WindowsStand`: a maximized window comes back where
it was, a resize moves only its edges, a scroll bar reaches both ends; the stack holds
exactly the open windows and the focus is its last. `SessionsTrue`: a password never shows
and a root prompt was earned; the index of documents matches the directory and no two
windows have one document. `TypedIsMeant`: a text is what was typed; the tree of folders is
one, its mark stays on its folder. `GesturesObeyed`: a window stays where it can be taken
hold of, the thumb follows the hand, a question closes its window only by its answer, an
installation starts as it was asked for; a save of Notepad writes only over its own, "Yes"
keeps the text, a slot keeps its number. `FilesSafe`: a save writes what is shown; what is
done to a row is done to the file that the user saw there, and nothing is written over.
Bounds: a screen of 18 by 12 pixels with metrics small enough that a drag meets each of its
four limits and a resize the least size, four kinds of window, six keys, five edits of
seven bytes, six folders of which five fit, two folders with two names.

**Live** (38 628 states). `Reaches`: two destinations that fight for one cache entry
are both reached. `GetsAddress`: the machine gets an address. `CallsEnd`: a lookup, a
load over https, a call of a disk driver or of the xHCI driver comes to an end,
whatever the other side does. `WorkGoesOn`: an installation ends also when its window is
closed in the middle, and a program that only polls the keys gives the desktop its turn.
The constants are smaller than in the safety runs, because the whole graph is searched
for cycles; each part still has the case that could starve: one cache entry for two
neighbours, a server that never grants, a server that never answers, a device that is
dead, late, or answers twice.

### Fairness

Only what the code's scheduling gives: `Mwfs` `WF(Step)`, because a file system
call runs to its end before anything else; `Tcp` weak fairness of the poll that
retransmits and of the pump when it changes something, because
`tcp_poll_retransmit()` is called in every pass of the main loop and both clocks
have a backstop counted in passes. In `MCLive` the polls of the main loop are
weakly fair for the same reason (`Weak1` to `Weak5`: the clock and the polls of
`Dns` and `Dhcp`, `pw_step`, `term_install_poll` and the installer's frame,
`https_poll`), and so are the loops of a driver that counts its patience down; a
disk's or a controller's execution is fair only as far as the device lives, which it
may cease to do. What depends on others needs strong fairness of the others, and it is
stated there: in `IpOut` senders that retry at a time when the question does not
count as asked, and a neighbour that is asked again and again and is heard at last;
in `Dhcp` one server (`s2`) that is heard if it is asked again and again, while the
other (`s1`) may offer and refuse for ever; in `ProgWin` a program that keeps polling.
`part` never changes, so fairness of a disjunction over the parts is the fairness of
the one that runs.

## 4. The runs that find something

Each checks one statement of a comment, and TLC refutes it by what the code does.

- **Mwfs_orphan** (`mwfs.h:783`): an unreadable sector of the directory ends the
  walk of the repair as if there were no more entries, without `r->incomplete`;
  the files that follow are then released as orphans.
- **Vfs_itself** (`mwfs.h:606`): a directory moved below itself points at itself and
  is reachable under no name. In `Machine_safety` the tree holds when nobody does that
  (`Sensible`).
- **Install_half** (`os_inst.h:194`): "An install that fails or is interrupted part-way
  therefore never looks bootable" (`os_inst.h:26`), and the window's page says "The target disk
  is not bootable now" (`installer.h:297`). But the boot sector is written before anything is
  read back, and no failure after it takes it off: the target then starts over a sector
  or a root volume that is not as it should be.
- **Ata_unsaid** (`ata.h:128`): after the data of a write the driver waits for BSY alone and
  looks at neither ERR nor DF, then sends the flush and returns the status of that, so a
  write that the drive reported failed is a success, against "0 on any error/fault/timeout".

Seen while reading and modelled as the code has it, without a run of their own. The
first ones can be had from the instances by giving one constant another value.

*With a policy dropped.*

- `CheckFirst = FALSE` (`mwfs.h:338`): a power cut between the freed sectors of an
  inode and the inode itself leaves an orphan whose pointers name free sectors.
  Nothing checks a volume at boot. If it is used first, another file takes those
  sectors, and the repair that comes then frees the sectors of a live file.
- `WriteFaults = {"landed"}` (`mwfs.h:508`): a directory write that has landed but is
  reported failed makes the save release the inode the name now points at,
  against "the old file is untouched". `FilesIntact` falls.
- `Prompt = FALSE` (`dhcp.h:295`): the age of a lease is counted from the moment the
  ACK is heard, so after a delayed one the address is used past its lease.
- `Careful = FALSE` (`apps/notepad/save.h:48`): a document open in Notepad is removed by
  the shell, a program or MiniFiles' Cut and Paste; its slot goes to another
  document, and the window's next Save overwrites that one.
- `Fails = {"unlink"}` (`apps/terminal.h:382`): the result of `fs_delete_slot()` is
  ignored and the icon goes although the file is still there.
- `BootBase = 0` with the system on the whole disk (`apps/shell_part.h:267`):
  `part create` takes the boot sector's empty table for a blank disk's and overwrites
  the boot sector (`BootKept` falls).
- `Flaky` sticks (`usb/core.h:65`): a device that fails after it got its address
  keeps it, and the next one gets the same (`OneAddress` falls).
- `Losses = TRUE` with the fairness of `Tls` (`http.h:98`): a connection lost while the
  request is being sent, or inside a record, is not looked at, and the load hangs.
- `Settles = FALSE` (`hangul_ime.h:179`): a syllable composed in one window is
  committed into the next one, or lost.
- `Patient = FALSE` in `Files` and `Shell`: the box of a rename stays at its row number
  while the rows are sorted or read anew; a question that waits for YES outlives the
  session that asked it. In `XhciRing` (`usb/xhci.h`): commands that time out again and
  again overrun the ring.

*Installer.* "Everything is read back" (`os_inst.h:29`) is said also of the root volume, which
is only asked to open (`os_inst.h:203`). `inst_gui_owns` "is 1 while that window is the one
stepping the job" (`os_inst.h:71`; `OwnerSteps` of `Install`), and stays 1 when it has finished:
a job confirmed in the shell then waits until the window is closed, which is why `JobEnds`
speaks of jobs of the shell without such a window.

*Keyboards.* Every report of a USB keyboard sets `shift_held` and `ctrl_held` from its own
modifiers (`hid.h:54`), so one that comes between Shift and a key of the PS/2 keyboard takes
that Shift away.

*Files and disks.* `part format` looks whether the partition is mounted when it asks its
question and not when it is answered: MiniFiles may mount the partition while the
question waits, and it is then formatted under its mount, against the manual
(`docs/user/TERMINAL.md:81`); `MountedWhole` of `Parts` says so and does not hold.
`mwfs_unlink()` of one twin of an interrupted rename (`mwfs.h:593`)
releases the inode of the other, whose name then dangles, although the comment
promises no dangling name. With more documents than slots a file without a slot is
unknown to the index (`fs.h:91`) and Save As overwrites it. A Save As that fails
leaves its default name reserved until the next boot (`apps/notepad/save.h:144`).
`vfs_cp()` and `vfs_mv()` treat an error of the destination's lookup as "not there".
A command of NVMe or the SAS controller that timed out may complete into the buffer of
the next one (`nvme.h:105`); the AHCI driver shares one slice of memory for that
(`ahci.h:220`); the floppy driver does not reset the controller after a result phase
that failed; the block cached of a disc survives its change. `mm_init()` truncates the
size of the bitmap (`mm.h:70`).

*Network.* TCP has no TIME_WAIT: after the peer's FIN in `FIN_WAIT_2` a repeated FIN gets
no answer (`tcp.h:524`), and data repeated after the kernel's own FIN none either
(`tcp.h:653`), although the header of the function says old data gets one
(`tcp.h:508`). DHCP counts the repetitions of DISCOVER and of REQUEST with one
counter (`dhcp.h:427`), against the comment (`dhcp.h:349`). The text above
`dns_poll()` says there is no retry (`dns.h:414`); the code tries the next server
(`dns.h:423`). A resolved neighbour never expires (`arp.h:212`). Elapsed seconds are
taken modulo a day (`netclock.h:25`). `net_stack_poll()` has no bound under a flood.
`https_poll()` does not close the connection when TLS fails; a truncated body is shown
as if it were whole; a redirect to another scheme is reported as too many
redirects. `bn_modpow()` of modulus 1 and exponent 0 is 1; `x25519` does not mask the
top bit of the peer's coordinate.

*Pages.* The third class of a compound is counted and not kept, so a rule matches more than
was written (`css.h:574`; `NoWider` of `Css` says so and does not hold; `Net_safety` checks the
cascade of what the arena holds). The first line that ends takes the waiting marker of a
list item; when the item begins with an inline block that is a line inside the block, which
is moved afterwards and leaves the marker behind (`layout.h:281`; `MarkerAtFirstLine` of
`Lines`). An element beyond the stack's end is not pushed, so its end tag closes an
outer one; `dom_foreign` stays positive after `<div><svg></div>` (`dom.h:145`);
compounds and declarations beyond their arenas are dropped without `css_overflowed`;
`width: inherit` is ignored; when the stack of fragments is full, a line is finished
without the shift of its items (`layout.h:317`); cells may overlap where a colspan
crosses a rowspan, which is why `CellsApart` leaves those out.

*Desktop.* A window that is minimized stays so when its icon opens it again, while the
status line says it was opened; a menu's owner survives its window; a title bar can be
pushed off the screen by its upper edge (`ui/input.h:85`); a resize that is still held
goes on in a maximized window (`ui/resize.h:47`), when a release and a new press fall into
one frame, which `Frame` leaves out. "Select All" and the undo snapshot
survive New and Close (`apps/notepad/save.h:176`); turning the input method off
leaves a syllable composing; a syllable without room is dropped at its commit
(`hangul_ime.h:193`). MiniShell's changes to a folder show in MiniFiles only after
Refresh; MiniFiles' Install may begin the next password prompt's line
(`apps/minifiles.h:506`); after Clear the progress of an installation is written over
another line (`apps/terminal.h:841`).

## 5. What is proved

The theorems are about a part of the code for any values of its constants, or, in
`MCMachine`, `MCDevices` and `MCDesk`, about all the parts side by side. Each
rests on an invariant that is stated in the same module. The theorems of `ProgWin`,
`Install` and `Parts` are in `MCMachine`, those of the drivers but `Usb` in `MCDevices`, and
those of `Frame`, `Scroll`, `Desk`, `Shell` and `Docs` in `MCDesk`: there `Window!`, `Job!`,
`Que!`, `Frm!`, `Bar!`, `Dsk!`, `Shl!`, `Doc!` and so on are the instances, with their
constants free. TLC has checked these
invariants on the instances of the runs, leaving out memberships in sets it cannot
enumerate; the proofs are about any instance. Every action has a lemma that it keeps the invariant, one for
every conjunct it can disturb where that is not short.

| Module | Theorem | Under | Says |
|---|---|---|---|
| `MwfsProof` | `TypeCorrect` | | `[]TypeOK` |
| | `FilesStayIntact` | `Policy` | `[]FilesIntact` |
| | `RepairKeepsFiles` | `Policy` | `RepairLosesNoFile` |
| | `CleanBetweenCalls` | `Policy` | `[]CleanWhenQuiet` |
| | `KeepsThePromise` | `Policy` | `ImplementsAbs`: `Mwfs` implements `MwfsAbs` |
| | `FilesStayApart` | `CheckFirst` | `[]NoCrossLink` |
| `Tcp` | `ConnectionTyped` | | `[]TypeOK` |
| | `StreamsStayTrue` | | `[]StreamsTrue` |
| | `WireStaysTrue` | | `WireTrue` |
| `Mm` | `MemoryTyped`, `HeapHealthy` | | types; `mm_check()` finds nothing wrong |
| | `MemoryIsOnes` | | `NobodysTwice`, `FreesWhatIsHeld`, `HeapShrinks`, `FindsRoom` |
| `Vfs` | `TreesTyped`, `NamesAreOne` | | types; `OneName`, `MntStaysEmpty`, `CwdMounted` |
| | `MovesKeep` | | `MoveKeeps` |
| | `TreesStay` | `Sensible` | `[]Tree` |
| `MCMachine`: `ProgWin` | `RunsTyped`, `RunsApart` | | types; `NothingLeft`, `PointsHome`, `OwnCode`, `KeysInOrder` |
| | `SleepsThrough` | `ClockWide` | `SleepsEnough` |
| `MCMachine`: `Install` | `JobTyped`, `BootSectorComesLast` | | types; `BootSectorLast`, `DoneMeansVerified` |
| | `OthersBootStays`, `OneJobAtATime` | | `BootcodeKept`; `OneJob` |
| `MCMachine`: `Parts` | `TablesStayApart` | `TableOK` | types, `Disjoint`, `FindsGap` |
| | `RunningSystemSpared` | `TableOK`, a `HomeOf` | `[]BootKept` |
| `MCMachine` | `MachineTyped` | | `[]TypeOK` |
| | `MemoryStaysSound`, `ProgramsStayApart` | | `MemorySound`, `ProgramsApart` |
| | `StepsStaySound` | `ClockWide` | `StepsSound` |
| | `DisksStaySound` | `BootBase # 0`, `Sensible` | `[]DisksSound` |
| `Usb` | `PortsStayTrue` | `Steady`, `Roomy` | types, `Noticed`, `OneUser`, `OwnReports` |
| `MCDevices`: `Queues` | `DisksKeep`, `DisksAnswer` | `Coped` | types, `Survives`, `AtHome`; `ReadTrue`, `OwnAnswer` |
| `MCDevices`: `Floppy` | `TrackStaysTrue` | | types, `BufferTrue`, `FindsPlace` |
| `MCDevices`: `Buses` | `NumbersStay` | | types, `KeepsItsNumber`, `OneDoor` |
| `MCDevices`: `NicRing` | `RingsStayInStep`, `FramesInTurn` | | types, `NotWedged`, `AnswersFirst`; `InOrder`, `ReceiptIsTrue` |
| `MCDevices`: `XhciRing` | `LapsStayCounted` | `Patient` | types, `LapsAgree`, `AnsweredItself` |
| `MCDevices`: `Input` | `HandsAreFollowed`, `KeysAreMeant` | | types, `Framed`, `NoDrift`, `RepeatStops`; `TypedAsPressed`, `PressedOnce` |
| `MCDevices` | `DrivesStayTrue` | `Coped` | `[]DrivesKeep` |
| | `RingsStayAgreed` | `Patient`, `Steady`, `Roomy` | `[]RingsAgree` |
| | `HandsStayFollowed` | | `[]InputTrue` |
| | `AnswersStayMatched` | `Coped`, `Steady`, `Roomy` | `AnswersMatch` |
| | `DriversKeepTypes` | all four | `[]TypeOK` |
| `MCDesk`: `Frame` | `FramesStand`, `StaysMovable` | | types, `ComesBack`, `SidesNearlyStay`; `MovableAgain` |
| `MCDesk`: `Scroll` | `BarsReach`, `ThumbsFollow` | | types, `EndsReached`; `ThumbFollows` |
| `MCDesk`: `Desk` | `StackStands`, `ClosesWhenAnswered` | | types, `StackMatches`, `FocusIsLast`; `ClosesByAnswer` |
| `MCDesk`: `Shell` | `NothingEchoed`, `InstallsAsAsked` | `Patient` | types, `NeverEchoed`, `RootIsEarned`; `StartsAsAsked`, `OwnLineOnly` |
| `MCDesk`: `Docs` | `IndexStands`, `SavesStayApart` | `Spared` | types, `IndexMatches`, `BoundToItsDocument`; `SavesOnlyItsOwn`, `YesKeepsText`, `SlotsKeepTheirNumber` |
| `MCDesk` | `WindowsStayStanding` | | `[]WindowsStand` |
| | `SessionsStayTrue`, `GesturesAreObeyed` | `Patient`, `Spared` | `[]SessionsTrue`; `GesturesObeyed` |

### What is assumed

The named assumptions of the modules say what kind of thing each constant is: in
`Mwfs` and `Tcp` as `ASSUME`, in the parts of the machine, in the drivers and in the desktop
as `ConstantsOK`, which every theorem about a part has as a hypothesis and which
`MCMachine`, `MCDevices` and `MCDesk` assume of their instances (`InstancesOK`), where TLC
evaluates it. In `Frame` it says how the metrics of a theme compare: the three buttons fit
beside each other in the narrowest window (`MIN_WIN_W` 170, `BTN_W` 13), the title bar is
taller than the edge that resizes (`TITLEBAR_H` 15 or 16, a margin of 4), and the 20 pixels that
stay on the screen are more than the rightmost button takes; in `Scroll` that a thumb has at
least three pixels (`SB_MIN_THUMB` is 10). Beyond that:

- `Policy == CheckFirst /\ ~ReadFaults /\ WriteFaults \subseteq {"lost"}`, the policy of
  `Mwfs_safety`. None of its conjuncts can go: `Mwfs_orphan` drops the second, and
  section 4 says what follows from dropping the others. `CheckFirst` alone is enough for
  `FilesStayApart`.
- `ShortStreams`: twice a stream, with a buffer, is less than the sequence space. The
  code compares sequence numbers by the sign of a 32-bit difference and takes any
  acknowledgement that equals `nxt`; with streams beyond half of the space, an old
  segment would have the number of a new one.
- `ClockWide`: a sleep ends by the sign of a difference of clocks, so the longest sleep
  of the model must be less than half of the clock's range.
- `TableOK`: the table on the boot disk is one with its entries apart and on the disk.
- `HomeOf(h)`, for some entry h: the system runs from a partition. Where it runs from the
  whole disk (`BootBase = 0`), section 4 says what `part create` does to it.
  `MCMachine` assumes both of the table it starts with (`BootTableOK`), and TLC evaluates it.
- `Sensible`: no directory is moved below itself; `Vfs_itself` shows that it can be.
- `Coped == Late \subseteq {"ata", "ahci"}`: devices that answer after the driver gave
  up on them are ATA or AHCI, whose drivers wait for the line or restart the port. The
  commands of NVMe and MPT may then complete into the buffer of the next one (section 4).
- `Patient` of `XhciRing`: the controller answers before the driver gives up; otherwise
  commands that time out again and again overrun the ring (section 4).
- `Patient` of `Shell`: a question is answered before its session ends or an installation is
  started by other means, and the screen is not cleared while one runs. Section 4 says what
  becomes of the question, the prompt and the progress's row otherwise.
- `Spared == Careful /\ "unlink" \notin Fails`: nobody but MiniFiles removes, renames or
  overwrites a document that is open in Notepad, and the file system does not refuse a removal.
  Without the first a window saves over another document, without the second an icon goes whose
  file is still there (section 4).
- `Steady == ~Flaky /\ ~Racing /\ Sticks \subseteq {"xhci"}`: a device that is there does
  not fail a transfer; no xHCI transfer ends between the events of a pass and its
  scan; devices that MiniWin cannot use are met by xHCI only. Section 4 shows what becomes of
  addresses without the last.
- `Roomy == Ports <= MaxDevs /\ Ports <= MaxInt`: the table (12 entries) and the
  interrupt endpoints (4 with EHCI and OHCI, 6 slots with xHCI) are enough for a device on
  every port. Without it a device that finds no place is left alone, at address 0, until
  it is plugged in again, so `Noticed` could not hold.

### The file system

`TypeOK` is not inductive: a save that took more sectors than its version has would
index past its array. `TInv` adds `LocalsInv`, which says where the loop counter is at
each `pc` and that the walk of the repair holds names in use.

`FilesIntact` is not inductive either. It says nothing of files without a name,
and one of those gets a name in the next step. `IInv == OnDisk /\ InMemory` adds

- `FreeIsEmpty`, `OneOwner`: no sector has two owners, whoever has a name;
- `AllMarked`, `OneName`: with nothing to repair, what an inode owns is marked
  used, and no two names share an inode but those of the rename in progress;
- `SaveInv`: the inode of a save has no name, its sectors belong to nobody else and
  are marked, and as many of them as the loop has passed hold the new content, so
  that `Switch` gives the name a whole file;
- `MoveInv`, `ReleaseInv`: the file a rename replaces and an inode being released
  have no name;
- `CheckInv`: what the walk has reached is what the entries it has passed point at,
  so an inode it has not reached after the walk has no name, and an entry it
  removes has an earlier twin.

`CleanWhenQuiet` speaks of the state between calls and needs to know, inside a call,
what is still to be given back: `NothingLost` says that an inode without a name is the
one of the call in progress (or one the repair has yet to visit), that a marked sector
without an owner is one the call or the repair has yet to free, and that a release
frees all that its inode has. The refinement maps each sector write: `Switch`,
`Unlink`, `RenameTo`, `RenameFrom` and the removals of the repair are steps of
`MwfsAbs`, all the others stutter, because the name's content is read through the
directory and no file with a name is written. `AbsInv` adds to `IInv` that the only
two names of one inode are the pair of a rename that a power cut left behind.

`NoCrossLink` needs less: reads may fail, and writes may land and be reported failed.
Names can then point anywhere, so `SInv` does not mention them. It keeps `FreeIsEmpty`,
`OneOwner` and `AllMarked`, says that a save takes unmarked sectors only while nothing
has failed (`TakesFree`), that a release is of the inode's own sectors (`GivesOwn`),
and what a repair without failures must have marked before it lets the volume be used
(`ChecksAll`).

### The connection

Sequence numbers are compared after they wrapped, so nothing about the streams
follows from the numbers alone. The invariant counts instead: `Acked` is how much of
the stream the queue no longer holds, `Got` how much the application has read or can
read, and the parts of `Whole` say that

- the queue is the stretch of the written stream after `Acked` (`QueueOK`), what is read
  and what waits are the first `Got` bytes of the peer's (`ReceiptOK`), and the peer has
  at least what is acknowledged and at most what is written (`PeerOK`);
- `una`, `nxt` and `rcv` are those counts, plus one for a SYN or FIN that is out,
  modulo `SeqSpace` (`FlightOK`, `ReceiptOK`);
- whatever was ever put on the wire carries the bytes that were written at its number,
  and what a timer would send again is there already (`WireOK`).

`PlusDiffers` and `Distance` are the arithmetic: two counts less than `SeqSpace` apart
with the same number are equal, and the sign of the difference of two numbers is the
order of their counts while the streams are short. With them each branch of
`tcp_handle_packet()` has a lemma that keeps `Whole`, for the segment and for all
the segments and acknowledgements it leads to (`Outcome`), an honest peer's segment
being one that is some slice of its stream at its number (`Honest`).

### The machine

*`Mm`.* That the blocks of a chunk lie end to end is a statement about a walk along the
chunk. The invariant says it locally: each header ends at the chunk's end or at another
header that points back, each but the first has one that ends at it, and no two
overlap (`Linked`, `Chain`); no two free ones are neighbours (`Tidy`); every chunk but the
first has a block in use. Splitting and joining change two links. `HeldOK` and `RunsOK`
tie what the callers hold to headers in use and to pages outside the heap.

*`ProgWin`.* The processor is the window's only while its program runs, and guard page,
stack, surface and speaker are there for a run only (`Whose`); what the ring holds between
its ends is what is owed, in order (`Ordered`), which with `RingPlace` covers the wrap. For
the sleeps, `Due` says that the clock is short of its end by the time that is left.

*`Install`.* What is on the target at each phase: sector 0 is not the new one before the
others and the root volume were accepted (`Writes`), and what the read back has passed is as
it should be (`Verifies`, `Verified`). A reset may come at any step, so `BootSectorLast` is
about the disk alone, and what an earlier job left counts as "old" or "blank" for the next
one (`Earlier`).

*`Vfs`.* `Sound` is about one table of inodes: what is allocated has one name, entries
point at what is allocated, files and free inodes have no entries. A tree is more than that, for
a circle of directories has one name for each of its members; `Grounded` says that no
set of inodes without the root holds its own parents, which each operation keeps without
any induction over paths. `Walk` is what a successful lookup has passed on its way; with it
the targets of `cd`, `mv` and `rm` are what the code believes them to be.

*`Parts`.* Entries are apart (`GoodTabs`), and what a pending question is about is still
what it was when it was asked (`Asked`). `part create` begins with the whole disk as one gap
and cuts each entry out of the gaps there are; the proof follows it by induction over the
entries, in the form of a set of numbers (`NatSet`): after each of them the gaps are free and
apart, and every free stretch lies in one of them (`GoodGaps`). So a gap is offered if and only
if there is one, and without a size it is the largest. `Home` says of the entry that the
system runs from that it is as it was at the start.

*`MCMachine`.* A step of the machine is a step of one part or leaves its variables alone
(`WindowSteps` to `DiskSteps`), so what is proved of the parts holds of it.

### The devices

*`Queues`.* While the driver waits, its own command is on its way, answered or lost
(`Waiting`), and whatever says that it succeeded is true (`Truthful`), but for a write of ATA
whose fault was reported and not read: that call is `deaf` until it returns. That no older
completion can be taken for it is the lap: the entries of an NVMe ring before the head
carry the phase of this lap and the others that of the last one (`Lapped`), for any
length of the ring. `Believed` ties what the callers were told, by calls that were not
`deaf`, to the sectors.

*`Floppy`.* The buffer is the track but for the sector that is being written
(`Buffered`); the fourth attempt is reached only after a fault, for the third finds the
place (`UnderWay`).

*`Buses`.* A table lists places of its bus, each once and no more than fit (`Tables`),
and a number, once known, leads to the place it was given for (`Numbers`). Which
numbers a scan hands out is a matter of ranks in a finite set.

*`NicRing`.* Receiving: descriptors between the driver's and the card's place are those
the card may write (E1000), and from one frame in the RTL8139's buffer the next begins
where the length says, across the wrap (`Chained`), each with a greater number than what
was handed up (`Fresh`). Sending: the slots between the ends are those in use
(`Transmits`).

*`XhciRing`.* What is written in this lap carries the cycle bit, the rest of the ring the
other (`Laid`); while a call pushes, the ring has room for what is left (`Room`); a
completion that waits is that of the call's last TRB (`Pending`).

*`Usb`.* An entry is for one port, an endpoint for one entry (`Table`); the
names by which a model tells devices apart (`Names`) connect what a port has, what an
entry was made for and what is being enumerated, although any of the three may
change between two transfers of an enumeration. A port is enabled only for a device
that was found there and has had no news since (`Faces`), so that a port without news has
the entry of its device (`Known`) and an address is that of an entry (`Addressed`). An
armed endpoint is at the device of its entry and an error is noted only of one that is
gone (`Wired`). That an entry and an endpoint are free whenever `Roomy` says so is the
pigeonhole principle over ports (`FreeEntry`, `FreeEnd`).

*`Input`.* The bytes in the controller's one buffer and behind it, with what the driver
has of a packet, are a packet in order (`Framing`) whose movement is what the pointer
lacks (`Balance`); the keys that were pressed and not read are those of the bytes
that were not read (`Keying`); what repeats is in the last report and,
without a USB keyboard, the shift is that of the PS/2 keys (`Reporting`). In
`PressedOnce` a report that holds more keys than its six places says nothing of any of
them, and so presses none (`Fits`).

### The desktop

*`Frame`.* The proof of `MovableAgain` names the pixel at which the window can be taken again:
between its rightmost button and its edge, or, where that is beyond the screen, near the left
end of its title bar (`CanMove`). `FrameInv` adds that what is maximized is not held and
remembers the place it had, that nothing is held while a button is down, and, for
`SidesNearlyStay`, where the pointer may have taken an edge (`SidesAt`).

*`Scroll`.* Two divisions round, one from the position to the thumb and one back. Each is held
between its bounds (`QuotientAtLeast`, `QuotientAtMost`), so a thumb at the end of its way shows
the end (`EndsMet`); and since it was taken at a position that both divisions give back but for the
rounding, moving it one way never shows less of that way (`FollowsHand`).

*`Desk`.* Whatever a handler does, it leaves the windows as they are, brings one to the front or
closes one, and one of Notepad only by its answer (`Moves`): each action has a lemma that says
so. Raising and closing keep every open window once in the stack and the others in their order
(`DroppedIs`, `RaisedIs`, `DeskWinsOK`). Over a stack like that the choice of the focus, which
walks it from the top, is the window that was dealt with last, if that is shown.

*`Shell`.* While no password is asked for, nothing in the input line is part of one
(`SessionOK`), so what the line echoes or leaves in the ring is no secret; the progress's row is
as many rows behind the newest as were printed since, across the end of the ring (`ScreenOK`,
`RowBehind`), so what is printed falls on another row; a question that waits is that of
the line entered last (`QuestionOK`).

*`Docs`.* `DocsInv == DiskOK /\ IndexOK /\ DocWinsOK /\ BoundOK`: names of `/docs` have inodes
of their own; no name is twice in the index, a used slot has its file and that file's inode, and
its icon; a closed window is blank; an open window with a slot has the document of that name,
and no other window has the slot. What others change in the directory is seen by a rescan, the
step that could disturb all of it: a slot whose name is still there keeps it and new names get
free slots, one each (`RescanIs`), for any number of both. That a save goes to the window's
own slot or to a free one under a name of no file is `TargetIs`.

*`MCDesk`.* As in `MCMachine`: a step is one of one part (`FrameSteps` to `DocSteps`) and where
it is a part's turn, what changes is its own (`TurnOfFrame` to `TurnOfDocs`).

### What is only model-checked

- Liveness (`CallReturns`, `Completes` and all of `Live`), which needs `ENABLED` and
  fairness.
- Induction over data: what `Numbers`, `Curves`, `Sealing`, `Table`, `Css` and `Hangul`
  compute, and the walk of a page's tags in `Dom` and `Lines`. Where a proof needs an
  induction over numbers that can be put as a set of them, it takes the least
  counterexample (`NatSet` in `MCMachine`, `Least` in `MCDevices` and `Usb`); over texts, trees
  and limbs there is no such form the provers take.
- `HttpResp` and `Tls`, whose `RECURSIVE` operators the provers do not take, and with them
  the composition `MCNet`.
- USB where `Steady` or `Roomy` fails, xHCI where `Patient` fails, and late devices beyond
  `Coped`: section 4 has the runs of those that are wrong.
- Of the desktop: `Files`, whose rows are sorted, and `Tree`, which is walked, so that both are
  inductions over data; `Typing` and `Hangul`, whose properties compare texts; and with them
  `TypedIsMeant`, `FilesSafe` and `MCDesk`'s `TypeOK`, which speaks of all nine parts. The types
  of the other five are in their theorems.
- `IpOut`, `Dhcp`, `Dns`, `CertChain` and `WebLoad`, whose properties are parts of those of
  `MCNet`.

## 6. The plan

Modelled and checked: every part of the inventory but the last row. What could still be
proved, over any set of neighbours, leases, lookups and rows:

1. `IpOut`: one entry for a neighbour, and what failed never leaves; `Dhcp`: no address
   past its lease; `Dns`: what is resolved is the host's.
2. `Typing`: `Edits` of a text with room for it are what was typed, with texts as functions.

What could still be modelled: flex boxes and grids of the layout, where intrinsic
widths are taken twice; media queries; the growth of a directory's own sectors and
indirect blocks of MWFS; the index over `/progs`; GPT and logical partitions, which are
only read.

## 7. What is not modelled, and why

- *Formats*: wire layouts, headers, checksums, DER, entities, CSS values, wording.
  They are left out of the modules above wherever no property speaks of them. Their
  faults are faults of single inputs, for which vectors and golden files are the
  better tool.
- *The insides of ciphers*: a block cipher is any permutation (`E` in `Sealing`), a
  compression function what it is applied to. HMAC and the key schedule apply them in
  a straight line.
- *Drawing, fonts, settings*: pixels, and switches that one assignment writes. The parts
  they belong to take them from sets.
- *Boot code, register access, PCI, initialisation*: straight lines, and the
  hardware's own timing.
- *Generated and third-party data*: fonts, icons and root certificates, a large share
  of the lines of the repository.
- *Within the modelled parts*: what `PROJECT.json` says beside "partly" and in each
  note; the places of icons and items on the screen; a release and a new press
  within one frame.
