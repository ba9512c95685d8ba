# libsamsung-ipc in TLA+

libsamsung-ipc boots the modems of Samsung phones and speaks the Samsung IPC
protocol with them. This directory models it in TLA+, checks the models with
TLC and proves with TLAPS that every invariant, action property and refinement
the passing runs check holds for all values of the constants.
Paths below are relative to the repository root (`src/`).

Run from this directory: `tlc -config X.cfg M` for a run of the table below,
`tlapm M.tla` for the proofs of each module M whose name ends in `Proofs`.

## 1. The system

| Part | State it keeps | Operations | What makes it correct |
|---|---|---|---|
| nv_data store (`samsung-ipc/rfs.c`, `utils.c`) | `nv_data.bin`, its MD5, a backup pair, all in the file system | load, restore, backup, read, write | no torn image reaches the modem, acknowledged data survive crashes, an intact backup is not given up while files can be read |
| XMM626 HSIC boot (`modems/xmm626/xmm626_hsic.c`) | position in the protocol, bytes in flight | PSI, EBL, port config, secure session, firmware, nv_data, reset | success means everything was taken; late replies do no harm; it ends |
| XMM626 MIPI boot (`xmm626_mipi.c`) | as above | as above, other framing | as above |
| XMM616 boot (`modems/xmm616/xmm616.c`) | position in the protocol, bytes on the serial line, mails | PSI over the line, firmware and nv_data into shared memory | success means every byte is in its place; it ends |
| herolte boot (`devices/herolte/herolte.c`, `partitions/*`) | table of contents, chunk being uploaded | search of the partition, uploads, handshake | every unit lies where the table wants it; success means it was uploaded |
| device boot functions (`devices/*/*.c`) | descriptors, mappings, power, bus, link | one long sequence of fallible steps per device | everything released on every path; right power and link state |
| smdk4412 kernel interface (`xmm626_kernel_smdk4412.c`) | a descriptor | power, bus and link control, waits, framed send and receive, poll | waits end; frames stay aligned |
| IPC client (`ipc.c`) | handlers, device, transport data | create, data_create, boot, open, send, receive, poll, close, power, destroy | calls in the right order, no use after destroy |
| framing (`ipc_utils.c`, the fmt/rfs functions of the devices) | a frame being read or written | header set-up, send, receive | lengths fit, a frame in is a frame out |
| tool library and ipc-imei (`tools/common/modem.c`, `tools/ipc-imei.c`) | modem state, who handles messages, one message buffer | start, read loop, handlers, stop | the answer reaches the application, buffers are freed once, the modem is stopped |
| ipc-modem (`tools/ipc-modem.c`) | modem state, call state | read loop, SIM unlocking, one call | no PIN tries wasted, a true idea of the modem, a call when registered |
| message codecs (`call.c`, `sms.c`, `sec.c`, ..., items of `rfs.c`) | none | build and pick apart payloads | nothing is written or found outside its buffer |
| nv_data-imei (`tools/nv_data-imei.c`) | an nv_data file and its MD5 | read, write and search of an IMEI | what was asked for is what is done; what is found is what was looked for |

How they interact: a client (a tool or the RIL) creates an `ipc_client` for the
FMT or the RFS channel; the device table gives it a boot function and handlers.
The boot function drives the kernel interface and one of the boot protocols,
which in turn loads nv_data. In this commit `ipc_device_detect` always answers
with the first entry of the table, i9300, and the table lacks galaxys2, maguro,
piranha, crespo and aries, whose code is built all the same; the models cover
them too. After boot the client polls and receives messages;
RFS messages make it call `ipc_nv_data_read` and `ipc_nv_data_write`. Nothing
is threaded: what makes the code hard is failure in the middle of long
sequences (crashes between system calls, I/O errors, timeouts), a modem that
answers late or in another order than expected, and state that is kept over
callbacks. `PROJECT.json` lists these hazards at their lines.

## 2. Modules

| Module | Models |
|---|---|
| `NvData` | the nv_data store; `MCNvData` for TLC, `NvDataProofs` for TLAPS |
| `NvStore`, `NvDataRefinement` | the abstract store of one image and one backup, and the mapping that shows `NvData` to implement it |
| `HsicBoot` | the HSIC boot protocol, host and modem; `HsicProofs` |
| `MipiBoot` | the MIPI boot protocol of maguro and piranha; `BootProofs` |
| `DeviceBoot` | the boot functions of i9300, n7100, n5100, galaxys2, maguro, piranha, crespo, aries and generic; `MCDeviceBoot`, `DeviceBootProofs` |
| `Xmm616Boot` | the XMM616 boot protocol under crespo and aries; `BootProofs` |
| `HerolteBoot` | herolte's boot, table of contents and image partition; `BootProofs` |
| `Client` | clients, their transport data and descriptors, the open, close, read, write and poll handlers of all devices; `MCClient` for TLC, `ClientProofs` for TLAPS |
| `Framing` | send and receive of FMT and RFS messages over the smdk4412, aries and crespo transports; `MCFraming`, `FramingProofs` |
| `Channel`, `FramingRefinement` | the abstract channel of whole messages, and the mapping that shows `Framing` to implement it |
| `ImeiTool` | ipc-imei on the tool library, with poll and receive of the smdk4412 transport; `MCImeiTool` for the runs about it alone |
| `ModemTool` | ipc-modem with its own read loop and handlers |
| `NvImei` | nv_data-imei: command line, read, write and search; `ConversionsProofs` |
| `Codecs` | builders and parsers of payloads; `ConversionsProofs` |
| `BootProtocols` | the four boot protocols, of which the device chooses one; `MCBootProtocols` |
| `Tools` | ipc-imei or ipc-modem, whichever is run; `MCTools`, `ToolsProofs` |
| `Conversions` | nv_data-imei or the codecs; `MCConversions` |

The last three are compositions by choice: one part runs, with the variables it
shares with the others by name, and the variables of the others are unused. Each
states its parts' properties for the part that runs, and the parts' assumptions
on their constants.

A definition named after a C function with a slip marked `(* Slip: ... *)`
before it is a plausible bug kept beside the right version; `PROJECT.json`
("mutants") says which property each one breaks.

### NvData

A data file is a function from chunks to values; chunk `N + 1` lies beyond
`nv_data_size` and makes files that are too long visible. A file with the right
size is an `Image`; `Md5` is injective (collisions and the secret are left out).
An MD5 file holds a digest, has the wrong size (`ShortFile`) or is missing.

One step is one system call that changes a file; `pc` says where in which
function the call is. `Crash` may happen in every state: the files stay, the
process starts anew, and a death between `open(O_CREAT)` and the first write
leaves an empty file. Chunks are written whole; a partly written chunk is as
torn as a missing one. The file system is assumed to keep the order of
completed calls: the code never calls fsync, and what a power failure does to
the page cache is not modelled.

With `IoFaults` every open, stat, read, write and unlink may fail, and the code's
reaction (return, or log and go on) is the action's. `DirectBackup` lets the
client call `ipc_nv_data_backup` itself. Reads and writes of RFS requests come
after a load (`booted`), with ranges that may exceed nv_data by one chunk,
because the code does not check them.

History variables serve the properties only: `whole` (images made of complete
writes), `tainted` (a write or direct backup began on an inconsistent nv_data),
`stable` (the image last acknowledged).

What the properties leave out on purpose is what the code does not give: a
write or direct backup after a half-failed write puts a valid digest on a torn
image (`tainted`), and one failed read in `ipc_nv_data_check` rolls nv_data
back to the backup (`AckedDurable` and `LoadFailsOnlyWhenLost` are stated for
readable files). A failed stat of the backup (`rfs.c:583`) counts as a wrong size,
so that load replaces an intact backup; `BackupKept` is stated without I/O errors.
A backup of the right size without a valid digest is never made again:
`LoadFailsOnlyWhenLost` counts it as lost.

### NvStore and NvDataRefinement

`NvStore` says what a client may rely on while files can be read and written:
there is a current image, which load returns, and a saved one; load and crashes
change neither, a write replaces the current image when it is acknowledged and
not before, and until then the current image can only fall back to the saved
one. `NvDataRefinement` takes nv_data for the current image while its digest
matches, else the backup. `ImplementsStore` is the refinement. It is checked
without I/O errors: one failed read in `ipc_nv_data_check` rolls nv_data back,
which the abstract store does not allow, and without direct backups, which
replace a saved image.

### HsicBoot

Two byte queues join the host to a modem modelled from what the host sends and
waits for. A select on an empty queue may time out at any moment, so the modem
may be arbitrarily late; it may answer one or several of the repeated ATAT
probes, and it may hang. `todo` is the list of commands of
`xmm626_hsic_command_send` in the order the boot functions issue them; images
are counts of blocks. The check shows why surplus answers to the probes do no
harm: the reads of the unknown bytes and of the CRC acknowledgement have an
even length, so leftovers stay aligned and `ack_read` skips them as long as
there are fewer than the 50 values it looks at.

### MipiBoot

The protocol of `xmm626_mipi.c`, word by word, with the same kind of modem.
The boot functions close the BOOT0 device after the PSI and open BOOT1, which
empties the queue of what was answered too late. Every command but the reset
is answered by a length and that many bytes, which the host reads as whole
words. `BufferSize` keeps the code's rounding: it adds `length % 4`, which gives
a multiple of four for even lengths only, and a reply of odd length stores its
last word beyond the buffer (`pc = "undefined"`). `ReplyInBounds` says that this
is the only way, and `CommandsInStep` that every reply is used up before the
next command, so that no command is acknowledged by an old word.

### DeviceBoot

A boot function is a sequence of steps; one action per kind of step, `Fails`
for the jump to the error label, `Complete` for the release block. Which
descriptors and buffers a release block looks at is taken from each function.
The hardware starts in any state an earlier boot may have left: modem on or
off, controllers on or off, link up or down. The link comes up by itself on a
bus that is on, and goes down when the bus or the modem goes off or the modem
is reset. It does not drop by itself: a modem that fails during a boot shows up
as a failing step. `blind` marks a boot in which a failed status query was
taken for a yes (any status but 0 counts), `half` one in which only one of the
two controllers could be switched; the link properties say nothing about those.
What the "send" steps do is in `HsicBoot`. generic_boot switches modem and
controllers off before it switches them on, only logs a failing power-on
(`Tolerated`), and waits for its boot device instead of a link; it waits for
nothing at its end, so `LinkUpAtReturn` does not speak of it. Its image comes from
`open_android_modem_partition_by_name` (`OpenByName`), which allocates a path for
every directory it tries and hands the last one out, whether or not it could open
the partition; without memory for a path it returns a negated error number, which
generic_boot takes for a descriptor until the mapping fails. `Released` says that
after a return nothing is held that the function obtained and that no descriptor
was closed twice, with one exception: the path that generic_boot gets
(`generic.c:373`) is never freed.

### Xmm616Boot

The PSI goes to the boot ROM byte by byte over a line that may add bytes of its
own and corrupt one byte of the PSI; the ROM wakes up late and answers one AT or
several. crespo then writes firmware and nv_data through its control device,
any number of bytes at a time; aries copies them into the onedram and exchanges
mails with the PSI. Assumed: no byte of the ROM's info or of the noise is the
value of the PSI acknowledgement (the code looks for that one byte and would
take it for it), and the ROM's CRC finds the corrupted byte.

### HerolteBoot

Results are told apart as 0, below 0 and above 0, because the callers test the
sign only. `upload_chunk` returns errno, above 0, when a read or the ioctl
fails, and the boot goes on (`UploadFails`), logs "Modem boot complete"
(`herolte.c:374`) and returns 0 with a blob missing; `failed` marks it.
`DataRead` is one read() of `data_read`, which puts what it gets
at the start of the buffer and asks for the whole count again: after a short
read (`short`) chunks hold the wrong units, and at the end of a file the loop
never ends. The properties speak of boots without short reads, whatever the
order, the sizes and the addresses in the table.

### Client

A process has one table of descriptors, in which open takes the lowest free
one; clients and the application use it in turn. `mem` and `fd` are a client's
transport data, which data_create and data_destroy allocate and free. Each
device has an action for its handlers: most store what open returns, crespo
keeps the old descriptor when open fails, and aries clears its data first and
leaves its socket open when a later step fails. New data come from calloc and
hold descriptor 0, so a close before the first open (which `modem_stop` does
after a failed `modem_start`) closes standard input or whatever has that
number. The properties say that this is all: no other foreign descriptor is
ever used or closed, an opened channel on another number is never lost, and
outside aries only a caller that reopens or drops an open client leaks.
`opened`, `careless` and `stray` are histories for the properties. A call on
freed transport data, and `ipc_client_open` without handlers, are undefined
behaviour; the model stops there.

### Framing

Both ends of a channel speak one format, so the sender runs the send function
and the receiver the receive function of the same transport, in turn the host
and the modem. A driver keeps what one write gave it as a packet. smdk4412 takes
part of a write and keeps what a read left; the phonet sockets of aries carry
datagrams of at most one buffer and drop the unread rest; crespo passes a whole
message with one ioctl and the receiver trusts the driver's size. The frame is
bytes tagged with message and position, so that a receive that starts in the
middle of a frame shows; the length it would then find is arbitrary
(`rpc = "undefined"`). A frame whose 16-bit length has wrapped is copied beyond
the buffer (`spc = "undefined"`).

`failed` and `torn` record that a call returned -1, and that it did so with part
of a frame transferred. On smdk4412 the device is non-blocking, so a rest that
comes late tears the frame; the code does not look for the next header, and the
properties claim nothing afterwards. Until then what is received is what was
sent, in order, with its numbers (`ReceivedInOrder`), nothing is stored beyond
the message (`ReceiverInBounds`) and nothing is missing (`NothingLost`).

### Channel and FramingRefinement

`Channel` says what both ends may rely on: a receive that returns 0 returns the
oldest message on its way, and a message leaves the channel in no other way than
by a call that returned -1, at most one by each call: the message of the send
that failed, or the oldest one in a receive. `NothingLost` says nothing once a
call has failed; the channel still does. It may break, in a step that hands over
nothing, and then promises nothing.

`FramingRefinement` takes a message for being on its way while a byte of its frame
is with the driver or still to be written, and for broken a torn frame or an
overrun buffer of the sender. A message of the channel is what its frame carries:
an RFS header has no room for the answered number and the type.
`ImplementsChannel` is the refinement.

### ImeiTool

`main`, `modem_start`, `modem_read_loop` and `modem_stop`, one action per call
that can fail. Messages are told apart as far as the handlers do. The modem
sends what it likes in any order, answers the IMEI request at most once and may
go offline for good. The phone state is read as an `int` from one byte, so the
model lets it be the value sent or `"garbage"`. `pc = "undefined"` is undefined
behaviour (second free, destroyed client); nothing is said about what follows.

### ModemTool

ipc-modem keeps one `state` for what the modem reports of itself and of its
SIM. The modem tells what is true of it, in any order and as often as it likes,
serves requests, may start anew or go offline. The values of the reports are
those the code stores: `IPC_PWR_PHONE_STATE_LPM` is no `MODEM_STATE`, and a phone
state read as an `int` from one byte may be any other. What the code does and a
reader may not expect: a SIM that is ready before the modem reports NORMAL is
forgotten (`ipc-modem.c:206`), although the tool numbers the steps in that order,
and the call is requested at the first registration even without `--call`
(`ipc-modem.c:343`).

### NvImei

A command line is a sequence of getopt's tokens, each with the number of
arguments it takes, since the parser decides by position. Bytes are pairs of
nibbles, so that encoding and decoding swap digits as the code does; a digest is
the content it was made of. A read or a search beyond a buffer finds what
`Beyond` says lies there, or ends the process. Error codes keep what
`errno_to_sysexit` tells apart; any other one is a failing assertion
(`exit = "abort"`), as for `read-imei` on a file that may not be opened, where
`nv_data-imei.py:111` expects EX_NOINPUT. The search compares with strncmp, so
that a code with a zero byte is found where only its beginning is
(`nv_data-imei.c:671`), and an offset of 2^32 or more is written modulo 2^32
(`nv_data-imei.c:781`); the properties say so. The lines on which main runs a
command are more than its usage text allows ("nv_data-imei FILE COMMAND [OPTIONS]",
`nv_data-imei.c:398`). `Shaped` describes them as they are: anything of one element
may stand in FILE's place, an option is then taken for the name of the file
(`nv_data-imei.c:914`), further arguments are passed over, and an OFFSET that is no
number counts as 0. `RunsWhatIsAsked` says that no other line runs a command, and
that only the file so named changes.

### Codecs

Payloads are sizes and lengths. One call is made on any arguments: a builder
copies its parts into the room its size function computed, a parser finds a
place and a size in a message whose length byte is arbitrary, a walk follows a
list by the lengths in it and reads anything once it is outside. `ByteRange` and
`SizeRange` are the ranges of the length byte and of size_t, where differences
wrap. What the code gets wrong is stated exactly: the response to an RFS item
read overruns its buffer by the item, `ipc_misc_me_imsi_imsi_extract` does not
compare with the message's size, `ipc_misc_me_sn_extract` (`misc.c:60`) gets no
size, so that it stays inside whole responses only (its caller `ipc-imei.c:121`
does not look either), and the size of an SMS shorter than its header is any
length. Setters of structures of fixed size are left out.

## 3. Runs

| Run | Result | Properties | Shows |
|---|---|---|---|
| `nvdata_crash` | passes, 29 164 states | `AckedDurable`, `LoadFailsOnlyWhenLost`, `ImplementsStore`, `BackupKept`, `CallsReturn` | Loads, restores, reads and writes of nv_data with a crash allowed between any two system calls: acknowledged data and intact backups survive, the files implement an abstract store of one image and one backup, every call returns. |
| `nvdata_faults` | passes, 1 416 780 states | `LoadedWhole`, `ReadsBack` | The same calls and direct backups with every open, stat, read, write and unlink allowed to fail as well: still no torn image is loaded, and reads answer from the acknowledged image. |
| `boot_protocols` | passes, 58 461 states | `DoneMeansFlashed`, `LateRepliesHarmless`, `DoneMeansDrained`, `ResetOnlyFlashed`, `CommandsInStep`, `ReplyInBounds`, `ReturnMeansLoaded`, `UploadedExactly`, `HsicReturns`, `Xmm616Returns`, `HerolteReturns` | Each of the four boot protocols (XMM626 over HSIC and over MIPI, XMM616, herolte) against a modem that answers late, repeatedly or not at all, with noise, short writes and failing calls: success means that the modem has everything, and the host returns. |
| `device_boot` | passes, 40 744 states | `Released`, `PsiOverFreshLink`, `LinkUpAtReturn` | The nine scripted boot functions from any state an earlier boot may have left, with any step failing: everything but generic's path is released, once, and the link used is the new one. |
| `framing` | passes, 275 993 states | `ReceivedInOrder`, `ReceiverInBounds`, `RecvReturns`, `ImplementsChannel` | FMT and RFS messages over the smdk4412, aries and crespo transports with partial, failing and concurrent reads and writes: until a call fails inside a frame what is received is what was sent, in order, and the functions implement an abstract channel that loses a message only in a call that fails. |
| `client` | passes, 705 968 states | `StrayOnlyZero`, `ChannelKept`, `LeakOnlyByCaller` | Two clients and the application share a table of descriptors and call create, data_create, open, read, close, data_destroy and destroy in any order on any device: which descriptors the handlers touch, keep and leak. |
| `tools` | passes, 475 838 states | `ImeiOrReason`, `UndefinedOnlyOnFailure`, `AnswerFound`, `TriesOnlyByWrongPin`, `SimOkIsTrue`, `CallFollowsRegistration` | ipc-imei and ipc-modem against a modem that reports its state, its SIM's and its network's in any order, starts anew or goes offline: what an exit with 0 means, that an answer or a registration is not lost, what costs the card a try, and what the tool's idea of the modem is worth. |
| `conversions` | passes, 670 208 states | `RunsWhatIsAsked`, `WrittenReadsBack`, `FindsEveryPlace`, `BuiltWithinRoom`, `FoundInside`, `EntryIsThere` | nv_data-imei on all short command lines and all small files, and the builders and parsers of payloads on all small sizes and lengths: commands run on lines of one shape with the values given, what was written can be read back, and which code stays inside its buffers. |
| `client_open` | violated | `OpenReports` | ipc_client_open reads client->handlers of a NULL client, and handlers->open of a client without handlers, on its way to the messages that report them. |
| `aries_power` | violated | `AriesPoweredOn` | aries_boot calls the power_on handler and then the power_off handler, so the PSI goes to a modem that was just switched off. |
| `imei_new_state` | violated | `ReachedNewState` | The start-up handler says it is done for an absent SIM card while the modem is still in LPM. |
| `imei_take_over` | violated | `CallbackTakesOver` | An answer to the IMEI request that arrives before the modem reports NORMAL is swallowed by the start-up handler. |

Bounds. `NvData`: two chunks of two values are the least that tell a torn image
from a whole one and an old from a new one; the proofs lift the bound.
`HsicBoot`: `AtMax` 6 (50 in the code) exceeds `AckMax` 4 (50), so that both
sides of the limit on leftovers occur; four unknown and two CRC bytes keep the
even sum of the code's 22 and 2; two parts per image separate the first from
the last. `MipiBoot`: as `HsicBoot`, with replies of 8, 10 and 13 bytes: a multiple
of four, another even length and an odd one. `DeviceBoot`: two or
three tries per wait (10, 100 and 10 000 in the code): a first, a repeated and a
last one. `Client`: two clients and three
descriptors, enough for each to hold one beside the application; the proofs lift
the bound. `Framing`: header 2, buffer 4, RFS limit 5, length modulo 7 and data
of 0, 1, 3, 4 and 5 bytes: frames below and above the buffer, above the limit and
with a wrapped length; two messages, since the second shows what the first left.
`ImeiTool`: four unsolicited messages and
two in the driver, enough for state reports, SIM reports and the answer in any
order. `ModemTool`: as `ImeiTool`, a card with two tries, every command alone and
the two pairs that leave something to the next command. `Xmm616Boot`: the limit of
passed bytes is 6 (50 in the code) with a queue of 3, so that noise reaches it;
three parts of firmware and two of nv_data with a gap between them. `HerolteBoot`:
chunks of two units, addresses modulo 12, blobs of none to four units loaded above
and below BOOT and, in one table, over each other, an nv_data that is long enough or too short. `NvImei`: all lines of
up to four tokens on one file, and lines that run a command on all files of 1, 3, 4
and 5 bytes of four values (4 is the right size), IMEIs of five digits, of which one
is encoded with a zero byte; offsets wrap at 16. `Codecs`: length bytes modulo 8,
sizes up to 10, lists of up to three entries: lengths that wrap, fit and do not.

Deadlock is checked in all runs; functions that have returned stay there.

Fairness. `CallsReturn`, `HsicReturns`, `Xmm616Returns`, `HerolteReturns`,
`AnswerFound` and `CallFollowsRegistration` assume weak fairness
of the process's own steps: it is a single thread that the scheduler runs, and
a select with a timeout returns. In `HsicBoot` a live modem also keeps running.
In `HerolteBoot` failing calls are left out of the fairness: a blocked read must
not be ended by an error that happens to be possible. In `Framing`
(`RecvReturns`) a write or receive that has begun goes on: the smdk4412 reads do
not block, and a blocked aries receive goes on when there is a datagram.
Nothing is assumed of crashes, calls of the client, the link or a modem that
may hang.

## 4. Proofs

`NvDataProofs` proves, for every number of chunks, all contents, with and
without I/O errors and direct backups:

| Theorem | States |
|---|---|
| `TypeCorrect` | `Spec => []TypeOK` |
| `LoadReturnsWholeImages` | `Spec => []LoadedWhole` |
| `LoadLeavesIntact` | `Spec => []LoadedIsIntact` |
| `AcknowledgedIsDurable` | `Spec => []AckedDurable` |
| `LoadSucceedsUnlessLost` | `Spec => []LoadFailsOnlyWhenLost` |
| `IntactBackupIsKept` | `Spec => BackupKept` |
| `ReadsAreAcknowledged` | `Spec => []ReadsBack` |
| `StoreImplemented` | `Quiet` implies `Spec => ImplementsStore` |

`AckedDurable`, `LoadFailsOnlyWhenLost` and `BackupKept` themselves speak of
instances without I/O errors, `BackupKept` without direct backups too; the others
hold in all.

The only assumption is `ConstantsAssumption` of `NvData`: at least one chunk,
at least one value, and distinct markers.

None of these invariants is inductive. The inductive invariant `IInv` adds what
holds in the middle of a call:

- `Control`: which call a program point belongs to;
- `Writing`: outside the chunks still to write, nv_data is already the image
  asked for, so that the digest calculated at the end is that of a whole image;
- `BackingUp`, `BackupUndigested`: the backup written so far, and that a backup
  which is not complete has no digest, since load makes a new one only when the
  size is wrong and the old MD5 file cannot then be valid (without I/O errors and
  direct backups: a failed stat makes load copy over an intact backup);
- `Restoring`: the image being restored is still the intact backup;
- `DigestsWhole`: every digest on disk or in flight is of a whole image, which
  is why a matching digest is enough for load;
- `Checked`: after its check a load works on an intact nv_data;
- `Unstable`: nothing acknowledged is at stake while nv_data is replaced.

Each part has a lemma with one step per action; `IInv` was first checked with
TLC for all four combinations of `IoFaults` and `DirectBackup`.

The refinement needs more, `RInv`: while the modem may read, nv_data is the
acknowledged image (`Acknowledged`); a load restores only what it found damaged
(`Damaged`), the file being restored ends where the next chunk goes (`Growing`),
a load backs up what it will return (`Copying`), a booted modem's nv_data is
intact or of the wrong size (`Serving`), and during a write the digest on disk
is still that of the old image (`Overwriting`). Then every step of `NvData` is a
step of `NvStore` or changes nothing the client sees. `Quiet` stands for no I/O
errors and no backups on request, the same instance the run of the refinement
uses: with either, a failed call leaves files that the store of one image and
one backup has no name for.

`ClientProofs` proves, for any number of clients and descriptors and every
device, that `TypeOK` (`TypeCorrect`), `StrayOnlyZero` (`HandlersKeepToTheirOwn`),
`ChannelKept` (`OpenedChannelsAreKept`) and `LeakOnlyByCaller`
(`LeaksAreTheCallers`) are invariants. The assumption is that no client is called
"app" or "free". The strengthening is `HeldIsOwn`: a stored descriptor above 0 is
the client's own. It holds because open takes a free number and close forgets
the number it gave back, and it is what keeps one client's close from hitting
another's descriptor.

`FramingProofs` proves `ReceivedInOrder` (`OrderKept`), `ReceiverInBounds`
(`CopiesInBounds`) and `NothingLost` (`AllReceived`) for every header, buffer,
limit, width of the length field and data sizes, and any number of messages; the
assumption is that a header is not empty and fits the buffer. None of the three
says anything about bytes in the driver, so the inductive invariant `FInv` does:
what the driver holds and what the sender has still to write form a `Chain` of
pieces of frames, in which a piece continues the one before or starts a later
frame after a whole one (the next frame when no call has failed). The receiver
stands at a header between calls and right behind its data during one
(`Reading`); what it has got comes before what stands next (`Progress`). A write
cuts the end of the chain and a read its start (`ChainCutLast`, `ChainCutFirst`,
`ChainTail`), and a wrapped length ends in `spc = "undefined"`, so all lengths in
the chain are true ones.

`ChannelImplemented` (`Spec => ImplementsChannel`) needs nothing more than `FInv`,
read in terms of messages. Along the chain the numbers of the messages rise
(`ChainRises`), so the piece that a read takes is of the oldest message
(`OldestFirst`) and the frame being written of the newest (`LastIsNew`). A read or
write that leaves bytes of its message behind moves nothing in the channel; one
that takes the last of them removes this message and no other (`NumbersTail`,
`NumbersCut`), because a whole frame ends there. So every step of a call keeps the
messages on their way, loses one with `failed` set, or hands the oldest over
(`Moves`), and what is handed over is what was sent under its number
(`TakenOneMore`). A frame torn or a wrapped length breaks the channel
(`BreaksQuietly`).

`DeviceBootProofs` proves `Released` (`EverythingReleased`), `PsiOverFreshLink`
(`PsiFindsNewLink`) and `LinkUpAtReturn` (`LinkIsUpAtReturn`) for every subset of
the devices, any counts of tries of the waits and any state of the hardware at
the start. A boot function is a script of up to 30 steps, of which `todo` is the
rest; an invariant that named positions would have one case per step and device.
`DInv` speaks of `todo` alone. `Scripted` collects what the proof needs of a
script (a descriptor closed on the way is opened again at once, a PSI follows a
wait for the link, an HSIC boot ends with one, only waits and a power-on tolerate
failure) and holds of every rest of a script it holds of. What is obtained is
looked at by the release block, but for generic's path (`Holding`); a link that is up is new, or the bus
is still to be switched off before the PSI (`Renewed`); modem and controls are on
at the PSI and at the end, since they are on and not switched off until then, or
are switched on before and not off after (`Will`, in `Powered` and `Ending`); and
the last wait has seen the link (`Awaited`). That each of the nine scripts is
`Scripted` and begins as `DInv` wants is a lemma for each.

`BootProofs` and `HsicProofs` prove the invariants of `BootProtocols`, for every
number of parts, blocks, probes and passed bytes and every table of contents:

| Theorem | Property | Why it holds |
|---|---|---|
| `ZeroMeansLoaded` | `ReturnMeansLoaded` (XMM616) | an acknowledgement is on its way only when the PSI was taken, and the writes have filled the memory up to their counter (`X616Inv`) |
| `ResetAfterFlash`, `RepliesReadOut`, `EvenRepliesFit` | `ResetOnlyFlashed`, `CommandsInStep`, `ReplyInBounds` (MIPI) | host and modem run in step: the place of the host says what is on the line, and the modem has carried out the commands that were answered (`MipiInv`) |
| `BlobsInPlace` | `UploadedExactly` (herolte) | counter, address, place in the file and buffer of `upload_chunk` agree, modulo the width of an address (`HPlace`); of blobs that do not overlap, what was sent before is not overwritten (`HFilled`) |
| `ZeroMeansFlashed` | `DoneMeansFlashed` (HSIC) | blocks are not acknowledged, so the modem lags behind by any number; but it takes commands in order and answers SEC_END after all of them |
| `OnlyFaultsFailHsic`, `ZeroMeansDrained` | `LateRepliesHarmless`, `DoneMeansDrained` (HSIC) | until the EBL runs, bytes sent are bytes read and bytes in `rx`; late answers come in pairs and `ack_read` reads pairs |

`UploadedExactly` promises the completeness of an upload only for tables whose
blobs do not overlap (`Apart`): the code checks nothing of the kind, and a later
blob replaces what it shares with an earlier one.

The HSIC proof needs `Unknown + CrcAcks` to be even, 22 + 2 in the code: were it
odd, `ack_read` would read across the border of two answers after a late one.

`ToolsProofs` proves, for queues and message counts of any size and cards with
any number of tries, `TriesOnlyByWrongPin` (`OnlyWrongPinsCostTries`),
`SimOkIsTrue` (`ReadyModemIsReady`), `UndefinedOnlyOnFailure`
(`NoUndefinedOtherwise`) and `ImeiOrReason` (`ImeiIsShown`). `SimOkIsTrue` needs
the whole queue: a report in it is true or a later message says that the modem
has started anew, and the same holds of the message in hand and of what the
tool believes (`BeliefInv`).

`ConversionsProofs` proves, of `Codecs`, `BuiltWithinRoom` (`MessagesFit`), `FoundInside`
(`PayloadsLieInside`, with the exceptions for the IMSI, the serial number and the
size of an SMS that the property states) and `EntryIsThere` (`EntriesAreFound`)
for all sizes and lists: bytes copied and bytes left add up to the room asked for, and the walk
through a list stands at an entry or has left the message for good.

It proves, of `NvImei`, `RunsWhatIsAsked` (`CommandsAsAsked`), `WrittenReadsBack`
(`ImeiReadsBack`) and `FindsEveryPlace` (`EveryPlaceIsFound`) for command lines,
IMEIs of odd length and files of any length: what the option loop has set is what the
tokens before it say, the file written is the one the first element names, decoding undoes encoding, and the places before the
search pointer that match are those shown.

The assumptions are those of the modules (`ConstantsAssumption`,
`SizesAssumption` and the like); TLC evaluates them in every run. Every inductive
invariant was checked with TLC on the run's constants before it was proved.

`TypeOK` of `NvData` and `Client`, `LoadedIsIntact` and `FramesStayWhole` are
proved and not among the properties of the runs: they hold step by step, and the
deeper properties rest on them. `NothingLost` is proved too; the run of `Framing`
checks `ImplementsChannel` in its place, which says the same of a channel that is
not broken, and more once a call has failed.

Only model-checked: the liveness properties `CallsReturn`, `HsicReturns`,
`Xmm616Returns`, `HerolteReturns`, `RecvReturns`, `AnswerFound` and
`CallFollowsRegistration`, since reasoning with fairness (and ENABLED) is out of
the prover's reach. The four violated properties are shown by TLC's traces.

## 5. Not modelled

- what a power failure does to data the kernel has not written yet: the code
  never calls fsync, and the models end at the system call;
- the list of further descriptors that the poll handlers of the devices accept
  and change in place: no caller in the repository passes one; `generic_poll` and
  `generic_smdk_poll`, beyond their results;
- the setters of handlers and the power and GPRS calls of `ipc.c` and of the
  devices, which pass one value on, and requests of ipc-modem that set up sound
  or list calls;
- `ipc-test.c`, which calls single functions, `nv_data-md5.c`, which prints a
  digest, message names (`ipc_strings.c`), logging, headers that only define
  structures, build files, tests and scripts.
