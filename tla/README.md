# libhoth in TLA+

libhoth is a C library, with the command line tool htool, that talks to a root
of trust (RoT) over USB, SPI, an MTD flash mailbox or D-Bus. This directory
holds TLA+ modules of the parts of it that keep state over several steps or
share state with somebody else, TLC configurations that check them on small
instances, and TLAPS proofs. Paths below are relative to the repository.

## 1. Inventory

| Component | State it keeps | Operations | What is hard about it |
|---|---|---|---|
| Device interface: `transports/libhoth_device.c`, claim/open/close/reconnect of the transports, loop of `examples/htool_console.c` | the kernel's lock on the RoT, each process's handle, `wait_us`, `total_waiting_us` | open, claim with back-off, release, reconnect, close | processes interleave and die; 32-bit waiting time; a reconnect that fails has closed the old handle |
| USB FIFO transport: `transports/libhoth_usb_fifo.c` | two libusb transfers, three completion flags, the prepared request | `send_request`, `receive_response` (submit, event loop, callbacks, drain, retry), open, close | callbacks and cancellations in any order, stale responses of dead processes, STALL, RoT resets, timeouts |
| Host commands: `protocol/host_cmd.c` | request and response frames | `libhoth_hostcmd_exec_v2`, `libhoth_hostcmd_exec` | damaged or short frames, sizes at their limits, conversion of errors |
| SPI proxy: `protocol/spi_proxy.c` | the operation being collected, the flash behind the RoT | update, verify, read | 32-bit addresses, operation buffer, host command that fails half-way, repeated update |
| Payload update: `protocol/payload_update.c` | staging side of the flash | update, erase, read, finalize, activate, ... | bytes 0xFF are not sent, block and sector erases, failures between host commands |
| Console output: `protocol/console.c`, `examples/htool_console.c` | 32-bit stream offset; the RoT's ring buffer | run, snapshot | the RoT writes and overwrites meanwhile, offsets wrap around |
| Console input: `libhoth_write_console()` | `static bool escaped`; what is typed ahead | read stdin, unescape, channel write | sequences cut by reads, failed writes |
| DFU install: `protocol/dfu_hostcmd.c`, `protocol/opentitan_version.c` | A/B slots of ROM_EXT and application, DFU session | update, install | resets, lost response to DFU_COMPLETE, slots that change places |
| Key rotation: `protocol/key_rotation.c` | active and staging halves | update, read, read chunk | interrupted updates, 16-bit offsets, packets received behind each other |
| Mailbox transports: `transports/libhoth_usb_mailbox.c`, data paths of `libhoth_spi.c` and `libhoth_mtd.c` | the mailbox in the RoT, answers in the USB endpoint, `buffered_request` | send, receive | no request identifiers: what a failed or dead client left is indistinguishable from an answer; busy RoT; partial writes and reads |
| USB handle: `transports/libhoth_usb.c`, opens and closes of both drivers | `struct libhoth_usb_device` with its union of driver data, libusb's open handles | open, reconnect, close, wait for access | RoTs come, go and change their interface; any of a dozen calls fails after others succeeded |
| Provisioning: `protocol/provisioning.c`, `examples/htool_provisioning.c` | the RoT's log, staged log and key buffer | log read, write and commit, sign, load key | chunk by chunk, while other clients write, and after commands that were interrupted |
| htool's command line: `examples/htool_cmd.c`, table in `examples/htool.c` | parsed flags and positionals | find the command, parse flags, typed accessors, number and time parsers | eight ways to write a flag, verbs that begin other verbs, C library parsers that accept too much |
| htool's handlers: `examples/htool*.c` with the small functions of `protocol/` | exit status, output files, what was sent to the RoT | ninety commands | dozens of calls, any of which fails: lost statuses, truncated files, half-changed RoT |
| SECURITY_V2 framing: `examples/htool_security_v2.c` | request and response buffers | build request, take parameters out of the response | sizes and padding that come from the RoT, ends of buffers |
| D-Bus transport | none | send, receive | one method call each to a daemon outside the repository: section 7 |

How they interact: every htool command opens one `struct libhoth_device`
through a transport, claims the RoT for the process and issues host commands
one at a time. A host command is one `libhoth_send_request()` and one
`libhoth_receive_response()` of the transport. Long operations (payload
update, SPI update, DFU, key rotation) are sequences of host commands of which
any may fail, with or without having been carried out. Only the interactive
console gives the claim up in the middle of its work. Within one process
nothing runs concurrently except libusb's callbacks, which run inside the event
loop; concurrency comes from other processes, the kernel and the RoT.

## 2. Modules

| Module | Models | Its variables and actions in the code |
|---|---|---|
| `SharedDevice` | processes sharing one RoT | `lock` is the kernel's flock or interface claim; `pc[p]` the place of process p in `libhoth_claim_device()`, the open functions and `htool_console_run()`; `wait_us`, `total_waiting_us`, `timeout_us` are the locals of the claim. `transport` says which transport's functions `dev` points to and is chosen once. One action per attempt, sleep, open, set-up, release, read, write, reconnect; `Die` anywhere |
| `HothTransport` | what `libhoth_device.h` promises of send and receive | abstract specification: `pending`, `delivered` |
| `UsbFifo` | the USB FIFO transport | `in_transfer`, `out_transfer` with libusb's state of each, drvdata's flags, `out_id`/`out_length` of the prepared request, `round` and `i` of the loops in `receive_response()`; kernel and RoT as separate actors; a process may die anywhere and be replaced (`DieAndOpen`) |
| `HostCmd` | one host command at a time | `wire`, `answer`, `frame` are byte sequences with one-byte header fields modulo `Base`; `Outcome` follows the checks in their order |
| `SpiProxy` | SPI update and verify | `op`, `op_bytes`, `pages_in_op`, `need_erase_addr`; the RoT carries an operation out step by step (`RotStep`) and may stop anywhere; addresses modulo `Space`, of which `OnWire` sends four bytes or, with `--address_mode 3B`, three (modulo `ShortSpace`) |
| `PayloadUpdate` | payload update, erase, read | `done` is the loop's position; `flash` the staging side; each host command is an action with a failing twin that may have been carried out |
| `ConsoleOutput` | reading the console channel | `written` counts the stream, `offset` and `current_offset` are taken modulo `Space` |
| `ConsoleInput` | typing into the console | `escaped` is the static variable of `unescape()` |
| `DfuInstall` | DFU install | `rom_ext`, `app` hold [slots, booted]; `session` the RoT's session; versions as numbers |
| `KeyRotation`, `ChunkRead` | key record update and read; read by chunk type | `active`, `staging` halves; the caller's buffer `response` cell by cell. A packet of a chunk brings any number of bytes, fewer or more than asked for too, as the code only warns (`key_rotation.c:412-418`); the history variable `missing` keeps which bytes none brought |
| `MailboxTransport` | USB mailbox, SPI, atomic SPI and MTD data paths | `mailbox` is the RoT's memory, whose cells say for the model whose request or response they are; `offset`, `expected` the loops' positions; `out`, `answers` the USB endpoints; `buffered` is `buffered_request`. The client sends and receives as `libhoth_hostcmd_exec_v2()` does |
| `UsbOpen` | the life of a USB handle | `usb_dev` is the struct with its handle, claim, type and union (`data`); `pc` the place in `libhoth_usb_open()`, `libhoth_usb_device_open()`, `libhoth_usb_reconnect()`; `open_handles` counts for libusb; `bus` is what is plugged in, and changes at any time |
| `Provisioning` | provisioning log and keys | `log`, `staging`, `key`, `key_buf` in the RoT; `done`, `size`, `buf` the locals of the loops; `OtherClient` stages and commits logs, and stages bytes of keys, between the host commands of one of htool's, over transports without a lock |
| `HtoolSteps`, `HtoolProtocol` | small functions of `protocol/` | each function is the sequence of its steps (ask for a parameter, test, open, read, create or write a file, host command that reads or changes the RoT, check of the answer's size) with what a failing step returns |
| `HtoolHandlers`, `HtoolFiles`, `HtoolSecurity` | every handler of htool, in the order of its calls | a call is the callee's steps in the caller's |
| `HtoolTable` | `CMDS` and `GLOBAL_FLAGS` of `htool.c` | every command with its verbs, alias, handler, parameters, letters and defaults, in the table's order |
| `HtoolRules` | nothing more of the code | rules that the table's handlers, parameters and verbs keep, and what makes a command line clear; TLC evaluates them, the proofs rest on them |
| `HtoolCmd` | one invocation of htool | `line` is what was typed, `words` what is left of it; one action per loop iteration of the parser and one per kind of step of a handler, each with its failures; `files`, `sent`, `rv` are what is left behind |
| `HtoolNumbers` | `parse_u32()`, `parse_u64()`, `parse_time_string_us()`, fourcc | the C library's parsers character by character (external), the checks around them |
| `SecurityV2` | the V2 framing | `request`, `received` byte sequences; the two ways to take a response apart |
| `MCTransport`, `MCUpdates`, `MCHtool`, `MCConsole` | instances of several modules in one run | `MailboxTransport`, `HostCmd` and `UsbOpen`; `KeyRotation`, `ChunkRead`, `DfuInstall`, `SpiProxy` and `Provisioning`; `HtoolCmd`, `HtoolNumbers` and `SecurityV2`; `ConsoleOutput` and `ConsoleInput`. These share no state, so one of them moves in a behaviour (`kind`, `part`) and the others stay where they began. Of `Provisioning`, whose logs and keys have no state in common but the client's, a behaviour of `MCUpdates` moves the one or the other |
| other `MC*` | instances of one module | |
| `SharedDeviceProofs`, `UsbFifoProofs`, `PayloadUpdateProofs`, `ProvisioningProofs` | theorems about the module of that name | section 5 |
| `TransportProofs`, `UpdatesProofs`, `ConsoleProofs`, `HtoolProofs` | theorems about the compositions `MCTransport`, `MCUpdates`, `MCConsole` and `MCHtool` | section 5 |

Definitions named `Mutant` in a comment are wrong versions of the definition
that follows them. They are used by nothing but the mutation checks listed in
`PROJECT.json`, in which every property must notice its mutant.

What stands outside `src/` (libusb and the kernel, the RoT, the flash chips, the
terminal) is modelled from how the code uses it and marked external in the map.

## 3. Runs

Properties that belong together are checked as one formula, the conjunction of
the parts named below: `WaitEnds`, `ExchangeIsSound`, `HandleIsSound`,
`TransfersAreExact`, `StreamIsPrinted`, `InputIsFaithful`,
`RecordIsWhole`, `ReadsAreExact`, `FlashIsRight`, `SuccessIsTrue`,
`RunsWhatWasTyped`, `ExitZeroIsTrue`, `MistakesFoundFirst`, `NumbersAreExact`,
`FramingIsExact`.

Passing runs:

- `device`: two processes over each transport. Host commands are exchanged only
  under the claim (`CommandsUnderClaim`), also by a console that lost the RoT
  while it yielded; no operation uses a handle that a failed reconnect closed
  (`HandleIsOpenWhenUsed`); a claim waits at least its budget before it reports
  busy (`NoEarlyGiveUp`), at most one maximal sleep more (`SleepBudget`), and
  returns (`ClaimReturns`). Bounds: back-off 1, 2, 3 and UINT32_MAX = 7, so that
  the cap of the sleep and the saturation of the total both happen;
  timeouts 0, 2 and UINT32_MAX. A third process adds no case: a process only
  sees whether somebody else has the lock; the proofs cover any number.
- `fifo`: two request ids (the present request's and a dead process's), a
  TxFIFO of two responses, one repetition. libusb owns nothing when
  `receive_response()` returns (`NothingInFlight`), the flags say which
  transfers are out (`FlagsTrackTransfers`), the transport implements
  `HothTransport` (`ImplementsTransport`), a failed transfer ends the wait even
  without a timeout (`FailureEndsTheWait`), and a timed receive returns
  (`ReceiveReturns`).
- `transport`, in three parts. *Mailbox:* three host commands after each other,
  requests of one packet, one full packet and three, headers of 2 cells, data of
  0 to 3 cells into a buffer that holds 2 of them, so that a response may not
  fit; failures, RoT resets and deaths anywhere. `WholeAnswer`: a command that
  began on a quiet RoT and reports success has the whole response to its own
  request. `BufferedRequestIsThisCalls`: the atomic SPI transport never refuses
  a command for a request an earlier one left. *Host command:* all payloads up
  to two bytes modulo 4, responses damaged in any one byte or cut anywhere. The
  sum of a request is zero (`RequestChecksumIsZero`), success means the frame is
  the RoT's and reports success (`DamageIsDetected`), and the caller gets the
  payload or nothing (`CallerGetsPayload`). *USB handle:* two locations, seven
  kinds of devices (both interfaces, endpoints missing, doubled or too small, no
  RoT at all), sleeps of 2 in a 32-bit count of 8, timeouts 3 and 6 (the second
  so near the top that the count wraps before it is reached; `MaxSlept` bounds
  the sleeps then). A handle that is open is claimed and belongs to the driver,
  endpoints and transfers of the interface the device has now
  (`HandleIsUsable`); no handle is leaked or closed twice (`OneHandle`); a
  reconnect stays at its location (`SameLocation`); a driver refuses only what
  it cannot use (`RefusesOnlyUnusable`); waiting for access ends with the
  timeout (`SleepsNoLonger`). Deadlock is off: the number of commands is bounded.
- `payload`: sectors of 2 and blocks of 4 in 6 bytes, images of 0, 4 and 5 bytes
  (none, whole sectors, which are erased, programmed and finalized with and
  without `--skip_erase`, and half a sector more, which only `--skip_erase`
  takes) with all patterns of 0xFF, aligned, unaligned and out-of-range erases
  and reads, any sequence of commands: `UpdateHoldsImage`, `ReadIsExact`,
  `OnlyWholeImagesFinalized`, `OnlyRangeTouched`, `CommandReturns`.
- `console`: a ring of 4 bytes, reads of 3, offsets modulo 32, streams starting
  at 0, inside and around the wrap-around, 8 more bytes written meanwhile:
  `NoAvailableByteSkipped`, `PrintedInOrder`, `SnapshotReachesBegin`, and
  `SnapshotEnds` where no wrap-around comes in between; and five keys of four
  kinds, reads of at most three: `CutsMakeNoDifference`, `SentWasTyped`.
  Deadlock is off: the console ends, the user quits or stops typing.
- `updates`, in six parts (`part`), with deadlock checked. *Key records:* two
  records of
  sizes from invalid over one to three packets to too large, packets of two,
  area of 5, 16-bit offsets as modulo 8: `ActiveIsWhole`, `SuccessActivates`,
  `ReadIsExact`; chunks of two to four bytes in packets that bring as many
  bytes as asked for, fewer or more (`ReadsAreExact` is about both reads; of a
  chunk it says that all bytes that a packet brought are where they belong).
  *Firmware:* three ROM_EXT versions, two application versions, two security
  versions in all slots, images of two chunks: `BootedNeverTorn`, `InstallOkMeansInstalled`,
  `CountedUpdatesSuffice`. *Flash:* pages of 2, sectors of 4,
  blocks of 8 bytes, starts in all positions of a block, lengths up to two
  blocks, one worn byte, failures after any transaction and repeated updates, with
  addresses of 32 values sent whole or modulo 16:
  `NothingIsMixed`, `FlashHoldsFile`, `NeighboursKept`, `NeverAborts` (the
  operation buffer and transaction table are scaled so that three pages with
  their erases just fit), for ranges that the address bytes reach (`Reachable`).
  *Provisioning:* bytes of two values, logs of up to 3
  of them for the client and 4 for the RoT (so that a log may be too large),
  chunks of 2, keys of 3: a success means that the RoT has what was written
  (`SuccessMeansStored`; the chunks of a key have no checksum, so for a key
  that holds if no other client came between), an undisturbed read is the RoT's log
  (`ReadIsWholeLog`), and what failed commands left does not spoil the next one
  (`UndisturbedSucceeds`).
- `htool`, with deadlock checked. *Command lines:* every command of the table
  with the parameters it needs, with each of them missing, with one further
  parameter in every form of writing and with right, wrong and empty values,
  before or behind the others; pairs of flags of one command; verbs that are
  unknown or incomplete; every global flag in every form with every transport.
  On each line every step of the handler that can fail fails in turn. The
  command that runs is the one typed (`RunsTypedCommand`), with the values typed
  (`ParserRoundTrip`), and complains only of what was typed
  (`RefusedForWhatWasTyped`); exit status 0 means that nothing failed
  (`ExitZeroMeansDone`), that output files were written (`OutputsAreWritten`)
  and that no answer was too short (`OnlyWholeAnswersUsed`, but for the four
  commands below that do not compare the size); a mistake on the
  host's side is found before the RoT is changed
  (`HostSideFailureLeavesRotAlone`) and a mistake on the line before a file is
  truncated (`RejectedLineKeepsFiles`). One extra parameter is enough for the
  parser, whose only state between two words is the value already filled in.
  TLC evaluates the rules of `HtoolRules` on the table and on every one of these
  lines before it starts.
  *Numbers:* all texts of at most 4 of the characters `0 1 9 f x - blank s m u`,
  with 32 bits as modulo 16, 64 as modulo 128, a second of 20 and a millisecond
  of 3 microseconds, so that every limit is passed by a number of four characters:
  `NumbersAreRead`, `U64NeverWraps`, `TimeIsExact`. They say nothing of what
  `parse_u32()` makes of a number that does not fit, which it cuts to 32 bits
  without a word. *V2 framing:* up to two
  parameters of up to two bytes with values 0 to 2, alignment 2, request
  storages of sizes that fit, just fit and do not, responses that differ from a
  good one in a byte, in length or in the number of parameters:
  `RequestIsFrame`, `SerializedIsExact`, `FixedIsExact`.

Runs that show a disagreement (`findings` in `PROJECT.json`):

- `fifo_again`: after a timeout `libhoth_device.h` lets the caller call again
  later; the FIFO transport has dropped the request by then.
- `dfu_needed`: with a newer ROM_EXT in the staging slot the install counts no
  update and then fails its own check, although `dfu_hostcmd.h` promises
  whatever updates are necessary.
- `chunk_length`: from the second packet on the chunk's length is read from
  data bytes, so a good chunk can be rejected.
- `attestation_file`: when the file named by `--attestation_file` cannot be
  created, or the data outgrows its buffer, `htool_fetch_attestation()` returns
  the 0 of the call before.
- `u64_negative`: `parse_u64()` "rejects negative numbers" by their first
  character; `strtoull()` finds a sign behind a blank or a prefix too.

Other disagreements met while modelling, which the models contain and no run is
spent on; where a property holds only without them, it names them:

- `libhoth_mtd_open()` tries its lock once although README.md promises
  `--connect_timeout` for any busy transport (`NoEarlyGiveUp` excepts it);
- a zero `timeout_ms` waits for ever in the FIFO transport, where the header says
  it returns immediately;
- `libhoth_hostcmd_exec()` returns 0 for an extended error of code 0;
- `libhoth_spi_proxy_update()` skips the erase of the last page below 2^32 because
  `page_end` wraps;
- a console snapshot started just below the wrap-around reads for ever, and a
  Ctrl-T Q behind a Ctrl-T B of the same read is dropped;
- a driver's open that fails during a reconnect leaves the endpoint numbers set,
  and later reconnects are refused (`RefusesOnlyUnusable`);
- a wait for access with a timeout within one sleep of 2^32 never ends
  (`SleepsNoLonger`);
- `provisioning.h:128-130` announces 1 for a log that is too large, the code
  returns -1; the log's read does not compare the checksum in the header
  (`ReadIsWholeLog`);
- `htool_security_v2.h:55` says of a reserved field that its value should never
  be looked at, `htool_security_v2.c:141` refuses a response over it;
- five handlers exit with 0 after an error (`Lenient` in `HtoolCmd`), buffered
  output may be lost at `fclose()` unseen (`BuffersOutput`), `spi read`
  truncates its file before it looks at `--address_mode`, attestation keys are
  generated before their files are opened, and statistics, MAUV, the
  provisioning log's header and a key record's chunk are used whatever the size
  of the answer;
- a packet of a chunk that is shorter than asked for is only warned about
  (`key_rotation.c:412-418`): the read succeeds with bytes that never came
  (`ReadsAreExact` excepts those in `missing`). `key_rotation_test.cc:402-422`
  expects it, and htool's check afterwards (`htool_key_rotation.c:353-362`)
  compares the size typed with the size asked for, so that it finds only one
  that did not fit 16 bits;
- with `--address_mode 3B` a file at or over 2^24 is written to the address
  without its top byte, to other sectors than asked, and reported as written:
  `command_spi_update()` does not check the range (`FlashIsRight` excepts it
  by `Reachable`; 3-byte ranges below 2^24 are within it).

## 4. Fairness

- `SharedDevice`: a process inside `libhoth_claim_device()` makes its attempts and
  its `usleep()` ends; both are the process's own steps. No fairness on other
  processes: they may hold the RoT for ever.
- `UsbFifo`: the client's thread runs (`Submit`, `Check`), libusb delivers the
  callback of a finished transfer, and libusb ends a transfer that has a
  timeout or was cancelled. The RoT owes nothing.
- `PayloadUpdate`: the command's own steps. `ConsoleOutput`: the snapshot's reads;
  the RoT's writer owes nothing.

## 5. Proofs

`SharedDeviceProofs`, for any set of processes, timeouts and back-off constants
with 0 < InitialWait <= MaxSleep <= Uint32Max (`DeviceAssumption`):

- `TypeCorrect` by one case per action; that the total stays within 32 bits
  rests on `AddWaitingSaturates`, the sleep's bound on `BackOffBounded`.
- `Invariance`: the properties are not inductive alone. `IInv` adds what the
  counter says of the time slept (`CounterTracksSleep`: exact below UINT32_MAX,
  and sleeping starts only under budget) and that a set-up is never a console's
  (`HandleIsKept`). It is a conjunction of facts about one process each
  (`LocalInv`): a step of p keeps the facts about q because it never takes q's
  lock (`OthersUntouched`), and its own by cases (`OwnStep`).
- `ExclusiveCommands`, `OpenHandles`, `BoundedSleep`, `FullBudget` follow.

`UsbFifoProofs`, for any ids, TxFIFO length and number of repetitions:

- `Invariance`: `NothingInFlight` and `FlagsTrackTransfers` together with where
  the transfers are between the two submissions (`OutNotYetSubmitted`) and that a
  receive has a request (`CallHasRequest`). `TypeStep`, `PlacesStep` and
  `RequestStep` each treat one part, action by action.
- `TypeCorrect`, `NoTransferLeft`, `FlagsExact` follow, and `Refinement`: every
  step is a step of `HothTransport` or leaves its variables alone.

`TransportProofs`. The mailbox transports, for any sizes of requests, packets
and buffers and any number of calls, and a response header that fits one read
and the caller's buffer (`MailboxAssumption`):

- `MailboxInvariant`. `WholeAnswer` is about the end of a call, so `MailboxInv`
  says for each place of each transport what the mailbox holds by then of this
  call's request or response (`Unwritten`, `Sent`, `Working`, `Answered`) and
  what of it the caller's buffer has (`Copied`), all for calls that began on a
  quiet RoT; and for all calls that nothing in the mailbox, in the endpoint or
  at work is of a later call than the present. `WriteSends` shows that one more
  piece of the request extends what is sent, `FilledCopies` the same of the
  caller's buffer. One lemma per group of actions (`SendStep`, `ProgramStep`,
  `AtomicStep`, `ReadStep`, `UsbWriteStep`, `UsbReadStep`, `RotStep`, ...).
- `AnswersStayWhole`, `BufferedStaysThisCalls` follow.

Host commands, for frames of every length and every size of a byte
(`HostCmdAssumption`):

- `HostInvariant`: what is on the wire and what the RoT answered are frames
  (right version and length, bytes that add up to zero), and what was received is
  such an answer with at most one byte changed, or cut. What the checksum loop
  computes is proved by induction over the frame: the sum after a change of one
  byte differs by that change, so it is not zero.
- `ExchangeStaysSound` follows.

USB handles, for any devices, locations, timeouts and sleep (`UsbAssumption`:
`Null` is not a device, a RoT has the vendor's id, one sleep is shorter than
2^32):

- `UsbInvariant`: `UsbInv` says what has been opened, claimed and filled in at
  each place of an open or a reconnect (`Progress`), that a handle outside of
  one is fit for use (`Fit`), that the drivers find their data as `calloc()`
  made it unless an open failed in a reconnect (`Clean`), and that the counted
  time is the time slept as long as it cannot wrap (`Waiting`). What
  `FillEndpoints` computes is `FillEndpointsFacts`, which takes the endpoint
  that a search finds first from `LeastNumber`.
- `HandlesStaySound`, `RefusedForItself`, `WaitsAreBounded` follow.

`PayloadUpdateProofs`, for any flash, sector, block and chunk sizes where
sectors divide blocks and the flash, and images that fit the flash
(`PayloadAssumption`):

- `PayloadInvariant`: what the erase loop has passed is erased and the loop
  stays in whole sectors of its range (`Erasing`); behind the programming loop
  the flash holds the image, before it the image can still be programmed
  (`Programming`, which is what skipping of 0xFF rests on); a read has what
  lies before its position (`Reading`). `ChunkInImage` and `EraseChunkInRange`
  are about the chunk a turn of the loops takes; the first and last bytes that
  are not 0xFF come from `LeastNumber` and `GreatestNumber`.
- `TransfersStayExact`, and the action properties `WholeImagesFinalized` and
  `RangeOnly`, follow.

`ProvisioningProofs`, for any files, chunk sizes and limits where the RoT's log
and the key fit their 16-bit sizes (`ProvisioningAssumption`, with `RotMax <
Space` because the size is a 16-bit field, `provisioning.h:85`):

- `ProvInvariant`: an undisturbed write has staged its file up to its position
  (`Writing`), an undisturbed read has the log up to there (`Reading`), a key's
  chunks are the file's (`Loading`). `OverlaidExtends` and `PartsJoin` are the
  two lemmas about putting chunks together.
- `SuccessStaysTrue`, `UndisturbedAlwaysSucceeds` follow; in `UpdatesProofs`,
  through `LogsComposed`, as `SuccessesAreTrue`, `UndisturbedCommandsSucceed`.

`UpdatesProofs`, about the other modules of that composition:

- Firmware, for any versions and number of chunks (`DfuAssumption`).
  `DfuInvariant`: when DFU_COMPLETE reaches an open session the staging slots
  hold the image (`BootSafe`); how far an undisturbed install has come, which
  depends on how often the slots still change places (`OnTrack`); what the
  final check looked at still holds (`Installed`). `TornNeverBoots`,
  `OkIsInstalled`, `CountsSuffice` follow.
- Key records, for any records and sizes and an area whose offsets fit 16 bits
  (`KeyRotationAssumption`). `KeyInvariant`: from INITIATE to COMMIT the staging
  half holds the image up to the position and nothing behind it (`Updating`),
  and a read has fetched the slice before its position (`Reading`, `Fetched`).
  `RecordStaysWhole` follows, and with `ChunkInv`, `AllReadsExact`: the buffer
  has the chunk's bytes up to the position, but for those in `missing`. What a
  long packet left behind the position the next one overwrites, or nobody counts.
- The SPI flash, for any page, sector and block sizes that divide each other and
  any file that ends below the last block of the address space, above which the
  32-bit sums of the loop wrap (`SpiAssumption`; section 3 has what happens
  there). The assumption that an operation has room for `PagesPerOp` pages with
  an erase each is true of the code's constants: 3 * (2 * (2 * 4 + 1 + 5) + 256)
  = 852 < 1016 bytes and 3 * 4 = 12 transactions.
  `SpiInvariant` has two halves. `LoopInv` holds for every range: the file's
  position is at a page's start, the erase position at a sector's and not behind
  it (`Position`), and the operation is no larger than its pages allow (`Room`). `FlashInv` holds for ranges that the address bytes
  reach, for which the address on the wire is the one meant (`OnWireExact`): the
  operation's steps follow each other in the file (`Pending`), every byte to be
  programmed is erased already or by an earlier step (`ErasedFirst`), and every
  byte of the file behind the position is written already or by a later step
  (`WrittenLast`); what verify has compared is the file (`Verifying`); and
  outside of the touched sectors the flash is as it was (`FlashKept`). None of
  `NothingIsMixed`, `FlashHoldsFile` and `NeighboursKept` is inductive alone: the
  RoT carries the operation out step by step and may stop between any two, so
  that each needs the order of the steps that are still to come.
  `FlashStaysRight` and `AssertionsHold` follow.

`ConsoleProofs`, for any sizes of ring, reads and offsets where the ring and
what is written while the reader looks away stay below half the offset space
(`ConsoleAssumption`), and any keys (`InputAssumption`):

- `OutputInvariant`: offsets are numbers modulo 2^32, of which neither order nor
  distance can be read off. `OutputInv` says that the offset stands for one byte
  of the endless stream (`ReaderAt`), which is at most half the space before the
  point where the command began and before which nothing is left to print that
  the RoT still has. `FoundAtIs` shows that no other byte in the ring has that
  offset. `StreamStaysPrinted` follows.
- `InputInvariant`: what was sent, and `escaped`, are what a single pass of
  `unescape()` over everything read so far would give, as long as no write
  failed, and in any case a part of the keys in their order. That a pass over
  two reads is a pass over both is an induction over the keys.
  `InputStaysFaithful` follows.

`HtoolProofs`. The handlers, for any lines, statuses and failures. A handler is
data in this model, a sequence of steps in a table of ninety commands, so its
proofs have two halves. `TableAssumption` says in one rule per property what is
right about the table: a short answer is compared with its size in the next step
(`ShortAnswersSized`), errors are passed on (`FailuresReported`), nothing that
may fail on the host comes behind a step that changes the RoT (`ChangesLast`,
`TouchesLast`), parameters that are asked for are registered (`AsksRegistered`),
no way to exit status 0 leads past the step that writes a file
(`OutputsDelivered`). No constant occurs in it and TLC evaluates it: a handler
whose calls change places falsifies it. The proofs go from the rules to every
way through a handler, with its jumps and loops, and never expand the table:

- `PlaceInv`: a running handler is at a step of its own that its conditions
  take. `NextCases` and `StepOutcome` reduce the fourteen kinds of steps to
  three outcomes.
- `SizeInv` (a short answer is known of only at the step that finds it out),
  `FailureInv` (what goes on has met no failure but a buffered write's),
  `HarmInv` (once the RoT or a file was changed no step is ahead that may fail),
  and the invariant on files (behind the step that delivers a file, it is
  written) give `WholeAnswersOnly`, `ExitZeroStaysTrue`, `MistakesComeFirst` and
  `RefusalsAreDeserved`.

The command line, for lines with any number of items of which it is clear what
the user means (`LinesAssumption`; `Clear` is a grammar: items in a form their
parameter has, or mistakes; no word behind a flag that lacks its value, which
would be taken for it; no verbs that run into the first positional):

- `TypedIsRun`. `TypedInv` says that what is left to parse is the words of the
  items behind the k-th (`Rest`), and that the values are those the first k mean
  (`MeantUpTo`), none of them wrong; or that a global flag took the first verb
  for its value and what is left is no command. `GlobalsFilled` and
  `ParamsFilled` are about one turn of the two loops, for each of the twelve
  ways to write an item; `FoundCommand` is about the table's order, in which a
  command stands behind those whose verbs begin with its own (`VerbsOrdered`).

The parsers of numbers, for texts of every length over any alphabet and any
widths: `NumbersStayExact`. The value that the C library's loop gathers is that
of the digits it has passed (`ScanDigits`), so a number that is written out is
read back (`WrittenIsRead`), and the product of a time stays below the limit
that the code compares with (`TimeValue`).

The V2 framing, for parameters of every number and size, every storage and
whatever bytes are received: `FramingStaysExact`. What has been built is the
frame of the parameters so far or does not fit; what has been taken from the
response is the parameters that lie before the position. Both are inductions
over the parameters.

A theorem about `Provisioning` is proved from its assumption as a hypothesis and
holds of its specification alone; it is carried over to the composition by
instantiating the proof module with the composition's variables (`Logs`) and
showing that every step of the composition is a step of the component or leaves
its variables alone. The other theorems are about the composition or about the
module that it extends.

Induction over data. The library's induction theorems have an operator for a
parameter, which the provers cannot instantiate. The models therefore write
loops over data as recursive functions of the number of turns, and the proofs use
`Counting`, which is about a set of numbers: one that holds 0, and with n also
n + 1, holds all. It follows from the least number outside the set
(`LeastNumber`, `LeastOf`), and that from the well-foundedness of < that the
library proves. That a recursive function satisfies its equation is proved the
same way, by extending a function on 0..k that does to one on 0..k+1
(`NumbersAre`, `LastWordsAre` and their like).

Only model-checked:

- all liveness (`ClaimReturns`, `WaitEnds`, `CommandReturns`, `SnapshotEnds`):
  the prover does neither fairness nor ENABLED. Every safety property of the
  passing runs is stated by a theorem.

## 6. Abstractions and assumptions

- Request ids of processes alive together or still in the RoT's FIFOs differ
  (`IdsAround`): they are pseudo-random 32-bit numbers.
- A flash byte is known by where it comes from, not by its value, except for
  0xFF; programming over something else gives a mixed byte.
- Header fields of host commands are one byte; version, size, reserved and
  checksum checks are kept in their order.
- ROM_EXT versions are compared as the code compares them, which is a total
  order; bundles are the versions they yield.
- The console's reader is less than half the offset space behind; a reset of the
  RoT that restarts the offsets is not modelled.
- The RoT's mailbox takes no data while it executes a request, and executes a
  request when the last of its cells is there; the flash driver under MTD waits
  for the RoT as `spi_nor_busy_wait()` does. The status read of that function
  hands its transfer to `ioctl()` by value: it works or it fails.
- A USB packet's share of a response holds at least a response header, as with
  the 64-byte packets of a full-speed bulk endpoint.
- `WholeAnswer` says nothing of a command that begins while the RoT still works
  on, or answers, an earlier one: such a command may report success with a
  stale response, since no mailbox transport can tell them apart.
- A handler of htool is the sequence of its steps; what data decides (how often a
  loop runs, which of two answers the RoT gives) is a free choice. What it prints
  is left out, and so are tests of arguments that no caller can make fail.
- No error that a handler returns is a multiple of 256 (`StatusesAssumption`):
  the shell would see it as 0.
- 16-bit fields of the V2 framing are one byte, and the response is one the RoT
  would build or one near it.
- Two provisioning logs that differ have different checksums.
- The SPI flash chip is in the addressing mode that `--address_mode` names, and
  `3B/4B` has entered 4-byte mode.
- What bytes a handler prints or writes is left out, so also what `--offset` and
  `--size` of `key_rotation read` and `read_chunk_type` turn into when they are
  cut to 16 bits (`htool_key_rotation.c:248-249`, `346-348`) and the uncut size
  is then used on the response (`258`, `270`). Of `read_chunk_type` the step that
  refuses a size that was cut is modelled.
- Timeouts are 32-bit values from the start: their conversions before
  (`htool_usb.c:329`, `htool_console.c:124`) are not modelled.
- Size checks that need images near 2^32 bytes are reached with a small `Space`.

## 7. Not modelled, and the plan

Done: sharing of the RoT, the FIFO transport with its abstract promise, the
mailbox transports, the life of a USB handle, host commands, the operations that
change flash, firmware, keys and logs, and the whole of htool as its command
line and the steps of its handlers.

Not modelled:

- the D-Bus transport: each of its functions is one method call to `hothd`, which
  is not in the repository; htool's opening of it is a step of the handlers;
- the search for the image descriptor in `payload_info.c`, and the parsing of
  firmware bundles: they enter as what they find;
- the legacy console snapshot and the SPI read as loops of their own: their host
  commands are steps of their htool commands, and the chunked read is the one of
  the SPI verify;
- `progress.c`, `util.c`, `status.c` and everything that is only printed;
- `examples/host_commands.h` and the other headers, as far as they are layouts of
  structures whose fields no property tells apart.

Next: the search in `payload_info.c` and the D-Bus transport as models. Of the
proofs, what is left is liveness, for which the well-founded measures are the
waiting time (`SharedDevice`), the transfers that are still out (`UsbFifo`) and
the bytes that are left (`PayloadUpdate`, `ConsoleOutput`).
