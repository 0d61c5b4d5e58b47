# Specifications of the Blue_box BLE bridge

The program (`src/ble_hid_uart/src/`, Zephyr on a Panchip PAN1080) is a small box in an
electric vehicle. A phone application talks to it over BLE, the motor controller
over a UART. The box relays commands, and it updates the controller's firmware:
it downloads a file into an I2C EEPROM and, at the next boot, sends it on.

The modules here model that program: the two update stages, the two relayed
protocols, the path from received bytes to calls, the EEPROM driver and the lamp.
TLC checks them on small instances; TLAPS proves the safety properties of the
download, the transfer, the two together, the register bridge, the vehicle commands,
the receive path, the EEPROM driver and the lamp for every value of their constants.
Some hold under hypotheses that section 6 names, some speak only of the states their
statement names: "command recorded with nothing under way" (`V2Relay`), "no doubt what
is a head" (`UartRx`), "read that was not disturbed" (`Eeprom`). What happens outside
is said in section 7.

## 1. The system

### Components

| Component | Source | State it keeps | Operations | Modelled in |
|---|---|---|---|---|
| Download over BLE | `ble_ota.c` | `g_ota_ctx` (RAM), file, flag, length and code (EEPROM) | start request, data packet, package retry, erase retry, boot | `BleOta` |
| Transfer to the controller | `controller_ota.c` | `g_ctx` (RAM), the same EEPROM | `Ctrl_ota_process` (main loop), `Ctrl_ota_handle_reply` (UART interrupt), boot | `CtrlOta` |
| Both stages together | `main.c:1829-1902` | one EEPROM, one supply | — | `OtaPipeline` |
| EEPROM driver | `i2c_eeprom.c` | the chip | `EepromWrite`, `EepromRead` | `Eeprom` |
| V3 register bridge | `mcu_to_ble_protocol_v3.0.c` | `v3_state` | read/write request, reply, 800 ms timeout, handshake | `V3Bridge` (handshake: `Eeprom`) |
| V2 vehicle commands | `mcu_to_ble_protocol_v2.0.c`, `main.c:467-548, 1671-1792` | `g_controler_state`, `cmd_wait[]`, retry counter, LED pattern | handshake timer, lock status, unlock, lock, fault query, replies, 2 s timeout | `V2Relay` |
| Frame parser, UART receive path | `mcu_to_ble_protocol_v3.0.c:128-277`, `main.c:1207-1324` | `RX_Sendata`, `USART_RX_CNT` | UART DATA and TIMEOUT interrupts, BLE write | `V3Parser`, `UartRx` |
| LED | `dev_led.c` | pattern, blink phase and counter, two pins, one timer | `set_led_state` (Bluetooth thread, interrupts), timer callback | `Led` (who asks for which pattern: `V2Relay`) |
| Link report and resend | `mcu_to_ble_protocol_v2.0.c` | — | never called: the calls in `main.c` are commented out | no |
| Advertising, RSSI | `main.c` | `adv_is_open`, `rssi_busy` | `app_ble_adv_close` and `rssi_work` have no caller | no |
| ANCS client | `ancs_c.c` | — | its discovery is commented out | no |
| HID and GATT tables | `main.c` | — | tables and one-line callbacks | no |
| Gyroscope, IMU | `gyroscope.c`, `sc7u22_spi.c` | filters | disabled in `main()`, numeric | no |
| MRAM driver | `i2c_mram.c` | — | no caller | no |
| Clock | `docs/timebase_and_timer_accuracy.md` | — | kernel milliseconds run slow | time is abstract |

### How they interact

Four contexts run the code:

* the **Bluetooth receive thread** (`write_vnd` → `V3_handle_app_data` →
  `V3_parse_buffer` → a handler): download, register requests, vehicle commands,
  handshake;
* the **main thread**, which loops over `Ctrl_ota_process` until the transfer is
  done and only then starts the timers (`main.c:1871-1902`);
* the **UART interrupt**, which assembles bytes and calls
  `Ctrl_ota_handle_reply`, `V3_handle_mcu_reply` or `Handle_mcu_replydata`;
* three **timer interrupts**: the handshake every second, the timeouts every
  200 ms, the lamp at the rate of its pattern.

They share `g_ctx`, `v3_state`, `cmd_wait`, `last_cmd_type`, the lamp, the EEPROM
and the UART, and there is no lock anywhere. The two update stages communicate only
through the EEPROM: the last page holds a flag (`READY`), the length and the code
of the file below it.

### What is hard

* **Interleaving**: interrupts fall between a check and an assignment of the main
  thread (`controller_ota.c:219-222`), between the statements that start a wait
  (`v3.0.c:100-103`), between the computation of a chunk's length and the read of
  the chunk (`controller_ota.c:80-85`); a download runs during a transfer.
* **Messages without identity**: data frames to the controller carry no number,
  V2 replies do not name their command; a late answer counts for something else.
* **Losses, damage, repeats** on both links, answered by timeouts and retries.
* **Power loss** between any two steps, inside the write of a chunk and inside the
  write of the record that holds the flag, the length and the code.
* **Buffer arithmetic**: pages and blocks of the EEPROM, a FIFO that must keep one
  byte, boot loader replies back to back, frames in pieces.

`PROJECT.json` lists the hazards one by one, with the line where each bites and
the properties that would catch it. A hazard without a property has a note: most of
these are things that do happen in this code, which no text of the repository forbids.

### What makes each component correct

* Download: a file is offered (`READY`) only whole, an offered file is withdrawn
  before it is touched, what is acknowledged is stored.
* Transfer: `READY` is given up only when the controller has installed the very
  file; the module does not leave its loop before; frames to the controller lost
  do not stop it.
* Together: the controller never installs a mixture of two files.
* Register bridge and vehicle commands: whoever waits is answered, and an answer
  is about what was asked, as far as messages without identity allow.
* Receive path: bytes become the right calls, once, in order, and a lost byte does
  not spoil what follows for long, as far as a head of two bytes can be told from data.
* EEPROM: a write changes exactly its range, an undisturbed read returns its range.
* Lamp: a pattern stands until the next request, and the timer never stops over a
  lamp that shows something else than the pattern says.

## 2. The plan

Order, most important first; the sections below describe what exists.

| Step | Module | Status |
|---|---|---|
| 1 | `OtaFile` (files and their code), `OtaEeprom` (the record and the chunks both stages share), `BleOta`, abstract `FirmwareSlot` | modelled, checked, proved |
| 2 | `CtrlOta` | modelled, checked, proved |
| 3 | `OtaPipeline` = `BleOta` + `CtrlOta` on one EEPROM, against `FirmwareSlot` | modelled, checked, proved |
| 4 | `V3Bridge` | modelled, checked, proved |
| 5 | `V2Relay` | modelled, checked, proved |
| 6 | `V3Parser`, `UartRx` | modelled, checked, proved |
| 7 | `Eeprom` with the handshake | modelled, checked, proved |
| 8 | a torn write of the flag record, as a fault of `BleOta` and `OtaPipeline` | modelled, checked, proved |
| 9 | `Led` (`dev_led.c`) | modelled, checked, proved |
| 10 | the UART transmit path, byte by byte (`TGT_SendMultiData` from three contexts) | open |

The abstract specification is `FirmwareSlot`: an empty slot, or one offered file;
`Offer` and `Withdraw`, and no step from one file to another. A second one worth
writing is a one-place request/answer cell for `V3Bridge` and `V2Relay`.

## 3. The modules

**`OtaFile`.** A file is a sequence of chunks, a chunk the payload of one packet
(200 bytes on both links). The file code is the exclusive-or of 32-bit words; 200
is a multiple of 4, so no word straddles two chunks and the code of a file is the
exclusive-or of the codes of its chunks. With chunk codes as independent
generators that sum is the set of chunks that occur an odd number of times:
`CrcUpdate` is symmetric difference. The model keeps the weakness of the code that
matters here: it ignores order, and equal chunks cancel out. Accidental collisions
of real codes are not modelled.

**`OtaEeprom`.** The variables that the two stages have in common, `image`, `flag`
and `meta`: the chunks from address 0 and the record behind them. `BleOta` and
`CtrlOta` extend it, each with its own actions.

**`BleOta`.** One action per handler call and outcome. `ota` is `g_ota_ctx`,
`image`/`flag`/`meta` the EEPROM. Every handler runs to its end in one thread, so a
call is a step; the data handler is `DataRefused`, `DataStored`, `DataComplete` or
`DataMismatch` by its branches, and a power loss may interrupt it in the chunk
write (`PowerLossInWrite`, which leaves an arbitrary chunk, the right one
included) or in the write of the record (`PowerLossInRecord`). Of that record the
flag, the length and the code are then each the old or the new one, independently; a
length or code whose own bytes are mixed is not distinguished from these. Such a record is `torn` until a request clears or
rewrites it; a file is `Offered` when READY stands over a length in an untorn record.
A torn record may say READY over something else than the announced file: the safety
of that case rests with the controller, which verifies length and code, and is what
`OtaPipeline!InstalledWasAnnounced` is about. The application may send any packet of the announced file, in any order,
as often as it likes, damaged or not; it may announce another file in mid-stream,
which the module ignores and the history variable `pure` records. Retry requests
come in any state: the code does not check it.

**`CtrlOta`.** `g` is `g_ctx`. The main thread is cut at every read or write of
something the interrupt changes (`pc`): the dispatch on the state, the check of the
remaining length, the assignment that follows, the three reads of
`Ctrl_ota_send_data_frame`, the timeout check, the two assignments of the restart.
The interrupt handler is one action per reply. `elapsed` says that 500 ms have
passed since `last_request_time`; `local.moved` that the interrupt has moved that
time past the `now` the thread took on entry: the unsigned difference then wraps
and the timeout fires (`controller_ota.c:219`). The boot loader of the controller
is external, written from the replies the code handles: it erases on a request,
appends and acknowledges data frames, verifies length and code after the one marked
last.

**`OtaPipeline`.** Extends `BleOta` and `CtrlOta`, which have the EEPROM of
`OtaEeprom` in common and nothing else. A step is a frame of the application, a step of the transfer, or a power
loss, which restarts both; the transfer then starts from the record as the power loss
has left it. The application's frames are the download's actions unchanged, so that
what is proved of `BleOta` carries over, and so are the transfer's.

**`V3Bridge`.** `V3_handle_read_write` statement by statement (`thread.pc`:
send, waiting, cmd, grp, time), the reply and the timeout as atomic interrupts.
`expired` stands for `now - send_time_ms >= 800`. The history variable `last` remembers
the request forwarded last and the one before, which a timeout names until the
thread has recorded the new one.

**`V2Relay`.** `BLE_send_protocol_cmd` statement by statement in the thread, atomic
in the handshake timer; replies are credited to `last_cmd_type`. A timeout may fall
between any two statements, an answer may be late, and the controller may refuse
what `Refusable` holds. The history variable `sent` remembers of the recorded command
whether the UART was empty when it was recorded (`apart`), which is the condition
under which a reply can be told from that of an older command, and whether it was
refused.

**`V3Parser`, `UartRx`.** Bytes are bytes. `V3_parse_buffer` is a recursive
function of the offset, `At` its decision at one offset: skip a byte, stop, or take
a frame. Beside it stand the frames as the two protocols have them (`IsFrame`,
`IsNoise`), which say what a write may consist of and are not used by the parser.
`UartRx` is the interrupt: `DataEvent` takes all of the FIFO but one byte,
`TimeoutEvent` takes the rest and decides among boot loader replies, a register
reply, anything else. `Content` gives the bytes the controller's frames carry: any byte,
those of the head included. `RX_Sendata` keeps what earlier frames left, because
`StartsV3` looks at its second byte without checking the count. The history variable
`doubt` is set by a step at which the interrupt may begin to take other bytes for the
head of a register reply, or a part of one for something else: a V2 reply `53 35`; the
loss of the command byte of a register reply, or of any byte of another frame that
holds 53; a pause between the two head bytes; after a loss, a pause at which what has
come of a register reply is dropped while its rest holds 53. Which steps these are is
read off the sender and the wire; the interrupt itself never looks at `doubt`. It is set
more often than harm comes of it: not every 53 in what is left is followed by a 35. Two loops of the
interrupt are given by what they leave: `Replies` is the number of boot loader
replies at the head of the bytes, `MovedUp` the buffer after one `memmove` per reply.

**`Eeprom`.** An I2C transfer is a step; a write is a transfer and a sleep per
page, a read an address transfer and a data transfer per piece. The chip is
external: wraps inside its page when written, inside a block when read, refuses
transfers during its write cycle. The V3 handshake is here because its one
interesting act is to read the flag. Its lamp request (`v3.0.c:77`) is one of those
of `Led`.

**`Led`.** `SetState`, `SetBlinkOff` and `StartTimer` are the three statements of
`set_led_state` in the Bluetooth thread; `set_led_state` is the same in an interrupt,
in one step. `led_timer_cb` has a disjunct per kind of pattern. The Zephyr timer is
external: it is stopped, or runs once or periodically, and the callback of a periodic
one may make it one-shot. `asked` remembers the last request.

## 4. The runs

Passing runs (`MC` modules with the `.cfg` named in `PROJECT.json`):

| Run | Distinct states | What it shows |
|---|---|---|
| `ble_ota` | 884 751 | The five safety properties of the download and its refinement of `FirmwareSlot`, with power lost in every kind of write. |
| `ctrl_ota` | 507 276 | The four safety properties of the transfer, and delivery. |
| `ota_pipeline` | 1 119 908 | The composition, with one power cycle, files of disjoint chunks and no faults on the wire: no mixture is installed, also after one torn record; the offer stays whole, refinement survives. Section 6 says what two torn records can do. |
| `v3_bridge` | 701 216 | Waits match; everyone is answered; a timeout names the request forwarded last, except from its forwarding to the two statements that record it (`v3.0.c:97-102`), when it names the one before. |
| `v2_relay` | 795 484 | Of commands recorded with nothing under way: what a reply reports is true, waits are not ended by others' replies, they are answered unless refused. |
| `uart_rx` | 83 382 | Calls in order, recovery after a lost byte, delivery, all until `doubt` is set; writes of whole frames parsed. |
| `eeprom` | 131 361 | Writes are exact; reads and handshakes that no other transfer disturbed are exact; calls return. |
| `led` | 3 091 | A request is not undone, the timer rests only over green, patterns are shown once requests cease, the green blinking ends. |

The properties are stated with a comment each in the module they belong to; every
one has a mutant in `PROJECT.json`, a plausible mistake in the code that TLC shows
to break it.

**Bounds, and what they let happen.**

* `ble_ota`: two chunk values, room for three chunks, announced files of length 0
  to 4 (empty and too long are refused), among them two that differ in order only
  and one whose code equals that of a shorter one; two refusals end a session
  instead of ten. Sessions, packets, retries and power losses are unbounded.
* `ctrl_ota`: files of one to three distinct chunks in an EEPROM of four, so that a
  chunk skipped, repeated or read past the end shows; a refused length; two late
  timeouts, one frame lost, one damaged, one reply lost, one power cycle, all in any
  combination; three frames on the wire.
* `ota_pipeline`: two files of disjoint chunks, so any mixture shows, one power
  cycle at any moment, torn records included; the wire without faults, which
  `ctrl_ota` covers. Its `VIEW` leaves out what the application was last told, which
  no step and no property of this run reads.
* `v3_bridge`: three requests, so that a reply to the first can arrive during the
  third; one loss, one damage, one late timeout.
* `v2_relay`: two vehicle commands of any kind, two handshake attempts, two losses, one
  late answer, refusals of the handshake and of every command but the fault query, a
  timeout between any two statements of the thread. A command recorded while something
  is still under way is in the runs; the properties ask nothing of it, because with
  replies that do not name their command it takes the older answer for its own.
* `uart_rx`: three frames of four kinds, a FIFO of five bytes that signals at four,
  every placing of the events; two pauses anywhere inside register replies, any one
  byte lost. The frames carry 53 and 35 in every role: as the answer of the boot
  loader, at the front and at the end of a register reply's data, in V2 replies, one
  of them `53 35`;
  BLE writes of up to three frames or runs of noise out of fifteen. Register replies
  have 6 bytes instead of 20, and the buffer 21 bytes instead of 240: just room for an
  incomplete register reply and a burst of two (`RoomAssumption`, which the sizes of
  the code satisfy up to a burst of 27).
* `eeprom`: two blocks of two pages of two bytes, operations of up to four bytes at
  every address, one write, one read and one handshake at once: every way to cross a
  page, the block and both, and every interleaving of the transfers.
* `led`: the real number of shines, 30; nothing is bounded.

Four runs end in a counterexample; each is a disagreement between the code and
what a comment of it says, listed under `findings`:

| Run | Comment | What happens |
|---|---|---|
| `ctrl_ota_outcome` | `controller_ota.c:303, 319`: complete, restarting | the main thread overwrites the state the interrupt has just set |
| `ota_pipeline_exclude` | `ble_ota.c:179`: update and transfer do not run together | they do: the flag is read only at boot |
| `v3_no_reply` | `v3.0.h:41`: no reply within the timeout | reported at once with the previous request's time, or after a reply |
| `v2_already_unlocked` | `main.c:518`: query first | nothing is queried; after a lock the module still believes "unlocked" |

**Deadlock.** Only `BleOta` runs for ever by construction, and is checked for
deadlock. The other systems really stop: a transfer after its outcome, a boot loader
that hangs until repowered, an application that has spent its requests, threads with
no call left, a lamp that rests on green.

## 5. Fairness

Safety uses no fairness. Liveness assumes, per module, what the platform gives:

* the main loop and the Bluetooth thread run (nothing of higher priority runs for
  ever), pending interrupts are taken, time passes: weak fairness of `Main`,
  `Thread`, the handlers, the timer callbacks and `Elapse`;
* the controller answers what reaches it: weak fairness of `Controller` and
  `McuAnswer`;
* a timer of the lamp that runs expires, and the thread finishes `set_led_state`
  (`Led`); `SteadyShown` and `BlinkShown` are about runs in which requests cease
  (`Quiet`), because every request restarts the timer's wait;
* the hardware raises its events, a byte on the line arrives, a write cycle ends
  (`UartRx`, `Eeprom`).

No loss, damage, power cycle or request is ever obliged to happen or not to happen.
What liveness says: `CtrlOta!Delivered` excuses a refused length, a damaged data
frame and a lost or late reply, because the code waits for ever in `WAIT_CONFIRM`
and `WAIT_COMPLETE` and the boot loader hangs after a damaged frame; what it
promises is that lost requests, lost data frames and power cycles do not stop the
transfer. `V3Bridge!Answered` assumes that the timer is started, that is, that no
transfer is going on; a stale reply counts as the answer. `V2Relay!Answered` is about
commands recorded with nothing under way, and ends in an answer or a refusal: a refused
lock or unlock is not answered, nor is a command that the module drops because the
handshake has not succeeded (`GiveUp`), and of one recorded while an older answer was
under way nothing is said. `UartRx!Delivered` excuses a lost byte and `doubt`.

## 6. The proofs

`tlapm` checks `BleOta_proofs`, `CtrlOta_proofs`, `OtaPipeline_proofs`,
`V3Bridge_proofs`, `V2Relay_proofs`, `UartRx_proofs`, `Eeprom_proofs` and `Led_proofs`. Assumed are only the named assumptions on the constants (`BleOtaAssumption`: the announced
files are sequences of chunks, capacity and resend limit are positive;
`CtrlOtaAssumption`, `V3BridgeAssumption`, `V2RelayAssumption`: the bounds are
naturals, the capacity positive; `EepromAssumption`: pages and blocks have at least
one byte and a block is whole chip pages; `LedAssumption`: a blink has at least one shine;
`V3ParserAssumption`, `UartRxAssumption`: frames have at least four bytes and their
sizes fit in a byte; `AppAssumption`: what the application writes is frames and noise;
`RoomAssumption`: the buffer holds what section 4 says).

* **The file code** (`BleOta_proofs`, its first part). Writing a chunk beyond the prefix does not
  change the prefix's code; the code of a prefix extended by a chunk is the update of
  the code (`CrcUpdate`), from the parity of a cardinality.
* **The download** (`BleOta_proofs!Invariance`). None of the properties is inductive
  alone. `ReadyImage` is about the moment READY is set, so the invariant must say
  what is stored while the session runs (`AckedIsStored`, `RunningCrc`), where the
  next chunk goes (`Position`), what length is in force (`AnnouncedLength`), and that
  no session with a length writes under READY (`NoDownloadUnderReady`) — the last
  because a package retry opens sessions without clearing the flag, and is harmless
  only since the context left over has length 0 whenever READY stands.
  `PromiseKept` bounds what the last offer stored, for `ReadyCrc`. `IInv` is the
  conjunction; the proof has a lemma per action and a step per conjunct. From it
  follow type correctness, the four invariants and `DownloadImplementsSlot`: every
  step of the download is an `Offer`, a `Withdraw` or a stutter of `FirmwareSlot`
  under `slot == IF Offered THEN SubSeq(image, 1, meta.len) ELSE <<>>`. A record torn
  by a power loss is a `Withdraw` or a stutter.
* **The transfer** (`CtrlOta_proofs`). `CtrlOtaPosition` and `LoopLeftOnlyWhenDone` need what
  the thread has decided at each point where the interrupt may come (`Labels`, `Done`,
  `EmptyInHand`). `AckedWasTaken` is a counting argument: `Credit` says that the chunks
  acknowledged so far plus the acknowledgements still on the wire never exceed what
  the boot loader has taken, unless the whole file is there or the rewind is due. It
  holds across steps only because nothing of an earlier transfer survives into a new
  one: no acknowledgement crosses a request (`NoAckYet`), data to be taken lies behind
  no request (`DataAfterRequests`), a request starts from nothing (`FromStart`), a
  failure is the last word of its transfer (`FailureLast`, `AfterFailure`), and an
  empty data frame is sent only at the end (`EmptyAtEnd`). `ClearedOnlyWhenInstalled`
  builds on it (`OInv`): the chunk a frame brings is one of the file up to the place it
  gets in the boot loader (`DueInHand`, `DueOnWire`, `NotAhead`, from `Credit`), and a
  buffer of such chunks with the file's length and code is the file (`VerifiedIsFile`, by
  counting: nothing has moved). Its hypothesis `Distinct`, that the chunks of the file
  all differ, is needed because the file code, in the code as in the model, ignores the
  order of the chunks, and equal ones cancel: of a file with repeated chunks (padding)
  nothing is claimed. All of it for any number of losses, late timeouts, damaged
  frames and power cycles.
* **The composition** (`OtaPipeline_proofs`). The invariant of the download is an
  invariant of the pipeline as it stands: to the download a step of the transfer is
  nothing at all or the loss of READY (`EepromFromTransfer`), and every conjunct is
  kept by losing READY (`WithdrawnKeeps`). Hence `OfferIsWhole`, `ReadyCrc`, and the
  refinement of `FirmwareSlot` by both stages together.

  The other direction is `InstalledWasAnnounced`. The counting of the transfer
  (`Agreement`) says nothing about the chunks in the EEPROM, and so survives a download
  that overwrites them: `AckedWasTaken` and `CtrlOtaPosition` hold here as well. What
  `ClearedOnlyWhenInstalled` rests on does not: while a download runs, "the chunk read
  is one of the file at the place it is read from" is false, of the file announced
  to the controller. What is left is that a download writes at each place a chunk which
  *some* announced file has at that place (`PlacedAt`, `FrameInPlace`). The boot
  loader's buffer then never holds a chunk at a place before its own (`GrownPlaced`):
  chunks can have been taken twice, but none has been skipped. Such a buffer with the
  length and the code of an announced file is that file (`PlacedIsFile`): every chunk of
  the file has to be in it for the code to agree, and there is room for no other.
  `OnlyAnnouncedInstalled` has two hypotheses. `PlacesTold`: equal chunks of announced
  files are at equal places; a file with padding, or two versions that share a chunk at
  different places, can be mixed into something with the right code, because the code
  ignores order and equal chunks cancel. `[]~torn`: no power loss has torn the record in
  the middle of its nine bytes and left READY. With a torn record READY may stand over
  chunks of a file that is half overwritten, with its old length and code; one such
  power loss still ends well, and the run `ota_pipeline` checks that, but a second one,
  a late answer or a retry packet can bring about a mixture whose code agrees. The
  general statement without the hypothesis is false.
* **The register bridge** (`V3Bridge_proofs`). `WaitedFor` must hold between the
  statements of the thread as well (`WaitedForAtAll`: from the assignment of
  `waiting_mcu_reply` on). `TimeoutNames` follows from what is recorded at each statement:
  the new request, or still the one before (`Recorded`), for which the thread must hold
  the request it has forwarded (`InHand`). `IInv` is their conjunction with `TypeOK`.
  `TimeoutNamesRecorded` therefore says of every tick what it names, the ones between
  forwarding (97) and recording (101, 102) included, where it is the wrong request.
* **The vehicle commands** (`V2Relay_proofs`). No hypotheses. That the wire carries commands
  only needs `InHand`. Replies being anonymous, the argument for `WaitedFor` and
  `SuccessIsTrue` starts from a command recorded while nothing is under way (`sent.apart`):
  the handshake is sent only before the thread sends anything (`AfterHandshake`), the
  thread sends what it has recorded (`InThread`), so that from then on the UART carries at
  most this command or its answer, and the answer is honest or a refusal (`OneItem`); its
  wait is ended only together with the application's, or by a refusal (`Held`). It holds
  for any number of commands, losses, refusals, late answers and handshakes, wherever a
  timeout falls. Of a command recorded with something under way nothing is claimed.
* **The receive path** (`UartRx_proofs`). `FlattenSeq` and the loop of the parser are
  recursive functions. Each is shown to exist and to be the only solution of its
  equations (`AppendedExists`, `ParseExists`), by an induction that quantifies over a
  set of naturals and not over a predicate (`Induction`). After that the parser's
  result at an offset follows from its result behind the piece that stands there: a
  frame is taken whole (`FramePiece`), whatever its bytes look like, and noise is
  passed over (`NoisePiece`). `WritesAreParsed` adds the pieces up, for writes of
  every length.

  For the interrupt the invariants speak of the stream: the bytes in the buffer, in
  the FIFO and on the line, one behind the other. `Arrive` and `DataEvent` move bytes
  along it and change nothing (`ArriveKeeps`, `DataKeeps`), which is what makes the
  placing of DATA irrelevant; only the sender, a lost byte and TIMEOUT change it.
  `UartInv` bounds it: what waits in the buffer at a pause is less than a register
  reply, and no more than one frame or one burst comes on top (`SincePause`). That the
  wait ends needs that what starts like a register reply is one: a 53 at the front of the
  stream is that of a reply with its command behind it, or the stream is the last frame
  and nothing else (`FrontIsReply`); the rest of a reply whose front has been dropped
  holds no 53 (`RestHasNone`); and what is kept at a pause starts with both head bytes
  (`KeptIsReply`). Anywhere else data may look like a head. `InOrderInv` says, while nothing is
  lost, that the calls made are those due for all frames but the ones in the stream, which
  are a burst of boot loader replies or one frame. `RecoveredInv` is about what a lost byte
  leaves behind: after a register reply that lost nothing the stream is either long enough
  for the next TIMEOUT to clear it or holds no head at all, and the register reply after
  that stands alone in it.

  `ReceiveInv` is the three together, as long as `doubt` is not set. They are proved at
  once, because each step needs the others: that nothing is dropped at a pause while no
  byte is lost comes from the order (`RestHoldsNone`), and it is what keeps the rest of a
  reply from passing for a head. `TypeCorrect`, `FramesHandledInOrder` and `RepliesRecovered`
  follow, for every content of the frames and without hypotheses. Once `doubt` is set
  they say nothing: see section 7.
* **The EEPROM driver** (`Eeprom_proofs`). First the arithmetic: the device address and
  the two address bytes name the cell (`Addressing`), a piece of a read stays in its
  block (`ReadPiece`, `ReadsOn`), a piece of a write in a page of the chip
  (`PieceInPage`), so that programming it changes those cells and no other
  (`ProgrammedCells`). `IInv` says what each call is in the middle of: where it is in
  its range (`Placed`, `Writing`), that what an undisturbed read has gathered is what it
  should have (`Fetched`), and that the chip points where its data transfer goes on
  (`Pointed`), which is what another thread's transfer destroys. From it follow
  `ReadExact` and `HandshakeTrue` for every chip. `WriteExact` is the end of `WInv`: the
  cells meant are the cells there, overlaid by what the write still holds. It is proved
  under `PagesFit`, the chip's page a multiple of `EEPROM_PAGE_SIZE`; without it it is
  false (section 7).
* **The lamp** (`Led_proofs`). `Rest` follows from what keeps each kind of pattern
  running: a steady one has the periodic timer (`SteadyIsRefreshed`), a blinking one
  some timer unless the thread is just about to start it (`BlinkRuns`,
  `FastBlinkRuns`), and a blink that has ended and stopped has left green lit
  (`EndedIsGreen`).

Only model-checked: liveness, which is out of the provers' reach, and what a single
torn record does to `InstalledWasAnnounced`. Every safety property of a passing run
is stated by a theorem.

## 7. Limits, and remarks on the code

Not modelled: the components marked "no" in section 1; frame layouts and check codes
of single frames (a frame is good or damaged); logging; the progress percentage; the
simulation build (`BLE_CONTROLER_SIMU_ENABLED`); an EEPROM write from the UART
interrupt, which sleeps 5 ms there (`controller_ota.c:310`) and is taken as done; frames of two contexts mixed byte by
byte on the UART (a frame spoiled that way is one damaged or lost); how long each
pattern of the lamp lasts.

The remaining components are left out for good: they are dormant (ANCS, link report,
RSSI, MRAM), tables and callbacks for the Bluetooth stack that keep no state the rest
of the program reads (HID, GATT, advertising), or numeric filters that are switched
off (gyroscope, IMU).

Things seen while modelling that no run states:

* `main.c:1285` says that pieces are gathered only while a reply of the controller is
  awaited; `V3_is_waiting_mcu_reply` is never asked.
* `mcu_to_ble_protocol_v3.0.c:163` and `:207` speak of waiting for the rest of a
  frame; the parser keeps nothing between two calls, so the rest of a split BLE write
  is lost. `WriteParsed` is stated for whole frames.
* The UART interrupt knows a register reply by two bytes (`main.c:1286`) and keeps what
  starts like one until it is as long as its third byte says. What `doubt` marks, and
  what then happens:
  - A V2 reply `53 35` (a fault code) is withheld for a register reply; the next frame is
    appended, and its first byte is read as the command. If that names no size the
    buffer is blocked for good.
  - Without its command byte a register reply is read with its first data byte as
    command: the same.
  - A pause between the two head bytes: `RX_Sendata[1]` is what the frame before left
    there, and the first byte is kept or dropped accordingly.
  - After a loss the front of a reply may be dropped at a pause. If the rest begins with
    `53 35`, in the data, it is kept as the head of another, and the reply that follows is
    not handled. The same can come of a lost byte in a boot loader or V2 reply that
    holds 53.

  In a blocked buffer every later frame is appended, boot loader replies included, and the
  TIMEOUT branch stores without looking at `RX_BUFFER_SIZE`. What then lies behind
  the buffer is overwritten; the model does not follow it there.
* `i2c_eeprom.c:10` and `:40` speak of pages of 128 bytes, `EEPROM_PAGE_SIZE` is 256.
  With `ChipPage` smaller than `EEPROM_PAGE_SIZE`, `WriteExact` fails: on a chip of
  128-byte pages chunks would overwrite each other.
* The retry acknowledgements (`ble_ota.c:96, 108`) notify seven bytes of a frame of
  five.
* A register reply that comes after its request was given up, or answered with NO_REPLY, is
  forwarded while the next request is pending and ends the wait of that one: replies carry
  no number. To `V3Bridge!WaitedFor` and `Answered` it is an answer.
* An unlock or lock refused by the controller ends the wait without a word to the
  application (`v2.0.c:284`); one sent before the handshake has succeeded is dropped
  (`v2.0.c:359`).
* A timeout between `v2.0.c:389` and `390` reports failure before the command is sent; the
  command is then sent and obeyed all the same.
* A read of the EEPROM disturbed by another thread's transfer or write cycle returns other
  bytes or none (`i2c_eeprom.c:82-85`): there is no lock. A failing chip is not modelled.
* A fault query that times out is answered "no fault" and a status query "locked"
  (`main.c:1724-1757`).
* The `CRC_SUCCESS` of a transfer clears READY even when a download has offered a new
  file meanwhile: that file is never transferred (a `Withdraw` in `OtaPipeline`).
* A record torn by a power loss may say READY beside the code of another file. The
  controller then rejects the file and the module rewinds and sends it again, for
  ever and after every boot, without entering the relay loop, until a new download
  clears the flag.
* A package retry opens a session of whatever length the context has, although the
  comment (`ble_ota.c:368`) says that the file size does not change: after a reset the
  length is 0 (`ble_ota.c:368-371`). A packet marked last and code 0 then write READY
  over an empty file, and the next boot asks the controller for an update of 0 bytes.
  `Offered` and `FirmwareSlot` count no such file.
* The blink counter is not reset by a request (`dev_led.c:44-49`): a green blinking
  after one that was cut short is shorter, and one requested on the last shine ends
  at once (`BlinkEnds` says that it ends, not when).
* Under `GREEN_FAST_BLINK` the red pin keeps what the pattern before left on it, so
  both colours can be lit; the pin is never configured (`dev_led.c:70`).
* `v3.0.c:77` asks for the fast green blinking, its comment says slow red.
