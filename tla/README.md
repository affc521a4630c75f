# TLA+ models of temphumid

temphumid is a pair of USB thermometers/hygrometers and the host software that
reads them.  Both devices carry the same sensor on an I2C bus and reproduce its
readings on two analogue outputs; the first (`src/temphumid`) is an AVR with a
polling main loop and the V-USB software USB driver, the second (`src/th2`) a
SAMD11 with interrupt handlers and Atmel's (ASF) USB device stack.  The host side
(`src/temphumid-win`) is a library, a .NET wrapper, a GUI and a console program.

## 1. Inventory

| Component | Source | State it keeps | Operations | Hard behaviours | What makes it correct |
|---|---|---|---|---|---|
| th2 acquisition | `th2/.../src/main.c` | `state`, `bytes_read`, `hih_val`, `usb_val`, ticks, DAC values | `TC1_Handler`, `SERCOM0_Handler`, `request_measurement` | two handlers share `state` and the bus without looking at each other; NACKs; wrap of the tick | state and bus agree; published samples and DAC words are whole, fresh; samples flow |
| th2 USB requests | `parse_usb_request` in `main.c` | the setup request | vendor/class request answers | report numbers in `wIndex` and in `wValue` | the right words at the right length |
| ASF control endpoint | `usb_device_udd.c` | `udd_ep_control_state`, payload counters, `udd_g_ctrlreq` | setup / in / out / underflow / overflow callbacks | aborted transfers, short packets, pending callbacks, stalls | a transfer delivers exactly the payload, the callback runs once, the state returns to SETUP |
| ASF device requests | `udc.c` | configuration, interface settings, device status, address | standard requests, `udc_reset`, start, stop | partial failures of set configuration / set interface, resets inside a handler | configured means enabled, unconfigured means quiet |
| ASF endpoint jobs | `usb_device_udd.c` | `udd_ep_job` per endpoint | run, abort, halt, clear halt, transfer events | aborts racing completions, halted endpoints, callbacks that re-arm | one callback per job |
| HID interface | `udi_hid.c`, `udi_hid_generic.c` | rate, protocol, report buffers | class requests, reports in and out | report buffer reuse | there is room for the next report |
| USB hardware driver | `usb.c` (device half) | callback masks, endpoint configuration | endpoint configure, jobs, interrupt handler | several events pending at once | no event is lost |
| sleep and power | `udd_sleep_mode`, `sleepmgr` | lock counts | lock, unlock, suspend, wakeup | - | not modelled: the firmware never sleeps and nobody reads the counts |
| critical sections | `interrupt_sam_nvic.c` | nesting counter, saved mask, `g_interrupt_enabled` | enter, leave, save, restore | nesting of both kinds, an interrupt between look and change | sections are exclusive, the mask is given back by the outermost leave |
| v1 firmware | `temphumid/main.c` | `state`, `cnt`, `usb_val`, PWM values | main loop, `request_measurement`, `read_result`, `usbFunctionSetup` | USB is served in the middle of a reading; bus failures leave the bus held | samples flow, PWM in range |
| V-USB driver | `temphumid/usbdrv/usbdrv.c`, `asmcommon.inc`, `usbdrvasm16.inc`, `usbdrvasm.S` | `usbRxLen`, `usbTxLen`, `usbMsgLen`, toggles | `usbPoll` and its helpers, the interrupt routine | interrupt between any two steps of `usbPoll`; bits decoded and sent by counting cycles | packets in order, none twice; the address the device hears is the one the host uses; bytes, stuffing, rate and CRC as the standard has them |
| unit conversion | both `main.c` | none | fixed-point scaling | negative temperatures, range ends | the nearest value, in range |
| host library | `libtemphumid`, `.net` | libusb context, device list | init, enumerate, read, close | devices come and go between two passes | no stale device, no overrun |
| GUI | `Form1.cs` | current device, retry counter | load, timer tick | device lost and found again | a lost device is found again, values stand under their own units |
| console program | `temphumid-win.cpp` | none | one pass over the devices, then a loop of transfers | - | not modelled: it keeps no state |
| boot and clock helpers, boards | `ASF/sam0`, `board`, `th2/board` | hardware registers | initialisation | - | not modelled: straight-line register writes, generated code, drawings |

### How the parts interact

* **Sensor, bus and outputs.**  Both firmwares are the only master of an I2C bus
  with one sensor, which is asked for a conversion by one transaction and for its
  answer by another, some time later.  The answer says in two status bits whether
  it was fetched before.  The th2 has its two DACs on the same bus; the v1
  firmware puts its values on two PWM channels of a timer.
* **Firmware and USB.**  The two converted words are published in `usb_val`.  The
  v1 main loop stores them between two calls of `usbPoll`, and the USB interrupt
  routine runs at any point of either.  On the th2 a handler of the USB interrupt
  hands `usb_val` to the USB unit, which reads it by DMA.
* **Device and host.**  The host reads a word by a class request.  The v1 takes
  the number of the report from `wValue`, the th2 from `wIndex`; the library asks
  for one report in four bytes and, if that fails, for both in eight.
* **Library, wrapper, GUI.**  The wrapper calls the library's enumeration twice,
  to count and to fill; the GUI takes the first device, reads it on every tick
  of a timer and drops it when a reading is not a number.

## 2. Modules

| Module | Models | Used by |
|---|---|---|
| `I2cBus` | the SERCOM I2C unit, the sensor, the DACs (all hardware, modelled from how the firmware uses them) | `Th2Acquisition` |
| `Th2Acquisition` | both interrupt handlers of th2 | `MCTh2Acquisition`, `Th2Proofs` |
| `Th2Proofs` | proofs about `Th2Acquisition` | - |
| `Th1Main` | the main loop of v1 with its polled I2C master | `MCTh1Main`, `Th1Proofs` |
| `Th1Proofs` | proofs about `Th1Main` and `Conversion` | - |
| `ControlTransfer` | abstract: what a control endpoint promises the host | `VUsb`, `UddControl` (instance) |
| `VUsb` | `usbPoll` by steps, the USB interrupt routine, `usbFunctionSetup` | `MCVUsb`, `VUsbProofs` |
| `VUsbProofs` | proofs about `VUsb`, with the step refinement of `ControlTransfer` | - |
| `UsbLine` | the coding of bits on the USB line, and two processor instructions | `UsbReceive`, `UsbSend`, `UsbCrc` |
| `UsbReceive` | the receiver of the first device, sample by sample | `MCUsbWire`, `UsbProofs` |
| `UsbSend` | its transmitter, bit by bit | `MCUsbWire`, `UsbProofs` |
| `UsbCrc` | its `usbCrc16`, byte by byte | `MCUsbWire`, `UsbProofs` |
| `UsbProofs` | proofs about these three | - |
| `UddControl` | control endpoint of th2: USB unit, interrupt handler, `usb_device_udd.c` | `MCUddControl`, `UddProofs` |
| `UddProofs` | proofs about `UddControl`, with the step refinement of `ControlTransfer` | - |
| `EndpointTransfer` | abstract: what `udd_ep_run` promises | `UddEp` (instance) |
| `UddEp` | the jobs of an interrupt endpoint of th2 | `MCTh2Services`, `MCUddEp`, `UddEpProofs` |
| `UddEpProofs` | proofs about `UddEp`, with the step refinement of `EndpointTransfer` | - |
| `UdcConfig` | configuration, interface and endpoint requests of th2, the job that receives reports | `MCTh2Services`, `Th2ServicesProofs` |
| `IrqCritical` | both kinds of critical section of th2, nested, against an interrupt | `MCTh2Services`, `Th2ServicesProofs` |
| `Th2ServicesProofs` | proofs about `UdcConfig` and `IrqCritical` | - |
| `SampleRead` | `usb_val` of th2 from its stores to the library's getters | `MCTh2Services`, `HostProofs` |
| `Conversion` | the fixed-point arithmetic of both firmwares | `MCConversion`, `MCTh2Services`, `Th1Proofs` |
| `HostGui` | library getters, wrapper enumeration, GUI timer, and the answer of both firmwares to a report request | `MCHostGui`, `HostProofs` |
| `HostProofs` | proofs about `HostGui` and `SampleRead` | - |

The `MC` modules hold the sets and functions a configuration cannot spell out.
`MCUsbWire` and `MCTh2Services` put several models into one run: parts that share no
state, of which a behaviour exercises one, chosen by the variable `part` at its start
(the state spaces add up, they do not multiply), with the properties of all.  `MCTh2Services`
extends its five modules, which is why four of them carry their part in the names of their
specifications (`EpSpec`, `ConfSpec`, `ReadSpec`, and `WalkInit` and `WalkNext` of `Conversion`).
Definitions that begin with a comment `Mutant:` are plausible bugs, each next to
the definition it would replace; no specification uses them.

### Th2Acquisition and I2cBus

`state`, `bytes_read`, `hih_val`, `usb_val`, `cur_tick`, `hih_request_at`,
`tdac_val`, `hdac_val` and `poll_cnt` are the variables of `main.c`.  The
peripheral's registers are `mb`, `sb` (interrupt flags), `target` (ADDR), `acked`
(RXNACK) and `data`; `op` and `nbytes` say what happens on the wires.  The sensor
is `conv`, `sample`, `unread` and `snap`, a DAC is `shift` and `dac`.

* `TC1_Handler` is one action.  It advances the tick, sets the calibration level,
  and starts a fetch or a request or neither; when both are due the request's ADDR
  write comes last, and wins.  Neither case looks at what the bus is doing.
* `SERCOM0_Handler` is one action per iteration of its loops: `RequestSent`,
  `DacByte`, `Dac0Written`, `Dac1Written` on MB, `NextByte`, `LastByte` on SB, and
  `Unexpected` for the branches that only light the red LED.
* Both interrupts have the default priority, so that no handler interrupts the
  other; the hardware (`Transfer`, `NewSample`, `SwitchMoves`) moves between any
  two actions.  `Stall` allows a tick in the middle of a transaction.

Words are abstract: a word is the sample and the quantity it was computed from,
one of the two calibration levels, or `Torn`, which is what bytes that do not
belong together make.  The arithmetic is in `Conversion`.

### Th1Main

`pc` is the place in the main loop; `poll` is set where the code calls `usbPoll`
before it goes on.  There is one action for each stretch of code between two
polls: `RequestStart`, `RequestAddr`, `RequestStop`, `ReadStart`, `ReadAddr`,
`ReadByte`, `Status`, `Humid`, and `Loop`, `Count`, `Output`, `OutputSecond`, `Delay`
around them.  The two compare values (`ocr`) are written one after the other, by `Output` and
`OutputSecond`; the timer takes both over when a period of its own
begins (`Period`), also between the two stores: `pwm` is what the outputs show.  The
action `usbPoll` may copy `usb_val` into an answer: which stages of `usbPoll` do
that is `VUsb`'s subject.  `held` is the bus that a failed transaction has not
released; `TWSR` is what the last START or address came to.

### VUsb and ControlTransfer

`poll` is the step of `usbPoll` the main program has reached; there is a step for
every access to a variable that it shares with the interrupt routine.  The host's
actions (`HostSetup`, `HostOut`, `HostIn`, `HostInRefused`, `HostStatusOut`) are
transactions on the wire together with what the interrupt routine does with them
(`handleData`, `handleIn`, `handleStatusOut`).  A packet of the answer is the
place in the source it was copied from and the request it was built for, which is
what distinguishes a right packet from a stale one.

`ControlTransfer` has two variables, what the host waits for and how many bytes of
it it has.  `VUsb` implements it with `request <- hostReq`, `received <- hostGot`:
`hostGot` becomes `Garbled`, which no step of `ControlTransfer` allows, when a
byte reaches the host that is not the next one due to its request.

### UsbReceive, UsbSend and UsbCrc

The assembler of the first device, at 16 MHz: a bit lasts 10 2/3 cycles, which the
modules count in thirds.  A register is the set of its bits that are 1.

* `UsbReceive`: a step is one `in` from the port.  `pc` says which: the first
  bit, an even or odd one of the loop (`rxBitLoop`, `rxbit1`), the two unrolled ones
  (`rxByteLoop`, `didUnstuff6`), or the sample after a stuffed bit in each of
  these places (`unstuffEven`, `unstuffOdd`, `unstuff6`, `unstuff7`).  `clock.due` is
  the number of cycles to the next sample, added up from the instruction timing;
  `clock.off` is how far the sample was off its bit's centre.  The host's half
  (`DataBit`, `StuffedBit`, `EndOfPacket`) is the standard's.
* `UsbSend`: a step is one `out`; `sent` is the line as the standard would have it.  A
  packet is the synchronisation byte and any bytes of `Messages` behind it, chosen as the
  code loads them, up to one of `Lengths`.
* `UsbCrc`: a step is one byte; `check` is the standard's shift register, fed the same byte bit
  by bit.

### UddControl

`hw` is the unit's registers for endpoint 0, `udd` the static variables of
`usb_device_udd.c`, `host` the host's stage of its request.  There is one action for each
event the interrupt handler serves (`_usb_ep0_on_setup`, `_usb_ep0_on_tansfer_ok`,
`_usb_on_bus_reset`; `TakeFail` and `_usb_ep0_on_tansfer_fail` are the two halves of
a failed one, between which the unit may complete a transfer), chosen in the
handler's order by `Serve`.  `mine` marks what was made for the request the host
is waiting for.  A request is what `udc_process_setup` makes of it: its direction,
lengths, whether it is accepted, and the address it sets.  The host may give any request up at
any time for another, SET_ADDRESS too; `host.parted` is a history of the addresses at which that, or a
lost handshake at the end of a change, may have left the device until the next bus reset.

### UddEp and EndpointTransfer

`job` is the `udd_ep_job_t`, `hw` the bank.  The unit moves the packets of a transfer by
itself (`PacketIn`, `PacketOut`); `udd_ep_trans_in_next` and `udd_ep_trans_out_next` are
the handler at the end of each.  `StallSeen` is the handler that clears the flag of a STALL the
unit sent, which `udd_ep_clear_halt` asks for later.  `Clears` says which halts the host
clears: one it met (`"stalled"`), one whose STALL was not sent or whose flag the handler has cleared
(`"halted"`), or none at all (`"running"`).  `udd_ep_abort` is two actions, because packets
move between its instructions.  Bytes are their places in the job's stream.
`UddEp` implements `EndpointTransfer` with the job as long as it is busy with a transfer.

### UdcConfig

Endpoint 0 is served before a report that came earlier, as in the interrupt handler.  A request is
one action, except that a configuration and a setting are put in force in three steps: the
old one is disabled, the endpoints are allocated (`udc_iface_enable`), the interface is
enabled (`udi_hid_generic_enable`).  The callback that starts the receiving job again is a step of its own
too; `isr` says what is left to do.  A bus reset may come before each of these steps, and
takes the endpoints away while the handler goes on.  The host clears a halt whenever it likes, set or
not: a job that is going on is then ended by the wrong callback, which finds any status
(`"nohalt"`).  `host` is what the host knows from the answers it got.

### IrqCritical

Sections of both kinds are opened inside each other (`open`, `depth`) by whoever runs, the main program or an interrupt; entering
is two steps, the look at the mask and the change (`Looks`).  An interrupt may come at any step
with interrupts enabled, and uses sections itself.

### SampleRead

`StoreTemp` and `StoreHumid` are the two stores of `SERCOM0_Handler`, `HandOut` is
`parse_usb_request`; `CopyWord` is
the unit's DMA; a getter asks, falls back, asks again and returns.

### Conversion

The state walks over all 16384 readings, and the operators follow the two
programs' integer types: `SDiv` truncates as `int32_t` does, `UDiv` divides the
same bits as `uint32_t`.  `TempLogical` and `HumidLogical` are the ranges that the v1's HID
report descriptor announces for its two reports.

### HostGui

`pc` is the step of a timer tick.  `CountPass` and `FillPass` are the wrapper's two
passes, each of which passes over the devices whose descriptor, open or serial number fails
(`Found`); `missed` is a history of whether the first did so, or a device came after it.  `DeviceTick` and `Show` the two getters, `NoDeviceTick` the retry counter.
`Answer1` and `parse_usb_request` are what the two firmwares answer, and
`Transfer` is the result libusb makes of it.

## 3. Runs

| Run | Instance | Shows |
|---|---|---|
| `th2` | delays 4, 8 and 2; a transaction fits in a tick; a switch that moves | `TypeOK`, `NeverTorn`, `DacShowsValue`; `SamplesFlow`: after any history samples are published forever once slaves acknowledge; `CalibrationSeen`: a held switch shows both ends on both DACs |
| `th2_stall` | delays 2 and 1; a tick may fall anywhere | `AgreeWithBus`, `SampleWhole`, `NoSampleTwice` although fetches are given up half-way |
| `conversion_dac` | all readings | violated: `DacIn12Bit`, see findings |
| `th1` | delay 1, half period 1, conversion within 2, three samples | `OutputsTogether`, `AnswerOfOneSample`, `NoSampleTwice` although the sensor is sometimes asked too early, and `SamplesFlow` although failures left the bus held |
| `vusb` | five requests, two tags | `AddressesAgree`, `PacketStays`, `Delivers`: the endpoint implements `ControlTransfer`, and `Completes` |
| `usb_wire` | any packet of 1 to 12 bytes received, the edge seen 1 cycle early or late; every message of two bytes sent, and messages of eleven with few, many and clustered 1s; CRCs of up to four bytes | `PacketRight`, `SampleCentred`, `LineStandard`, `RateHeld`, `HostAccepts` |
| `udd` | requests of every kind, handshakes of IN and OUT lost | `AddressesAgree`, `PayloadRight`, `NoFalseStall`, `Delivers`: implements `ControlTransfer`, and `Completes` |
| `udd_give_up` | few requests, no handshake lost; the host gives requests up, SET_ADDRESS too | violated: `AddressAfterHandshake`, see findings |
| `th2_services` | sections four deep; an endpoint of 2 bytes with transfers up to 5 and buffers of 0 to 7; two endpoints, three configuration numbers, two settings; six samples while the host reads; all 16384 readings of the sensor | `Exclusive`, `EnabledOutside`; `BufferRight`, `OneCallback`: implements `EndpointTransfer`; `QuietUnconfigured`, `ConfiguredWorks`; `ReadingCurrent`; `DevicesAgree`, `OutputsAgree`, `WarmerIsHigher` |
| `udd_ep_clear` | the same endpoint, halts cleared when there is none | violated: `HaltCallbackOnly`, see findings |
| `udd_ep_toggle` | the same endpoint, halts cleared before their STALL was sent, or after the handler cleared its flag | violated: `TogglesAgree`, see findings |
| `host` | a device of each kind, `chk_interval` 4 | `LabelsRight`, `UnsetOnlyByChange`, `FoundAgain` |

Of the `TypeOK`s only that of `Th2Acquisition` is in a run, where it says that `hih_val` is
not indexed beyond its end.  Those of all modules that model code are proved.  `SampleRead` and
`UsbCrc` state none: the invariants their proofs rest on type them.

### Bounds

* **Samples** (`NSAMPLES`) are identifiers that are used again.  Two are enough to
  mix two samples, and `published` forgets an identifier when it is reused.  The
  v1 run has three because `AnswerOfOneSample` speaks of the sample before.
* **Ticks** wrap at `TICKS` instead of 2^32, so that a comparison with
  `hih_request_at` survives the wrap in every phase.  With a small `TICKS` a fetch
  time that was never renewed comes round again, which the real counter does once
  in 2^32 ticks: the run has that case too.  16 ticks are two calibration periods.
* **th2** keeps the order and the ratio of the code's poll and calibration delays, 10 and
  20 ticks, as 4 and 8, with the code's own fetch delay, 2.
* **th2_stall** scales the poll and fetch delays down to 2 and 1 and `TICKS` to
  3, so that fetches meet polls in every order within few steps.  The safety
  theorems hold for every delay.
* **CONV_TICKS = 1**: a conversion may last to the tick after its request, never to the
  fetch of `th2`, but to that of `th2_stall`, whose delay is 1.
* **v1 delays** are 100 iterations and 256 for a half period in the code.  What
  matters is the order of delay, conversion and half period.  A conversion of up to 2
  iterations ends before the fetch or a little after it: both orders of
  conversion and fetch occur.  One that always outlasts two delays would be started
  over by the next request for ever.
* **Requests of VUsb** have an answer cut by `wLength` at a full packet, one that ends
  in a full packet and needs an empty one, a short one, data of the host, no
  data, or an address.  Tags are for telling a packet
  from one of the request before and the one before that: nothing survives two
  new SETUPs, as there is one transmit buffer and one message pointer.
  `Words` has one element because `usb_val` does not change while only the driver runs.
* **Packets of UsbReceive**: any bytes, so that a stuffed bit comes in every place.
  Twelve bytes are one more than the buffer holds.  A receiver's state has no memory
  beyond a byte except `leap`, which the drift of `SampleCentred` depends on.
* **UsbSend**: lengths of 3 and 12 of the code's 2 to 12.  Six 1s span two bytes at most, so
  that two bytes behind the synchronisation byte have every case.  The rate is decided by
  the number of stuffed bits and where they fall: at length 12, `usb_wire` has bytes with none,
  with one in each part of the loop and with as many as possible.
* **UsbCrc**: a step is linear in the byte and the registers; every single bit, no
  bit and all bits stand for the rest.
* None of these bounds is in the theorems about the USB line: they hold for any bytes, any
  length the code admits, and receivers for packets of any length.
* **UddControl**: lengths below, at and above multiples of the packet and of `wLength`
  (`MCUddControl` says which is which).  `usb_val` is abstracted to its places.
* **UdcConfig**: numbers and settings the device has, and one of each that it has not; all
  others are refused alike.
* **UddEp**: 8191, the limit of a transfer, is not a multiple of 64, as 5 is not of 2.
* **IrqCritical**: the depth is the only bound, and the theorems are free of it.
* **SampleRead**: a getter needs two requests, so that six samples span a tick of the form.
* **Devices**: the list has its first element used only, so that two devices
  cover a loss with a second device present.

### Fairness

* th2: the timer and the I2C interrupts stay enabled, the main loop is `while(1);`
  (`main.c:368-376`), so each handler that can run does.  The unit and the sensor
  finish what they began.
* v1: the main loop is `while(1)` (`main.c:289`).  `TWINT_WAIT` (`main.c:42`) waits
  without bound, so that the loop goes on only if the I2C unit ends its
  operations: `FairSpec` assumes it, and that the timer of the outputs runs.
* V-USB: the loop calls `usbPoll` again and again; the host takes the next
  transaction of its request, ends its resets, and does not miss the handshake of
  a SETUP forever (strong fairness, because the SETUP is refused again and again
  while `usbPoll` has not seen a packet).
* th2 USB: the USB interrupt is served (`WF` on the handler), as no other handler
  runs for ever and the main loop masks nothing; the host goes on with its
  request (`WF` on its transactions).
* Host: the timer ticks.  Nothing is assumed of devices, they come and go
  without fairness.

Liveness properties name what they need besides: `Healthy` (slaves acknowledge,
or transfers to a present device succeed, from some point on) and `Patient` (the
host stops giving up requests, and no more handshakes are lost).

### Assumptions about hardware and libraries

* I2C: an ADDR write clears both flags and acts as a repeated start even during a
  transaction; a NACK of a read address sets MB.
* Sensor: an answer is settled when its address is acknowledged.
* Outputs of v1: in fast PWM mode the timer takes both compare values over when a period
  begins.  A period is 1024 cycles, and `_delay_ms(1)` at the end of an iteration is longer: `Delay` ends
  after a period has begun.
* V-USB: a data packet of the device arrives, which the driver assumes as well
  (`asmcommon.inc:158-160`).  A token and its data packet are one action.
  `usbMsgFlags` is part of `usbMsgPtr.src`.  An answer of no bytes has no source.  `Junk` is
  a buffer that holds nothing to be processed.  A reset (10 ms) spans two calls of
  `usbPoll`; a host gives up SET_ADDRESS only by a reset.
* USB line: the crystal is exact; the host stuffs bits as the standard asks and its first
  byte is a PID.  Cycles are those of the AVR instruction set.  The edge of the
  synchronisation pattern is seen 3 to 5 cycles after it came where the code allows for
  4 (`PhaseAssumption`, in thirds of a cycle).  A message has 2 to 12 bytes, the synchronisation
  byte included (`SendAssumption`, the comment of `usbSend`).
* USB unit of th2: a SETUP is always accepted, and clears both stalls and the packet
  waiting to be sent; both toggles are 1 after it.  An OUT that finds no room is NAKed and
  recorded as failed, whatever its toggle.  A bus reset clears endpoint
  configurations, halts and flags.  Aligned words are copied whole.  No handshake of a
  SETUP is lost, and the host sends no SETUP before the device served what came before
  (`Late` is FALSE in every run): `usb_device_udd.c:989-993` would count the end of an earlier
  packet for the later request.  The same holds in `UdcConfig` between a bus reset and its handler.
* Host of th2: it may give SET_ADDRESS up, or miss the handshake at its end; then host and device are
  apart until the next bus reset, whatever the firmware does in the second case, and
  `Completes` asks for that reset.
* Interrupts of th2 have one priority (nothing in the repository sets another).
* Requests (`RequestAssumption`): SET_ADDRESS has no data (`udc.c` refuses it otherwise; the
  standard has none); a request the th2 accepts for reading has something to send, as
  each handler of `udc.c` and `udi_hid.c` that accepts one sets a payload.  V-USB's
  descriptors and `wLength` stay below 255, the value of `USB_NO_MSG`; a request that brings
  data asks for none (`DirectionAssumption`): the application has no write of its own.
* Conversion (`ReadingsAssumption`, `PadsAssumption`): a reading has 14 bits, and two open ones
  are behind the temperature's.
* Jobs (`SizeAssumption`): the limit of a transfer is not below the size of the endpoint (8191 and
  64 in `usb_device_udd.c`), and one of the buffers is the largest.
* Devices (`DevicesAssumption`): there are finitely many, as `libusb_get_device_list` counts them.
* `UdcConfig`: a host that is refused a setting or a configuration gives up the
  interface.  The application never calls
  `udi_hid_generic_send_report_in`.
* libusb reports an answer longer than asked for as an error.  That it finds and opens what is
  plugged in is not assumed, but for `FoundAgain`, from some point on (`Healthy`).  Reading through an element nobody filled may crash or fail.  The
  user goes on after an exception.

### What the runs taught

* Without `usbTxLen = USBPID_NAK` at a SETUP (`usbdrv.c:449`) the host would still
  never take a stale packet as data: the toggle reset one line earlier is enough, as
  the host drops the packet.  Nothing in the suite fails without the line.
* In v1 the status bits of the sensor only matter when a conversion outlasts the
  delay: `NoSampleTwice` is at stake in `th1` only because its conversion may.
* The th2 answers eight bytes for `wIndex` 0 whatever `wLength` is, so against
  a th2 the library's first request always fails and its fallback gives the value.
* When `libusb_init` fails once during a tick, `chk_count` has already passed zero and
  the GUI never searches again: `FoundAgain` is stated with that exception.
* A held bus is no harm in v1: a START on a bus the master holds is a repeated
  START, and both status codes are accepted.

* The transmitter has no leap cycles: a byte takes 84 cycles instead of 85 1/3, which is more
  than the 1.5 % its comment allows; the last bit's twelve cycles and the
  stuffed bits' eleven bring whole packets back within it.
* When the handshake of the last data packet of a write gets lost, the th2 has no room for
  the packet sent again: it is NAKed, recorded as failed, and `udd_ctrl_overflow` stalls OUT
  as if too much had been sent, although the write was in order.  `NoFalseStall` is stated
  with that exception.  When it is the status stage's, the host gets NAK until it gives up.
* `usb_device_udd.c:226` says that UDD_EPCTRL_STALL_REQ has both directions stalled;
  `udd_ctrl_stall_data` stalls IN, `udd_ctrl_out_received` OUT.  A refused write is therefore
  answered with NAK, not with STALL, until the status stage: the exception of `Completes`.
* With `"setup"` in `Lossy`, a SETUP sent again because its handshake was lost makes the device
  change its address too early, as in the finding `AddressAfterHandshake`.
* The clearing of a halt that was not set ends the receiving job through the wrong callback, and
  in `UdcConfig` nothing comes of it: the status it is called with is whatever the call left, and
  either way endpoint OUT has a bank, with a job or without one.
* A device without a configuration refuses SET_IDLE with 0 and accepts it with a duration of 1:
  `udc_process_setup` hands the request on to `parse_usb_request`, which takes 1 for a type of
  report.
* `udc_req_iface` asks only for a configuration (`udi.h:94` says that `setup` is called while
  the interface is active): an interface that was disabled for a setting that does not
  exist still gets SET_IDLE (`udi_hid_setup` of `UdcConfig`).
* The th2 answers from live memory and copies again for every packet sent again.
  An answer of eight bytes may join two samples; the library uses one word of it,
  which is why values are still current and in order.

### Findings

`DacIn12Bit` (run `conversion_dac`).  The comment at th2 `main.c:261` says that
the values are scaled into a 12 bit DAC space.  `main.c:262` does not clamp:
above 50 degrees the word exceeds 12 bits, below 0 it wraps, and the upper bits
land in the DAC's command bits.  The v1 firmware clamps (`main.c:187-190`).

`AddressAfterHandshake` (run `udd_give_up`).  `udc.c:591` says that the address
is changed after the handshake.  `_usb_ep0_on_setup` (`usb_device_udd.c:887`) runs
the callback of the request before when a SETUP comes in the middle of it: a host
that gives up SET_ADDRESS and sends another SETUP makes the device change its address.

`HaltCallbackOnly` (run `udd_ep_clear`).  `usb_device_udd.c:578` says that the job registered for the
clearing of a halt is called; the code asks for any busy job, and ends a transfer
through the wrong member of the union.

`TogglesAgree` (run `udd_ep_toggle`).  `udd.h:268-269` says that the data toggle starts at DATA0 after a halt
is cleared.  `usb.c:1642-1646` (and `1654-1658`) resets it only if the flag of a STALL is set:
when the host clears the halt before a STALL was sent, or the interrupt handler has cleared the
flag (`usb.c:1798-1813`), the endpoint goes on with the toggle it had, and a packet may get lost.

## 4. Proofs

The theorems hold for every value of the constants that the modules' assumptions admit, where
a run has one instance.  All safety invariants, action properties and step refinements of the
passing runs are proved; what stays with TLC is liveness.  The first step of each
proof is an inductive invariant: what a run checks is seldom inductive, because it speaks of the
moment at which something could be seen to be wrong, and not of what must hold before.
A step has one lemma or case for each action, and operators with several effects have a lemma
that says what they do field by field.

### Th2Proofs

Any delays, any tick width, any number of samples, ticks inside transactions or not.

| Theorem | Property |
|---|---|
| `TypeCorrect` | `TypeOK`, with it that `hih_val` is never indexed beyond its end |
| `HandlersAgreeWithBus` | `AgreeWithBus` |
| `PublishedSamplesAreWhole` | `SampleWhole` |
| `DacWordsAreWhole` | `NeverTorn` |
| `RedLightMeansNack` | `UnexpectedOnlyNack` |
| `SamplesPublishedOnce` | `NoSampleTwice` |
| `DacsShowTheValues` | `DacShowsValue` |

Assumptions: those the modules declare (positive poll and calibration delays, at
least two samples, `Stall` a Boolean, the switch has a position).  Nothing is
assumed about timing.

* `AgreeWithBus` is not inductive: it speaks of the moment a flag is raised, and
  needs to know what the wires do before.  `Phases` says, for each kind of
  transfer under way, which states may have begun it and how `nbytes` relates to
  `state` and `bytes_read`, and that at most one flag is up, with the bus idle.
  `IInv == TypeOK /\ AgreeWithBus /\ Phases` is inductive (`InitIInv`, `StepIInv`).
* `SampleWhole` needs that the bytes already stored belong to the answer being
  read (`InPlace`); with `IInv` that gives, at the fourth byte, four bytes of one
  answer in their places (`LastByteWhole`), although earlier fetches given up
  half-way leave their bytes in `hih_val`.
* `NeverTorn` needs, in the calm cases (ticks between transactions, or a switch left
  alone), that the byte in flight and the one before carry the value the
  firmware holds (`BytesInStep`), which holds because nothing changes the value
  while a DAC is addressed.  Both disjuncts of `Calm` are used: one excludes ticks,
  the other excludes calibration.
* The default branch: a MB flag while receiving can only be a refused address
  (`NInv`); with `AgreeWithBus`, no other flag meets a state without a use for it.
* `NoSampleTwice` needs `OnlyCopy`: an answer marked fresh is the only copy of its sample, and
  no conversion runs while it is read, so that neither the sensor nor a repeated
  fetch can bring it once more.  A fetch given up half-way loses the sample instead.
* `DacShowsValue` needs `Shown` on top of the invariant of `NeverTorn`: no step of a
  DAC's transaction changes the value it is for.

### Th1Proofs

Any delays, any length of a conversion, polls of USB wherever the code has them; for the
last three, which are about `Conversion`, any number of readings up to 14 bits' and any open bits.

| Theorem | Property |
|---|---|
| `TypeCorrect` | `TypeOK`: `read_result` takes four bytes and no more |
| `OutputsShowOneSample` | `OutputsTogether`: the outputs show different things for no longer than the second store and the delay |
| `AnswersAreOfOneSample` | `AnswerOfOneSample` |
| `SamplesPublishedOnce` | `NoSampleTwice` |
| `DevicesAlwaysAgree` | `DevicesAgree` |
| `OutputsAlwaysAgree` | `OutputsAgree` |
| `WarmerNeverLower` | `WarmerIsHigher` |

The outputs lag behind their registers, and the registers are apart between the two stores: `Shown`
says which value the second store is due to write (that of the branch the first was
in), and that outside the stores and the delay the outputs show what the registers hold.

The words of `usb_val` are only apart between the two stores of `read_result`, and then the
humidity is of the sample before (`Paired`); a poll between them is what the third theorem is
about.  `FreshUnpublished` is to `NoSampleTwice` what `OnlyCopy` is on th2, except that here a
conversion that outlasts the delay may end while the answer is read: the sample it brings is
the only one, because none is asked for on the way.

The theorems of `Conversion` follow each reading through the operators.  `RawRead`: both
devices find it again in the sensor's bytes, whatever the open bits.  `Published`: no product
is negative before 4000 is subtracted, so that division with and without sign is the same.
`ClampedOrder`, `TempFits` and `TempOrder`: clamp and scaling keep the order, and the mask to ten bits
takes nothing from a clamped value, which is what keeps the output from wrapping.
`TempAlike` and `HumidAlike` compare the two roundings.

### VUsbProofs

Any requests and descriptors, any number of tags, although tags come round.

| Theorem | Property |
|---|---|
| `TypeCorrect` | `TypeOK`: `usbMsgPtr` stays in the object it points into |
| `AddressesAlwaysAgree` | `AddressesAgree` |
| `PacketAlwaysStays` | `PacketStays` |
| `DriverDelivers` | `Delivers`: initial states map to initial states and each step to a step of `ControlTransfer` or a stutter |

`AnswerInv` is the heart of it: once the device has acknowledged a SETUP, its packet waits for
`usbPoll`, or the packet that is ready, or the next one to be made, starts at the byte the host
has not got, of the host's own request and under the host's toggle.  It is kept by
an abort in the middle of `usbPoll` because of `PollInv`: each step says what it has done to
the packet it works on, and that this packet is in the half of the buffer the interrupt
routine does not write.  `ReplyInv` ties the answer to that packet.  `AddressInv` needs
`ResetInv`, as a bus reset lasts until `usbPoll` has seen it twice, and the second time nothing
is left of what it was doing when the reset began, a new address included.

### HostProofs

Any set of devices of both kinds, that come and go at any step; any number of samples.

| Theorem | Property |
|---|---|
| `TypeCorrect` | `HostGui`'s `TypeOK` |
| `LabelsAreRight` | `LabelsRight` |
| `UnsetNeedsChange` | `UnsetOnlyByChange` |
| `ReadingsAreCurrent` | `SampleRead`'s `ReadingCurrent` |

`GetTells` says of the two getters, with either firmware's answer and libusb's
treatment of its length, that each returns its own quantity or fails: that is where the
different places of the report's number (`wValue`, `wIndex`) come together.  `Counted` relates the
wrapper's two passes: if the first counted nothing, passed nothing over and nothing came since, there is
nothing for the second to find.  For the readings, `StoreInv` says that the two words are apart only
between the stores, `PacketInv` that what was copied for a call is no older than the call, and
`OrderInv` carries the bound over from the first getter to the second.

### Th2ServicesProofs

Critical sections, of both kinds and any depth of nesting:

| Theorem | Property |
|---|---|
| `SectionTypes` | `TypeOK`: the shared counter never goes below zero |
| `SectionsExclusive` | `Exclusive` |
| `InterruptsGivenBack` | `EnabledOutside` |
| `FlagTells` | `GlobalTells` |

The counter is shared, so that the argument is about what it counts: the number of
open critical sections of everyone (`Counted`, with the cardinality of a set of
levels).  `Masked` and `Alone` say that an open section has interrupts off and nobody
else runs; `Outermost` and `Remembered` that the one section which found them on is the
outermost, and that the state it saved is the one to give back; `Looked` covers an
interrupt that comes between the look and the change: it leaves both as they were.

Configurations, with any sets of numbers and settings the host may ask for:

| Theorem | Property |
|---|---|
| `ConfTypes` | `ConfTypeOK` |
| `UnconfiguredIsQuiet` | `QuietUnconfigured` |
| `ConfigurationWorks` | `ConfiguredWorks` |

`QuietUnconfigured` is inductive once no handler is on its way in a device without
configuration (`Quiet`); a bus reset inside one is where it could fail, as the handler goes on
afterwards.  `ConfiguredWorks` speaks of what the host knows, so that `KnowsInv` says the same of
what it will know once it hears the answer that waits, and excepts the steps between
the acceptance of a request and `udi_hid_generic_enable` (`Enables`).  `JobInv` says of the receiving job
that its bank is with the unit or its callback pending, and that a handler which is about to
start it again (`Restarts`) finds none.  The converse does not hold: a halt cleared that was not set ends the
job and leaves its bank with the unit, so that `KnowsInv` promises room for a report (`Room`), not a
job.  `RunJob` says what `udd_ep_run` makes of either, `AllocEffect` what is left of a bank when a
reset came between disabling and allocation.

### UddProofs

Any requests, any handshakes of data lost.  The theorems have the form
`Timely => (Spec => ...)`, where `Timely == ~Late /\ "setup" \notin Lossy`: a SETUP waits until the
device served what came before, and its handshake arrives (section 3 tells what happens otherwise).  The
host may give any request up at any moment, SET_ADDRESS too.

| Theorem | Property |
|---|---|
| `TypeCorrect` | `TypeOK` |
| `AddressesAlwaysAgree` | `AddressesAgree`: the device is where the host looks for it, on its way there, or at an address the host parted with |
| `PayloadAlwaysRight` | `PayloadRight` |
| `NeverFalselyStalled` | `NoFalseStall` |
| `EndpointDelivers` | `Delivers`: each step is one of `ControlTransfer` or a stutter |

The invariant follows the request through the unit, the driver and the host.
`PendingInv`: until the handler sees a SETUP, the banks are empty and nothing of the request
before is left to be served.  `ReadInv` has two cases: the unit holds a packet (`SentInv`), which
is the next one due or, if the handshake of the last got lost, the one the host has already; or
it was taken and the handler has not looked (`TakenInv`).  `FitsInv`, for a write that fits,
compares three counts of one number (`UnitTook`): the bytes of the host, of
the unit and of the driver differ by the packet whose handshake was lost and by the
one the handler has not looked at.  `NoFalseStall` needs that, for the driver stalls when its count is
full.  `AddressInv` says who may still call the callback of SET_ADDRESS: its status stage, or the SETUP that
follows a change the host gave up, which takes the device to an address in `host.parted` with nothing
of the host left to serve (`Deaf`), where it stays until the bus is reset.

### UddEpProofs

Any size of endpoint, any limit of a transfer not below it, any buffers up to a largest one.
The theorems have the form `HaltsMet => (EpSpec => ...)`: the host clears a halt it has met, and
no other.  The runs `udd_ep_clear` and `udd_ep_toggle` show what happens otherwise: a halt cleared early, or after the
handler cleared the flag of its STALL, leaves the toggles apart and loses a packet, so that
`OneCallback` would not hold.  That the toggles agree is part of the invariant (`Toggles`).

| Theorem | Property |
|---|---|
| `CallbackOnce` | `OneCallback`: each step is one of `EndpointTransfer` or a stutter |
| `BufferAlwaysRight` | `BufferRight` |
| `JobTypes` | `EpTypeOK`: no job beyond its buffer, no transfer beyond the limit |

`Work`, `InWork` and `OutWork` relate the bytes moved in a transfer, the transfers of a job and
its size by multiples of the packet; the arithmetic of rests is in lemmas of its own
(`Rest`, `WholePart`, `WholeGap`, `SmallRest`), because limits and sizes are parameters and the
solver has no induction.  A short packet ends an OUT transfer early and an IN job at its end, in
a transfer of its own if it must be an empty one.  `Quiet` says that the bank works for a
running job only, which is what makes a callback unique although an abort races the unit.
`Bytes` follows the places: a job is received in place until less than a packet of room is left,
and that through the cache.  `Bounded` adds the limits to the types.

### UsbProofs

Any bytes, so that bits are stuffed anywhere.

| Theorem | Property |
|---|---|
| `SendTypes` | `SendTypeOK` |
| `LineIsStandard` | `LineStandard` |
| `RateIsHeld` | `RateHeld` |
| `HostAlwaysAccepts` | `HostAccepts` |
| `ReceiveTypes` | `UsbReceive`'s `TypeOK`: `leap`, which no instruction bounds, stays in -2 to 7 |
| `PacketAlwaysRight` | `PacketRight` |
| `SamplesAreCentred` | `SampleCentred` |

*Transmitter* (`SendInv`).  The code has no count of 1s but the last bits sent, in `x2`: `History`
says that they end with as many 1s as the standard has counted (`EndsWith`), and means nothing
until the first bit is out, as `x2` then still holds the direction of the port.  `Where` says how
many bits have left `shift` in each part of the loop, counted by the 1s of 0x35 (`Turn`), also
where a bit was taken early and is moved back.  `Timed` counts cycles: 84 for a byte and
11 for a stuffed bit, of which there are no more than bits of bytes; with the 2 to 12 bytes of
the code that is within the rate's tolerance whatever is stuffed.

*CRC* (`CrcInv`).  The two registers are the standard's, read from its other end (`Reads`).  A
byte fed to the standard's register bit by bit, and the code's parity trick, are both the step of
the table the code's comments give (`Table`); so a packet of any length needs no
induction beyond that of the steps.  `Residual` feeds the code's two bytes behind it.

*Receiver* (`RecvInv`).  `Turned` says which sample follows which bit, `Counted` that adding 85 to
`bitcnt` overflows with the third pair of a byte and never earlier, although `bitcnt` falls behind by one
with each byte.  `Decoded` says that the host's bits are the top ones of `shift`, those marked in `x3`
inverted, with the marks at places that depend on how often they were moved (`MarkOf`).
`Heard` says that `shift` ends with the 1s the host counts, so that both stuff at the same bit; in
the PID, whose first bit is stored inverted, that does not hold, and `First` says why no
bit is stuffed there: its upper half is the complement of the lower.  `Timing` says how
far the next sample is off: what `leap` counts and a constant of the place (`Lead`).  `leap` is raised by
a stuffed bit and lowered once in eight bits; its bound comes from what a stuffed bit costs,
six 1s (`6 * leap + ones` grows no faster than the packet, of at most eleven bytes).

### Proved only, and model-checked only

**Proved only.**  `UnexpectedOnlyNack`, `GlobalTells` and the
type invariants besides that of `Th2Acquisition` are in no passing run.

**Model-checked only.**  `SamplesFlow` (of both firmwares), `CalibrationSeen`, `Completes` (of both
endpoints) and `FoundAgain`: liveness under fairness is out of the prover's reach.  The theorems about the
second device's USB are conditional where the sections above say so (`Timely`, `HaltsMet`).  The
runs `udd_ep_clear` and `udd_ep_toggle` show what happens without `HaltsMet`; no run shows what happens
without `Timely`.

## 5. Not modelled

* V-USB: the search for the synchronisation pattern, and the interrupt endpoint, which the
  application never feeds.  The receiver checks no CRC (`asmcommon.inc:53`).
* th2: requests that read a descriptor or a status (answers of a length in
  `UddControl`); SET_PROTOCOL, which stores a byte nobody reads; sending reports,
  which the application never does; host mode and link power management, not compiled.
* Sleep: `udd_sleep_mode` counts locks on suspend and wakeup.  `sleepmgr_init` is never
  called and the firmware never sleeps, so that no behaviour depends on them.
* The null job that `udd_ep_set_halt(0)` writes through (`usb_device_udd.c:560`): what a
  store at address zero does is not in the repository.
* The console program, which keeps no state; the libusb context and handles (never closed, nothing
  depends on them), log files.
* Start-up code, clocks, pins, watchdog, registers, boards: straight-line
  initialisation or no behaviour.  Vendor headers (CMSIS, component definitions) are
  most of the repository's lines and hold only declarations, which is why little
  of the repository can be mapped.

## 6. What is left

The safety properties of every run are proved.  What the models leave open:

* Liveness, which stays with TLC on the instances of section 3.
* A theorem about `UddControl` without `Timely`: what still holds when the
  handshake of a SETUP is lost, or a SETUP comes early.
* `udd_ep_set_halt(0)` (above), and the unbounded wait of `TWINT_WAIT`
  (`main.c:42` of v1): both are listed as hazards without a property.
* V-USB's interrupt endpoint, should the application come to use it.
