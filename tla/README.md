# LinkIt Assist 2502 / RePhone: TLA+ models of the Arduino core and its libraries

The repository is an Arduino core for the MediaTek MT2502 (RePhone, LinkIt ONE), libraries
for the phone's functions, and Python tools that upload programs and firmware. A sketch runs
on a thread of its own; almost everything it can do belongs to the phone's *main thread*,
where the vendor's drivers run and deliver their events. What is hard in this code is the
border between the two, and that is what is modelled. Paths below are relative to
`src/Arduino/RePhone_core_2G_MT2502_v1.0.0/` unless they start with `src/`; `core` is
`cores/arduino` and `lib` is `libraries`.

## 1. Inventory

### 1.1 How the parts interact

    sketch thread                      main thread                       drivers, chip
    -------------                      -----------                       -------------
    LBTClient.begin()
      remoteCall(btClientBegin,&c) --> __handle_sysevt
        lock, fill m_msg, send           btClientBegin(&c)  -----------> vm_bt_cm_switch_on()
        wait for the signal                returns false                     ...
                                         bt_client_btcm_cb <------------ ACTIVATE
                                           *waiting_result_p = true
        <-------- signal ----------------  post_signal()
      unlock, return c.result

A library is two files: a class on the sketch thread, derived from `_LTaskClass`, and functions
with callbacks on the main thread. A function that returns true is finished and
`__handle_sysevt` posts the signal; one that returns false has left the answer to a callback.
Nothing enforces this: the function and its callbacks must agree on who posts, in every path.
The main thread keeps pointers into the stack frame of the waiting caller.

The serial receive path is the exception: `UartIrqHandler` on the main thread and `read()` on
the sketch thread share a ring buffer without a lock.

### 1.2 Components

| Component | Source | State | Operations | Correct when |
|---|---|---|---|---|
| Remote call | core/LTask.cpp, main.cpp | mutex, signal, one message per object; the main thread's queue | begin, stop, remoteCall, post_signal, `__handle_sysevt` | each call gets one answer, after its function ran, and no pointer outlives its frame |
| Receive buffer | core/RingBuffer.cpp | 64 bytes, head, tail | store_char, read | a bounded first-in first-out queue |
| UART | core/UARTClass.cpp | handle, the buffer, pin 0's handle | begin, end, read, write, `UartIrqHandler` | bytes reach the port they came from, in order |
| Bluetooth client | lib/LBT (client) | status, handles, pointers of the waiting caller, timer | begin, end, connect, scan, write, power and port events | nothing half open; calls return once |
| Bluetooth server | lib/LBT (server) | as above, visibility, accept timer, address filter | begin, end, accept, write, read | as above; accept ends by connection or timeout |
| Voice calls | lib/LGSM | call status, number | voiceCall, answerCall, hangCall, queries, listener | the status is that of the call |
| SMS | lib/LGSM/LSMS.cpp | one unread message, flag, send result pointer | begin/endSMS, available, read, flush, new-message interrupt | no message skipped or deleted unread |
| GATT server, client | lib/LGATT | services, event queue, connection | begin, end, handleEvents, requests | every event handled once, in order; no deadlock |
| Audio | lib/LAudio | play handle, pointer to the result | play, pause, resume, stop, callback | handle closed once |
| HTTPS | lib/Network_https | channel, request, segment number | connect, stop, callbacks | a stopped request stays stopped |
| Pins, interrupts, analog | variants/linkit_one, core/wiring*.c, WInterrupts.c | pin table: type and handle; attach table | changePinType, attachInterrupt, analogRead | one driver per pin, no closed handle used |
| I2C master | core/Wire.cpp | two buffers, an address | beginTransmission, write, endTransmission, requestFrom | what was written is sent once |
| C runtime | core/syscalls_mtk.c | heap pointer | `_sbrk` | the heap stays in its region |
| Upload tools | src/uploader.py, src/FirmwareUploader | serial port | commands, file transfer, boot ROM protocol | the transfer ends, complete or with an error |
| Others | files, time, battery, SIM, display, touch, LED, NFC, GPS, samples, monitor | little or none | driver calls in one thread | - |

`PROJECT.json` lists each component with its files and status, and under `hazards` what is hard
to test, at its line.

### 1.3 The hard behaviours

* **Who posts.** One post too many ends the *next* call early; one too few stops the sketch for
  good, for the wait has no timeout and holds the object's mutex.
* **Dead frames.** Callbacks store through pointers into frames of calls that may be over.
* **Power.** The Bluetooth chip takes time to switch; `begin()` and `end()` can find it in any of
  four states, and the events that follow come later than the status they are about.
* **Partial failure.** `begin()` acquires several things in order, and gives them back in a
  callback when giving back needs the chip to be off.
* **Races with the other side.** A call may come in, be answered or end while the sketch acts.
* **No locks** between `UartIrqHandler` and `read()`, and between the SMS callback and
  `available()`.

## 2. Plan

Done, in this order: the protocol (`RemoteCall`, `LTask`), the receive buffer (`ByteQueue`,
`RingBuffer`), the Bluetooth client and server on one pair of shared modules (`SketchCall`,
`BTAdapter`, `LBTClient`, `LBTServer`), calls and messages (`LVoiceCall`, `LSMS`), GATT
(`LGATTQueue`, `LGATTServer`, `LGATTClient`), the pins (`Pins`), the firmware uploader
(`FirmwareUploader`), the application uploader (`AppUploader`).

Left, in order of what it would add: `LAudio` and `Lhttps` on `SketchCall` (their hazards are in
`PROJECT.json`); the receive side of the two Bluetooth serial ports; client and server composed on
one chip, where each is the other's "somebody else" (`OtherUser` stands for it now); notifications
of the GATT client; `Wire`'s buffers.

Every safety property of the runs that pass is a theorem (section 6). Worth proving next: the type
invariants of the library modules for every value of their constants, and that `SketchCall` with
disciplined functions implements `RemoteCall`.

## 3. Modules

| Module | Models | Notes |
|---|---|---|
| `RemoteCall` | what a remote call promises | abstract: an object is free, called or done |
| `LTask` | core/LTask.cpp, core/main.cpp | several threads and objects, one action per step of `remoteCall` |
| `MCLTask` | - | two threads, one shared and one private object |
| `LTaskProofs` | - | theorems about `LTask` |
| `ByteQueue` | what the receive buffer promises | abstract: a bounded sequence |
| `RingBuffer` | core/RingBuffer.cpp, `read`, `available`, `flush` | one shared access per step |
| `RingBufferProofs` | - | theorems about `RingBuffer` |
| `SketchCall` | the remote call of one library | no behaviours of its own: the actions library modules are made of |
| `BTAdapter` | the chip (external) | power status and events in order of delivery |
| `LBTClient` | lib/LBT client | the class, the functions and both callbacks |
| `LBTClientProofs` | - | theorems about `LBTClient` |
| `LVoiceCall` | lib/LGSM voice calls | the class, the functions, listener and callbacks, and the modem |
| `LSMSState` | the message's variables | what `LSMS` and its proofs share: variables and safety properties |
| `LSMS` | lib/LGSM short messages | the class, the functions and callbacks, and the inbox |
| `LGSMProofs` | - | theorems about `LVoiceCall` and `LSMS` |
| `LBTServer` | lib/LBT server | the class, the functions, both callbacks and the timer |
| `LBTServerProofs` | - | theorems about `LBTServer` |
| `LGATTQueue` | the event queue of `LGATTServerClass` | `enQ`, `deQ`, `frQ`, `handleEvents`; implements `ByteQueue` |
| `LGATTServer` | lib/LGATT server and services | on `SketchCall`, `BTAdapter` and `LGATTQueue` |
| `MCLGATTServer` | - | two profiles, three kinds of events |
| `LGATTClientState` | the client's table, list and requests | what `LGATTClient` and its proofs share |
| `LGATTClient` | lib/LGATT client | several clients over one stack and one table |
| `LGATTProofs` | - | theorems about `LGATTQueue`, `LGATTServer` and `LGATTClient` |
| `Pins` | variant.cpp, wiring_*.c, WInterrupts.c, UARTClass begin and end, Wire begin | the pin table and everything that writes it |
| `PinsProofs` | - | theorems about `Pins` |
| `FirmwareUploader` | src/FirmwareUploader/firmwareUploader.py | the script against the phone |
| `MCFirmwareUploader` | - | images of none, one or two blocks |
| `AppUploaderState` | src/uploader.py: the order of its commands | what `AppUploader` and its proofs share |
| `AppUploader` | src/uploader.py | the script against the phone's file system |
| `UploaderProofs` | - | theorems about `FirmwareUploader` and `AppUploader` |

The three `...State` modules hold variables and the safety properties over them; the component's
module extends its state module and has the steps. A proof module about two components extends one
of them and takes the other as an instance (`SMS`, `Client`, `App`); it extends the second's state
module, so that both see the properties under one name.

### 3.1 LTask

`m_mutex`, `m_signal` and `m_msg` are the members of `_LTaskClass`; `m_handle == 0`, which every
method tests, is `m_signal[k] = NoSignal`, for `begin` and `stop` set both. `queue` holds object
names, not copies of messages, because the code sends `&m_msg`. A thread walks through `lock`,
`fill`, `send`, `wait`, `unlock`. `DispatchTrue` and `DispatchFalse` are the two things a remote
function can do; `Callback` is the event that answers later. `userdata` is the thread whose frame
it points into, so a pointer dangles when that thread is no longer in the call. In this module
functions are disciplined. The library modules are not: they do what the code does.

`ImplementsContract` says that under the mapping `callBar` (an object is free when its mutex is,
done when the owner's result is stored) LTask implements `RemoteCall`.

### 3.2 RingBuffer

`store_char` is three steps (test, write, advance the head), `read()` is two (load, advance the
tail), since these are its accesses to what the other side can change. The fields are not
volatile and the core is built with -O2 (platform.txt:10); the model takes program order, which
the platform's single in-order core and calls between the accesses give in practice but the
language does not promise. Bytes are a set; order and loss are what the properties tell apart.

### 3.3 SketchCall and BTAdapter

In `SketchCall` the sketch thread is one (main.cpp starts one) and `remoteCall` up to the wait is
one step: nothing of the steps in between can be seen by the main thread before the message is
sent. The main thread is the rest: `Run` (dispatch), `Returns`, `PostResult`, `Event` (a callback,
which posts or not). Pointers into a frame are "caller" during the call and "gone" after it. A
library that posts twice lets the sketch run ahead of the main thread; `MaxSent` bounds that.

`BTAdapter` gives the connection manager's power status, which a switch changes at once, and a
queue of the events that follow. `Faults` names the driver calls that may fail, `OtherUser` lets
another library of the sketch switch the chip.

### 3.4 LBTClient

`client_status`, `btcm_hdl`, `btspp_hdl`, `btspp_buf`, `conn_id`, `waiting_result_p`,
`scan_number_p` and `search_tid` are the fields of `btClientContext`; handles are open or not.
`BeginRefused`, `BeginWaits`, `BeginReady` and `BeginFails` are the ways through `btClientBegin`;
`EndSpp(done)` is `bt_client_end_spp`, which returns true when it has closed everything and false
when an event will; `Activate...` and `Deactivate...` are the branches of `bt_client_btcm_cb` by
status. `wild` records a store through NULL or into a frame that is gone.

A scan's timer is periodic and deleted only by its own expiry, so the timer of a search that ended
first is still there in the next search; `timers` tells the latest from the earlier ones.

### 3.5 LVoiceCall

`g_call_status` is the variable of that name. The modem has at most one call (`net`), works on
requests in order and delivers indications and responses in the order in which things happened.
`told` says that the function has stored its result. Two histories say what a property excepts:
`crossed`, that the sketch has dialled into a call or answered none, or that somebody has called
while the phone was dialling; `refused`, that the modem has not taken what the last call asked.

### 3.6 LSMS

`available()` is four steps (test of the flag, id, buffers, flag), which are its accesses to what
the main thread writes; `read()`, `peek()` and the like only look at what it has copied. A message
is its id, and its text is the id it came with. These variables are in `LSMSState`. `Arrive` is the new-message interrupt with the
request to read, `ReadCallback` the reading's answer. `box` is the service's inbox, with the
history of which texts the sketch has been given; `doomed` is the id that `flush()` passes instead
of a pointer. `outcome` is `data.result` of the last call together with what became of the sending.
`Bursts = FALSE` lets a message arrive only after the one before it has been taken.

### 3.7 LBTServer

The fields of `btServerContext` as in `LBTClient`; `accept_tid` is whether the timer runs, `mac_only`
whether clients of other addresses are turned away, `visible` the chip's visibility, which
`begin()` must switch on after the power. `accepted` says that the stack was told to let a client in
and still owes a CONNECT. `Authorize(known)`, `Connect(ok)` and `Timeout` are what may end
`accept()`; the code stops the timer when it lets a client in, so only a CONNECT follows. It does not
look at what `vm_bt_spp_accept` returns (BTServer.cpp:361): when that fails no CONNECT follows either,
and no later client is let in, for `waiting_for_accept` is reset. `failed` is the history of what the
`accept()` under way could not do, set its timer or let the client in, and `Unlimited` an `accept()` left
with nothing to end it, the one case `CallsReturn` excepts.

With the phone visible already, `bt_server_init_spp` posts and `btServerBegin` returns true as well
(BTServer.cpp:450-456, 612-619): the call is answered twice. `spoiled` is the history that this has
happened, or that an event has answered a call that did not wait for it; with `GoesOn = FALSE` the
sketch makes no further call then, and the properties speak of the behaviours up to there.

### 3.8 LGATTQueue and LGATTServer

`_cq`, `_fr`, `_ba` and `_size` are the fields of the class. `handleEvents()` takes the front node,
calls the service, deletes the node and takes it out, each under the mutex for itself or under
none, so it is four steps (`HandleEvents`, `FrQ`, `Dispatched`, `DeQ`) between which `enQ()` may
come. A node's `live` says whether it was deleted. The queue implements `ByteQueue` (the contract
the serial buffer implements too) with one place fewer than `MAX_QUEUE_NODES`.

In `LGATTServer` an object is the server (`Server`) or a service (a number, in the order in which
`begin()` begins them); `m_msg.func` is a pair of operation and object. `profile[s]` is the service's
declaration as a sequence of types, `trigged[s]` the items whose `trigged` field is set, and
`NextType` what `addDeclaration` finds next. `pending[s]` is the request the stack owes an answer
to; each callback makes the next one. `Mutex(o)` says whether the sketch holds the mutex of object
`o`; the main thread waits for the server's in `Busy`, and serves nothing else meanwhile.

`stray` is a post by `btcm_cb` that no call of the server waits for. `begin()` answers at once when the
chip is on, but its ACTIVATE may still be under way, and `btcm_cb`, which posts at every ACTIVATE, then
answers the call a second time (GATTServer.cpp:825-829). `overtaken` is the history that `begin()` ran
with an ACTIVATE under way, and `AnsweredOnce` allows a stray post in that case only.

`begun` counts the services begun in the current `begin()`. `again` is the history that the sketch
has called `begin()` a second time or `end()` after services were begun: then the main thread may
wait for the mutex the sketch holds, for ever (section 5), and the properties except that.

### 3.9 LGATTClient

A request is a pair of what is asked and the client that asks; `asked` is the set the stack has
accepted. `LGATTClientState` has the table, the list and the requests. `gatt_client` is the table up to its first NULL, as every search in the code stops there.
`Answered` is the common form of the attribute callbacks, each of which is an operator of its own.
`BD_ADDR_LIST` and `searched` are the scan's list and `_searched_ble_dev_nums`, which differ.
`cleared` names the clients that another one's `end()` has taken out of the table, `early` says
that a call was ended by a signal of an earlier one; both are what the properties except.

### 3.10 Pins

`table` is `g_APinDescription` (handle and type), `dev` what is open in the drivers, `mux` what a pin
is switched to. `Acquire(p, t, h)` is `changePinType` followed by opening what is not open. A bus
keeps its handle in the record of pin 0 or 18, which are not pins of the bus, and `Switched` are the
pins it switches. `at` is where the sketch is: functions whose effect the main thread can see half
done (`analogRead`, `detachInterrupt`, `begin`, `end`) are two steps. `eint_callback` is
`Triggered` (finding the record) and `Called`. A closed handle's number may be given out again; each
pin has two numbers, so an old and a new one can be told apart.

An ADC object is known by the handle it was created with and measures that handle's channel. It is in
`measuring` from SEND_START, which `analogRead` sends through the handle of its pin, to SEND_STOP, sent
through the handle the table then has; `Measures(h)` is a started object's measurement, one after
another until it is stopped, `result` the answer on its way to `adcCallback`. That stores it (`Measured`),
whichever object it came from, and posts (`Posted`) the signal there is by then. `late` is the history
that the call began with such a result or post of an earlier one still due. Nothing else may wake
`analogRead` with another pin's value, which rests on the table: an object stopped through a handle
that is not its own would go on.

`end()` closes `uart_handle` whatever has become of it (UARTClass.cpp:193). While the number is the one of
Serial1's open port that is its device. After an earlier `end()` the number may be anybody's: `Stale` says so, and `Ended` then closes either nothing or any
device that is open, since in the drivers numbers are not kept apart by pin as they are here.
`closedOther` is the history that a device was closed in this way. The table still names it then, and
`TableExact` excepts it.

`PinsAssumption` says which uses are modelled together: the sketch does not use D0 and D18 as pins of
their own (their records belong to Serial1 and Wire), and a pin with an interrupt is used for
nothing else, for `detachInterrupt` clears the record of its pin without looking at what it is.

### 3.11 FirmwareUploader

`stage` is the function `main()` is in, `Order` their order (`FinishResponse` is the end of
`DA_DownloadBootLoader`, lines 1209-1215); within `DA_LoadImage` and `retrySend`, whose loops change the
state, `pc` is the place and `rx` what the agent has sent and the script has not read. The other loops only poll:
`waitForReadyAndGetTest` (629-633), `WaitForBBPUReady` (1297-1302), `DA_WaitForSync` (280-283),
the format times of `DA_SetMemBlock` (831-845), `DA_doFATParition` (1258-1286). None has a bound, and neither has
`ser.write()` (125: flow control and no timeout for writing). `held` says that the phone keeps the script in
such a place: it answers "not yet", or does not take the bytes. `HoldsUp` sets and resets it at any
moment, and a function goes on (`Exchanges`) only while it is not set. An unplugged phone is not `held` up by
polls, for a `read()` that times out raises; the exception is line 832, whose read is not looked at, so
that `TimedOut` is not enabled there. The agent (`da`) takes a block, answers CONT or an error with a code, and for
a block sent again FLUSH, ACK and CONT. `flash[i]` is `Old`, or the numbers of the blocks written since
the erasing. `Damage` may hit any block, the rest of an image included, whose path in the code ends
in a TypeError (line 716) and so in "failed", like an empty file (679). `open`'s `while 1` for a port
(119-130) is before the model starts. Unplugging is possible at any step; `Restart` is the
user running the script again.

### 3.12 AppUploader

`Commands` (in `AppUploaderState`) are the commands in the order `main()` and its helpers send them; `at`
is the script's place in them, past the end (`Ended`) or `Failed` (an exception). The script reads the answer to a command before it
sends the next (`SendCommand`, `ReadLine`), except for `EXIT_ALL` and `REBOOT`. `tx` are the commands the
phone has not executed and `rx` the answers not read, so an answer to `EXIT_ALL` that comes after
`flushCom` shifts all later ones by one. `main` is main.vxp on the phone: what was written, whether a
packet said it was the last, and the size the file has; `autostart` is autostart.txt on each drive.
The phone is external: it executes in order, may refuse the commands in `Faults`, and may hang.
`BreakOff` is the cable or the user. Whatever is in `main` and `autostart` survives, and `Restart` is
the next run, perhaps with another file. A packet is never damaged: the script has no checksum.

## 4. Runs

| Run | Module, cfg | Checks | Shows |
|---|---|---|---|
| `ltask` | MCLTask | `OneAnswer` `NoDanglingUserdata` `CallsReturn` `ImplementsContract` | the protocol is right if functions keep the discipline |
| `ring_buffer` | RingBuffer, MCRingBuffer | `ImplementsQueue` | the buffer is a queue |
| `bt_client` | LBTClient, MCLBTClient | `AnsweredOnce` `NoWildWrite` `AllOrNothing` `AbortsOwnScan` `CallsReturn` | the client keeps the discipline in every path, and leaves nothing half open, until the chip has gone off and on under its feet; calls return even then |
| `bt_server` | LBTServer, MCLBTServer | `NoWildWrite` `Answered` `AllOrNothing` `CallsReturn` | until a call is answered twice, the server keeps the discipline, a client that was let in finds `accept()` waiting, and `accept()` returns unless it lost what would end it |
| `voice_call` | LVoiceCall, MCLVoiceCall | `StatusFollows` `CallsReturn` | the status follows the call, and calls return while requests are taken |
| `voice_call_status` | LVoiceCall, MCLVoiceCallStatus | `StatusTold`: violated | a second post ends the next call (section 5) |
| `sms` | LSMS, MCLSMS | `CurrentMatches` `NoneForgotten` `CallsReturn` | messages that come one at a time are handed out whole, and calls return while requests are taken |
| `gatt_server` | MCLGATTServer | `AnsweredOnce` `DeclaredInOrder` `FirstBeginFree` `NoneFreed` `ImplementsQueue` `CallsReturn` | each call is answered once until `begin()` overtakes an ACTIVATE, services are declared whole and in order, the first `begin()` locks nobody out, the event queue is one |
| `gatt_client` | LGATTClient, MCLGATTClient | `RegisteredFound` `ConnectTells` `ListedOnce` `CallsReturn` | until one client's `end()` clears the table, callbacks find their client, calls are answered, and each device is listed once |
| `pins` | Pins, MCPins | `TableExact` `MuxMatches` `ReadsItsPin` `RoutedOnceBegun` | the table is right about every open device and none is lost until Serial1 closes another's, and `analogRead` wakes to its own pin's value unless an older one was due |
| `firmware` | MCFirmwareUploader | `InOrder` `WholeWhenDone` `OneAtATime` `Ends` | the flash holds what was sent, once and in order, and the script ends unless the phone keeps it polling or writing for ever |
| `app_upload` | AppUploader, MCAppUploader | `AutostartSafe` `UploadedWhenDone` `ScriptEnds` | wherever the upload breaks off, the phone is not told to start half a program |

Each module also has a type invariant, `TypeOK` (`QueueType` in `LGATTQueue`), which the cfgs above
leave out to keep each run to the question it asks; it holds with the same cfgs, and for `LTask`,
`RingBuffer` and `LGATTQueue` it is a theorem.

These cfgs state a sentence of the repository that the code violates; they are not among the runs
above and are checked by hand, `tlc -config <cfg> <module>` (section 5): `MCLBTClientStatus`,
`MCLBTClientWriteStalls`, `MCLBTServerAccept`, `MCLVoiceCallRinging`, `MCLSMSDeletes`, `MCLSMSSend`,
`MCLGATTClientScan`, `MCPinsInterrupts`.

### 4.1 Bounds

* `ltask`: two threads are the least that can contend; one object is shared and one private, as
  the repository has both; three signals let each object be stopped and begun again with a signal
  of another call still around.
* `ring_buffer`: four places make both wrap-around and a full buffer happen; three values tell a
  lost, a repeated and a swapped character. The theorems hold for any size.
* `bt_client`: initial power ON or OFF or switching; two timers are one of an earlier search and
  one of the current. Another library switches the chip `MaxSwitches = 2` times: once is an event the
  client did not ask for, twice is off and on again. `Mixed` is that case; of the properties only
  `CallsReturn` is stated of it. `sent` may reach `MaxSent = 2`, since a call is answered twice there.
  Sketch calls are not bounded, the state space is finite without that.
* `voice_call*`: at most `MaxEvents = 3` requests and events under way.
* `sms*`: two messages, the least that can be mixed up, and at most `MaxRequests = 2` requests under
  way. Message ids are used again after a deletion. `sms` has `Bursts = FALSE`, `MCLSMSDeletes` TRUE.
* `bt_server`: one sketch, any initial power and visibility; every driver call whose result the code
  looks at may fail, and `vm_bt_spp_accept`, but for one: the chip does switch once told to
  (no "activate", "deactivate" in `Faults`). Finite without a bound. The same faults in `bt_client`, where a search
  may also fail, and does when the connection manager is not initialised.
* `gatt_server`: two services, so that one is begun while the other's events come; a profile with
  every kind of declaration, and one of a bare service, which the chain of callbacks does not finish;
  a queue of three places, which fills, wraps and overflows (the theorems hold for any size).
* `gatt_client`: two clients are the least that share the table, only one of which asks for more than
  begin and end; two devices and a list of two; `MaxBegins = 2`, `MaxReports = 3` reports of devices. A full list is met by
  a device it has, not by a new one: that case is only in the theorem `DevicesListedOnce` and in
  `MCLGATTClientScan`, whose list has one place.
* `pins`: 8 is digital and switched by Serial1, 20 is analog and PWM, so that its ADC object is closed
  between two readings, 21 analog, so that two objects may answer, 22 an interrupt; opening may fail for the types in
  `MayFail`. `OwnClosed` (a constraint) ends a behaviour once Serial1's stale handle has closed another
  device: the property excepts what follows. The theorems have none of these bounds.
* `firmware`: images of none, one or two blocks, two with a rest; `MaxDamage = 3` damaged blocks, so one
  can be damaged twice and another once; `Timings = 3`; `MaxRuns = 2`, a broken run and the next.
* `app_upload`: packets of two bytes and files of 0 to 4, so a file is empty, a rest, one packet, a
  packet and a rest, or just two packets; `MaxRuns = 2`. The phone may refuse any command but the
  deletions (section 5).

`CHECK_DEADLOCK FALSE` is given where the program really can stop: a first `write()` without a
connection (`MCLBTClient*`, `MCLBTServer*`), a refused request (`MCLVoiceCall`, `MCLSMS`, `MCLGATT*`),
a mutex held for ever (`MCLGATTServer`), an `accept()` without timer or client (`MCLBTServer`), an
`analogRead` whose ADC could not be opened or was closed by `end()` (`MCPins`; its statuses are not looked at,
wiring_analog.c:142-164), the script's end (`MCFirmwareUploader`, `MCAppUploader`).

### 4.2 Fairness

Weak fairness of each waiting thread's next step (a thread whose signal is set is scheduled), of
the main thread's dispatch and callbacks (its message loop serves its queue), and of the chip, the
stack and the modem finishing what they accepted. Nothing is assumed of timers, of the peer, of
scan reports, or of the sketch making another call. In `ltask` a thread in contention for a shared
object's mutex has no promise to get it: the vendor's mutex gives none, so `CallsReturn` promises a
return for private objects and for callers that have the mutex.

In the GATT modules the main thread's steps have strong fairness: its queue serves messages and
events in the order of arrival, so the reports of devices and the requests of clients, which may
come without end, cannot keep an answer from its turn for ever. `accept()`'s timer fires
(`LBTServer`), the agent answers while it is connected (`FirmwareUploader`; `read()` has a timeout for
when it is not, but nothing makes a phone let go of a script it holds up: `Ends` is about behaviours in
which it does, `<>[]~held`), and the phone until it hangs (`AppUploader`, whose `ReadLine` would wait for ever then:
`ScriptEnds` excepts it).

## 5. Findings

The run `voice_call_status`: `callvoiceCall` returns true *and* its callback posts. The second post
ends the next call before its function has run: `getVoiceCallStatus()` returns an uninitialised
value (LVoiceCall.cpp:56), and the function later stores into a frame that is gone.

By hand, each with the cfg named:

* `MCLBTClientStatus`, `PoweringOnWaits`: after a `begin()` that had to switch the chip on,
  `client_status` stays `POWERING_ON`, whose comment (BTClient.cpp:93) says "waiting for power on to
  process". Alone this is harmless; if the chip is then switched off and on by another library the
  next ACTIVATE stores through a NULL pointer.
* `MCLBTClientWriteStalls`, `WriteReturns`: `write()` before the first READY_TO_WRITE waits without a
  limit, also when there is no connection; LBTClient.h:573 promises 0.
* `MCLBTServerAccept`, `AcceptTold`: LBTServer.h:167 says that `accept()` "returns as long as the
  connection is made or timeout"; after a `begin()` with the phone visible (3.7) it returns at once,
  with an uninitialised result. `AcceptsAnyone` fails in the same module: `mac_only` is set by an
  `accept()` with an address (BTServer.cpp:640) and never cleared, so a later one without an address
  turns everybody else away.
* `MCLVoiceCallRinging`, `HangsUpRinging`: a failed dial sets the status to idle while a call is
  ringing (VoiceCall.cpp:94), and `hangCall()`, which LGSM.h:176 says hangs up "incoming rings", does
  nothing.
* `MCLSMSDeletes`, `DeletesSeen`: `available()` and the main thread share one message without a lock.
  A second message that comes in between gives its id (LSMS.cpp:354) to the text of the first, and
  `flush()` deletes it unread; LGSM.h:103 says that it deletes a message "checked by available()".
* `MCLSMSSend`, `SendTells`: `endSMS()` returns 1 ("Sending succeeds", LGSM.h:63) before the message is
  sent (LSMS.cpp:241), and the outcome is stored through a pointer into a frame that is gone.
* `MCLGATTClientScan`, `ScanCounts`: `scan()` returns "the number of Bluetooth 4.0 devices that have been
  capture"; the count grows with every report, also of a device already in the list or when the list
  is full (GATTClient.cpp:315), and `getScanResult` takes indexes past what was found.
* `MCPinsInterrupts`, `NoneWhileDisabled`: WInterrupts.h:108 says that `noInterrupts()` "disables
  interrupt". It sets `no_interrupt` to 1, which `noStopInterrupts()` returns (wiring.c:77-90), and
  `eint_callback` calls the sketch's function when that is true (WInterrupts.c:54): exactly while
  interrupts are disabled, and, as `no_interrupt` is 1 at first, until the first `interrupts()`.

Seen while modelling, and in the modules without a run of their own:

* A request that the modem or the message service does not take leaves `voiceCall()`, `answerCall()`,
  `hangCall()`, `endSMS()` and `flush()` waiting for ever (VoiceCall.cpp:154, LSMS.cpp:246): the
  function returns false and no callback follows. `CallsReturn` of the two modules excepts exactly
  this, and nothing else, by the history `refused`.
* `answerCall()` returns an uninitialised variable: `callanswerCall` stores no result.
* Reading a message that came in posts a signal nobody waits for (LSMS.cpp:284), with the effect
  that `voice_call_status` shows for voice calls.
* With `Bursts = TRUE` a message that comes in while `available()` copies the one before it is never
  announced: the flag it clears (LSMS.cpp:127) is that of the new message.
* GATT server: a `begin()` that finds the chip on while its ACTIVATE is under way is answered twice
  (GATTServer.cpp:825-829; `overtaken`). `begin()` ignores what its services return, though LGATTServer.h:198 says that NULL from
  `onLoadService()` fails it (`BeginTells` of the module). `rEnd()` returns false with nobody to post, so
  a service's `end()` waits for ever. `send()` returns true whether the stack has taken the answer or
  not. In a second `begin()`, or in `end()`, a stack event makes the main thread wait for the mutex the
  sketch holds while it waits for the main thread. `end()` does `delete this` on an object that need
  not come from `new`.
* GATT client: one client's `end()` empties the table of all, and the connection callback then stores
  through NULL (GATTClient.cpp:371-395). `begin()` can take two slots for one client. The handle of
  the connection manager is not kept, so it is never closed. `gattEnableNotification` has a path
  without a return. A request the stack refuses is never answered.
* Pins: `attachInterrupt` calls `detachInterrupt(pin - A1)`, which subtracts the same offset again
  (WInterrupts.c:81, 195), so an attached interrupt is not detached first. `detachInterrupt` of a pin that is used otherwise
  clears its record and leaves its device open. The range checks of
  WInterrupts.c:78 and variant.cpp:84 let one index too many pass. `pinMode(0, ...)` closes Serial1's
  device. `uart_handle` keeps its number after `end()`, so a second `end()` closes whatever device has got the
  number since (UARTClass.cpp:189-198; `closedOther`). An ADC that cannot be opened leaves
  `analogRead` waiting, and a result that was on its way when the call before was stopped answers the
  next one with another pin's value (wiring_analog.c:104-113; `late`).
* Bluetooth server: `vm_bt_spp_accept`'s failure is ignored after the timer has been deleted
  (BTServer.cpp:361-363): `accept()` waits for ever, as it does when its timer cannot be made.
* Firmware: a damaged rest of an image is a TypeError (line 716), so the upload ends rather than the
  block being sent again. `--native` ignores the checksum (1604). The boot loader's checksum is never
  asked for, only the ROM's. Some exceptions are raised with a broken format string. The polls of 3.11 and
  `ser.write()` have no limit. Line 832 does not look at what it reads, so a phone unplugged while it formats
  is noticed only after as many timeouts as the phone had said. A second run may find both boot loader
  and ROM broken by the first ones (`OneAtATime` is about the first).
* Application upload: a command that deletes a file may fail for any reason and the script goes on
  (uploader.py:102-105; the comment says "if file does not exits"). With "delete C" in `Faults`
  `AutostartSafe` fails: the old autostart.txt is still there while main.vxp is half written. `ReadLine`
  never uses the port's timeout of five seconds: a phone that hangs leaves the script waiting.

## 6. Proofs

`LTaskProofs` proves, for any finite or infinite sets of threads, objects and signals, from
`NullsAssumption` and `UsersAssumption` only:

* `TypeCorrect`, `AnsweredOnce` (`OneAnswer`), `UserdataAlive` (`NoDanglingUserdata`),
  `ReturnsAfterResult` (`ReturnsServed`), and `Refinement`: LTask implements `RemoteCall!Safety`.

None of these is inductive. The inductive invariant adds who owns the mutex (a thread between lock
and unlock, and only it), what `m_msg` holds once it is filled (the owner's frame and the object's
current signal), that each object has a signal of its own, and which of queue, posting, deferred
and signal accounts for a waiting thread, and that a result is stored exactly from the dispatch or
callback until the thread is idle again. Each action has one step, split by the conjuncts it can
disturb. The refinement maps `Lock` to `Accept`, the step that stores a result to `Complete`,
`Unlock` to `Return`, and every other step to a stutter.

`RingBufferProofs` proves for every `SIZE` above 1 and every set of bytes (`SizeAssumption`,
`BytesAssumption`) `TypeCorrect`, `ReadsTheOldest`, `NothingOverwritten` (nothing is overwritten or
forgotten) and `QueueSpec`, the whole
refinement of `ByteQueue`. The inductive invariant says that while store_char is between its test
and its advance there is a free place, that its index is the one after the head, that the byte is
in its place after the write, and that a loaded character is the one at the tail. The lemmas about
`%` are proved for one wrap only, `m \in 0 .. 2 * SIZE - 1`, which is all the indices need.

`LGATTProofs` proves first of the event queue alone, for every number of nodes (`QueueAssumption`),
`QueueTypeCorrect`, `NodesAlive` (`NoneFreed`) and `QueueIsFifo`, the refinement of `ByteQueue`. Its inductive
invariant `QueueInv` ties the fields to each other (`_ba` is `_fr` and `_size` places on), says that every
node in the queue is allocated but the front one between its deletion and `deQ()`, and that the node
`handleEvents()` works on is still the front one, which holds as only `handleEvents()` takes nodes out.

It proves then of the whole server, for any profiles, services, events and faults
(`ServerAssumption`, `ProfileAssumption`, `EventAssumption`, `NoneAssumption`), five theorems:

* `NodesAliveInServer` (`NoneFreed`) and `EventsInOrder` (`ImplementsQueue`): each step of the server is
  a step of the queue or leaves it alone, so the queue's theorems carry over.
* `ProfilesDeclared` (`DeclaredInOrder`): the invariant `ChainInv` says that the items marked are the first ones of
  the profile and are what has been declared, and that a service that starts or listens has declared
  all of them.
* `FirstBeginSafe` (`FirstBeginFree`): by `LockInv` the sketch holds the server's mutex, in a first
  `begin()`, only while no service has begun, and as long as none has, no service has a request
  under way or listens, so no callback has an event to queue.
* `AnswersOnce` (`AnsweredOnce`), for a server of at least one service: by `OneAnswerInv` the stack
  owes an answer only to the `begin()` of the service that asked, while no message, signal or post of
  that call is left; by `FreshInv` the callback of power events is not set before the one `begin()` of
  the server has run, so no ACTIVATE sets its signal early. A server without services may be begun
  twice, and the second `begin()` can then find the signal of an ACTIVATE that came in between.
  `PowerInv` is for the server's own `begin()`: once the callback is set, an ACTIVATE is under way only while
  that `begin()` still waits for it, unless it ran while another was under way (`overtaken`). So `btcm_cb`
  makes no stray post otherwise.

And it proves of the client, for any clients, table size, devices and faults (`ClientsAssumption`: `None` is
no client):

* `RegisteredAreFound` (`RegisteredFound`) and `ConnectTellsTheTruth` (`ConnectTells`). The invariant
  `ClientInv` holds until a signal is posted for no call that waits (`early`), which the properties
  except. Its core is where the one call is: `Between` calls, `SentOff` to the main thread, `InWait` or
  `Told`, and which one answer the stack may still owe (`Asking`). So a callback answers the call it
  belongs to, and the result it stores is that call's. `ConnectInv` says that a stored TRUE of `connect()`
  is a connection, `RegisteredInv` that a registered client is in the table but for those another
  one's `end()` threw out: the search for a free place must not overwrite a taken one.
* `DevicesListedOnce` (`ListedOnce`) needs neither: the property is inductive with the list's type, since
  a report is appended only when a search of the whole list has not found it.

`UploaderProofs` proves of `FirmwareUploader`, for any sizes of the images, any damage, any faults and any number of
runs (`ImageAssumption`, `TimingAssumption`), `BlocksInOrder` (`InOrder`), `DoneIsWhole` (`WholeWhenDone`)
and `NeverNeither` (`OneAtATime`). The inductive invariant is the exchange of a block: `Sending` lists
where the script and the agent can be before the block is in the flash, with what is under way
between them, `Stored` where they can be after, and in each the flash holds just the blocks before or
with it. `AgentInv` keeps the first half for an agent whose script has given up. `StageInv` says which
images are whole, erased or untouched in each function of `main()`, and `FirstInv` that in the first
run a block of the ROM reaches the agent only after the boot loader is whole.

It proves of `AppUploader`, for any sizes of the program and of a packet (`SizesAssumption`), any number of
runs, and a phone that answers late, hangs and refuses what it likes except, without a reason, the
deletion of an autostart.txt (`Faults \cap {"delete C", "delete D"} = {}`; the run assumes it too, and section
5 says what happens otherwise), `NamesAWholeProgram` (`AutostartSafe`) and `DoneIsUploaded`
(`UploadedWhenDone`). What makes this more than an order of commands is that the script may take an
answer for another command's: when it reads OK for one command, the phone may have executed only the
one before. The invariant `UploadInv` therefore speaks of the files *ahead*, as they will be when the
commands under way have been obeyed (`OpenAhead`, `MainAhead`, `NameAhead`), which a step of the phone
does not change unless it refuses, and then an ERROR the script will not pass over is to come (`Error`,
or `ErrorNext` after the command that closes the file). `LineInv` bounds what can be under way: the
script's command and the one before it, with at most one answer more than the script reads. So when the
answer to a `close` is read, no write is left (`AheadIsClosed`), and the program is whole before
autostart.txt is opened. `DeletedInv` says that autostart.txt is gone, or its deletion still under way
and before everything that follows; `SafeInv` that no command under way can make it name less than a
whole program.

`LGSMProofs` proves `StatusIsTheCall` (`StatusFollows`) for queues of any length, any refused
requests and failed dials; it assumes that the modem fails no answer and no hanging up of a call
that is there (`Faults \cap {"accept", "end"} = {}`, which the run assumes as well). The status alone is not
inductive, for a failed action also sets it. The invariant says that the last event under way tells
what the call is (`LastTells`), that at most one request to dial or answer is under way (`OneStarts`), so that
a failure is about the only one, and that meanwhile there is no other call (`NothingCrosses`).

Of `LSMS` it proves `DeletesTheTaken` (`CurrentMatches`) and `EveryMessageTold` (`NoneForgotten`), for any
messages, requests and faults, under `~Bursts`: a message comes in only after the one before it was
taken. The run assumes the same, and section 5 tells what happens without it (`MCLSMSDeletes`). By
`ReadInv` at most one message is being read, the one that came in last; by `TakenInv` the globals that
`available()` copies one by one stay as they are until it has cleared the flag; and by `UnseenInv` a
message the sketch has not been given is being read, is announced, or is being taken, so that
clearing the flag forgets none.

`LBTClientProofs` proves `AnswersOnce` (`AnsweredOnce`), `WritesToTheCaller` (`NoWildWrite`) and
`BegunOrClosed` (`AllOrNothing`) for any timers and any driver calls that fail, while somebody else
switches the chip on or off at most once (`Mixed`, in the properties themselves). The hypotheses are
those of the run: `end()` is only called after a `begin()` that succeeded (`~EndUnbegun`), and the chip
does switch when it was told to (`NoSwitchFails`). `Good` is the inductive invariant. The call is
resting, sent, waiting or being answered, one at a time; and the client is `Closed`, `Begun`, `Beginning` or
`Ending`, each of which lists the power states and the queues of undelivered power events it can be
in. The queue is the heart of it: `Beginning` and `Ending` say that the event the call waits for is
still to come, and what older event of an earlier call may be before it, which the callback must not
take for it. `AbortsItsOwnScan` (`AbortsOwnScan`) has an invariant of its own, that
`search_tid` never names a timer an earlier scan has left running, and no hypothesis.

`LBTServerProofs` proves `WritesToTheCaller` (`NoWildWrite`), `ResultsTold` (`Answered`) and
`BegunOrClosed` (`AllOrNothing`) for any driver calls that fail, the timer of `accept()` among them, and
whatever the sketch does; the only hypothesis is that the chip does switch when it was told to
(`NoSwitchFails`), which the run assumes as well. The properties speak of the time until a call is answered twice
(`spoiled`), and so does the invariant, `~spoiled => Good`. `Good` is built like the client's, with
two differences. `begin()` waits for two events in turn, the chip's power (`Beginning`) and its
visibility (`Showing`), and in the second an ACTIVATE of an earlier call may still come, which the
callback ignores because `btServerBegin` has not set `server_status` in that branch. And `accept()`
has one of three events on its way (`Accepting`): while it waits for a client its timer may run and
nobody is let in; once AUTHORIZE has let one in the timer is stopped, so that only the CONNECT can
answer.

`PinsProofs` proves from `PinsAssumption`, for any pins and any devices that may fail to open,
`TableIsExact` (`TableExact`), `MuxIsTheTables` (`MuxMatches`), `RoutesOnceBegun` (`RoutedOnceBegun`) and
`ReadsTheRightPin` (`ReadsItsPin`). By the invariant `Inv` each pin is in one of three ways: `Exact`, where
its open device is the one in the table (or was closed by `end()` through a stale number, `Lost`); being detached, where nothing of it is open but the record
may be stale; or, for Serial1, opened by a `begin()` that has yet to write the record. `CopyInv` says
that the copies of a handle which Serial1 and the interrupts keep are the table's as long as the
table has one, without which `end()` could close the device of the next user of the number even after a `begin()`.
`ReadInv` says that only the object of `analogRead`'s pin is started (`Started`), and that what was measured, stored
or posted since an orderly start is that pin's (`OwnValue`).

Only model-checked: liveness (`CallsReturn`, `Ends`, `ScriptEnds`, and the fairness part of
`RemoteCall!Spec`), for the prover used has no rule for fairness or `ENABLED`; the type invariants of the
library modules as such, of which the inductive invariants hold the parts they need; and the violated
properties of section 5, which are counterexamples. Every safety property of the runs that pass
is a theorem.

## 7. Not modelled

Audio and HTTPS, whose hazards are listed; the older copies of `uploader.py` beside the SDK's tools and
`merge_mtk.py`; and the components of section 1.2 that are one driver call, output
or formatting in one thread. In the modelled ones: the text of messages, addresses, PIN codes,
names and values; the receive side of the Bluetooth ports and `getDeviceInfo`; notifications of the
GATT client; attribute handles; kernel objects leaked by repeated `begin()`; a chip whose switching
fails (the result field of ACTIVATE is not looked at by the code); a Bluetooth library's `end()` without a `begin()` that
succeeded; `Wire`'s buffers; the baud rate and the USB port.

The share of the source that is mapped is small because most of the source is not control: a bit more
than half are the headers of the vendor's library and the Arduino library, and most of the rest
are samples, register tables, copies of the same upload tools for other systems, and driver calls.
The vendor's system is modelled only as the code uses it: its interface headers are in the
repository, its source is not.
