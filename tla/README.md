# Verification of the OS X and iOS kernel programming samples

TLA+ models, TLC runs and TLAPS proofs for the sample code of *OS X and iOS
Kernel Programming*: small kernel extensions, one per chapter, and the
SimpleAudio example, in which a kernel driver and a plug-in of the audio server
work together. Every sample is short; what is hard in them is the same in all:
threads of several tasks meet in one object, the system calls back when it likes,
and hardware or its owner goes away in the middle of it all.

File names below are relative to `src/`.

- [1. The system](#1-the-system)
- [2. Modules](#2-modules)
- [3. What the runs check](#3-what-the-runs-check)
- [4. Where the code and its words differ](#4-where-the-code-and-its-words-differ)
- [5. What is proved](#5-what-is-proved)
- [6. What is assumed](#6-what-is-assumed)
- [7. What is not modelled, and the plan](#7-what-is-not-modelled-and-the-plan)
- [8. Running it](#8-running-it)

## 1. The system

### 1.1 Inventory

| Component | State it keeps | Operations | Hard behaviour | Correct when |
|---|---|---|---|---|
| Serial port driver, `Ch11/MySerialDriver` | state word, watch mask, command gate, work loop | `acquirePort`, `releasePort`, `setState`, `watchState`, `stop` | threads sleep in the gate and are all woken together; a driver that stops under them | one owner; no missed wake-up; a closed port is clear; waiters get the port |
| Power-managed driver, `Ch10/IOKitTest` | power state, count of outstanding I/O, lock | `myReadDataFromDevice`, `setPowerState`, `powerChangeDone` | the power state is written without the lock the readers test it under | no I/O on a device that is off; a change waits for I/O and completes |
| SimpleAudio plug-in: object map and devices, `SA_Object.cpp`, `SA_PlugIn.cpp`, `SA_Device.cpp` | map from IDs to counted objects, device list, device state | matching and interest handlers, `Activate`, `Deactivate`, map / unmap / copy / release | three kinds of threads, deferred deletion, failure half-way, unplugging | counts are exact; nobody uses a deleted object; an unplugged device goes away |
| SimpleAudio plug-in: I/O, `SA_Device.cpp` | start count, mapped status buffer, pending changes of rate | `StartIO`, `StopIO`, `GetZeroTimeStamp`, `SetPropertyData`, `PerformConfigChange` | a status buffer written by another task; a change that may be refused silently | the count agrees with the hardware; a change takes effect; stamps are close |
| SimpleAudio driver and user clients, `SimpleAudioDriver.cpp`, `SimpleAudioDriverUserClient.cpp` | running flag, rate, timer, status buffer, owner | `startHardware`, `stopHardware`, `setSampleRate`, `timerFired`, open, close, terminate | a timer against commands; three paths that close; termination | the stamp follows the clock; a stopped driver is quiet; nobody leaves it open |
| NullAudio plug-in, `NullAudio.c` | anchor and stamp count, start count, box, property values, notifications on a global queue | one function per kind of object for each of has, settable, size, get, set; start, stop, time stamp, change of rate | two locks around one clock; lists read without a lock; notifications after the lock; a restart between two steps | the clock is one line, monotonic and never ahead; replies fit; the host is told what changed; the tables agree |
| SimpleAudio plug-in: properties and controls, `SA_Device.cpp`, `SA_Object.cpp`, `SA_PlugIn.cpp` | level shadows, stream activity, rate, blocks on the serial queue | the same five functions, volume conversions, requests for a rate | notifications dispatched after the lock | as above |
| Volume curve, `CAVolumeCurve.cpp` | sorted map of ranges, transfer function | add, reset, convert between raw, decibels and scalars | seams of ranges, rounding, integer division | conversions are each other's inverses and monotonic |
| Audio engine, `Ch12/MyAudioDevice` | interrupt count, next timeout, sample position | start, stop, `interruptOccured`, `clipOutputSamples`, `convertInputSamples`, `performFormatChange` | catch-up arithmetic in mixed widths | position and stamps follow the clock |
| Application firewall, `Ch13/AppWall` | entry list with user counts, registration flags | socket attach / detach / connect / data, start, stop | sockets live on while the filter unregisters; sockets that open while it loads | no entry is freed in use; unloading only when unregistered, and then for certain; a blocked program stays out |
| IP and interface filters, `Ch13/MyIPFilter`, `MyInterfaceFilter` | registration flag | input, output, detached, start, stop | unloading waits for the detached callback | as above |
| Ethernet driver and simulated hardware, `Ch13/MyEthernetDriver` | status register, receive queue, timer, filter state | enable, disable, receive, transmit, interrupt | a register changed by three kinds of thread without a lock; a spin on the work loop | packets once and in order; disabling ends; no lost interrupt (it can be lost) |
| RAM disk, `Ch14/RAMDisk` | the memory, the partition table in it | `doAsyncReadWrite`, `performRead`, `performWrite`, termination | sums at the end of the disk; copies without a lock | each partition is an array of blocks of its own |
| Encryption filter, `Ch14/SampleEncryptionFilter` | completion contexts | `read`, `readCompleted`, `write` | asynchronous completion, failure of an allocation | data round-trips; every request completes once |
| Partition scheme, `Ch14/SamplePartitionScheme` | set of published media | `scan`, `start`, `stop`, `requestProbe` | a probe on a disk that is in use | published media match the table |
| Timer sample, `Ch16/MyDebugDriver` | a timer | `timerFired` | a timer against `stop` | - |
| Kernel control, `Ch17/HelloKernControl` | one string, registration flag | connect, disconnect, get, set, start, stop | unloading with clients | no control left behind |
| USB, PCI, first user client, tools, `Ch03`-`Ch05`, `Ch08`, `Ch09`, `Ch15` | next to none | life-cycle calls that log, command-line tools | object references in the notification tool | - |
| Utilities, `PublicUtility` | mutex owner, guard, queue | lock, wait, notify, dispatch | recursive locks, time-outs | exclusion |

`PROJECT.json` lists each component with its sources, its modules and its status,
and under "hazards" each place where this code can go wrong and a test would
hardly reach, with the properties that watch over it.

### 1.2 How the SimpleAudio parts interact

```
 audio server threads      plug-in (SA_PlugIn, SA_Device)            kernel driver
  property calls  ---->  CopyObjectByObjectID .. ReleaseObject
  StartIO/StopIO  ---->  start count, mStateMutex  -- call --->   gate: start / stop
  I/O thread      ---->  GetZeroTimeStamp  <=== mapped memory ===  timerFired
  PerformChange   ---->  PerformConfigChange       -- call --->   gate: setSampleRate
 IOKit                   matching handler (startup thread, queue)
  notifications   ---->  interest handler (queue)                 didTerminate, close
```

Calls to the driver are synchronous and run inside its command gate. Time stamps
come through shared memory with no lock between the two sides. IOKit's
notifications arrive on the plug-in's own serial queue, except the first scan,
which runs on the thread that loads the plug-in.

## 2. Modules

| Module | Models | Extends / is used by |
|---|---|---|
| `MySerialDriver` | `Ch11/.../MySerialDriver.cpp` | - |
| `PortLock` | abstract: what a serial port promises | refined by `MySerialDriver` |
| `IOKitTestPower` | `Ch10/.../IOKitTest.cpp` | - |
| `SA_ObjectMap` | the map in `SA_Object.cpp` | extended by `SA_PlugIn` |
| `SA_PlugIn` | device life cycle in `SA_PlugIn.cpp`, `SA_Device.cpp` | composes map, handlers, clients |
| `HandleTable` | abstract: what counted handles promise | refined by `SA_PlugIn` |
| `SimpleAudioDriver` | driver and its user clients | extended by `SA_DeviceIO` |
| `SA_DeviceIO` | an active device's I/O on top of the driver | composes device and driver |
| `AudioObject` | the shape of a property table: scopes, fixed answers, lists cut to the room | extended by `NullAudio_Objects`, `SA_Properties` |
| `NullAudio_Objects` | the property tables of NullAudio's eleven objects | extended by the next two |
| `NullAudio_Box` | the box, its storage and its notifications between threads of the server | - |
| `NullAudio_Controls` | levels, mutes, data sources, stream activity | - |
| `NullAudio_IO` | the clock and the change of rate | - |
| `SA_Properties` | the property tables of the SimpleAudio plug-in | extended by `SA_Controls` |
| `SA_Controls` | its controls, streams and requests for a rate, with the serial queue | uses `VolumeCurve` |
| `AudioProperties` | both plug-ins' properties beside each other, and what they promise together | extends `NullAudio_Box`, `NullAudio_Controls`, `SA_Controls` |
| `VolumeCurve` | the conversions of `CAVolumeCurve.cpp`, as functions of a curve; their loops are recursive functions | extended by `CAVolumeCurve`, `SA_Properties` |
| `CAVolumeCurve` | how a curve is built | - |
| `AppWall` | `Ch13/.../AppWall.c` | - |
| `MyEthernetDriver` | driver and simulated hardware | - |
| `RAMDisk` | RAM disk, partition scheme and encryption filter, one stack | refines `BlockStore` |
| `BlockStore` | abstract: what a client of a partition is promised | refined by `RAMDisk` |
| `MyAudioEngine` | the engine's timer, position and stamps | - |
| `MCStandalone` | the components that share no state, one of them in each behaviour | |
| `MC*` | instances for TLC | |
| `*_proofs` | theorems | |

Operators named "Faulty variant" in a comment are not part of a specification:
each is a plausible mistake in the operator after it, and is there to show that
the properties would notice it.

**`MySerialDriver`.** A thread's `pc` and `call` are its stack inside the command
gate. `AcquirePort` is the test of `fWorkLoop` before the gate (lines 115-122) and
`EnterAcquire` the call of `runAction`; `ReleasePort`, `SetState` and `WatchState` are
those of the other calls. A gated method runs up to its return, to a nested
`runAction` or to `commandSleep`, which is `Sleep`. `WriteState` is `setStateGated`
with its `commandWakeup`; `SetAcquired` and `ClearState` are the `setState` nested in
`acquirePortGated` and `releasePortGated` together with their return.

`Stop` and `DropWorkLoop` are the two halves of `stop()` (lines 99 and 101-104) and
can fall anywhere, also between a call's entry into the gate and its nested
`runAction`. On a disabled gate `runAction` gives the gate up and sleeps: a call from
outside is `"blocked"`, a nested `setState` `"nested"`. Such a sleep can be
interrupted (`Abort`, and the second disjuncts of `SetAcquired` and `ClearState`):
`runAction` returns `kIOReturnAborted`, which `acquirePortGated` and
`releasePortGated` ignore, so that they report success and have changed nothing. A
32-bit state word is the set of its bits.

**`IOKitTestPower`.** The reader's steps are the stretches of
`myReadDataFromDevice` between lock, sleep and unlock; the power thread's are the
stretches of `setPowerState` and `powerChangeDone`. `FallAsleep` is apart from
`TestPower` because `powerChangeDone` wakes waiters without the lock.
`StaleTickle` chooses when power management's own view of the device falls.

**`SA_ObjectMap`, `SA_PlugIn`.** An operation on the map is one step under the
map's mutex. The two workers walk through the handlers (`at`, `dev`, `left`), and
every place where the code lets go of a mutex is a step boundary. `AddDevice` and
`OpenDevice` may fail where the code throws, and the catch clause is `Undo` and
`UndoRelease`. `ReleaseObject` erases an object with its last reference and
queues its destruction; `Destroy` is the queued block.

**`SimpleAudioDriver`.** `gate` says which handler is between its two writes to
the status buffer: `StartHardware`/`StartTimer` are the halves of a start,
`TimerFired`/`PublishStamp` of `timerFired`. Everything else behind the gate is
one step, and can be called by anybody at any time (`HardwareCall`): the code does not
ask who calls. The three paths that end a session, `method_Close`, `clientClose` and
`didTerminate`, each go through test, stop and close separately, since nothing
makes them atomic; `Leave` is the `terminate` at the end of `clientClose`. A client can
be closed while other calls of its connection are under way, and `overlapped` remembers
which clients had a `method_Open` under way as `clientClose` ran.

**`SA_DeviceIO`.** Extends the driver with the device that is its only client.
`StartFirst`/`StartReturns` hold `mStateMutex` over the call to the driver;
`SetNominalSampleRate` and `DispatchRequest` are the two sides of the unlocked gap
in `Device_SetPropertyData`; `PerformConfigChange` drops the driver's answer as
the code does. The four reads of `GetZeroTimeStamp`'s loop are four steps.
`first` and `second` are the loop's local readings; `window` is a history of the
stamps that were current during the call.

**Property tables: `AudioObject`, `NullAudio_Objects`, `SA_Properties`.** The four
functions of each kind of object (has, is settable, data size, data) are four
operators; an address is a selector and a scope, a value a word, a reference or a
list, and a size is its size in bytes. Only what a property can tell apart is kept:
which selectors an object answers, how much it announces, how it cuts a list to the
room it is given and what it refuses. The setters are actions of the modules below.

**`NullAudio_Box`.** A thread of the server asks for the size and then for the data
(`GetSize`, `GetData`). The plug-in's lists are read without the mutex and look at
`gBox_Acquired` twice: `BeginList`, `EndList`. An acquisition is visible before it is
stored (`SetAcquired`, `StoreAcquired`), `Announce` is the call to the host after the
mutex is left, and `HandleNotification` is the host reading the list again.
`RestartServer` loads the plug-in anew from storage at any moment. A device list
asked for with too little room leaves with the mutex held (`LeavesMutexHeld`), and
everything that takes it is stuck from then on.

**`NullAudio_IO`.** Start and stop are under the state mutex, a stamp under the I/O
mutex. `ReadHostTime` and `GetZeroTimeStamp` are the two sides of the reading of the
clock; a start of another client may come between them. The host performs a rate
change with I/O stopped.

**`SA_Controls`.** A setter changes the shadow under the lock (`SA_SetScalar`,
`SA_SetDecibel`, `SA_SetIsActive`), hands a block to the serial queue after it
(`SA_Dispatch`), and the block tells the host (`SA_RunBlock`), which reads the value
then (`SA_HostReads`). `SA_AskRate` and `SA_SetFormat` compare under the lock and
dispatch a request; the setter of the format checks the fields the code checks
(`SA_AcceptsFormat`) and reads the new rate from the first field, as the code does.

**`VolumeCurve`, `CAVolumeCurve`.** A range is its four ends, an exponent a fraction.
`AddRange` walks the sorted map the way the code does, so it accepts what the code
accepts. The loops over the ranges are `StepsUpTo` and `TakenUpTo`, functions of the number
of ranges walked; powers are multiplied out (`PowersOf`), and the root that
`ConvertScalarToRaw` takes is the step whose neighbourhood holds the scalar.

**`AppWall`.** A callback takes `g_mutex` and is one step. `Register`, `AddEntries`,
`EndStart`, `BeginStop` and `EndStop` are the stretches of start and stop between which
callbacks can run. A socket is external; its record says whether its program had an
entry when it was opened (`known`) for `WallHolds`.

**`MyEthernetDriver`.** `RaiseRX` and `RaiseTX` are read, write and arming of the
timer, three steps each, since `|=` on the register takes no lock; `Interrupt` and
`ClearStatus` are the two halves of `readRegister32`. `disableHardware` runs on the work
loop and spins until `FilterDisabled`, so `Interrupt` cannot run meanwhile.

**`RAMDisk`.** A request is sent by a client through a partition's medium, through the
filter if the partition has one, to `doAsyncReadWrite`; the copies are block by block,
since no lock is held. `Terminate` makes the disk refuse. `Probe` scans again at any time,
also while requests are on their way, as `requestProbe` does. Data are blocks of one bit,
which encryption inverts, as the code's exclusive-or does.

**`MyAudioEngine`.** A timer fires up to `Latency` late, which may be more than an
interval. `TimeoutFrom` is the subtraction with its cast to 32 bits (`Wrap`), and
`wrapped` remembers that a handler ran so late that what was cast was negative.

## 3. What the runs check

| Run | Instance | Properties | Shows |
|---|---|---|---|
| `serial` | 3 threads, 1 modem bit, 2 setState and 2 watchState calls | PortExclusive, NoMissedWakeup, ClosedPortIsClear, StopFreezesPort, AcquireProgress, ClosedPortFreesWatchers, ImplementsPortLock | one owner; nobody sleeps on a bit that already has the awaited value; a closed port is all zero; after stop() the state word is final; waiters progress; the port refines `PortLock` |
| `plugin` | 2 services, 2 clients, 2 parts | RefsExact, NoUseAfterDelete, MapHoldsLiveDevices, ListedResolves, TerminatedIsDeleted, ImplementsHandles | reference counts are exact, nothing is used after deletion, and terminated devices are deleted |
| `audio_driver` | 2 user clients, clock up to 3 | StampNotInFuture, GoneClientIsNotOwner, QuietWhenStopped, FirstStampComes | the stamp follows the clock; a session outlives its client only if an open overlapped the close |
| `audio_io` | 2 clients of the server, clock up to 4, 1 pending change | CountMatchesHardware, SkewAtMostOneBuffer, ConfigChangeApplies | device and driver agree; stamps are off by at most one buffer; a change of rate takes effect |
| `standalone` | ten components, one in each behaviour; bounds below | CountsIO, WaitersReadWhenOn, ReadsWhenOn, DrainedBeforeLower, ChangeCompletes (power-managed driver); ReplyFits, PropertyTablesAgree, HostsUpToDate, ChangesAnnounced (both plug-ins' properties, box, controls); OneClock, StampsAdvance (NullAudio's clock); CurveInverts (volume curve); CookiesLive, WallHolds, UnloadEnds (firewall); DeliveredInOrder, DisableEnds (Ethernet); ImplementsBlockStore (storage); EngineOnTime (audio engine) | what each of them is meant to promise |

`standalone` chooses one component in its initial state and lets only that one step:
they share no state, so the behaviours are those of ten separate runs, and a
property of one component holds of the others' behaviours at rest. `PropertyTablesAgree`
is looked at where an answer can change: before and after every step that acquires or
releases the box, or changes a level.

The type invariants hold on the same instances and are not repeated there; each of
them is proved (section 5).

The seven other runs end in a counterexample; section 4 is about them.

### Bounds, and why they are enough

- *Serial:* two threads contend and the third watches or holds, which is what the
  shared mask needs to be emptied by one, rebuilt by another and missed by a third.
  The argument sets hold one call for each kind the code tells apart: a modem bit
  alone (interest in ACTIVE is added), ACQUIRED, and setting ACTIVE and a modem bit.
  `stop()` may run at any point. The counterexample of `serial_acquire_aborted` needs one
  thread, its run has two.
- *Standalone, power:* three readers, so one can read, one fall asleep and one be woken at once.
  `m_outstandIO` needs no bound: it counts readers.
- *Plug-in:* two services, since the queue handles one while the startup thread
  handles the other; two clients, so that overlapping calls can pass a reference on;
  two parts, so that unmapping has a first and a last. Each service arrives once.
- *Audio driver:* `MaxTime` bounds the uptime clock. A buffer is two ticks at 44100
  and one at 48000, the least that tells the rates apart, so three ticks hold a run, a
  change of rate and another run, and two later stamps at the shorter buffer. One call of
  each opening or closing kind of a client is under way at a time, and all kinds at once. `InTime` keeps a start from being made too late for
  its first stamp, so that `FirstStampComes` is not decided by the bound; the
  96000 in `AskedRate` is the refused rate.
- *Device I/O:* four ticks give a first stamp and at least one later one at either
  rate, the two cases of `timerFired`; `MaxRequests` bounds requests on their way,
  and one is enough because the server performs one change at a time. The clients
  are interchangeable and only safety is checked, so symmetry is sound.

- *Standalone, NullAudio:* two threads of the server, one to read in two calls and one
  to change the box in between; four properties that differ in their use of the mutex
  (`PropertyTablesAgree` looks at all properties of all objects all the same); two notifications on their way, so that one can overtake. One control of each
  kind. Two clients of the clock, seven ticks with rates of three and two ticks a
  buffer, and two requests for a rate.
- *Standalone, SimpleAudio:* two threads, a stream and a control, a curve of 96 dB set
  to values between two steps and out of range (5/16 and -30 dB; 17/16 and -145 dB), one block on the queue, so that the
  next setter finds it there.
- *Standalone, volume curve:* six ranges that continue each other, leave gaps, overlap
  and differ in their step, added in every order and removed; all transfer functions.
- *Standalone, firewall:* two sockets, so that one can be attached while the other opens
  or detaches, and every program the entries tell apart.
- *Standalone, Ethernet:* one sender against the receiving thread and the work loop, two
  packets each way: one that is announced and one that comes in between. The
  counterexample's run has two senders.
- *Standalone, storage:* two clients; four blocks with the table, a partition of one and an
  encrypted one of two blocks, the least with a neighbour on each side and a request
  longer than a block. `TableAssumption` checks the table of the source itself.
- *Standalone, engine:* an interval of two ticks, six periods in the buffer, a lateness of
  up to three ticks, so that a timeout can wrap (`Wrap` is eight ticks), and 20 ticks: a
  whole buffer and the loop after it, a run that is stopped and another one.

Deadlock is not checked where the system may stop: serial threads may stay idle for
ever after `stop()`, nobody has to use a device, services need not arrive, and the
two audio runs and `standalone` end with their clocks and bounds.

### Fairness

- *Serial:* a thread that holds the gate runs on, and the gate starves nobody who waits
  for it (strong fairness of `Proceed` for each thread: whether the gate is free goes up
  and down); nobody has to call anything, and nothing interrupts a sleeper by
  assumption, on the state word or on the disabled gate.
- *Power:* a change or a call that began goes on, a request for the on state is
  served, but the idle timer need not fire and nobody has to read. The lock is
  handed to a waiter in the end.
- *Plug-in:* a serial queue runs what it was given, the scan goes on, a host call
  returns. Services need not arrive or go.
- *Driver:* the clock runs, an armed timer goes off and the work loop finishes a
  handler. Clients owe nothing.
- *Firewall:* the kernel finishes callbacks it began and detaches the sockets of a filter
  that is unregistering; whoever unloads tries again after EBUSY. Programs owe nothing.
- *Ethernet:* threads inside a handler go on, the timer fires, the network stack ends the
  detaching once no callback runs. Nobody has to send, receive or disable.

## 4. Where the code and its words differ

Each has a run whose counterexample TLC finds.

1. **`serial_close`** (`MySerialDriver.cpp:296-307`). A watcher registers interest
   in ACTIVE "so that we can abort if the serial port closes". It is woken by the
   close, but compares bits when it runs; by then another client may have acquired
   and activated the port, and it sleeps on into that client's session.
   `ClosedPortFreesWatchers` is what does hold.
2. **`serial_acquire_aborted`** (`MySerialDriver.cpp:151-155`). After its `setState`
   `acquirePortGated` says that the "serial port has been acquired" and returns success.
   When `stop()` disables the gate between the outer and the nested `runAction`, the
   nested one sleeps; interrupted, it returns `kIOReturnAborted`, which nobody looks at,
   and the caller is told that it owns a port that is not acquired. `PortExclusive`,
   `StopFreezesPort` and the refinement of `PortLock` say what does hold.
3. **`power_wakeup`** (`IOKitTest.cpp:153-168`). `powerChangeDone` wakes waiters
   without `m_lock`, so it can run between a reader's test and its sleep: the reader
   sleeps, uninterruptibly, on a device that is on.
4. **`plugin_early_reference`** (`SA_PlugIn.cpp:479-485`). A device is mapped and
   listed before `Activate`, whose comment relies on the opposite.
5. **`plugin_startup_scan`** (`SA_PlugIn.cpp:485`). The matching handler uses the
   device on the creation reference alone. After startup the queue protects it; in
   the startup scan a service that terminates takes the device away under it.
6. **`audio_torn_stamp`** (`SA_Device.cpp:1579-1591`). The loop that is "to guarantee
   consistency" reads everything twice, but `timerFired` writes two fields in turn:
   all four reads may fall between the writes. `SkewAtMostOneBuffer` is what does hold:
   the host time belongs to a stamp current during the call, and the sample time is
   that stamp's or one buffer more.
7. **`ethernet_lost_interrupt`** (`MyEthernetHwAbstraction.cpp:203-204`). A packet is queued
   and an interrupt raised "to inform [the driver] of the new packet". The status
   register is changed with `|=` by the receiving and the sending threads and read and
   cleared by the work loop, with no lock: the receive bit can be lost, and the packet
   stays in the queue until a later one arrives. `DeliveredInOrder` is what does hold.

Other oddities met while modelling, each modelled as the code has it. None of them
contradicts a sentence of the repository plainly enough for a run of its own, or it
shows without one:

- NullAudio stores the box's name but looks it up under the key of the acquisition
  (`NullAudio.c:450`): the name is never restored.
- The plug-in's owned objects with room for both write the box and then the device into
  the same element (`NullAudio.c:1115-1116`).
- The two translations of UIDs refuse the qualifier the header asks for
  (`NullAudio.c:1156`, `1199`), and the box's UID announces no size. `TablesAgree` leaves
  these three out.
- The box's device list, asked for with too little room, leaves with the state mutex held
  (`NullAudio.c:1633`). `MutexReturned` states the opposite and does not hold.
- The host clock's frequency is a quotient of two integers (`NullAudio.c:470`): on a host
  whose time base is not 1/1 it is truncated, to zero where the numerator is larger.
  `PeriodAssumption` leaves such hosts out.
- A SimpleAudio stream offers 16-bit integer formats (`SA_Device.cpp:1125`) and its setter
  accepts only 32-bit floats (`SA_Device.cpp:1236`), then takes the rate from the
  format's first field (`SA_Device.cpp:1252`).
- `CAVolumeCurve::AddRange` stops at the first range that begins before the new one and
  does not look at the ranges behind it (`CAVolumeCurve.cpp:247-256`): two ranges of a
  curve can overlap. `RangesApart` states the opposite and does not hold; `CurveInverts`
  is about curves that `CheckForContinuity` accepts.
- The audio engine's comment promises 44100 and 48000 (`MyAudioEngine.cpp:194-196`); its
  only case is `kAudioSampleRate`, which is 48000.
- The engine takes a time stamp at its first interrupt, one period after the start and
  before anything wrapped, and later ones a period after the position it reports wrapped,
  although the comment there speaks of the buffer wrapping (`MyAudioEngine.cpp:317-321`).
  `LoopsNearTime` and `StampsNearPosition` say by how much loops and positions disagree.
- An engine timer that is more than an interval late makes the next timeout negative, and
  the cast to 32 bits makes more than an hour of it (`MyAudioEngine.cpp:302`): the position
  stands still (`PositionTracksTime`, with `wrapped`).
- The comment on setting a SimpleAudio stream's activity says "save the state and send
  the notification" (`SA_Device.cpp:1202-1203`); the code under it sends none (`SA_SetIsActive`).
  `ChangesAnnounced` is therefore about NullAudio only.
- A `method_Open` that has passed its `isInactive` test is served after `clientClose` has
  closed and terminated its client (`SimpleAudioDriverUserClient.cpp:157`): the driver is
  then open for a client that is gone. `GoneClientIsNotOwner` says that this is the only way.
- `disableHardware` spins on `filterRegistered`, a plain bool
  (`MyEthernetHwAbstraction.cpp:149`): a compiler need not read it again. `DisableEnds`
  takes it to be read again.
- `stop()` of the serial driver wakes nobody: a thread asleep in `watchState`, or in
  `runAction` of the disabled gate, stays there until it is interrupted.
- The SimpleAudio driver's `start` keeps a non-zero `IOReturn` in a bool when its work loop
  or its gate cannot be made (`SimpleAudioDriver.cpp:77`), and reports success. The model
  begins with a `start` that succeeded.
- `fInterruptCount` has 32 bits and 2^32 is no multiple of the buffer's periods
  (`MyAudioEngine.cpp:184`): after 497 days of playing the position jumps. The model's
  count is unbounded.
- The Ethernet driver counts one packet sent per interrupt, however many were sent before
  it (`MyEthernetDriver.cpp:253`).

## 5. What is proved

TLAPS checks these for every value of the constants that meets the named
assumptions: every invariant and every action property of the passing runs, and the
three refinements.

| Module | Theorems | Inductive invariant |
|---|---|---|
| `MySerialDriver_proofs` | type correctness, PortExclusive, NoMissedWakeup, ClosedPortIsClear, StopFreezesPort, refinement of `PortLock` | the state properties with `GateInv`, `PortInv` |
| `IOKitTestPower_proofs` | type correctness, CountsIO, WaitersReadWhenOn, ReadsWhenOn (without stale tickles), DrainedBeforeLower | adds `OnMeansOn` and `LowerDrains` |
| `SA_PlugIn_proofs` | type correctness, RefsExact, NoUseAfterDelete, MapHoldsLiveDevices, ListedResolves, refinement of `HandleTable` | adds `NamesOwn`, `Untouched`, `Turns`, `OwnedWhileUsed` |
| `SA_DeviceIO_proofs`, audio driver | type correctness, StampNotInFuture, GoneClientIsNotOwner, QuietWhenStopped | `StampInv`, `SessionInv` |
| `SA_DeviceIO_proofs`, device | type correctness, CountMatchesHardware, SkewAtMostOneBuffer, ConfigChangeApplies | the driver's, with `RatesInv`, `CountInv`, `ReadInv` |
| `Standalone_proofs`, NullAudio's clock | type correctness, OneClock, StampsAdvance | adds `ClockPassed`, `StampsOnLine` |
| `Standalone_proofs`, audio engine | type correctness, EngineOnTime | adds `OnSchedule`, `InLoop` |
| `Standalone_proofs`, firewall | type correctness, CookiesLive, WallHolds | adds `FlagsTell`, `FilterNeeded`, `KnownFiltered` |
| `Standalone_proofs`, Ethernet | type correctness, DeliveredInOrder, `Numbered` | adds `OffIsQuiet` |
| `RAMDisk_proofs` | type correctness, `TableIntact`, refinement of `BlockStore` (ImplementsBlockStore) | `DiskInv` |
| `Properties_proofs`, NullAudio | type correctness, ReplyFits, TablesAgree, HostUpToDate, StoredIsCurrent, BoxChangesAnnounced, ControlChangesAnnounced | `BoxInv`; `ValuesOK`, `TellingOK` |
| `Properties_proofs`, SimpleAudio | type correctness, SA_TablesAgree, SA_HostUpToDate, `LevelsReadBack` | `SA_Inv` |
| `Properties_proofs`, both | PropertyTablesAgree, HostsUpToDate, ChangesAnnounced | the ones above |
| `VolumeCurve_proofs` | type correctness, CurveInverts | `CurveInv` |

*Serial.* None of the state properties is inductive alone. `GateInv` says that one
thread holds the gate and that a thread asleep on the disabled gate inside a gated
method came there last. `PortInv` is `PortExclusive` as it holds inside the gate: the
holders are exact while the gate is enabled or somebody is still inside it (`Settled`),
and inside its nested `setState` an acquire still finds the port free. After that an
aborted call can make the history of holders wrong, but nobody can write the state word
any more, which is `StopFreezesPort`. `NoMissedWakeup` carries the argument about
sleepers: their bits are all in the shared mask and none matches; a write either touches no watched bit, so
it disturbs no sleeper, or wakes all of them. For the refinement a thread's acquiring
call maps to `waiting`, the history of holders to `owner` and the enabled gate to
`inService`; `PortLock` promises exclusion while in service, and says of the time after
it only that those who were waiting may be told anything.

*Power.* The count is the cardinality of the set of readers that read, so its
steps are lemmas on finite sets. `OnMeansOn` says that where power management
takes the device to be on, the driver has recorded that it is and no change is under
way; `LowerDrains` says that only a change to a lower state waits for I/O. So a
reader that begins does so on a device that is on, and a change that takes it away
is then still before its drain.
With a stale `activityTickle` only readers that waited are covered, and the
theorem says so.

*Plug-in.* `RefsExact` says the count of an object is the number of its holders
(its creator, the removing handler, clients): every step is shown to add or drop
one holder and one reference at once. `OwnedWhileUsed` is why the matching handler may
work without a reference: nothing else releases the creation reference while it
does, which needs the serial queue (`Turns`) and, during startup, that no service
terminates. That is the hypothesis `~EarlyUnplug` of every theorem of this module;
run `plugin_startup_scan` shows what happens without it.

*Audio driver.* A stamp is never ahead of the clock although `timerFired` never
looks at the clock after the first: `StampInv` says an armed timer with a stamp is
due exactly one buffer after it, that the buffer's length is that of the present
rate, and that inside `timerFired` the next stamp is already due. The rate can
change only while the driver is stopped, and a start clears the stamp. `SessionInv`
adds that a client that opens during its `clientClose` is remembered in `overlapped`, and
that once `clientClose` has called close only such a client can own the driver.

*Device I/O.* Every step of the device is a step of the driver or leaves it alone,
once `RatesInv` says that a pending rate is one a client may ask for; the driver's
invariant then carries over. `CountInv` adds that inside a first start the mutex
is held and nobody does I/O. `ReadInv` is what `GetZeroTimeStamp` knows after each
read: no start happens under it and every stamp has a later host time than the one
before, so two equal readings of the host time have no stamp between them, and the
sample time read in between is that stamp's or, inside `timerFired`, one buffer more.

*Audio engine.* The next timeout is start plus a whole number of intervals however late
each interrupt came, and the timer is due then or, once a cast has wrapped, later
(`OnSchedule`): with a lateness of at most an interval the subtraction stays between 0 and
an interval, so the cast does not wrap, and otherwise it gives some time that is not
before the next interrupt (`NextDue`). Nothing is assumed of the lateness. `InLoop` says
when the last loop was counted; the reported position then needs that the remainder of a
count by the buffer's periods is the count less the loops before it (`LoopEnds`), which is
proved from integer division.

*NullAudio's clock.* While anybody runs, the anchor and the length of a buffer do not
change, since only a start that finds nobody running writes the one and only a change
of rate with nobody running the other; so all stamps lie on one line
(`StampsOnLine`), and the count moves on only over a buffer that has passed
(`ClockPassed`). This needs no lock between the two, but the count of clients to be exact.

*Firewall.* `FlagsTell` is the heart: once start() has ended, a clear
`g_filter_registered` means that the kernel has no filter, so that what stop() frees is
nobody's cookie. `KnownFiltered` says that a socket whose program had an entry when it
opened is on its way into the filter or in it, so that its connect is asked about.

*Ethernet.* However the status register is overwritten, nobody loses a packet of the
queue: `DeliveredInOrder` is inductive with `OffIsQuiet`, which says that the filter is on
the other interface only while the driver has it registered, so that nothing comes in
between the flushing of the queue and the next session. `Numbered` adds that the packets
are different ones, so that in order means once.

*Storage.* `DiskInv` says of a request on its way that it lies in its medium and that its
buffer is as long as what was copied. `Apart` is what a partition table that fits gives:
no block of the disk belongs to two partitions, and the table's to none. A copied block
then changes one block of one store (`OneSeen`), encryption is undone block by block
(`SeenTwice`, `PlainBlocks`), and every step of the stack is a step of the store or leaves
it alone (`Kept`). `TableIntact` follows: no request reaches the partition table.

*NullAudio's properties.* That the tables agree is proved object by object (`DeviceExact`,
`StreamExact`, `ControlExact`, `BoxFits`, `PlugInFits`), for every selector. The prover
needs the arms of a `CASE` to be disjoint to say which is taken, as a `switch` is; two arms
of `NullAudio_Objects` that overlapped, for the box's UID and for the volume, were made so.
`BoxInv` is about calls on their way. A call that has learned a size has it from some
state of the box, whatever the state is now (`CallInv`): enough for `ReplyFits`, since
a reply is cut to its room. `RefreshesOK` is why the host follows: once no notification is
pending and no acquisition is half-way, what a refresh has read so far is what the box is;
a change that would falsify it makes a notification pending. `StorageOK` says that only
an acquisition on its way is not stored yet. Announcing is proved by showing that a step
that leaves a value alone leaves every answer that is not computed from it (`ReadsSame`,
`ValueReads`).

*SimpleAudio's controls.* `SA_HostUpToDate` is inductive once the blocks on the queue and
in the setters' hands are typed (`LevelsOK`): a level that changes puts a block in a
setter's hand, which moves to the queue, then to what the host has been told of, then is
read. `LevelsReadBack` says that a control set to the scalar or the decibels it answers
stays where it is; it is the volume curve's theorem at the driver's own curve.

*Volume curve.* `CurveInverts` is about any continuous curve, of any number of ranges. The
walks are recursive functions and are proved by induction, which needs no theorem with an
operator for a parameter: a nonempty set of natural numbers has a least member
(`Smallest`), because the strict inclusion of finite sets is well-founded, and `Induction`
and `Recursion` (that a recursive definition has a solution) follow for sets and for
functions. `InOrder` says that the ranges follow each other; `RawToDB` and `DBToRaw` say
that the walks in either direction end on the range that holds the value (`SameRange`),
where one multiplies by the decibels of a step and the other divides by them. `GoesToNearest`
takes rounding to be within half a step and everything off the range to be further
(`Outside`). For scalars, a power of a product is the product of powers (`PowerTimes`) and
powers grow with their base (`PowerGrows`), so exactly one step's neighbourhood holds a
step's own scalar, for every exponent.

Left to TLC: liveness, which is beyond the prover (AcquireProgress,
ClosedPortFreesWatchers, ChangeCompletes, TerminatedIsDeleted, FirstStampComes,
UnloadEnds, DisableEnds), and the counterexamples of section 4. The proofs of the plug-in's
life cycle take `~EarlyUnplug`, and ReadsWhenOn takes `~StaleTickle`; each is a hypothesis of
its theorems and a value of the run's constant, and the opposite is a finding or a remark
above.

## 6. What is assumed

- *IOKit:* an `IOCommandGate` runs one action at a time, also with the timer of
  its work loop; `IOService::open` admits one client and none once termination has
  begun; `didTerminate` follows inactivity; a terminated service installs no new interest
  notification; `runAction` on a disabled gate gives the gate up, sleeps until it is
  interrupted, and then returns `kIOReturnAborted`.
- *Power management* makes one change at a time and calls `setPowerState`, then
  `powerChangeDone`.
- *The serial family's clients* leave `PD_S_ACQUIRED` to `acquirePort` and
  `releasePort`, and only the holder releases (`ClientsKeepAcquired`). The driver
  enforces neither.
- *The audio server* stops I/O before it performs a change, ends its I/O thread before
  the last `StopIO`, and reads the device list before it uses an ID.
- *The kernel's filters:* a callback that began ends, a filter that is unregistered is
  detached from its sockets before its last callback, and nothing follows that one.
- *`IOMedia`* refuses requests outside its medium and adds the partition's base. `Issue`
  bounds them so, and the disk's own check of its end is therefore never what refuses one.
- *The audio server* also stops asking for stamps before `StopIO`, reads the list of
  devices when it is told that it changed, and scans it after `Initialize`.
- *The plug-in's locks and serial queues* do what their names say; a client of the
  map uses the object between its own copy and release.
- *Memory:* the two tasks see the status buffer's 64-bit fields whole and in program
  order. A weaker memory would only add to `audio_torn_stamp`.
- *The constants:* sets of clients, threads and sockets are finite or anything; bounds are
  natural numbers (`BoundAssumption`, `ThreadAssumption`, `TellingAssumption`); what the
  threads of the server ask for is a property in one of the scopes of the header
  (`AskedAssumption`); a partition table fits its disk, and its entries do not overlap
  (`TableAssumption`, also of the source's own table); a range of a curve goes up, in
  steps and in decibels, by a whole number of decibels per step in the unit chosen
  (`CurveAssumption`, `LevelAssumption`).
- Numbers are unbounded where the code has 64 bits and a step of the clock is a tick; the
  start count and the reference counts do not reach their limits. Floating-point numbers are
  exact fractions.

## 7. What is not modelled, and the plan

Not modelled, and not planned: the USB and PCI drivers, HelloWorld and the
shared-code example, which log and keep no state; the sequential USB tool; the Core
Foundation wrappers and the debugging aids; the timer sample, whose life cycle is
that of the audio driver's timer; the IP and the interface filter, whose handshake is
the firewall's. Planned:

1. **Audio, completed.** Composition of `SA_PlugIn` with `SA_DeviceIO`: `Deactivate`
   unmaps the buffers that an I/O thread may still read (`SA_Device.cpp:1586`). The
   driver's `start` and `stop` with their partial failures, and the copies into the ring
   buffers. The engine's clipping and conversion of samples
   (`MyAudioEngine.cpp:212-281`) against a reference definition.
2. **Kernel control and utilities.** The control's string and its unloading
   (`HelloKernControl.c:81-104`); `CAMutex`, `CAGuard` and `CADispatchQueue`; the object
   references of the notification tool.
3. **The partition scheme's `stop()`** and the withdrawal of its media.

`SA_PlugIn` leaves out the property calls between copy and release (a client is
`using` the object then; what they answer is `SA_Properties`), and `SA_DeviceIO` a
device that is not active. `SA_PlugIn::Deactivate` of the plug-in object itself is
never called by the code.

## 8. Running it

    tlc -workers 2 -config MCSA_DeviceIO.cfg MCSA_DeviceIO
    tlapm SA_DeviceIO_proofs.tla

Each run of `PROJECT.json` names its module and configuration. The largest,
`audio_driver`, has 1.9 million states and takes about two minutes, `standalone`, with 173
thousand, as long, most of it for its liveness properties.
