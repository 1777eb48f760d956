# A TLA+ model of the Telemaco Cortex-M3 firmware

The repository holds two programs: the firmware of the Cortex-M3 of ST's Telemaco3
(`src/m3-loaders`), which runs FreeRTOS beside a Linux host on the same chip, and a
display unit of Actia (`src/Multic_FS_Straton`) that runs a PLC virtual machine.  This
directory models the concurrent core of the firmware: the way tasks, interrupts and the
Linux host share buffers, mailboxes, buses, the display and the decision to power down.

Paths below are relative to `src/m3-loaders` unless they say otherwise.

## 1. Inventory

| Component | State | Operations | Interacts with | Hard part | Correct when |
|---|---|---|---|---|---|
| RPMSG transport (`middleware/rpmsg/src/MessageQCopy.c`) | endpoints and their queues, wait list, critical-section semaphore | create, recv, send, callbacks of either vring | vrings, mailbox, FreeRTOS queues and lists | buffers move between host, interrupt and tasks; time-outs; one doorbell for two vrings | no buffer is lost or used twice, messages arrive once and in order, no ring is lost, every call ends |
| Vrings (`VirtQueue.c`) | index rings in shared memory, flags | getAvailBuf, addUsedBuf, kick, isr, create | host, through memory | 16-bit indexes wrap, flag checked without a lock | the rings are first-in-first-out queues, nobody waits for a ring that never comes |
| RPMSG start-up (`sta_rpmsg.c`) | progress of the handshake, semaphore, start-up queue | PreInit, Init, U32Send | every RPMSG task, host | several tasks start it, failures, time-outs | nobody gets through early, the host gets one answer |
| Mailbox (`drivers/sta_fwlib/src/sta_mbox.c`) and hardware semaphores (`sta_hsem.c`) | channel table, stop counts, mask register, pending bits | request, free, stop, resume, send, interrupt | host, RPMSG, gpio, tuner, pm | one mask register for all channels, check before lock | messages arrive once and in order, a channel in use is enabled, a stopped one is not |
| I2C service (`middleware/i2c_service`) | list of ports, coms, one semaphore per com and per port, `done_sem` | open, create com, mode, write, read, reset, interrupt | I2C drivers of tuner, audio, camera; controller and devices | time-out against completion, early returns with semaphores held, the interrupt works on the caller's buffer | every byte goes out once and in order, a completion belongs to its transfer, calls end |
| SPI service (`middleware/spi_service`) | the same, with DMA and chip selects | the same | SPI drivers | the same | the same |
| Multimedia services (`services/src/sta_rpmsg_mm.c`) | table of local and remote instances, resource lock, acknowledgements | register, lock and unlock a resource, broadcast, status, receive task | transport, camera, VPU, display | an acknowledgement carries the address of a semaphore on a stack, a broadcast waits with the lock the receiver needs | an acknowledgement wakes its own call, a name has one entry, nobody waits for ever |
| Multimedia manager (`sta_mm.c`), splash animation (`sta_splash_animation.c`), rear view camera (`sta_rvc_test.c`) | event queue and state, three semaphores of the animation, debounced gear, who owns the camera | start and stop animation and camera, gear edge, takeover by Linux | Linux through rpmsg_mm, gpio interrupt, display, the camera's task (`drivers/sta_fwlib/src/sta_cam.c`) | four tasks and an interrupt with flags, a queue that also holds the manager's own events and one that also holds the camera's frames | the state agrees with the context, no edge and no takeover is lost, the manager comes to rest |
| Power manager (`drivers/sta_fwlib/src/sta_pm.c`), A7 watchdog (`sta_wdt_a7.c`) | flags for stand-by and reboot, what the host wants and has answered, lists of notifiers | register, ask, PMU interrupt, host messages, polling task | console, host, watchdog, CAN and sensor tasks | flags without a lock set by tasks and interrupts, a host that hangs | the machine goes down, not under the host and not before the notifiers |
| Remote device services (`sta_rpmsg_rdm.c`, `sta_rpmsg_audio.c`, `sta_remote_gpio.c`) | device table, endpoints, event queue of three | announce, request, indicate | transport, mailbox, gpio interrupts | queue length, order of announcement and use | each request gets its answer |
| CAN interface (`drivers/can`) | controller modes, registers | init, send, read, mode | CAN interrupts | the transmit queue of `sta_canif.c` is compiled and never reached (section 5) | |
| Loaders, applications, register drivers | boot state, registers | straight-line set-up | hardware | little concurrency | |
| STRATON display (`src/Multic_FS_Straton`) | VM, J1939 tables, parameters | PLC blocks, CAN frames, files | closed library | parameter store | |

How they interact.  A task calls `MessageQCopy_send` or `_recv`; these take the
transport's semaphore, stop the mailbox channel (`mbox_stop_rx_msg` masks its interrupt)
and change the vring.  `VirtQueue_kick` rings the host through the mailbox
(`RPMSG_U32Send`, `mbox_send_msg`).  The other way the host writes a vring and rings;
`hsem_irq_handler` calls `mbox_rx_msg`, which calls `VirtQueue_isr`, which calls the
vring's callback in `MessageQCopy.c`; that one queues buffers for tasks or wakes waiting
senders.  Before all this works, every task calls `RPMSG_Init`.

Above the transport, `rpmsg_mm_task` reads what Linux sends and calls the drivers'
handlers; those of the multimedia manager post to `mm_queue`, which `sta_mm_task` reads.
Drivers that share the display or the video decoder with Linux lock it with a message that
Linux acknowledges.  The power manager has a mailbox channel and an RPMSG endpoint of its
own, and the console, the watchdog and the PMU call it.  The I2C service stands beside
these: its users are driver tasks, its other side the controller's interrupt.

The hard behaviours, each at its line, are the `hazards` of `PROJECT.json`.  Vendored code
(FreeRTOS, FatFs, liblzg, the HSM, VPU and crypto drivers, the STRATON virtual machine) is
not modelled; FreeRTOS queues, semaphores, delays and scheduling appear as the firmware
uses them.

## 2. Modules

| Module | Role |
|---|---|
| `MessageQCopy` | the transport: tasks, mailbox interrupt and host over two vrings |
| `RpmsgChannel` | what the transport promises: a channel to each endpoint and one to the host |
| `VirtQueue` | one vring, access by access, against the host's processor |
| `BufferRing` | what a vring promises: buffers passed first in first out both ways |
| `RpmsgInit` | the start-up handshake by several tasks |
| `Mbox` | the mailbox driver and the hardware-semaphore driver below it |
| `I2cService` | ports, coms, transfers, the interrupt and the controller |
| `RpmsgMM` | the table of multimedia instances, messages with acknowledgement, the dispatcher |
| `StaMM` | the multimedia manager, the animation task, the camera and the rear gear |
| `PowerManager` | stand-by and reboot between tasks, interrupts, notifiers and the host |
| `MessageQCopy_proofs`, `VirtQueue_proofs`, `RpmsgInit_proofs`, `Mbox_proofs`, `I2cService_proofs`, `RpmsgMM_proofs`, `StaMM_proofs`, `PowerManager_proofs` | theorems |
| `MCMessageQCopy`, `MCVirtQueue`, `MCRpmsgInit`, `MCMbox`, `MCI2cService`, `MCRpmsgMM`, `MCStaMM`, `MCPowerManager` | instances for TLC |

The layers are joined by refinement: `MessageQCopy` treats each ring of a vring as a
sequence, and `VirtQueue` shows that the index rings implement those sequences
(`ImplementsBufferRing`).  `RpmsgInit` ends where `MessageQCopy` begins: `ReturnedReady`
is what `MessageQCopy!Init` assumes.  `MessageQCopy` uses the mailbox as one slot in either
direction with a mask bit; `Mbox` models the driver with several channels.  `RpmsgMM` has
the transport as what `RpmsgChannel` promises, a queue of messages from the host, and
`StaMM` has Linux's requests as `RpmsgMM` dispatches them, one at a time.  `PowerManager`
uses a mailbox channel as an interrupt (`PmCb`) and an endpoint as a set of messages.

### MessageQCopy

State: `availF`, `usedF`, `memF` and `availT`, `usedT`, `memT` are the vrings FromHost and
ToHost and what their buffers hold; `queue`, `created` are `mQueObj`; `mail`, `bell` are
the mailbox slots; `irqOn`, `rxStop` the mask bit and `mchan.rx_stop`; `sem` is
`MessageQCopy_sem`; `waitAvail`, `linked`, `sound` are `waitAvaileBuf` and
`availBufList`.  `pc[t]` is a task's control point in the call it is in.  A call is cut
where another actor can see or change what it uses: the semaphore (`Lock`), the mask
(`Mask`), the work inside, the ring (`Kick`), `Unmask`, `Give`; `RecvTake` and `RecvCopy`
run outside the critical section, as in the code.  The interrupt is one step per buffer
(`IsrForward`, with `MessageQCopy_SendToTask`), and tasks stand still while it runs.

`SendPlace` models `vTaskPlaceOnEventList` as called here, with the scheduler running: the
task is linked in the wait list and on the delayed list, and goes on until it is switched
out.  Linking an item that is linked already makes the list a loop (`sound` is FALSE), and
from then on inserting may never end (`hung`) and popping may do anything.

The host is external: it posts to any endpoint, also to one that does not exist
(`dst = NoEp`), takes buffers back, accepts messages and rings unless `NO_NOTIFY` is set.

### VirtQueue

The indexes count modulo `IdxSize` (2^16 in the code), a slot is an index modulo `Num`.
Every access of either side to a shared word is a step: the host writes the slot, then the
index, then reads the flag; the M3 compares the indexes (`GetCheck`), then reads the slot
(`Grab`) or clears `NO_NOTIFY` (`Ask`).  M3 calls are serialised by the transport's
critical section, which `MessageQCopy` shows (`CriticalSection`), so there is one M3 actor.
Memory is accessed in program order.

### RpmsgInit

`pc[t]` follows `RPMSG_Init`: the two checks of `vRpmsgInitDone` (one load in the build,
`Enter`), the wait for another task (`WaitTake`, `WaitPass`, `WaitTimeout`), or taking
`xSemRpmsg` and the procedure itself.  `Request` is `mbox_request_channel`, after which the
interrupt (`Isr`) is enabled, before `MakeQueue` creates the queue it posts to.
`GetRequest` runs `MessageQCopy_init`, which may fail; `vrings` is what the last one left.

`Isr` is all of `VirtQueue_isr`.  `IsrPost` passes on the request and any code it does not
know, `IsrUp` ignores `RP_MSG_MBOX_READY`, and `IsrKick` makes the host's first kick a
"ready".  `IsrEcho` answers `RP_MBOX_ECHO_REQUEST` and the two hibernation requests from the
interrupt, where `mbox_send_msg` does not return on a channel with a hardware semaphore
(`sta_mbox.c:559`): the M3 is `stuck`.  Until `RPMSG_Init` has stored its channel the answer
goes to whatever channel the variable names, so that both outcomes are possible.
`IsrMessage` is a kick with a message no endpoint takes: once the vrings are there,
`callback_FromHost` gives the buffer back and rings, with the same end.  `fault` stands for
the use of the queue that does not exist; after it, or when the interrupt is stuck, the M3
stands still.  `refused` notes that a kick found the queue full of the host's requests.

### Mbox

`imscb`, `risb` are the mask and pending registers of the M3's side, `risa` the pending
bits of the other side, `lock` is `v_hsem_locks`.  `imscb |= BIT(id)` and `&= ~BIT(id)` are
a load into `reg[t]` and a store; `Stop` is one step since it runs inside
`taskENTER_CRITICAL`.  `mbox_send_msg` is `SendReady` or `SendBusy`, `SendSem`, `Write`,
`Ring`, `Sent`; `mbox_os_wait_send_msg` goes round with `SendAgain`, and its `tries` count
like `TX_TIMEOUT` in the code.  A task uses a channel only while it has a handle for it.
Freeing or stopping a channel from an interrupt callback is not modelled, and neither is
the spin on a hardware lock the other processor holds.

### I2cService

`list` is `port_head` and its `next` pointers, `node` the memory of the port handlers (a
node whose count is 0 is free), `com` how far each task's com is made.  `ctl[p]` is the
controller with what the interrupt reads: status, FIFO, raw and masked interrupts; `wire`
is what has left it.  A write goes `Call`, `TakeCom`, `TakePort` (the two semaphores),
`Begin` (the controller's state is looked at and the com's configuration written), then
per chunk `StartWrite`, `CheckWrite` (retries of a busy device, interrupts enabled) and
`TakeDone` or `Timeout`, with `Advance` to the next chunk, and `End`, which gives the
semaphores back; a read has `StartAddress`, `CheckRead`, `StartRead`.  `Irq` is the whole
`osal_i2c_callback`: transfer done, transfer done without stop, FIFO to be filled again,
bus error.  `kept` holds the tasks whose call has returned without giving its semaphores, as
the code does on an abort before the first byte, on `-EIO` and when the port is gone.

A read comes byte by byte into the receive FIFO (`rx`), and the end of the transfer takes
what is there (`Drained`, `i2c_read_fifo`).  `i2c_read` also enables the interrupts of that
FIFO, which are active as long as it is filled to its threshold (`Level`).  In the callback
their branch (`sta_i2c_service.c:151`) is never reached, since line 128 tests the same
condition first, so nothing takes them back before the transfer ends: the interrupt is
entered again and again, and no task runs (`Stormed`, a guard of every step of a task).  A
read of at most the FIFO's depth still ends, since the same handler serves the end of the
transfer; a bus error ends it too.  A longer one is `Hung`, whatever its time-out.

Opening a port, looking it up and resetting it run under `open_sem` and are one step each.
`i2c_create_com` links its com in two steps without that semaphore (`LinkCom`, `EndCom`).
Controllers and devices are external (`Shift`, `Receive`, `Abort`).  Slave mode is not
compiled, and running out of memory is left out.

### RpmsgMM

`table` is `resources_table` by names, where an entry is booked before it is filled
(`RegFind`, `RegBook` under two separate locks, `RegFill` under none).  A message to one
peer looks its entry up under the lock and uses it after (`CallOne`, `SendOne`); a broadcast
keeps the lock to the end (`CallAll`, `Cast`, `CastEnd`).  The semaphore of an
acknowledgement is on the sender's stack: `given` says that it has been given, and an
acknowledgement that comes when the sender does not wait is a `fault`, one that comes while
a later call of the same task waits gives that call's semaphore, as the same stack frame
would.  `Recv` is one turn of `rpmsg_mm_task`; registering, leaving and asking for the
status go on with `Reg(mm)`, `Unreg`, `Status`, `Answer`, `Release`, each taking the lock.
Linux is external: it registers, asks, leaves, and acknowledges in any order or never.

The camera's broadcasts ask for no acknowledgement; `vpu/source/g1-res.c` and
`sta_ltdc.c` lock one peer with one and take every result from 0 on as locked.  A message
passed on to a local callback, and the table of services written at start-up, are left out.
`LOCK_RESOURCES` creates the lock's semaphore when it is first used, without a lock
(`sta_rpmsg_mm.c:79`-84): it is taken to exist, that is, two tasks do not both find it missing.

### StaMM

`mm`, `ev` are `sta_mm_task`'s control point and the event it treats, `state` and
`linux` its state and `linux_ready`.  `StopRequest`, `Decoded`, `DecodedTimeout`, `Ended`
are `splash_stop_anim`, `AnimWake` to `AnimEnd` the animation task with `jpegdecode`:
`end_of_animation` is read after the semaphore was taken, the event is posted and the
semaphore given in separate steps.  `rvc_start` and `rvc_stop` are cut where they wait for
the camera's task: `CamOn`, `StartDone` and `CamOff`, `StopDone` are `manage_camera` with
`cam_start_rear_camera` and `cam_stop_rear_camera`, and their own event (`SendOwn`) goes
behind what is already in `mm_queue`.  `Takeover` and `GiveUp` are `rvc_ax_takeover` and
`cam_deinit_rear_camera`.  `PinChanges` is the rear gear's interrupt (`RearGearHdl`),
`GearTake`, `Debounce`, `GearSend` are `rvc_task`, `Frame` and `FrameTake` a frame's message
to it through the same `rvcq`.  A full queue refuses either message; `dropped` notes that an
edge was refused, after which the flag that was set before keeps all later edges away.
`Service` is what Linux calls.

`cam` is the state in `sta_cam.c` and `given` the three semaphores `CAM_START`,
`CAM_START_ACK`, `CAM_STOP`; `CamBegin` to `CamStops` are `cam_main_task`.  It acknowledges a
start before it sets its state to running, and when there is no warm-up interrupt or no layer
it stays in a state in which every later start returns 0 and does nothing (`CamDead`,
`sta_cam.c:2271`, 2280, 1652).  Under `MayFail` that happens, and the waits for start and stop
may end before the task has answered; `failed` notes a start that failed while
`context.running` was set.  `Slow` lets the animation end later than the second it is waited
for.  `GiveUp` with a camera that runs takes `g_mutex_synchro` twice (`sta_cam.c:1534`, 1691)
and the manager waits for itself for ever (`mm = "stuck"`).

The state after a splash screen alone, what is drawn for a frame, Linux's streaming, the debug
modes of the camera with the services that switch the gear by hand, and a decoder that cannot
be booked are left out.  Paused is running.  The messages to Linux (takeover acknowledged, the
gear's status), which are sent without a time-out, are taken to go out; that they do is a
matter of the transport.  The model begins when `gpio_request_irq` has run: `rvc_task` reads
the pin once before (`sta_rvc_test.c:645`), and an edge between that reading and the enabling
of the interrupt goes unseen until the next.  `splash_start_anim` returns the inverse of what
`sta_mm_task` expects, so that the state stays `IDLE` until the animation announces itself:
that is in the model.  `MM_EVT_ANIM_START` is sent by nobody and has no event.  With
`QueueLen` 2 the manager can block on its own queue; the code has 20 entries, and the
instance has 8, which it does not fill.

### PowerManager

`pending`, `asked`, `notify`, `ready` are the flags of `pm_stat` and `host_stat`, for
each of the two ways down.  A task's call is `Ask` (both flags are looked at), `SetPending`,
`SetAsked`; interrupts do the same in one step (`PmuIrq`, `PmCb`), since all interrupts
have one priority.  `pm_task` polls: `Poll`, then `Check`, `Send`, `List`, `Pop` and
`CallBack` for each notifier, `Decide`, for stand-by and then for a reboot.  `off` is how
the machine went down, `prepared` whether `pm_shutdown_prepare` ran before.  A host that
sends `PM_MSG_SBY` or `PM_MSG_REBOOT` stops with it (`host = "down"`), a hung one answers
nothing more.  `due` is a history variable, the notifiers on the list when the way became
pending; `lost` notes that `SetAsked` has overwritten that the host was who asked.

The build with the ARM trusted firmware is modelled.  The console's option that bypasses the
host, `PM_MSG_APXL_REBOOT`, wake-up sources, the watchdog and the exception handlers of the
M3 itself, which reboot at once, are left out, as is a `MessageQCopy_send` of `pm_task`
that blocks because a hung host returns no buffer.

## 3. Runs

`CHECK_DEADLOCK FALSE` where the bounds on messages and calls let the system come to
rest, or where it powers down; `VirtQueue_ring` has no such bound and is checked for
deadlock.

| Run | Shows | Bounds |
|---|---|---|
| `MessageQCopy_transport` | type; each buffer in one place (`Exclusive`), none lost (`NoLeak`); the critical section excludes tasks and interrupt; a queue has room for what the interrupt takes; endpoints are owned; no ring is lost (`RingsKept`); the transport implements `RpmsgChannel` | 2 tasks, 2 buffers per vring, 2 endpoints, 2 messages of the host, 1 of the M3 |
| `MessageQCopy_wait` | the waiter count and `NO_NOTIFY`, and no buffer lost, with senders that wait with finite and infinite time-outs | 2 senders for 1 buffer, the host switches `NO_INTERRUPT` |
| `MessageQCopy_live` | every message for an endpoint that exists is read; every call leaves the critical section | as above without waiting |
| `VirtQueue_ring` | no overrun, implements `BufferRing`, a waiting sender is served | 2 slots, indexes modulo 8, unbounded traffic |
| `RpmsgInit_startup` | no task gets through early, the waiting point holds, the semaphore is passed on, the host is answered, once | 3 tasks, queue of 2, after the host's request 2 kicks and 2 further messages of the five kinds the interrupt tells apart (a second request among them), failures and repeated calls |
| `Mbox_channels` | messages both ways once and in order (`InOrder`), no unmasking lost (`ReceptionOn`) | 2 tasks on a channel each, 2 messages per channel and direction, 1 stop |
| `Mbox_free` | with channels freed and requested again, messages are received and calls end under fairness | 1 message in, 2 out |
| `I2cService_transfer` | bytes go out once and in order through chunks, refills and retries; completions and interrupts belong to a call that is under way; no freed port is worked on; calls end | 2 tasks on one port that they open and reset, writes of 3 bytes in chunks of 2 through a FIFO of 1, reads of 2 and 3 through a FIFO of 2 with threshold 1, refusals, bus errors, time-outs |
| `RpmsgMM_services` | the table has one entry per name through find, book and fill; a peer that was told so is registered; an acknowledgement wakes its own call; requests and calls end | 2 drivers with a call each, one to a peer and one to all, a peer that registers, asks and leaves again and again, 4 entries |
| `StaMM_rest` | at rest state and context agree, the gear's last position is known, a takeover is not lost; the manager comes to rest | 3 changes of the pin and services of Linux together (each service once), `rvcq` of 2, any number of frames, slow animation, failing and late camera |
| `PowerManager_down` | the host is not cut off, the notifiers run, what is pending takes the machine down | console and watchdog, 2 notifiers, a host that registers, asks, answers or hangs |
| `PowerManager_watchdog` | the code against its comment, see section 6 | the same |

Why the bounds are enough.  Two tasks and the interrupt give every pairwise interleaving
of calls, which is what the hazards are about; the start-up has three because its
interesting case needs one that starts, one that waits and one that comes late.  Two
buffers let one be queued while another is read; one buffer for two senders makes the wait
loop the normal case.  Two messages are the least that can be reordered; in the start-up a second
request and an unknown code fill the queue of 2, and the kick meets the refusal.  `Num` divides
`IdxSize`, as `vring.num` divides 2^16; with 2 and 8 the indexes wrap on every fourth round
of the slots and all differences of indexes occur.  `QueLen = NumBuf = 2` is the tight case
of the assumption `NumBuf <= QueLen` (8 and 32 in the code).  Three bytes in chunks of two
through a FIFO of one give a second chunk, a chunk that needs a refill and one that does
not; a read of two fills the FIFO to the brim under the storm
of its interrupt, and a read of three does not fit; two tasks on one port meet at both
semaphores and at the port's count.  Three changes of the pin are a change, its reversal
during the debouncing and one more while the first is treated, and two frames fill `rvcq`
before an edge comes; each service of Linux matters once, since it sets what stays set.  The
exception `failed` of `RestCamera` needs five inputs and does not occur in `StaMM_rest`; beyond
that bound the property is proved (section 4).  Two notifiers
are one that runs while the other waits; the ways down are two in the code.

Symmetry is not used: the tasks differ (one asks for a reserved endpoint, one for any).

A property of a run may be the conjunction of related ones, each with its own definition
and comment: `RingInv`, `InOrder`, `MemoryInv`, `TableInv` and `TakeoverInv` also hold the type
invariant of their module; that of `PowerManager` is proved instead (section 4).

Each property of a passing run has a mutant in `PROJECT.json`: a definition with a
plausible fault (defined next to it in the module, marked "Mutant") under which TLC finds
the property violated.

### Fairness

* `WF(Isr...)`, `SF(IsrEnter)`: the interrupt controller takes an interrupt that is pending
  and unmasked, and a handler runs to its end.  Strong fairness for the entry, since tasks
  mask and unmask again and again; the pending bit stays set meanwhile, so the interrupt is
  taken at an unmasking.
* `WF(Step(t))`: FreeRTOS runs ready tasks of equal priority in turn.
* `SF(Lock(t))` in `MessageQCopy`, `SF(Step(t))` in `Mbox`: a FreeRTOS semaphore wakes the
  longest waiter of the highest priority, so a task that waits is served, although the
  semaphore is taken and given by others again and again.  This supposes that tasks of
  higher priority do not use the semaphore without pause.
* The host: it serves its interrupts and sends the rings it owes, but need not post.  In
  `RpmsgInit` it asks, kicks and reads, since nothing starts without it; what else it sends it
  need not send.
* A call is never forced to begin, the tick is (a delay ends).
* `I2cService`: semaphores serve in turn (`SF(Transfer(t))`), the interrupt is taken, the
  controller ends a read, and a device that takes a byte once does not refuse it for ever
  (`SF(Shift(p))`), which is what the retries of `i2c_write` rely on.
* `RpmsgMM`: tasks run and get the lock in turn (`SF`), and Linux reads its answers; it need
  not acknowledge, and time-outs end.
* `StaMM`: the manager, the animation, the camera's task, `rvc_task` and Linux's request in
  `rpmsg_mm_task` go on (`WF`); the pin, the frames and Linux do as they like.
* `PowerManager`: `pm_task` and begun calls go on, the watchdog of a hung host bites, and a
  host that is up answers what it was told.

## 4. What is proved

`MessageQCopy_proofs`, for any number of tasks, buffers, endpoints and messages, from the
assumptions of `MessageQCopy` (at least one buffer, `NumBuf <= QUE_LEN`):

| Theorem | Property | Invariant it rests on |
|---|---|---|
| `TypeCorrect` | `TypeOK` | itself |
| `CriticalSectionHolds` | `CriticalSection` | `CritInv`: the property, and a masked interrupt means that some task is inside |
| `ExclusiveHolds` | `Exclusive` | the next two |
| `ExclusiveFHolds` | `ExclusiveF` | itself with `TypeOK` |
| `ExclusiveTHolds` | `ExclusiveT` | itself with `TypeOK` and the critical section |
| `RingsNeverLost` | `RingsKept` | the next two |
| `BellNeverLost` | `BellPending` | `BellInv`: the property, and a task that fills a buffer is in a send, whose last step is the ring; the slot is overwritten only when empty |
| `MailNeverLost` | `MailPending` | `MailInv`: the slot keeps the ring that is being served, and when its bit is about to be cleared a buffer offered in the meantime has another ring wanted |
| `QueueAlwaysHasRoom` | `QueueHasRoom` | `ExclusiveF` and the counting lemma `DistinctLen`: a sequence of different buffers is at most `NumBuf` long |
| `EndpointsStayOwned` | `EndpointsOwned` | `OwnInv`: the property, and a task has a handle only for an endpoint that exists |
| `NothingLeaks` | `NoLeak` | `LeakInv`: the property said of one buffer at a time, with `OwnInv` |
| `WaitersAreCounted` | `WaitersCounted` | `WaitInv`: the critical section lets one sender into the wait loop, so the count is 1 or 0 |
| `TransportIsChannel` | `ImplementsChannel` | all of the above that it needs, see below |

`TransportIsChannel` is the refinement of `RpmsgChannel`, step by step.  What waits for an
endpoint is spread over three places: the buffer its task copies from, the endpoint's
queue, and the entries of the vring with its number among those of others.  `EntriesAt`
picks the latter by their places; `EntriesAppend` and `EntriesTail` say what appending and
taking an entry do to the picked ones (`Ranks`, `RankTail`: the places keep their order and
move up by one).  With them `IsrForward` moves a message within its channel (`ForwardStep`),
`RecvTake` too (`TakeStep`), and `RecvCopy` delivers it (`CopyStep`).  Each step leans on an
invariant: what the host blanks or fills is not pending (`ExclusiveF`, `ExclusiveT`), a
task copies alone from its endpoint (`OwnInv`), and a refused message is dropped for want of
an endpoint, never for want of room (`QueueAlwaysHasRoom`), and has nothing older before it.

`RpmsgInit_proofs`, for any number of tasks, any queue length and any messages of the host:
`TypeCorrect`, `ReturnedMeansReady`, `SemaphoreKept` (from `WaitingPointHolds` and
`SemaphorePassedOn`) and the action property `HostAnsweredOnce`.  Their invariant `IInv` has four parts.  None of the
properties is inductive alone: `SemInv` (one holder of the semaphore), `StartInv` (where
each control point leaves `vRpmsgInitDone`), `OnceInv` (the channel request lets one task
through, ever, so there is one task that can answer) and `RequestInv`.  The last is the
interesting one: `VirtQueue_isr` posts "ready" for every kick while the start-up is under
way, whether or not `MessageQCopy_init` has run; the proof shows that the task still never
sees a "ready" first, because the host's request is at the head of the queue, or in the
slot with the queue empty, until it has been taken; a second request, an unknown code or a
kick with a message does not get before it.

`Mbox_proofs`, for any number of tasks and channels, mostly when every channel has one user
(`Disjoint`; `ExclusiveAllocation` in section 6 is what fails otherwise): `ReceptionStaysOn`, that is
`ReceptionOn`.  The argument is about the lost update the register invites.  `SemInv`: the
device semaphore has one holder.  `RegInv`: while a task has a copy of the mask that it is
about to write back, the copy has every bit the register has, because only stops write the
register without the semaphore and they only take bits away.  So writing back loses no bit
(`Confined`, `Others`: a step of one task leaves the other tasks' channels as they are or
enables them).  `OwnInv` and `LockInv` tie each control point to the channel's lock,
`StopInv` keeps `rx_stop` from going below zero, and `MaskInv` is the property by task.
The same copy may bring back a bit a stop has taken away: that is `StoppedMasked` in
section 6.

Under the same condition `SentInOrder` states `TxInOrder`: `mbox_send_msg` to
`mbox_os_wait_send_msg` deliver in order, also when channels are freed and requested again
(`TxInv`: what the other side has read are the first messages, the pending bit says whether
one more is written, and the task in the call knows which).  `BothInOrder` states `InOrder`,
the other direction too, for `Frees = FALSE` and `ApEarly = FALSE`, as in
`Mbox_channels`: the interrupt of a channel whose callback is not set drops the message
(`NoIrqWithoutCallback` in section 6), so for freed channels messages are lost.
`ReceivedOnce` is what remains then, with no premise on who uses which channel, on frees or
on when the other side rings: no message reaches `rx_cb` twice or behind a newer one
(`RxOnce`).  `FreshInv`: whatever waits is newer than all that was received, and the tasks
decide by masks and locks which message is served, never which is read.  No run checks
`RxOnce`: with one user it is part of `InOrder`, and what it says beyond that is proved.

`I2cService_proofs`, for any number of tasks and ports, any non-empty set of nodes, any
length, row, FIFO depth and maximal counts, from `I2cAssumption` (finitely many tasks, since
the count of users is a number; "none" is no port): `Exclusive`
(`ConfiguredForHolder`), `MemoryKept` (`MemoryInv`), `OwnCompletion` (`NoForeignCompletion`)
and `BytesInOrder` (`CompleteAndInOrder`).  One invariant proves all four.  `ListInv`,
`NodeInv` and `TaskInv` say that the list holds the open ports, each once, and that a node's
count is the number of its users, so that what a call found stays open until the call ends.
On them rests `OpenInv`: the semaphore of a port has one holder at most, and `PortOk` and
`TaskOk` say for every control point of the holder what the node, the controller, its FIFO
and the interrupts are.  `Sent` counts the bytes: what left, what is in the FIFO and what is
still to be written are the buffer, in order, whatever refills come between
(`SentShift`, `SentFill`).  For a read, `Received` says that what is still to come, what is in
the receive FIFO and what the end has taken are the buffer, and `Resting` that the FIFO is
empty when no transfer is under way, so that the end of a read finds exactly its own bytes.  A time-out on a port (`late`) takes away the bytes and the
completion, nothing else.  All of it ends when an open port leaves the list (`lost`, see
`NullOnlyIfNotOpen` in section 6): `OwnCompletion` has that premise because a port that is
lost and opened again has two nodes for one controller.  `OnePortStays` says where the
premise is met: while all tasks use one port (`OnePort`) no port is ever lost, whatever they
open and reset, since the list has one node at most; `I2cService_transfer` is such an instance.

`StaMM_proofs`, for any length of `mm_queue` and `rvc_queue` and any number of changes of the pin:
`TakeoverKept` (`TakeoverInv`), `GearKnown` (`RestGear`), `CameraAgrees` (`RestCamera`).
The last two are about rest and true there only because of what holds on the way.
`GearInv`: until a message was refused, the flag that keeps the interrupt from posting twice
is set exactly while one waits in `rvcq`, among whatever frames, and when none does
`rvc_task` has read the pin as it is.  `CameraInv`: the last of the manager's own events in
`mm_queue`, if there is one, says whether `context.running` is set, whatever other events are
before and behind it; if there is none, the event in hand or the state does (`Owes`).  The
lemma `CamTaskFrame` says that the camera's task can disturb none of this, which is why late
and missing acknowledgements do no harm here.  The premise `failed` is needed: a start that
fails with `context.running` set posts "stopped" and leaves the flag as it is.  `AskInv`
follows Linux's request from `asked` through the queue to `rvc_ax_takeover`, and `SafeInv` adds
that the camera is given up only from rest, or not at all (`stuck`).

`PowerManager_proofs`, for any number of tasks and notifiers, from `PmAssumption` (the
watchdog's task is not one of the others, a notifier has one list): `TypeCorrect`,
`HostNeverCutOff` (`HostStopped`) and `NotifiersRun` (`NotifiedFirst`).  Neither is
inductive.  `HostInv` adds that each thing `Decide` and the PMU's handler accept, an
answer or the host as who asked, is there only when the host has stopped or hangs, and that
the watchdog's call begins only then; so it does not matter whose flags overwrite whose.
`DueInv` follows a notifier that was due: it has run, or is on the list, or is the one
`pm_task` has in its hands, while the list grows at its end and shrinks at its head
(`Added`, `Taken`); a list is marked as parsed only when all that was due has run.

`VirtQueue_proofs`, for every size of the vring and of its indexes (`Num` divides
`IdxSize` and is less): `IndexesNeverOverrun` (`RingInv`) and `RingsAreFifo`
(`ImplementsBufferRing`).  `Wrap`, `SlotsDiffer` and `PosFacts` are the arithmetic: indexes
less than `Num` apart have different slots, also across the wrap, which is where `Num` must
divide `IdxSize`.  `SeqWrite`, `SeqPublish` and `SeqTake` say what a write to a slot and a
step of an index do to the sequence of entries between two indexes.  With them each access
is a step of `BufferRing` or none.  `Shared`, every buffer in one place and once, is shown
to be kept by the steps of `BufferRing` alone; by counting, who owns a buffer finds a free
slot, and that is the only reason why neither side checks for room.

`RpmsgMM_proofs`, for any number of tasks and peers and any size of the table:
`TableConsistent` (`TableInv`), `RegisteredStaysKnown` (`RegisteredIsKnown`) and
`AcksReachTheirCall` (`AcksMatch`).
`EntryInv` says that what was found under the lock still holds when it is acted upon: a
name that was not in the table is not there when it is filled in, since only its owner
writes it (`NamesDiffer`), and the entry to release still has the name of the peer that
leaves.  The second theorem is about `rpmsg_mm_task` answering a request to leave before
it releases the entry: the peer may register again in between.  `OneRequest` shows that
this request is still in the queue when the entry is released, so that it is booked anew.
In the third, an acknowledgement carries no more than the address of a semaphore on the
sender's stack; `AckInv` shows that it is enough until the first time-out: one
acknowledgement at most is on its way for a task, only while that task waits, and whatever
was sent before has been acknowledged.

Each step lemma has a step per action or group of actions with the same effect.

Every invariant and every action property of the passing runs is a theorem, and so are both
refinements.  Only model-checked are the liveness properties `Delivered`, `SemReleased`,
`SenderServed`, `HostAnswered`, `Received`, `CallsEnd` (of `Mbox` and of `I2cService`),
`Served`, `Rests` and `GoesDown`: liveness under fairness is out of the proof system's reach.
What the proofs take from the model are the cuts between its steps, which section 2
explains; and all theorems of `Mbox` but `ReceivedOnce` have premises on the use of channels,
named above.

## 5. What is not modelled

Section 1 and the components of `PROJECT.json` say what is left and why.  Within the
modelled parts: payloads, lengths and copies beyond one abstract message; the physical
addresses of buffers; tracing; `NameMap`, which sends one formatted message through
`MessageQCopy_send`; memory reordering between the two processors.

The CAN interface has no model because there is nothing to run: no code calls
`CanIf_Transmit` or `CanIf_TxConfirmation`, `Can_TxCnfOk` is empty
(`drivers/can/sta_can.c:1424`), and `can_send_frame` writes the controller's registers
directly.  A model of its queue would be one of code that never executes.

## 6. Where the code and its comments disagree

`PowerManager_watchdog` is a run that TLC must find violated, and `findings` in
`PROJECT.json` quotes the lines: the A7 watchdog's task calls `pm_reboot` for a host that
hangs and drops its result, and `pm_reboot` refuses while stand-by or a reboot is pending;
`pm_task` waits for the answer of that host, so that nothing takes the machine down.

The following definitions state what a comment says or a reader would expect, and have no
run of their own.  Each is violated when it is the one `INVARIANT` (`DoneOnce`: the one
`PROPERTY`) of the configuration named, under `Spec`, with the changes named:

| Definition | Configuration | What the code does |
|---|---|---|
| `WaitListSound` | `MessageQCopy_wait.cfg`, `NumBuf = 2`, `MaxSend = 2` | the wait loop of `MessageQCopy_send` links a task that is still linked, since `vTaskPlaceOnEventList` does not block here |
| `IsrReturns` | the same | a refused buffer is handed back from the interrupt, which rings the host, and `mbox_send_msg` never returns in interrupt context on these channels |
| `PopsOnlyWaiters` | the same | `callback_ToHost` pops a waiter for each free buffer, also from an empty list |
| `DoneOnce` | `RpmsgInit_startup.cfg`, `MayFail = FALSE`, `MaxKick = 1`, `MaxOther = 0` | a task delayed between its checks and the semaphore starts the procedure again; it fails on the channel request and keeps the semaphore |
| `QueueThere` | the same | the interrupt posts to `xQueueRpmsg` before it has been created |
| `IsrReturns` of `RpmsgInit` | `RpmsgInit_startup.cfg` | `mbox_send_msg`, which "can be used in an interrupt service routine" (`sta_mbox.c:531`), spins for ever there; the interrupt calls it to answer an echo or a hibernation request (`VirtQueue.c:180`, 193) and to give a refused buffer back |
| `KickComes` | `VirtQueue_ring.cfg` | `NO_NOTIFY` is cleared after the ring was found empty, without a second look; the sender's poll finds the buffer (`SenderServed` holds) |
| `ExclusiveAllocation` | `Mbox_channels.cfg`, `Chan = {0}`, `Wants <- Shared`, `Sends <- Quiet`, `MaxTx = MaxRx = MaxStop = 0`, `Tries = 1` | two tasks get the same channel, and the second request forgets the channel's lock |
| `StoppedMasked` | `Mbox_channels.cfg`, `Sends <- Quiet`, `MaxTx = MaxRx = 0`, `MaxStop = 1`, `Tries = 1` | enabling one channel writes back the mask of another one that has been stopped meanwhile |
| `ErrorMeansNotSent` | `Mbox_channels.cfg` | the last of the tries is reported as failed although it sent the message |
| `NoIrqWithoutCallback` | `Mbox_free.cfg` | a lock's interrupt is enabled before its callback and cookie are set |
| `NullOnlyIfNotOpen` | `I2cService_transfer.cfg`, `Ports = {p1, p2}`, `Nodes = {1, 2}`, `Uses <- Apart` | `i2c_open_port` does not set the old head's `prev`; resetting an older port drops the newer ones from the list |
| `ReadDrains` | `I2cService_transfer.cfg` | the branch of the callback that empties the receive FIFO and goes on with the read is shadowed (`sta_i2c_service.c:128`, 151): a read longer than the FIFO leaves the M3 in the interrupt for ever; most drivers read one byte, `sta_acc.c:181` reads what it is asked for |
| `LockedMeansAcked` | `RpmsgMM_services.cfg` | a resource nobody has registered for, and a late acknowledgement of an earlier call, both return 0 |
| `SentToReceivers` | `RpmsgMM_services.cfg` | a message goes to an entry that has been released or booked for another name in between; a booked entry counts as an application |
| `FreedUnused` | `StaMM_rest.cfg` | the animation's file is freed after a second, whether or not the decoder has ended |
| `RestOne`, `RestAnim`, `RestGearCam` | `StaMM_rest.cfg`, `MaxInputs = 4`, `MayFail = FALSE`, `Slow = FALSE` | the manager's own events and the animation's come in an order the state machine has no transition for: the animation runs beside the camera, or in state `IDLE`, or the camera stays on without the gear |
| `NotStuck` | `StaMM_rest.cfg` | `cam_deinit_rear_camera` stops a camera that runs with `g_mutex_synchro` taken, which `cam_stop_rear_camera` takes again (`sta_cam.c:1534`, 1538, 1691): when a start was acknowledged too late, the camera runs with `context.running` clear, and Linux's takeover blocks the manager for ever |
| `RunningOngoing` | `StaMM_rest.cfg` | a start that times out is not taken back, so the camera runs later with `context.running` clear (`sta_rvc_test.c:187` calls it "RVC actually on-going"); a camera without warm-up or layer does not run with it set |
| `NoFault` | `StaMM_rest.cfg` | the animation is started, or gives its last semaphore, after the semaphore has been deleted |
| `DdrKept` | `PowerManager_down.cfg` | the PMU's handler enters stand-by without `pm_shutdown_prepare`, also after a suspend that left the magic for a resume |
| `AllNotified` | `PowerManager_down.cfg` | a notifier that registers while the list is being parsed, or when it is empty in the PMU's handler, does not run |
| `NeverForgotten` | `PowerManager_down.cfg` | a task between its two assignments overwrites that the host had asked |

Two disagreements are exceptions within a property.  `RestGear` holds `\/ dropped`:
`rvc_rear_gear_hdl` sets its flag before it sends (`sta_rvc_test.c:728`, 730), and when the
queue is full of frames, because `rvc_task` has been kept for 20 of them, the message is
refused, the flag stays set and no edge is handled any more.  `RestCamera` holds `\/ failed`:
a start that finds the camera still stopping returns 0 and sets `context.running`, the camera
comes to rest all the same, and when the next start fails the flag stays set in state `IDLE`.
Without `\/ failed` TLC finds it violated in `StaMM_rest.cfg` with `MaxInputs = 5`,
`RvcLen = 1`, `Slow = FALSE`.

The liveness properties of `RpmsgInit`, `Mbox`, `RpmsgMM` and `StaMM` exclude the executions
that end in such a fault (`\/ fault`).  `HostAnswered` also excludes those in which the interrupt
is stuck or a kick was refused by a queue full of requests, `Rests` those in which the manager
waits for itself, `CallsEnd` of `I2cService` those in which a call has kept its semaphores, a
port that has left the list is used, or a read is longer than the FIFO, and `GoesDown` of `PowerManager` those in which who asked was
overwritten.  The transport's runs keep the wait list's faults apart from what
they check: `MessageQCopy_wait` lets them happen and checks what must hold all the same.

## 7. Plan

Done: 1 `MessageQCopy`, 2 `VirtQueue`, 3 `RpmsgInit`, 4 `Mbox`, 5 `I2cService`,
6 `RpmsgMM`, 7 `StaMM`, 8 `PowerManager`.  `CanIf` was planned and dropped (section 5).
Next:

9. `SpiService`: it shares its structure with `I2cService`; what differs are DMA and the
   chip selects.
10. Remote devices, audio, gpio: the queue of three and its dropped requests, the order of
    announcement and use.
11. The flash loader's byte protocol, the parameter store and the J1939 tables of the
    display.

Theorems to come: with each new module, its invariants; for the modules there are, that
`Mbox` with one channel implements the slot and mask bit `MessageQCopy` uses, and what can
be said of `I2cService` after a port was lost.
