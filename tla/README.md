# A TLA+ model of the AIC8800 USB Wi-Fi driver

The repository holds a Linux driver for USB dongles with an AIC8800 chip. The
chip runs its own firmware; the driver loads it (`aic_load_fw`) and then talks
to it (`aic8800_fdrv`): configuration travels as request and confirmation
messages, data as frames, both over bulk endpoints. This directory models the
parts in which several contexts (system calls, tasklets, workqueues, timers,
kernel threads, URB completion handlers, the firmware) share state, and the
sequences that can fail half way: loading, bringing up, configuring, removing.
The configuration is the one the Makefile builds: USB bus, receive reordering,
TCP ACK filter and ARP offload on, separate endpoints for messages. Where a part
depends on an option or a module parameter both settings are explored:
`CONFIG_RADAR_OR_IR_DETECT`, which the Makefile leaves off, in Radar, and mesh,
which the parameter `mesh` allows by default.

`PROJECT.json` lists components, runs, mutants, the source lines behind each
definition, findings, hazards and theorems. Paths below are relative to
`src/drivers/aic8800/aic8800_fdrv/` unless they begin with `aic_load_fw`.

## 1. The system

| Part | State | Operations and contexts | What is hard |
|---|---|---|---|
| Command manager (`rwnx_cmds.c`) | pool of descriptors, list of commands, `queue_sz`, flags per command, wake lock | `rwnx_send_msg` by any thread, `cmd_mgr_task_process` by a workqueue, confirmations from the message thread, timeouts, suspend, drain at disconnect | callers, work and confirmations interleave; a timeout races a late answer; one confirmation is matched by its identifier |
| Message transmission (`rwnx_msg_tx.c`, `lmac_msg.h`) | a buffer per request, the place for its answer | some ninety request builders | early returns and refused sends leave buffers to nobody; layouts differ by chip |
| USB transmission (`aicwf_usb.c`, `aicwf_txrxif.c`) | free list and post list of buffers, `tbusy`, `bustx_trgg` | sender, transmit thread, completion handler, suspend and resume | flow control at the water marks; triggers counted while the bus is down; failing submissions |
| USB reception (`aicwf_usb.c`, `aicwf_txrxif.c`) | free list, URBs in flight, `rxq`, `rx_cnt`, `busrx_trgg` | completion handler, two receive threads, resubmission, suspend and resume | the thread is woken only when a counter becomes 1; queue at its limit; no memory |
| Receive data path (`rwnx_rx.c`) | partial frames with a timer each | receive thread, timers, teardown | one frame goes to monitor, host and air; timer, completion and teardown free the same entry |
| Receive reordering (`aicwf_txrxif.c`, `rwnx_rx.c`) | per station and TID: sorted list, `ind_sn`, timer; pool of `recv_msdu` | receive thread, timer, worker, end of session, station leaves | sequence numbers wrap; timer, worker and teardown race |
| Transmit queues and power save (`rwnx_txq.c`, `rwnx_tx.c`, `rwnx_msg_rx.c`, `rwnx_main.c`) | per station and TID: frames, stop bits, credits, push limit, link on a hardware queue; per station: power-save counters | senders, tasklet, indications of the firmware, confirmations, addition and removal of stations | five reasons to stop a queue; counters kept in many places; a station goes while frames are sent |
| Transmit path and confirmation ring (`rwnx_tx.c`, `usb_host.c`) | ring of frames waiting for a confirmation, identifiers that wrap | network stack, transmit thread, receive thread | the ring wraps without a test; a station changes between the choice of a queue and the push |
| TCP ACK filter (`aicwf_tcp_ack.c`) | table of slots with one held ACK each, timers | transmit path on each network queue, timers, receive thread, removal | a held frame changes owner between three contexts; 32-bit wrap; slots are reused |
| Virtual interfaces (`rwnx_main.c`) | `vif_table`, `vif_started`, `avail_idx_map`, the P2P device and its timer | cfg80211 and netdev operations under rtnl, a timer callback | the table is indexed by the firmware's number; the timer overlaps operations that sleep |
| Connection and scan (`rwnx_main.c`, `rwnx_msg_rx.c`) | `drv_conn_state`, `is_roam`, current access point, scan request | connect, disconnect, scan, close; indications in the receive thread | both sides write the state; requests fail after it was changed |
| Channel contexts (`rwnx_main.c`, `rwnx_msg_rx.c`, `rwnx_radar.c`) | context per interface with counts, `cur_chanctx`, announcements, availability check | operations, indications, two work items | counts follow eight operations; a channel switch is handled without a lock; work items outlive what they work on |
| Stations of an access point (`rwnx_main.c`, `rwnx_msg_rx.c`) | station table, `adding_sta`, lost station, probe and cookie | operations, indications, two work items | an indication about a station that is being added; one slot for a lost station and one for a probe |
| Remain on channel and keys (`rwnx_main.c`, `rwnx_msg_rx.c`) | `roc_elem`, cookie counter, off-channel queue; numbers of the firmware's keys | operations, indications | the expiry may come before the cookie is read; cookies wrap |
| Mesh (`rwnx_main.c`, `rwnx_mesh.c`, `rwnx_msg_rx.c`, `rwnx_tx.c`) | peers, paths, proxies, power modes | operations, indications, lookups by the transmit path | lists without a lock; power mode follows links that come by indication |
| Radar detection (`rwnx_radar.c`) | ring of pulses, detectors, status, region | receive thread, work | patterns with jitter, a ring that wraps, a region that changes |
| User configuration (`rwnx_platform.c`, `aicwf_compat_8800*.c`, `aic_load_fw`) | global tables of power, offset, loss and calibration | parsers that read a character at a time, request builders | signs, comments, repeated and unknown keys; tables survive the device |
| Bring-up (`aicwf_usb.c`, `rwnx_main.c`, `rwnx_platform.c`) | what the probe has taken, chip numbers, `g_rwnx_plat` | probe and its labels, for each product and mode; two devices | every step may fail; globals are shared by devices |
| Removal (`aicwf_usb.c`, `rwnx_platform.c`) | a semaphore and two flags | disconnect, error callback, suspend, module exit | a semaphore taken in interrupt context, timeouts that are ignored |
| Firmware loader (`aic_load_fw`) | `fw_loaded`, device in ROM or firmware, its own command manager and URBs | probe, downloads, disconnect; completion handler, work, thread | a command that is not answered counts as a success; the device comes back as another |

How they meet. The **loader** downloads firmware and the device returns with the
product number of the main driver, whose **bring-up** configures it with what the
**user configuration** says. A frame from the network stack goes through the
**TCP ACK filter**; the **transmit path** chooses a **transmit queue** (for a
**mesh** by its paths), pushes it from there with a number from the confirmation
ring, and **USB transmission** carries it; USB flow control stops the netdev
queues (`aicwf_usb_tx_flowctrl`), which is the `BusBusy` action of TxQueue. What
arrives goes through **USB reception**; data frames go to the **receive data
path** and **reordering**, messages to the **command manager** (confirmations) or
to the indication handlers, which are actions of the module whose state they
change. A cfg80211 call sends commands through the **builders** and the command
manager and sleeps; while it does, the receive thread handles indications. That
overlap is what **Vif**, **Conn**, **Chan**, **Sta**, **Roc** and **Mesh** are about.

What makes each part correct:

* command manager: a descriptor has one owner; commands are pushed in order and
  one at a time; an answer reaches its own caller; every call returns;
* builders: a buffer is freed once, an answer is there when it is used and has
  the layout the firmware gave it;
* USB queues: a buffer is in exactly one place; no trigger is lost; order is
  kept; flow control ends;
* receive path and reordering: a frame reaches each destination once, fragments
  are joined in order, frames go up in the transmitter's order, what is held is
  bounded and released;
* transmit queues and path: list and flag agree; counters equal what is buffered;
  no frame is stranded on a running queue; a sleeping station gets its frames; a
  confirmation finds its frame, which is released once;
* ACK filter: a held ACK is timed; only superfluous ACKs are dropped; no buffer
  leaks or is freed twice;
* control (interfaces, connection, channels, stations, stays, mesh): what the
  driver believes is what the firmware has and what the kernel was told, once the
  indications in flight are read;
* loading, bring-up, removal: everything taken is released once on every path, and
  a device in use has all the steps its product and mode need.

## 2. How the project is ordered

First the data paths: CmdMgr, UsbTx, UsbRx, RxReorder with ReorderWindow, TcpAck
and TxQueue, each with its own instance and proofs about it. Then the
control side: Vif, Conn, Chan, Sta, Roc and Mesh with the builders MsgTx/MsgIds;
then life and death of the device: LoadFw, LoadBus, Bringup, Removal, UserConf;
then the rest of the data path: RxData, TxPath, Radar. ReorderWindow is an
abstract specification that RxReorder implements. Composition is by what a module
takes for granted of its neighbours: CmdMgr's work and callers appear in the
modules above it as operations that sleep and may fail, TxQueue leaves the lists
of USB buffers to UsbTx, TxPath the order of the queues to TxQueue, and MCParts
puts the modules of the control side beside each other.

What could come next: an abstract specification of the command manager (a serialiser
of request and answer); TxQueue and UsbTx composed over the flow-control flag.

## 3. Modules and code

Each section under a lock is one action; where the code releases a lock, sleeps
or calls out, the action ends. Local variables that live across such a point are
variables of the model (`pc`, `xpc`, `conn_op`, `sta_op`, ...). Definitions whose
comment begins with "Mutant" or "Mutated form" are not part of any specification:
each is a plausible error that replaces the definition after it to show that a
property would notice.

**Named events.** The code does not survive everything. Where an order of steps
leaves driver and firmware apart for good, frees something in use or leaks it, the
module of the second group below records the event by name in its set `...upset`
(`mishap` in MsgTx). Its properties speak of what happens up to the first of them,
and each event has a line in the module's header (in RxData, Radar, TxPath and
UserConf: at the action) that says what it is. So a property of such a module reads
"this holds unless one of these happens", and the list of events is the other half
of the result.

*Data paths.*

**CmdMgr**. `Send` is `rwnx_send_msg` up to `cmd_mgr_queue`; `CallerStep` the
rest of the call (enqueue, push, wait, remove, wake the work, free); `WorkStep`
is `cmd_mgr_task_process`; `Confirm` is `cmd_mgr_msgind`; `BusStep` suspend,
disconnect and drain. `Kinds` are the kinds of message the builders in
`rwnx_msg_tx.c` send: with an answer, without, always deferred, and without
confirmation. A timeout is a step of a waiting caller that may come at any time,
so a late answer races it. A caller with a buffer that finds the manager crashed
while it polls for an empty list leaves without the lock and unlocks it; in the model
it just returns, and that the lock excludes others is assumed afterwards as before.

**UsbTx**. The sender takes a buffer, posts it, triggers the thread and looks at
the high water mark; the thread dequeues and submits; the completion handler
returns the buffer and looks at the low one. `gone` is an unplugged device,
`MayFail` a submission that fails. `PowerStep` follows suspend and resume,
including the loop of `aicwf_usb_tx_prepare` that empties the post list.

**UsbRx**. One module for both pipes: the data pipe wakes its thread when
`rx_cnt` has become 1, the message pipe for every message. The submit loop runs
in the completion handler and in resume at once. The variables `pipe` and
`faults` are chosen in Init and never change: which pipe a behaviour is about and
which of the faults (a submission fails, the thread finds no memory, the system
suspends) may happen in it, so that each property can say under which faults it
holds and one run covers them all.

**RxReorder** and **ReorderWindow**. RxReorder has the window arithmetic on
sequence numbers of 2*Half values, the list, timer, handler and worker, session
end, and `reord_deinit_sta` step by step. The return of `reord_process_unit` for other
types of interface is left out: its callers are the branches for stations, P2P clients,
access points and group owners. ReorderWindow states the promise with
unbounded numbers: at most W - 1 frames are held and frames go up in order.
`Mapped` in MCRxReorder maps `next` to the number behind `ind_sn`, `held` to the
numbers on the list.

**TcpAck**. `StartXmit` and `XmitStep` are `rwnx_start_xmit` and
`filter_send_tcp_ack` on one network queue; `TimerStep` the slot's timer;
`FilterRx` the quick-ACK path of reception; `Elapse` the passing of four seconds;
`RemoveStep` `tcp_ack_deinit`. A seqlock read may be retried. The variable `last`,
chosen in Init, says how many ACK numbers each connection sends: one long
connection or two short ones that compete for a slot.

**TxQueue**. One station. `Xmit` finds the queue active, `QueueSkb` takes
`tx_lock`, queues the frame and walks the hardware queue; a walk
(`rwnx_hwq_process`) is a sequence of `WalkActive` and `WalkInactive` steps under
the lock. `Task` is the tasklet. `PsInd`, `TrafficReq`, `Interrupt`, `VifStop`,
`VifBack`, `CsaEnd`, `CsaFinish`, `CreditUpdate` are the firmware's indications,
`Confirm` and `Retry` its confirmations, `DelStation`, `Deinit`, `Flush`,
`AddStation`, `StaInit`, `LinkStation`, `Added` the life of the station.
The variable `events`, chosen in Init from `Scenarios`, says which groups of
events a behaviour meets, and `ps_id` which queues deliver by U-APSD and which by
legacy power save. Three of the events are departures of this build from what its
comments speak of: confirmations handled without `tx_lock` ("unlocked"), message
handlers without `cb_lock` ("nocb"), and traffic requests for a station that is
still being added ("early"). A property that depends on one of them says so
(`Without`); what "unlocked" does to the lists is the run txq_cfm.

**RxData**. `rwnx_rxdataind_aicwf` for one frame: a monitor interface with its
radiotap header, management frames, the three ways through an access point (host,
air, both), A-MSDUs, VLANs, the reorder buffer. `outcome` records where each
buffer went, so that a property can say once. The partial frames have entries
with timers; `ArmTimer`, `TimerFires`, `defrag_timeout_cb` and the steps of
`rwnx_cfg80211_deinit` interleave with the receive thread.

**TxPath**. One frame after another from `rwnx_select_txq` over `rwnx_start_xmit`,
`intf_tx` and `rwnx_start_mgmt_xmit` to `rwnx_tx_push`, the copy on the bus and
`aicwf_usb_host_tx_cfm_handler`. Stations leave and come between the steps; the
ring `tx_host_id` has `USB_TXDESC_CNT` slots and an index that starts again at
`IndexWrap`.

**Radar**. Pulses with a gap, a frequency offset and a length are put into the
ring of `PulseMax` by the receive thread and taken by the work, which feeds the
detectors of the region (`pde_short_add_pulse`, `pde_long_add_pulse`, with the
pattern tables of the code). Checks, stations and changes of region move the
status that decides whether anybody listens.

*Control.*

**Vif**. `vif_op` is the kernel's operation under way (rtnl allows one),
`alive_cb` the callback of `p2p_alive_timer`; `fw_vifs` is the firmware's set of
interfaces. An operation that sends a command is split there.

**Conn**. The operations and `rwnx_close` on one side, the firmware's joining,
leaving and scanning with the queue `conn_msgs` of indications on the other;
`told` is what cfg80211 was told. A connect while a connection is made or ended
(`ConnectIgnored`) does nothing but write `is_roam`; that is not harmless when the
connection that is ended is roaming, which is the other half of the event "again".

**Chan**. `rwnx_chanctx_link` and `unlink` as used by opening, starting, stopping,
connecting, monitoring and mesh; `switching` splits the channel switch of the
receive thread; `csa` has the announcement of each access point with its work
item, `cac_work` the work of the availability check. Leaving a mesh unlinks it and
then ends whatever check is running, also that of an access point (`LeaveCancels`).

**Sta**. `sta_op` is the operation under way, `loss_work` and `probe_work` the two
work items, `sta_msgs` the indications in flight; `fw_stas` and `fw_asleep` are
what the firmware has. The firmware may lose a station at any time; a loss handled
before the driver has listed the station finds nothing, which is the event "missed".

**Roc**. `roc_elem` with the operation that makes it, the indications that start
and end the stay, and the cookie that cfg80211 gets, which wraps after
`MaxCookie`. The keys (`key_hw`, `fw_keys`) are in the same module because they
follow the same pattern: a number of the firmware kept by the driver.

**Mesh**. `mesh_op` is the operation under way, `lookup` the path and proxy a
frame has found, `mesh_msgs` the indications. `Concerns` chooses what a behaviour
is about, since links, paths, proxies and power modes all at once are out of
reach. A mesh may be left in any state; what stays behind in the driver is the event
"left".

**MsgTx** and **MsgIds**. A builder is a sequence of steps (allocate, send, free,
return) that depends on the chip and the build; `MsgIds` has the identifiers in
the order of `lmac_msg.h` and the tables of handlers. `buf` says what became of
each buffer, `answer` what the firmware confirmed last and in which layout, `owed`
which answers a send has left the builder without although it returned 0. A send is
refused, deferred, confirmed, times out, or its wait is ended by a fatal signal or by
the drain, which `cmd_mgr_queue` does not tell from a confirmation (the mishap
"killed"); the worker pushes what is deferred, or the drain drops it ("drained"). That
no builder reads an answer it has not got rests on which requests are deferred: one
whose answer is copied has waited for an empty queue and is not among the two that are
always deferred.

*Loading, bringing up, removing.*

**LoadFw**. The loader's probe, the choice by product, revision and mode, every
download as its files, tables and commands in their order, the reboot of a device
that runs foreign firmware, disconnect. `truth` and `mem` are what the device
really is and has. A command may be answered, time out, or be given up at a fatal
signal, which the loader too takes for a success (the event "killed"). **LoadBus** is what one of these commands goes through: caller,
message URB, receive URBs, completion handler, work, thread, teardown.

**Bringup**. `todo` is the rest of the sequence of `aicwf_usb_probe` and what it
calls, `taken` what it holds; a failure replaces `todo` by the label's sequence.
Two devices share `g_rwnx_plat` and the chip numbers. A command is answered, times
out and ends the manager, fails for lack of memory, or its wait is ended by a signal:
then the sequence goes on and a value that was to be read is whatever the stack holds
(`Killed`). `lost_cmd` remembers the last two; after it InUseConfigured claims nothing.

**Removal**. `aicwf_deinit_sem` and its flags, with the error callback (`cb`),
disconnect, suspend, resume and module exit as processes. Testing
`wait_disconnect_cb`, setting `aicwf_deinit_atomic` and taking the semaphore are steps
of their own on either side: a callback that takes it between the test and the `down()`
of disconnect leaves both asleep (the event "robbed"), and a counter that module exit
has set again while disconnect slept lets a later callback wait for it ("stale").

**UserConf**. The parser as a fold over the characters of a file, where a key's
name is one character; the tables are functions on their cells, and the requests
that carry them are compared with what the lines of the file mean.

**MCParts** puts fifteen of these modules, and TxQueue, beside each other: the
variable `which` says which of them a behaviour follows, and the variables of the
others keep their initial values. It extends Sta, Roc, LoadBus, Vif, Conn and Chan, whose
properties are also proved, and instantiates the others, of which nine take turns in
the variables `x1` to `x21`.

**Null** declares the null value that twelve of the modules share.

## 4. Runs

Deadlock is not checked: senders stop at the bound on frames, and the driver
may be idle for ever. Symmetry is used where callers are interchangeable and no
liveness is checked.

| Run | Instance | Shows |
|---|---|---|
| cmd_safe | 2 callers, pool 2, queue 2, 3 sends, kills, suspend, disconnect | DescriptorsSound: one owner, list, count and wake lock agree; OneInFlight: in order and one at a time; CopyToLive: answers only into live buffers |
| cmd_live | 2 callers, pool 5, queue 2, 3 sends, fair | AnswersSound: own answers, one pusher; SendReturns; DeferredIsPushed |
| usb_tx | 3 buffers, marks 1 and 2, 3 frames, all faults, fair | OnePlace, InOrder, FlowReopens, ThreadServes |
| usb_rx | both pipes, 3 URBs, queue of 2, 3 frames, every set of faults, fair | BuffersSound: none lost, none starved; NoLostWakeup; AllHandled |
| reorder | window: 16 numbers, window 4, 18 frames, fair; teardown: 10 numbers, pool 3, 8 frames | Promise_w: refinement of ReorderWindow; Released_w: no frame held for ever; HeldSound_wt: no `recv_msdu` lost, no frame without a timer |
| tcpack | 1 connection of 5 or 2 of 2 and 1 ACKs, 1 slot, wrap at 4, fair | AcksSound: owners, newest kept, all released; AckGetsOut: every number is acknowledged |
| txq | 2 data queues on 2 hardware queues, one of them U-APSD, 2 credits, 3 frames, 11 scenarios | QueuesSound: schedule, assertions, counters, stop bits; ServedRightly: no frame and no netdev queue left behind, nobody served who may not be; InOrder |
| parts | fifteen modules, one per behaviour, bounds below | VifSound, ConnSound, ChanSound, StaSound, RocSound, MeshSound: driver, firmware and kernel agree; MessagesSound, LoadSound, LoadBusSound, BringupSound, RemovalSound: what is taken is released once, a device in use has what it needs; RadarSound, RxDataSound, UserConfSound, TxPathSound: pulses, frames and lines have the effect they should |
| parts_live | Conn, Chan, Sta and TxQueue, fair | Settles: a connection that is being made or ended settles; CsaEnds: an announcement ends; LostIsDeleted: a lost station is deleted; PollDelivers: a polling station gets its frames |
| cmd_wakeup (violation) | 3 callers, always-deferred messages, fair | two callers both leave the waking to the other |
| usb_tx_resume (violation) | suspend, no failures, fair | the thread has left; frames after resume wait |
| txq_cfm (violation) | confirmations without `tx_lock` | one queue is linked twice |

The scenarios of txq are {ps, busy}, {ps, stop}, {ps, interrupt, csa, stop},
{cfm, retry, ps}, {cfm, ps, unlocked}, {cfm, retry, stop, unlocked},
{cfm, retry, stop, wrap}, {ps, life, early, nocb}, {stop, life},
{cfm, retry, life} and {ps, life}; in parts_live {ps, busy} and {ps, cfm, retry}
with one hardware queue and one credit.

The instance of parts, and why it is large enough:

* Vif: two interface numbers and one VLAN, so that the table is full after two; the
  P2P timer counts to 2.
* Conn: at most 3 indications in flight, more than one operation can cause.
* Chan: access point and station, station and monitor, or access point and mesh
  together on two channels, one of them a radar channel; 2 indications in flight
  (1 in parts_live, with access point and station). Two interfaces are what a shared
  context needs.
* Sta: 2 stations (one lost, probed or deleted while the other is added), 2
  indications in flight and 2 probes (none in parts_live).
* Roc: 2 interfaces, 2 channels, a cookie that wraps after 3, 2 places for keys and
  2 keys of the firmware.
* MsgTx: every builder on every chip, on a bus that is up or down, each send
  answered, refused, deferred, timed out, killed or drained.
* LoadFw, LoadBus, Bringup: every product, revision and mode; 2 receive buffers, a
  queue of 2, 2 commands; 2 devices.
* Radar: three situations: up to 5 pulses of a short pattern with jitter in
  frequency, up to 5 of a weather pattern, and one pulse amid changes of region,
  checks and stations. A pulse is fed only while it can still add to a pattern
  (`Worthwhile`). The ring holds 2, so it wraps.
* RxData: one frame of every kind (format, antennas, destination, VLAN, A-MSDU) with
  failing calls; 3 fragments of two senders with failing calls; 6 fragments of two
  frames, lost and repeated; isolated stations.
* UserConf: for each chip, every key with every shape of line (signs, comments,
  blanks, values too big, no newline at the end, ...), and pairs of lines of a few
  keys; two devices one after the other, since tables survive.
* TxPath: every priority with every set of admission bits; stations that come and
  go; a ring of 2 slots with failing calls, and with 3 frames so that it is lapped;
  every kind of interface.
* Mesh: two links with power modes; a path that changes hops; two paths through one
  peer; a slot that changes hands; proxies.

Why the other bounds are enough. Each is a small multiple of the number of
parties that can differ: three callers give one that pushes, one that waits and
one that arrives; three buffers one on each list; queue limits are chosen so that
they are hit (QMax below MaxFrames, FlowStop below MaxFrames, a pool smaller than
the demand). Number spaces are small so that they wrap in the run: 16 sequence
numbers for 4096, 4 ACK numbers for 2^32, credits of -4..3 for an s8 where the
wrap is the point. The relation that matters is kept: the window is at most half
the space, FlowStop = FlowRestart as in the code, Credits below the end of the
s8, IndexWrap a multiple of the ring. Every constant whose name begins with Max,
and NMsgs, CntCap, Retries, Scenarios, RxScripts, TpScripts, Radars, Concerns and
Together are bounds of the model and of nothing in the code.

The management queue of a station is a queue of TxQueue that no traffic request
reaches (`Tids` beyond `Prio`); the instances leave it out. Events of TxQueue are
split over scenarios because their product is out of reach;
the interplay of a busy bus with retries or with the life of a station is not
explored. tcpack has one network queue: with two, `tcp_ack_alloc_index` can give
one slot to two connections (the scan and the taking are not one step) and the
held ACK of the first is replaced by the other's, which the repository nowhere
excludes. The modules of MCParts do not run against each other: what one does to
another is an operation that the other may see at any time.

## 5. Fairness

Weak fairness on steps that the kernel guarantees: a runnable thread, a queued
work item, a scheduled tasklet, an expired timer and a pending completion run; a
context that holds or waits for a spin lock goes on; an operation whose command
was answered returns. Strong fairness only where a step waits for indications that
are in flight and new ones can keep coming: the ends of adding, deleting and
losing a station (Sta), the announcement's work item behind the operation in
progress and the firmware's count down to it (Chan). Of the firmware it is assumed
in parts_live that it ends a join, a leave, a scan and an announcement it was asked
for, in usb_tx that the controller completes a URB it was given, and for
PollDelivers that a station that sleeps polls as long as it is told that frames
wait. Suspending, unplugging, failing and sending are never fair. A confirmation
is never assumed to come in cmd_live: callers of the command manager have their
timeout. A caller with a buffer for the answer polls until the list is empty, and
nothing in the code keeps other callers from filling it again each time: that its poll
ends, in SendReturns, is owed to `MaxSends`, which bounds the traffic. The property is
about commands that nobody pushes, not about a queue that is kept full.

## 6. Findings

Each is a disagreement between the code and a comment, assertion or test of the
repository, shown by a violation run:

* cmd_wakeup: two callers read `queue_sz` after the unlock and neither wakes the
  work; a caller that waits for the list to become empty waits for ever.
* usb_tx_resume: the transmit thread ends at a trigger while the bus is down, and
  resume does not start it again.
* txq_cfm: `rwnx_txdatacfm`, "called with tx_lock hold", is called without, and a
  queue is linked twice.

Other behaviours the models exhibit contradict nothing the repository says. Those
of the data paths are recorded under `hazards` with the properties' exceptions:
pool exhaustion and the double `list_del` after a drain in CmdMgr, a dequeue
without a test in `aicwf_usb_tx_prepare`, the message pipe losing buffers when its
queue is full, a reorder control freed under its users, frames left on the queue
of a removed station, credits that retries push over the end of an s8. Those of
the other modules are the named events of section 3, among them: a failed request
that leaves `adding_sta` set, an expiry that comes before the cookie is read, an
announcement freed while its work item is queued, a refused send whose buffer
nobody frees, a loader command that times out and counts as a success, a wiphy
that stays behind when two devices share `g_rwnx_plat`, a ring of host identifiers
that is lapped, a mesh path freed while a frame uses it, a request whose waiting
caller is killed and that counts as confirmed, a receive callback and a disconnect that
wait for each other, a connect that makes the driver forget that it roams.

## 7. Proofs

Checked by TLAPS for every value of the constants, from the named assumptions
only (sizes are natural numbers, the null values are not members).

**CmdMgrProofs**: TypeCorrect, ListIsSound, OwnersAreUnique, DescriptorsAreSound
(the three together, which is the run's property), OneInFlightAlways,
CopiesAreLive, AnswersAreOwn. Only the type invariant is inductive as it stands. IInv says,
for each place a caller and the work can be at, whether its descriptor is on the
list, allocated and shared with nobody; that the work's command is the head of
the list; that everything behind a waiting command waits; and that `queue_sz` is
the length of the list until it is drained. Most of it holds until a timeout or a
disconnect (`Up`), so the step lemmas are stated under `Up`, one per action.
AnswersAreOwn, that AnswersSound holds unless a wait can be ended by a fatal signal
(`MayKill`), adds what the firmware owes: at most one answer, to the command that
somebody waits for and whose identifier and token it carries, so that
`cmd_mgr_msgind` cannot take it for another's although it looks only at the
identifier.

**UsbTxProofs**: TypeCorrect, OnePlaceTheorem, InOrderTheorem. IInv adds that the
five places are disjoint and together everything, that the locals hold a buffer
exactly between taking and passing it on, and that frame numbers grow along the
path from the wire to the sender; order is an action property that follows from
the last part.

**UsbRxProofs**: CountTheorem, for a thread that finds memory; WakeupTheorem,
for the message pipe even without memory and for the data pipe with it;
BuffersTheorem, that BuffersSound is an invariant.
The wake-up rests on `rx_cnt` being 1: IInv ties the counter to the length of the
queue and adds `Alone`, that the frame whose handler is on its way to the wake-up
is the only one. BufInv keeps the places of a buffer apart from each other
(`Apart`), says at which step a context holds one (`Hands`), and that the free list
is empty while URBs are out and nobody is submitting (`FreeOut`), which is why the
device is never left without one.

**ReorderWindowProofs**: BoundedTheorem, OrderedTheorem, for sizes that are positive
natural numbers (`Sizes`, a hypothesis of each theorem). The window bounds what
is held and everything passed up lies before it.

**RxReorderProofs**: HeldTheorem, that HeldSound is an invariant, with or without
flushes, teardown and suspension; PromiseTheorem, that RxReorder implements
ReorderWindow while no station leaves (`~MayDeinit`); OrderTheorem, which carries
OrderedTheorem over to the code: frames go up in the transmitter's order however
often the sequence number wraps. The sizes are any that leave the comparison of
`SN_LESS` unambiguous: the window is smaller than half the sequence space
(`AICWF_REORDER_WINSIZE` is 64, half the space 2048; at equality `reord_rxframes_ind`
could take the first frame it holds for one that is still ahead), and a frame lies
at most `Reach` outside the window, with W + Reach at most half the space
(`Sendable`, an assumption about the transmitter that every arrival is subject to).
The argument has
three layers. Two numbers less than half the space apart compare as their sequence
numbers do (LessIs), so that `reord_need_check` and the insertion do in sequence
numbers what is meant in numbers (NeedCheck, AddedIs). The loop of
`reord_rxframes_process` ends at the first number that is missing, and exactly what
lies before it leaves (ProcessRuns, LeavingIs, Released); the loop is a recursive
function, whose existence and invariant are proved from well-foundedness of the
natural numbers, with the property given as a set (SetInduction). And IInv keeps
what makes the comparisons right: while no station is being removed, a control in
use has all held frames in order and within its window, and the frame in the receive
thread's hands comparable with them even after the worker moved the window
meanwhile (`Window`); a disabled control holds nothing, so that a station may start
anew (`Settled`). TLC checked IInv on both instances of run reorder. With teardown
the refinement is not claimed: a control that is freed under its users and made
again starts its numbers anew.

**PartsProofs**, stations: StaIsSound, that StaSound is an invariant of StaSpec, for any set
of stations and any number of indications and probes in flight, without a
hypothesis. StaSound speaks of what the driver knows once the indications are
read, which says nothing while some are in flight. `Sleep`, the part that makes it
inductive, therefore speaks of the queue: the last indication in flight about a
station carries the firmware's state of it, and where there is none the driver's
state is the firmware's, also for a station that is confirmed and not yet listed.
`Apart` keeps the station being added apart from those that are deleted, and
`Probe` ties the probe's work item to its station and cookie. After one of the
events nothing is claimed, so each step lemma assumes that none has happened
before the step and shows its conjuncts if none has happened after it.

**PartsProofs**, remain on channel: RocIsSound, that RocSound is an invariant of RocSpec, for any
interfaces, channels and keys, a positive bound on cookies and a null value that is
neither a number nor an element (`Distinct`). Two invariants share no variable but
`roc_upset`: RocIInv follows the stay through its stages (asked, granted, started,
ended) and says at each what the firmware, the queue of indications and cfg80211
know; KeyIInv says that the driver's numbers are the firmware's.

**PartsProofs**, virtual interfaces: VifIsSound, that VifSound is an invariant of
VifSpec, for any number of interfaces (`NX_VIRT_DEV_MAX` at least 1) and of VLANs
that together stay below 256, because `vif_started` is a `u8`, and a null value that
is neither a number nor an interface (`VifConstants`). Every action is first reduced
to what it makes of one interface (`Becomes`, and a lemma ...Moves per action). The
invariant has four parts: where an interface may stand while an operation is under
way (`Ops`); the P2P device and its timer (`Device`); how `vif_table`, the firmware's
set and the index of the interface go together, with the interfaces that have left
the firmware and not yet the table (`Leaving`) or are out while their type changes
(`Out`) as the exceptions (`Table`); and that `vif_started` is the number of
interfaces that are up, one more between the two halves of a close (`Count`). The
last is a cardinality, which needs no induction: an action adds or removes one
interface. A named event ends the claims; after "cancel" and "change" no operation is
under way, which the invariant keeps, since a later step would otherwise be free to
do anything.

**PartsProofs**, the loader's bus: LoadBusIsSound, that LoadBusSound is an invariant of
BusSpec, without a hypothesis. An answer ends the command it is for because at most
one is on its way, and it is the last command's (`OnlyItsOwn`); `Asked` says at which
step of the caller the command is out, and `Stage` how far the teardown has come and
who may still run.

**PartsProofs**, connection: ConnIsSound, that ConnSound is an invariant of ConnSpec, for any
bound on indications in flight and a null value that is no scan request
(`ConnConstants`). ConnSound compares driver, firmware and cfg80211 at rest; between
two rests indications of the link and of scans are queued in any mixture. `Among`
picks out of the queue the indications of one kind by an increasing function from
their numbers to positions, so that neither a filter nor a recursion has to be
reasoned about, and `Heard` is what the driver will have heard. On this rest
`LinkRow`, which lists for each `drv_conn_state` the states of the firmware and the
indications in flight that may go with it, `ScanRow`, which does so for scans, and
`Closing`, what `ndo_stop` has waited for.

**PartsProofs**, channels: ChanIsSound, that ChanSound is an invariant of ChanSpec,
for any finite set of interfaces, each of one type, any channels, any bound on the
indications in flight and any sets of interfaces linked together
(`ChanAssumption`). `ChanBooks` says that a count is the cardinality of the set of
users; a step moves one interface (`Moved`), and nobody that stays is on a context
that became empty (CountsWithout), which is also why radar detection may end there.
`Follow` says what is stopped between the two indications of a channel switch and
between the last and `cur_chanctx = chan_ctxt`; `InOrder` that the receive thread then
has the switch in hand; `Homes` that the context of everything started has its
channel, without which the flags looked up for the new channel would be missing; and
`Check` keeps the interface of an availability check apart from those that are
started, so that ending it stops nobody's detection. The counts are claimed after
every event but "relink", the rest until the first.

**TxQueueProofs**: ServedTheorem, that ServedRightly is an invariant,
FramesInOrder, that InOrder is, and QueuesTheorem, that QueuesSound is, for any
queues, hardware queues, senders, number of frames and any set of events. A frame would be stranded by `rwnx_hwq_process`, which
unlinks a queue with frames on it when its push limit is used up. So the first
needs that only a queue stopped for power save has a limit (`Granted`), because a
station that sleeps has had all its queues stopped (`Asleep`), because a station
that is gone has no active queues (`Life`). That only queues that may transmit are
scheduled needs, besides, that the limit is covered by the credits (`Quiet`).
InOrder needs that what is at the firmware was pushed before and is not on its
queue (`Pushed`), and that of the frames of a queue the ones to be sent again come
first (`Ordered`). A walk over a hardware queue and a flush are single steps per
queue and frame in the model, so that no induction is needed for these two.

QueuesSound needs the schedule lists themselves. Two operators of the model are
loops over data, the filter of a list (`OnlyIn`) and the sum along the queues
(`SumOver`); both are recursive functions, and what is needed of them (OnlyInFacts,
ConcatFacts, RotateFacts, TotalNat, TotalChanges, TotalFits) is proved from
well-foundedness of the natural numbers with the property given as a set
(SetInduction). Every step is then one of a few kinds for the lists (Kinds): it links
queues, unlinks some, or walks. The invariant QInv adds to IInv that a list holds
each flagged queue once, and that a queue that was deinitialised while it was
scheduled lies ahead of the walk under way (`InTurn`), which unlinks it: so the
lists are empty when the station is added again and `rwnx_txq_init` clears the flags
(`Asked`). The BUG_ONs of `rwnx_hwq_process` are excluded by `Covered`: credits and
frames cover the push limit, so that one round ends the service period of a queue
(PushGranted) and never leaves a rest to be taken from `sp_cnt`. Then `sp_cnt` is the
sum of the push limits (`Periods`: while a station is awake or being added there are
none), and `pkt_ready` the sum of the frames. The numbers stay in their widths because
the push limits of a station's queues add up to less than `sp_cnt` can hold:
`Len(Tids) * LimitWrap <= Wrap` is 9 * 256 <= 65536 (`NX_NB_TXQ_PER_STA` of a `u8`
in a `u16`), and a push limit never exceeds the credits, an `s8`.

**TcpAckProofs**: AcksTheorem, that AcksSound is an invariant, for any flows,
queues, slots, messages, load and size of the sequence space. One owner per message
needs the places themselves (`Own`), and that removal leaves nothing needs that no
frame is under way by then (`Released`): both hold for any number of network
queues. That the newest number is kept is stated for one network queue
(`OneQueue`), as with two it is false. Its invariant (`Tracked`) says what a slot in
use knows: its `seq` lags at most one number behind its flow, and two only while the
frame with the newest number is being matched (`Known`), so that the comparison of
`U32_BEFORE` is right however often the numbers wrap; a message it holds has a timer
that is pending or whose handler is about to take it (`Timed`), so a slot with a
message is never freed for age and `in_send_msg` never outlives its message.

The proofs corrected what was claimed. Three parts of ServedRightly and QueuesSound
held in all scenarios of txq and are false in others, which the failed step showed
and TLC confirmed; the properties now name the exceptions: a frame is left on a
running queue of a station that is added while a traffic request comes without
`cb_lock`; an interrupted service period leaves its queue scheduled although it is
stopped; `sp_cnt` differs from the limits when a confirmation comes without
`tx_lock`. And the newest ACK is kept only with one network queue (section 4) and in
a sequence space of four numbers or more (`Half` at least 2).

Only model-checked:

* flow control of UsbTx;
* the modules of MCParts other than Sta, Roc, Vif, Conn, Chan and LoadBus. Of these Removal
  has no constants and MsgTx only its null value, so that for RemovalSound and
  MessagesSound the run is no smaller than the model;
* all liveness: the prover does not handle fairness and ENABLED;
* what the folds over a file (UserConf) and over pulses (Radar) compute: induction
  over data again.

## 8. Not modelled

`components` in PROJECT.json gives the reason for each part. In short:

* TDLS: its operations are commented out of `rwnx_cfg80211_ops`
  (`rwnx_main.c:6264`) and compiled out (`rwnx_main.c:5093`), so no station is a
  TDLS peer;
* code that is not compiled in this configuration: SDIO, PCIe, DINI and IPC
  remains, bridge extension, band steering, beamforming, MU groups, debugfs, the
  preallocated receive buffers;
* private, vendor and wireless-extension commands, which parse a string and call a
  builder;
* data: capability tables, the regulatory database, the content of patch and power
  tables, the structures of messages beyond their layouts, firmware images and
  packaging;
* operations that pass their arguments on and keep nothing: station information,
  survey, transmit power, EDCA parameters, regulatory hints; indications that only
  report a number (RSSI, packet loss).

Within the modules: the contents of frames and messages, splitting an aggregated
transfer, the queues of an interface that belong to no station, the conversion of
old receive vectors, receive statistics, ciphers, the secondary radar chain, and
the number of frames pushed and not confirmed (`pkt_pushed`), which nothing reads.
