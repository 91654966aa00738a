# Formal model of the Polaris DCU gateway software

The repository is the software of a Wirepas gateway: a sink service in C on top
of `c-mesh-api`, a Python transport service between D-Bus and MQTT, small
services and an update client. These modules model the library, the operations
on a sink from the transport service to the node, and the transport service
around its sinks, and say what is left.

`src/gateway/c-mesh-api` and `src/gateway/sink_service/c-mesh-api` are identical;
the modules name the first.

## The system

| Component | State | Operations | Speaks with |
|---|---|---|---|
| Platform (`platform.c`) | ring of 60 indications, `m_ind_queue_read/write`, `m_queue_empty`, thread flags, two mutexes, a condition | poll loop, dispatch loop, init, close, lock and unlock of requests | request layer by callbacks; every handler runs on its dispatch thread |
| Request layer (`wpc_internal.c`, `slip.c`, `serial.c`) | `frame_id`, last answer time, poll fail duration, `fd` | request and confirm, poll and indications, retry after CRC errors, watchdog that ends the process | the node over the serial line; platform |
| Downlink (`dsap.c`, sink `data.c`) | table of 16 callbacks, `m_message_queued_in_sink`, `m_pdu_id`, `packet_id` | SendMessage on D-Bus, fragmentation, TX indication | D-Bus thread and dispatch thread, sharing table and counter without lock |
| Reassembly (`reassembly.c`, `dsap.c`) | hash of packets with their fragments, GC timestamp, maximum duration, data callback | fragment handler, collection, registration | dispatch thread; application callback |
| Stack control (`wpc.c`, `msap.c`, `csap.c`, sink `config.c`) | poll disabled flag, cached attributes | start, stop, set attributes, boot status, signals | D-Bus thread and dispatch thread |
| Scratchpad (`wpc.c`, `otap.c`) | stored scratchpad, block position | upload, process, download | stack control, D-Bus |
| Transport service (`transport_service.py`, `sink_manager.py`, `mqtt_wrapper.py`) | publish queue, publish counter, scheduled and last status, sinks and what is cached of them, black-hole state | publish, reconnect, status update, sink cost, scratchpad requests | D-Bus, MQTT broker |
| Hawkbit client (`rauc_dbus_ddi_client.py`) | action id, lock, downloaded bundle | poll, deploy, download, install, feedback | Hawkbit server |
| RTC, local history, scripts, units | files, timers | loops around one call | none of the above state |

What is hard in it: two service threads and any number of application threads
meet in the ring with most of its reads unlocked; answers of the node come
late, damaged or never, while the same line carries requests and indications;
sending and its indication run on different threads; fragments are duplicated
and ids reused; the library is closed and reopened while all that goes on. One
operation of the transport is several D-Bus calls and one call several requests,
with other operations, reboots and boot indications in between; the transport's
threads share the sinks, the status and the publish queue mostly without locks.

What makes each part correct: the ring loses and reorders nothing and no slot
is written while a handler reads it; an exchange ends, gives its caller its own
confirm and is not executed twice; the counter of the sink's capacity is what
the sink holds; what the application gets is a message that was sent; the stack
is left as it was asked for, and what is reported done was done; the copies that
the services keep, and the status the broker retains, follow the nodes; and
after a black hole nothing of it is left.

## Modules

| Module | Models | Checked by |
|---|---|---|
| `IndicationFifo` | the promise: a bounded queue that keeps order and drops only what does not fit | refinement in run `queue` |
| `IndicationQueue` | `platform.c`, with the callers in `wpc_internal.c` that matter for it | `queue`, `queue_live`, `queue_overflow`, `queue_close` through `MCIndicationQueue` |
| `IndicationQueueProofs` | theorems about `IndicationQueue` | TLAPS |
| `RequestLink` | `wpc_internal.c` over `slip.c` and `serial.c`, the node, line and plug as environment | `link`, `link_unplugged`, `link_resend` |
| `RequestLinkProofs` | theorems about `RequestLink` | TLAPS |
| `Downlink` | `data.c` `send_message` and `on_data_sent_cb`, `dsap.c` TX side | `downlink`, `downlink_leak` |
| `DownlinkProofs` | theorems about `Downlink` | TLAPS |
| `Reassembly` | `reassembly.c` and the fragment handler of `dsap.c` | `reassembly` |
| `ReassemblyProofs` | theorems about `Reassembly` | TLAPS |
| `SinkControl` | an operation on a sink end to end: `sink_manager.py`, `config.c` and `otap.c`, `wpc.c` and `msap.c`, the node | `sink` through `MCSinkControl` |
| `SinkControlProofs`, `SinkControlSafety`, `SinkControlStack` | theorems about `SinkControl`, each module on top of the one before | TLAPS |
| `Gateway` | `transport_service.py` (status, black-hole monitor), `sink_manager.py` (which sinks), `mqtt_wrapper.py` | `gateway` through `MCGateway` |
| `GatewayProofs` | theorems about `Gateway` | TLAPS |

### IndicationQueue

One program counter per thread: `poll` (`poll_for_indication`), `dispatch`
(`dispatch_indication`) and `app` (an application thread that sends requests,
closes and reopens). A step is one load or store of a shared variable, because
the service is built without optimisation and every mention of a variable is a
load of its own. `SeeEmpty` .. `SeeRoom` are therefore the five loads of
`platform.c:182-208`, and `UIntSub` is C's unsigned subtraction. The close
sequence (`StopDispatch` .. `Destroy`) may be run by the application or by the
watchdog of either service thread, and `Reopen` starts with the indices where
they were, since `Platform_init` does not reset the ring; that is why
`StartIndices` is a constant. `SpuriousWakeup` is the error branch of
`platform.c:97`, which goes on without owning the mutex.

Merged steps: releasing the sending mutex happens with the local step before it.
Failing `pthread_create` and failing mutex creation are not modelled.

### RequestLink

One exchange at a time, as the sending mutex guarantees; `Begin` chooses a poll
or another request. `toNode` and `toHost` are the frames in flight, the node
answers when it likes (`NodeHandle`, `NodeEmit`), the line loses or damages the
frame at its head. `TimesOut` is a read with nothing there, whatever the node
answers afterwards. The file descriptor is open, stale (its device went away)
or closed: a write on a stale one fails and closes it, a write on a closed one
opens it again if the device is back, a read on a closed one fails at once and
is repeated for ever. Taken of the node: it works through frames in order, answers a
damaged request with a dummy confirm and a damaged response not at all, and
keeps an indication until it is acknowledged. `m_disabled_poll_request` is `polling`
in `SinkControl`.

The library acknowledges an indication (`wpc_internal.c:298`) before it hands it over
(`:303`). These are two actions, `AnswerIndication` and `HandOver`, with the frame in
`hand` between them: the node may have forgotten an indication that only the polling
thread holds, and a process that ends there loses it. A poll for no indication is refused
before it sends (`:327-333`) and uses up no frame id; as it changes nothing it is no
action, and `Begin` has a quota of one at least.

The watchdog is written by the thread that opened the library, without a lock (`setter`):
`Opened` is the end of `WPC_Int_initialize`, where the time of the last answer is set only
after the service threads have begun; `SetTimeout` and `StoreTimeout` are the two stores
of `:407-412`, in that order. An exchange that failed reads the duration, then compares
with what it reads again (`ReturnOrSuspect`, `Suspect`, `:103-105`); with the sending mutex
released it ends the process. So it may exit while the library is being opened, or when
the watchdog has just been switched off, and at no other time without silence.

### Downlink

`bus` is the D-Bus thread in `send_message`, `disp` the dispatch thread. The
counter's `+=` and `-=` are a load and a store each; `RegisterSlot` and
`FillSlot` are the two stores of a table entry between which the other thread
can scan. `mishaps` is history: it names what went wrong so far, so that the
properties can say exactly which mishap may break the accounting. Left out: a
TX indication that the node repeats; the `cb` field (every sender in the
service registers the same function). `loose` is what the sink holds of messages
that were abandoned half-way, which the code does not count.

### Reassembly

`packets` is the hash, a packet the set of its fragments with `full_size` and
timestamp. A set is enough for the list: one fragment per offset is kept. The
handler is one action per outcome (`PacketFails`, `FragmentFails`,
`RefuseDuplicate`, `KeepFragment`, `DeliverPacket`, `DropPacket`), each with the
collection at its end, except `DropPacket`, which returns before it. `is_full`
is not kept: a packet leaves the hash in the handler that fills it. That holds
for messages up to the size of the buffer, 1500 bytes, which is the largest the
network sends.

### SinkControl

Three layers with their threads. A client is a thread of `deferred_thread` in the
transport, with the place it has reached in `write_config`, `upload_scratchpad`,
`process_scratchpad` or `set_target_scratchpad`; `Glib` handles the StackStarted
signals. `service` is the one D-Bus call the sink service is serving
(`main.c` handles one at a time), or its start (`Register` .. `OtapInit`); a call
that changes the node by at most one request is one step with its reply (the
application configuration and the first block of a scratchpad are preceded by a read of a
size that does not change, `wpc.c:484-497`), the longer ones are `Call`, the steps of
`wpc.c` and `otap.c`, and `Reply`. `BootIndication` is the
poll and dispatch threads. `Outcomes` stands for one exchange (`RequestLink`): it
is answered, or the confirm or the request is lost; the tables of `wpc.c` give the
answer its meaning, by position. `convert_error_code` compares a code with the size of the
table in bytes (`wpc.c:28`), so a code from `n` to `4n - 1` is looked up behind a table of
`n`; what this build finds there is the constant `PastTable`, which the run sets to a value
that is not `ok`. `NodeBoots` and `NodeReboots` are the node: a
stop reboots it, a scratchpad may arrive over the network, and so may a
reconfiguration. A scratchpad and a firmware are the number of the operation that
sent them. Of the configuration there is an item each for what the properties tell
apart: the network address, another attribute, and the application configuration,
which is written without stopping the stack.

`causes` names what has gone wrong, as `mishaps` does in `Downlink`, so that a
property can say what may break it. `wanted`, `undone`, `announced` and `targeted`
are history too, and so is `did` in a thread and in `service`: what the node has
executed of the operation, recorded in the step in which it does and carried to the
caller by the reply. What an operation has to do (`Asked`) includes the state of the stack,
asked for or restored. `Check` takes `StackStatus == 0` and the bit that `write_config`
tests for the same thing: the node reports a stopped stack by that bit (`wpc.h:93`), and
the other bits only accompany it. Values that the node refuses as invalid, and the error of
an upload to a stack that was stopped before, are not told apart from the other errors.

### Gateway

One program counter per thread: `main` (construction of the service), `glib` (the
signals), `receiver` (the C extension, the default), `monitor` (the black-hole
monitor), `setter` for the two threads that may be in `_set_status`, and the wrapper,
idle unless it is in `_on_connect`. A step is what lies between two accesses to what
threads share; `publish` is two, the put and the count. `Detect` begins a hole at any
size but zero, since the delay may be over at any. `queue` runs from the put to
the acknowledgement by the broker: wrapper and paho send in order, and paho sends
again after a reconnection. The configuration of a sink is the state of its stack;
`read_config` takes what does not answer from the cache and raises for a sink that is
gone. `Responds` has its reads answered; `ReadConfigs` has the ones that are not.
The list of configurations is a set: that the same list in another order is
published again is left out. `node`, `role`, `signals`, `link` and `retained` are what is
outside: the sinks, D-Bus and the broker. The cost outlives a reboot of the node.

A write may fail. The setter of the cost raises when the node is in no sink role
(`RefusesCost`) and logs every other failure (`SetsCost`, `sink_manager.py:341-347`): the
monitor's thread dies of the first, `initialize_sink` ends its handler with it, and
`on_sink_connected` catches it when there is no monitor (`monitored`,
`transport_service.py:541-552`). `WriteStarted` is `write_config` with `started` alone: it
may return before it does anything (`sink_manager.py:244-250`), ignores what `SetStackState` answers
(`:310`), and its own result is ignored too (`transport_service.py:82-88`); or it works and its
confirm is lost, so that nothing is signalled. `failed` is history: the sinks where the last
write had no effect. `RoleChanges` is a `set_config` with a role (`:655-676`), which stops
and starts a running stack. It and `OperatorChanges` are one step and succeed: how such an
operation fails or meets another one is the subject of `SinkControl`.

`ListNames` and `Subscribe` are the constructor; `Subscribe` stands for the subscription and
what follows (`transport_service.py:228-263`). The wrapper is started before that
(`:228`); a status that it publishes before `_last_status_config` is set (`:263`) is forgotten
there and may be published once more, which changes nothing of what is retained.

`SelectableQueue` needs no model of its own: `put` and `get` are each one step under
one lock, and the byte on the socket is there exactly while the queue is not empty.

## Runs

| Run | Asks |
|---|---|
| `queue` | Is the ring a bounded fifo under every interleaving, does it refuse an indication only after a torn read of the free room, is a slot in use left alone, is all quiet after a close? |
| `queue_live` | Is every stored indication handled in the end? |
| `queue_overflow` | Violated: the ring can run full although the poller computed the room first. |
| `queue_close` | Violated: a close may never return, as its wake-up can be lost. |
| `link` | Own confirm, at most one execution unless misled, every acknowledged indication handed over or in the thread's hands, order, exit only after silence, and every exchange ends on an open line. |
| `link_unplugged` | Violated: an exchange on a line closed by a failed response never ends. |
| `link_resend` | Violated: a late dummy confirm makes the node execute a request twice. |
| `downlink` | Which mishaps break the limit, the count and the lookup of an entry; nothing else does. |
| `downlink_leak` | Violated: capacity is lost when the TX indication overtakes the registration. |
| `reassembly` | Whole messages only, none more often than it arrived, none lost, old ones forgotten. |
| `sink` | Is the stack left as it was asked for, is what was reported done really done (the state of the stack included), do the copies of the node's attributes, scratchpad and address follow the node, has a default target the sequence and CRC of one scratchpad, is every change signalled, and has every error a cause? |
| `gateway` | Is the publish count right, the gateway announced as online, the retained status that of the sinks, the cost of every sink that of the hole's state, and is nothing left of a hole, also when writes fail, roles change or the monitor dies? |

### Bounds

* `queue`: six slots for sixty, polls of at most three; the ring starts in its
  last slot, so that eight indications wrap it; three closes, as many as the threads
  that may close, with a reopening after them.
  A torn read needs one wrap and a full ring needs more than the ring holds.
* `link`: frame ids modulo 2 make a late confirm collide within three exchanges;
  one CRC retry, two line errors and one unplugging are what the properties need
  to meet (a lost answer that comes late, and a second error on top).
* `sink`: two clients, one sink, two operations out of six kinds (a configuration
  that keeps, starts or stops the stack, upload, processing, target), two blocks,
  one trouble: a lost request or confirm, a slow boot, a reboot (by itself, after a
  reconfiguration or with a scratchpad from the network), or the end of the
  transport. Two operations overlap, and one trouble hits every step of either.
  The excuses `partial` and `unread` of `DefaultTargetIsStored` and `unread` of
  `AddressCacheFollows` are met only with a third operation or a second trouble.
* `gateway`: two interchangeable sinks, each in a sink role or not, with or without
  a monitor and `stop_stack`, one new attempt for a partial status (five in the
  code), two events. An event is a sink service that starts or ends, an operator
  who starts or stops a stack, a change of role, a write that fails or is not
  signalled, received data, a read without an answer, a hole, a broken link or a
  restart. Two events meet every excuse but `missed` and `restarted` in
  `NoSinkLeftHigh`, which need three (a longer search without either finds a
  violation). With three events the whole search (two gave 8.75 million states)
  takes longer than a run should; random behaviours with four events, a hundred
  million states, showed no violation.
* `downlink`: limit and table of two, weights 0 to 2, so that two messages meet
  in the table and in the counter; ids modulo 2 repeat within three messages; a
  counter modulo 8 wraps below zero. Four messages (16 million states) pass as well.
* `reassembly`: two messages from one source, with the same or different ids
  (restart or not), two duplicates (enough to deliver a message twice), a clock
  of half seconds that runs past the maximum duration and the rounding.

Messages of three fragments, alone and mixed with ones of two, pass as well with
one duplicate; the run keeps two fragments to stay short.

`QuietAfterClose` allows for both service threads being in a close of their own:
then each joins the other, and neither join of the application has to wait. The
library is opened again only when both have ended.

`CHECK_DEADLOCK FALSE` is set where the system may stop: the process exits, the
library is closed, or the bounded work is done.

### Fairness

`queue_live` assumes that a thread that can take its next step takes it in the
end, with strong fairness where it waits for a mutex that others take again and
again; the threads are ordinary threads of a preemptive scheduler. `link` and
`link_unplugged` assume that the thread that owns the sending mutex goes on;
nothing is assumed of the node, the line or the plug. `sink` and `gateway` check
safety only: what must hold in the end is stated of the states at rest (`AtRest`),
with nothing left to do.

## Proofs

Every invariant and every action property of the passing runs, and the refinement,
is proved for every value of the constants: any ring size, frame range, table,
fragment size, number of sinks, clients and operations, and any bound on what may
happen. The hypotheses are the assumptions the modules make of their constants, and
nothing else; TLC evaluates them in every run. Each property is implied by an
inductive invariant; the large ones were tried with TLC on their run before the proof. In
each proof module the actions come first as lemmas (what a step does to the state
the invariant mentions), then one lemma per invariant with a case per action.

`IndicationQueueProofs`, under `QueueAssumption` (the ring holds an even number of
slots, and the range of `unsigned int` is twice as large at least):

* `QueueInvariant`: the conjunction of `TypeOK`, `RingInv` and `QuotaFits` is
  inductive. The ring part alone is not: that the poller's quota fits depends
  on what it has read so far, so `PollerInv` and `RoomInv` relate the values
  the poller holds to what the dispatcher may have advanced since, and
  `DispatcherInv` says what the dispatcher knows between two of its steps.
* From it `TypeCorrect`, `RingCorrect`, `QuotaAlwaysFits`, `LossNeedsTornRead`
  (an acknowledged indication is dropped only after a torn read) and the action
  property `SlotKept` (the slot in use is never written).
* `ClosedIsQuiet`: `ClosingInv` says who may hold the sending mutex at each place,
  and that a join which has returned joined a thread that ended, or that is in a close
  of its own, from which no thread comes back.
* `ImplementsTheFifo`: under the mapping of `Fifo` the initial states are those of
  `IndicationFifo`, and each step is one of its steps or a stutter: the poller's
  store of an index is the append, the dispatcher's is the removal, and a slot
  written before its index is stored is not in the fifo yet.

`RequestLinkProofs`, under `LinkAssumption`. What the owner of the mutex knows is in
`Phases`; the rest of the invariants describes what is in flight:

* `TypeCorrect`, and `ExitsOnlyAfterSilence` from `SilenceCounts`, which follows the two
  stores of the setter and the two reads of the exchange.
* `ConfirmsAreOwn`: `InFlight` and `Started` say that nothing on the line is of a call
  that has not begun, and that a confirm on its way is of a call the node executed.
* `ExecutedTwiceOnlyWhenMisled`: `OnePlace` says that a call that was not misled is
  either about to be sent, or on its way, or executed, or denied by a dummy confirm on
  its way back, once and in one place only.
* `ForgottenIsNotLost`: every acknowledgement on the line is of an indication that was
  handed over or is the one in the thread's hands (`AnswersAreForHanded`).
* `IndicationsInOrder`: `CleanOrder` says, while nobody was misled, that the last
  indication handed over is the one acknowledged or the one after it (`NodeFollows`), that
  behind the confirm of a poll there is only the indication it announced
  (`NothingBehind`), and that one frame at most is under way while a poll reads
  indications (`OneByOne`).

`DownlinkProofs`, under `DownlinkAssumption` (a limit of at least one that the table of
callbacks holds, and a byte that counts twice the limit):

* `TypeCorrect`, with `Placed` and `Numbered`: a message in flight is in one place and
  has a number of its own.
* `LimitIsKept` and `CountIsExact` from `Counting`: the counter is the weight of the
  messages the sink holds, more by what was missed or forgotten in a reset, less by the
  weight that is still to be added, as a byte that may be below zero for that time. A
  thread between its load and its store has loaded what is there.
* `EntryIsFound`: `Registered` and `Owned` say that a message in flight has an entry, that
  an entry is found by no other message, and that entries belong to messages in flight,
  so that a registration which needs one finds it: there are fewer messages than
  entries, each weighing at least one.

`ReassemblyProofs`, under `ReassemblyAssumption` (a message in fragments is longer than
one): `ReassemblyInvariant`, from which follow `TypeCorrect`, `WholeIsDelivered`,
`NoMoreThanArrived`, `CompleteWhenArrived` and `ForgottenInTime`. `Keeps` says what the hash
holds (a packet's size is known when its last fragment is there, fragments of two
messages in one packet spoil both, what arrived is held), `Uses` that each arrival is
used for one delivery at most, `CollectedInTime` that the last collection test left nothing
too old. That offsets and sizes identify all fragments of a message is a lemma on
division.

`GatewayProofs`, under `GatewayAssumption` (`None`, the last will and a status are
different things):

* `TypeCorrect`, action by action.
* `CountAlwaysExact`. `CountExact` alone is not inductive: `CountInv` adds that an
  updater is there only while an update is scheduled, or else `CountResponse` would
  start a second one over one that is between its put and its count.
* `HoleAlwaysUndone`: `HoleLeavesNoTrace`, excuses included. It says nothing of the
  time in a hole, so `HoleInv` adds it: a stack that is not as its operator wants is
  wanted, is stopped, and the monitor has still to visit it (`InHole`). `ExcuseStays`
  says that no step, a restart included, forgets an excuse. A sink whose last start or stop had no
  effect is in `failed` and not spoken of.
* `CostsFollowHole` and `NoSinkStaysHigh` from `CostsInvariant`. A sink has the cost of the
  hole's state, or the monitor has yet to visit it, or its appearance is still to be
  handled (`CostInv`, `RoleInv`, `LowInv`). An appearance counts only if nothing
  contradicts it in the queue of signals, so `Alternates` says that what is told of a
  sink alternates: between two appearances there is a removal. For the monitor's death
  `RoleInv` says which sinks can refuse: those whose cost was never written, or that lost
  their role.
* `OnlineAlwaysAnnounced` and `RetainedAlwaysRight` from `StatusInvariant`: a sink on the bus
  is known or told (`KnownInv`); what a thread in `_set_status` holds is fresh, or a
  new read is due (`FreshInv`); what was put last is what is remembered as last
  (`SerialInv`); and a status is under way as long as the broker has the last will
  (`OnlineInv`).

The three modules of `SinkControl`, under `SinkAssumption` (a scratchpad has a block at
least; the threads are different; requests are of the five kinds):

* `SinkControlProofs`: `SinkInvariant` and `TypeCorrect`. A thread's place says what it is
  doing (`PlaceInv`), and the call that is served is the one its caller waits for
  (`CallerInv`), without which a reply could meet a thread elsewhere.
  `ChangeAlwaysSignalled`: a change not yet signalled is of the call that is served, or
  nobody is registered yet (`Signalled`).
* `SinkControlSafety`: `ReportedIsDone` (`Truthful`: an operation without an error so far has
  done all but what it has left to do; what is loaded in the node is of the upload
  that is served), `TargetIsStored` (`TargetInv`: the copy is the stored scratchpad's, and
  who is in the middle of a default target has seen it), `AddressFollows`
  (`AddressInv`: an address that is not the node's is still to be read), `CachesFollow`
  (`ConfigInv`, `OtapInv`: so are a firmware's attributes and a scratchpad; one is marked only
  between a processing's request and its boot).
* `SinkControlStack`: `NoErrorWithoutCause` (`Quiet`: without trouble and overlaps the node is
  down only while a stop waits for it, who needs the stack stopped finds it so, and blocks
  follow each other) and `StackIsLeftAsWanted`. For that one, the state at rest says nothing
  of operations in progress, so `Stack` does: between changes the stack is as it was last
  asked for, or one operation holds it stopped and is to start it again; everybody at
  work has seen the state he relies on (`Resting`); and while the stack changes, the
  caller of the change is alone with it (`Turning`), since otherwise two overlap.

Only model-checked: liveness (`StoredIsHandled`, `CallEndsWhileOpen`), which is
beyond the prover, and the violations. The proofs are about the modules: whether a
module is what the code does is for the reader of the map.

Some properties were restated when their proof failed, or when TLC, with
larger bounds than the runs', refuted the invariant it needed:

* `QuietAfterClose` did not hold for three closes at a time: with both service threads in
  a close of their own, no join of the application waits.
* `OkMeansDone` blamed an operation for what happened to the node after its work and
  before its reply: what was done was read off the node at the reply; it is now recorded
  when it is done (`did`).
* `ForgottenIsKept` cannot say that what the node forgets was handed over: the answer comes first.
* `OkMeansDone` had left the state of the stack out of what an operation has to do.
* `AddressCacheFollows` needs the excuse of a start that answered too late, since the address is
  read when the start is signalled; `ServiceCachesFollowNode` those of a stop that was
  lost or denied, after which a processing fails without a new read of the copy.

## What the checks found

`sink` and `gateway` pass because their properties carry excuses; an excuse is a
race or a failure that the code does not handle, and is needed (the property is
violated without it, in the run or in a longer one). What they say of the code:

* The stack is left otherwise than it was asked for when two operations overlap,
  when the last status read of `write_config` fails (it returns with the stack
  stopped, `sink_manager.py:311-317`), when a start or stop fails, and when
  autostart was not written, whose result `config.c:330` and `:339` ignore.
* A configuration, an upload and a processing are reported done although the stack was not
  set as asked: `SetStackState` answers whether it did, `write_config` ignores that
  (`sink_manager.py:310`) and returns `GW_RES_OK` (`:323`).
* A processing is reported done when its stop request was lost: a confirm is not
  expected (`wpc.c:597`) and any answer to the status is taken for the reboot.
* The copy of the scratchpad's status on the bus is read at the start, after uploads
  and after processings, not when the stack starts, as `otap.c:230` says; a
  scratchpad from the network, or a failed upload, leaves it old.
* A default target may have the sequence of one scratchpad and the CRC of the next.
* `_set_status` has no lock: the updater may write the last status after
  `_on_connect` reset it, and the gateway stays announced as offline until something
  changes. An unchanged partial status is not retried (`transport_service.py:292`),
  a change between the updater's last read and the end of its thread is dropped, and
  an updater ended by an exception leaves `_is_update_status_scheduled` set.
* A failed write of a cost is logged and not tried again before the state of the hole
  changes; a start or stop that fails in a hole is not even noticed, and after the hole the
  stack stays stopped.
* A node that is no sink ends the monitor's thread; when that happens in a hole, because
  the node was visited before its initialisation was handled or after a first write that
  failed otherwise, because its role was changed while the service ran, or when a new process
  meets it before it has lowered the costs of an old one, sinks stay at the high cost.
  A sink that appears while the
  costs are changed keeps the old one; when holes stop the stacks, a sink that
  connects gets no cost at all (`transport_service.py:173`), the stacks stay stopped
  after a restart, and stacks that their operator had stopped are started.

* An indication is acknowledged before it is handed over: a process that ends between the two
  has lost it for the application and the node.
* The watchdog may end the process while the library is still being opened, since the time
  of the last answer is set after the threads were started (`wpc_internal.c:425-433`), and
  when it is switched off between the two reads of an exchange that failed.

Five disagreements between the code and what its comments promise, each a
violation run: the torn read of the free room, the lost wake-up at close, the
endless read on a closed line, the resend for another call's dummy confirm, and
the capacity lost to an indication that comes before its registration. Known
and not counted as such: an incomplete packet is forgotten only when another
fragment is handled, as the comment at `dsap.c:31-34` says, so a packet id that comes
back after a long silence can meet old fragments (`DeliveredWhole` allows for it).

## Plan

1. Done: `IndicationQueue` with its abstract queue and first theorems,
   `RequestLink`, `Downlink`, `Reassembly`.
2. Done: `SinkControl` (stack control, sink service, scratchpad, and the operations of
   the transport on them), `Gateway` (status, sinks, publishing, black hole).
3. Done: proofs of every safety property of these modules, and of the refinement.
4. `HawkbitClient`: one deployment after the other, with its feedback and retries.

## Not modelled

* `wpc.c`: the attribute getters and setters that only differ in their attribute,
  neighbour scan, remote updates and status; each is one exchange as in `SinkControl`.
  `WPC_download_local_scratchpad`, clearing a scratchpad, and the MTU that is read
  again after a boot.
* D-Bus: calls that time out in the transport while the sink service goes on, and
  what is queued on the bus beyond the order of signals.
* SLIP byte by byte: `RequestLink` has the outcomes of decoding. The 8-bit write
  index of the encoder is enough for every frame the library builds.
* The choice of the bit rate and the options of both services: run once, before
  anything else.
* The subscriptions, the responses to requests from the backend, and the codec of the
  messages: one call to a library or one conversion each. Threads that serve requests
  publish like `receiver`.
* Hawkbit client: shares nothing with the gateway's services. `lock_keeper` is never
  given, so its lock is not taken.
* RTC and local history services, provisioning scripts, systemd units, compose files
  and web pages: no state shared with the rest.
* `src/gateway/sink_service/c-mesh-api` is a second copy of the library; the vendored
  containers (`uthash.h`, `utlist.h`) and the headers of the API hold no logic of their
  own here. They are more than half of the C lines.
