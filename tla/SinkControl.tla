---------------------------- MODULE SinkControl ----------------------------
(***************************************************************************)
(* Operations on one sink, end to end: the threads in which the transport  *)
(* service serves configuration and OTAP requests (sink_manager.py), the   *)
(* D-Bus thread of the sink service (config.c, otap.c) with the WPC calls  *)
(* it makes (wpc.c, msap.c), its dispatch thread, and the node.            *)
(*                                                                         *)
(* The sink service answers one D-Bus call at a time, but an operation of  *)
(* the transport is several calls, so operations interleave between them;  *)
(* and a call is several requests, between which the node may reboot and   *)
(* its boot indication be handled.  A request, or its confirm, may be lost *)
(* (see RequestLink); a boot indication is handled as soon as it is polled *)
(* (see IndicationQueue for what lies between).                            *)
(*                                                                         *)
(* The node is outside the repository: it refuses what needs a stopped     *)
(* stack while the stack runs, reboots when the stack is stopped, or when  *)
(* a scratchpad waits to be processed, reports every boot, and comes up in *)
(* the state autostart says when it reboots by itself.                     *)
(***************************************************************************)
EXTENDS Integers, Sequences

CONSTANTS
  Clients,      \* threads of deferred_thread
  Glib,         \* the thread of the GLib main loop
  Requests,     \* what a client may be asked
  Blocks,       \* blocks of a scratchpad
  PastTable,    \* what this build reads behind a table of error codes
  MaxOps,       \* bound: operations started
  MaxTroubles   \* bound: lost requests or confirms, slow boots, reboots, crashes

Items == {"network_address", "cipher_key", "app_config"}

Nobody == "nobody"         \* whoever made the call being served is not there any more

ASSUME SinkAssumption ==
  /\ Glib \notin Clients /\ Nobody \notin Clients
  /\ Blocks \in Nat \ {0} /\ MaxOps \in Nat /\ MaxTroubles \in Nat
  /\ \A r \in Requests :
       \/ /\ r.kind = "config"
          /\ r.items \in Seq(Items) /\ r.started \in {"keep", "start", "stop"}
       \/ r.kind \in {"upload", "process", "target"}

Threads == Clients \union {Glib}
Unset == 0                 \* a network address that was never set or read
Reconfigured == MaxOps + 1 \* an address the remote API of the network gives the node
Preset == MaxOps + 2       \* the address, and scratchpad, the node may have to begin with
RemoteSeq == MaxOps + 1    \* a scratchpad received over the network

VARIABLES
  thread,    \* the transport's threads, see Idle
  address,   \* Sink.network_address
  signals,   \* StackStarted signals the GLib loop has not taken yet
  service,   \* the D-Bus call the sink service is serving
  polling,   \* ~m_disabled_poll_request
  config,    \* m_sink_config, here the firmware version
  otap,      \* m_sink_otap
  node,
  booted,    \* boot indications not polled yet
  ops, troubles, \* so far
  \* history
  wanted,    \* the stack state last asked for, or found at first
  causes,    \* what has gone wrong
  announced, \* a signal followed the last change of the stack state
  undone,    \* what was reported done and was not
  targeted   \* the last target set by default, with what the node stored then

sinkService == <<service, polling, config, otap>>
history == <<wanted, causes, announced, undone, targeted>>
vars == <<thread, address, signals, sinkService, node, booted, ops, troubles, history>>

NoRequest == [kind |-> "none"]
Idle ==
  [pc |-> "idle", request |-> NoRequest,
   number |-> 0,       \* of the operation, taken for the values it writes
   todo |-> <<>>,      \* items of the configuration still to be written
   captured |-> FALSE, \* stack_started in write_config
   stopped |-> FALSE,  \* restart in upload_ and process_scratchpad: it stopped the stack
   result |-> "ok", seen |-> <<>>,
   did |-> {}]         \* history: what the node has executed of it
NoCall == [task |-> "none", step |-> "none", caller |-> Nobody, seq |-> 0, ok |-> TRUE,
           fetched |-> 0,
           did |-> {}]  \* history: what the node has executed of it
NotLoading == [seq |-> 0, next |-> 0]

Init ==
  /\ thread = [t \in Threads |-> Idle]
  /\ address = Unset /\ signals = 0
  /\ service = [NoCall EXCEPT !.task = "init", !.step = "register"]
  /\ polling = TRUE
  /\ config = 0 /\ otap = [stored |-> 0, processed |-> 0]
  /\ \E on \in BOOLEAN :  \* set up and running, or never set up
       /\ node = [up |-> TRUE, running |-> on, autostart |-> on,
                  address |-> IF on THEN Preset ELSE Unset,
                  loading |-> NotLoading, marked |-> FALSE,
                  stored |-> IF on THEN Preset ELSE 0, processed |-> IF on THEN Preset ELSE 0]
       /\ wanted = on
  /\ booted = <<>> /\ ops = 0 /\ troubles = 0
  /\ causes = {} /\ announced = TRUE /\ undone = {}
  /\ targeted = [seq |-> 0, crc |-> 0, stored |-> 0]
-----------------------------------------------------------------------------
(* Requests to the node.  One is answered; or its confirm or the request    *)
(* itself is lost, and the caller gets a negative result.                   *)
NoAnswer == -1
Outcomes(code, after) ==
  IF ~node.up THEN {[res |-> NoAnswer, node |-> node, cost |-> 0]}
  ELSE {[res |-> code, node |-> after, cost |-> 0],
        [res |-> NoAnswer, node |-> after, cost |-> 1],
        [res |-> NoAnswer, node |-> node, cost |-> 1]}
Takes(o) == /\ troubles + o.cost <= MaxTroubles
            /\ troubles' = troubles + o.cost
            /\ node' = o.node

(* convert_error_code: the tables hold what the node's codes mean.  A code  *)
(* is compared with the size of its table in bytes: one that the table does *)
(* not have may be read from behind it.  The codes below are all documented.*)
SizeOf(lut) == 4 * Len(lut)
ConvertErrorCode(lut, code) ==
  CASE code \in 0 .. Len(lut) - 1 -> lut[code + 1]
    [] code \in Len(lut) .. SizeOf(lut) - 1 -> PastTable
    [] OTHER -> "internal"
AttReadLUT == <<"ok", "internal", "not_stopped", "internal", "not_set", "denied", "denied">>
AttWriteLUT == <<"ok", "internal", "not_stopped", "internal", "invalid", "internal", "denied">>
AppConfigWriteLUT == <<"ok", "not_a_sink", "invalid", "invalid", "denied">>
ScratchpadStartLUT == <<"ok", "not_stopped", "invalid", "internal", "denied">>
ScratchpadBlockLUT == <<"ok", "ok", "data_error", "not_stopped", "no_start", "address", "size",
                        "invalid_scratchpad">>
ScratchpadUpdateLUT == <<"ok", "not_stopped", "no_scratchpad", "denied">>
TargetLUT == <<"ok", "not_a_sink", "invalid", "denied">>

StatusRead == Outcomes(0, node)
NetworkAddressRead == Outcomes(IF node.address = Unset THEN 4 ELSE 0, node)
FirmwareVersionRead == Outcomes(0, node)
ScratchpadStatusRead == Outcomes(0, node)
TargetWrite == Outcomes(0, node)
AutostartWrite(on) == Outcomes(0, [node EXCEPT !.autostart = on])

ItemWrite(item, value) ==
  IF node.running /\ item # "app_config" THEN Outcomes(2, node)
  ELSE Outcomes(0, IF item = "network_address" THEN [node EXCEPT !.address = value] ELSE node)

StackStart ==
  CASE node.running -> Outcomes(1, node)
    [] ~node.running /\ node.address = Unset -> Outcomes(2, node)
    [] OTHER -> Outcomes(0, [node EXCEPT !.running = TRUE])

Denied == 128  \* the feature lock bits
StackStop ==
  (IF node.running \/ node.marked
     THEN Outcomes(0, [node EXCEPT !.up = FALSE, !.running = FALSE])
     ELSE Outcomes(1, node))
  \union {[res |-> Denied, node |-> node, cost |-> 1]}

ScratchpadStart(seq) ==  \* erases what was stored
  IF node.running THEN Outcomes(1, node)
  ELSE Outcomes(0, [node EXCEPT !.loading = [seq |-> seq, next |-> 0],
                                !.stored = 0, !.marked = FALSE])

ScratchpadBlock(block) ==
  CASE node.running -> Outcomes(3, node)
    [] ~node.running /\ node.loading = NotLoading -> Outcomes(4, node)
    [] ~node.running /\ node.loading # NotLoading /\ node.loading.next # block ->
         Outcomes(5, node)
    [] OTHER -> IF block + 1 = Blocks
                  THEN Outcomes(1, [node EXCEPT !.stored = node.loading.seq,
                                                !.loading = NotLoading])
                  ELSE Outcomes(0, [node EXCEPT !.loading.next = block + 1])

ScratchpadUpdate ==
  CASE node.running -> Outcomes(1, node)
    [] ~node.running /\ node.stored = 0 -> Outcomes(2, node)
    [] OTHER -> Outcomes(0, [node EXCEPT !.marked = TRUE])
-----------------------------------------------------------------------------
(* The transport's threads.  A D-Bus call that takes one request, or whose  *)
(* others only read, is one step with its reply; the longer ones are begun  *)
(* by Call and end by Reply.                                                *)
At(t, where) == thread[t].pc = where
Free == service.task = "none"
CallsAt(t, where) == At(t, where) /\ Free

(* A thread at a place; a client may begin an operation there, which is its *)
(* first call.                                                              *)
Begins(r) == [Idle EXCEPT !.request = r, !.number = ops + 1,
                          !.todo = IF r.kind = "config" THEN r.items ELSE <<>>,
                          !.pc = CASE r.kind = "config" -> "capture"
                                   [] r.kind = "target" -> "sequence"
                                   [] OTHER -> "check"]
Calling(t, where) ==
  IF ~Free THEN {}
  ELSE IF At(t, "idle") /\ t \in Clients /\ ops < MaxOps
         THEN {me \in {Begins(r) : r \in Requests} : me.pc = where}
         ELSE {me \in {thread[t]} : me.pc = where}
Counts(t) == ops' = IF At(t, "idle") /\ t \in Clients THEN ops + 1 ELSE ops

Update(t, new) == thread' = [thread EXCEPT ![t] = new]
Moves(t, where) == Update(t, [thread[t] EXCEPT !.pc = where])

(* What an operation has to do: write the items of a configuration, or its  *)
(* own work; and put the stack in the state asked for or found before.      *)
Asked(me) ==
  CASE me.request.kind = "config" ->
         {me.request.items[i] : i \in DOMAIN me.request.items} \union {"stack"}
    [] me.request.kind \in {"upload", "process"} ->
         {me.request.kind} \union IF me.stopped THEN {"stack"} ELSE {}
    [] OTHER -> {}
Finishes(t, me, result) ==
  /\ Update(t, Idle)
  /\ undone' = IF result = "ok" THEN undone \union (Asked(me) \ me.did) ELSE undone

(* History.  An operation relies on the state of the stack from its first   *)
(* look at it until it has restored it.  Two operations overlap when one    *)
(* changes the state another relies on, or finds its work done by another's *)
(* stop.                                                                    *)
Blame(what) == causes' = causes \union what
Relying(t) == {d \in Clients \ {t} :
                 thread[d].pc \in {"check", "stop", "work", "restore", "change", "restart"}}
Overlap(with) == IF with = {} THEN {} ELSE {"overlap"}

ContinuesUnchecked(rest) == IF rest = <<>> THEN "restore" ELSE "work"
ContinuesUnrestored(rest) ==
  IF rest = <<>> THEN "readback" ELSE IF Head(rest) = "app_config" THEN "work" ELSE "check"
Continues(rest) ==  \* where write_config goes with these items left
  IF rest = <<>> THEN "restore" ELSE IF Head(rest) = "app_config" THEN "work" ELSE "check"
ItemDone(me, result, did) ==
  [me EXCEPT !.todo = Tail(@), !.pc = Continues(Tail(me.todo)), !.result = result, !.did = did]
IsConfig(me) == me.request.kind = "config"

Capture(t) ==  \* write_config reads StackStatus first
  /\ \E me \in Calling(t, "capture"), o \in StatusRead :
       /\ Takes(o)
       /\ IF ConvertErrorCode(AttReadLUT, o.res) = "ok"
            THEN /\ Update(t, [me EXCEPT !.captured = node.running, !.pc = Continues(me.todo)])
                 /\ UNCHANGED undone
            ELSE Finishes(t, me, "error")
  /\ Counts(t)
  /\ UNCHANGED <<address, signals, sinkService, booted, wanted, causes, announced, targeted>>

(* Is the stack already stopped?  StackStatus is compared with 0 here, and  *)
(* its lowest bit is tested in write_config; the other flags say what is    *)
(* not set (wpc.h:93), and a stack that runs has none of them.              *)
Check(t) ==
  /\ \E me \in Calling(t, "check"), o \in StatusRead :
       /\ Takes(o)
       /\ IF ConvertErrorCode(AttReadLUT, o.res) = "ok"
            THEN Update(t, [me EXCEPT !.pc = IF node.running THEN "stop" ELSE "work"])
            ELSE Update(t, IF IsConfig(me) THEN ItemDone(me, "error", me.did) ELSE Idle)
  /\ Counts(t)
  /\ UNCHANGED <<address, signals, sinkService, booted, history>>

(* setattr of a property, or SetAppConfig, which reads the size allowed     *)
(* before: when that fails, nothing is written, as when the write is lost.  *)
WriteItem(t) ==
  /\ CallsAt(t, "work") /\ IsConfig(thread[t])
  /\ LET me == thread[t]
         item == Head(me.todo)
         lut == IF item = "app_config" THEN AppConfigWriteLUT ELSE AttWriteLUT
     IN  \E o \in ItemWrite(item, me.number) :
           /\ Takes(o)
           /\ IF ConvertErrorCode(lut, o.res) = "ok"
                THEN Update(t, ItemDone(me, me.result, me.did \union {item}))
                ELSE Update(t, ItemDone(me, "error", me.did))
  /\ UNCHANGED <<address, signals, sinkService, booted, ops, history>>

NewStateForgets(me) == me.request.started = "start"
NewState(me) == CASE me.request.started = "keep" -> me.captured
                  [] me.request.started = "start" -> TRUE
                  [] me.request.started = "stop" -> FALSE

Wants(t) == IF thread[t].request.started = "keep" THEN wanted ELSE NewState(thread[t])

Restore(t) ==  \* "defined by new config or set it as it was previously"
  /\ CallsAt(t, "restore")
  /\ LET new == NewState(thread[t])
     IN  /\ \E o \in StatusRead :
              /\ Takes(o)
              /\ IF ConvertErrorCode(AttReadLUT, o.res) = "ok"
                   THEN /\ Update(t, [thread[t] EXCEPT
                               !.pc = IF node.running = new THEN "readback" ELSE "change",
                               !.did = @ \union IF node.running = new THEN {"stack"} ELSE {}])
                        /\ wanted' = IF node.running = new THEN Wants(t) ELSE wanted
                        /\ Blame(Overlap({d \in Relying(t) : thread[d].stopped}))
                        /\ UNCHANGED undone
                   ELSE /\ Finishes(t, thread[t], "error") /\ Blame({"unread"})
                        /\ UNCHANGED wanted
  /\ UNCHANGED <<address, signals, sinkService, booted, ops, announced, targeted>>

(* get_network_address(True), after a configuration or a StackStarted: the  *)
(* property is read, then assigned to the sink all threads share.           *)
ReadsUnforced(t, me) ==
  IF address # Unset THEN Finishes(t, me, me.result) /\ UNCHANGED <<node, troubles, causes>>
  ELSE \E o \in NetworkAddressRead :
         /\ Takes(o) /\ o.res = 0 /\ UNCHANGED <<causes, undone>>
         /\ Update(t, [me EXCEPT !.seen = <<node.address>>, !.pc = "assign"])
Reads(t, me) ==
  \E o \in NetworkAddressRead :
    /\ Takes(o)
    /\ IF ConvertErrorCode(AttReadLUT, o.res) = "ok"
         THEN /\ Update(t, [me EXCEPT !.seen = <<node.address>>, !.pc = "assign"])
              /\ UNCHANGED <<causes, undone>>
         ELSE Finishes(t, me, me.result) /\ Blame({"unread"})

Readback(t) ==
  /\ CallsAt(t, "readback")
  /\ Reads(t, thread[t])
  /\ UNCHANGED <<address, signals, sinkService, booted, ops, wanted, announced, targeted>>

OnStackStartedSpurious ==
  /\ CallsAt(Glib, "idle")
  /\ signals' = signals - 1
  /\ Reads(Glib, Idle)
  /\ UNCHANGED <<address, sinkService, booted, ops, wanted, announced, targeted>>
OnStackStarted ==  \* on the GLib loop
  /\ CallsAt(Glib, "idle")
  /\ signals > 0
  /\ signals' = signals - 1
  /\ Reads(Glib, Idle)
  /\ UNCHANGED <<address, sinkService, booted, ops, wanted, announced, targeted>>

Assign(t) ==
  /\ At(t, "assign")
  /\ address' = thread[t].seen[1]
  /\ Blame(IF address' = node.address THEN {} ELSE {"crossed"})
  /\ Finishes(t, thread[t], thread[t].result)
  /\ UNCHANGED <<signals, sinkService, node, booted, ops, troubles, wanted, announced,
                 targeted>>

(* set_target_scratchpad with neither sequence nor CRC given: the local     *)
(* ones, read one after the other from the sink service's copy.             *)
LocalScratchpadProcessed == otap.processed
LocalScratchpad == otap.stored
DefaultTarget(t) ==
  /\ \E me \in Calling(t, "sequence") \union Calling(t, "crc") :
       LET seen == Append(me.seen, LocalScratchpad)
       IN  CASE me.pc = "sequence" ->
                  Update(t, [me EXCEPT !.seen = seen, !.pc = "crc"]) /\ UNCHANGED undone
             [] me.pc = "crc" /\ seen[1] = 0 -> Finishes(t, me, "invalid_param")
             [] OTHER -> Update(t, [me EXCEPT !.seen = seen, !.pc = "target"]) /\ UNCHANGED undone
  /\ Counts(t)
  /\ UNCHANGED <<address, signals, sinkService, node, booted, troubles, wanted, causes,
                 announced, targeted>>

SetTarget(t) ==
  /\ CallsAt(t, "target")
  /\ \E o \in TargetWrite :
       Takes(o) /\ Finishes(t, thread[t], ConvertErrorCode(TargetLUT, o.res))
  /\ targeted' = [seq |-> thread[t].seen[1], crc |-> thread[t].seen[2], stored |-> node.stored]
  /\ UNCHANGED <<address, signals, sinkService, booted, ops, wanted, causes, announced>>

(* The longer calls: SetStackState, UploadScratchpad, ProcessScratchpad.    *)
Called(me) == CASE me.pc = "stop" -> "stop"
                [] me.pc = "restart" -> "start"
                [] me.pc = "change" -> IF NewState(me) THEN "start" ELSE "stop"
                [] me.pc = "work" -> me.request.kind
Entry(task) == CASE task = "start" -> "request"
                 [] task = "stop" -> "autostart"
                 [] task = "upload" -> "begin"
                 [] task = "process" -> "update"
Call(t) ==
  /\ Free
  /\ thread[t].pc \in {"stop", "restart", "change"} \/ (At(t, "work") /\ ~IsConfig(thread[t]))
  /\ LET me == thread[t]
     IN  /\ service' = [NoCall EXCEPT !.task = Called(me), !.step = Entry(Called(me)),
                                      !.caller = t, !.seq = me.number]
         /\ Update(t, [me EXCEPT !.stopped = @ \/ me.pc = "stop"])
         /\ wanted' = IF me.pc = "change" THEN Wants(t) ELSE wanted
         /\ Blame(IF me.pc = "work" THEN {} ELSE Overlap(Relying(t)))
  /\ UNCHANGED <<address, signals, polling, config, otap, node, booted, ops, troubles,
                 announced, undone, targeted>>
-----------------------------------------------------------------------------
(* The sink service's D-Bus thread.                                         *)
Serving(task, step) == service.task = task /\ service.step = step
Goes(step) == service' = [service EXCEPT !.step = step]

(* The reply, and what the caller does with it.  SetStackState answers a    *)
(* boolean, which the transport does not look at.                           *)
Reply(good) ==
  /\ service' = NoCall
  /\ LET t == service.caller
         me == [thread[t] EXCEPT !.did = @ \union service.did]
         worked == [me EXCEPT !.result = IF good THEN @ ELSE "error"]
     IN  IF t = Nobody THEN UNCHANGED <<thread, undone>>
         ELSE CASE me.pc = "stop" -> Moves(t, "work") /\ UNCHANGED undone
                [] me.pc = "change" ->
                     Update(t, [me EXCEPT !.pc = "readback"]) /\ UNCHANGED undone
                [] me.pc = "restart" -> Finishes(t, me, me.result)
                [] me.pc = "work" ->
                     IF me.stopped THEN /\ Update(t, [worked EXCEPT !.pc = "restart"])
                                        /\ UNCHANGED undone
                     ELSE Finishes(t, me, worked.result)

(* StackStarted has the address read again, StackStopped changes nothing here. *)
Signal(name) == /\ signals' = IF name = "StackStarted" THEN signals + 1 ELSE signals
                /\ announced' = TRUE
NoSignal == UNCHANGED <<signals, announced>>

(* History: the node is in the state asked for. *)
Reached(on, o) ==
  IF service.task \in {"start", "stop"} /\ o.node.running = on THEN {"stack"} ELSE {}

(* WPC_start_stack: the request, then the status within two seconds. *)
StartStack ==
  /\ Serving("start", "request")
  /\ \E o \in StackStart : \E late \in 0 .. 1 :
       /\ late = 0 \/ o.res = 0
       /\ Takes([o EXCEPT !.cost = @ + late])
       /\ service' = [service EXCEPT !.did = @ \union Reached(TRUE, o),
                                      !.step = "autostart", !.ok = o.res = 0 /\ late = 0]
       /\ announced' = (announced /\ o.node.running = node.running)
       /\ Blame(IF service'.ok THEN {} ELSE {"not_started"})
  /\ UNCHANGED <<thread, address, signals, polling, config, otap, booted, ops, wanted,
                 undone, targeted>>

AutostartBlame(o) == IF o.res = 0 THEN {} ELSE {"autostart"}  \* its result is not looked at
SetAutostartFirst ==
  /\ Serving("start", "autostart")
  /\ \E o \in AutostartWrite(TRUE) :
       /\ Takes(o) /\ Blame(AutostartBlame(o))
       /\ IF service.ok /\ o.res = 0 THEN Signal("StackStarted") ELSE NoSignal
  /\ Reply(service.ok)
  /\ UNCHANGED <<address, polling, config, otap, booted, ops, wanted, targeted>>
SetAutostart ==
  /\ Serving("start", "autostart")
  /\ \E o \in AutostartWrite(TRUE) : Takes(o) /\ Blame(AutostartBlame(o))
  /\ IF service.ok THEN Signal("StackStarted") ELSE NoSignal
  /\ Reply(service.ok)
  /\ UNCHANGED <<address, polling, config, otap, booted, ops, wanted, targeted>>

ClearAutostart ==
  /\ Serving("stop", "autostart")
  /\ \E o \in AutostartWrite(FALSE) : Takes(o) /\ Blame(AutostartBlame(o))
  /\ Goes("request")
  /\ UNCHANGED <<thread, address, signals, polling, config, otap, booted, ops, wanted,
                 announced, undone, targeted>>

(* WPC_stop_stack: polls are disabled until it returns.  A request without  *)
(* answer is taken for one whose confirm was lost in the reboot.            *)
StopRequest ==
  /\ Serving("stop", "request") \/ Serving("process", "request")
  /\ polling' = FALSE
  /\ \E o \in StackStop :
       /\ Takes(o)
       /\ service' = IF o.res \in {1, Denied}
                       THEN [service EXCEPT !.did = @ \union Reached(FALSE, o),
                                            !.step = "resume", !.ok = FALSE]
                       ELSE [service EXCEPT !.did = @ \union Reached(FALSE, o), !.step = "wait"]
       /\ Blame(CASE o.res = NoAnswer /\ (o.node.up \/ o.node.running) -> {"lost_stop"}
                  [] o.res = Denied -> {"denied"}
                  [] OTHER -> {})
       /\ announced' = (announced /\ o.node.running = node.running)
  /\ UNCHANGED <<thread, address, signals, config, otap, booted, ops, wanted, undone,
                 targeted>>

StopWait ==  \* get_statck_status: any answer will do
  /\ Serving("stop", "wait") \/ Serving("process", "wait")
  /\ \E answered \in BOOLEAN :
       /\ answered => node.up
       /\ Takes([node |-> node, cost |-> IF answered THEN 0 ELSE 1])
       /\ service' = [service EXCEPT !.step = "resume", !.ok = answered]
       /\ Blame(IF answered THEN {} ELSE {"slow"})
  /\ UNCHANGED <<thread, address, signals, polling, config, otap, booted, ops, wanted,
                 announced, undone, targeted>>

StopDone ==
  /\ Serving("stop", "resume") \/ Serving("process", "resume")
  /\ polling' = TRUE
  /\ IF service.task = "process" /\ service.ok
       THEN Goes("read") /\ UNCHANGED <<thread, signals, announced, undone>>
       ELSE /\ Reply(service.ok)
            /\ IF service.task = "stop" /\ service.ok THEN Signal("StackStopped") ELSE NoSignal
  /\ UNCHANGED <<address, config, otap, node, booted, ops, troubles, wanted, causes,
                 targeted>>

UploadBegin ==  \* WPC_upload_local_scratchpad
  /\ Serving("upload", "begin")
  /\ \E o \in ScratchpadStart(service.seq) :
       /\ Takes(o)
       /\ IF ConvertErrorCode(ScratchpadStartLUT, o.res) = "ok"
            THEN Goes("block") /\ UNCHANGED <<thread, undone>>
            ELSE Reply(FALSE)
       /\ Blame(IF o.res = NoAnswer THEN {"partial"} ELSE {})
  /\ UNCHANGED <<address, signals, polling, config, otap, booted, ops, wanted,
                 announced, targeted>>

UploadBlock ==  \* fetched counts the blocks loaded
  /\ Serving("upload", "block")
  /\ \E o \in ScratchpadBlock(service.fetched) :
       /\ Takes(o)
       /\ IF ConvertErrorCode(ScratchpadBlockLUT, o.res) = "ok"
            THEN /\ LET loaded == service.fetched + 1
                    IN  service' = [service EXCEPT !.fetched = loaded,
                                     !.step = IF loaded = Blocks THEN "read" ELSE "block",
                                     !.did = IF o.node.stored = service.seq
                                               THEN {"upload"} ELSE {}]
                 /\ UNCHANGED <<thread, causes, undone>>
            ELSE Reply(FALSE) /\ Blame({"partial"})
  /\ UNCHANGED <<address, signals, polling, config, otap, booted, ops, wanted,
                 announced, targeted>>

UpdateScratchpad ==
  /\ Serving("process", "update")
  /\ \E o \in ScratchpadUpdate :
       /\ Takes(o)
       /\ IF ConvertErrorCode(ScratchpadUpdateLUT, o.res) = "ok"
            THEN Goes("request") /\ UNCHANGED <<thread, undone>>
            ELSE Reply(FALSE)
       /\ Blame(IF o.res = NoAnswer THEN {"partial"} ELSE {})
  /\ UNCHANGED <<address, signals, polling, config, otap, booted, ops, wanted, announced,
                 targeted>>

(* initialize_unmodifiable_variables of otap.c: the values on the bus. *)
Reread ==
  \E o \in ScratchpadStatusRead :
    /\ Takes(o)
    /\ IF o.res = 0
         THEN /\ otap' = [stored |-> node.stored, processed |-> node.processed]
              /\ Blame(IF \E t \in Clients : thread[t].pc \in {"crc", "target"}
                         THEN {"crossed_target"} ELSE {})
         ELSE UNCHANGED otap /\ Blame({"unread"})

ReadScratchpadNot ==
  /\ Serving("upload", "read") \/ Serving("process", "read")
  /\ Reply(TRUE)
  /\ UNCHANGED <<address, signals, polling, config, otap, node, troubles, causes, booted, ops,
                 wanted, announced, targeted>>
ReadScratchpad ==
  /\ Serving("upload", "read") \/ Serving("process", "read")
  /\ Reread
  /\ Reply(TRUE)
  /\ UNCHANGED <<address, signals, polling, config, booted, ops, wanted, announced,
                 targeted>>

(* Config_Init registers for boot indications before it reads; a value is   *)
(* read under the lock and stored without it.  Otap_Init follows.           *)
Register ==
  /\ Serving("init", "register")
  /\ Goes("config")
  /\ UNCHANGED <<thread, address, signals, polling, config, otap, node, booted, ops,
                 troubles, history>>

ConfigRead ==
  /\ Serving("init", "config")
  /\ \E o \in FirmwareVersionRead :
       /\ Takes(o)
       /\ service' = [service EXCEPT !.step = "store",
                        !.fetched = IF o.res = 0 THEN node.processed ELSE config]
       /\ Blame(IF o.res = 0 THEN {} ELSE {"unread"})
  /\ UNCHANGED <<thread, address, signals, polling, config, otap, booted, ops, wanted,
                 announced, undone, targeted>>

ConfigStore ==
  /\ Serving("init", "store")
  /\ config' = service.fetched
  /\ service' = [service EXCEPT !.step = "otap", !.fetched = 0]
  /\ Blame(IF config' = node.processed THEN {} ELSE {"crossed_init"})
  /\ UNCHANGED <<thread, address, signals, polling, otap, node, booted, ops, troubles,
                 wanted, announced, undone, targeted>>

OtapInit ==
  /\ Serving("init", "otap")
  /\ Reread
  /\ service' = NoCall
  /\ UNCHANGED <<thread, address, signals, polling, config, booted, ops, wanted,
                 announced, undone, targeted>>
-----------------------------------------------------------------------------
(* The poll and dispatch threads: a boot indication is polled and handled,  *)
(* get_indication, on_stack_boot_status.  What the dispatch thread reads is *)
(* the newest: its store is one step with its read.                         *)
BootIndication ==
  /\ polling /\ node.up
  /\ booted # <<>>
  /\ booted' = Tail(booted)
  /\ IF Serving("init", "register")  \* nobody is registered for it yet
       THEN UNCHANGED <<config, signals, node, troubles, causes, announced>>
       ELSE /\ \E o \in FirmwareVersionRead :
                 /\ Takes(o)
                 /\ config' = IF o.res = 0 THEN node.processed ELSE config
                 /\ Blame(IF o.res = 0 THEN {} ELSE {"unread"})
            /\ Signal(IF Head(booted) THEN "StackStarted" ELSE "StackStopped")
  /\ UNCHANGED <<thread, address, service, polling, otap, ops, wanted, undone, targeted>>
-----------------------------------------------------------------------------
(* What the program does not control. *)
NodeBoots ==
  /\ ~node.up
  /\ node' = [node EXCEPT !.up = TRUE, !.marked = FALSE,
                          !.processed = IF node.marked THEN node.stored ELSE @]
  /\ booted' = Append(booted, node.running)
  /\ service' = IF node.marked /\ service.task = "process" /\ service.step # "update"
                  THEN [service EXCEPT !.did = {"process"}] ELSE service
  /\ UNCHANGED <<thread, address, signals, polling, config, otap, ops, troubles, history>>

(* A power cycle; a reconfiguration, or a scratchpad, from the network.     *)
NodeReboots ==
  /\ node.up
  /\ \E cause \in {"reboot", "remote_api", "remote_otap"} :
       /\ cause = "reboot" \/ node.running
       /\ Takes([cost |-> 1,
                 node |-> [node EXCEPT !.up = FALSE, !.loading = NotLoading,
                             !.running = node.autostart /\ node.address # Unset,
                             !.address = IF cause = "remote_api" THEN Reconfigured ELSE @,
                             !.stored = IF cause = "remote_otap" THEN RemoteSeq ELSE @,
                             !.marked = @ \/ cause = "remote_otap"]])
       /\ Blame((IF cause = "remote_otap" THEN {cause} ELSE {})
                \union (IF service.task \in {"none", "init"} /\ \A t \in Clients : At(t, "idle")
                          THEN {} ELSE {"interrupted"}))
  /\ announced' = (announced /\ node'.running = node.running)
  /\ UNCHANGED <<thread, address, signals, sinkService, booted, ops, wanted, undone, targeted>>

(* The transport service ends and is started again; a call it made is       *)
(* served to its end.                                                       *)
TransportDies ==
  /\ \E t \in Clients : ~At(t, "idle")
  /\ Takes([node |-> node, cost |-> 1])
  /\ thread' = [t \in Threads |-> Idle]
  /\ address' = Unset /\ signals' = 0
  /\ service' = [service EXCEPT !.caller = Nobody]
  /\ Blame({"crash"})
  /\ UNCHANGED <<polling, config, otap, booted, ops, wanted, announced, undone,
                 targeted>>
-----------------------------------------------------------------------------
ThreadStep(t) ==
  \/ Capture(t) \/ Check(t) \/ WriteItem(t) \/ Restore(t) \/ Readback(t) \/ Assign(t)
  \/ DefaultTarget(t) \/ SetTarget(t) \/ Call(t)

ServiceStep ==
  \/ StartStack \/ SetAutostart \/ ClearAutostart \/ StopRequest \/ StopWait \/ StopDone
  \/ UploadBegin \/ UploadBlock \/ UpdateScratchpad \/ ReadScratchpad
  \/ Register \/ ConfigRead \/ ConfigStore \/ OtapInit

Next ==
  \/ \E t \in Threads : ThreadStep(t)
  \/ OnStackStarted \/ ServiceStep \/ BootIndication
  \/ NodeBoots \/ NodeReboots \/ TransportDies

Spec == Init /\ [][Next]_vars
-----------------------------------------------------------------------------
Results == {"ok", "error"}
Steps == {"none", "register", "config", "store", "otap", "request", "autostart", "wait",
          "resume", "begin", "block", "update", "read"}
Places == {"idle", "capture", "check", "stop", "work", "restore", "change", "readback",
           "assign", "restart", "sequence", "crc", "target"}
Tasks == {"none", "init", "start", "stop", "upload", "process"}
Causes == {"overlap", "unread", "crossed", "not_started", "autostart", "lost_stop", "denied",
           "slow", "partial", "crossed_target", "crossed_init", "remote_otap",
           "interrupted", "crash"}
Work == Items \union {"upload", "process", "stack"}
Values == 0 .. Preset
ThreadType ==
  [pc : Places, request : Requests \union {NoRequest}, number : 0 .. MaxOps,
   todo : Seq(Items), captured : BOOLEAN, stopped : BOOLEAN, result : Results,
   seen : Seq(Values), did : SUBSET Work]
ServiceType ==
  [task : Tasks, step : Steps, caller : Clients \union {Nobody}, seq : 0 .. MaxOps,
   ok : BOOLEAN, fetched : Nat, did : SUBSET Work]
NodeType ==
  [up : BOOLEAN, running : BOOLEAN, autostart : BOOLEAN, address : Values,
   loading : [seq : 0 .. MaxOps, next : 0 .. Blocks - 1], marked : BOOLEAN,
   stored : Values, processed : Values]

(* The variables stay in their ranges.                                      *)
TypeOK ==
  /\ thread \in [Threads -> ThreadType]
  /\ address \in Values /\ signals \in Nat
  /\ service \in ServiceType /\ polling \in BOOLEAN
  /\ config \in Values /\ otap \in [stored : Values, processed : Values]
  /\ node \in NodeType /\ booted \in Seq(BOOLEAN)
  /\ ops \in 0 .. MaxOps /\ troubles \in 0 .. MaxTroubles
  /\ wanted \in BOOLEAN /\ causes \subseteq Causes /\ announced \in BOOLEAN
  /\ undone \subseteq Work /\ targeted \in [seq : Values, crc : Values, stored : Values]

(* Nothing is going on: no operation, no call, no boot, no signal. *)
AtRest ==
  /\ \A t \in Threads : At(t, "idle")
  /\ signals = 0 /\ Free /\ node.up /\ booted = <<>>
Without(excuses) == causes \intersect excuses = {}

(* "Set stack in state defined by new config or set it as it was            *)
(* previously" (sink_manager.py:295), and so restart, in an upload and a    *)
(* processing: at rest the stack is in the state last asked for, and so it  *)
(* comes up after a reboot.  What may leave it otherwise is all here: two   *)
(* operations that overlap, a status that could not be read, a start or a   *)
(* stop that failed or whose request was lost, an autostart that was not    *)
(* written, a reboot in the middle, the end of the transport service.       *)
StackLeftAsWanted ==
  AtRest /\ Without({"overlap", "unread", "not_started", "lost_stop", "denied", "autostart",
                      "interrupted", "crash"})
    => node.running = wanted /\ node.autostart = wanted

(* What is reported done has been done by the node, whatever overlaps, is   *)
(* lost or reboots; but for two things.  The processing of a scratchpad is  *)
(* reported done when the stop request that should start it was lost: a     *)
(* confirm is not expected (wpc.c:597), and any answer to the status proves *)
(* the reboot.  And the state of the stack, asked for or restored, counts   *)
(* as set whatever SetStackState answers (sink_manager.py:310): a start or  *)
(* a stop that the node refused, or that was lost, is reported GW_RES_OK.   *)
Excused ==
  (IF "lost_stop" \in causes THEN {"process"} ELSE {})
  \union (IF Without({"not_started", "denied", "lost_stop"}) THEN {} ELSE {"stack"})
OkMeansDone == undone \subseteq Excused

(* At rest the copies the sink service keeps are the node's: the attributes *)
(* that a new firmware changes, unless Config_Init stored what it had read  *)
(* before a boot indication was handled; the scratchpad, which is read      *)
(* after uploads and processings that succeed, so not when it changes by    *)
(* itself, or by one that fails half way.                                   *)
ServiceCachesFollowNode ==
  AtRest /\ Without({"unread"})
    => /\ config = node.processed \/ "crossed_init" \in causes
       /\ \/ otap = [stored |-> node.stored, processed |-> node.processed]
          \/ ~Without({"partial", "slow", "denied", "lost_stop", "remote_otap",
                         "interrupted"})

(* The sequence and the CRC of a target set by default are of one           *)
(* scratchpad, the one the node stores, unless another upload ends between  *)
(* the two reads and the write, or the copy they are read from is old.      *)
DefaultTargetIsStored ==
  \/ targeted.seq = targeted.crc /\ targeted.crc = targeted.stored
  \/ ~Without({"crossed_target", "partial", "unread", "remote_otap"})

(* While the stack runs, the network address with which the transport tags  *)
(* the messages of a sink is the node's, also after a reconfiguration over  *)
(* the network; unless two threads cross, one reading before the change and *)
(* assigning after it.                                                      *)
AddressCacheFollows ==
  AtRest /\ node.running /\ address # Unset /\ Without({"unread", "crossed", "not_started"})
    => address = node.address

(* No change of the state of the stack goes without a signal, from which    *)
(* the transport publishes the state of the sink, except a start that       *)
(* answered late or whose confirm was lost.                                 *)
ChangeIsSignalled == AtRest => announced \/ ~Without({"not_started"})

(* An operation that overlaps with no other, and meets no trouble, does not *)
(* fail: what needs a stopped stack is done while it is stopped.  (The      *)
(* processing fails when no scratchpad is stored.)                          *)
ErrorsHaveCauses ==
  \A t \in Clients :
    thread[t].result = "error" /\ thread[t].request.kind # "process"
      => troubles > 0 \/ ~Without({"overlap"})
=============================================================================
