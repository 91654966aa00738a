------------------------------ MODULE Gateway ------------------------------
(***************************************************************************)
(* The transport service around its sinks: which sinks it knows            *)
(* (sink_manager.py), the status it publishes of them and the monitor that *)
(* keeps their traffic away while nothing can be published (transport_     *)
(* service.py), and the queue and thread through which everything is       *)
(* published (mqtt_wrapper.py).                                            *)
(*                                                                         *)
(* These threads share its state: the GLib main loop, which handles the    *)
(* D-Bus signals; the C extension's thread, which hands over received      *)
(* data; the MQTT wrapper; the black-hole monitor; the thread that updates *)
(* the status after a delay; and the main thread while it constructs the   *)
(* service.  What is published is a status, or another message (a          *)
(* response, received data) whose content does not matter here.            *)
(*                                                                         *)
(* The broker, paho and the sink services are outside this module.  paho   *)
(* (1.4.0, requirements.txt) keeps what it is given until it is            *)
(* acknowledged, sends it again after a reconnection, and logs what a      *)
(* callback raises; the broker publishes the last will when the link goes. *)
(* The configuration of a sink is the state of its stack and its role here; *)
(* SinkControl has the operations on a sink step by step.                  *)
(***************************************************************************)
EXTENDS Integers, Sequences

CONSTANTS
  Sinks,      \* names of sink services, com.wirepas.sink.<name>
  None,       \* no status: Python's None
  Offline,    \* the last will
  Attempts,   \* 5: new reads of the status while it is partial
  MaxEvents   \* bound: changes from outside, reads without answer, holes

Read == {"on", "off", "unread"}  \* what is known of a stack
Statuses == SUBSET (Sinks \X Read)

ASSUME GatewayAssumption ==
  /\ Attempts \in Nat /\ MaxEvents \in Nat
  /\ None # Offline /\ \A configs \in Statuses : configs \notin {None, Offline}

VARIABLES
  \* outside
  node,         \* per sink: its service is on the bus, its stack started, its cost
  wanted,       \* per sink: the state of the stack its operator asked for
  role,         \* nodes in a sink role: others refuse a cost
  signals,      \* D-Bus signals the GLib loop has not taken yet
  link,         \* the connection with the broker
  retained,     \* the status the broker retains
  events,       \* so far
  \* chosen at the start
  monitored,    \* a buffering limit is set: there is a monitor
  stop_stack,   \* buffering_stop_stack, of no effect without one
  \* the transport service
  main,         \* what the main thread does
  sinks,        \* SinkManager.sinks
  cache,        \* Sink._last_config_dict
  glib,         \* the GLib loop
  receiver,     \* the C extension's thread
  monitor,      \* the monitor's thread
  disconnected, \* ConnectionToBackendMonitorThread.disconnected
  queue,        \* SelectableQueue, then paho: put and not acknowledged yet
  size,         \* PublishMonitor._size
  setter,       \* in _set_status: the MQTT wrapper's thread, set_status_after_delay
  scheduled,    \* _is_update_status_scheduled
  last,         \* _last_status_config
  \* history
  failed,       \* sinks where the last write of the cost had no effect, or with
                \* stop_stack of the state of the stack
  causes        \* what has gone wrong

outside == <<node, wanted, role, signals, link, retained, events>>
chosen == <<monitored, stop_stack>>
status == <<setter, scheduled, last>>
publishing == <<queue, size, receiver>>
hole == <<monitor, disconnected>>
vars == <<outside, chosen, main, sinks, cache, glib, hole, publishing, status, failed, causes>>

GlibIdle == [pc |-> "idle", sink |-> None, flag |-> FALSE]
Asleep == [pc |-> "sleep", todo |-> {}]
Busy == monitor.pc \in {"raise", "lower"}
Setters == {"wrapper", "updater"}
SetterIdle == [pc |-> "idle", configs |-> None, partial |-> FALSE, attempt |-> 0]
Dead == [SetterIdle EXCEPT !.pc = "raised"]

(* A process begins: nothing is known and nothing queued. *)
Begins ==
  /\ main' = "list" /\ sinks' = {} /\ cache' = [s \in Sinks |-> "unread"]
  /\ glib' = GlibIdle /\ monitor' = [Asleep EXCEPT !.pc = "new"] /\ disconnected' = FALSE
  /\ queue' = <<>> /\ size' = 0 /\ receiver' = "idle"
  /\ setter' = [t \in Setters |-> SetterIdle] /\ scheduled' = FALSE /\ last' = None

Init ==
  /\ node \in [Sinks -> [on : BOOLEAN, started : {TRUE}, cost : {"unset"}]]
  /\ wanted = [s \in Sinks |-> TRUE]
  /\ signals = <<>> /\ link = FALSE /\ retained = Offline /\ events = 0
  /\ role \in SUBSET Sinks /\ monitored \in BOOLEAN /\ stop_stack \in {FALSE, monitored}
  /\ main = "list" /\ sinks = {} /\ cache = [s \in Sinks |-> "unread"]
  /\ glib = GlibIdle /\ monitor = [Asleep EXCEPT !.pc = "new"] /\ disconnected = FALSE
  /\ queue = <<>> /\ size = 0 /\ receiver = "idle"
  /\ setter = [t \in Setters |-> SetterIdle] /\ scheduled = FALSE /\ last = None
  /\ failed = {} /\ causes = {}

Blame(what) == causes' = causes \union what
-----------------------------------------------------------------------------
(* The main thread finds the sinks already on the bus, then subscribes to   *)
(* NameOwnerChanged; after that the threads start.                          *)
OnBus == {s \in Sinks : node[s].on}

(* The monitor goes through the sinks it knew when it began, and then sets the *)
(* flag.  *)
Visits(why, todo) ==
  IF todo = {} THEN monitor' = Asleep /\ disconnected' = (why = "raise")
  ELSE monitor' = [pc |-> why, todo |-> todo] /\ UNCHANGED disconnected

ListNames ==
  /\ main = "list"
  /\ main' = "subscribe" /\ sinks' = OnBus
  /\ UNCHANGED <<outside, chosen, cache, glib, hole, publishing, status, failed, causes>>

Subscribe ==
  /\ main = "subscribe"
  /\ main' = "run"
  /\ IF monitored THEN Visits("start", sinks) ELSE UNCHANGED hole
  /\ Blame(IF sinks = OnBus THEN {} ELSE {"missed"})
  /\ UNCHANGED <<outside, chosen, sinks, cache, glib, publishing, status, failed>>
-----------------------------------------------------------------------------
(* read_config.  A node that does not answer leaves the value of the cache, *)
(* if there is one; a service that is gone raises, since the firmware       *)
(* version is read outside any try.                                         *)
State(s) == IF node[s].started THEN "on" ELSE "off"
Raises(read) == ~(read \subseteq OnBus)
Reads(read, silent) ==
  cache' = [s \in Sinks |-> IF s \in read \ silent THEN State(s) ELSE cache[s]]
Configs(silent) == {<<s, IF s \in silent THEN cache[s] ELSE State(s)>> : s \in sinks}

Happens == events < MaxEvents /\ events' = events + 1

(* publish: the queue and the count are updated one after the other.  What  *)
(* a thread does after that until it touches shared state again goes with   *)
(* the count.                                                               *)
Puts(payload) == queue' = Append(queue, payload)
CountsClamped == size' = (IF size < 0 THEN 0 ELSE size) + 1
Counts == size' = size + 1

(* _set_status, by the wrapper when it is connected and by the updater,     *)
(* which reads again while the status is partial and then ends.             *)
At(t, where) == setter[t].pc = where
Moves(t, me) == setter' = [setter EXCEPT ![t] = me]
Ends(t, retry) ==
  LET attempt == setter[t].attempt
  IN  IF t = "updater" /\ retry /\ attempt < Attempts
        THEN Moves(t, [SetterIdle EXCEPT !.pc = "read", !.attempt = attempt + 1])
             /\ UNCHANGED scheduled
        ELSE Moves(t, SetterIdle) /\ scheduled' = (scheduled /\ t # "updater")

ReadConfigs(t) ==
  /\ At(t, "read")
  /\ IF Raises(sinks)
       THEN /\ Moves(t, IF t = "wrapper" THEN SetterIdle ELSE Dead)
            /\ UNCHANGED <<cache, events, causes>>
       ELSE \E silent \in {{}} \union {{s} : s \in sinks} :
              /\ IF silent = {} THEN UNCHANGED events ELSE Happens
              /\ Blame(IF \E s \in silent : t = "wrapper" \/ cache[s] = "unread"
                         THEN {"unretried"} ELSE {})
              /\ Reads(sinks, silent)
              /\ Moves(t, [setter[t] EXCEPT !.pc = "publish", !.configs = Configs(silent),
                             !.partial = \E s \in silent : cache[s] # "unread"])
  /\ UNCHANGED <<node, wanted, role, signals, link, retained, chosen, main, sinks, glib, hole,
                 publishing, scheduled, last, failed>>

Crossing(t) ==
  IF \E o \in Setters \ {t} :
       setter[o].pc \in {"publish", "count"} \/ (o = "wrapper" /\ At(o, "read"))
    THEN {"crossed_status"} ELSE {}

PublishStatus(t) ==  \* only if something has changed
  /\ At(t, "publish")
  /\ IF last = setter[t].configs
       THEN /\ Ends(t, FALSE) /\ UNCHANGED queue
            /\ Blame(IF setter[t].partial THEN {"unretried"} ELSE {})
       ELSE /\ Moves(t, [setter[t] EXCEPT !.pc = "count"])
            /\ Puts(setter[t].configs) /\ UNCHANGED scheduled
            /\ Blame(Crossing(t))
  /\ UNCHANGED <<outside, chosen, main, sinks, cache, glib, hole, size, receiver, last, failed>>

CountStatus(t) ==
  /\ At(t, "count")
  /\ Counts
  /\ last' = setter[t].configs
  /\ Ends(t, setter[t].partial)
  /\ Blame(Crossing(t) \union IF setter[t].partial /\ setter[t].attempt = Attempts
                                THEN {"unretried"} ELSE {})
  /\ UNCHANGED <<outside, chosen, main, sinks, cache, glib, hole, queue, receiver, failed>>
-----------------------------------------------------------------------------
(* The GLib loop: _on_name_owner_changed, on_sink_connected and             *)
(* on_sink_disconnected, on_stack_started and on_stack_stopped.             *)
Handling(kind) ==
  /\ main = "run" /\ glib.pc = "idle" /\ signals # <<>>
  /\ Head(signals).kind = kind
  /\ signals' = Tail(signals)
GlibGoes(where) == glib' = [glib EXCEPT !.pc = where]

(* The response to the configuration that changed, unless a sink is gone.   *)
(* These reads are answered; ReadConfigs has the ones that are not.         *)
Responds(read) ==
  IF Raises(read) THEN glib' = GlibIdle /\ UNCHANGED <<cache, queue>>
  ELSE GlibGoes("count") /\ Reads(read, {}) /\ Puts(None)

AddSink ==  \* initialize_sink reads the flag
  /\ Handling("added")
  /\ LET s == Head(signals).sink
     IN  IF s \in sinks \/ ~node[s].on  \* already in the list; or gone, and the proxy raises
           THEN UNCHANGED <<sinks, cache, glib>>
           ELSE /\ sinks' = sinks \union {s}
                /\ cache' = [cache EXCEPT ![s] = "unread"]
                /\ glib' = [pc |-> "set", sink |-> s, flag |-> disconnected]
  /\ UNCHANGED <<node, wanted, role, link, retained, events, chosen, main, hole, publishing,
                 status, failed, causes>>

(* The setter of the cost.  A node that is not a sink refuses: ValueError.   *)
(* Any other failure is logged, and the caller goes on (sink_manager.py:347). *)
RefusesCost(s) == node[s].on /\ s \notin role
SetsCost(s, cost) ==
  \/ ~node[s].on /\ UNCHANGED <<node, failed, events>>
  \/ /\ node[s].on /\ s \in role
     /\ node' = [node EXCEPT ![s].cost = cost]
     /\ failed' = (IF stop_stack THEN failed ELSE failed \ {s}) /\ UNCHANGED events
  \/ /\ node[s].on /\ Happens
     /\ failed' = (IF stop_stack THEN failed ELSE failed \union {s}) /\ UNCHANGED node

(* initialize_sink, or on_sink_connected itself when there is no monitor.    *)
(* The ValueError ends the handler there and is caught here (:551).          *)
Initializes(cost) ==
  /\ glib.pc = "set"
  /\ LET s == glib.sink
         crossed == IF ~stop_stack /\ (Busy \/ glib.flag # disconnected)
                      THEN {"crossed_hole"} ELSE {}
     IN  \/ /\ IF stop_stack THEN UNCHANGED <<node, failed, events>> ELSE SetsCost(s, cost)
            /\ Responds(sinks) /\ Blame(crossed)
         \/ /\ ~stop_stack /\ RefusesCost(s)
            /\ failed' = failed \union {s} /\ UNCHANGED <<node, events>>
            /\ IF monitored THEN glib' = GlibIdle /\ UNCHANGED <<cache, queue>>
               ELSE Responds(sinks)
            /\ Blame(crossed \union IF monitored THEN {"refused"} ELSE {})
  /\ UNCHANGED <<wanted, role, signals, link, retained, chosen, main, sinks, hole, size, receiver,
                 status>>
InitializeSinkLow == Initializes("low")
InitializeSink == Initializes(IF glib.flag THEN "high" ELSE "low")

RemoveSink ==
  /\ Handling("removed")
  /\ LET s == Head(signals).sink
     IN  /\ sinks' = sinks \ {s}
         /\ IF s \in sinks THEN Responds(sinks \ {s}) ELSE UNCHANGED <<glib, cache, queue>>
  /\ UNCHANGED <<node, wanted, role, link, retained, events, chosen, main, hole, size, receiver,
                 status, failed, causes>>

StackChangedUnreported ==  \* a signal of a sink that was removed in between is not delivered
  /\ Handling("stack")
  /\ UNCHANGED <<glib, cache, queue>>
  /\ UNCHANGED <<node, wanted, role, link, retained, events, chosen, main, sinks, hole, size,
                 receiver, status, failed, causes>>

StackChanged ==  \* a signal of a sink that was removed in between is not delivered
  /\ Handling("stack")
  /\ LET s == Head(signals).sink
     IN  IF s \in sinks THEN Responds({s}) ELSE UNCHANGED <<glib, cache, queue>>
  /\ UNCHANGED <<node, wanted, role, link, retained, events, chosen, main, sinks, hole, size,
                 receiver, status, failed, causes>>

CountResponse ==  \* then _update_status
  /\ glib.pc = "count"
  /\ Counts
  /\ glib' = GlibIdle
  /\ scheduled' = TRUE
  /\ IF scheduled THEN /\ UNCHANGED setter
                       /\ Blame(IF setter["updater"].configs \in {None, Configs({})} THEN {}
                                ELSE {"late"})
     ELSE Moves("updater", [SetterIdle EXCEPT !.pc = "read"]) /\ UNCHANGED causes
  /\ UNCHANGED <<outside, chosen, main, sinks, cache, hole, queue, receiver, last, failed>>

-----------------------------------------------------------------------------
(* on_data_received, on the C extension's thread.  A message from a sink    *)
(* not identified yet, or not any more, is dropped.                         *)
DataReceived(s) ==
  /\ Happens
  /\ main = "run" /\ receiver = "idle"
  /\ s \in sinks
  /\ receiver' = "count" /\ Puts(None)
  /\ UNCHANGED <<node, wanted, role, signals, link, retained, chosen, main, sinks, cache, glib,
                 hole, size, status, failed, causes>>

CountData ==
  /\ receiver = "count"
  /\ Counts
  /\ receiver' = "idle"
  /\ UNCHANGED <<outside, chosen, main, sinks, cache, glib, hole, queue, status, failed, causes>>
-----------------------------------------------------------------------------
(* ConnectionToBackendMonitorThread.  A hole begins when something is not   *)
(* published in time, or is too much, and ends when nothing is left.        *)
Signalled(s) == IF s \in sinks THEN Append(signals, [kind |-> "stack", sink |-> s]) ELSE signals
MonitorOnly == UNCHANGED <<chosen, main, sinks, cache, glib, publishing, status>>

Detect ==  \* the delay is over, or the threshold is reached
  /\ monitor.pc = "sleep" /\ ~disconnected
  /\ size # 0
  /\ Happens
  /\ Visits("raise", sinks)
  /\ UNCHANGED <<node, wanted, role, signals, link, retained, failed, causes>> /\ MonitorOnly

RecoverCostOnly ==
  /\ monitor.pc = "sleep" /\ disconnected
  /\ size = 0
  /\ Visits("lower", IF stop_stack THEN {} ELSE sinks)
  /\ Blame(IF stop_stack /\ \E s \in Sinks \ sinks : wanted[s] /\ ~node[s].started
             THEN {"absent"} ELSE {})
  /\ UNCHANGED <<outside, failed>> /\ MonitorOnly

Recover ==
  /\ monitor.pc = "sleep" /\ disconnected
  /\ size = 0
  /\ Visits("lower", sinks)
  /\ Blame(IF stop_stack /\ \E s \in Sinks \ sinks : wanted[s] /\ ~node[s].started
             THEN {"absent"} ELSE {})
  /\ UNCHANGED <<outside, failed>> /\ MonitorOnly

(* A proxy speaks with whoever has the name: the monitor also visits a sink *)
(* whose initialisation is still to come, because its handler is at work or  *)
(* because the sink went and came back and its removal is not handled yet.   *)
(* It also visits one whose cost could not be written before.                *)
Unprepared(s) ==
  IF \/ s \in failed
     \/ glib.pc = "set" /\ glib.sink = s
     \/ \E i \in DOMAIN signals : signals[i] = [kind |-> "added", sink |-> s]
    THEN {"unprepared"} ELSE {}

SetCostUncaught(s) ==  \* a node that refuses ends the thread
  /\ monitor.pc = "start" \/ (monitor.pc \in {"raise", "lower"} /\ ~stop_stack)
  /\ s \in monitor.todo
  /\ \/ /\ ~node[s].on \/ s \notin role
        /\ monitor' = [pc |-> "raised", todo |-> {}] /\ Blame(Unprepared(s))
        /\ UNCHANGED <<disconnected, node, failed, events>>
     \/ /\ node[s].on /\ SetsCost(s, IF monitor.pc = "raise" THEN "high" ELSE "low")
        /\ Visits(monitor.pc, monitor.todo \ {s}) /\ UNCHANGED causes
  /\ UNCHANGED <<wanted, role, signals, link, retained>> /\ MonitorOnly

SetCost(s) ==  \* a node that refuses ends the thread
  /\ monitor.pc = "start" \/ (monitor.pc \in {"raise", "lower"} /\ ~stop_stack)
  /\ s \in monitor.todo
  /\ \/ /\ RefusesCost(s)
        /\ monitor' = [pc |-> "raised", todo |-> {}] /\ Blame(Unprepared(s))
        /\ UNCHANGED <<disconnected, node, failed, events>>
     \/ /\ SetsCost(s, IF monitor.pc = "raise" THEN "high" ELSE "low")
        /\ Visits(monitor.pc, monitor.todo \ {s}) /\ UNCHANGED causes
  /\ UNCHANGED <<wanted, role, signals, link, retained>> /\ MonitorOnly

(* write_config({"started"}).  What fails is not tried again: the result is    *)
(* ignored (transport_service.py:82-88), the answer of SetStackState too       *)
(* (sink_manager.py:310).  A change whose confirm is lost is not signalled     *)
(* (config.c:331, 341).                                                        *)
WriteStarted(s) ==
  /\ monitor.pc \in {"raise", "lower"} /\ stop_stack
  /\ s \in monitor.todo
  /\ Visits(monitor.pc, monitor.todo \ {s})
  /\ LET start == monitor.pc = "lower"
         changes == node[s].started # start
         against == IF start /\ ~wanted[s] THEN {"started_all"} ELSE {}
     IN  \/ /\ ~node[s].on
            /\ UNCHANGED <<node, signals, failed, events>>
            /\ Blame(IF start THEN {"absent"} ELSE {})
         \/ /\ node[s].on
            /\ node' = [node EXCEPT ![s].started = start] /\ failed' = failed \ {s}
            /\ \/ /\ signals' = IF changes THEN Signalled(s) ELSE signals
                  /\ UNCHANGED events /\ Blame(against)
               \/ /\ changes /\ UNCHANGED signals
                  /\ Happens /\ Blame(against \union {"unsignalled"})
         \/ /\ node[s].on /\ changes
            /\ UNCHANGED <<node, signals, causes>>
            /\ Happens /\ failed' = failed \union {s}
  /\ UNCHANGED <<wanted, role, link, retained>> /\ MonitorOnly
-----------------------------------------------------------------------------
(* The MQTT wrapper: run, _do_select. *)
Wrapper == main = "run" /\ At("wrapper", "idle")

ConnectRemembers ==  \* _get_socket, then paho calls _on_connect
  /\ Wrapper /\ ~link
  /\ link' = TRUE
  /\ Moves("wrapper", [SetterIdle EXCEPT !.pc = "read"])
  /\ Blame(IF At("updater", "count") THEN {"crossed_status"} ELSE {})
  /\ UNCHANGED <<node, wanted, role, signals, retained, events, chosen, main, sinks, cache, glib,
                 hole, publishing, scheduled, last, failed>>

Connect ==  \* _get_socket, then paho calls _on_connect
  /\ Wrapper /\ ~link
  /\ link' = TRUE
  /\ last' = None
  /\ Moves("wrapper", [SetterIdle EXCEPT !.pc = "read"])
  /\ Blame(IF At("updater", "count") THEN {"crossed_status"} ELSE {})
  /\ UNCHANGED <<node, wanted, role, signals, retained, events, chosen, main, sinks, cache, glib,
                 hole, publishing, scheduled, failed>>

OnPublishRetainsAll ==  \* published by the wrapper, acknowledged by the broker
  /\ Wrapper /\ link
  /\ queue # <<>>
  /\ queue' = Tail(queue)
  /\ size' = size - 1
  /\ retained' = Head(queue)
  /\ UNCHANGED <<node, wanted, role, signals, link, events, chosen, main, sinks, cache, glib,
                 receiver, hole, status, failed, causes>>

OnPublish ==  \* published by the wrapper, acknowledged by the broker
  /\ Wrapper /\ link
  /\ queue # <<>>
  /\ queue' = Tail(queue)
  /\ size' = size - 1
  /\ retained' = IF Head(queue) = None THEN retained ELSE Head(queue)
  /\ UNCHANGED <<node, wanted, role, signals, link, events, chosen, main, sinks, cache, glib,
                 receiver, hole, status, failed, causes>>
-----------------------------------------------------------------------------
(* What the transport service does not control. *)
Notified(s, kind) ==
  IF main = "run" THEN Append(signals, [kind |-> kind, sink |-> s]) ELSE signals
OutsideOnly == UNCHANGED <<chosen, main, sinks, cache, glib, hole, publishing, status>>

ServiceChanges(s) ==  \* the sink service of s starts or ends
  /\ Happens
  /\ node' = [node EXCEPT ![s].on = ~@]
  /\ signals' = Notified(s, IF node[s].on THEN "removed" ELSE "added")
  /\ UNCHANGED <<wanted, role, link, retained, failed, causes>> /\ OutsideOnly

OperatorChanges(s) ==  \* starts or stops the stack of s
  /\ Happens
  /\ node[s].on
  /\ node' = [node EXCEPT ![s].started = ~@]
  /\ wanted' = [wanted EXCEPT ![s] = ~node[s].started]
  /\ failed' = IF stop_stack THEN failed \ {s} ELSE failed
  /\ \/ signals' = Signalled(s) /\ UNCHANGED causes
     \/ UNCHANGED signals /\ Blame({"unsignalled"})
  /\ UNCHANGED <<role, link, retained>> /\ OutsideOnly

(* set_config with a node_role: a stack that runs is stopped for it and     *)
(* started again.                                                           *)
RoleChanges(s) ==
  /\ Happens
  /\ node[s].on
  /\ role' = IF s \in role THEN role \ {s} ELSE role \union {s}
  /\ signals' = IF node[s].started /\ s \in sinks
                  THEN signals \o [i \in 1 .. 2 |-> [kind |-> "stack", sink |-> s]]
                  ELSE signals
  /\ Blame(IF s \in role /\ (s \in sinks \/ s \in monitor.todo) THEN {"demoted"} ELSE {})
  /\ UNCHANGED <<node, wanted, link, retained, failed>> /\ OutsideOnly

Disconnect ==
  /\ Happens
  /\ link
  /\ link' = FALSE /\ retained' = Offline
  /\ UNCHANGED <<node, wanted, role, signals, failed, causes>> /\ OutsideOnly

Restart ==  \* the transport service ends, and is started again
  /\ Happens
  /\ main = "run"
  /\ Begins
  /\ signals' = <<>> /\ link' = FALSE /\ retained' = Offline
  /\ causes' = (causes \intersect {"absent", "started_all", "restarted"}) \union
                IF (stop_stack /\ (disconnected \/ Busy)) \/ \E s \in Sinks : node[s].cost = "high"
                  THEN {"restarted"} ELSE {}
  /\ UNCHANGED <<node, wanted, role, chosen, failed>>
-----------------------------------------------------------------------------
Main == ListNames \/ Subscribe
Setter(t) == ReadConfigs(t) \/ PublishStatus(t) \/ CountStatus(t)
Updater == Setter("updater")
Glib == \/ AddSink \/ RemoveSink \/ StackChanged
        \/ InitializeSink \/ CountResponse
Receiver == CountData \/ \E s \in Sinks : DataReceived(s)
Monitor == Detect \/ Recover \/ \E s \in Sinks : SetCost(s) \/ WriteStarted(s)
MqttWrapper == Connect \/ OnPublish \/ Setter("wrapper")
Outside == \/ \E s \in Sinks : ServiceChanges(s) \/ OperatorChanges(s) \/ RoleChanges(s)
           \/ Disconnect \/ Restart

Next == Main \/ Updater \/ Glib \/ Receiver \/ Monitor \/ MqttWrapper \/ Outside

Spec == Init /\ [][Next]_vars
-----------------------------------------------------------------------------
(* Properties.  An excuse names a race or a failure that the code does not  *)
(* handle; RetainedIsRight etc. are false without it.                       *)
Excused(names) == causes \intersect names # {}

Signals == [kind : {"added", "removed", "stack"}, sink : Sinks]
GlibStates == [pc : {"idle", "set", "count"}, sink : Sinks \union {None}, flag : BOOLEAN]
MonitorStates == [pc : {"new", "start", "sleep", "raise", "lower", "raised"}, todo : SUBSET Sinks]
SetterStates == [pc : {"idle", "read", "publish", "count", "raised"},
                 configs : Statuses \union {None}, partial : BOOLEAN, attempt : Nat]
OutsideTypes ==
  /\ node \in [Sinks -> [on : BOOLEAN, started : BOOLEAN, cost : {"unset", "low", "high"}]]
  /\ wanted \in [Sinks -> BOOLEAN]
  /\ signals \in Seq(Signals)
  /\ link \in BOOLEAN /\ events \in Nat
  /\ retained # None /\ retained \in Statuses \union {Offline}
  /\ role \subseteq Sinks /\ monitored \in BOOLEAN /\ stop_stack \in BOOLEAN
  /\ failed \subseteq Sinks
SinkTypes ==
  /\ main \in {"list", "subscribe", "run"}
  /\ sinks \subseteq Sinks /\ cache \in [Sinks -> Read]
  /\ glib \in GlibStates
  /\ glib.pc = "set" => glib.sink \in Sinks
  /\ monitor \in MonitorStates
  /\ disconnected \in BOOLEAN
PublishTypes ==
  /\ queue \in Seq(Statuses \union {None}) /\ size \in Int
  /\ receiver \in {"idle", "count"}
  /\ setter \in [Setters -> SetterStates]
  /\ scheduled \in BOOLEAN
  /\ last \in Statuses \union {None}
TypeOK == OutsideTypes /\ SinkTypes /\ PublishTypes

(* The size the monitor compares (PublishMonitor, mqtt_wrapper.py:355-387)  *)
(* is the number of messages put and not acknowledged, but for those that   *)
(* are between their put and their count (:296-297): it may be too small,   *)
(* even negative, never too large, and is right again when no thread is     *)
(* there.                                                                   *)
Between(pc) == IF pc = "count" THEN 1 ELSE 0
CountExact ==
  size = Len(queue) - Between(setter["wrapper"].pc) - Between(setter["updater"].pc)
                    - Between(glib.pc) - Between(receiver)

(* Connected, with nothing left to handle, to publish or to read. *)
AtRest ==
  /\ link /\ main = "run" /\ signals = <<>> /\ queue = <<>>
  /\ glib.pc = "idle" /\ receiver = "idle" /\ ~Busy
  /\ \A t \in Setters : setter[t] \in {SetterIdle, Dead}

(* What the broker retains is the state of the sinks on the bus.  Excuses:  *)
(* a sink that changed between ListNames and the subscription; a read that  *)
(* failed and is not tried again (transport_service.py:292 returns None for *)
(* an unchanged partial status); a change found "already scheduled" after   *)
(* its read (:315); two threads in _set_status, which has no lock; an       *)
(* appearance whose handler a wrong role ended (:177); a stack that changed *)
(* without a signal; and an updater that an exception ended with            *)
(* _is_update_status_scheduled set (:342).                                  *)
RetainedIsRight ==
  AtRest => \/ retained = {<<s, State(s)>> : s \in OnBus}
            \/ setter["updater"] = Dead
            \/ Excused({"missed", "unretried", "late", "crossed_status", "refused", "unsignalled"})

(* A gateway that is connected is not left announced as offline: _on_connect *)
(* forgets the last status so that it is published again (comment at         *)
(* transport_service.py:401-403).  An updater that writes the last status    *)
(* after that (:306) undoes it.                                              *)
OnlineIsAnnounced ==
  AtRest /\ retained = Offline =>
    setter["updater"] = Dead \/ Excused({"missed", "crossed_status"})

(* Between two visits of the monitor every sink it governs has the cost of  *)
(* the hole's state, whatever its role became and also if it appeared       *)
(* meanwhile, unless it appeared while the monitor was changing the costs   *)
(* or the flag (:166-181), or the last write of its cost had no effect:     *)
(* nothing tries that again before the hole's state changes.                *)
CostFollowsHole ==
  main = "run" /\ ~stop_stack /\ monitor.pc = "sleep" /\ glib.pc # "set" =>
    \A s \in (sinks \intersect OnBus) \ failed :
      \/ node[s].cost = IF disconnected THEN "high" ELSE "low"
      \/ \E i \in DOMAIN signals : signals[i] = [kind |-> "added", sink |-> s]
      \/ Excused({"missed", "crossed_hole"})

(* The monitor's thread ends when a node refuses a cost (_set_sinks_cost    *)
(* has no try).  Sinks stay at the high cost for it only where a sink that  *)
(* cannot have a cost was in the list: it was there unseen, its cost could  *)
(* not be written before or was still to be written, or its role was        *)
(* changed while the service knew it (:666); or where the thread of a new   *)
(* process, which knows of no hole, ended before it had lowered the costs.  *)
NoSinkLeftHigh ==
  main = "run" /\ monitor.pc = "raised" /\ glib.pc # "set" =>
    \/ \A s \in Sinks : node[s].cost # "high"
    \/ Excused({"missed", "unprepared", "demoted", "restarted"})

(* After a hole every stack is as its operator wanted it, but one whose     *)
(* start had no effect, which nothing tries again.  Excuses: a sink that    *)
(* was not there when the stacks were started; _start_sinks starts also     *)
(* what the operator had stopped (:86-88); the process ended in a hole and  *)
(* the new one knows of none.                                               *)
HoleLeavesNoTrace ==
  main = "run" /\ stop_stack /\ ~Busy /\ ~disconnected =>
    \/ \A s \in Sinks \ failed : node[s].started = wanted[s]
    \/ Excused({"absent", "started_all", "restarted"})
=============================================================================
