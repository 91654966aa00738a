--------------------------- MODULE GatewayProofs ----------------------------
(***************************************************************************)
(* For any number of sinks, of attempts and of events: the variables keep  *)
(* their types, the publish count is exact, a hole leaves every stack as   *)
(* its operator wanted it, the costs follow the hole, and the status that  *)
(* the broker retains follows the sinks, each with the excuses that its    *)
(* property names.                                                         *)
(***************************************************************************)
EXTENDS Gateway, TLAPS

(* What a read of the sinks stores and returns has the types of the cache   *)
(* and of a status.                                                         *)
LEMMA ConfigsType ==
  ASSUME TypeOK, NEW silent
  PROVE  Configs(silent) \in Statuses
<1>1. \A t \in sinks : <<t, IF t \in silent THEN cache[t] ELSE State(t)>> \in Sinks \X Read
  BY DEF TypeOK, SinkTypes, State, Read
<1>2. QED
  BY <1>1 DEF Configs, Statuses

LEMMA CacheType ==
  ASSUME TypeOK, NEW read, NEW silent, Reads(read, silent)
  PROVE  cache' \in [Sinks -> Read]
<1>1. \A s \in Sinks : State(s) \in Read /\ cache[s] \in Read
  BY DEF TypeOK, SinkTypes, State, Read
<1>2. QED
  BY <1>1 DEF Reads

LEMMA EmptySequence == \A S : <<>> \in Seq(S)
  OBVIOUS

(* Steps that touch nothing of a part keep its types. *)
LEMMA OutsideFrame ==
  TypeOK /\ UNCHANGED <<node, wanted, signals, link, retained, events, role, monitored, stop_stack,
                        failed>>
    => OutsideTypes'
  BY DEF TypeOK, OutsideTypes

LEMMA SinkFrame ==
  TypeOK /\ UNCHANGED <<main, sinks, cache, glib, monitor, disconnected>> => SinkTypes'
  BY DEF TypeOK, SinkTypes

LEMMA PublishFrame ==
  TypeOK /\ UNCHANGED <<queue, size, receiver, setter, scheduled, last>> => PublishTypes'
  BY DEF TypeOK, PublishTypes

(* The updates of records that the actions make. *)
LEMMA MoveType ==
  ASSUME TypeOK, NEW t \in Setters, NEW me \in SetterStates, Moves(t, me)
  PROVE  setter' \in [Setters -> SetterStates]
  BY DEF TypeOK, PublishTypes, Moves

LEMMA SetterRest == SetterIdle \in SetterStates /\ Dead \in SetterStates
  BY DEF SetterIdle, Dead, SetterStates

LEMMA SetterStart ==
  \A n \in Nat : [SetterIdle EXCEPT !.pc = "read", !.attempt = n] \in SetterStates
  BY DEF SetterIdle, SetterStates

LEMMA EndType ==
  ASSUME TypeOK, NEW t \in Setters, NEW retry, Ends(t, retry)
  PROVE  setter' \in [Setters -> SetterStates] /\ scheduled' \in BOOLEAN
<1>1. setter[t].attempt + 1 \in Nat
  BY DEF TypeOK, PublishTypes, SetterStates
<1>2. CASE t = "updater" /\ retry /\ setter[t].attempt < Attempts
  BY <1>1, <1>2, SetterStart, MoveType DEF Ends, TypeOK, PublishTypes
<1>3. CASE ~(t = "updater" /\ retry /\ setter[t].attempt < Attempts)
  BY <1>3, SetterRest, MoveType DEF Ends, TypeOK, PublishTypes
<1>4. QED
  BY <1>2, <1>3

LEMMA VisitType ==
  ASSUME TypeOK, NEW why \in {"start", "raise", "lower"}, NEW todo \in SUBSET Sinks,
         Visits(why, todo)
  PROVE  monitor' \in MonitorStates /\ disconnected' \in BOOLEAN
<1>1. CASE todo = {}
  BY <1>1 DEF Visits, Asleep, MonitorStates
<1>2. CASE todo # {}
  BY <1>2 DEF Visits, MonitorStates, TypeOK, SinkTypes
<1>3. QED
  BY <1>1, <1>2

LEMMA RespondType ==
  ASSUME TypeOK, NEW read, Responds(read)
  PROVE  /\ glib' \in GlibStates /\ glib'.pc # "set"
         /\ cache' \in [Sinks -> Read]
         /\ queue' \in Seq(Statuses \union {None})
<1>1. CASE Raises(read)
  <2>1. GlibIdle \in GlibStates /\ GlibIdle.pc # "set"
    BY DEF GlibIdle, GlibStates
  <2>2. QED
    BY <1>1, <2>1 DEF Responds, TypeOK, SinkTypes, PublishTypes
<1>2. CASE ~Raises(read)
  <2>1. cache' \in [Sinks -> Read]
    BY <1>2, CacheType DEF Responds
  <2>2. glib' \in GlibStates /\ glib'.pc # "set"
    BY <1>2 DEF Responds, GlibGoes, GlibStates, TypeOK, SinkTypes
  <2>3. queue' \in Seq(Statuses \union {None})
    <3>1. queue \in Seq(Statuses \union {None}) /\ None \in Statuses \union {None}
      BY DEF TypeOK, PublishTypes
    <3>2. QED
      BY <1>2, <3>1 DEF Responds, Puts
  <2>4. QED
    BY <2>1, <2>2, <2>3
<1>3. QED
  BY <1>1, <1>2

(* What is taken from the signals, and what is added to them. *)
LEMMA SignalType ==
  ASSUME TypeOK, NEW kind, Handling(kind)
  PROVE  Head(signals).sink \in Sinks /\ signals' \in Seq(Signals) /\ glib.pc = "idle"
<1>1. signals \in Seq(Signals) /\ signals # <<>>
  BY DEF TypeOK, OutsideTypes, Handling
<1>2. Head(signals) \in Signals /\ Tail(signals) \in Seq(Signals)
  BY <1>1
<1>3. QED
  BY <1>2 DEF Handling, Signals

LEMMA SignalledType ==
  ASSUME TypeOK, NEW s \in Sinks
  PROVE  Signalled(s) \in Seq(Signals)
<1>1. signals \in Seq(Signals) /\ [kind |-> "stack", sink |-> s] \in Signals
  BY DEF Signals, TypeOK, OutsideTypes
<1>2. QED
  BY <1>1 DEF Signalled

(* The two signals of a stack that is stopped and started again.            *)
Restarted(s) == signals \o [i \in 1 .. 2 |-> [kind |-> "stack", sink |-> s]]

LEMMA RestartedIs ==
  ASSUME TypeOK, NEW s \in Sinks
  PROVE  /\ Restarted(s) = Append(Append(signals, [kind |-> "stack", sink |-> s]),
                                  [kind |-> "stack", sink |-> s])
         /\ Restarted(s) \in Seq(Signals)
<1> DEFINE tells == [kind |-> "stack", sink |-> s]
           two == [i \in 1 .. 2 |-> tells]
<1>1. signals \in Seq(Signals) /\ tells \in Signals
  BY DEF TypeOK, OutsideTypes, Signals
<1> HIDE DEF tells
<1>2. two \in Seq(Signals) /\ two = <<tells, tells>>
  BY <1>1
<1>3. signals \o <<tells, tells>> = Append(Append(signals, tells), tells)
  BY <1>1
<1>4. signals \o two \in Seq(Signals)
  BY <1>1, <1>2
<1>5. Restarted(s) = signals \o two
  BY DEF Restarted, tells
<1>6. QED
  BY <1>2, <1>3, <1>4, <1>5 DEF tells

(* What the start of a process leaves. *)
LEMMA BeginType ==
  ASSUME TypeOK, Begins, UNCHANGED <<node, wanted, role, chosen, failed>>, signals' = <<>>,
         link' = FALSE, retained' = Offline, events' \in Nat
  PROVE  TypeOK'
<1>1. OutsideTypes'
  BY GatewayAssumption, EmptySequence DEF TypeOK, OutsideTypes, chosen
<1>2. SinkTypes'
  BY DEF Begins, SinkTypes, GlibIdle, GlibStates, Asleep, MonitorStates, Read
<1>3. PublishTypes'
  <2>1. queue' \in Seq(Statuses \union {None})
    BY EmptySequence DEF Begins
  <2>2. setter' \in [Setters -> SetterStates]
    BY SetterRest DEF Begins
  <2>3. size' = 0 /\ receiver' = "idle" /\ scheduled' = FALSE /\ last' = None
    BY DEF Begins
  <2>4. scheduled' \in BOOLEAN
    BY <2>3
  <2>5. QED
    BY <2>1, <2>2, <2>3, <2>4 DEF PublishTypes
<1>4. QED
  BY <1>1, <1>2, <1>3 DEF TypeOK

LEMMA HappensType == TypeOK /\ Happens => events' \in Nat
  BY DEF TypeOK, OutsideTypes, Happens

Nodes == [Sinks -> [on : BOOLEAN, started : BOOLEAN, cost : {"unset", "low", "high"}]]

(* Writing a cost changes the cost of that sink, or nothing of the nodes,   *)
(* and then it failed or the sink is gone.                                  *)
LEMMA SetsCostDoes ==
  ASSUME TypeOK, NEW s \in Sinks, NEW cost \in {"low", "high"}, SetsCost(s, cost)
  PROVE  /\ node' \in Nodes /\ failed' \subseteq Sinks /\ events' \in Nat
         /\ \A t \in Sinks : node'[t].on = node[t].on /\ node'[t].started = node[t].started
         /\ \A t \in Sinks \ {s} : node'[t] = node[t] /\ (t \in failed' <=> t \in failed)
         /\ \/ node' = node /\ ~node[s].on /\ failed' = failed
            \/ node'[s].cost = cost /\ s \in role /\ node[s].on /\ (stop_stack \/ s \notin failed')
            \/ node' = node /\ node[s].on /\ (stop_stack \/ failed' = failed \union {s})
         /\ stop_stack => failed' = failed
<1>1. node \in Nodes /\ failed \subseteq Sinks /\ events \in Nat
  BY DEF TypeOK, OutsideTypes, Nodes
<1>2. CASE ~node[s].on /\ UNCHANGED <<node, failed, events>>
  BY <1>1, <1>2
<1>3. CASE /\ node[s].on /\ s \in role /\ node' = [node EXCEPT ![s].cost = cost]
           /\ failed' = (IF stop_stack THEN failed ELSE failed \ {s}) /\ UNCHANGED events
  <2>1. node' \in Nodes
    BY <1>1, <1>3 DEF Nodes
  <2>2. /\ \A t \in Sinks : node'[t].on = node[t].on /\ node'[t].started = node[t].started
        /\ \A t \in Sinks \ {s} : node'[t] = node[t]
        /\ node'[s].cost = cost
    BY <1>1, <1>3 DEF Nodes
  <2>3. QED
    BY <1>1, <1>3, <2>1, <2>2
<1>4. CASE /\ node[s].on /\ Happens /\ UNCHANGED node
           /\ failed' = (IF stop_stack THEN failed ELSE failed \union {s})
  BY <1>1, <1>4, HappensType
<1>5. QED
  BY <1>2, <1>3, <1>4 DEF SetsCost

(* Every step keeps the types. *)
LEMMA TypeStep == TypeOK /\ [Next]_vars => TypeOK'
<1> SUFFICES ASSUME TypeOK, [Next]_vars
             PROVE  TypeOK'
  OBVIOUS
<1> USE DEF outside, chosen, status, publishing, hole
<1>1. ASSUME ListNames PROVE TypeOK'
  BY <1>1 DEF ListNames, OnBus, TypeOK, OutsideTypes, SinkTypes, PublishTypes
<1>2. ASSUME Subscribe PROVE TypeOK'
  BY <1>2, VisitType DEF Subscribe, TypeOK, OutsideTypes, SinkTypes, PublishTypes
<1>3. ASSUME NEW t \in Setters, ReadConfigs(t) PROVE TypeOK'
  <2>1. CASE Raises(sinks)
    BY <1>3, <2>1, SetterRest, MoveType
       DEF ReadConfigs, TypeOK, OutsideTypes, SinkTypes, PublishTypes
  <2>2. ASSUME NEW silent, UNCHANGED events \/ Happens, Reads(sinks, silent),
               Moves(t, [setter[t] EXCEPT !.pc = "publish", !.configs = Configs(silent),
                           !.partial = \E s \in silent : cache[s] # "unread"])
        PROVE  TypeOK'
    <3>1. /\ cache' \in [Sinks -> Read]
          /\ Configs(silent) \in Statuses
      BY <2>2, CacheType, ConfigsType
    <3>2. (\E s \in silent : cache[s] # "unread") \in BOOLEAN
      OBVIOUS
    <3>3. [setter[t] EXCEPT !.pc = "publish", !.configs = Configs(silent),
             !.partial = \E s \in silent : cache[s] # "unread"] \in SetterStates
      BY <3>1, <3>2 DEF TypeOK, PublishTypes, SetterStates
    <3>4. setter' \in [Setters -> SetterStates]
      BY <2>2, <3>3, MoveType
    <3>5. events' \in Nat
      BY <2>2 DEF Happens, TypeOK, OutsideTypes
    <3>6. QED
      BY <1>3, <3>1, <3>4, <3>5 DEF ReadConfigs, TypeOK, OutsideTypes, SinkTypes, PublishTypes
  <2>3. QED
    BY <1>3, <2>1, <2>2 DEF ReadConfigs
<1>4. ASSUME NEW t \in Setters, PublishStatus(t) PROVE TypeOK'
  <2>1. CASE last = setter[t].configs
    BY <1>4, <2>1, EndType DEF PublishStatus, TypeOK, OutsideTypes, SinkTypes, PublishTypes
  <2>2. CASE last # setter[t].configs
    <3>1. [setter[t] EXCEPT !.pc = "count"] \in SetterStates
          /\ setter[t].configs \in Statuses \union {None}
      BY DEF TypeOK, PublishTypes, SetterStates
    <3>2. setter' \in [Setters -> SetterStates]
      BY <1>4, <2>2, <3>1, MoveType DEF PublishStatus
    <3>3. OutsideTypes' /\ SinkTypes'
      BY <1>4, OutsideFrame, SinkFrame DEF PublishStatus
    <3>4. queue' \in Seq(Statuses \union {None})
      BY <1>4, <2>2, <3>1 DEF PublishStatus, Puts, TypeOK, PublishTypes
    <3>5. UNCHANGED <<size, receiver, scheduled, last>>
      BY <1>4, <2>2 DEF PublishStatus
    <3>6. QED
      BY <3>2, <3>3, <3>4, <3>5 DEF TypeOK, PublishTypes
  <2>3. QED
    BY <2>1, <2>2
<1>5. ASSUME NEW t \in Setters, CountStatus(t) PROVE TypeOK'
  <2>1. setter[t].configs \in Statuses \union {None}
    BY DEF TypeOK, PublishTypes, SetterStates
  <2>2. QED
    BY <1>5, <2>1, EndType
       DEF CountStatus, Counts, TypeOK, OutsideTypes, SinkTypes, PublishTypes
<1>6. ASSUME AddSink PROVE TypeOK'
  <2>1. Head(signals).sink \in Sinks /\ signals' \in Seq(Signals)
    BY <1>6, SignalType DEF AddSink, Handling
  <2>2. PublishTypes'
    BY <1>6, PublishFrame DEF AddSink
  <2>3. OutsideTypes'
    BY <1>6, <2>1 DEF AddSink, TypeOK, OutsideTypes
  <2>4. /\ glib' \in GlibStates /\ (glib'.pc = "set" => glib'.sink \in Sinks)
        /\ cache' \in [Sinks -> Read] /\ sinks' \subseteq Sinks
    BY <1>6, <2>1 DEF AddSink, TypeOK, SinkTypes, GlibStates, Read
  <2>5. QED
    BY <1>6, <2>2, <2>3, <2>4 DEF AddSink, TypeOK, SinkTypes
<1>7. ASSUME InitializeSink PROVE TypeOK'
  <2>0. glib.sink \in Sinks
    BY <1>7 DEF InitializeSink, Initializes, TypeOK, SinkTypes
  <2>1. node' \in Nodes /\ failed' \subseteq Sinks /\ events' \in Nat
    <3>1. \/ UNCHANGED <<node, events>> /\ failed' \in {failed, failed \union {glib.sink}}
          \/ SetsCost(glib.sink, IF glib.flag THEN "high" ELSE "low")
      BY <1>7 DEF InitializeSink, Initializes
    <3>2. QED
      BY <2>0, <3>1, SetsCostDoes DEF Nodes, TypeOK, OutsideTypes
  <2>2. \/ Responds(sinks)
        \/ glib' = GlibIdle /\ UNCHANGED <<cache, queue>>
    BY <1>7 DEF InitializeSink, Initializes
  <2>3. GlibIdle \in GlibStates /\ GlibIdle.pc # "set"
    BY DEF GlibIdle, GlibStates
  <2>4. /\ glib' \in GlibStates /\ glib'.pc # "set"
        /\ cache' \in [Sinks -> Read] /\ queue' \in Seq(Statuses \union {None})
    BY <2>2, <2>3, RespondType DEF TypeOK, SinkTypes, PublishTypes
  <2>5. QED
    BY <1>7, <2>1, <2>4 DEF InitializeSink, Initializes, Nodes, TypeOK, OutsideTypes, SinkTypes, PublishTypes
<1>8. ASSUME RemoveSink PROVE TypeOK'
  <2>1. Head(signals).sink \in Sinks /\ signals' \in Seq(Signals) /\ glib.pc # "set"
    BY <1>8, SignalType DEF RemoveSink, Handling
  <2>2. /\ glib' \in GlibStates /\ glib'.pc # "set"
        /\ cache' \in [Sinks -> Read] /\ queue' \in Seq(Statuses \union {None})
    BY <1>8, <2>1, RespondType DEF RemoveSink, TypeOK, SinkTypes, PublishTypes
  <2>3. QED
    BY <1>8, <2>1, <2>2 DEF RemoveSink, TypeOK, OutsideTypes, SinkTypes, PublishTypes
<1>9. ASSUME StackChanged PROVE TypeOK'
  <2>1. Head(signals).sink \in Sinks /\ signals' \in Seq(Signals) /\ glib.pc # "set"
    BY <1>9, SignalType DEF StackChanged, Handling
  <2>2. /\ glib' \in GlibStates /\ glib'.pc # "set"
        /\ cache' \in [Sinks -> Read] /\ queue' \in Seq(Statuses \union {None})
    BY <1>9, <2>1, RespondType DEF StackChanged, TypeOK, SinkTypes, PublishTypes
  <2>3. QED
    BY <1>9, <2>1, <2>2 DEF StackChanged, TypeOK, OutsideTypes, SinkTypes, PublishTypes
<1>10. ASSUME CountResponse PROVE TypeOK'
  <2>1. [SetterIdle EXCEPT !.pc = "read"] \in SetterStates
    BY DEF SetterIdle, SetterStates
  <2>2. setter' \in [Setters -> SetterStates] /\ scheduled' \in BOOLEAN
    BY <1>10, <2>1, MoveType DEF CountResponse, Setters, TypeOK, PublishTypes
  <2>3. glib' \in GlibStates /\ glib'.pc # "set"
    BY <1>10 DEF CountResponse, GlibIdle, GlibStates
  <2>4. QED
    BY <1>10, <2>2, <2>3
       DEF CountResponse, Counts, TypeOK, OutsideTypes, SinkTypes, PublishTypes
<1>11. ASSUME NEW s \in Sinks, DataReceived(s) PROVE TypeOK'
  BY <1>11 DEF DataReceived, Happens, Puts, TypeOK, OutsideTypes, SinkTypes, PublishTypes
<1>12. ASSUME CountData PROVE TypeOK'
  BY <1>12 DEF CountData, Counts, TypeOK, OutsideTypes, SinkTypes, PublishTypes
<1>13. ASSUME Detect PROVE TypeOK'
  <2>1. monitor' \in MonitorStates /\ disconnected' \in BOOLEAN
    BY <1>13, VisitType DEF Detect, TypeOK, SinkTypes
  <2>2. QED
    BY <1>13, <2>1
       DEF Detect, Happens, MonitorOnly, TypeOK, OutsideTypes, SinkTypes, PublishTypes
<1>14. ASSUME Recover PROVE TypeOK'
  <2>1. monitor' \in MonitorStates /\ disconnected' \in BOOLEAN
    BY <1>14, VisitType DEF Recover, TypeOK, SinkTypes
  <2>2. QED
    BY <1>14, <2>1 DEF Recover, MonitorOnly, TypeOK, OutsideTypes, SinkTypes, PublishTypes
<1>15. ASSUME NEW s \in Sinks, SetCost(s) PROVE TypeOK'
  <2>1. monitor.todo \ {s} \in SUBSET Sinks /\ monitor.pc \in {"start", "raise", "lower"}
    BY <1>15 DEF SetCost, TypeOK, SinkTypes, MonitorStates
  <2>2. monitor' \in MonitorStates /\ disconnected' \in BOOLEAN
    BY <1>15, <2>1, VisitType DEF SetCost, MonitorStates, TypeOK, SinkTypes
  <2>3. node' \in Nodes /\ failed' \subseteq Sinks /\ events' \in Nat
    <3>1. \/ UNCHANGED <<node, events, failed>>
          \/ SetsCost(s, IF monitor.pc = "raise" THEN "high" ELSE "low")
      BY <1>15 DEF SetCost
    <3>2. QED
      BY <3>1, SetsCostDoes DEF Nodes, TypeOK, OutsideTypes
  <2>4. QED
    BY <1>15, <2>2, <2>3
       DEF SetCost, Nodes, MonitorOnly, TypeOK, OutsideTypes, SinkTypes, PublishTypes
<1>16. ASSUME NEW s \in Sinks, WriteStarted(s) PROVE TypeOK'
  <2>1. monitor.todo \ {s} \in SUBSET Sinks /\ monitor.pc \in {"start", "raise", "lower"}
    BY <1>16 DEF WriteStarted, TypeOK, SinkTypes, MonitorStates
  <2>2. monitor' \in MonitorStates /\ disconnected' \in BOOLEAN
    BY <1>16, <2>1, VisitType DEF WriteStarted
  <2>3. node' \in Nodes
    <3>1. node' = node \/ node' = [node EXCEPT ![s].started = (monitor.pc = "lower")]
      BY <1>16 DEF WriteStarted
    <3>2. QED
      BY <3>1 DEF Nodes, TypeOK, OutsideTypes
  <2>4. signals' \in Seq(Signals)
    BY <1>16, SignalledType DEF WriteStarted, TypeOK, OutsideTypes
  <2>5. failed' \subseteq Sinks /\ events' \in Nat
    BY <1>16, HappensType DEF WriteStarted, TypeOK, OutsideTypes
  <2>6. UNCHANGED <<wanted, role, link, retained, chosen>>
    BY <1>16 DEF WriteStarted, MonitorOnly
  <2>7. OutsideTypes'
    BY <2>3, <2>4, <2>5, <2>6 DEF Nodes, TypeOK, OutsideTypes
  <2>8. QED
    BY <1>16, <2>2, <2>7, PublishFrame DEF WriteStarted, MonitorOnly, TypeOK, SinkTypes
<1>17. ASSUME Connect PROVE TypeOK'
  <2>1. [SetterIdle EXCEPT !.pc = "read"] \in SetterStates
    BY DEF SetterIdle, SetterStates
  <2>2. setter' \in [Setters -> SetterStates]
    BY <1>17, <2>1, MoveType DEF Connect, Setters
  <2>3. QED
    BY <1>17, <2>2 DEF Connect, TypeOK, OutsideTypes, SinkTypes, PublishTypes
<1>18. ASSUME OnPublish PROVE TypeOK'
  <2>1. Head(queue) \in Statuses \union {None} /\ queue' \in Seq(Statuses \union {None})
    BY <1>18 DEF OnPublish, TypeOK, PublishTypes
  <2>2. QED
    BY <1>18, <2>1, GatewayAssumption
       DEF OnPublish, TypeOK, OutsideTypes, SinkTypes, PublishTypes
<1>19. ASSUME NEW s \in Sinks, ServiceChanges(s) PROVE TypeOK'
  <2>1. node' \in [Sinks -> [on : BOOLEAN, started : BOOLEAN, cost : {"unset", "low", "high"}]]
    BY <1>19 DEF ServiceChanges, TypeOK, OutsideTypes
  <2>2. signals' \in Seq(Signals)
    <3>1. /\ signals \in Seq(Signals)
          /\ \A kind \in {"added", "removed"} : [kind |-> kind, sink |-> s] \in Signals
      BY DEF Signals, TypeOK, OutsideTypes
    <3>2. QED
      BY <1>19, <3>1 DEF ServiceChanges, Notified
  <2>3. QED
    BY <1>19, <2>1, <2>2
       DEF ServiceChanges, Happens, OutsideOnly, TypeOK, OutsideTypes, SinkTypes, PublishTypes
<1>20. ASSUME NEW s \in Sinks, OperatorChanges(s) PROVE TypeOK'
  <2>1. /\ node' \in [Sinks -> [on : BOOLEAN, started : BOOLEAN, cost : {"unset", "low", "high"}]]
        /\ wanted' \in [Sinks -> BOOLEAN] /\ failed' \subseteq Sinks
    BY <1>20 DEF OperatorChanges, TypeOK, OutsideTypes
  <2>2. signals' \in Seq(Signals)
    BY <1>20, SignalledType DEF OperatorChanges, TypeOK, OutsideTypes
  <2>3. QED
    BY <1>20, <2>1, <2>2
       DEF OperatorChanges, Happens, OutsideOnly, TypeOK, OutsideTypes, SinkTypes, PublishTypes
<1>21. ASSUME Disconnect PROVE TypeOK'
  <2>1. OutsideTypes'
    <3>1. events' \in Nat /\ retained' # None /\ retained' = Offline /\ link' = FALSE
      BY <1>21, GatewayAssumption DEF Disconnect, Happens, TypeOK, OutsideTypes
    <3>2. UNCHANGED <<node, wanted, signals, role, monitored, stop_stack, failed>>
      BY <1>21 DEF Disconnect, OutsideOnly
    <3>3. QED
      BY <3>1, <3>2 DEF TypeOK, OutsideTypes
  <2>2. QED
    BY <1>21, <2>1, SinkFrame, PublishFrame DEF Disconnect, OutsideOnly, TypeOK
<1>22. ASSUME Restart PROVE TypeOK'
  <2>1. events' \in Nat
    BY <1>22 DEF Restart, Happens, TypeOK, OutsideTypes
  <2>2. QED
    BY <1>22, <2>1, BeginType DEF Restart
<1>23. ASSUME UNCHANGED vars PROVE TypeOK'
  BY <1>23 DEF vars, TypeOK, OutsideTypes, SinkTypes, PublishTypes
<1>24. ASSUME NEW s \in Sinks, RoleChanges(s) PROVE TypeOK'
  <2>1. role' \subseteq Sinks /\ events' \in Nat
    BY <1>24, HappensType DEF RoleChanges, TypeOK, OutsideTypes
  <2>2. signals' \in Seq(Signals)
    BY <1>24, RestartedIs DEF Restarted, RoleChanges, TypeOK, OutsideTypes
  <2>3. QED
    BY <1>24, <2>1, <2>2
       DEF RoleChanges, OutsideOnly, TypeOK, OutsideTypes, SinkTypes, PublishTypes
<1>25. QED
  BY <1>1, <1>2, <1>3, <1>4, <1>5, <1>6, <1>7, <1>8, <1>9, <1>10, <1>11, <1>12, <1>13, <1>14,
     <1>15, <1>16, <1>17, <1>18, <1>19, <1>20, <1>21, <1>22, <1>23, <1>24
     DEF Next, Main, Updater, Setter, Setters, Glib, Receiver, Monitor, MqttWrapper, Outside

(* Every variable keeps its type: GLib's, the monitor's and the wrapper's   *)
(* threads only pass on sinks that exist and statuses or None, and nothing  *)
(* but a status or the last will is retained.                               *)
THEOREM TypeCorrect == Spec => []TypeOK
<1>1. Init => TypeOK
  <2> SUFFICES ASSUME Init PROVE TypeOK
    OBVIOUS
  <2>1. OutsideTypes
    BY GatewayAssumption, EmptySequence DEF Init, OutsideTypes
  <2>2. SinkTypes
    BY DEF Init, SinkTypes, GlibIdle, GlibStates, Asleep, MonitorStates, Read
  <2>3. PublishTypes
    <3>1. queue \in Seq(Statuses \union {None}) /\ setter \in [Setters -> SetterStates]
      BY SetterRest, EmptySequence DEF Init
    <3>2. size = 0 /\ receiver = "idle" /\ scheduled = FALSE /\ last = None
      BY DEF Init
    <3>3. scheduled \in BOOLEAN
      BY <3>2
    <3>4. QED
      BY <3>1, <3>2, <3>3 DEF PublishTypes
  <2>4. QED
    BY <2>1, <2>2, <2>3 DEF TypeOK
<1>2. QED
  BY <1>1, TypeStep, PTL DEF Spec
-----------------------------------------------------------------------------
(* The count is right only together with the rule that the updater does     *)
(* not run unless an update is scheduled: CountResponse would otherwise     *)
(* start a second updater over one that is between its put and its count.   *)
CountInv ==
  /\ CountExact
  /\ setter["updater"].pc # "idle" => scheduled

LEMMA CountStep == TypeOK /\ CountInv /\ [Next]_vars => CountInv'
<1> SUFFICES ASSUME TypeOK, CountInv, [Next]_vars
             PROVE  CountInv'
  OBVIOUS
<1> USE DEF outside, chosen, status, publishing, hole, Between, CountInv, CountExact
<1>0. /\ size \in Int /\ queue \in Seq(Statuses \union {None}) /\ Len(queue) \in Nat
      /\ \A t \in Setters : setter[t] \in SetterStates
      /\ setter \in [Setters -> SetterStates] /\ "wrapper" \in Setters /\ "updater" \in Setters
      /\ scheduled \in BOOLEAN
  BY DEF TypeOK, PublishTypes, Setters
(* A put lengthens the queue by one. *)
<1>1. \A payload : Puts(payload) => Len(queue') = Len(queue) + 1
  BY <1>0 DEF Puts
<1>2. ASSUME NEW read, Responds(read), glib.pc # "count"
      PROVE  Len(queue') - Between(glib'.pc) = Len(queue)
  <2>1. CASE Raises(read)
    BY <1>0, <1>2, <2>1 DEF Responds, GlibIdle
  <2>2. CASE ~Raises(read)
    <3>1. glib'.pc = "count"
      BY <1>2, <2>2 DEF Responds, GlibGoes, TypeOK, SinkTypes, GlibStates
    <3>2. QED
      BY <1>0, <1>1, <1>2, <2>2, <3>1 DEF Responds
  <2>3. QED
    BY <2>1, <2>2
<1>3. ASSUME ListNames \/ Subscribe \/ Detect \/ Recover \/ Disconnect \/ UNCHANGED vars
             \/ (\E s \in Sinks : SetCost(s) \/ WriteStarted(s) \/ ServiceChanges(s)
                   \/ OperatorChanges(s) \/ RoleChanges(s))
      PROVE  CountInv'
  <2>1. UNCHANGED <<size, queue, setter, glib, receiver, scheduled>>
    BY <1>3 DEF ListNames, Subscribe, Detect, Recover, Disconnect, SetCost, WriteStarted,
                ServiceChanges, OperatorChanges, RoleChanges, MonitorOnly, OutsideOnly, vars
  <2>2. QED
    BY <2>1
<1>4. ASSUME NEW t \in Setters, ReadConfigs(t) PROVE CountInv'
  <2>1. UNCHANGED <<size, queue, glib, receiver, scheduled>> /\ setter[t].pc = "read"
    BY <1>4 DEF ReadConfigs, At
  <2>2. \E me : /\ Moves(t, me) /\ me.pc # "count"
                /\ (t = "updater" => me.pc # "idle")
    <3>1. CASE Raises(sinks)
      BY <1>4, <3>1 DEF ReadConfigs, SetterIdle, Dead
    <3>2. CASE ~Raises(sinks)
      <4>1. PICK silent :
              Moves(t, [setter[t] EXCEPT !.pc = "publish", !.configs = Configs(silent),
                          !.partial = \E s \in silent : cache[s] # "unread"])
        BY <1>4, <3>2 DEF ReadConfigs
      <4>2. [setter[t] EXCEPT !.pc = "publish", !.configs = Configs(silent),
               !.partial = \E s \in silent : cache[s] # "unread"].pc = "publish"
        BY <1>0, <1>4 DEF SetterStates
      <4>3. QED
        BY <4>1, <4>2
    <3>3. QED
      BY <3>1, <3>2
  <2>3. QED
    BY <1>0, <2>1, <2>2 DEF Moves, Setters
<1>5. ASSUME NEW t \in Setters, NEW retry, Ends(t, retry)
      PROVE  /\ setter' \in [Setters -> SetterStates] /\ setter'[t].pc # "count"
             /\ \A o \in Setters \ {t} : setter'[o] = setter[o]
             /\ t = "updater" => (setter'[t].pc # "idle" => scheduled' = scheduled)
             /\ t # "updater" => scheduled' = scheduled
  <2>1. /\ [SetterIdle EXCEPT !.pc = "read", !.attempt = setter[t].attempt + 1].pc = "read"
        /\ SetterIdle.pc = "idle"
    BY DEF SetterIdle
  <2>2. CASE t = "updater" /\ retry /\ setter[t].attempt < Attempts
    BY <1>0, <1>5, <2>1, <2>2, EndType DEF Ends, Moves
  <2>3. CASE ~(t = "updater" /\ retry /\ setter[t].attempt < Attempts)
    BY <1>0, <1>5, <2>1, <2>3, EndType DEF Ends, Moves
  <2>4. QED
    BY <2>2, <2>3
<1>6. ASSUME NEW t \in Setters, PublishStatus(t) PROVE CountInv'
  <2>1. UNCHANGED <<size, glib, receiver>> /\ setter[t].pc = "publish"
    BY <1>6 DEF PublishStatus, At
  <2>2. CASE last = setter[t].configs
    BY <1>0, <1>5, <1>6, <2>1, <2>2 DEF PublishStatus, Setters
  <2>3. CASE last # setter[t].configs
    <3>1. /\ Len(queue') = Len(queue) + 1 /\ scheduled' = scheduled
          /\ Moves(t, [setter[t] EXCEPT !.pc = "count"])
      BY <1>1, <1>6, <2>3 DEF PublishStatus
    <3>2. [setter[t] EXCEPT !.pc = "count"].pc = "count"
      BY <1>0 DEF SetterStates
    <3>3. /\ setter'[t].pc = "count" /\ \A o \in Setters \ {t} : setter'[o] = setter[o]
          /\ scheduled' = scheduled
      BY <1>0, <3>1, <3>2 DEF Moves
    <3>4. CASE t = "wrapper"
      BY <1>0, <2>1, <3>1, <3>3, <3>4 DEF Setters
    <3>5. CASE t = "updater"
      BY <1>0, <2>1, <3>1, <3>3, <3>5 DEF Setters
    <3>6. QED
      BY <3>4, <3>5 DEF Setters
  <2>4. QED
    BY <2>2, <2>3
<1>7. ASSUME NEW t \in Setters, CountStatus(t) PROVE CountInv'
  <2>1. UNCHANGED <<queue, glib, receiver>> /\ setter[t].pc = "count" /\ size' = size + 1
    BY <1>7 DEF CountStatus, Counts, At
  <2>2. QED
    <3>1. /\ setter'[t].pc # "count" /\ \A o \in Setters \ {t} : setter'[o] = setter[o]
          /\ t = "updater" => (setter'[t].pc # "idle" => scheduled' = scheduled)
          /\ t # "updater" => scheduled' = scheduled
      BY <1>5, <1>7 DEF CountStatus
    <3>2. CASE t = "wrapper"
      BY <1>0, <2>1, <3>1, <3>2 DEF Setters
    <3>3. CASE t = "updater"
      BY <1>0, <2>1, <3>1, <3>3 DEF Setters
    <3>4. QED
      BY <3>2, <3>3 DEF Setters
<1>8. ASSUME AddSink PROVE CountInv'
  <2>1. UNCHANGED <<size, queue, receiver, setter, scheduled>> /\ glib.pc # "count"
    BY <1>8 DEF AddSink, Handling
  <2>2. glib'.pc # "count"
    BY <1>8, <2>1 DEF AddSink
  <2>3. QED
    BY <2>1, <2>2
<1>9. ASSUME InitializeSink \/ RemoveSink \/ StackChanged PROVE CountInv'
  <2>1. UNCHANGED <<size, receiver, setter, scheduled>> /\ glib.pc # "count"
    BY <1>9 DEF InitializeSink, Initializes, RemoveSink, StackChanged, Handling
  <2>2. Len(queue') - Between(glib'.pc) = Len(queue)
    BY <1>0, <1>2, <1>9, <2>1 DEF InitializeSink, Initializes, RemoveSink, StackChanged, GlibIdle
  <2>3. Between(glib'.pc) \in 0 .. 1 /\ Between(glib.pc) = 0 /\ Len(queue') \in Int
    BY <1>0, <2>1, <2>2, TypeStep DEF Next, Glib, TypeOK, PublishTypes
  <2>4. QED
    BY <1>0, <2>1, <2>2, <2>3
<1>10. ASSUME CountResponse PROVE CountInv'
  <2>1. /\ UNCHANGED <<queue, receiver>> /\ size' = size + 1 /\ scheduled'
        /\ glib.pc = "count" /\ glib'.pc = "idle"
    BY <1>10 DEF CountResponse, Counts, GlibIdle
  <2>2. Between(setter'["updater"].pc) = Between(setter["updater"].pc)
        /\ setter'["wrapper"] = setter["wrapper"]
    <3>1. CASE scheduled
      BY <1>10, <3>1 DEF CountResponse
    <3>2. CASE ~scheduled
      <4>1. setter["updater"].pc = "idle" /\ [SetterIdle EXCEPT !.pc = "read"].pc = "read"
        BY <3>2 DEF SetterIdle
      <4>2. Moves("updater", [SetterIdle EXCEPT !.pc = "read"])
        BY <1>10, <3>2 DEF CountResponse
      <4>3. QED
        BY <1>0, <4>1, <4>2 DEF Moves
    <3>3. QED
      BY <3>1, <3>2
  <2>3. QED
    BY <1>0, <2>1, <2>2
<1>11. ASSUME NEW s \in Sinks, DataReceived(s) PROVE CountInv'
  <2>1. UNCHANGED <<size, setter, glib, scheduled>> /\ receiver = "idle" /\ receiver' = "count"
        /\ Len(queue') = Len(queue) + 1
    BY <1>1, <1>11 DEF DataReceived
  <2>2. QED
    BY <1>0, <2>1
<1>12. ASSUME CountData PROVE CountInv'
  BY <1>0, <1>12 DEF CountData, Counts
<1>13. ASSUME Connect PROVE CountInv'
  <2>1. UNCHANGED <<queue, size, receiver, glib, scheduled>> /\ setter["wrapper"].pc = "idle"
        /\ Moves("wrapper", [SetterIdle EXCEPT !.pc = "read"])
    BY <1>13 DEF Connect, Wrapper, At
  <2>2. [SetterIdle EXCEPT !.pc = "read"].pc = "read"
    BY DEF SetterIdle
  <2>3. QED
    BY <1>0, <2>1, <2>2 DEF Moves
<1>14. ASSUME OnPublish PROVE CountInv'
  <2>1. UNCHANGED <<setter, receiver, glib, scheduled>> /\ size' = size - 1
    BY <1>14 DEF OnPublish
  <2>2. Len(queue') = Len(queue) - 1
    BY <1>0, <1>14 DEF OnPublish
  <2>3. QED
    BY <1>0, <2>1, <2>2
<1>15. ASSUME Restart PROVE CountInv'
  <2>1. /\ queue' = <<>> /\ size' = 0 /\ receiver' = "idle" /\ glib'.pc = "idle"
        /\ \A t \in Setters : setter'[t].pc = "idle"
    BY <1>15 DEF Restart, Begins, GlibIdle, SetterIdle
  <2>2. QED
    BY <1>0, <2>1
<1>16. QED
  BY <1>3, <1>4, <1>6, <1>7, <1>8, <1>9, <1>10, <1>11, <1>12, <1>13, <1>14, <1>15
     DEF Next, Main, Updater, Setter, Setters, Glib, Receiver, Monitor, MqttWrapper, Outside

(* The size the monitor compares differs from the number of messages put    *)
(* and not acknowledged only by those between their put and their count     *)
(* (mqtt_wrapper.py:296-297), whatever the threads do.                      *)
THEOREM CountAlwaysExact == Spec => []CountExact
<1>1. Init => CountInv
  BY DEF Init, CountInv, CountExact, Between, SetterIdle, GlibIdle, Setters
<1>2. TypeOK /\ CountInv /\ [Next]_vars => CountInv'
  BY CountStep
<1>3. CountInv => CountExact
  BY DEF CountInv
<1>4. QED
  BY <1>1, <1>2, <1>3, TypeCorrect, PTL DEF Spec
-----------------------------------------------------------------------------
(* A hole is over for a sink once the monitor has visited it.  Until then a *)
(* stack that is wanted may be stopped; HoleLeavesNoTrace says nothing of   *)
(* that time, so it is not inductive alone.                                 *)
InHole(s) ==
  \/ monitor.pc = "raise"
  \/ monitor.pc = "lower" /\ s \in monitor.todo
  \/ monitor.pc # "lower" /\ disconnected

HoleExcuses == {"absent", "started_all", "restarted"}

Kept(s) ==
  node[s].started = wanted[s] \/ (wanted[s] /\ ~node[s].started /\ InHole(s))

HoleInv ==
  /\ main # "run" => monitor.pc = "new"
  /\ monitor.pc \in {"new", "start"} => ~disconnected
  /\ stop_stack /\ ~Excused(HoleExcuses) => \A s \in Sinks \ failed : Kept(s)

(* Where a visit of the monitor leads. *)
LEMMA VisitResult ==
  ASSUME NEW why, NEW todo, Visits(why, todo)
  PROVE  \/ todo = {} /\ monitor'.pc = "sleep" /\ (disconnected' <=> (why = "raise"))
         \/ /\ todo # {} /\ monitor'.pc = why /\ monitor'.todo = todo
            /\ disconnected' = disconnected
<1>1. CASE todo = {}
  <2>1. monitor' = Asleep /\ disconnected' = (why = "raise")
    BY <1>1 DEF Visits
  <2>2. monitor'.pc = "sleep"
    BY <2>1 DEF Asleep
  <2>3. disconnected' <=> (why = "raise")
    BY <2>1, Zenon
  <2>4. QED
    BY <1>1, <2>2, <2>3
<1>2. CASE todo # {}
  BY <1>2 DEF Visits
<1>3. QED
  BY <1>1, <1>2

(* What has gone wrong is not forgotten as long as the process runs, and    *)
(* what this says of a hole not by a restart either.                        *)
LEMMA CausesStay == [Next]_vars /\ ~Restart => causes \subseteq causes'
<1> SUFFICES ASSUME [Next]_vars, ~Restart
             PROVE  causes \subseteq causes'
  OBVIOUS
<1>1. \A what : Blame(what) => causes \subseteq causes'
  BY DEF Blame
<1>2. ASSUME NEW t \in Setters, Setter(t) PROVE causes \subseteq causes'
  BY <1>1, <1>2 DEF Setter, ReadConfigs, PublishStatus, CountStatus
<1>3. ASSUME Glib \/ Main \/ Receiver PROVE causes \subseteq causes'
  BY <1>1, <1>3 DEF Glib, AddSink, RemoveSink, StackChanged, InitializeSink, Initializes, CountResponse,
                    Main, ListNames, Subscribe, Receiver, DataReceived, CountData
<1>4. ASSUME Monitor \/ Connect \/ OnPublish PROVE causes \subseteq causes'
  BY <1>1, <1>4 DEF Monitor, Detect, Recover, SetCost, WriteStarted, Connect, OnPublish
<1>5. ASSUME Outside PROVE causes \subseteq causes'
  BY <1>1, <1>5 DEF Outside, ServiceChanges, OperatorChanges, RoleChanges, Disconnect
<1>6. ASSUME UNCHANGED vars PROVE causes \subseteq causes'
  BY <1>6 DEF vars
<1>7. QED
  BY <1>2, <1>3, <1>4, <1>5, <1>6 DEF Next, Updater, MqttWrapper, Setters

LEMMA ExcuseStays == [Next]_vars /\ Excused(HoleExcuses) => Excused(HoleExcuses)'
<1>1. causes \subseteq causes' /\ Excused(HoleExcuses) => Excused(HoleExcuses)'
  BY DEF Excused
<1>2. Restart /\ Excused(HoleExcuses) => Excused(HoleExcuses)'
  BY DEF Restart, Excused, HoleExcuses
<1>3. QED
  BY <1>1, <1>2, CausesStay

LEMMA HoleStep == TypeOK /\ HoleInv /\ [Next]_vars => HoleInv'
<1> SUFFICES ASSUME TypeOK, HoleInv, [Next]_vars
             PROVE  HoleInv'
  OBVIOUS
<1> USE DEF chosen
<1>0. /\ \A s \in Sinks : node[s].started \in BOOLEAN /\ wanted[s] \in BOOLEAN
      /\ disconnected \in BOOLEAN /\ stop_stack \in BOOLEAN /\ monitor \in MonitorStates
  BY DEF TypeOK, OutsideTypes, SinkTypes
<1>1. ~Excused(HoleExcuses)' => ~Excused(HoleExcuses)
  BY ExcuseStays
<1>2. ASSUME UNCHANGED <<monitor, disconnected, wanted, stop_stack>>, stop_stack => failed' = failed,
             main' = main \/ (main = "list" /\ main' = "subscribe"),
             \A s \in Sinks : node'[s].started = node[s].started
      PROVE  HoleInv'
  <2>1. \A s \in Sinks : Kept(s) => Kept(s)'
    BY <1>2 DEF Kept, InHole
  <2>2. QED
    BY <1>1, <1>2, <2>1 DEF HoleInv
<1>3. ASSUME ListNames \/ Receiver \/ UNCHANGED vars \/ Connect \/ OnPublish \/ Disconnect
             \/ AddSink \/ RemoveSink \/ StackChanged \/ CountResponse
             \/ (\E t \in Setters : Setter(t)) \/ (\E s \in Sinks : RoleChanges(s))
      PROVE  HoleInv'
  <2>1. /\ UNCHANGED <<monitor, disconnected, wanted, stop_stack, node, failed>>
        /\ main' = main \/ (main = "list" /\ main' = "subscribe")
    BY <1>3 DEF ListNames, Receiver, DataReceived, CountData, vars, outside, hole, Connect,
                OnPublish, Disconnect, OutsideOnly, AddSink, RemoveSink, StackChanged,
                CountResponse, Setter, ReadConfigs, PublishStatus, CountStatus, RoleChanges
  <2>2. QED
    BY <1>2, <2>1
<1>4. ASSUME InitializeSink PROVE HoleInv'
  <2>1. UNCHANGED <<monitor, disconnected, wanted, stop_stack, main>> /\ glib.sink \in Sinks
    BY <1>4 DEF InitializeSink, Initializes, hole, TypeOK, SinkTypes
  <2>2. /\ \A s \in Sinks : node'[s].started = node[s].started
        /\ stop_stack => failed' = failed
    <3>1. \/ node' = node /\ (stop_stack => failed' = failed)
          \/ SetsCost(glib.sink, IF glib.flag THEN "high" ELSE "low")
      BY <1>4 DEF InitializeSink, Initializes
    <3>2. QED
      BY <2>1, <3>1, SetsCostDoes
  <2>3. QED
    BY <1>2, <2>1, <2>2
<1>5. ASSUME NEW s \in Sinks, ServiceChanges(s) PROVE HoleInv'
  <2>1. UNCHANGED <<monitor, disconnected, wanted, stop_stack, main>>
    BY <1>5 DEF ServiceChanges, OutsideOnly, hole
  <2>2. failed' = failed /\ \A t \in Sinks : node'[t].started = node[t].started
    BY <1>5 DEF ServiceChanges, TypeOK, OutsideTypes
  <2>3. QED
    BY <1>2, <2>1, <2>2
<1>6. ASSUME NEW s \in Sinks, OperatorChanges(s) PROVE HoleInv'
  <2>1. UNCHANGED <<monitor, disconnected, stop_stack, main>>
    BY <1>6 DEF OperatorChanges, OutsideOnly, hole
  <2>2. /\ node'[s].started = wanted'[s]
        /\ \A t \in Sinks \ {s} : node'[t] = node[t] /\ wanted'[t] = wanted[t]
                                  /\ (t \in failed' <=> t \in failed)
    BY <1>6 DEF OperatorChanges, TypeOK, OutsideTypes
  <2>3. Kept(s)' /\ \A t \in Sinks \ {s} : Kept(t) => Kept(t)'
    BY <2>1, <2>2 DEF Kept, InHole
  <2>4. QED
    BY <1>1, <2>1, <2>2, <2>3 DEF HoleInv
<1>7. ASSUME Subscribe PROVE HoleInv'
  <2>1. monitor.pc = "new" /\ ~disconnected /\ main' = "run"
        /\ UNCHANGED <<node, wanted, stop_stack, failed>>
    BY <1>7 DEF Subscribe, HoleInv, outside
  <2>2. monitor'.pc \in {"new", "start", "sleep"} /\ ~disconnected'
    BY <1>7, <2>1, VisitResult DEF Subscribe, hole
  <2>3. \A s \in Sinks : Kept(s) => Kept(s)'
    BY <2>1, <2>2 DEF Kept, InHole
  <2>4. QED
    BY <1>1, <2>1, <2>2, <2>3 DEF HoleInv
<1>8. ASSUME Detect PROVE HoleInv'
  <2>1. monitor.pc = "sleep" /\ ~disconnected
        /\ UNCHANGED <<main, node, wanted, stop_stack, failed>>
    BY <1>8 DEF Detect, MonitorOnly
  <2>2. monitor'.pc = "raise" \/ (monitor'.pc = "sleep" /\ disconnected')
    BY <1>8, VisitResult DEF Detect
  <2>3. \A s \in Sinks : Kept(s) => Kept(s)'
    BY <2>1, <2>2 DEF Kept, InHole
  <2>4. QED
    BY <1>1, <2>1, <2>2, <2>3 DEF HoleInv
<1>9. ASSUME Recover PROVE HoleInv'
  <2>1. monitor.pc = "sleep" /\ disconnected
        /\ UNCHANGED <<main, node, wanted, stop_stack, failed>>
    BY <1>9 DEF Recover, MonitorOnly, outside
  <2>2. \/ monitor'.pc = "lower" /\ monitor'.todo = sinks
        \/ monitor'.pc = "sleep" /\ ~disconnected' /\ sinks = {}
    BY <1>9, VisitResult DEF Recover
  <2>3. stop_stack /\ ~Excused(HoleExcuses)' =>
          \A s \in Sinks \ sinks : ~(wanted[s] /\ ~node[s].started)
    BY <1>9 DEF Recover, Blame, Excused, HoleExcuses
  <2>4. ASSUME stop_stack, ~Excused(HoleExcuses)', NEW s \in Sinks, Kept(s)
        PROVE  Kept(s)'
    BY <2>1, <2>2, <2>3, <2>4 DEF Kept, InHole
  <2>5. QED
    BY <1>1, <2>1, <2>2, <2>4 DEF HoleInv
<1>10. ASSUME NEW s \in Sinks, SetCost(s) PROVE HoleInv'
  <2>1. /\ monitor.pc = "start" \/ ~stop_stack
        /\ UNCHANGED <<main, wanted, stop_stack>> /\ monitor.pc \in {"start", "raise", "lower"}
        /\ \A t \in Sinks : node'[t].started = node[t].started
        /\ stop_stack => failed' = failed
    <3>1. \/ UNCHANGED <<node, failed>>
          \/ SetsCost(s, IF monitor.pc = "raise" THEN "high" ELSE "low")
      BY <1>10 DEF SetCost
    <3>2. /\ \A t \in Sinks : node'[t].started = node[t].started
          /\ stop_stack => failed' = failed
      BY <3>1, SetsCostDoes
    <3>3. QED
      BY <1>10, <3>2 DEF SetCost, MonitorOnly
  <2>2. \/ monitor'.pc = "raised" /\ disconnected' = disconnected
        \/ Visits(monitor.pc, monitor.todo \ {s})
    BY <1>10 DEF SetCost
  <2>3. monitor.pc = "start" => ~disconnected /\ ~disconnected'
                                /\ monitor'.pc \in {"raised", "start", "sleep"}
    BY <2>1, <2>2, VisitResult DEF HoleInv
  <2>4. monitor'.pc \in {"new", "start"} => monitor.pc = "start"
    BY <2>1, <2>2, VisitResult
  <2>5. stop_stack => \A t \in Sinks : Kept(t) => Kept(t)'
    BY <2>1, <2>3 DEF Kept, InHole
  <2>6. main = "run"
    BY <2>1 DEF HoleInv
  <2>7. QED
    BY <1>1, <2>1, <2>3, <2>4, <2>5, <2>6 DEF HoleInv
<1>11. ASSUME NEW s \in Sinks, WriteStarted(s) PROVE HoleInv'
  <2>1. /\ monitor.pc \in {"raise", "lower"} /\ s \in monitor.todo
        /\ UNCHANGED <<main, wanted, stop_stack>>
        /\ Visits(monitor.pc, monitor.todo \ {s})
    BY <1>11 DEF WriteStarted, MonitorOnly
  <2>2. \A t \in Sinks \ {s} : node'[t] = node[t] /\ (t \in failed' <=> t \in failed)
    <3>1. node' = node \/ node' = [node EXCEPT ![s].started = (monitor.pc = "lower")]
      BY <1>11 DEF WriteStarted
    <3>2. failed' \in {failed, failed \ {s}, failed \union {s}}
      BY <1>11 DEF WriteStarted
    <3>3. QED
      BY <3>1, <3>2 DEF TypeOK, OutsideTypes
  <2>3. CASE monitor.pc = "raise"
    <3>1. monitor'.pc = "raise" \/ (monitor'.pc = "sleep" /\ disconnected')
      BY <2>1, <2>3, VisitResult
    <3>2. \/ node' = node /\ (s \in failed => s \in failed')
          \/ node'[s].started = FALSE
      BY <1>0, <1>11, <2>3 DEF WriteStarted, TypeOK, OutsideTypes
    <3>3. \A t \in Sinks \ failed' : t \in failed \/ Kept(t) => Kept(t)'
      <4>1. ASSUME NEW t \in Sinks \ failed', t \in failed \/ Kept(t) PROVE Kept(t)'
        <5>1. CASE t = s /\ node'[s].started = FALSE
          BY <1>0, <2>1, <3>1, <5>1 DEF Kept, InHole
        <5>2. CASE t # s \/ node' = node
          BY <1>0, <2>1, <2>2, <3>1, <3>2, <4>1, <5>2 DEF Kept, InHole
        <5>3. QED
          BY <3>2, <5>1, <5>2
      <4>2. QED
        BY <4>1
    <3>4. QED
      BY <1>1, <2>1, <3>1, <3>3 DEF HoleInv
  <2>4. CASE monitor.pc = "lower"
    <3>1. \/ monitor'.pc = "lower" /\ monitor'.todo = monitor.todo \ {s}
          \/ monitor'.pc = "sleep" /\ ~disconnected' /\ monitor.todo \ {s} = {}
      BY <2>1, <2>4, VisitResult
    <3>2. \/ Excused(HoleExcuses)' \/ s \in failed'
          \/ node'[s].started = TRUE /\ wanted[s]
      <4>1. CASE ~node[s].on
        BY <1>11, <2>4, <4>1 DEF WriteStarted, Blame, Excused, HoleExcuses
      <4>2. CASE s \in failed'
        BY <4>2
      <4>3. CASE /\ node[s].on /\ s \notin failed'
        <5>1. /\ node' = [node EXCEPT ![s].started = TRUE]
              /\ wanted[s] \/ "started_all" \in causes'
          BY <1>0, <1>11, <2>4, <4>3 DEF WriteStarted, Blame
        <5>2. node'[s].started = TRUE
          BY <5>1 DEF TypeOK, OutsideTypes
        <5>3. QED
          BY <5>1, <5>2 DEF Excused, HoleExcuses
      <4>4. QED
        BY <4>1, <4>2, <4>3
    <3>4. ASSUME ~Excused(HoleExcuses)', NEW t \in Sinks \ failed', t \in failed \/ Kept(t)
          PROVE  Kept(t)'
      <4>1. CASE t = s
        BY <1>0, <2>1, <3>2, <3>4, <4>1 DEF Kept
      <4>2. CASE t # s
        BY <2>1, <2>2, <2>4, <3>1, <3>4, <4>2 DEF Kept, InHole
      <4>3. QED
        BY <4>1, <4>2
    <3>5. QED
      BY <1>1, <2>1, <3>1, <3>4 DEF HoleInv
  <2>5. QED
    BY <2>1, <2>3, <2>4
<1>12. ASSUME Restart PROVE HoleInv'
  <2>1. /\ monitor'.pc = "new" /\ ~disconnected'
        /\ UNCHANGED <<node, wanted, stop_stack, failed>>
    BY <1>12 DEF Restart, Begins, Asleep
  <2>2. stop_stack /\ ~Excused(HoleExcuses)' => ~disconnected /\ ~Busy
    BY <1>12 DEF Restart, Excused, HoleExcuses
  <2>3. ASSUME stop_stack, ~Excused(HoleExcuses)', NEW s \in Sinks, Kept(s)
        PROVE  Kept(s)'
    BY <2>1, <2>2, <2>3 DEF Kept, InHole, Busy
  <2>4. QED
    BY <1>1, <2>1, <2>3 DEF HoleInv
<1>13. QED
  BY <1>3, <1>4, <1>5, <1>6, <1>7, <1>8, <1>9, <1>10, <1>11, <1>12
     DEF Next, Main, Updater, Setters, Glib, Monitor, MqttWrapper, Outside

(* Once a hole is over every stack is as its operator wanted it, but for a  *)
(* sink that was not there, for what _start_sinks starts all the same, and  *)
(* for a process that ended in a hole (transport_service.py:86-96).         *)
THEOREM HoleAlwaysUndone == Spec => []HoleLeavesNoTrace
<1>1. Init => HoleInv
  BY DEF Init, HoleInv, Kept, Asleep
<1>2. TypeOK /\ HoleInv /\ [Next]_vars => HoleInv'
  BY HoleStep
<1>3. HoleInv => HoleLeavesNoTrace
  BY DEF HoleInv, Kept, InHole, HoleLeavesNoTrace, HoleExcuses, Busy
<1>4. QED
  BY <1>1, <1>2, <1>3, TypeCorrect, PTL DEF Spec
-----------------------------------------------------------------------------
(* The signals that tell of a sink, and the sinks whose initialisation is   *)
(* still to come.                                                           *)
Tells(i, kind, s) == signals[i] = [kind |-> kind, sink |-> s]
Told(kind, s) == \E i \in DOMAIN signals : Tells(i, kind, s)
Preparing(s) == glib.pc = "set" /\ glib.sink = s
Coming(s) == Told("added", s) \/ Preparing(s)

(* What is told of a sink alternates: an appearance comes after the removal *)
(* of what is known, between two appearances there is a removal, and a sink *)
(* that is gone but known, or was told to have come, is told to have gone.  *)
Alternates(s) ==
  /\ \A i \in DOMAIN signals : Tells(i, "added", s) =>
       /\ s \notin sinks \/ \E k \in 1 .. i - 1 : Tells(k, "removed", s)
       /\ \A j \in i + 1 .. Len(signals) :
            Tells(j, "added", s) => \E k \in i + 1 .. j - 1 : Tells(k, "removed", s)
       /\ node[s].on \/ \E k \in i + 1 .. Len(signals) : Tells(k, "removed", s)
  /\ s \in sinks => node[s].on \/ \E k \in DOMAIN signals : Tells(k, "removed", s)

SignalInv ==
  /\ main # "run" => glib.pc = "idle" /\ \A i \in DOMAIN signals : signals[i].kind = "stack"
  /\ main = "run" /\ ~Excused({"missed"}) => \A s \in Sinks : Alternates(s)

(* The flag is what the last visit left, and changes at the end of one.     *)
FlagInv ==
  /\ main # "run" => monitor.pc = "new"
  /\ monitor.pc \in {"new", "start", "raise"} => ~disconnected
  /\ monitor.pc = "lower" => disconnected

(* The cost a sink has once the monitor has visited it.                     *)
Target == IF monitor.pc = "raise" \/ (monitor.pc \in {"sleep", "raised"} /\ disconnected) THEN "high" ELSE "low"
Visiting == monitor.pc \in {"start", "raise", "lower"}

Costed(s) ==
  \/ node[s].cost = Target
  \/ Visiting /\ s \in monitor.todo
  \/ Coming(s)
  \/ monitor.pc \in {"new", "raised"}  \* no monitor, or not any more

CostInv ==
  main = "run" /\ ~stop_stack /\ ~Excused({"missed", "crossed_hole"}) =>
    \A s \in (sinks \intersect OnBus) \ failed : Costed(s)

(* A node that is not in a sink role, but in the list or to be visited, is  *)
(* one whose cost is still to be written or could not be.                   *)
RoleExcuses == {"missed", "unprepared", "demoted"}
RoleInv ==
  main = "run" /\ ~stop_stack /\ ~Excused(RoleExcuses) =>
    \A s \in OnBus \ role :
      s \in sinks \/ (Visiting /\ s \in monitor.todo) =>
        \/ Coming(s) \/ s \in failed
        \/ monitor.pc = "start" /\ s \in monitor.todo
        \/ monitor.pc \in {"new", "raised"}

LowExcuses == RoleExcuses \union {"restarted"}
LowInv ==
  /\ stop_stack => \A s \in Sinks : node[s].cost # "high"
  /\ monitor.pc \in {"new", "start", "raised"} /\ ~Excused(LowExcuses) =>
       /\ ~disconnected
       /\ glib.pc = "set" => ~glib.flag
       /\ \A s \in Sinks : node[s].cost # "high"

(* A handled signal leaves the queue at its head, a new one comes to its    *)
(* end: what is told of a sink goes on to alternate.                        *)
LEMMA HeadIsTold ==
  ASSUME TypeOK, NEW kind, Handling(kind)
  PROVE  /\ main = "run" /\ glib.pc = "idle" /\ signals # <<>> /\ signals' = Tail(signals)
         /\ Len(signals) \in Nat \ {0}
         /\ Tells(1, kind, Head(signals).sink)
         /\ \A k, s : Tells(1, k, s) => k = kind /\ s = Head(signals).sink
<1>1. signals \in Seq(Signals) /\ signals # <<>>
  BY DEF TypeOK, OutsideTypes, Handling
<1>2. Head(signals) = signals[1] /\ Head(signals) \in Signals /\ Len(signals) \in Nat \ {0}
  BY <1>1
<1>3. Head(signals) = [kind |-> kind, sink |-> Head(signals).sink]
  BY <1>2 DEF Signals, Handling
<1>4. QED
  BY <1>2, <1>3 DEF Handling, Tells

LEMMA Shorter ==
  ASSUME TypeOK, signals # <<>>, signals' = Tail(signals), node' = node,
         NEW s \in Sinks, Alternates(s),
         Tells(1, "added", s) => (s \in sinks' => node[s].on),
         Tells(1, "removed", s) => s \notin sinks',
         ~Tells(1, "added", s) => (s \in sinks' => s \in sinks)
  PROVE  Alternates(s)'
<1> DEFINE n == Len(signals)
<1>1. n \in Nat \ {0} /\ DOMAIN signals = 1 .. n
  BY DEF TypeOK, OutsideTypes
<1>2. /\ Len(signals') = n - 1 /\ DOMAIN signals' = 1 .. n - 1
      /\ \A i \in 1 .. n - 1 : signals'[i] = signals[i + 1]
  BY DEF TypeOK, OutsideTypes
<1>3. \A i \in 1 .. n - 1 : \A k : Tells(i, k, s)' <=> Tells(i + 1, k, s)
  BY <1>2 DEF Tells
<1>4. ASSUME NEW i \in 1 .. n - 1, Tells(i + 1, "added", s),
             NEW k \in i + 2 .. n, Tells(k, "removed", s)
      PROVE  k - 1 \in i + 1 .. n - 1 /\ Tells(k - 1, "removed", s)'
  <2>1. k - 1 \in 1 .. n - 1 /\ (k - 1) + 1 = k
    BY <1>1
  <2>2. QED
    BY <1>1, <1>3, <1>4, <2>1
<1>5. ASSUME NEW i \in DOMAIN signals', Tells(i, "added", s)'
      PROVE  /\ s \notin sinks' \/ \E k \in 1 .. i - 1 : Tells(k, "removed", s)'
             /\ \A j \in i + 1 .. n - 1 :
                  Tells(j, "added", s)' => \E k \in i + 1 .. j - 1 : Tells(k, "removed", s)'
             /\ node[s].on \/ \E k \in i + 1 .. n - 1 : Tells(k, "removed", s)'
  <2>1. i \in 1 .. n - 1 /\ i + 1 \in 1 .. n /\ i + 1 \in DOMAIN signals /\ Tells(i + 1, "added", s)
    BY <1>1, <1>2, <1>3, <1>5
  <2>2. s \notin sinks' \/ \E k \in 1 .. i - 1 : Tells(k, "removed", s)'
    <3>1. SUFFICES ASSUME s \in sinks'
                   PROVE  \E k \in 1 .. i - 1 : Tells(k, "removed", s)'
      OBVIOUS
    <3>2. \E k \in 2 .. i : Tells(k, "removed", s)
      <4>1. CASE Tells(1, "added", s)
        <5>1. 1 \in DOMAIN signals /\ i + 1 \in 1 + 1 .. Len(signals)
          BY <1>1, <2>1
        <5>2. PICK k \in 1 + 1 .. (i + 1) - 1 : Tells(k, "removed", s)
          BY <2>1, <4>1, <5>1 DEF Alternates
        <5>3. QED
          BY <2>1, <5>2
      <4>2. CASE ~Tells(1, "added", s)
        <5>1. PICK k \in 1 .. (i + 1) - 1 : Tells(k, "removed", s)
          BY <2>1, <3>1, <4>2 DEF Alternates
        <5>2. k # 1
          BY <3>1, <5>1
        <5>3. QED
          BY <2>1, <5>1, <5>2
      <4>3. QED
        BY <4>1, <4>2
    <3>3. PICK k \in 2 .. i : Tells(k, "removed", s)
      BY <3>2
    <3>4. k - 1 \in 1 .. i - 1 /\ k - 1 \in 1 .. n - 1 /\ (k - 1) + 1 = k
      BY <1>1, <2>1, <3>3
    <3>5. QED
      BY <1>3, <3>3, <3>4
  <2>3. ASSUME NEW j \in i + 1 .. n - 1, Tells(j, "added", s)'
        PROVE  \E k \in i + 1 .. j - 1 : Tells(k, "removed", s)'
    <3>1. j \in 1 .. n - 1 /\ j + 1 \in (i + 1) + 1 .. Len(signals)
      BY <1>1, <2>1
    <3>2. Tells(j + 1, "added", s)
      BY <1>3, <2>3, <3>1
    <3>3. PICK k \in (i + 1) + 1 .. (j + 1) - 1 : Tells(k, "removed", s)
      BY <2>1, <3>1, <3>2 DEF Alternates
    <3>4. k \in i + 2 .. n /\ k - 1 \in i + 1 .. j - 1
      BY <1>1, <2>1, <3>1, <3>3
    <3>5. QED
      BY <1>4, <2>1, <3>3, <3>4
  <2>4. node[s].on \/ \E k \in i + 1 .. n - 1 : Tells(k, "removed", s)'
    <3>1. node[s].on \/ \E k \in (i + 1) + 1 .. Len(signals) : Tells(k, "removed", s)
      BY <2>1 DEF Alternates
    <3>2. ASSUME NEW k \in (i + 1) + 1 .. Len(signals), Tells(k, "removed", s)
          PROVE  \E l \in i + 1 .. n - 1 : Tells(l, "removed", s)'
      <4>1. k \in i + 2 .. n
        BY <1>1, <2>1
      <4>2. QED
        BY <1>4, <2>1, <3>2, <4>1
    <3>3. QED
      BY <3>1, <3>2
  <2>5. QED
    BY <2>2, <2>3, <2>4
<1>6. s \in sinks' => node[s].on \/ \E k \in DOMAIN signals' : Tells(k, "removed", s)'
  <2>1. SUFFICES ASSUME s \in sinks', ~node[s].on
                 PROVE  \E k \in DOMAIN signals' : Tells(k, "removed", s)'
    OBVIOUS
  <2>2. s \in sinks /\ ~Tells(1, "removed", s)
    BY <2>1
  <2>3. PICK k \in DOMAIN signals : Tells(k, "removed", s)
    BY <2>1, <2>2 DEF Alternates
  <2>4. k - 1 \in 1 .. n - 1 /\ (k - 1) + 1 = k
    BY <1>1, <2>2, <2>3
  <2>5. QED
    BY <1>2, <1>3, <2>3, <2>4
<1>7. QED
  BY <1>2, <1>5, <1>6 DEF Alternates

LEMMA Longer ==
  ASSUME TypeOK, NEW x, signals' = Append(signals, x), NEW s \in Sinks, Alternates(s),
         s \in sinks' => s \in sinks,
         x = [kind |-> "added", sink |-> s] => ~node[s].on /\ node'[s].on,
         x # [kind |-> "added", sink |-> s] /\ x # [kind |-> "removed", sink |-> s]
           => node'[s].on = node[s].on
  PROVE  Alternates(s)'
<1> DEFINE n == Len(signals)
<1>1. n \in Nat /\ DOMAIN signals = 1 .. n
  BY DEF TypeOK, OutsideTypes
<1>2. /\ Len(signals') = n + 1 /\ DOMAIN signals' = 1 .. n + 1 /\ signals'[n + 1] = x
      /\ \A i \in 1 .. n : signals'[i] = signals[i]
  BY DEF TypeOK, OutsideTypes
<1>0. PICK end \in Nat : end = n + 1
  BY <1>1
<1>3. \A i \in 1 .. n : \A k : Tells(i, k, s)' <=> Tells(i, k, s)
  BY <1>2 DEF Tells
<1>4. \A k : Tells(end, k, s)' <=> x = [kind |-> k, sink |-> s]
  BY <1>0, <1>2 DEF Tells
<1>5. ASSUME ~node'[s].on, ~Tells(end, "removed", s)'
      PROVE  ~node[s].on /\ ~Tells(end, "added", s)'
  BY <1>4, <1>5
<1>6. ASSUME NEW i \in 1 .. n, Tells(i, "added", s)'
      PROVE  /\ s \notin sinks' \/ \E k \in 1 .. i - 1 : Tells(k, "removed", s)'
             /\ \A j \in i + 1 .. n + 1 :
                  Tells(j, "added", s)' => \E k \in i + 1 .. j - 1 : Tells(k, "removed", s)'
             /\ node'[s].on \/ \E k \in i + 1 .. n + 1 : Tells(k, "removed", s)'
  <2>1. i \in DOMAIN signals /\ Tells(i, "added", s)
    BY <1>1, <1>3, <1>6
  <2>2. s \notin sinks' \/ \E k \in 1 .. i - 1 : Tells(k, "removed", s)'
    <3>1. s \notin sinks' \/ \E k \in 1 .. i - 1 : Tells(k, "removed", s)
      BY <2>1 DEF Alternates
    <3>2. \A k \in 1 .. i - 1 : k \in 1 .. n
      BY <1>1
    <3>3. QED
      BY <1>3, <3>1, <3>2
  <2>3. ~node[s].on => \E k \in i + 1 .. n : Tells(k, "removed", s)'
    <3>1. ~node[s].on => \E k \in i + 1 .. n : Tells(k, "removed", s)
      BY <2>1 DEF Alternates
    <3>2. \A k \in i + 1 .. n : k \in 1 .. n
      BY <1>1
    <3>3. QED
      BY <1>3, <3>1, <3>2
  <2>4. ASSUME NEW j \in i + 1 .. n + 1, Tells(j, "added", s)'
        PROVE  \E k \in i + 1 .. j - 1 : Tells(k, "removed", s)'
    <3>1. CASE j = n + 1
      <4>1. ~node[s].on /\ j - 1 = n
        BY <1>0, <1>1, <1>4, <2>4, <3>1
      <4>2. QED
        BY <2>3, <4>1
    <3>2. CASE j # n + 1
      <4>1. j \in i + 1 .. n /\ j \in 1 .. n
        BY <1>1, <3>2
      <4>2. PICK k \in i + 1 .. j - 1 : Tells(k, "removed", s)
        BY <1>3, <2>1, <2>4, <4>1 DEF Alternates
      <4>3. k \in 1 .. n
        BY <1>1, <4>1
      <4>4. QED
        BY <1>3, <4>2, <4>3
    <3>3. QED
      BY <3>1, <3>2
  <2>5. node'[s].on \/ \E k \in i + 1 .. n + 1 : Tells(k, "removed", s)'
    <3>1. \A k \in i + 1 .. n : k \in i + 1 .. n + 1
      BY <1>1
    <3>2. n + 1 \in i + 1 .. n + 1
      BY <1>1
    <3>3. QED
      BY <1>0, <1>5, <2>3, <3>1, <3>2
  <2>6. QED
    BY <2>2, <2>4, <2>5
<1>7. ASSUME Tells(end, "added", s)'
      PROVE  node'[s].on /\ (s \notin sinks' \/ \E k \in 1 .. n : Tells(k, "removed", s)')
  <2>1. ~node[s].on /\ node'[s].on
    BY <1>4, <1>7
  <2>2. s \in sinks => \E k \in 1 .. n : Tells(k, "removed", s)
    BY <1>1, <2>1 DEF Alternates
  <2>3. QED
    BY <1>3, <2>1, <2>2
<1>8. s \in sinks' => node'[s].on \/ \E k \in 1 .. n + 1 : Tells(k, "removed", s)'
  <2>1. SUFFICES ASSUME s \in sinks', ~node'[s].on, ~Tells(end, "removed", s)'
                 PROVE  \E k \in 1 .. n : Tells(k, "removed", s)'
    BY <1>0, <1>1
  <2>2. \E k \in 1 .. n : Tells(k, "removed", s)
    BY <1>1, <1>5, <2>1 DEF Alternates
  <2>3. QED
    BY <1>3, <2>2
<1>9. \A j \in (n + 1) + 1 .. n + 1 : FALSE
  BY <1>1
<1>10. \A i \in 1 .. n + 1 : i \in 1 .. n \/ (i = n + 1 /\ i - 1 = n)
  BY <1>1
<1>11. ASSUME NEW i \in DOMAIN signals', Tells(i, "added", s)'
       PROVE  /\ s \notin sinks' \/ \E k \in 1 .. i - 1 : Tells(k, "removed", s)'
              /\ \A j \in i + 1 .. Len(signals') :
                   Tells(j, "added", s)' => \E k \in i + 1 .. j - 1 : Tells(k, "removed", s)'
              /\ node'[s].on \/ \E k \in i + 1 .. Len(signals') : Tells(k, "removed", s)'
  <2>1. CASE i \in 1 .. n
    BY <1>2, <1>6, <1>11, <2>1
  <2>2. CASE i = n + 1 /\ i - 1 = n
    BY <1>0, <1>2, <1>7, <1>9, <1>11, <2>2
  <2>3. QED
    BY <1>2, <1>10, <2>1, <2>2
<1>12. QED
  BY <1>2, <1>8, <1>11 DEF Alternates

(* The signals grow by what they are told, and by nothing in between.       *)
Grows == \A i \in DOMAIN signals : i \in DOMAIN signals' /\ signals'[i] = signals[i]

LEMMA GrowsWhen ==
  ASSUME TypeOK, NEW s \in Sinks,
         \/ signals' = signals
         \/ \E x : signals' = Append(signals, x)
         \/ signals' = Restarted(s)
  PROVE  Grows
<1>1. signals \in Seq(Signals)
  BY DEF TypeOK, OutsideTypes
<1>2. CASE signals' = Restarted(s)
  <2>1. PICK x : signals' = Append(Append(signals, x), x)
    BY <1>2, RestartedIs
  <2>2. QED
    BY <1>1, <2>1 DEF Grows
<1>3. CASE signals' = signals \/ \E x : signals' = Append(signals, x)
  BY <1>1, <1>3 DEF Grows
<1>4. QED
  BY <1>2, <1>3

(* A stack that is stopped and started says nothing of appearances.         *)
LEMMA RestartedTells ==
  ASSUME TypeOK, NEW t \in Sinks, signals' = Restarted(t)
  PROVE  /\ Len(signals') = Len(signals) + 2
         /\ \A i \in 1 .. Len(signals) + 2 : \A k \in {"added", "removed"} : \A s :
              Tells(i, k, s)' <=> (i \in 1 .. Len(signals) /\ Tells(i, k, s))
<1> DEFINE n == Len(signals)
           x == [kind |-> "stack", sink |-> t]
<1>1. signals \in Seq(Signals) /\ n \in Nat
  BY DEF TypeOK, OutsideTypes
<1>2. signals' = Append(Append(signals, x), x)
  BY RestartedIs
<1>3. x.kind = "stack"
  OBVIOUS
<1> HIDE DEF x
<1>4. /\ Len(signals') = n + 2
      /\ \A i \in 1 .. n : signals'[i] = signals[i]
      /\ \A i \in 1 .. n + 2 : i \in 1 .. n \/ signals'[i] = x
  BY <1>1, <1>2
<1>5. \A k \in {"added", "removed"} : \A s : x # [kind |-> k, sink |-> s]
  BY <1>3
<1>6. QED
  BY <1>4, <1>5 DEF Tells

LEMMA RestartedAlternates ==
  ASSUME TypeOK, NEW t \in Sinks, signals' = Restarted(t), NEW s \in Sinks, Alternates(s),
         sinks' = sinks, node'[s].on = node[s].on
  PROVE  Alternates(s)'
<1> DEFINE n == Len(signals)
           Told2(i, k) == i \in 1 .. n /\ Tells(i, k, s)
<1>1. n \in Nat /\ DOMAIN signals = 1 .. n /\ Len(signals') = n + 2 /\ DOMAIN signals' = 1 .. n + 2
  BY RestartedTells, RestartedIs DEF TypeOK, OutsideTypes
<1>2. \A i \in 1 .. n + 2 : \A k \in {"added", "removed"} : Tells(i, k, s)' <=> Told2(i, k)
  BY RestartedTells
<1> HIDE DEF Told2
<1>3. /\ \A i \in 1 .. n : \A k : Told2(i, k) <=> Tells(i, k, s)
      /\ \A i \in 1 .. n + 2 : \A k : Told2(i, k) => i \in 1 .. n
  BY DEF Told2
<1>4. ASSUME NEW i \in DOMAIN signals', Tells(i, "added", s)'
      PROVE  /\ s \notin sinks' \/ \E k \in 1 .. i - 1 : Tells(k, "removed", s)'
             /\ \A j \in i + 1 .. Len(signals') :
                  Tells(j, "added", s)' => \E k \in i + 1 .. j - 1 : Tells(k, "removed", s)'
             /\ node'[s].on \/ \E k \in i + 1 .. Len(signals') : Tells(k, "removed", s)'
  <2>1. i \in 1 .. n /\ Tells(i, "added", s)
    BY <1>1, <1>2, <1>3, <1>4
  <2>2. s \notin sinks' \/ \E k \in 1 .. i - 1 : Tells(k, "removed", s)'
    <3>1. s \notin sinks \/ \E k \in 1 .. i - 1 : Tells(k, "removed", s)
      BY <1>1, <2>1 DEF Alternates
    <3>2. \A k \in 1 .. i - 1 : k \in 1 .. n /\ k \in 1 .. n + 2
      BY <1>1, <2>1
    <3>3. QED
      BY <1>2, <1>3, <3>1, <3>2
  <2>3. ASSUME NEW j \in i + 1 .. n + 2, Tells(j, "added", s)'
        PROVE  \E k \in i + 1 .. j - 1 : Tells(k, "removed", s)'
    <3>1. j \in 1 .. n + 2
      BY <1>1, <2>1
    <3>2. j \in 1 .. n /\ Tells(j, "added", s)
      BY <1>2, <1>3, <2>3, <3>1
    <3>3. j \in i + 1 .. n
      BY <1>1, <2>1, <3>2
    <3>4. PICK k \in i + 1 .. j - 1 : Tells(k, "removed", s)
      BY <1>1, <2>1, <3>2, <3>3 DEF Alternates
    <3>5. k \in 1 .. n /\ k \in 1 .. n + 2
      BY <1>1, <2>1, <3>2
    <3>6. QED
      BY <1>2, <1>3, <3>4, <3>5
  <2>4. node'[s].on \/ \E k \in i + 1 .. n + 2 : Tells(k, "removed", s)'
    <3>1. node[s].on \/ \E k \in i + 1 .. n : Tells(k, "removed", s)
      BY <1>1, <2>1 DEF Alternates
    <3>2. \A k \in i + 1 .. n : k \in 1 .. n /\ k \in 1 .. n + 2 /\ k \in i + 1 .. n + 2
      BY <1>1, <2>1
    <3>3. QED
      BY <1>2, <1>3, <3>1, <3>2
  <2>5. QED
    BY <1>1, <2>2, <2>3, <2>4
<1>5. s \in sinks' => node'[s].on \/ \E k \in DOMAIN signals' : Tells(k, "removed", s)'
  <2>1. s \in sinks => node[s].on \/ \E k \in 1 .. n : Tells(k, "removed", s)
    BY <1>1 DEF Alternates
  <2>2. \A k \in 1 .. n : k \in 1 .. n + 2
    BY <1>1
  <2>3. QED
    BY <1>1, <1>2, <1>3, <2>1, <2>2
<1>6. QED
  BY <1>4, <1>5 DEF Alternates

(* Steps that touch neither the sinks, the signals nor the monitor. *)
Quiet ==
  /\ UNCHANGED <<node, signals, main, sinks, monitor, disconnected, role, failed, stop_stack>>
  /\ glib' = glib \/ (glib.pc # "set" /\ glib'.pc = "idle")

LEMMA QuietSteps ==
  CountResponse \/ Receiver \/ Connect \/ OnPublish \/ Disconnect \/ UNCHANGED vars
    \/ (\E t \in Setters : Setter(t)) => Quiet
<1> USE DEF outside, chosen, hole
<1>1. CountResponse => Quiet
  BY DEF CountResponse, GlibIdle, Quiet
<1>2. Receiver \/ Connect \/ OnPublish \/ Disconnect => Quiet
  BY DEF Receiver, DataReceived, CountData, Connect, OnPublish, Disconnect, OutsideOnly, Quiet
<1>3. ASSUME NEW t \in Setters, Setter(t) PROVE Quiet
  BY <1>3 DEF Setter, ReadConfigs, PublishStatus, CountStatus, Quiet
<1>4. UNCHANGED vars => Quiet
  BY DEF vars, Quiet
<1>5. QED
  BY <1>1, <1>2, <1>3, <1>4

(* What the other steps do to the sinks, the signals and GLib's loop. *)
LEMMA AddSinkDoes ==
  ASSUME TypeOK, AddSink
  PROVE  \E s \in Sinks :
           /\ main = "run" /\ glib.pc = "idle" /\ signals # <<>> /\ signals' = Tail(signals)
           /\ Tells(1, "added", s) /\ \A k, t : Tells(1, k, t) => k = "added" /\ t = s
           /\ UNCHANGED <<node, main, monitor, disconnected, role, failed, stop_stack>>
           /\ \/ UNCHANGED <<sinks, glib>> /\ (s \in sinks \/ ~node[s].on)
              \/ /\ node[s].on /\ sinks' = sinks \union {s}
                 /\ glib'.pc = "set" /\ glib'.sink = s /\ glib'.flag = disconnected
<1> DEFINE s == Head(signals).sink
<1>1. s \in Sinks
  BY SignalType DEF AddSink
<1>2. /\ main = "run" /\ glib.pc = "idle" /\ signals # <<>> /\ signals' = Tail(signals)
      /\ Tells(1, "added", s) /\ \A k, t : Tells(1, k, t) => k = "added" /\ t = s
  BY HeadIsTold DEF AddSink
<1>3. UNCHANGED <<node, main, monitor, disconnected, role, failed, stop_stack>>
  BY DEF AddSink, hole, chosen
<1>4. \/ UNCHANGED <<sinks, glib>> /\ (s \in sinks \/ ~node[s].on)
      \/ /\ node[s].on /\ sinks' = sinks \union {s}
         /\ glib'.pc = "set" /\ glib'.sink = s /\ glib'.flag = disconnected
  BY DEF AddSink
<1>5. QED
  BY <1>1, <1>2, <1>3, <1>4

LEMMA RemoveSinkDoes ==
  ASSUME TypeOK, RemoveSink
  PROVE  \E s \in Sinks :
           /\ main = "run" /\ glib.pc = "idle" /\ signals # <<>> /\ signals' = Tail(signals)
           /\ Tells(1, "removed", s) /\ \A k, t : Tells(1, k, t) => k = "removed" /\ t = s
           /\ UNCHANGED <<node, main, monitor, disconnected, role, failed, stop_stack>>
           /\ sinks' = sinks \ {s} /\ glib'.pc # "set"
<1> DEFINE s == Head(signals).sink
<1>1. s \in Sinks /\ glib.pc = "idle"
  BY SignalType DEF RemoveSink
<1>2. /\ main = "run" /\ glib.pc = "idle" /\ signals # <<>> /\ signals' = Tail(signals)
      /\ Tells(1, "removed", s) /\ \A k, t : Tells(1, k, t) => k = "removed" /\ t = s
  BY HeadIsTold DEF RemoveSink
<1>3. UNCHANGED <<node, main, monitor, disconnected, role, failed, stop_stack>> /\ sinks' = sinks \ {s}
  BY DEF RemoveSink, hole, chosen
<1>4. glib'.pc # "set"
  BY <1>1, RespondType DEF RemoveSink
<1>5. QED
  BY <1>1, <1>2, <1>3, <1>4

LEMMA StackChangedDoes ==
  ASSUME TypeOK, StackChanged
  PROVE  /\ main = "run" /\ glib.pc = "idle" /\ signals # <<>> /\ signals' = Tail(signals)
         /\ \A k, t : Tells(1, k, t) => k = "stack"
         /\ UNCHANGED <<node, main, sinks, monitor, disconnected, role, failed, stop_stack>>
         /\ glib'.pc # "set"
<1> DEFINE s == Head(signals).sink
<1>1. s \in Sinks /\ glib.pc = "idle"
  BY SignalType DEF StackChanged
<1>2. /\ main = "run" /\ glib.pc = "idle" /\ signals # <<>> /\ signals' = Tail(signals)
      /\ \A k, t : Tells(1, k, t) => k = "stack"
  BY HeadIsTold DEF StackChanged
<1>3. UNCHANGED <<node, main, sinks, monitor, disconnected, role, failed, stop_stack>>
  BY DEF StackChanged, hole, chosen
<1>4. glib'.pc # "set"
  BY <1>1, RespondType DEF StackChanged
<1>5. QED
  BY <1>1, <1>2, <1>3, <1>4

LEMMA InitializeSinkDoes ==
  ASSUME TypeOK, InitializeSink
  PROVE  \E s \in Sinks :
           /\ Preparing(s) /\ glib'.pc # "set" /\ s = glib.sink
           /\ UNCHANGED <<signals, main, sinks, monitor, disconnected, role, stop_stack>>
           /\ \A t \in Sinks : node'[t].on = node[t].on /\ node'[t].started = node[t].started
           /\ \A t \in Sinks \ {s} : node'[t] = node[t] /\ (t \in failed' <=> t \in failed)
           /\ \/ node' = node /\ (stop_stack \/ ~node[s].on) /\ failed' = failed
              \/ /\ ~stop_stack /\ s \in role /\ s \notin failed'
                 /\ node'[s].cost = IF glib.flag THEN "high" ELSE "low"
              \/ ~stop_stack /\ node' = node /\ s \in failed'
           /\ ~stop_stack /\ (Busy \/ glib.flag # disconnected) => "crossed_hole" \in causes'
<1> DEFINE s == glib.sink
           cost == IF glib.flag THEN "high" ELSE "low"
<1>1. s \in Sinks /\ Preparing(s)
  BY DEF InitializeSink, Initializes, Preparing, TypeOK, SinkTypes
<1>2. UNCHANGED <<signals, main, sinks, monitor, disconnected, role, stop_stack>>
  BY DEF InitializeSink, Initializes, hole, chosen
<1>3. glib'.pc # "set"
  BY RespondType DEF InitializeSink, Initializes, GlibIdle
<1>4. \/ stop_stack /\ UNCHANGED <<node, failed>>
      \/ ~stop_stack /\ SetsCost(s, cost)
      \/ ~stop_stack /\ UNCHANGED node /\ failed' = failed \union {s}
  BY DEF InitializeSink, Initializes
<1>5. /\ \A t \in Sinks : node'[t].on = node[t].on /\ node'[t].started = node[t].started
      /\ \A t \in Sinks \ {s} : node'[t] = node[t] /\ (t \in failed' <=> t \in failed)
      /\ \/ node' = node /\ (stop_stack \/ ~node[s].on) /\ failed' = failed
         \/ ~stop_stack /\ s \in role /\ s \notin failed' /\ node'[s].cost = cost
         \/ ~stop_stack /\ node' = node /\ s \in failed'
  BY <1>1, <1>4, SetsCostDoes
<1>6. ~stop_stack /\ (Busy \/ glib.flag # disconnected) => "crossed_hole" \in causes'
  BY DEF InitializeSink, Initializes, Blame
<1>7. QED
  BY <1>1, <1>2, <1>3, <1>5, <1>6

(* Signals that say nothing of appearances, or one at the end. *)
LEMMA SignalledDoes ==
  ASSUME TypeOK, NEW s \in Sinks, signals' = Signalled(s)
  PROVE  \/ signals' = signals
         \/ signals' = Append(signals, [kind |-> "stack", sink |-> s])
  BY DEF Signalled

LEMMA NamesStay ==
  ASSUME causes \subseteq causes', NEW names, ~Excused(names)'
  PROVE  ~Excused(names)
  BY DEF Excused

(* What is told stays told until it is handled. *)
LEMMA ToldStays ==
  ASSUME TypeOK, NEW kind, NEW s \in Sinks, Told(kind, s),
         \/ Grows
         \/ signals # <<>> /\ signals' = Tail(signals) /\ ~Tells(1, kind, s)
  PROVE  Told(kind, s)'
<1> DEFINE n == Len(signals)
<1>1. n \in Nat /\ DOMAIN signals = 1 .. n
  BY DEF TypeOK, OutsideTypes
<1>2. PICK i \in 1 .. n : Tells(i, kind, s)
  BY <1>1 DEF Told
<1>3. CASE Grows
  <2>1. i \in DOMAIN signals' /\ signals'[i] = signals[i]
    BY <1>1, <1>2, <1>3 DEF Grows
  <2>2. QED
    BY <1>2, <2>1 DEF Told, Tells
<1>5. CASE signals # <<>> /\ signals' = Tail(signals) /\ ~Tells(1, kind, s)
  <2>1. i # 1
    BY <1>2, <1>5
  <2>2. i - 1 \in DOMAIN signals' /\ signals'[i - 1] = signals[i]
    BY <1>2, <1>5, <2>1 DEF TypeOK, OutsideTypes
  <2>3. QED
    BY <1>2, <2>2 DEF Told, Tells
<1>6. QED
  BY <1>3, <1>5

LEMMA ToldNow ==
  ASSUME TypeOK, NEW kind, NEW s \in Sinks, signals' = Append(signals, [kind |-> kind, sink |-> s])
  PROVE  Told(kind, s)'
<1>1. PICK i \in Nat : i = Len(signals) + 1
  BY DEF TypeOK, OutsideTypes
<1>2. i \in DOMAIN signals' /\ signals'[i] = [kind |-> kind, sink |-> s]
  BY <1>1 DEF TypeOK, OutsideTypes
<1>3. QED
  BY <1>2 DEF Told, Tells

(* What the monitor does, and what becomes of the sinks outside it. *)
LEMMA DetectDoes ==
  ASSUME Detect
  PROVE  /\ monitor.pc = "sleep" /\ ~disconnected
         /\ UNCHANGED <<node, signals, main, sinks, glib, role, failed, stop_stack, causes>>
         /\ \/ sinks = {} /\ monitor'.pc = "sleep" /\ disconnected'
            \/ monitor'.pc = "raise" /\ monitor'.todo = sinks /\ ~disconnected'
<1>1. /\ monitor.pc = "sleep" /\ ~disconnected
      /\ UNCHANGED <<node, signals, main, sinks, glib, role, failed, stop_stack, causes>>
  BY DEF Detect, MonitorOnly, chosen
<1>2. QED
  BY <1>1, VisitResult DEF Detect

LEMMA RecoverDoes ==
  ASSUME Recover
  PROVE  /\ monitor.pc = "sleep" /\ disconnected
         /\ UNCHANGED <<node, signals, main, sinks, glib, role, failed, stop_stack>>
         /\ \/ sinks = {} /\ monitor'.pc = "sleep" /\ ~disconnected'
            \/ monitor'.pc = "lower" /\ monitor'.todo = sinks /\ disconnected'
<1>1. /\ monitor.pc = "sleep" /\ disconnected
      /\ UNCHANGED <<node, signals, main, sinks, glib, role, failed, stop_stack>>
  BY DEF Recover, MonitorOnly, chosen, outside
<1>2. QED
  BY <1>1, VisitResult DEF Recover

Visited(s) ==
  \/ /\ monitor.todo \ {s} = {} /\ monitor'.pc = "sleep"
     /\ disconnected' <=> (monitor.pc = "raise")
  \/ /\ monitor'.pc = monitor.pc /\ monitor'.todo = monitor.todo \ {s}
     /\ disconnected' = disconnected

LEMMA SetCostDoes ==
  ASSUME TypeOK, NEW s \in Sinks, SetCost(s)
  PROVE  /\ s \in monitor.todo /\ Visiting /\ (monitor.pc = "start" \/ ~stop_stack)
         /\ UNCHANGED <<signals, main, sinks, glib, role, stop_stack>>
         /\ \A t \in Sinks : node'[t].on = node[t].on /\ node'[t].started = node[t].started
         /\ \A t \in Sinks \ {s} : node'[t] = node[t] /\ (t \in failed' <=> t \in failed)
         /\ \/ /\ node[s].on /\ s \notin role /\ UNCHANGED <<node, failed>>
               /\ monitor'.pc = "raised" /\ disconnected' = disconnected
               /\ Coming(s) \/ s \in failed => "unprepared" \in causes'
            \/ /\ Visited(s)
               /\ \/ UNCHANGED <<node, failed>> /\ ~node[s].on
                  \/ /\ s \in role /\ (stop_stack \/ s \notin failed')
                     /\ node'[s].cost = IF monitor.pc = "raise" THEN "high" ELSE "low"
                  \/ node' = node /\ (stop_stack \/ s \in failed')
<1> DEFINE cost == IF monitor.pc = "raise" THEN "high" ELSE "low"
<1>1. /\ s \in monitor.todo /\ Visiting /\ (monitor.pc = "start" \/ ~stop_stack)
      /\ UNCHANGED <<signals, main, sinks, glib, role, stop_stack>>
  BY DEF SetCost, Visiting, MonitorOnly, chosen
<1>2. CASE /\ RefusesCost(s) /\ monitor' = [pc |-> "raised", todo |-> {}]
           /\ Blame(Unprepared(s)) /\ UNCHANGED <<disconnected, node, failed, events>>
  <2>1. Coming(s) \/ s \in failed => "unprepared" \in Unprepared(s)
    BY DEF Coming, Told, Preparing, Tells, Unprepared
  <2>2. node[s].on /\ s \notin role
    BY <1>2 DEF RefusesCost
  <2>3. QED
    BY <1>1, <1>2, <2>1, <2>2 DEF Blame
<1>3. CASE SetsCost(s, cost) /\ Visits(monitor.pc, monitor.todo \ {s})
  <2>1. Visited(s)
    BY <1>3, VisitResult DEF Visited
  <2>2. QED
    BY <1>1, <1>3, <2>1, SetsCostDoes
<1>4. QED
  BY <1>2, <1>3 DEF SetCost

LEMMA WriteStartedDoes ==
  ASSUME TypeOK, NEW s \in Sinks, WriteStarted(s)
  PROVE  /\ s \in monitor.todo /\ Busy /\ stop_stack
         /\ UNCHANGED <<main, sinks, glib, role, stop_stack>>
         /\ \A t \in Sinks : node'[t].on = node[t].on /\ node'[t].cost = node[t].cost
         /\ Visited(s)
<1>1. Visits(monitor.pc, monitor.todo \ {s})
  BY DEF WriteStarted
<1>2. Visited(s)
  BY <1>1, VisitResult DEF Visited
<1>3. node' = node \/ node' = [node EXCEPT ![s].started = (monitor.pc = "lower")]
  BY DEF WriteStarted
<1>4. \A t \in Sinks : node'[t].on = node[t].on /\ node'[t].cost = node[t].cost
  BY <1>3 DEF TypeOK, OutsideTypes
<1>5. QED
  BY <1>2, <1>4 DEF WriteStarted, Busy, MonitorOnly, chosen

LEMMA ServiceChangesDoes ==
  ASSUME TypeOK, NEW s \in Sinks, ServiceChanges(s)
  PROVE  /\ UNCHANGED <<main, sinks, glib, role, failed, stop_stack, monitor, disconnected, causes>>
         /\ node'[s].on = ~node[s].on /\ \A t \in Sinks \ {s} : node'[t] = node[t]
         /\ \A t \in Sinks : node'[t].cost = node[t].cost
         /\ Grows
         /\ main = "run" /\ ~node[s].on => Told("added", s)'
<1>1. /\ UNCHANGED <<main, sinks, glib, role, failed, stop_stack, monitor, disconnected, causes>>
      /\ node'[s].on = ~node[s].on /\ \A t \in Sinks \ {s} : node'[t] = node[t]
      /\ \A t \in Sinks : node'[t].cost = node[t].cost
  BY DEF ServiceChanges, OutsideOnly, hole, chosen, TypeOK, OutsideTypes
<1>2. Grows
  BY GrowsWhen DEF ServiceChanges, Notified
<1>3. main = "run" /\ ~node[s].on => Told("added", s)'
  BY ToldNow DEF ServiceChanges, Notified
<1>4. QED
  BY <1>1, <1>2, <1>3

LEMMA OperatorChangesDoes ==
  ASSUME TypeOK, NEW s \in Sinks, OperatorChanges(s)
  PROVE  /\ UNCHANGED <<main, sinks, glib, role, stop_stack, monitor, disconnected>>
         /\ \A t \in Sinks : node'[t].on = node[t].on /\ node'[t].cost = node[t].cost
         /\ ~stop_stack => failed' = failed
         /\ Grows
<1>1. Grows
  BY SignalledDoes, GrowsWhen DEF OperatorChanges
<1>2. QED
  BY <1>1 DEF OperatorChanges, OutsideOnly, hole, chosen, TypeOK, OutsideTypes

LEMMA RoleChangesDoes ==
  ASSUME TypeOK, NEW s \in Sinks, RoleChanges(s)
  PROVE  /\ UNCHANGED <<node, main, sinks, glib, failed, stop_stack, monitor, disconnected>>
         /\ \A t \in Sinks \ {s} : t \in role' <=> t \in role
         /\ s \in role /\ (s \in sinks \/ s \in monitor.todo) => "demoted" \in causes'
         /\ signals' \in {signals, Restarted(s)} /\ Grows
<1>1. signals' \in {signals, Restarted(s)}
  BY DEF RoleChanges, Restarted
<1>2. Grows
  BY <1>1, GrowsWhen
<1>3. QED
  BY <1>1, <1>2 DEF RoleChanges, Blame, OutsideOnly, hole, chosen

LEMMA SubscribeDoes ==
  ASSUME Subscribe
  PROVE  /\ main = "subscribe" /\ main' = "run"
         /\ UNCHANGED <<node, signals, sinks, glib, role, failed, stop_stack>>
         /\ sinks # OnBus => "missed" \in causes'
         /\ \/ sinks = {} /\ monitor'.pc = "sleep" /\ ~disconnected'
            \/ monitor'.pc = "start" /\ monitor'.todo = sinks /\ disconnected' = disconnected
            \/ UNCHANGED <<monitor, disconnected>>
<1>1. /\ main = "subscribe" /\ main' = "run"
      /\ UNCHANGED <<node, signals, sinks, glib, role, failed, stop_stack>>
      /\ sinks # OnBus => "missed" \in causes'
  BY DEF Subscribe, outside, chosen, Blame
<1>2. QED
  BY <1>1, VisitResult DEF Subscribe, hole

LEMMA SignalStep == TypeOK /\ SignalInv /\ [Next]_vars => SignalInv'
<1> SUFFICES ASSUME TypeOK, SignalInv, [Next]_vars
             PROVE  SignalInv'
  OBVIOUS
<1>1. ~Restart /\ ~Excused({"missed"})' => ~Excused({"missed"})
  BY CausesStay, NamesStay
<1>2. ASSUME UNCHANGED <<signals, main, sinks>>, \A s \in Sinks : node'[s].on = node[s].on,
             glib' = glib \/ glib'.pc = "idle" \/ main = "run", ~Restart
      PROVE  SignalInv'
  <2>1. \A s \in Sinks : Alternates(s) => Alternates(s)'
    BY <1>2 DEF Alternates, Tells
  <2>2. QED
    BY <1>1, <1>2, <2>1 DEF SignalInv
<1>3. ASSUME Quiet, ~Restart PROVE SignalInv'
  BY <1>2, <1>3 DEF Quiet
<1>4. ASSUME ListNames, ~Restart PROVE SignalInv'
  BY <1>4 DEF ListNames, SignalInv, outside
<1>5. ASSUME Subscribe, ~Restart PROVE SignalInv'
  <2>1. UNCHANGED <<signals, node, sinks, glib>> /\ main # "run" /\ main' = "run"
        /\ (sinks # OnBus => "missed" \in causes')
    BY <1>5 DEF Subscribe, outside, Blame
  <2>2. \A i \in DOMAIN signals : \A s : ~Tells(i, "added", s)
    BY <2>1 DEF SignalInv, Tells
  <2>3. ASSUME ~Excused({"missed"})', NEW s \in Sinks PROVE Alternates(s)'
    <3>1. sinks = OnBus
      BY <2>1, <2>3 DEF Excused
    <3>2. Alternates(s)
      BY <2>2, <3>1 DEF Alternates, OnBus
    <3>3. QED
      BY <2>1, <3>2 DEF Alternates, Tells
  <2>4. QED
    BY <2>1, <2>3 DEF SignalInv
<1>6. ASSUME AddSink, ~Restart PROVE SignalInv'
  <2>1. PICK s \in Sinks :
           /\ main = "run" /\ signals # <<>> /\ signals' = Tail(signals)
           /\ \A k, t : Tells(1, k, t) => k = "added" /\ t = s
           /\ UNCHANGED <<node, main>>
           /\ \/ sinks' = sinks /\ (s \in sinks \/ ~node[s].on)
              \/ node[s].on /\ sinks' = sinks \union {s}
           /\ Tells(1, "added", s)
    BY <1>6, AddSinkDoes
  <2>2. ASSUME NEW t \in Sinks, Alternates(t) PROVE Alternates(t)'
    <3>1. Tells(1, "added", t) => (t \in sinks' => node[t].on)
      <4>1. SUFFICES ASSUME Tells(1, "added", t), t \in sinks', ~node[t].on
                     PROVE  FALSE
        OBVIOUS
      <4>2. t \in sinks
        BY <2>1, <4>1
      <4>3. 1 \in DOMAIN signals /\ \A k \in 1 .. 1 - 1 : FALSE
        BY <2>1 DEF TypeOK, OutsideTypes
      <4>4. QED
        BY <2>2, <4>1, <4>2, <4>3 DEF Alternates
    <3>2. ~Tells(1, "removed", t)
      BY <2>1
    <3>3. ~Tells(1, "added", t) => (t \in sinks' => t \in sinks)
      BY <2>1
    <3>4. QED
      BY <2>1, <2>2, <3>1, <3>2, <3>3, Shorter
  <2>3. QED
    BY <1>1, <1>6, <2>1, <2>2 DEF SignalInv
<1>7. ASSUME RemoveSink, ~Restart PROVE SignalInv'
  <2>1. PICK s \in Sinks :
           /\ main = "run" /\ signals # <<>> /\ signals' = Tail(signals)
           /\ \A k, t : Tells(1, k, t) => k = "removed" /\ t = s
           /\ UNCHANGED <<node, main>> /\ sinks' = sinks \ {s}
    BY <1>7, RemoveSinkDoes
  <2>2. ASSUME NEW t \in Sinks, Alternates(t) PROVE Alternates(t)'
    BY <2>1, <2>2, Shorter
  <2>3. QED
    BY <1>1, <1>7, <2>1, <2>2 DEF SignalInv
<1>8. ASSUME StackChanged, ~Restart PROVE SignalInv'
  <2>1. /\ main = "run" /\ signals # <<>> /\ signals' = Tail(signals)
        /\ \A k, t : Tells(1, k, t) => k = "stack"
        /\ UNCHANGED <<node, main, sinks>>
    BY <1>8, StackChangedDoes
  <2>2. ASSUME NEW t \in Sinks, Alternates(t) PROVE Alternates(t)'
    BY <2>1, <2>2, Shorter
  <2>3. QED
    BY <1>1, <1>8, <2>1, <2>2 DEF SignalInv
<1>9. ASSUME InitializeSink, ~Restart PROVE SignalInv'
  <2>1. UNCHANGED <<signals, main, sinks>> /\ \A s \in Sinks : node'[s].on = node[s].on
    BY <1>9, InitializeSinkDoes
  <2>2. main = "run"
    BY <1>9 DEF InitializeSink, Initializes, SignalInv
  <2>3. QED
    BY <1>2, <1>9, <2>1, <2>2
<1>10. ASSUME ~Restart,
              Detect \/ Recover \/ \E s \in Sinks : SetCost(s)
       PROVE  SignalInv'
  <2>1. UNCHANGED <<signals, main, sinks, glib>> /\ \A s \in Sinks : node'[s].on = node[s].on
    <3>1. CASE Detect \/ Recover
      BY <3>1 DEF Detect, Recover, MonitorOnly, outside
    <3>2. ASSUME NEW s \in Sinks, SetCost(s)
          PROVE  UNCHANGED <<signals, main, sinks, glib>>
                 /\ \A t \in Sinks : node'[t].on = node[t].on
      BY <3>2, SetCostDoes
    <3>3. QED
      BY <1>10, <3>1, <3>2
  <2>2. QED
    BY <1>2, <1>10, <2>1
<1>11. ASSUME ~Restart, UNCHANGED <<main, sinks, glib>>, \A s \in Sinks : node'[s].on = node[s].on,
              NEW s \in Sinks, signals' = signals \/ signals' = Signalled(s)
       PROVE  SignalInv'
  <2>1. CASE signals' = signals
    BY <1>2, <1>11, <2>1
  <2>2. CASE signals' = Append(signals, [kind |-> "stack", sink |-> s])
    <3>1. ASSUME NEW t \in Sinks, Alternates(t) PROVE Alternates(t)'
      BY <1>11, <2>2, <3>1, Longer
    <3>2. \A i \in DOMAIN signals' : \/ i \in DOMAIN signals /\ signals'[i] = signals[i]
                                     \/ signals'[i].kind = "stack"
      BY <2>2 DEF TypeOK, OutsideTypes
    <3>3. QED
      BY <1>1, <1>11, <3>1, <3>2 DEF SignalInv
  <2>3. QED
    BY <1>11, <2>1, <2>2, SignalledDoes
<1>12. ASSUME NEW s \in Sinks, WriteStarted(s) \/ OperatorChanges(s), ~Restart PROVE SignalInv'
  <2>1. /\ UNCHANGED <<main, sinks, glib>> /\ \A t \in Sinks : node'[t].on = node[t].on
        /\ signals' = signals \/ signals' = Signalled(s)
    <3>1. UNCHANGED <<main, sinks, glib>> /\ \A t \in Sinks : node'[t].on = node[t].on
      BY <1>12, WriteStartedDoes, OperatorChangesDoes
    <3>2. signals' = signals \/ signals' = Signalled(s)
      BY <1>12 DEF WriteStarted, OperatorChanges
    <3>3. QED
      BY <3>1, <3>2
  <2>2. QED
    BY <1>11, <1>12, <2>1
<1>13. ASSUME NEW s \in Sinks, ServiceChanges(s), ~Restart PROVE SignalInv'
  <2>1. /\ UNCHANGED <<main, sinks, glib>> /\ node'[s].on = ~node[s].on
        /\ \A t \in Sinks \ {s} : node'[t] = node[t]
        /\ signals' = Notified(s, IF node[s].on THEN "removed" ELSE "added")
    BY <1>13 DEF ServiceChanges, OutsideOnly, TypeOK, OutsideTypes
  <2>2. CASE main = "run"
    <3>1. signals' = Append(signals, [kind |-> IF node[s].on THEN "removed" ELSE "added",
                                      sink |-> s])
      BY <2>1, <2>2 DEF Notified
    <3>2. ASSUME NEW t \in Sinks, Alternates(t) PROVE Alternates(t)'
      <4>1. CASE node[s].on
        <5>1. signals' = Append(signals, [kind |-> "removed", sink |-> s])
          BY <3>1, <4>1
        <5>2. QED
          BY <2>1, <3>2, <4>1, <5>1, Longer
      <4>2. CASE ~node[s].on
        <5>1. signals' = Append(signals, [kind |-> "added", sink |-> s])
          BY <3>1, <4>2
        <5>2. node'[s].on
          BY <2>1, <4>2
        <5>3. QED
          BY <2>1, <3>2, <4>2, <5>1, <5>2, Longer
      <4>3. QED
        BY <4>1, <4>2
    <3>3. QED
      BY <1>1, <1>13, <2>1, <2>2, <3>2 DEF SignalInv
  <2>3. CASE main # "run"
    BY <2>1, <2>3 DEF Notified, SignalInv
  <2>4. QED
    BY <2>2, <2>3
<1>14. ASSUME Restart PROVE SignalInv'
  BY <1>14 DEF Restart, Begins, GlibIdle, SignalInv
<1>15. CASE Restart
  BY <1>14, <1>15
<1>18. ASSUME NEW s \in Sinks, RoleChanges(s), ~Restart PROVE SignalInv'
  <2>1. UNCHANGED <<node, main, sinks, glib>> /\ signals' \in {signals, Restarted(s)}
    BY <1>18, RoleChangesDoes
  <2>2. CASE signals' = signals
    BY <1>2, <1>18, <2>1, <2>2
  <2>3. CASE signals' = Restarted(s)
    <3>1. \A t \in Sinks : Alternates(t) => Alternates(t)'
      BY <2>1, <2>3, RestartedAlternates
    <3>2. PICK x : x.kind = "stack" /\ signals' = Append(Append(signals, x), x)
      BY <2>3, RestartedIs
    <3>3. \A i \in DOMAIN signals' : \/ i \in DOMAIN signals /\ signals'[i] = signals[i]
                                     \/ signals'[i].kind = "stack"
      BY <3>2 DEF TypeOK, OutsideTypes
    <3>4. QED
      BY <1>1, <1>18, <2>1, <3>1, <3>3 DEF SignalInv
  <2>4. QED
    BY <2>1, <2>2, <2>3
<1>16. CASE ~Restart
  BY <1>3, <1>4, <1>5, <1>6, <1>7, <1>8, <1>9, <1>10, <1>12, <1>13, <1>16, <1>18, QuietSteps
     DEF Next, Main, Updater, Setters, Glib, Monitor, MqttWrapper, Outside
<1>17. QED
  BY <1>15, <1>16

LEMMA FlagStep == TypeOK /\ FlagInv /\ [Next]_vars => FlagInv'
<1> SUFFICES ASSUME TypeOK, FlagInv, [Next]_vars
             PROVE  FlagInv'
  OBVIOUS
<1>1. ASSUME UNCHANGED <<monitor, disconnected>>,
             main' = main \/ (main = "list" /\ main' = "subscribe")
      PROVE  FlagInv'
  BY <1>1 DEF FlagInv
<1>2. Quiet => FlagInv'
  BY <1>1 DEF Quiet
<1>3. ListNames => FlagInv'
  BY <1>1 DEF ListNames, hole
<1>4. Subscribe => FlagInv'
  BY SubscribeDoes DEF FlagInv
<1>5. AddSink => FlagInv'
  BY <1>1, AddSinkDoes
<1>6. RemoveSink => FlagInv'
  BY <1>1, RemoveSinkDoes
<1>7. StackChanged => FlagInv'
  BY <1>1, StackChangedDoes
<1>8. InitializeSink => FlagInv'
  BY <1>1, InitializeSinkDoes
<1>9. Detect => FlagInv'
  BY DetectDoes DEF FlagInv
<1>10. Recover => FlagInv'
  BY RecoverDoes DEF FlagInv
<1>11. ASSUME NEW s \in Sinks, SetCost(s) PROVE FlagInv'
  <2>1. /\ monitor.pc \in {"start", "raise", "lower"} /\ main' = main
        /\ (monitor'.pc = "raised" /\ disconnected' = disconnected) \/ Visited(s)
    BY <1>11, SetCostDoes DEF Visiting
  <2>2. QED
    BY <2>1 DEF FlagInv, Visited
<1>12. ASSUME NEW s \in Sinks, WriteStarted(s) PROVE FlagInv'
  <2>1. monitor.pc \in {"raise", "lower"} /\ main' = main /\ Visited(s)
    BY <1>12, WriteStartedDoes DEF Busy
  <2>2. QED
    BY <2>1 DEF FlagInv, Visited
<1>13. ASSUME NEW s \in Sinks, ServiceChanges(s) PROVE FlagInv'
  BY <1>1, <1>13, ServiceChangesDoes
<1>14. ASSUME NEW s \in Sinks, OperatorChanges(s) PROVE FlagInv'
  BY <1>1, <1>14, OperatorChangesDoes
<1>15. Restart => FlagInv'
  BY DEF Restart, Begins, Asleep, FlagInv
<1>17. ASSUME NEW s \in Sinks, RoleChanges(s) PROVE FlagInv'
  BY <1>1, <1>17, RoleChangesDoes
<1>16. QED
  BY <1>2, <1>3, <1>4, <1>5, <1>6, <1>7, <1>8, <1>9, <1>10, <1>11, <1>12, <1>13, <1>14, <1>15, <1>17,
     QuietSteps DEF Next, Main, Updater, Setters, Glib, Monitor, MqttWrapper, Outside

(* A sink whose initialisation is to come is initialised or still to come.  *)
LEMMA ComingStays ==
  ASSUME TypeOK, NEW s \in Sinks, Coming(s),
         \/ Grows /\ glib' = glib
         \/ /\ signals # <<>> /\ signals' = Tail(signals) /\ ~Tells(1, "added", s)
            /\ glib.pc = "idle"
  PROVE  Coming(s)'
<1>1. CASE Told("added", s)
  BY <1>1, ToldStays DEF Coming
<1>2. CASE Preparing(s)
  BY <1>2 DEF Coming, Preparing
<1>3. QED
  BY <1>1, <1>2 DEF Coming

LEMMA CostStep == TypeOK /\ SignalInv /\ FlagInv /\ CostInv /\ [Next]_vars => CostInv'
<1> DEFINE Names == {"missed", "crossed_hole"}
           Governed(s) == s \in sinks /\ s \notin failed /\ node[s].on
<1> SUFFICES ASSUME TypeOK, SignalInv, FlagInv, CostInv, [Next]_vars,
                    main' = "run", ~stop_stack', ~Excused({"missed", "crossed_hole"})',
                    NEW s \in Sinks, s \in sinks', s \notin failed', node'[s].on
             PROVE  Costed(s)'
  BY DEF CostInv, OnBus
<1>1. ~Restart
  BY DEF Restart, Begins
<1>2. ~Excused(Names) /\ ~Excused({"missed"}) /\ "missed" \notin causes'
      /\ "crossed_hole" \notin causes'
  BY <1>1, CausesStay DEF Excused
<1>3. main = "run" /\ ~stop_stack /\ Governed(s) => Costed(s)
  BY <1>2 DEF CostInv, OnBus
<1>4. ASSUME UNCHANGED <<main, monitor, disconnected, stop_stack, failed>>, Governed(s),
             node'[s].cost = node[s].cost,
             \/ Grows /\ glib' = glib
             \/ /\ signals # <<>> /\ signals' = Tail(signals) /\ ~Tells(1, "added", s)
                /\ glib.pc = "idle"
      PROVE  Costed(s)'
  <2>1. Costed(s) /\ (Coming(s) => Coming(s)')
    BY <1>3, <1>4, ComingStays
  <2>2. QED
    BY <1>4, <2>1 DEF Costed, Visiting, Target
<1>5. ASSUME Quiet PROVE Costed(s)'
  <2>1. Costed(s)
    BY <1>3, <1>5 DEF Quiet
  <2>2. Coming(s) => Coming(s)'
    BY <1>5 DEF Quiet, Coming, Told, Preparing, Tells
  <2>3. QED
    BY <1>5, <2>1, <2>2 DEF Quiet, Costed, Visiting, Target
<1>6. ASSUME ListNames PROVE FALSE
  BY <1>6 DEF ListNames
<1>7. ASSUME Subscribe PROVE Costed(s)'
  <2>1. sinks' = sinks /\ monitor.pc = "new" /\ sinks # {}
    BY <1>7, SubscribeDoes DEF FlagInv
  <2>2. monitor'.pc = "new" \/ (monitor'.pc = "start" /\ s \in monitor'.todo)
    BY <1>7, <2>1, SubscribeDoes
  <2>3. QED
    BY <2>2 DEF Costed, Visiting
<1>8. ASSUME AddSink PROVE Costed(s)'
  <2>1. PICK t \in Sinks :
           /\ main = "run" /\ glib.pc = "idle" /\ signals # <<>> /\ signals' = Tail(signals)
           /\ Tells(1, "added", t) /\ \A k, u : Tells(1, k, u) => k = "added" /\ u = t
           /\ UNCHANGED <<node, main, monitor, disconnected, role, failed, stop_stack>>
           /\ \/ UNCHANGED <<sinks, glib>> /\ (t \in sinks \/ ~node[t].on)
              \/ /\ node[t].on /\ sinks' = sinks \union {t}
                 /\ glib'.pc = "set" /\ glib'.sink = t /\ glib'.flag = disconnected
    BY <1>8, AddSinkDoes
  <2>2. CASE s # t
    BY <1>4, <2>1, <2>2
  <2>3. CASE s = t
    <3>1. t \notin sinks
      <4>1. 1 \in DOMAIN signals /\ \A k \in 1 .. 1 - 1 : FALSE
        BY <2>1 DEF TypeOK, OutsideTypes
      <4>2. Alternates(t)
        BY <1>2, <2>1 DEF SignalInv
      <4>3. QED
        BY <2>1, <4>1, <4>2 DEF Alternates
    <3>2. glib'.pc = "set" /\ glib'.sink = s
      BY <2>1, <2>3, <3>1
    <3>3. QED
      BY <3>2 DEF Costed, Coming, Preparing
  <2>4. QED
    BY <2>2, <2>3
<1>9. ASSUME RemoveSink PROVE Costed(s)'
  <2>1. PICK t \in Sinks :
           /\ main = "run" /\ glib.pc = "idle" /\ signals # <<>> /\ signals' = Tail(signals)
           /\ Tells(1, "removed", t) /\ \A k, u : Tells(1, k, u) => k = "removed" /\ u = t
           /\ UNCHANGED <<node, main, monitor, disconnected, role, failed, stop_stack>>
           /\ sinks' = sinks \ {t} /\ glib'.pc # "set"
    BY <1>9, RemoveSinkDoes
  <2>2. QED
    BY <1>4, <2>1
<1>10. ASSUME StackChanged PROVE Costed(s)'
  BY <1>4, <1>10, StackChangedDoes
<1>11. ASSUME InitializeSink PROVE Costed(s)'
  <2>1. PICK t \in Sinks :
           /\ Preparing(t) /\ glib'.pc # "set" /\ t = glib.sink
           /\ UNCHANGED <<signals, main, sinks, monitor, disconnected, stop_stack>>
           /\ \A u \in Sinks : node'[u].on = node[u].on
           /\ \A u \in Sinks \ {t} : node'[u] = node[u] /\ (u \in failed' <=> u \in failed)
           /\ \/ stop_stack \/ ~node[t].on \/ t \in failed'
              \/ node'[t].cost = IF glib.flag THEN "high" ELSE "low"
           /\ ~stop_stack /\ (Busy \/ glib.flag # disconnected) => "crossed_hole" \in causes'
    BY <1>11, InitializeSinkDoes
  <2>2. CASE s # t
    <3>1. Costed(s) /\ ~Preparing(s) /\ node'[s].cost = node[s].cost
      BY <1>3, <2>1, <2>2 DEF Preparing
    <3>2. Told("added", s) => Coming(s)'
      BY <2>1 DEF Coming, Told, Tells
    <3>3. QED
      BY <2>1, <3>1, <3>2 DEF Costed, Coming, Visiting, Target
  <2>3. CASE s = t
    <3>1. ~Busy /\ glib.flag = disconnected
      BY <1>2, <2>1
    <3>2. node'[s].cost = IF disconnected THEN "high" ELSE "low"
      BY <2>1, <2>3, <3>1
    <3>3. monitor.pc \in {"start", "sleep", "raised", "new"}
          /\ (monitor.pc \in {"start", "new"} => ~disconnected)
      BY <3>1 DEF Busy, FlagInv, TypeOK, SinkTypes, MonitorStates
    <3>4. QED
      BY <2>1, <3>2, <3>3 DEF Costed, Target
  <2>4. QED
    BY <2>2, <2>3
<1>12. ASSUME Detect \/ Recover PROVE Costed(s)'
  BY <1>12, DetectDoes, RecoverDoes DEF Costed, Visiting
<1>13. ASSUME NEW t \in Sinks, SetCost(t) PROVE Costed(s)'
  <2>1. /\ t \in monitor.todo /\ Visiting
        /\ UNCHANGED <<signals, main, sinks, glib, stop_stack>>
        /\ node'[s].on = node[s].on /\ (s # t => node'[s] = node[s] /\ s \notin failed)
        /\ \/ monitor'.pc = "raised"
           \/ Visited(t) /\ (s = t => node'[s].cost = IF monitor.pc = "raise" THEN "high" ELSE "low")
    <3>1. /\ t \in monitor.todo /\ Visiting
          /\ UNCHANGED <<signals, main, sinks, glib, stop_stack>>
          /\ node'[s].on = node[s].on /\ (s # t => node'[s] = node[s] /\ s \notin failed)
      BY <1>13, SetCostDoes
    <3>2. \/ monitor'.pc = "raised"
          \/ /\ Visited(t)
             /\ \/ UNCHANGED <<node, failed>> /\ ~node[t].on
                \/ node'[t].cost = IF monitor.pc = "raise" THEN "high" ELSE "low"
                \/ t \in failed' \/ stop_stack
      BY <1>13, SetCostDoes
    <3>3. QED
      BY <3>1, <3>2
  <2>2. CASE monitor'.pc = "raised"
    BY <2>2 DEF Costed
  <2>3. CASE Visited(t) /\ (s = t => node'[s].cost = IF monitor.pc = "raise" THEN "high" ELSE "low")
    <3>0. UNCHANGED glib /\ Grows
      BY <2>1, GrowsWhen
    <3>1. (s # t => Costed(s)) /\ (Coming(s) => Coming(s)')
      BY <1>3, <2>1, <3>0, ComingStays
    <3>2. Target' = Target /\ Target = IF monitor.pc = "raise" THEN "high" ELSE "low"
      BY <2>1, <2>3 DEF Visited, Visiting, Target
    <3>3. s = t => node'[s].cost = Target'
      BY <2>1, <2>3, <3>2
    <3>4. s # t /\ s \in monitor.todo => Visiting' /\ s \in monitor'.todo
      BY <2>1, <2>3 DEF Visited, Visiting
    <3>5. monitor.pc \notin {"new", "raised"}
      BY <2>1 DEF Visiting
    <3>6. QED
      BY <2>1, <3>1, <3>2, <3>3, <3>4, <3>5 DEF Costed
  <2>4. QED
    BY <2>1, <2>2, <2>3
<1>14. ASSUME NEW t \in Sinks, WriteStarted(t) PROVE FALSE
  BY <1>14, WriteStartedDoes
<1>15. ASSUME NEW t \in Sinks, ServiceChanges(t) PROVE Costed(s)'
  <2>1. /\ UNCHANGED <<main, sinks, glib, failed, stop_stack, monitor, disconnected>>
        /\ node'[t].on = ~node[t].on /\ (s # t => node'[s] = node[s])
        /\ node'[s].cost = node[s].cost
        /\ Grows
        /\ main = "run" /\ ~node[t].on => Told("added", t)'
    BY <1>15, ServiceChangesDoes
  <2>2. CASE node[s].on
    BY <1>4, <2>1, <2>2
  <2>3. CASE ~node[s].on
    <3>1. Told("added", s)'
      BY <2>1, <2>3
    <3>2. QED
      BY <3>1 DEF Costed, Coming
  <2>4. QED
    BY <2>2, <2>3
<1>16. ASSUME NEW t \in Sinks, OperatorChanges(t) \/ RoleChanges(t) PROVE Costed(s)'
  BY <1>4, <1>16, OperatorChangesDoes, RoleChangesDoes
<1>17. QED
  BY <1>1, <1>5, <1>6, <1>7, <1>8, <1>9, <1>10, <1>11, <1>12, <1>13, <1>14, <1>15, <1>16,
     QuietSteps DEF Next, Main, Updater, Setters, Glib, Monitor, MqttWrapper, Outside

Known(s) == s \in sinks \/ (Visiting /\ s \in monitor.todo)
Unchecked(s) ==
  \/ Coming(s) \/ s \in failed
  \/ monitor.pc = "start" /\ s \in monitor.todo
  \/ monitor.pc \in {"new", "raised"}

LEMMA RoleStep == TypeOK /\ SignalInv /\ FlagInv /\ RoleInv /\ [Next]_vars => RoleInv'
<1> SUFFICES ASSUME TypeOK, SignalInv, FlagInv, RoleInv, [Next]_vars,
                    main' = "run", ~stop_stack', ~Excused(RoleExcuses)',
                    NEW s \in Sinks, s \notin role', node'[s].on, Known(s)'
             PROVE  Unchecked(s)'
  BY DEF RoleInv, OnBus, Known, Unchecked
<1>1. ~Restart
  BY DEF Restart, Begins
<1>2. /\ ~Excused(RoleExcuses) /\ ~Excused({"missed"})
      /\ causes' \intersect {"missed", "unprepared", "demoted"} = {}
  BY <1>1, CausesStay DEF Excused, RoleExcuses
<1>3. main = "run" /\ ~stop_stack /\ s \notin role /\ node[s].on /\ Known(s) => Unchecked(s)
  BY <1>2 DEF RoleInv, OnBus, Known, Unchecked
<1>4. ASSUME UNCHANGED <<main, monitor, disconnected, stop_stack, failed>>, s \notin role, node[s].on,
             Known(s),
             \/ Grows /\ glib' = glib
             \/ /\ signals # <<>> /\ signals' = Tail(signals) /\ ~Tells(1, "added", s)
                /\ glib.pc = "idle"
      PROVE  Unchecked(s)'
  <2>1. Unchecked(s) /\ (Coming(s) => Coming(s)')
    BY <1>3, <1>4, ComingStays
  <2>2. QED
    BY <1>4, <2>1 DEF Unchecked
<1>5. ASSUME UNCHANGED <<sinks, monitor>> PROVE Known(s)
  BY <1>5 DEF Known, Visiting
<1>6. ASSUME Quiet PROVE Unchecked(s)'
  <2>1. Unchecked(s)
    BY <1>3, <1>5, <1>6 DEF Quiet
  <2>2. Coming(s) => Coming(s)'
    BY <1>6 DEF Quiet, Coming, Told, Preparing, Tells
  <2>3. QED
    BY <1>6, <2>1, <2>2 DEF Quiet, Unchecked
<1>7. ASSUME ListNames PROVE FALSE
  BY <1>7 DEF ListNames
<1>8. ASSUME Subscribe PROVE Unchecked(s)'
  <2>1. sinks' = sinks /\ monitor.pc = "new"
    BY <1>8, SubscribeDoes DEF FlagInv
  <2>2. \/ sinks = {} /\ monitor'.pc = "sleep"
        \/ monitor'.pc = "start" /\ monitor'.todo = sinks
        \/ monitor'.pc = "new"
    BY <1>8, <2>1, SubscribeDoes
  <2>3. QED
    BY <2>1, <2>2 DEF Known, Visiting, Unchecked
<1>9. ASSUME AddSink PROVE Unchecked(s)'
  <2>1. PICK t \in Sinks :
           /\ main = "run" /\ glib.pc = "idle" /\ signals # <<>> /\ signals' = Tail(signals)
           /\ Tells(1, "added", t) /\ \A k, u : Tells(1, k, u) => k = "added" /\ u = t
           /\ UNCHANGED <<node, main, monitor, disconnected, role, failed, stop_stack>>
           /\ \/ UNCHANGED <<sinks, glib>> /\ (t \in sinks \/ ~node[t].on)
              \/ /\ node[t].on /\ sinks' = sinks \union {t}
                 /\ glib'.pc = "set" /\ glib'.sink = t /\ glib'.flag = disconnected
    BY <1>9, AddSinkDoes
  <2>2. CASE s # t
    <3>1. Known(s)
      BY <2>1, <2>2 DEF Known, Visiting
    <3>2. QED
      BY <1>4, <2>1, <2>2, <3>1
  <2>3. CASE s = t
    <3>1. t \notin sinks
      <4>1. 1 \in DOMAIN signals /\ \A k \in 1 .. 1 - 1 : FALSE
        BY <2>1 DEF TypeOK, OutsideTypes
      <4>2. Alternates(t)
        BY <1>2, <2>1 DEF SignalInv
      <4>3. QED
        BY <2>1, <4>1, <4>2 DEF Alternates
    <3>2. glib'.pc = "set" /\ glib'.sink = s
      BY <2>1, <2>3, <3>1
    <3>3. QED
      BY <3>2 DEF Unchecked, Coming, Preparing
  <2>4. QED
    BY <2>2, <2>3
<1>10. ASSUME RemoveSink PROVE Unchecked(s)'
  <2>1. PICK t \in Sinks :
           /\ main = "run" /\ glib.pc = "idle" /\ signals # <<>> /\ signals' = Tail(signals)
           /\ Tells(1, "removed", t) /\ \A k, u : Tells(1, k, u) => k = "removed" /\ u = t
           /\ UNCHANGED <<node, main, monitor, disconnected, role, failed, stop_stack>>
           /\ sinks' = sinks \ {t} /\ glib'.pc # "set"
    BY <1>10, RemoveSinkDoes
  <2>2. Known(s)
    BY <2>1 DEF Known, Visiting
  <2>3. QED
    BY <1>4, <2>1, <2>2
<1>11. ASSUME StackChanged PROVE Unchecked(s)'
  BY <1>4, <1>5, <1>11, StackChangedDoes
<1>12. ASSUME InitializeSink PROVE Unchecked(s)'
  <2>1. PICK t \in Sinks :
           /\ Preparing(t) /\ glib'.pc # "set" /\ t = glib.sink
           /\ UNCHANGED <<signals, main, sinks, monitor, disconnected, role, stop_stack>>
           /\ \A u \in Sinks : node'[u].on = node[u].on
           /\ \A u \in Sinks \ {t} : u \in failed' <=> u \in failed
           /\ ~stop_stack /\ node[t].on /\ t \notin role => t \in failed'
    BY <1>12, InitializeSinkDoes
  <2>2. CASE s = t
    BY <2>1, <2>2 DEF Unchecked
  <2>3. CASE s # t
    <3>1. Unchecked(s) /\ ~Preparing(s)
      BY <1>3, <1>5, <2>1, <2>3 DEF Preparing
    <3>2. Told("added", s) => Coming(s)'
      BY <2>1 DEF Coming, Told, Tells
    <3>3. QED
      BY <2>1, <2>3, <3>1, <3>2 DEF Unchecked, Coming
  <2>4. QED
    BY <2>2, <2>3
<1>13. ASSUME Detect \/ Recover PROVE Unchecked(s)'
  <2>1. /\ monitor.pc = "sleep" /\ UNCHANGED <<node, signals, main, sinks, glib, role, failed, stop_stack>>
        /\ monitor'.todo = sinks \/ monitor'.pc = "sleep"
    BY <1>13, DetectDoes, RecoverDoes
  <2>2. Known(s)
    BY <2>1 DEF Known, Visiting
  <2>3. Coming(s) \/ s \in failed
    BY <1>3, <2>1, <2>2 DEF Unchecked
  <2>4. Coming(s)' \/ s \in failed'
    BY <2>1, <2>3, GrowsWhen, ComingStays
  <2>5. QED
    BY <2>4 DEF Unchecked
<1>14. ASSUME NEW t \in Sinks, SetCost(t) PROVE Unchecked(s)'
  <2>1. /\ t \in monitor.todo /\ Visiting
        /\ UNCHANGED <<signals, main, sinks, glib, role, stop_stack>>
        /\ node'[s].on = node[s].on /\ (s # t => (s \in failed' <=> s \in failed))
        /\ \/ monitor'.pc = "raised"
           \/ Visited(t) /\ (s = t => s \in failed')
    <3>1. /\ t \in monitor.todo /\ Visiting
          /\ UNCHANGED <<signals, main, sinks, glib, role, stop_stack>>
          /\ node'[s].on = node[s].on /\ (s # t => (s \in failed' <=> s \in failed))
      BY <1>14, SetCostDoes
    <3>2. \/ monitor'.pc = "raised"
          \/ /\ Visited(t)
             /\ ~node[t].on \/ t \in role \/ t \in failed' \/ stop_stack
      BY <1>14, SetCostDoes
    <3>3. QED
      BY <3>1, <3>2
  <2>2. CASE monitor'.pc = "raised"
    BY <2>2 DEF Unchecked
  <2>3. CASE Visited(t) /\ s = t
    BY <2>1, <2>3 DEF Unchecked, Visited, Visiting
  <2>4. CASE Visited(t) /\ s # t
    <3>1. Known(s)
      BY <2>1, <2>4 DEF Known, Visiting, Visited
    <3>2. Unchecked(s) /\ (Coming(s) => Coming(s)')
      BY <1>3, <2>1, <3>1, GrowsWhen, ComingStays
    <3>3. CASE Coming(s) \/ s \in failed
      BY <2>1, <2>4, <3>2, <3>3 DEF Unchecked
    <3>4. CASE monitor.pc = "start" /\ s \in monitor.todo
      BY <2>4, <3>4 DEF Visited, Unchecked
    <3>5. QED
      BY <2>1, <3>2, <3>3, <3>4 DEF Unchecked, Visiting
  <2>5. QED
    BY <2>1, <2>2, <2>3, <2>4
<1>15. ASSUME NEW t \in Sinks, WriteStarted(t) PROVE FALSE
  BY <1>15, WriteStartedDoes
<1>16. ASSUME NEW t \in Sinks, ServiceChanges(t) PROVE Unchecked(s)'
  <2>1. /\ UNCHANGED <<main, sinks, glib, role, failed, stop_stack, monitor, disconnected>>
        /\ node'[t].on = ~node[t].on /\ (s # t => node'[s] = node[s])
        /\ Grows
        /\ main = "run" /\ ~node[t].on => Told("added", t)'
    BY <1>16, ServiceChangesDoes
  <2>2. CASE node[s].on
    BY <1>4, <1>5, <2>1, <2>2
  <2>3. CASE ~node[s].on
    <3>1. Told("added", s)'
      BY <2>1, <2>3
    <3>2. QED
      BY <3>1 DEF Unchecked, Coming
  <2>4. QED
    BY <2>2, <2>3
<1>17. ASSUME NEW t \in Sinks, OperatorChanges(t) PROVE Unchecked(s)'
  BY <1>4, <1>5, <1>17, OperatorChangesDoes
<1>19. ASSUME NEW t \in Sinks, RoleChanges(t) PROVE Unchecked(s)'
  <2>1. /\ UNCHANGED <<node, main, sinks, glib, failed, stop_stack, monitor, disconnected>>
        /\ s # t => s \notin role
        /\ t \in role => t \notin sinks /\ t \notin monitor.todo
        /\ Grows
    BY <1>2, <1>19, RoleChangesDoes
  <2>2. Known(s)
    BY <1>5, <2>1
  <2>3. s \notin role
    BY <2>1, <2>2 DEF Known
  <2>4. QED
    BY <1>4, <2>1, <2>2, <2>3
<1>18. QED
  BY <1>1, <1>6, <1>7, <1>8, <1>9, <1>10, <1>11, <1>12, <1>13, <1>14, <1>15, <1>16, <1>17, <1>19,
     QuietSteps DEF Next, Main, Updater, Setters, Glib, Monitor, MqttWrapper, Outside

LEMMA LowStep ==
  TypeOK /\ FlagInv /\ RoleInv /\ LowInv /\ [Next]_vars => LowInv'
<1> DEFINE Names == LowExcuses
           Low == \A s \in Sinks : node[s].cost # "high"
           Early == monitor.pc \in {"new", "start", "raised"}
<1> SUFFICES ASSUME TypeOK, FlagInv, RoleInv, LowInv, [Next]_vars
             PROVE  LowInv'
  OBVIOUS
<1>1. ~Restart /\ ~Excused(Names)' => ~Excused(Names)
  BY CausesStay, NamesStay
<1>2. ASSUME UNCHANGED <<monitor, disconnected, stop_stack>>, ~Restart,
             \A s \in Sinks : node'[s].cost = node[s].cost,
             glib' = glib \/ glib'.pc # "set"
      PROVE  LowInv'
  BY <1>1, <1>2 DEF LowInv
<1>3. ASSUME Quiet, ~Restart PROVE LowInv'
  BY <1>2, <1>3 DEF Quiet
<1>4. ASSUME ListNames, ~Restart PROVE LowInv'
  BY <1>2, <1>4 DEF ListNames, hole, outside, chosen
<1>5. ASSUME Subscribe, ~Restart PROVE LowInv'
  <2>1. monitor.pc = "new" /\ UNCHANGED <<node, glib, stop_stack>>
    BY <1>5, SubscribeDoes DEF FlagInv
  <2>2. Early' => disconnected' = disconnected
    BY <1>5, SubscribeDoes
  <2>3. QED
    BY <1>1, <1>5, <2>1, <2>2 DEF LowInv
<1>6. ASSUME AddSink, ~Restart PROVE LowInv'
  <2>1. /\ UNCHANGED <<node, monitor, disconnected, stop_stack>>
        /\ glib' = glib \/ glib'.flag = disconnected
    BY <1>6, AddSinkDoes
  <2>2. QED
    BY <1>1, <1>6, <2>1 DEF LowInv
<1>7. ASSUME RemoveSink \/ StackChanged, ~Restart PROVE LowInv'
  BY <1>2, <1>7, RemoveSinkDoes, StackChangedDoes
<1>8. ASSUME InitializeSink, ~Restart PROVE LowInv'
  <2>1. PICK s \in Sinks :
           /\ Preparing(s) /\ glib'.pc # "set" /\ s = glib.sink
           /\ UNCHANGED <<monitor, disconnected, stop_stack>>
           /\ \A t \in Sinks \ {s} : node'[t] = node[t]
           /\ \/ node' = node
              \/ ~stop_stack /\ node'[s].cost = IF glib.flag THEN "high" ELSE "low"
    BY <1>8, InitializeSinkDoes
  <2>2. (stop_stack \/ ~glib.flag) /\ Low => Low'
    BY <2>1
  <2>3. stop_stack => Low'
    BY <2>2 DEF LowInv
  <2>4. Early /\ ~Excused(Names) => ~disconnected /\ ~glib.flag /\ Low
    BY <2>1 DEF LowInv, Preparing
  <2>5. QED
    BY <1>1, <1>8, <2>1, <2>2, <2>3, <2>4 DEF LowInv
<1>9. ASSUME Detect \/ Recover, ~Restart PROVE LowInv'
  <2>1. ~Early' /\ UNCHANGED <<node, stop_stack>>
    BY <1>9, DetectDoes, RecoverDoes
  <2>2. QED
    BY <2>1 DEF LowInv
<1>10. ASSUME NEW s \in Sinks, SetCost(s), ~Restart PROVE LowInv'
  <2>1. /\ s \in monitor.todo /\ Visiting /\ (monitor.pc = "start" \/ ~stop_stack)
        /\ UNCHANGED <<main, glib, role, stop_stack>>
        /\ \A t \in Sinks \ {s} : node'[t] = node[t]
        /\ \/ /\ node[s].on /\ s \notin role /\ node' = node
              /\ monitor'.pc = "raised" /\ disconnected' = disconnected
              /\ Coming(s) \/ s \in failed => "unprepared" \in causes'
           \/ /\ Visited(s)
              /\ \/ node' = node
                 \/ node'[s].cost = IF monitor.pc = "raise" THEN "high" ELSE "low"
    BY <1>10, SetCostDoes
  <2>2. monitor.pc = "start" /\ Low => Low'
    BY <2>1
  <2>3. stop_stack => Low'
    BY <2>1, <2>2 DEF LowInv
  <2>4. ASSUME Early', ~Excused(Names)' PROVE monitor.pc = "start" /\ disconnected' = disconnected
    <3>1. CASE monitor'.pc # "raised"
      BY <2>1, <2>4, <3>1 DEF Visited, Visiting
    <3>2. CASE monitor'.pc = "raised"
      <4>1. /\ node[s].on /\ s \notin role /\ disconnected' = disconnected
            /\ Coming(s) \/ s \in failed => "unprepared" \in causes'
        BY <2>1, <3>2 DEF Visited, Visiting
      <4>2. SUFFICES ASSUME monitor.pc # "start" PROVE FALSE
        BY <4>1
      <4>3. ~Excused(RoleExcuses) /\ main = "run" /\ ~stop_stack
        BY <1>1, <1>10, <2>1, <2>4, <4>2 DEF Excused, FlagInv, Visiting, LowExcuses
      <4>4. Coming(s) \/ s \in failed
        BY <2>1, <4>1, <4>2, <4>3 DEF RoleInv, OnBus, Visiting
      <4>5. QED
        BY <2>4, <4>1, <4>4 DEF Excused, LowExcuses, RoleExcuses
    <3>3. QED
      BY <3>1, <3>2
  <2>5. QED
    BY <1>1, <1>10, <2>1, <2>2, <2>3, <2>4 DEF LowInv
<1>11. ASSUME NEW s \in Sinks, WriteStarted(s), ~Restart PROVE LowInv'
  <2>1. /\ Busy /\ UNCHANGED stop_stack /\ \A t \in Sinks : node'[t].cost = node[t].cost
        /\ Visited(s)
    BY <1>11, WriteStartedDoes
  <2>2. ~Early'
    BY <2>1 DEF Visited, Busy
  <2>3. QED
    BY <2>1, <2>2 DEF LowInv
<1>12. ASSUME NEW s \in Sinks, ServiceChanges(s) \/ OperatorChanges(s) \/ RoleChanges(s),
              ~Restart
       PROVE  LowInv'
  BY <1>2, <1>12, ServiceChangesDoes, OperatorChangesDoes, RoleChangesDoes
<1>13. ASSUME Restart PROVE LowInv'
  <2>1. /\ ~disconnected' /\ glib'.pc # "set" /\ UNCHANGED <<node, stop_stack>>
        /\ ~Low => "restarted" \in causes'
    BY <1>13 DEF Restart, Begins, GlibIdle, chosen
  <2>2. QED
    BY <2>1 DEF LowInv, Excused, LowExcuses
<1>14. CASE Restart
  BY <1>13, <1>14
<1>15. CASE ~Restart
  BY <1>3, <1>4, <1>5, <1>6, <1>7, <1>8, <1>9, <1>10, <1>11, <1>12, <1>15, QuietSteps
     DEF Next, Main, Updater, Setters, Glib, Monitor, MqttWrapper, Outside
<1>16. QED
  BY <1>14, <1>15

(* Everything that the costs of the sinks rest on, together. *)
CostsInv == SignalInv /\ FlagInv /\ CostInv /\ RoleInv /\ LowInv

THEOREM CostsInvariant == Spec => []CostsInv
<1>1. Init => CostsInv
  <2>1. Init => SignalInv /\ FlagInv /\ CostInv /\ RoleInv
    BY DEF Init, SignalInv, FlagInv, CostInv, RoleInv, GlibIdle, Asleep
  <2>2. Init => LowInv
    <3>1. Init => \A s \in Sinks : node[s].cost # "high"
      BY DEF Init
    <3>2. Init => ~disconnected /\ glib.pc # "set"
      BY DEF Init, GlibIdle
    <3>3. QED
      BY <3>1, <3>2 DEF LowInv
  <2>3. QED
    BY <2>1, <2>2 DEF CostsInv
<1>2. TypeOK /\ CostsInv /\ [Next]_vars => CostsInv'
  BY SignalStep, FlagStep, CostStep, RoleStep, LowStep DEF CostsInv
<1>3. QED
  BY <1>1, <1>2, TypeCorrect, PTL DEF Spec

(* Between two visits of the monitor every sink it governs has the cost of  *)
(* the hole's state, but for the excuses and for a sink whose cost could    *)
(* not be written last (transport_service.py:166-181, sink_manager.py:347). *)
THEOREM CostsFollowHole == Spec => []CostFollowsHole
<1>1. CostsInv => CostFollowsHole
  <2>1. SUFFICES ASSUME CostInv, main = "run", ~stop_stack, monitor.pc = "sleep",
                        glib.pc # "set", ~Excused({"missed", "crossed_hole"}),
                        NEW s \in (sinks \intersect OnBus) \ failed
                 PROVE  \/ node[s].cost = IF disconnected THEN "high" ELSE "low"
                        \/ \E i \in DOMAIN signals : signals[i] = [kind |-> "added", sink |-> s]
    BY DEF CostsInv, CostFollowsHole
  <2>2. Costed(s)
    BY <2>1 DEF CostInv
  <2>3. QED
    BY <2>1, <2>2 DEF Costed, Target, Visiting, Coming, Told, Preparing, Tells
<1>2. QED
  BY <1>1, CostsInvariant, PTL

(* A monitor whose thread ended because a node refused its cost leaves no   *)
(* sink at the high cost, but for the excuses (transport_service.py:80).    *)
THEOREM NoSinkStaysHigh == Spec => []NoSinkLeftHigh
<1>1. CostsInv => NoSinkLeftHigh
  BY DEF CostsInv, LowInv, NoSinkLeftHigh, LowExcuses, RoleExcuses, Excused
<1>2. QED
  BY <1>1, CostsInvariant, PTL

-----------------------------------------------------------------------------
(* The status: from a change of the sinks to what the broker retains.       *)
(* Every sink that is on the bus is known, or will be. *)
Awaited(s) ==
  /\ node[s].on /\ s \notin sinks => Told("added", s)
  /\ \A i \in DOMAIN signals : Tells(i, "removed", s) =>
       ~node[s].on \/ \E k \in i + 1 .. Len(signals) : Tells(k, "added", s)
KnownInv == main = "run" /\ ~Excused({"missed"}) => \A s \in Sinks : Awaited(s)

(* What the threads in _set_status hold.                                    *)
Holds(t) == setter[t].pc \in {"publish", "count"}
SetterInv ==
  /\ main # "run" => ~link /\ \A t \in Setters : setter[t].pc = "idle"
  /\ \A t \in Setters : Holds(t) => setter[t].configs \in Statuses
  /\ setter["wrapper"].pc # "raised"
  /\ scheduled => setter["updater"].pc # "idle"
  /\ \A t \in Setters : setter[t].attempt <= Attempts

(* A status is put, and not yet overtaken by another. *)
StatusQueued == \E i \in DOMAIN queue : queue[i] # None

(* A change of the sinks is still to be reported: its handler is at work, or the *)
(* updater has yet to read, or a removal will be handled. *)
RemovalTold == \E s \in sinks : Told("removed", s)

Announced ==
  last # None \/ (\E t \in Setters : setter[t].pc = "count") => retained # Offline \/ StatusQueued
Reporting == glib.pc = "count" \/ RemovalTold
OnlineInv ==
  main = "run" /\ link /\ ~Excused({"missed", "crossed_status"}) =>
    /\ Announced
    /\ last # None \/ Reporting \/ setter["updater"].pc = "raised"
         \/ \E t \in Setters : setter[t].pc \in {"read", "publish", "count"}

(* What the broker will retain when the queue is empty. *)
Latest(v) ==
  \/ \E i \in DOMAIN queue : queue[i] = v /\ \A j \in i + 1 .. Len(queue) : queue[j] = None
  \/ retained = v /\ \A j \in DOMAIN queue : queue[j] = None

Due == setter["updater"].pc = "read" \/ glib.pc \in {"set", "count"} \/ RemovalTold

Fresh(v) ==
  /\ \A p \in v : p[1] \in sinks /\ (p[2] = State(p[1]) \/ Told("stack", p[1]))
  /\ \A s \in sinks : \E p \in v : p[1] = s

Excuses == {"missed", "unretried", "late", "crossed_status", "refused", "unsignalled"}

SerialInv ==
  ~Excused(Excuses) =>
    /\ setter["wrapper"].pc # "idle" => last = None /\ setter["updater"].pc # "count"
    /\ link /\ main = "run" =>
         /\ \A t \in Setters : setter[t].pc = "count" => Latest(setter[t].configs)
         /\ last # None /\ (\A t \in Setters : setter[t].pc # "count") => Latest(last)

FreshInv ==
  main = "run" /\ ~Excused(Excuses) /\ setter["updater"].pc # "raised" =>
    IF Holds("updater") THEN Due \/ setter["updater"].partial \/ Fresh(setter["updater"].configs)
    ELSE IF Holds("wrapper") THEN Due \/ Fresh(setter["wrapper"].configs)
    ELSE Due \/ ~link \/ setter["wrapper"].pc = "read" \/ (last # None /\ Fresh(last))

(* What the threads in _set_status do. *)
LEMMA ReadConfigsDoes ==
  ASSUME TypeOK, NEW t \in Setters, ReadConfigs(t)
  PROVE  /\ setter[t].pc = "read" /\ \A o \in Setters \ {t} : setter'[o] = setter[o]
         /\ UNCHANGED <<node, signals, link, retained, main, sinks, glib, queue, scheduled, last>>
         /\ \/ (\E s \in sinks : ~node[s].on) /\ setter'[t].attempt = 0
               /\ setter'[t].pc = IF t = "wrapper" THEN "idle" ELSE "raised"
            \/ /\ setter'[t].pc = "publish" /\ setter'[t].attempt = setter[t].attempt
               /\ setter'[t].configs \in Statuses
               /\ \/ setter'[t].configs = Configs({})
                  \/ "unretried" \in causes'
                  \/ t = "updater" /\ setter'[t].partial
<1>1. /\ setter[t].pc = "read" /\ UNCHANGED <<node, signals, link, retained, main, sinks, glib, queue, scheduled, last>>
  BY DEF ReadConfigs, At, publishing
<1>2. CASE Raises(sinks)
  <2>1. \E s \in sinks : ~node[s].on
    BY <1>2 DEF Raises, OnBus, TypeOK, SinkTypes
  <2>2. Moves(t, IF t = "wrapper" THEN SetterIdle ELSE Dead)
    BY <1>2 DEF ReadConfigs
  <2>3. /\ setter'[t] = IF t = "wrapper" THEN SetterIdle ELSE Dead
        /\ \A o \in Setters \ {t} : setter'[o] = setter[o]
    BY <2>2 DEF Moves, TypeOK, PublishTypes
  <2>4. /\ SetterIdle.pc = "idle" /\ SetterIdle.attempt = 0
        /\ Dead.pc = "raised" /\ Dead.attempt = 0
    BY DEF SetterIdle, Dead
  <2>5. QED
    BY <1>1, <2>1, <2>3, <2>4
<1>3. CASE ~Raises(sinks)
  <2>1. PICK silent \in {{}} \union {{s} : s \in sinks} :
          /\ Blame(IF \E s \in silent : t = "wrapper" \/ cache[s] = "unread"
                     THEN {"unretried"} ELSE {})
          /\ Moves(t, [setter[t] EXCEPT !.pc = "publish", !.configs = Configs(silent),
                         !.partial = \E s \in silent : cache[s] # "unread"])
    BY <1>3 DEF ReadConfigs
  <2>2. Configs(silent) \in Statuses
    BY ConfigsType
  <2>3. /\ \A o \in Setters \ {t} : setter'[o] = setter[o]
        /\ setter'[t] = [setter[t] EXCEPT !.pc = "publish", !.configs = Configs(silent),
                           !.partial = \E s \in silent : cache[s] # "unread"]
    BY <2>1 DEF Moves, TypeOK, PublishTypes
  <2>4. /\ setter'[t].pc = "publish" /\ setter'[t].attempt = setter[t].attempt
        /\ setter'[t].configs = Configs(silent)
        /\ setter'[t].partial <=> \E s \in silent : cache[s] # "unread"
    <3>1. setter[t] \in SetterStates
      BY DEF TypeOK, PublishTypes
    <3>2. /\ setter'[t].pc = "publish" /\ setter'[t].attempt = setter[t].attempt
          /\ setter'[t].configs = Configs(silent)
      BY <2>3, <3>1 DEF SetterStates
    <3>3. setter'[t].partial = \E s \in silent : cache[s] # "unread"
      BY <2>3, <3>1 DEF SetterStates
    <3>4. QED
      BY <3>2, <3>3, Zenon
  <2>5. CASE silent = {}
    BY <1>1, <2>2, <2>3, <2>4, <2>5
  <2>6. CASE silent # {}
    <3>1. PICK s \in silent : TRUE
      BY <2>6
    <3>2. "unretried" \in causes' \/ (t = "updater" /\ setter'[t].partial)
      BY <2>1, <2>4, <3>1 DEF Blame, Setters
    <3>3. QED
      BY <1>1, <2>2, <2>3, <2>4, <3>2
  <2>7. QED
    BY <2>5, <2>6
<1>4. QED
  BY <1>2, <1>3

(* Where two threads are in _set_status at once the steps of either are     *)
(* excused from then on.                                                    *)
Crossed(t) ==
  \A o \in Setters \ {t} :
    Holds(o) \/ (o = "wrapper" /\ setter[o].pc = "read") => "crossed_status" \in causes'

LEMMA CrossingBlamed ==
  ASSUME NEW t, NEW more, Blame(Crossing(t) \union more)
  PROVE  Crossed(t)
  BY DEF Blame, Crossing, Crossed, Holds, At

LEMMA PublishStatusDoes ==
  ASSUME TypeOK, NEW t \in Setters, PublishStatus(t)
  PROVE  /\ setter[t].pc = "publish" /\ \A o \in Setters \ {t} : setter'[o] = setter[o]
         /\ UNCHANGED <<node, signals, link, retained, main, sinks, glib, last>>
         /\ \/ /\ last = setter[t].configs /\ queue' = queue
               /\ setter'[t].pc = "idle" /\ setter'[t].attempt = 0
               /\ scheduled' => scheduled /\ t # "updater"
               /\ setter[t].partial => "unretried" \in causes'
            \/ /\ last # setter[t].configs /\ queue' = Append(queue, setter[t].configs)
               /\ setter'[t].pc = "count" /\ setter'[t].configs = setter[t].configs
               /\ setter'[t].partial = setter[t].partial
               /\ setter'[t].attempt = setter[t].attempt /\ scheduled' = scheduled
               /\ Crossed(t)
<1>1. setter[t].pc = "publish" /\ UNCHANGED <<node, signals, link, retained, main, sinks, glib, last>>
  BY DEF PublishStatus, At, outside
<1>2. CASE last = setter[t].configs
  <2>1. Ends(t, FALSE) /\ queue' = queue
        /\ (setter[t].partial => "unretried" \in causes')
    BY <1>2 DEF PublishStatus, Blame
  <2>2. Moves(t, SetterIdle) /\ scheduled' = (scheduled /\ t # "updater")
    BY <2>1 DEF Ends
  <2>3. setter'[t] = SetterIdle /\ \A o \in Setters \ {t} : setter'[o] = setter[o]
    BY <2>2 DEF Moves, TypeOK, PublishTypes
  <2>4. SetterIdle.pc = "idle" /\ SetterIdle.attempt = 0
    BY DEF SetterIdle
  <2>5. scheduled' => scheduled /\ t # "updater"
    BY <2>2, Zenon
  <2>6. QED
    BY <1>1, <1>2, <2>1, <2>3, <2>4, <2>5
<1>3. CASE last # setter[t].configs
  <2>1. Moves(t, [setter[t] EXCEPT !.pc = "count"]) /\ queue' = Append(queue, setter[t].configs)
        /\ scheduled' = scheduled /\ Blame(Crossing(t))
    BY <1>3 DEF PublishStatus, Puts
  <2>2. /\ setter'[t] = [setter[t] EXCEPT !.pc = "count"]
        /\ \A o \in Setters \ {t} : setter'[o] = setter[o]
    BY <2>1 DEF Moves, TypeOK, PublishTypes
  <2>3. /\ setter'[t].pc = "count" /\ setter'[t].configs = setter[t].configs
        /\ setter'[t].partial = setter[t].partial /\ setter'[t].attempt = setter[t].attempt
    BY <2>2 DEF TypeOK, PublishTypes, SetterStates
  <2>4. Crossed(t)
    <3>1. Crossing(t) \union {} = Crossing(t)
      OBVIOUS
    <3>2. QED
      BY <2>1, <3>1, CrossingBlamed
  <2>5. QED
    BY <1>1, <1>3, <2>1, <2>2, <2>3, <2>4
<1>4. QED
  BY <1>2, <1>3

LEMMA CountStatusDoes ==
  ASSUME TypeOK, NEW t \in Setters, CountStatus(t), setter[t].attempt <= Attempts
  PROVE  /\ setter[t].pc = "count" /\ \A o \in Setters \ {t} : setter'[o] = setter[o]
         /\ UNCHANGED <<node, signals, link, retained, main, sinks, glib, queue>>
         /\ last' = setter[t].configs /\ Crossed(t)
         /\ setter'[t].attempt <= Attempts
         /\ \/ /\ t = "updater" /\ setter[t].partial
               /\ setter'[t].pc = "read" /\ scheduled' = scheduled
            \/ /\ setter'[t].pc = "idle" /\ (scheduled' => scheduled /\ t # "updater")
               /\ t = "updater" /\ setter[t].partial => "unretried" \in causes'
<1>1. /\ setter[t].pc = "count" /\ UNCHANGED <<node, signals, link, retained, main, sinks, glib, queue>>
      /\ last' = setter[t].configs /\ Ends(t, setter[t].partial)
      /\ Blame(Crossing(t) \union IF setter[t].partial /\ setter[t].attempt = Attempts
                                    THEN {"unretried"} ELSE {})
  BY DEF CountStatus, At, outside
<1>2. Crossed(t)
  BY <1>1, CrossingBlamed
<1>3. setter[t].attempt \in Nat
  BY DEF TypeOK, PublishTypes, SetterStates
<1>4. CASE t = "updater" /\ setter[t].partial /\ setter[t].attempt < Attempts
  <2>1. Moves(t, [SetterIdle EXCEPT !.pc = "read", !.attempt = setter[t].attempt + 1])
        /\ scheduled' = scheduled
    BY <1>1, <1>4 DEF Ends
  <2>2. /\ setter'[t] = [SetterIdle EXCEPT !.pc = "read", !.attempt = setter[t].attempt + 1]
        /\ \A o \in Setters \ {t} : setter'[o] = setter[o]
    BY <2>1 DEF Moves, TypeOK, PublishTypes
  <2>3. setter'[t].pc = "read" /\ setter'[t].attempt = setter[t].attempt + 1
    BY <2>2 DEF SetterIdle
  <2>4. setter[t].attempt + 1 <= Attempts
    BY <1>3, <1>4, GatewayAssumption
  <2>5. QED
    BY <1>1, <1>2, <1>4, <2>1, <2>2, <2>3, <2>4
<1>5. CASE ~(t = "updater" /\ setter[t].partial /\ setter[t].attempt < Attempts)
  <2>1. Moves(t, SetterIdle) /\ scheduled' = (scheduled /\ t # "updater")
    BY <1>1, <1>5 DEF Ends
  <2>2. setter'[t] = SetterIdle /\ \A o \in Setters \ {t} : setter'[o] = setter[o]
    BY <2>1 DEF Moves, TypeOK, PublishTypes
  <2>3. SetterIdle.pc = "idle" /\ SetterIdle.attempt = 0 /\ 0 <= Attempts
    BY GatewayAssumption DEF SetterIdle
  <2>4. scheduled' => scheduled /\ t # "updater"
    BY <2>1, Zenon
  <2>5. t = "updater" /\ setter[t].partial => setter[t].attempt = Attempts
    BY <1>3, <1>5, GatewayAssumption
  <2>6. t = "updater" /\ setter[t].partial => "unretried" \in causes'
    BY <1>1, <2>5 DEF Blame
  <2>7. QED
    BY <1>1, <1>2, <2>2, <2>3, <2>4, <2>6
<1>6. QED
  BY <1>4, <1>5

LEMMA ConnectDoes ==
  ASSUME TypeOK, Connect
  PROVE  /\ main = "run" /\ ~link /\ link' /\ last' = None
         /\ setter["wrapper"].pc = "idle" /\ setter'["updater"] = setter["updater"]
         /\ setter'["wrapper"].pc = "read" /\ setter'["wrapper"].attempt = 0
         /\ UNCHANGED <<node, signals, retained, main, sinks, glib, queue, scheduled>>
         /\ setter["updater"].pc = "count" => "crossed_status" \in causes'
<1>1. [SetterIdle EXCEPT !.pc = "read"].pc = "read" /\ [SetterIdle EXCEPT !.pc = "read"].attempt = 0
  BY DEF SetterIdle
<1>2. setter'["wrapper"] = [SetterIdle EXCEPT !.pc = "read"]
      /\ setter'["updater"] = setter["updater"]
  BY DEF Connect, Moves, TypeOK, PublishTypes, Setters
<1>3. QED
  BY <1>1, <1>2 DEF Connect, Wrapper, At, Blame, publishing

LEMMA CountResponseDoes ==
  ASSUME TypeOK, CountResponse
  PROVE  /\ glib.pc = "count" /\ glib'.pc = "idle" /\ setter'["wrapper"] = setter["wrapper"]
         /\ UNCHANGED <<node, signals, link, retained, main, sinks, queue, last>>
         /\ \/ /\ scheduled /\ setter' = setter
               /\ setter["updater"].configs \in {None, Configs({})} \/ "late" \in causes'
            \/ setter'["updater"].pc = "read" /\ setter'["updater"].attempt = 0
<1>1. [SetterIdle EXCEPT !.pc = "read"].pc = "read" /\ [SetterIdle EXCEPT !.pc = "read"].attempt = 0
  BY DEF SetterIdle
<1>2. ~scheduled => /\ setter'["updater"] = [SetterIdle EXCEPT !.pc = "read"]
                    /\ setter'["wrapper"] = setter["wrapper"]
  BY DEF CountResponse, Moves, TypeOK, PublishTypes, Setters
<1>3. scheduled => /\ setter' = setter
                   /\ setter["updater"].configs \in {None, Configs({})} \/ "late" \in causes'
  BY DEF CountResponse, Blame
<1>4. glib.pc = "count" /\ glib'.pc = "idle" /\ UNCHANGED <<node, signals, link, retained, main, sinks, queue, last>>
  BY DEF CountResponse, GlibIdle, outside
<1>5. QED
  BY <1>1, <1>2, <1>3, <1>4

(* What a response to a change of the sinks leaves. *)
LEMMA RespondsDoes ==
  ASSUME TypeOK, NEW read \in SUBSET Sinks, Responds(read)
  PROVE  \/ (\E s \in read : ~node[s].on) /\ glib'.pc = "idle" /\ queue' = queue
         \/ glib'.pc = "count" /\ queue' = Append(queue, None)
<1>1. CASE Raises(read)
  <2>1. \E s \in read : ~node[s].on
    BY <1>1 DEF Raises, OnBus
  <2>2. glib'.pc = "idle" /\ queue' = queue
    BY <1>1 DEF Responds, GlibIdle
  <2>3. QED
    BY <2>1, <2>2
<1>2. CASE ~Raises(read)
  <2>1. GlibGoes("count") /\ queue' = Append(queue, None)
    BY <1>2 DEF Responds, Puts
  <2>2. glib'.pc = "count"
    BY <2>1 DEF GlibGoes, TypeOK, SinkTypes, GlibStates
  <2>3. QED
    BY <2>1, <2>2
<1>3. QED
  BY <1>1, <1>2

(* Steps of the other threads: they put at most a message that is no status. *)
Neutral ==
  /\ UNCHANGED <<setter, scheduled, last, link, retained>>
  /\ queue' = queue \/ queue' = Append(queue, None)
  /\ main' # "run" => main # "run"

Others ==
  \/ Main \/ Receiver \/ Monitor
  \/ AddSink \/ RemoveSink \/ StackChanged \/ InitializeSink
  \/ \E s \in Sinks : ServiceChanges(s) \/ OperatorChanges(s) \/ RoleChanges(s)
  \/ UNCHANGED vars

LEMMA NeutralSteps == TypeOK /\ Others => Neutral
<1> SUFFICES ASSUME TypeOK
             PROVE  Others => Neutral
  OBVIOUS
<1> USE DEF outside, publishing, status
<1>1. Main \/ AddSink \/ UNCHANGED vars => Neutral
  BY DEF Main, ListNames, Subscribe, AddSink, vars, Neutral
<1>2. Receiver => Neutral
  BY DEF Receiver, DataReceived, CountData, Puts, Neutral
<1>3. Monitor => Neutral
  BY DEF Monitor, Detect, Recover, SetCost, WriteStarted, MonitorOnly, Neutral
<1>4. \A read : Responds(read) => queue' = queue \/ queue' = Append(queue, None)
  BY DEF Responds, Puts
<1>5. RemoveSink \/ StackChanged \/ InitializeSink => Neutral
  BY <1>4 DEF RemoveSink, StackChanged, InitializeSink, Initializes, Neutral
<1>6. (\E s \in Sinks : ServiceChanges(s) \/ OperatorChanges(s) \/ RoleChanges(s)) => Neutral
  BY DEF ServiceChanges, OperatorChanges, RoleChanges, OutsideOnly, Neutral
<1>7. QED
  BY <1>1, <1>2, <1>3, <1>5, <1>6 DEF Others

LEMMA SetterStep == TypeOK /\ SignalInv /\ SetterInv /\ [Next]_vars => SetterInv'
<1> SUFFICES ASSUME TypeOK, SignalInv, SetterInv, [Next]_vars
             PROVE  SetterInv'
  OBVIOUS
<1>1. ASSUME Neutral PROVE SetterInv'
  BY <1>1 DEF SetterInv, Neutral, Holds
<1>2. ASSUME NEW t \in Setters, ReadConfigs(t) PROVE SetterInv'
  <2>1. /\ setter[t].pc = "read" /\ \A o \in Setters \ {t} : setter'[o] = setter[o]
        /\ UNCHANGED <<link, main, scheduled>>
        /\ \/ /\ setter'[t].attempt = 0
              /\ setter'[t].pc = IF t = "wrapper" THEN "idle" ELSE "raised"
           \/ /\ setter'[t].pc = "publish" /\ setter'[t].attempt = setter[t].attempt
              /\ setter'[t].configs \in Statuses
    BY <1>2, ReadConfigsDoes
  <2>2. main = "run" /\ 0 <= Attempts
    BY <2>1, GatewayAssumption DEF SetterInv
  <2>3. CASE t = "wrapper"
    BY <2>1, <2>2, <2>3 DEF SetterInv, Holds, Setters
  <2>4. CASE t = "updater"
    BY <2>1, <2>2, <2>4 DEF SetterInv, Holds, Setters
  <2>5. QED
    BY <2>3, <2>4 DEF Setters
<1>3. ASSUME NEW t \in Setters, PublishStatus(t) PROVE SetterInv'
  <2>1. /\ setter[t].pc = "publish" /\ \A o \in Setters \ {t} : setter'[o] = setter[o]
        /\ UNCHANGED <<link, main>>
        /\ \/ /\ setter'[t].pc = "idle" /\ setter'[t].attempt = 0
              /\ scheduled' => scheduled /\ t # "updater"
           \/ /\ setter'[t].pc = "count" /\ setter'[t].configs = setter[t].configs
              /\ setter'[t].attempt = setter[t].attempt /\ scheduled' = scheduled
    BY <1>3, PublishStatusDoes
  <2>2. main = "run" /\ 0 <= Attempts /\ setter[t].configs \in Statuses
    BY <2>1, GatewayAssumption DEF SetterInv, Holds
  <2>3. CASE t = "wrapper"
    BY <2>1, <2>2, <2>3 DEF SetterInv, Holds, Setters
  <2>4. CASE t = "updater"
    BY <2>1, <2>2, <2>4 DEF SetterInv, Holds, Setters
  <2>5. QED
    BY <2>3, <2>4 DEF Setters
<1>4. ASSUME NEW t \in Setters, CountStatus(t) PROVE SetterInv'
  <2>1. /\ setter[t].pc = "count" /\ \A o \in Setters \ {t} : setter'[o] = setter[o]
        /\ UNCHANGED <<link, main>> /\ setter'[t].attempt <= Attempts
        /\ \/ t = "updater" /\ setter'[t].pc = "read" /\ scheduled' = scheduled
           \/ setter'[t].pc = "idle" /\ (scheduled' => scheduled /\ t # "updater")
    BY <1>4, CountStatusDoes DEF SetterInv
  <2>2. main = "run"
    BY <2>1 DEF SetterInv
  <2>3. CASE t = "wrapper"
    BY <2>1, <2>2, <2>3 DEF SetterInv, Holds, Setters
  <2>4. CASE t = "updater"
    BY <2>1, <2>2, <2>4 DEF SetterInv, Holds, Setters
  <2>5. QED
    BY <2>3, <2>4 DEF Setters
<1>5. ASSUME Connect PROVE SetterInv'
  <2>1. /\ main = "run" /\ setter'["updater"] = setter["updater"]
        /\ setter'["wrapper"].pc = "read" /\ setter'["wrapper"].attempt = 0
        /\ UNCHANGED <<main, scheduled>>
    BY <1>5, ConnectDoes
  <2>2. 0 <= Attempts
    BY GatewayAssumption
  <2>3. QED
    BY <2>1, <2>2 DEF SetterInv, Holds, Setters
<1>6. ASSUME CountResponse PROVE SetterInv'
  <2>1. /\ glib.pc = "count" /\ setter'["wrapper"] = setter["wrapper"]
        /\ UNCHANGED <<link, main>>
        /\ \/ scheduled /\ setter' = setter
           \/ setter'["updater"].pc = "read" /\ setter'["updater"].attempt = 0
    BY <1>6, CountResponseDoes
  <2>2. 0 <= Attempts
    BY GatewayAssumption
  <2>3. main = "run"
    BY <2>1 DEF SignalInv
  <2>4. CASE scheduled /\ setter' = setter
    BY <2>1, <2>3, <2>4 DEF SetterInv, Holds
  <2>5. CASE setter'["updater"].pc = "read" /\ setter'["updater"].attempt = 0
    BY <2>1, <2>2, <2>3, <2>5 DEF SetterInv, Holds, Setters
  <2>6. QED
    BY <2>1, <2>4, <2>5
<1>7. ASSUME OnPublish PROVE SetterInv'
  BY <1>7 DEF OnPublish, SetterInv, Holds, status
<1>8. ASSUME Disconnect PROVE SetterInv'
  BY <1>8 DEF Disconnect, OutsideOnly, SetterInv, Holds, status
<1>9. ASSUME Restart PROVE SetterInv'
  <2>1. ~link' /\ setter' = [t \in Setters |-> SetterIdle] /\ ~scheduled'
    BY <1>9 DEF Restart, Begins
  <2>2. \A t \in Setters : setter'[t].pc = "idle" /\ setter'[t].attempt = 0
    BY <2>1 DEF SetterIdle
  <2>3. 0 <= Attempts /\ "wrapper" \in Setters
    BY GatewayAssumption DEF Setters
  <2>4. QED
    BY <2>1, <2>2, <2>3 DEF SetterInv, Holds
<1>10. QED
  BY <1>1, <1>2, <1>3, <1>4, <1>5, <1>6, <1>7, <1>8, <1>9, NeutralSteps
     DEF Others, Next, Updater, Setter, Setters, Glib, MqttWrapper, Outside

(* The queue between the put of a status and its acknowledgement. *)
LEMMA QueueTypes ==
  ASSUME TypeOK
  PROVE  /\ Len(queue) \in Nat /\ DOMAIN queue = 1 .. Len(queue)
         /\ \A i \in DOMAIN queue : queue[i] \in Statuses \union {None}
  BY DEF TypeOK, PublishTypes

LEMMA NothingOvertakes ==
  ASSUME TypeOK, queue' = queue \/ queue' = Append(queue, None), retained' = retained
  PROVE  /\ StatusQueued => StatusQueued'
         /\ \A v : Latest(v) => Latest(v)'
<1> DEFINE n == Len(queue)
<1>1. n \in Nat /\ DOMAIN queue = 1 .. n
  BY QueueTypes
<1>2. CASE queue' = queue
  BY <1>2 DEF StatusQueued, Latest
<1>3. CASE queue' = Append(queue, None)
  <2>1. /\ Len(queue') = n + 1 /\ DOMAIN queue' = 1 .. n + 1 /\ queue'[n + 1] = None
        /\ \A i \in 1 .. n : queue'[i] = queue[i]
    BY <1>3 DEF TypeOK, PublishTypes
  <2>2. StatusQueued => StatusQueued'
    BY <1>1, <2>1 DEF StatusQueued
  <2>3. ASSUME NEW v, NEW i \in 1 .. n, queue[i] = v, \A j \in i + 1 .. n : queue[j] = None
        PROVE  Latest(v)'
    <3>1. ASSUME NEW j \in i + 1 .. n + 1 PROVE queue'[j] = None
      <4>1. j = n + 1 \/ (j \in i + 1 .. n /\ j \in 1 .. n)
        BY <1>1
      <4>2. QED
        BY <2>1, <2>3, <4>1
    <3>2. i \in DOMAIN queue' /\ queue'[i] = v
      BY <1>1, <2>1, <2>3
    <3>3. QED
      BY <2>1, <3>1, <3>2 DEF Latest
  <2>4. ASSUME NEW v, retained = v, \A j \in 1 .. n : queue[j] = None
        PROVE  Latest(v)'
    <3>1. ASSUME NEW j \in 1 .. n + 1 PROVE queue'[j] = None
      <4>1. j = n + 1 \/ j \in 1 .. n
        BY <1>1
      <4>2. QED
        BY <2>1, <2>4, <4>1
    <3>2. QED
      BY <2>1, <2>4, <3>1 DEF Latest
  <2>5. ASSUME NEW v, Latest(v) PROVE Latest(v)'
    <3>1. \/ \E i \in 1 .. n : queue[i] = v /\ \A j \in i + 1 .. n : queue[j] = None
          \/ retained = v /\ \A j \in 1 .. n : queue[j] = None
      BY <1>1, <2>5 DEF Latest
    <3>2. QED
      BY <2>3, <2>4, <3>1
  <2>6. QED
    BY <2>2, <2>5
<1>4. QED
  BY <1>2, <1>3

LEMMA PutIsLatest ==
  ASSUME TypeOK, NEW v, v # None, queue' = Append(queue, v)
  PROVE  StatusQueued' /\ Latest(v)'
<1>1. PICK i \in Nat : i = Len(queue) + 1
  BY QueueTypes
<1>2. Len(queue') = i /\ i \in DOMAIN queue' /\ queue'[i] = v
  BY <1>1 DEF TypeOK, PublishTypes
<1>3. \A j \in i + 1 .. Len(queue') : FALSE
  BY <1>1, <1>2
<1>4. QED
  BY <1>2, <1>3 DEF StatusQueued, Latest

LEMMA PublishedIsLatest ==
  ASSUME TypeOK, OnPublish
  PROVE  /\ retained # Offline \/ StatusQueued => (retained # Offline \/ StatusQueued)'
         /\ \A v : v # None /\ Latest(v) => Latest(v)'
<1> DEFINE n == Len(queue)
<1>1. n \in Nat /\ DOMAIN queue = 1 .. n /\ \A i \in 1 .. n : queue[i] \in Statuses \union {None}
  BY QueueTypes
<1>2. /\ queue # <<>> /\ queue' = Tail(queue)
      /\ retained' = IF Head(queue) = None THEN retained ELSE Head(queue)
  BY DEF OnPublish
<1>3. /\ n \in Nat \ {0} /\ Head(queue) = queue[1]
      /\ Len(queue') = n - 1 /\ DOMAIN queue' = 1 .. n - 1
      /\ \A i \in 1 .. n - 1 : queue'[i] = queue[i + 1]
  BY <1>2 DEF TypeOK, PublishTypes
<1>4. CASE queue[1] # None
  <2>1. retained' = queue[1] /\ retained' # Offline
    BY <1>1, <1>2, <1>3, <1>4, GatewayAssumption
  <2>2. QED
    <3>1. ASSUME NEW v, v # None, Latest(v) PROVE Latest(v)'
      <4>1. PICK i \in 1 .. n : queue[i] = v /\ \A j \in i + 1 .. n : queue[j] = None
        BY <1>1, <1>3, <1>4, <3>1 DEF Latest
      <4>2. \A j \in i .. n - 1 : j + 1 \in i + 1 .. n /\ j \in 1 .. n - 1
        BY <1>3, <4>1
      <4>3. CASE i = 1
        BY <1>3, <2>1, <4>1, <4>2, <4>3 DEF Latest
      <4>4. CASE i # 1
        <5>1. PICK k \in 1 .. n - 1 : k + 1 = i
          <6>1. i - 1 \in 1 .. n - 1 /\ (i - 1) + 1 = i
            BY <1>3, <4>1, <4>4
          <6>2. QED
            BY <6>1
        <5>2. \A j \in k + 1 .. n - 1 : queue'[j] = None
          BY <1>3, <4>1, <4>2, <5>1
        <5>3. QED
          BY <1>3, <4>1, <5>1, <5>2 DEF Latest
      <4>5. QED
        BY <4>3, <4>4
    <3>2. QED
      BY <2>1, <3>1
<1>5. CASE queue[1] = None
  <2>1. retained' = retained
    BY <1>2, <1>3, <1>5
  <2>2. ASSUME NEW i \in 1 .. n, queue[i] # None
        PROVE  \E k \in 1 .. n - 1 : k + 1 = i
    <3>1. i - 1 \in 1 .. n - 1 /\ (i - 1) + 1 = i
      BY <1>3, <1>5, <2>2
    <3>2. QED
      BY <3>1
  <2>3. StatusQueued => StatusQueued'
    BY <1>1, <1>3, <2>2 DEF StatusQueued
  <2>4. ASSUME NEW v, v # None, Latest(v) PROVE Latest(v)'
    <3>1. CASE retained = v /\ \A j \in 1 .. n : queue[j] = None
      <4>1. \A j \in 1 .. n - 1 : j + 1 \in 1 .. n
        BY <1>3
      <4>2. QED
        BY <1>3, <2>1, <3>1, <4>1 DEF Latest
    <3>2. ASSUME NEW i \in 1 .. n, queue[i] = v, \A j \in i + 1 .. n : queue[j] = None
          PROVE  Latest(v)'
      <4>1. PICK k \in 1 .. n - 1 : k + 1 = i
        BY <2>2, <2>4, <3>2
      <4>2. \A j \in k + 1 .. n - 1 : j + 1 \in i + 1 .. n /\ j \in 1 .. n - 1
        BY <1>3, <4>1
      <4>3. QED
        BY <1>3, <3>2, <4>1, <4>2 DEF Latest
    <3>3. QED
      BY <1>1, <2>4, <3>1, <3>2 DEF Latest
  <2>5. QED
    BY <2>1, <2>3, <2>4
<1>6. QED
  BY <1>4, <1>5

LEMMA SerialStep ==
  TypeOK /\ CountInv /\ SetterInv /\ SerialInv /\ [Next]_vars => SerialInv'
<1> SUFFICES ASSUME TypeOK, CountInv, SetterInv, SerialInv, [Next]_vars, ~Excused(Excuses)'
             PROVE  SerialInv'
  BY DEF SerialInv
<1>1. /\ ~Restart => ~Excused(Excuses)
      /\ "crossed_status" \notin causes'
  BY CausesStay, NamesStay DEF Excused, Excuses
<1>2. SUFFICES ASSUME ~Restart
               PROVE  SerialInv'
  <2>1. ASSUME Restart PROVE SerialInv'
    <3>1. ~link' /\ setter' = [t \in Setters |-> SetterIdle]
      BY <2>1 DEF Restart, Begins
    <3>2. setter'["wrapper"].pc = "idle"
      BY <3>1 DEF SetterIdle, Setters
    <3>3. QED
      BY <3>1, <3>2 DEF SerialInv
  <2>2. QED
    BY <1>2, <2>1
<1>3. ~Excused(Excuses) /\ (main # "run" => ~link /\ \A t \in Setters : setter[t].pc = "idle")
  BY <1>1, <1>2 DEF SetterInv
<1>4. ASSUME Neutral PROVE SerialInv'
  <2>1. \A v : Latest(v) => Latest(v)'
    BY <1>4, NothingOvertakes DEF Neutral
  <2>2. link' => main = "run"
    BY <1>3, <1>4 DEF Neutral
  <2>3. QED
    BY <1>3, <1>4, <2>1, <2>2 DEF SerialInv, Neutral
<1>5. ASSUME NEW t \in Setters, ReadConfigs(t) PROVE SerialInv'
  <2>1. /\ setter[t].pc = "read" /\ \A o \in Setters \ {t} : setter'[o] = setter[o]
        /\ UNCHANGED <<link, retained, main, queue, last>>
        /\ setter'[t].pc \in {"idle", "raised", "publish"}
    BY <1>5, ReadConfigsDoes
  <2>2. \A v : Latest(v) => Latest(v)'
    BY <2>1 DEF Latest
  <2>3. CASE t = "wrapper"
    BY <1>3, <2>1, <2>2, <2>3 DEF SerialInv, Setters
  <2>4. CASE t = "updater"
    BY <1>3, <2>1, <2>2, <2>4 DEF SerialInv, Setters
  <2>5. QED
    BY <2>3, <2>4 DEF Setters
<1>6. ASSUME NEW t \in Setters, PublishStatus(t) PROVE SerialInv'
  <2>1. /\ setter[t].pc = "publish" /\ \A o \in Setters \ {t} : setter'[o] = setter[o]
        /\ UNCHANGED <<link, retained, main, last>> /\ setter[t].configs # None
    BY <1>6, PublishStatusDoes, GatewayAssumption DEF SetterInv, Holds
  <2>2. CASE last = setter[t].configs /\ queue' = queue /\ setter'[t].pc = "idle"
    <3>1. \A v : Latest(v) => Latest(v)'
      BY <2>1, <2>2 DEF Latest
    <3>2. QED
      BY <1>3, <2>1, <2>2, <3>1 DEF SerialInv, Setters
  <2>3. CASE /\ queue' = Append(queue, setter[t].configs) /\ Crossed(t)
             /\ setter'[t].pc = "count" /\ setter'[t].configs = setter[t].configs
    <3>1. PICK v : v = setter[t].configs
      OBVIOUS
    <3>4. Latest(v)' /\ setter'[t].configs = v
      BY <2>1, <2>3, <3>1, PutIsLatest
    <3>2. \A o \in Setters \ {t} : ~Holds(o) /\ ~(o = "wrapper" /\ setter[o].pc = "read")
      BY <1>1, <2>3 DEF Crossed
    <3>3. QED
      <4>1. (link /\ main = "run" => Latest(setter[t].configs))'
        BY <3>4
      <4>2. \A o \in Setters : o # t => setter'[o].pc # "count" /\ setter[o].pc # "count"
        BY <2>1, <3>2 DEF Holds
      <4>3. (\A o \in Setters : setter[o].pc = "count" => o = t)'
        BY <4>2
      <4>4. setter'["wrapper"].pc # "idle" => last' = None /\ setter'["updater"].pc # "count"
        <5>1. setter["wrapper"].pc # "raised" /\ setter["wrapper"] \in SetterStates
          BY DEF SetterInv, TypeOK, PublishTypes, Setters
        <5>2. t = "updater" => setter["wrapper"].pc = "idle" /\ setter'["wrapper"] = setter["wrapper"]
          BY <2>1, <3>2, <5>1 DEF Setters, Holds, SetterStates
        <5>3. QED
          BY <1>3, <2>1, <2>3, <3>2, <4>2, <5>2 DEF SerialInv, Setters
      <4>5. QED
        <5>1. (\A o \in Setters : setter[o].pc = "count" /\ link /\ main = "run" => Latest(setter[o].configs))'
          BY <4>1, <4>3 DEF Latest
        <5>2. QED
          BY <2>3, <4>4, <5>1 DEF SerialInv
  <2>4. QED
    BY <1>6, <2>2, <2>3, PublishStatusDoes
<1>7. ASSUME NEW t \in Setters, CountStatus(t) PROVE SerialInv'
  <2>1. /\ setter[t].pc = "count" /\ \A o \in Setters \ {t} : setter'[o] = setter[o]
        /\ UNCHANGED <<link, retained, main, queue>>
        /\ last' = setter[t].configs /\ Crossed(t) /\ setter'[t].pc \in {"read", "idle"}
        /\ (t = "wrapper" => setter'[t].pc = "idle")
    BY <1>7, CountStatusDoes DEF SetterInv
  <2>2. \A o \in Setters \ {t} : ~Holds(o) /\ ~(o = "wrapper" /\ setter[o].pc = "read")
    BY <1>1, <2>1 DEF Crossed
  <2>3. \A v : Latest(v) => Latest(v)'
    BY <2>1 DEF Latest
  <2>4. link /\ main = "run" => Latest(last)'
    <3>1. PICK v : v = setter[t].configs
      OBVIOUS
    <3>2. link /\ main = "run" => Latest(v)'
      BY <1>3, <2>1, <2>3, <3>1 DEF SerialInv
    <3>3. QED
      BY <2>1, <3>1, <3>2
  <2>5. setter'["wrapper"].pc = "idle"
    <3>1. setter["wrapper"].pc # "raised" /\ setter["wrapper"] \in SetterStates
      BY DEF SetterInv, TypeOK, PublishTypes, Setters
    <3>2. QED
      BY <2>1, <2>2, <3>1 DEF Setters, Holds, SetterStates
  <2>6. QED
    BY <2>1, <2>2, <2>4, <2>5 DEF SerialInv, Setters, Holds
<1>8. ASSUME Connect PROVE SerialInv'
  <2>1. /\ last' = None /\ setter'["updater"] = setter["updater"]
        /\ setter'["wrapper"].pc = "read" /\ setter["updater"].pc # "count"
    BY <1>1, <1>8, ConnectDoes
  <2>2. QED
    BY <2>1 DEF SerialInv, Setters
<1>9. ASSUME CountResponse PROVE SerialInv'
  <2>1. /\ setter'["wrapper"] = setter["wrapper"]
        /\ UNCHANGED <<link, retained, main, queue, last>>
        /\ setter' = setter \/ (~scheduled /\ setter'["updater"].pc = "read")
    BY <1>9, CountResponseDoes DEF CountResponse
  <2>2. \A v : Latest(v) => Latest(v)'
    BY <2>1 DEF Latest
  <2>3. CASE setter' = setter
    BY <1>3, <2>1, <2>2, <2>3 DEF SerialInv
  <2>4. CASE ~scheduled /\ setter'["updater"].pc = "read"
    <3>1. setter["updater"].pc = "idle"
      BY <2>4 DEF CountInv
    <3>2. QED
      BY <1>3, <2>1, <2>2, <2>4, <3>1 DEF SerialInv, Setters
  <2>5. QED
    BY <2>1, <2>3, <2>4
<1>10. ASSUME OnPublish PROVE SerialInv'
  <2>1. UNCHANGED <<setter, last, link, main>>
    BY <1>10 DEF OnPublish, status
  <2>2. \A v : v # None /\ Latest(v) => Latest(v)'
    BY <1>10, PublishedIsLatest
  <2>3. \A t \in Setters : setter[t].pc = "count" => setter[t].configs # None
    BY GatewayAssumption DEF SetterInv, Holds
  <2>4. QED
    BY <1>3, <2>1, <2>2, <2>3 DEF SerialInv
<1>11. ASSUME Disconnect PROVE SerialInv'
  BY <1>3, <1>11 DEF Disconnect, OutsideOnly, status, SerialInv
<1>12. QED
  BY <1>2, <1>4, <1>5, <1>6, <1>7, <1>8, <1>9, <1>10, <1>11, NeutralSteps
     DEF Others, Next, Updater, Setter, Setters, Glib, MqttWrapper, Outside

(* An appearance is told of until it is handled, also one that comes after  *)
(* a removal not handled yet.                                               *)
LEMMA AwaitedShorter ==
  ASSUME TypeOK, signals # <<>>, signals' = Tail(signals), node' = node,
         NEW s \in Sinks, Awaited(s),
         Tells(1, "added", s) => (node[s].on => s \in sinks'),
         ~Tells(1, "removed", s) => (s \in sinks => s \in sinks')
  PROVE  Awaited(s)'
<1> DEFINE n == Len(signals)
<1>1. n \in Nat \ {0} /\ DOMAIN signals = 1 .. n
  BY DEF TypeOK, OutsideTypes
<1>2. /\ Len(signals') = n - 1 /\ DOMAIN signals' = 1 .. n - 1
      /\ \A i \in 1 .. n - 1 : signals'[i] = signals[i + 1]
  BY DEF TypeOK, OutsideTypes
<1>3. \A i \in 1 .. n - 1 : \A k : Tells(i, k, s)' <=> Tells(i + 1, k, s)
  BY <1>2 DEF Tells
<1>4. ASSUME node[s].on, s \notin sinks' PROVE Told("added", s)'
  <2>1. ~Tells(1, "added", s)
    BY <1>4
  <2>2. Told("added", s)
    <3>1. CASE Tells(1, "removed", s)
      <4>1. 1 \in DOMAIN signals /\ \A k \in 1 + 1 .. Len(signals) : k \in DOMAIN signals
        BY <1>1
      <4>2. PICK k \in 1 + 1 .. Len(signals) : Tells(k, "added", s)
        BY <1>4, <3>1, <4>1 DEF Awaited
      <4>3. QED
        BY <4>1, <4>2 DEF Told
    <3>2. CASE ~Tells(1, "removed", s)
      BY <1>4, <3>2 DEF Awaited
    <3>3. QED
      BY <3>1, <3>2
  <2>3. QED
    BY <2>1, <2>2, ToldStays
<1>5. ASSUME NEW i \in 1 .. n - 1, Tells(i, "removed", s)', node[s].on
      PROVE  \E k \in i + 1 .. n - 1 : Tells(k, "added", s)'
  <2>1. i + 1 \in DOMAIN signals /\ Tells(i + 1, "removed", s)
    BY <1>1, <1>3, <1>5
  <2>2. PICK k \in (i + 1) + 1 .. Len(signals) : Tells(k, "added", s)
    BY <1>5, <2>1 DEF Awaited
  <2>3. k - 1 \in i + 1 .. n - 1 /\ k - 1 \in 1 .. n - 1 /\ (k - 1) + 1 = k
    BY <1>1, <2>2
  <2>4. QED
    BY <1>3, <2>2, <2>3
<1>6. QED
  BY <1>2, <1>4, <1>5 DEF Awaited

LEMMA AwaitedLonger ==
  ASSUME TypeOK, NEW x, signals' = Append(signals, x), NEW s \in Sinks, Awaited(s),
         s \in sinks => s \in sinks',
         x = [kind |-> "removed", sink |-> s] => ~node'[s].on,
         x # [kind |-> "added", sink |-> s] /\ x # [kind |-> "removed", sink |-> s]
           => node'[s].on = node[s].on
  PROVE  Awaited(s)'
<1> DEFINE n == Len(signals)
<1>1. n \in Nat /\ DOMAIN signals = 1 .. n
  BY DEF TypeOK, OutsideTypes
<1>2. /\ Len(signals') = n + 1 /\ DOMAIN signals' = 1 .. n + 1 /\ signals'[n + 1] = x
      /\ \A i \in 1 .. n : signals'[i] = signals[i]
  BY DEF TypeOK, OutsideTypes
<1>0. PICK end \in Nat : end = n + 1
  BY <1>1
<1>3. \A i \in 1 .. n : \A k : Tells(i, k, s)' <=> Tells(i, k, s)
  BY <1>2 DEF Tells
<1>4. \A k : Tells(end, k, s)' <=> x = [kind |-> k, sink |-> s]
  BY <1>0, <1>2 DEF Tells
<1>5. ASSUME node'[s].on, s \notin sinks' PROVE Told("added", s)'
  <2>1. CASE x = [kind |-> "added", sink |-> s]
    BY <2>1, ToldNow
  <2>2. CASE x # [kind |-> "added", sink |-> s]
    <3>1. Told("added", s)
      BY <1>5, <2>2 DEF Awaited
    <3>2. Grows
      BY <1>1, <1>2 DEF Grows
    <3>3. QED
      BY <3>1, <3>2, ToldStays
  <2>3. QED
    BY <2>1, <2>2
<1>6. ASSUME NEW i \in 1 .. n + 1, Tells(i, "removed", s)', node'[s].on
      PROVE  \E k \in i + 1 .. n + 1 : Tells(k, "added", s)'
  <2>1. x # [kind |-> "removed", sink |-> s]
    BY <1>6
  <2>2. i # end
    BY <1>4, <1>6, <2>1
  <2>3. i \in 1 .. n
    BY <1>0, <1>1, <2>2
  <2>4. CASE x = [kind |-> "added", sink |-> s]
    <3>1. end \in i + 1 .. n + 1
      BY <1>0, <1>1, <2>3
    <3>2. QED
      BY <1>4, <2>4, <3>1
  <2>5. CASE x # [kind |-> "added", sink |-> s]
    <3>1. node[s].on
      BY <1>6, <2>1, <2>5
    <3>2. PICK k \in i + 1 .. n : Tells(k, "added", s)
      BY <1>1, <1>3, <1>6, <2>3, <3>1 DEF Awaited
    <3>3. k \in 1 .. n /\ k \in i + 1 .. n + 1
      BY <1>1, <2>3
    <3>4. QED
      BY <1>3, <3>2, <3>3
  <2>6. QED
    BY <2>4, <2>5
<1>7. QED
  BY <1>2, <1>5, <1>6 DEF Awaited

LEMMA AwaitedRestarted ==
  ASSUME TypeOK, NEW t \in Sinks, signals' = Restarted(t), NEW s \in Sinks, Awaited(s),
         sinks' = sinks, node'[s].on = node[s].on
  PROVE  Awaited(s)'
<1> DEFINE n == Len(signals)
           Told2(i, k) == i \in 1 .. n /\ Tells(i, k, s)
<1>1. n \in Nat /\ DOMAIN signals = 1 .. n /\ Len(signals') = n + 2 /\ DOMAIN signals' = 1 .. n + 2
  BY RestartedTells, RestartedIs DEF TypeOK, OutsideTypes
<1>2. \A i \in 1 .. n + 2 : \A k \in {"added", "removed"} : Tells(i, k, s)' <=> Told2(i, k)
  BY RestartedTells
<1> HIDE DEF Told2
<1>3. \A i \in 1 .. n + 2 : \A k : Told2(i, k) <=> (i \in 1 .. n /\ Tells(i, k, s))
  BY DEF Told2
<1>4. ASSUME node'[s].on, s \notin sinks' PROVE Told("added", s)'
  <2>1. PICK i \in 1 .. n : Tells(i, "added", s)
    BY <1>1, <1>4 DEF Awaited, Told
  <2>2. i \in 1 .. n + 2
    BY <1>1
  <2>3. QED
    BY <1>1, <1>2, <1>3, <2>1, <2>2 DEF Told
<1>5. ASSUME NEW i \in 1 .. n + 2, Tells(i, "removed", s)', node'[s].on
      PROVE  \E k \in i + 1 .. n + 2 : Tells(k, "added", s)'
  <2>1. i \in 1 .. n /\ Tells(i, "removed", s)
    BY <1>2, <1>3, <1>5
  <2>2. PICK k \in i + 1 .. n : Tells(k, "added", s)
    BY <1>1, <1>5, <2>1 DEF Awaited
  <2>3. k \in 1 .. n /\ k \in 1 .. n + 2 /\ k \in i + 1 .. n + 2
    BY <1>1, <2>1
  <2>4. QED
    BY <1>2, <1>3, <2>2, <2>3
<1>6. QED
  BY <1>1, <1>4, <1>5 DEF Awaited

LEMMA KnownStep == TypeOK /\ SignalInv /\ KnownInv /\ [Next]_vars => KnownInv'
<1> SUFFICES ASSUME TypeOK, SignalInv, KnownInv, [Next]_vars,
                    main' = "run", ~Excused({"missed"})', NEW s \in Sinks
             PROVE  Awaited(s)'
  BY DEF KnownInv
<1>1. ~Restart
  BY DEF Restart, Begins
<1>2. ~Excused({"missed"}) /\ (main = "run" => Awaited(s))
  BY <1>1, CausesStay, NamesStay DEF KnownInv
<1>3. ASSUME main = "run", UNCHANGED <<signals, sinks>>, node'[s].on = node[s].on
      PROVE  Awaited(s)'
  BY <1>2, <1>3 DEF Awaited, Told, Tells
<1>4. Quiet => Awaited(s)'
  BY <1>3 DEF Quiet
<1>5. ListNames => Awaited(s)'
  BY DEF ListNames
<1>6. ASSUME Subscribe PROVE Awaited(s)'
  <2>1. UNCHANGED <<node, signals, sinks>> /\ sinks = OnBus /\ main # "run"
    BY <1>6, SubscribeDoes DEF Excused
  <2>2. \A i \in DOMAIN signals : ~Tells(i, "removed", s)
    BY <2>1 DEF SignalInv, Tells
  <2>3. QED
    BY <2>1, <2>2 DEF Awaited, Tells, OnBus
<1>7. ASSUME AddSink PROVE Awaited(s)'
  <2>1. PICK t \in Sinks :
          /\ main = "run" /\ signals # <<>> /\ signals' = Tail(signals) /\ node' = node
          /\ Tells(1, "added", t) /\ \A k, u : Tells(1, k, u) => k = "added" /\ u = t
          /\ \/ sinks' = sinks /\ (t \in sinks \/ ~node[t].on)
             \/ sinks' = sinks \union {t}
    BY <1>7, AddSinkDoes
  <2>2. Tells(1, "added", s) => (node[s].on => s \in sinks')
    BY <2>1
  <2>3. s \in sinks => s \in sinks'
    BY <2>1
  <2>4. QED
    BY <1>2, <2>1, <2>2, <2>3, AwaitedShorter
<1>8. ASSUME RemoveSink PROVE Awaited(s)'
  <2>1. PICK t \in Sinks :
          /\ main = "run" /\ signals # <<>> /\ signals' = Tail(signals) /\ node' = node
          /\ Tells(1, "removed", t) /\ \A k, u : Tells(1, k, u) => k = "removed" /\ u = t
          /\ sinks' = sinks \ {t}
    BY <1>8, RemoveSinkDoes
  <2>2. ~Tells(1, "added", s) /\ (~Tells(1, "removed", s) => s # t)
    BY <2>1
  <2>3. QED
    BY <1>2, <2>1, <2>2, AwaitedShorter
<1>9. ASSUME StackChanged PROVE Awaited(s)'
  <2>1. /\ main = "run" /\ signals # <<>> /\ signals' = Tail(signals)
        /\ \A k, u : Tells(1, k, u) => k = "stack"
        /\ UNCHANGED <<node, sinks>>
    BY <1>9, StackChangedDoes
  <2>2. QED
    BY <1>2, <2>1, AwaitedShorter
<1>10. ASSUME InitializeSink PROVE Awaited(s)'
  BY <1>3, <1>10, InitializeSinkDoes
<1>11. ASSUME Detect \/ Recover \/ \E t \in Sinks : SetCost(t) PROVE Awaited(s)'
  BY <1>3, <1>11, DetectDoes, RecoverDoes, SetCostDoes
<1>12. ASSUME NEW t \in Sinks, WriteStarted(t) \/ OperatorChanges(t) PROVE Awaited(s)'
  <2>1. UNCHANGED <<main, sinks>> /\ \A u \in Sinks : node'[u].on = node[u].on
    BY <1>12, WriteStartedDoes, OperatorChangesDoes
  <2>2. signals' = signals \/ signals' = Append(signals, [kind |-> "stack", sink |-> t])
    <3>1. signals' = signals \/ signals' = Signalled(t)
      BY <1>12 DEF WriteStarted, OperatorChanges
    <3>2. QED
      BY <3>1, SignalledDoes
  <2>3. QED
    BY <1>2, <1>3, <2>1, <2>2, AwaitedLonger
<1>13. ASSUME NEW t \in Sinks, ServiceChanges(t) PROVE Awaited(s)'
  <2>1. /\ UNCHANGED <<main, sinks>> /\ node'[t].on = ~node[t].on
        /\ \A u \in Sinks \ {t} : node'[u] = node[u]
    BY <1>13, ServiceChangesDoes
  <2>2. signals' = Append(signals, [kind |-> IF node[t].on THEN "removed" ELSE "added", sink |-> t])
    BY <1>13, <2>1 DEF ServiceChanges, Notified
  <2>3. CASE node[t].on
    <3>1. signals' = Append(signals, [kind |-> "removed", sink |-> t]) /\ ~node'[t].on
      BY <2>1, <2>2, <2>3
    <3>2. QED
      BY <1>2, <2>1, <3>1, AwaitedLonger
  <2>4. CASE ~node[t].on
    <3>1. signals' = Append(signals, [kind |-> "added", sink |-> t])
      BY <2>2, <2>4
    <3>2. QED
      BY <1>2, <2>1, <3>1, AwaitedLonger
  <2>5. QED
    BY <2>3, <2>4
<1>15. ASSUME NEW t \in Sinks, RoleChanges(t) PROVE Awaited(s)'
  <2>1. UNCHANGED <<node, main, sinks>> /\ signals' \in {signals, Restarted(t)}
    BY <1>15, RoleChangesDoes
  <2>2. CASE signals' = signals
    BY <1>3, <2>1, <2>2
  <2>3. CASE signals' = Restarted(t)
    BY <1>2, <2>1, <2>3, AwaitedRestarted
  <2>4. QED
    BY <2>1, <2>2, <2>3
<1>14. QED
  BY <1>1, <1>4, <1>5, <1>6, <1>7, <1>8, <1>9, <1>10, <1>11, <1>12, <1>13, <1>15, QuietSteps
     DEF Next, Main, Updater, Setters, Glib, Monitor, MqttWrapper, Outside

(* A removal of a known sink is told until its handler is at work; where    *)
(* that finds another sink gone, that one is told to have gone too.         *)
LEMMA GoneIsTold ==
  ASSUME SignalInv, main = "run", ~Excused({"missed"}), NEW s \in Sinks, s \in sinks, ~node[s].on
  PROVE  Told("removed", s)
  BY DEF SignalInv, Alternates, Told

LEMMA ReportingStays ==
  ASSUME TypeOK, SignalInv, main = "run", ~Excused({"missed"}), Reporting,
         Others
  PROVE  Reporting'
<1>1. ASSUME UNCHANGED <<sinks, glib>>, signals' = signals \/ Grows
      PROVE  Reporting'
  <2>1. ASSUME NEW s \in sinks, Told("removed", s) PROVE RemovalTold'
    <3>0. Grows
      BY <1>1 DEF Grows
    <3>1. s \in Sinks /\ s \in sinks'
      BY <1>1 DEF TypeOK, SinkTypes
    <3>2. Told("removed", s)'
      BY <2>1, <3>0, <3>1, ToldStays
    <3>3. QED
      BY <3>1, <3>2 DEF RemovalTold
  <2>2. QED
    BY <1>1, <2>1 DEF Reporting, RemovalTold
<1>2. ASSUME glib.pc # "count", signals # <<>>, signals' = Tail(signals), sinks \subseteq sinks',
             \A s : ~Tells(1, "removed", s)
      PROVE  Reporting'
  <2>1. PICK s \in sinks : Told("removed", s)
    BY <1>2 DEF Reporting, RemovalTold
  <2>2. s \in Sinks /\ s \in sinks'
    BY <1>2 DEF TypeOK, SinkTypes
  <2>3. Told("removed", s)'
    BY <1>2, <2>1, <2>2, ToldStays
  <2>4. QED
    BY <2>2, <2>3 DEF Reporting, RemovalTold
<1>3. Main => Reporting'
  BY DEF Main, ListNames, Subscribe
<1>4. Receiver \/ UNCHANGED vars => Reporting'
  BY <1>1 DEF Receiver, DataReceived, CountData, vars, outside
<1>5. Detect \/ Recover => Reporting'
  BY <1>1, DetectDoes, RecoverDoes
<1>6. ASSUME NEW s \in Sinks, SetCost(s) PROVE Reporting'
  BY <1>1, <1>6, SetCostDoes
<1>7. ASSUME NEW s \in Sinks, WriteStarted(s) PROVE Reporting'
  <2>1. Grows
    BY <1>7, SignalledDoes, GrowsWhen DEF WriteStarted
  <2>2. QED
    BY <1>1, <1>7, <2>1, WriteStartedDoes
<1>8. ASSUME NEW s \in Sinks, ServiceChanges(s) \/ OperatorChanges(s) \/ RoleChanges(s)
      PROVE  Reporting'
  BY <1>1, <1>8, ServiceChangesDoes, OperatorChangesDoes, RoleChangesDoes
<1>9. ASSUME AddSink PROVE Reporting'
  <2>1. /\ glib.pc = "idle" /\ signals # <<>> /\ signals' = Tail(signals)
        /\ \A s : ~Tells(1, "removed", s)
        /\ sinks \subseteq sinks'
    BY <1>9, AddSinkDoes
  <2>2. QED
    BY <1>2, <2>1
<1>10. ASSUME StackChanged PROVE Reporting'
  <2>1. /\ glib.pc = "idle" /\ signals # <<>> /\ signals' = Tail(signals)
        /\ \A s : ~Tells(1, "removed", s)
        /\ sinks \subseteq sinks'
    BY <1>10, StackChangedDoes
  <2>2. QED
    BY <1>2, <2>1
<1>11. ASSUME InitializeSink PROVE Reporting'
  <2>1. glib.pc # "count" /\ UNCHANGED <<signals, sinks>>
    BY <1>11, InitializeSinkDoes DEF Preparing
  <2>2. QED
    BY <2>1 DEF Reporting, RemovalTold, Told, Tells
<1>12. ASSUME RemoveSink PROVE Reporting'
  <2>1. PICK s \in Sinks :
          /\ glib.pc = "idle" /\ signals # <<>> /\ signals' = Tail(signals)
          /\ \A k, t : Tells(1, k, t) => k = "removed" /\ t = s
          /\ sinks' = sinks \ {s} /\ Head(signals).sink = s
    <3>1. Head(signals).sink \in Sinks
      BY <1>12, SignalType DEF RemoveSink
    <3>2. QED
      BY <1>12, <3>1, HeadIsTold DEF RemoveSink
  <2>2. ASSUME NEW t \in sinks \ {s}, Told("removed", t) PROVE Reporting'
    <3>1. t \in Sinks /\ t \in sinks' /\ ~Tells(1, "removed", t)
      BY <2>1 DEF TypeOK, SinkTypes
    <3>2. Told("removed", t)'
      BY <2>1, <2>2, <3>1, ToldStays
    <3>3. QED
      BY <3>1, <3>2 DEF Reporting, RemovalTold
  <2>3. CASE s \in sinks
    <3>1. Responds(sinks \ {s}) /\ sinks \ {s} \in SUBSET Sinks
      BY <1>12, <2>1, <2>3 DEF RemoveSink, TypeOK, SinkTypes
    <3>2. CASE glib'.pc = "count"
      BY <3>2 DEF Reporting
    <3>3. ASSUME NEW t \in sinks \ {s}, ~node[t].on PROVE Reporting'
      <4>1. t \in Sinks /\ t \in sinks
        BY DEF TypeOK, SinkTypes
      <4>2. Told("removed", t)
        BY <3>3, <4>1, GoneIsTold
      <4>3. QED
        BY <2>2, <4>2
    <3>4. QED
      BY <3>1, <3>2, <3>3, RespondsDoes
  <2>4. CASE s \notin sinks
    BY <2>1, <2>2, <2>4 DEF Reporting, RemovalTold
  <2>5. QED
    BY <2>3, <2>4
<1>13. QED
  BY <1>3, <1>4, <1>5, <1>6, <1>7, <1>8, <1>9, <1>10, <1>11, <1>12
     DEF Others, Monitor

LEMMA OnlineStep ==
  TypeOK /\ SignalInv /\ SetterInv /\ OnlineInv /\ [Next]_vars => OnlineInv'
<1> DEFINE Active == \E t \in Setters : setter[t].pc \in {"read", "publish", "count"}
<1> SUFFICES ASSUME TypeOK, SignalInv, SetterInv, OnlineInv, [Next]_vars,
                    main' = "run", link', ~Excused({"missed", "crossed_status"})'
             PROVE  /\ Announced'
                    /\ (last # None \/ Reporting \/ setter["updater"].pc = "raised" \/ Active)'
  BY DEF OnlineInv
<1>1. ~Restart
  BY DEF Restart, Begins
<1>2. /\ ~Excused({"missed", "crossed_status"}) /\ ~Excused({"missed"})
      /\ "crossed_status" \notin causes'
  BY <1>1, CausesStay, NamesStay DEF Excused
<1>3. link => main = "run" /\ Announced
                /\ (last # None \/ Reporting \/ setter["updater"].pc = "raised" \/ Active)
  BY <1>2 DEF OnlineInv, SetterInv
<1> DEFINE Goal == /\ Announced'
                   /\ (last # None \/ Reporting \/ setter["updater"].pc = "raised" \/ Active)'
<1>4. ASSUME Others
      PROVE  Goal
  <2>1. Neutral
    BY <1>4, NeutralSteps
  <2>2. main = "run" /\ link
    BY <1>3, <2>1 DEF Neutral
  <2>3. Announced'
    BY <1>3, <2>1, <2>2, NothingOvertakes DEF Neutral, Announced
  <2>4. Reporting => Reporting'
    BY <1>2, <1>4, <2>2, ReportingStays
  <2>5. QED
    BY <1>3, <2>1, <2>2, <2>3, <2>4 DEF Neutral
<1>5. ASSUME NEW t \in Setters, ReadConfigs(t) PROVE Goal
  <2>1. /\ setter[t].pc = "read" /\ \A o \in Setters \ {t} : setter'[o] = setter[o]
        /\ UNCHANGED <<signals, link, retained, main, sinks, queue, last>>
        /\ \/ /\ \E s \in sinks : ~node[s].on
              /\ setter'[t].pc = IF t = "wrapper" THEN "idle" ELSE "raised"
           \/ setter'[t].pc = "publish"
    BY <1>5, ReadConfigsDoes
  <2>2. main = "run" /\ link
    BY <1>3, <2>1
  <2>3. Announced'
    BY <1>3, <2>1, <2>2 DEF Announced, StatusQueued
  <2>4. CASE setter'[t].pc = "publish"
    BY <2>3, <2>4
  <2>5. CASE setter'[t].pc = "raised" /\ t = "updater"
    BY <2>3, <2>5
  <2>6. ASSUME NEW s \in sinks, ~node[s].on PROVE Goal
    <3>1. s \in Sinks /\ s \in sinks'
      BY <2>1 DEF TypeOK, SinkTypes
    <3>2. Told("removed", s)
      BY <1>2, <2>2, <2>6, <3>1, GoneIsTold
    <3>3. Told("removed", s)'
      BY <2>1, <3>2 DEF Told, Tells
    <3>4. QED
      BY <2>3, <3>1, <3>3 DEF Reporting, RemovalTold
  <2>7. QED
    BY <2>1, <2>4, <2>5, <2>6 DEF Setters
<1>6. ASSUME NEW t \in Setters, PublishStatus(t) PROVE Goal
  <2>1. /\ setter[t].pc = "publish" /\ \A o \in Setters \ {t} : setter'[o] = setter[o]
        /\ UNCHANGED <<link, retained, main, last>> /\ setter[t].configs # None
        /\ \/ last = setter[t].configs /\ queue' = queue /\ setter'[t].pc = "idle"
           \/ queue' = Append(queue, setter[t].configs) /\ setter'[t].pc = "count"
    BY <1>6, PublishStatusDoes, GatewayAssumption DEF SetterInv, Holds
  <2>2. CASE last = setter[t].configs /\ queue' = queue /\ setter'[t].pc = "idle"
    BY <1>3, <2>1, <2>2 DEF Announced, StatusQueued
  <2>3. CASE queue' = Append(queue, setter[t].configs) /\ setter'[t].pc = "count"
    <3>1. StatusQueued'
      BY <2>1, <2>3, PutIsLatest
    <3>2. QED
      BY <2>3, <3>1 DEF Announced
  <2>4. QED
    BY <2>1, <2>2, <2>3
<1>7. ASSUME NEW t \in Setters, CountStatus(t) PROVE Goal
  <2>1. /\ setter[t].pc = "count" /\ setter[t].configs # None
        /\ UNCHANGED <<link, retained, main, queue>> /\ last' = setter[t].configs
    BY <1>7, CountStatusDoes, GatewayAssumption DEF SetterInv, Holds
  <2>2. QED
    BY <1>3, <2>1 DEF Announced, StatusQueued
<1>8. ASSUME Connect PROVE Goal
  <2>1. /\ last' = None /\ setter'["updater"] = setter["updater"]
        /\ setter'["wrapper"].pc = "read" /\ setter["updater"].pc # "count"
    BY <1>2, <1>8, ConnectDoes
  <2>2. QED
    BY <2>1 DEF Announced, Setters
<1>9. ASSUME CountResponse PROVE Goal
  <2>1. /\ setter'["wrapper"] = setter["wrapper"]
        /\ UNCHANGED <<link, retained, main, queue, last>>
        /\ (scheduled /\ setter' = setter) \/ setter'["updater"].pc = "read"
    BY <1>9, CountResponseDoes
  <2>2. Announced'
    BY <1>3, <2>1 DEF Announced, StatusQueued, Setters
  <2>3. CASE scheduled /\ setter' = setter
    <3>1. setter["updater"].pc # "idle" /\ setter["updater"] \in SetterStates
      BY <2>3 DEF SetterInv, TypeOK, PublishTypes, Setters
    <3>2. QED
      BY <2>2, <2>3, <3>1 DEF SetterStates, Setters
  <2>4. CASE setter'["updater"].pc = "read"
    BY <2>2, <2>4 DEF Setters
  <2>5. QED
    BY <2>1, <2>3, <2>4
<1>10. ASSUME OnPublish PROVE Goal
  <2>1. UNCHANGED <<setter, last, link, main, glib, signals, sinks>>
    BY <1>10 DEF OnPublish, status
  <2>2. Announced'
    BY <1>3, <1>10, <2>1, PublishedIsLatest DEF Announced
  <2>3. Reporting => Reporting'
    BY <2>1 DEF Reporting, RemovalTold, Told, Tells
  <2>4. QED
    BY <1>3, <2>1, <2>2, <2>3
<1>11. ~Disconnect
  BY DEF Disconnect
<1>12. QED
  BY <1>1, <1>4, <1>5, <1>6, <1>7, <1>8, <1>9, <1>10, <1>11
     DEF Others, Next, Updater, Setter, Setters, Glib, MqttWrapper, Outside

(* What was read of the sinks is right, or what changed since is told.      *)
LEMMA FreshNow == ASSUME TypeOK PROVE Fresh(Configs({}))
<1>1. Configs({}) = {<<s, State(s)>> : s \in sinks}
  BY DEF Configs
<1>2. \A p \in Configs({}) : p[1] \in sinks /\ p[2] = State(p[1])
  BY <1>1
<1>3. ASSUME NEW s \in sinks PROVE \E p \in Configs({}) : p[1] = s
  <2>1. <<s, State(s)>> \in Configs({}) /\ <<s, State(s)>>[1] = s
    BY <1>1
  <2>2. QED
    BY <2>1
<1>4. QED
  BY <1>2, <1>3 DEF Fresh

LEMMA FreshFrame ==
  ASSUME NEW v, Fresh(v), sinks' = sinks,
         \A s \in sinks : node'[s].started = node[s].started \/ Told("stack", s)',
         \A s \in sinks : Told("stack", s) => Told("stack", s)'
  PROVE  Fresh(v)'
<1>1. \A s \in sinks : State(s)' = State(s) \/ Told("stack", s)'
  BY DEF State
<1>2. QED
  BY <1>1 DEF Fresh

(* The stack of a known sink changes with a signal, but for a lost confirm. *)
LEMMA StackIsTold ==
  ASSUME TypeOK, Others, ~InitializeSink, NEW s \in Sinks, s \in sinks
  PROVE  node'[s].started = node[s].started \/ Told("stack", s)' \/ "unsignalled" \in causes'
<1> USE DEF outside
<1>1. CASE node' = node
  BY <1>1
<1>2. Main \/ Receiver \/ Detect \/ Recover \/ AddSink \/ RemoveSink \/ StackChanged \/ UNCHANGED vars
        => node' = node
  BY DEF Main, ListNames, Subscribe, Receiver, DataReceived, CountData, Detect, Recover, AddSink,
         RemoveSink, StackChanged, vars
<1>3. ASSUME NEW t \in Sinks, SetCost(t) \/ ServiceChanges(t) \/ RoleChanges(t)
      PROVE  node'[s].started = node[s].started
  BY <1>3, SetCostDoes, RoleChangesDoes DEF ServiceChanges, TypeOK, OutsideTypes
<1>4. ASSUME NEW t \in Sinks, WriteStarted(t) \/ OperatorChanges(t)
      PROVE  \/ node'[s].started = node[s].started \/ Told("stack", s)'
             \/ "unsignalled" \in causes'
  <2>1. /\ \A u \in Sinks \ {t} : node'[u] = node[u]
        /\ \/ node'[t].started = node[t].started \/ signals' = Signalled(t)
           \/ "unsignalled" \in causes'
    BY <1>4 DEF WriteStarted, OperatorChanges, Blame, TypeOK, OutsideTypes
  <2>2. CASE s = t /\ signals' = Signalled(t)
    <3>1. signals' = Append(signals, [kind |-> "stack", sink |-> s])
      BY <2>2 DEF Signalled
    <3>2. QED
      BY <3>1, ToldNow
  <2>3. QED
    BY <2>1, <2>2
<1>5. QED
  BY <1>1, <1>2, <1>3, <1>4 DEF Others, Monitor

(* A change of the sinks that is still to be read. *)
LEMMA DueStays ==
  ASSUME TypeOK, SignalInv, main = "run", ~Excused({"missed"}), "refused" \notin causes',
         Others, Due
  PROVE  Due'
<1>1. setter' = setter
  BY NeutralSteps DEF Neutral
<1>2. Reporting => Due'
  BY ReportingStays DEF Reporting, Due
<1>3. ASSUME glib.pc = "set" PROVE Due'
  <2>1. CASE InitializeSink
    <3>1. /\ UNCHANGED <<signals, sinks>>
      BY <2>1, InitializeSinkDoes
    <3>2. Responds(sinks) /\ sinks \in SUBSET Sinks
      BY <2>1 DEF InitializeSink, Initializes, Blame, TypeOK, SinkTypes
    <3>3. ASSUME NEW s \in sinks, ~node[s].on PROVE Due'
      <4>1. s \in Sinks /\ Told("removed", s)
        BY <3>3, GoneIsTold DEF TypeOK, SinkTypes
      <4>2. QED
        BY <3>1, <4>1 DEF Due, RemovalTold, Told, Tells
    <3>4. QED
      BY <3>2, <3>3, RespondsDoes DEF Due
  <2>2. CASE ~InitializeSink
    <3>1. glib' = glib
      BY <1>3, <2>2 DEF Others, Main, ListNames, Subscribe, Receiver, DataReceived, CountData,
           Monitor, Detect, Recover, SetCost, WriteStarted, MonitorOnly, AddSink, RemoveSink,
           StackChanged, Handling, ServiceChanges, OperatorChanges, RoleChanges, OutsideOnly, vars
    <3>2. QED
      BY <1>3, <3>1 DEF Due
  <2>3. QED
    BY <2>1, <2>2
<1>4. QED
  BY <1>1, <1>2, <1>3 DEF Due, Reporting

LEMMA FreshStays ==
  ASSUME TypeOK, SignalInv, main = "run", ~Excused({"missed"}), "refused" \notin causes',
         "unsignalled" \notin causes', Others, NEW v, Fresh(v)
  PROVE  Fresh(v)' \/ Due'
<1>1. ASSUME sinks' = sinks, ~InitializeSink,
             \A s \in sinks : Told("stack", s) => Told("stack", s)'
      PROVE  Fresh(v)'
  <2>1. \A s \in sinks : node'[s].started = node[s].started \/ Told("stack", s)'
    BY <1>1, StackIsTold DEF TypeOK, SinkTypes
  <2>2. QED
    BY <1>1, <2>1, FreshFrame
<1>2. ASSUME ~InitializeSink, sinks' = sinks, signals' = signals \/ Grows
      PROVE  Fresh(v)'
  <2>1. Grows
    BY <1>2 DEF Grows
  <2>2. QED
    BY <1>1, <1>2, <2>1, ToldStays DEF TypeOK, SinkTypes
<1>3. CASE InitializeSink
  <2>1. Due
    BY <1>3 DEF InitializeSink, Initializes, Due
  <2>2. QED
    BY <2>1, DueStays
<1>4. ASSUME AddSink, ~InitializeSink PROVE Fresh(v)' \/ Due'
  <2>1. /\ signals # <<>> /\ signals' = Tail(signals) /\ \A s : ~Tells(1, "stack", s)
        /\ sinks' = sinks \/ glib'.pc = "set"
    BY <1>4, AddSinkDoes
  <2>2. CASE sinks' = sinks
    BY <1>1, <1>4, <2>1, <2>2, ToldStays DEF TypeOK, SinkTypes
  <2>3. CASE glib'.pc = "set"
    BY <2>3 DEF Due
  <2>4. QED
    BY <2>1, <2>2, <2>3
<1>5. ASSUME RemoveSink, ~InitializeSink PROVE Fresh(v)' \/ Due'
  <2>1. PICK t \in Sinks :
          /\ signals # <<>> /\ signals' = Tail(signals) /\ sinks' = sinks \ {t}
          /\ Tells(1, "removed", t) /\ \A k, u : Tells(1, k, u) => k = "removed" /\ u = t
    BY <1>5, RemoveSinkDoes
  <2>2. CASE t \in sinks
    <3>1. 1 \in DOMAIN signals
      BY <2>1 DEF TypeOK, OutsideTypes
    <3>2. Reporting
      BY <2>1, <2>2, <3>1 DEF Reporting, RemovalTold, Told
    <3>3. QED
      BY <3>2, ReportingStays DEF Reporting, Due
  <2>3. CASE t \notin sinks
    <3>1. sinks' = sinks /\ \A s : ~Tells(1, "stack", s)
      BY <2>1, <2>3
    <3>2. QED
      BY <1>1, <1>5, <2>1, <3>1, ToldStays DEF TypeOK, SinkTypes
  <2>4. QED
    BY <2>2, <2>3
<1>6. ASSUME StackChanged, ~InitializeSink PROVE Fresh(v)' \/ Due'
  <2>1. PICK t \in Sinks : t = Head(signals).sink
    BY <1>6, SignalType DEF StackChanged
  <2>2. /\ signals # <<>> /\ signals' = Tail(signals) /\ sinks' = sinks
        /\ \A k, u : Tells(1, k, u) => k = "stack" /\ u = t
    BY <1>6, <2>1, HeadIsTold DEF StackChanged
  <2>3. CASE t \in sinks
    <3>1. Responds({t}) /\ {t} \in SUBSET Sinks
      BY <1>6, <2>1, <2>3 DEF StackChanged
    <3>2. ASSUME ~node[t].on PROVE Due'
      <4>1. Told("removed", t)
        BY <2>3, <3>2, GoneIsTold
      <4>2. Told("removed", t)'
        BY <2>2, <4>1, ToldStays
      <4>3. QED
        BY <2>2, <2>3, <4>2 DEF Due, RemovalTold
    <3>3. QED
      BY <3>1, <3>2, RespondsDoes DEF Due
  <2>4. CASE t \notin sinks
    <3>1. \A s \in sinks : ~Tells(1, "stack", s)
      BY <2>2, <2>4
    <3>2. QED
      BY <1>1, <1>6, <2>2, <3>1, ToldStays DEF TypeOK, SinkTypes
  <2>5. QED
    BY <2>3, <2>4
<1>7. ASSUME ~InitializeSink,
             \/ Main \/ Receiver \/ Monitor \/ UNCHANGED vars
             \/ \E s \in Sinks : ServiceChanges(s) \/ OperatorChanges(s) \/ RoleChanges(s)
      PROVE  Fresh(v)' \/ Due'
  <2>1. Main => sinks' = sinks /\ signals' = signals
    BY DEF Main, ListNames, Subscribe, outside
  <2>2. Receiver \/ UNCHANGED vars => sinks' = sinks /\ signals' = signals
    BY DEF Receiver, DataReceived, CountData, vars, outside
  <2>3. Detect \/ Recover => sinks' = sinks /\ signals' = signals
    BY DetectDoes, RecoverDoes
  <2>4. ASSUME NEW s \in Sinks, SetCost(s) \/ WriteStarted(s)
        PROVE  sinks' = sinks /\ Grows
    <3>1. CASE SetCost(s)
      BY <3>1, SetCostDoes, GrowsWhen
    <3>2. CASE WriteStarted(s)
      <4>1. Grows
        BY <3>2, SignalledDoes, GrowsWhen DEF WriteStarted
      <4>2. QED
        BY <3>2, <4>1, WriteStartedDoes
    <3>3. QED
      BY <2>4, <3>1, <3>2
  <2>5. ASSUME NEW s \in Sinks, ServiceChanges(s) \/ OperatorChanges(s) \/ RoleChanges(s)
        PROVE  sinks' = sinks /\ Grows
    BY <2>5, ServiceChangesDoes, OperatorChangesDoes, RoleChangesDoes
  <2>6. QED
    BY <1>2, <1>7, <2>1, <2>2, <2>3, <2>4, <2>5 DEF Monitor
<1>8. QED
  BY <1>3, <1>4, <1>5, <1>6, <1>7 DEF Others

LEMMA FreshStep ==
  TypeOK /\ CountInv /\ SignalInv /\ SetterInv /\ SerialInv /\ FreshInv /\ [Next]_vars => FreshInv'
<1> DEFINE Content ==
      IF Holds("updater") THEN Due \/ setter["updater"].partial \/ Fresh(setter["updater"].configs)
      ELSE IF Holds("wrapper") THEN Due \/ Fresh(setter["wrapper"].configs)
      ELSE Due \/ ~link \/ setter["wrapper"].pc = "read" \/ (last # None /\ Fresh(last))
<1> SUFFICES ASSUME TypeOK, CountInv, SignalInv, SetterInv, SerialInv, FreshInv, [Next]_vars,
                    main' = "run", ~Excused(Excuses)', setter'["updater"].pc # "raised"
             PROVE  Content'
  BY DEF FreshInv
<1>1. ~Restart
  BY DEF Restart, Begins
<1>2. /\ ~Excused(Excuses) /\ ~Excused({"missed"})
      /\ \A name \in Excuses : name \notin causes'
  BY <1>1, CausesStay, NamesStay DEF Excused, Excuses
<1>3. main = "run" /\ setter["updater"].pc # "raised" => Content
  BY <1>2 DEF FreshInv
<1>4. ASSUME UNCHANGED <<node, signals, sinks>> PROVE \A v : Fresh(v) => Fresh(v)'
  BY <1>4 DEF Fresh, State, Told, Tells
<1>5. ASSUME UNCHANGED <<glib, signals, sinks>>, Due, setter["updater"].pc # "read" PROVE Due'
  BY <1>5 DEF Due, RemovalTold, Told, Tells
<1>6. ASSUME NEW v, Fresh(v)'
      PROVE  /\ setter'["updater"].configs = v => (Fresh(setter["updater"].configs))'
             /\ setter'["wrapper"].configs = v => (Fresh(setter["wrapper"].configs))'
             /\ last' = v => (Fresh(last))'
  BY <1>6 DEF Fresh
<1>7. ASSUME Others PROVE Content'
  <2>1. Neutral
    BY <1>7, NeutralSteps
  <2>2. CASE main # "run"
    <3>1. ~link' /\ \A t \in Setters : setter'[t].pc = "idle"
      BY <2>1, <2>2 DEF Neutral, SetterInv
    <3>2. QED
      BY <3>1 DEF Holds, Setters
  <2>3. CASE main = "run"
    <3>1. /\ Content /\ "refused" \notin causes' /\ "unsignalled" \notin causes'
          /\ UNCHANGED <<setter, last, link>>
      BY <1>2, <1>3, <2>1, <2>3 DEF Neutral, Excuses
    <3>2. Due => Due'
      BY <1>2, <1>7, <2>3, <3>1, DueStays
    <3>3. \A v : Fresh(v) => Fresh(v)' \/ Due'
      BY <1>2, <1>7, <2>3, <3>1, FreshStays
    <3>4. /\ Fresh(setter["updater"].configs) => (Fresh(setter["updater"].configs))' \/ Due'
          /\ Fresh(setter["wrapper"].configs) => (Fresh(setter["wrapper"].configs))' \/ Due'
          /\ Fresh(last) => (Fresh(last))' \/ Due'
      <4>1. PICK u, w, l : u = setter["updater"].configs /\ w = setter["wrapper"].configs /\ l = last
        OBVIOUS
      <4>2. (Fresh(u) => Fresh(u)' \/ Due') /\ (Fresh(w) => Fresh(w)' \/ Due')
            /\ (Fresh(l) => Fresh(l)' \/ Due')
        BY <3>3
      <4>3. QED
        BY <1>6, <3>1, <4>1, <4>2
    <3>5. QED
      BY <3>1, <3>2, <3>4 DEF Holds
  <2>4. QED
    BY <2>2, <2>3
<1>8. ASSUME NEW t \in Setters, ReadConfigs(t) PROVE Content'
  <2>1. /\ setter[t].pc = "read" /\ \A o \in Setters \ {t} : setter'[o] = setter[o]
        /\ UNCHANGED <<node, signals, link, main, sinks, glib, last>>
        /\ \/ /\ \E s \in sinks : ~node[s].on
              /\ setter'[t].pc = IF t = "wrapper" THEN "idle" ELSE "raised"
           \/ /\ setter'[t].pc = "publish"
              /\ setter'[t].configs = Configs({}) \/ (t = "updater" /\ setter'[t].partial)
    BY <1>2, <1>8, ReadConfigsDoes DEF Excuses
  <2>2. main = "run"
    BY <2>1
  <2>3. setter'[t].configs = Configs({}) =>
          /\ t = "updater" => (Fresh(setter["updater"].configs))'
          /\ t = "wrapper" => (Fresh(setter["wrapper"].configs))'
    <3>1. PICK v : v = Configs({})
      OBVIOUS
    <3>2. Fresh(v)'
      BY <1>4, <2>1, <3>1, FreshNow
    <3>3. QED
      BY <1>6, <3>1, <3>2
  <2>4. CASE t = "updater"
    BY <2>1, <2>3, <2>4 DEF Holds
  <2>5. CASE t = "wrapper"
    <3>1. setter'["updater"] = setter["updater"] /\ Content /\ ~Holds("wrapper")
      BY <1>3, <2>1, <2>2, <2>5 DEF Setters, Holds
    <3>2. Due => Due'
      BY <2>1, <3>1 DEF Due, RemovalTold, Told, Tells
    <3>3. CASE Holds("updater")
      <4>1. PICK v : v = setter["updater"].configs
        OBVIOUS
      <4>2. Fresh(v) => Fresh(v)'
        BY <1>4, <2>1
      <4>3. QED
        BY <1>6, <3>1, <3>2, <3>3, <4>1, <4>2 DEF Holds
    <3>4. CASE ~Holds("updater") /\ setter'[t].pc = "publish"
      BY <2>1, <2>3, <2>5, <3>1, <3>4 DEF Holds
    <3>5. ASSUME NEW s \in sinks, ~node[s].on PROVE Content'
      <4>1. s \in Sinks /\ Told("removed", s)
        BY <1>2, <2>2, <3>5, GoneIsTold DEF TypeOK, SinkTypes
      <4>2. Due'
        BY <2>1, <4>1 DEF Due, RemovalTold, Told, Tells
      <4>3. QED
        BY <3>1, <3>3, <4>2
    <3>6. QED
      BY <2>1, <3>3, <3>4, <3>5
  <2>6. QED
    BY <2>4, <2>5 DEF Setters
<1>9. ASSUME NEW t \in Setters, PublishStatus(t) PROVE Content'
  <2>1. /\ setter[t].pc = "publish" /\ \A o \in Setters \ {t} : setter'[o] = setter[o]
        /\ UNCHANGED <<node, signals, link, main, sinks, glib, last>>
        /\ setter[t].configs # None
        /\ \/ /\ last = setter[t].configs /\ setter'[t].pc = "idle" /\ ~setter[t].partial
           \/ /\ setter'[t].pc = "count" /\ setter'[t].configs = setter[t].configs
              /\ setter'[t].partial = setter[t].partial /\ Crossed(t)
    BY <1>2, <1>9, PublishStatusDoes, GatewayAssumption DEF Excuses, SetterInv, Holds
  <2>3. main = "run"
    BY <2>1
  <2>4. \A v : Fresh(v) => Fresh(v)'
    BY <1>4, <2>1
  <2>5. PICK v : v = setter[t].configs
    OBVIOUS
  <2>6. CASE t = "updater"
    <3>1. Content /\ (Due => Due')
      BY <1>3, <1>5, <2>1, <2>3, <2>6
    <3>2. Due' \/ setter["updater"].partial \/ Fresh(v)'
      BY <2>1, <2>4, <2>5, <2>6, <3>1 DEF Holds
    <3>3. CASE setter'[t].pc = "count"
      BY <1>6, <2>1, <2>5, <2>6, <3>2, <3>3 DEF Holds
    <3>4. CASE setter'[t].pc = "idle" /\ last = setter[t].configs
      <4>1. setter["wrapper"].pc = "idle" /\ setter'["wrapper"] = setter["wrapper"]
        BY <1>2, <2>1, <2>6, <3>4 DEF SerialInv, Setters
      <4>2. last' = v /\ last' # None
        BY <2>1, <2>5, <3>4
      <4>3. QED
        BY <1>6, <2>1, <2>6, <3>2, <3>4, <4>1, <4>2 DEF Holds
    <3>5. QED
      BY <2>1, <3>3, <3>4
  <2>7. CASE t = "wrapper"
    <3>1. /\ setter'["updater"] = setter["updater"] /\ setter'[t].pc = "count"
          /\ setter'[t].configs = setter[t].configs /\ ~Holds("updater")
      BY <1>2, <2>1, <2>7 DEF SerialInv, Setters, Crossed, Excuses
    <3>2. Due \/ Fresh(v)
      BY <1>3, <2>1, <2>3, <2>5, <2>7, <3>1 DEF Holds
    <3>3. Due => Due'
      BY <2>1, <3>1 DEF Due, RemovalTold, Told, Tells
    <3>4. QED
      BY <1>6, <2>4, <2>5, <2>7, <3>1, <3>2, <3>3 DEF Holds
  <2>8. QED
    BY <2>6, <2>7 DEF Setters
<1>10. ASSUME NEW t \in Setters, CountStatus(t) PROVE Content'
  <2>1. /\ setter[t].pc = "count" /\ \A o \in Setters \ {t} : setter'[o] = setter[o] /\ ~Holds(o)
        /\ UNCHANGED <<node, signals, link, main, sinks, glib>>
        /\ last' = setter[t].configs /\ setter[t].configs # None
        /\ \/ t = "updater" /\ setter'[t].pc = "read"
           \/ setter'[t].pc = "idle" /\ ~(t = "updater" /\ setter[t].partial)
    BY <1>2, <1>10, CountStatusDoes, GatewayAssumption DEF Excuses, SetterInv, Holds, Crossed
  <2>2. main = "run" /\ setter["updater"].pc # "raised"
    BY <2>1 DEF Setters
  <2>3. PICK v : v = setter[t].configs
    OBVIOUS
  <2>4. Fresh(v) => Fresh(v)'
    BY <1>4, <2>1
  <2>5. CASE setter'[t].pc = "read" /\ t = "updater"
    BY <2>5 DEF Due, Holds
  <2>6. CASE setter'[t].pc = "idle" /\ ~(t = "updater" /\ setter[t].partial)
    <3>1. Due \/ Fresh(v)
      BY <1>3, <2>1, <2>2, <2>3, <2>6 DEF Setters, Holds
    <3>2. Due => Due'
      <4>1. setter["updater"].pc # "read" \/ setter'["updater"].pc = "read"
        BY <2>1 DEF Setters
      <4>2. QED
        BY <2>1, <4>1 DEF Due, RemovalTold, Told, Tells
    <3>3. ~Holds("updater")' /\ ~Holds("wrapper")'
      BY <2>1, <2>6 DEF Setters, Holds
    <3>4. QED
      BY <1>6, <2>1, <2>3, <2>4, <3>1, <3>2, <3>3
  <2>7. QED
    BY <2>1, <2>5, <2>6
<1>11. ASSUME Connect PROVE Content'
  <2>1. /\ main = "run" /\ setter'["updater"] = setter["updater"]
        /\ setter'["wrapper"].pc = "read"
        /\ UNCHANGED <<node, signals, sinks, glib>>
    BY <1>11, ConnectDoes
  <2>2. Due => Due'
    BY <2>1 DEF Due, RemovalTold, Told, Tells
  <2>3. PICK v : v = setter["updater"].configs
    OBVIOUS
  <2>4. Fresh(v) => Fresh(v)'
    BY <1>4, <2>1
  <2>5. QED
    BY <1>3, <1>6, <2>1, <2>2, <2>3, <2>4 DEF Holds
<1>12. ASSUME CountResponse PROVE Content'
  <2>1. /\ UNCHANGED <<node, signals, main, sinks>>
        /\ \/ /\ scheduled /\ setter' = setter
              /\ setter["updater"].configs \in {None, Configs({})}
           \/ setter'["updater"].pc = "read"
    BY <1>2, <1>12, CountResponseDoes DEF Excuses
  <2>2. CASE setter'["updater"].pc = "read"
    BY <2>2 DEF Due, Holds
  <2>3. CASE /\ scheduled /\ setter' = setter /\ setter["updater"].pc # "read"
             /\ setter["updater"].configs \in {None, Configs({})}
    <3>1. /\ setter["updater"].pc \notin {"idle", "raised", "read"}
          /\ setter["updater"] \in SetterStates
      BY <2>3 DEF SetterInv, TypeOK, PublishTypes, Setters
    <3>2. Holds("updater")
      BY <3>1 DEF Holds, SetterStates
    <3>3. setter["updater"].configs = Configs({})
      BY <2>3, <3>2, GatewayAssumption DEF SetterInv, Setters
    <3>4. PICK v : v = Configs({})
      OBVIOUS
    <3>5. Fresh(v)'
      BY <1>4, <2>1, <3>4, FreshNow
    <3>6. QED
      BY <1>6, <2>3, <3>2, <3>3, <3>4, <3>5 DEF Holds
  <2>4. QED
    BY <2>1, <2>2, <2>3
<1>13. ASSUME OnPublish \/ Disconnect PROVE Content'
  <2>1. /\ UNCHANGED <<setter, last, main, glib, node, signals, sinks>>
        /\ link' = link \/ ~link'
    BY <1>13 DEF OnPublish, Disconnect, OutsideOnly, status
  <2>2. Content /\ (Due => Due')
    BY <1>3, <2>1 DEF Due, RemovalTold, Told, Tells
  <2>3. PICK u, w, l : u = setter["updater"].configs /\ w = setter["wrapper"].configs /\ l = last
    OBVIOUS
  <2>4. (Fresh(u) => Fresh(u)') /\ (Fresh(w) => Fresh(w)') /\ (Fresh(l) => Fresh(l)')
    BY <1>4, <2>1
  <2>5. QED
    BY <1>6, <2>1, <2>2, <2>3, <2>4 DEF Holds
<1>14. QED
  BY <1>1, <1>7, <1>8, <1>9, <1>10, <1>11, <1>12, <1>13
     DEF Others, Next, Updater, Setter, Setters, Glib, MqttWrapper, Outside

(* What is known of the sinks, and what was read, put, counted and retained *)
(* of them, taken together: none of these is inductive without the others.  *)
StatusInv ==
  CountInv /\ SignalInv /\ SetterInv /\ KnownInv /\ OnlineInv /\ SerialInv /\ FreshInv

(* The invariant the two theorems on the status rest on: each change of the *)
(* sinks is told or about to be read, what a thread in _set_status holds is *)
(* what was last read, and the last status put is the last one remembered   *)
(* (transport_service.py:281-345).                                          *)
THEOREM StatusInvariant == Spec => []StatusInv
<1>1. Init => StatusInv
  <2>1. SUFFICES ASSUME Init PROVE StatusInv
    OBVIOUS
  <2>2. /\ main = "list" /\ ~link /\ signals = <<>> /\ glib.pc = "idle" /\ ~scheduled
        /\ \A t \in Setters : setter[t].pc = "idle" /\ setter[t].attempt = 0
    BY <2>1 DEF Init, GlibIdle, SetterIdle
  <2>3. CountInv
    BY <2>1 DEF Init, CountInv, CountExact, Between, SetterIdle, GlibIdle, Setters
  <2>4. SignalInv /\ KnownInv /\ OnlineInv /\ SerialInv /\ FreshInv
    BY <2>2 DEF SignalInv, KnownInv, OnlineInv, SerialInv, FreshInv, Setters
  <2>5. SetterInv
    <3>1. 0 <= Attempts /\ "wrapper" \in Setters
      BY GatewayAssumption DEF Setters
    <3>2. QED
      BY <2>2, <3>1 DEF SetterInv, Holds
  <2>6. QED
    BY <2>3, <2>4, <2>5 DEF StatusInv
<1>2. TypeOK /\ StatusInv /\ [Next]_vars => StatusInv'
  BY CountStep, SignalStep, SetterStep, KnownStep, OnlineStep, SerialStep, FreshStep DEF StatusInv
<1>3. QED
  BY <1>1, <1>2, TypeCorrect, PTL DEF Spec

(* A gateway at rest, connected, is not left announced as offline, but for  *)
(* an updater that ended and the excuses (transport_service.py:401-403).    *)
THEOREM OnlineAlwaysAnnounced == Spec => []OnlineIsAnnounced
<1>1. StatusInv => OnlineIsAnnounced
  <2>1. SUFFICES ASSUME StatusInv, AtRest, retained = Offline, setter["updater"] # Dead,
                        ~Excused({"missed", "crossed_status"})
                 PROVE  FALSE
    BY DEF OnlineIsAnnounced
  <2>2. /\ link /\ main = "run" /\ signals = <<>> /\ queue = <<>> /\ glib.pc = "idle"
        /\ \A t \in Setters : setter[t] \in {SetterIdle, Dead}
    BY <2>1 DEF AtRest
  <2>3. setter["updater"].pc = "idle" /\ \A t \in Setters : setter[t].pc \in {"idle", "raised"}
    <3>1. SetterIdle.pc = "idle" /\ Dead.pc = "raised" /\ "updater" \in Setters
      BY DEF SetterIdle, Dead, Setters
    <3>2. QED
      BY <2>1, <2>2, <3>1
  <2>4. ~StatusQueued /\ ~Reporting
    BY <2>2 DEF StatusQueued, Reporting, RemovalTold, Told
  <2>5. last = None
    BY <2>1, <2>2, <2>4 DEF StatusInv, OnlineInv, Announced
  <2>6. QED
    BY <2>1, <2>2, <2>3, <2>4, <2>5 DEF StatusInv, OnlineInv
<1>2. QED
  BY <1>1, StatusInvariant, PTL

(* At rest the broker retains the state of the sinks on the bus, but for an *)
(* updater that ended and the excuses (transport_service.py:281-345).       *)
THEOREM RetainedAlwaysRight == Spec => []RetainedIsRight
<1>1. TypeOK /\ StatusInv => RetainedIsRight
  <2>1. SUFFICES ASSUME TypeOK, StatusInv, AtRest, setter["updater"] # Dead, ~Excused(Excuses)
                 PROVE  retained = {<<s, State(s)>> : s \in OnBus}
    BY DEF RetainedIsRight, Excuses
  <2>2. /\ link /\ main = "run" /\ signals = <<>> /\ queue = <<>> /\ glib.pc = "idle"
        /\ \A t \in Setters : setter[t] \in {SetterIdle, Dead}
        /\ ~Excused({"missed"})
    BY <2>1 DEF AtRest, Excused, Excuses
  <2>3. \A t \in Setters : setter[t].pc = "idle"
    <3>1. SetterIdle.pc = "idle" /\ Dead.pc = "raised" /\ setter["wrapper"].pc # "raised"
      BY <2>1 DEF SetterIdle, Dead, StatusInv, SetterInv
    <3>2. QED
      BY <2>1, <2>2, <3>1 DEF Setters
  <2>4. ~Due /\ \A kind, s : ~Told(kind, s)
    BY <2>2, <2>3 DEF Due, RemovalTold, Told, Setters
  <2>5. last # None /\ Fresh(last)
    BY <2>1, <2>2, <2>3, <2>4 DEF StatusInv, FreshInv, Holds, Setters
  <2>6. retained = last
    <3>1. Latest(last)
      BY <2>1, <2>2, <2>3, <2>5 DEF StatusInv, SerialInv
    <3>2. QED
      BY <2>2, <3>1 DEF Latest
  <2>7. sinks = OnBus
    <3>1. \A s \in Sinks : s \in sinks => node[s].on
      BY <2>1, <2>2, <2>4, GoneIsTold DEF StatusInv
    <3>2. \A s \in Sinks : node[s].on => s \in sinks
      BY <2>1, <2>2, <2>4 DEF StatusInv, KnownInv, Awaited
    <3>3. QED
      BY <2>1, <3>1, <3>2 DEF OnBus, TypeOK, SinkTypes
  <2>8. \A p \in last : p = <<p[1], p[2]>>
    BY <2>1, <2>5 DEF TypeOK, PublishTypes, Statuses
  <2>9. \A p \in last : p[1] \in sinks /\ p[2] = State(p[1])
    BY <2>4, <2>5 DEF Fresh
  <2>10. \A s \in sinks : <<s, State(s)>> \in last
    BY <2>5, <2>8, <2>9 DEF Fresh
  <2>11. \A p \in last : p \in {<<s, State(s)>> : s \in sinks}
    BY <2>8, <2>9
  <2>12. last = {<<s, State(s)>> : s \in sinks}
    BY <2>10, <2>11
  <2>13. QED
    BY <2>6, <2>7, <2>12
<1>2. QED
  BY <1>1, StatusInvariant, TypeCorrect, PTL
=============================================================================
