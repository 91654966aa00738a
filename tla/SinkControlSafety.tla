------------------------ MODULE SinkControlSafety ------------------------
(***************************************************************************)
(* Continues SinkControlProofs, for any number of clients, operations,     *)
(* blocks and troubles: nothing is reported done that was not, and the     *)
(* copies of the node's state follow it, each with the excuses that its    *)
(* property names.                                                         *)
(***************************************************************************)
EXTENDS SinkControlProofs

(* What the steps of the sink service do to the node and to the call.       *)

Settings == <<node.up, node.running, node.autostart, node.address>>
Scratchpads == <<node.loading, node.marked, node.stored, node.processed>>
Grows == causes \subseteq causes' /\ troubles' >= troubles

LEMMA StartStackIs ==
  ASSUME Typed, StartStack
  PROVE  /\ Serving("start", "request") /\ SameCall /\ service'.step = "autostart"
         /\ service'.did \in SUBSET Work
         /\ "stack" \in service'.did \/ "not_started" \in causes'
         /\ \/ node' = node
            \/ /\ node.up /\ ~node.running /\ node.address # Unset
               /\ node' = [node EXCEPT !.running = TRUE] /\ node'.running
         /\ service'.ok => node'.running /\ ~node.running /\ node.up
         /\ service'.ok \/ "not_started" \in causes'
         /\ Scratchpads' = Scratchpads /\ node'.address = node.address
         /\ node'.up = node.up /\ node'.autostart = node.autostart /\ Grows
         /\ UNCHANGED <<thread, address, signals, config, otap, booted, wanted, undone, targeted>>
<1>1. PICK o \in StackStart, late \in 0 .. 1 :
        /\ Takes([o EXCEPT !.cost = @ + late])
        /\ service' = [service EXCEPT !.did = @ \union Reached(TRUE, o),
                                       !.step = "autostart", !.ok = o.res = 0 /\ late = 0]
        /\ Blame(IF service'.ok THEN {} ELSE {"not_started"})
  BY DEF StartStack
<1>2. node \in NodeType /\ service \in ServiceType /\ troubles \in Nat /\ service.task = "start"
  BY SinkAssumption DEF Typed, TypeOK, StartStack, Serving
<1>3. node' = o.node /\ troubles' = troubles + o.cost + late /\ o.cost \in {0, 1}
  <2> DEFINE both == [o EXCEPT !.cost = @ + late]
  <2>1. both.node = o.node /\ both.cost = o.cost + late
    BY DEF StackStart, Outcomes
  <2>2. o.cost \in {0, 1}
    BY StackStartNode
  <2> HIDE DEF both
  <2>3. Takes(both)
    BY <1>1 DEF both
  <2>. QED
    BY <1>2, <2>1, <2>2, <2>3 DEF Takes
<1>4. (o.node = node \/ Started(o)) /\ (o.res = 0 => Started(o))
  BY <1>2, StackStartIs DEF NodeType
<1>5. /\ SameCall /\ service'.step = "autostart"
      /\ service'.did = service.did \union Reached(TRUE, o)
      /\ service'.ok = (o.res = 0 /\ late = 0)
  BY <1>1, <1>2 DEF ServiceType, SameCall
<1>6. /\ \/ node' = node
         \/ /\ node.up /\ ~node.running /\ node.address # Unset
            /\ node' = [node EXCEPT !.running = TRUE] /\ node'.running
      /\ service'.ok => node'.running /\ ~node.running /\ node.up
      /\ Scratchpads' = Scratchpads /\ node'.address = node.address
      /\ node'.up = node.up /\ node'.autostart = node.autostart
  BY <1>2, <1>3, <1>4, <1>5 DEF Started, NodeType, Scratchpads
<1>7. Grows /\ (service'.ok \/ "not_started" \in causes')
  BY <1>1, <1>2, <1>3 DEF Blame, Grows
<1>8. Reached(TRUE, o) \subseteq Work /\ service.did \subseteq Work
  BY <1>2 DEF Reached, Work, ServiceType
<1>9. "stack" \in service'.did \/ "not_started" \in causes'
  <2>1. service'.ok => Reached(TRUE, o) = {"stack"}
    BY <1>2, <1>3, <1>6 DEF Reached
  <2>. QED
    BY <1>5, <1>7, <2>1
<1>. QED
  BY <1>5, <1>6, <1>7, <1>8, <1>9 DEF StartStack

LEMMA AutostartStepIs ==
  ASSUME Typed, NEW on \in BOOLEAN, NEW o \in AutostartWrite(on), Takes(o), Blame(AutostartBlame(o))
  PROVE  /\ node' = node \/ node' = [node EXCEPT !.autostart = on]
         /\ node'.autostart = on \/ "autostart" \in causes'
         /\ node'.autostart \in {node.autostart, on} /\ node'.running = node.running
         /\ Scratchpads' = Scratchpads /\ node'.address = node.address /\ node'.up = node.up
         /\ Grows
<1>1. node \in NodeType /\ troubles \in Nat
  BY SinkAssumption DEF Typed, TypeOK
<1>2. /\ o.node \in {node, [node EXCEPT !.autostart = on]} /\ o.cost \in {0, 1}
      /\ o.res = 0 => o.node = [node EXCEPT !.autostart = on]
  BY AutostartWriteIs
<1>3. node' = o.node /\ troubles' = troubles + o.cost
  BY DEF Takes
<1>4. o.res = 0 \/ "autostart" \in causes'
  BY DEF Blame, AutostartBlame
<1>5. Grows
  BY <1>1, <1>2, <1>3 DEF Grows, Blame
<1>. QED
  BY <1>1, <1>2, <1>3, <1>4, <1>5 DEF NodeType, Scratchpads

LEMMA SetAutostartIs ==
  ASSUME Typed, SetAutostart
  PROVE  /\ Serving("start", "autostart") /\ Reply(service.ok)
         /\ node'.autostart \/ "autostart" \in causes'
         /\ node'.autostart \in {node.autostart, TRUE} /\ node'.running = node.running
         /\ Scratchpads' = Scratchpads /\ node'.address = node.address /\ node'.up = node.up
         /\ signals' = IF service.ok THEN signals + 1 ELSE signals
         /\ Grows
         /\ UNCHANGED <<address, config, otap, booted, wanted, targeted>>
<1>1. PICK o \in AutostartWrite(TRUE) : Takes(o) /\ Blame(AutostartBlame(o))
  BY DEF SetAutostart
<1>2. signals' = IF service.ok THEN signals + 1 ELSE signals
  BY DEF SetAutostart, Signal, NoSignal
<1>3. /\ node'.autostart = TRUE \/ "autostart" \in causes'
      /\ node'.autostart \in {node.autostart, TRUE} /\ node'.running = node.running
      /\ Scratchpads' = Scratchpads /\ node'.address = node.address /\ node'.up = node.up
      /\ Grows
  BY <1>1, AutostartStepIs
<1>. QED
  BY <1>2, <1>3 DEF SetAutostart

LEMMA ClearAutostartIs ==
  ASSUME Typed, ClearAutostart
  PROVE  /\ Serving("stop", "autostart") /\ SameCall /\ service'.step = "request"
         /\ service'.did = service.did
         /\ ~node'.autostart \/ "autostart" \in causes'
         /\ node'.autostart \in {node.autostart, FALSE} /\ node'.running = node.running
         /\ Scratchpads' = Scratchpads /\ node'.address = node.address /\ node'.up = node.up
         /\ Grows
         /\ UNCHANGED <<thread, address, signals, config, otap, booted, wanted, undone, targeted>>
<1>1. PICK o \in AutostartWrite(FALSE) : Takes(o) /\ Blame(AutostartBlame(o))
  BY DEF ClearAutostart
<1>2. SameCall /\ service'.step = "request" /\ service'.did = service.did
  BY GoesIs DEF ClearAutostart, Steps
<1>3. /\ node'.autostart = FALSE \/ "autostart" \in causes'
      /\ node'.autostart \in {node.autostart, FALSE} /\ node'.running = node.running
      /\ Scratchpads' = Scratchpads /\ node'.address = node.address /\ node'.up = node.up
      /\ Grows
  BY <1>1, AutostartStepIs
<1>. QED
  BY <1>2, <1>3 DEF ClearAutostart

(* A stop makes the node reboot, not running; or it was refused, or the     *)
(* request was lost, or the node was down already.                          *)
LEMMA StopRequestIs ==
  ASSUME Typed, StopRequest
  PROVE  /\ Serving("stop", "request") \/ Serving("process", "request")
         /\ SameCall /\ (service.task = "process" => service'.did = service.did)
         /\ service.task = "stop" =>
              "stack" \in service'.did \/ causes' \intersect {"denied", "lost_stop"} # {}
         /\ \/ service'.step = "wait" /\ service'.ok = service.ok
            \/ service'.step = "resume" /\ ~service'.ok
         /\ \/ node' = node /\ service'.step = "wait"
               /\ (node.up => "lost_stop" \in causes' /\ troubles' > troubles)
            \/ node' = node /\ service'.step = "resume"
               /\ \/ ~node.running /\ ~node.marked
                  \/ "denied" \in causes' /\ troubles' > troubles
            \/ node.up /\ ~node'.up /\ ~node'.running /\ service'.step = "wait"
         /\ Scratchpads' = Scratchpads /\ node'.address = node.address
         /\ node'.autostart = node.autostart /\ Grows
         /\ UNCHANGED <<thread, address, signals, config, otap, booted, wanted, undone, targeted>>
<1>1. PICK o \in StackStop :
        /\ Takes(o)
        /\ service' = IF o.res \in {1, Denied}
                        THEN [service EXCEPT !.did = @ \union Reached(FALSE, o),
                                             !.step = "resume", !.ok = FALSE]
                        ELSE [service EXCEPT !.did = @ \union Reached(FALSE, o), !.step = "wait"]
        /\ Blame(CASE o.res = NoAnswer /\ (o.node.up \/ o.node.running) -> {"lost_stop"}
                   [] o.res = Denied -> {"denied"}
                   [] OTHER -> {})
  BY DEF StopRequest
<1>2. node \in NodeType /\ service \in ServiceType /\ troubles \in Nat
  BY SinkAssumption DEF Typed, TypeOK
<1>3. /\ o.node = node \/ WentDown(o)
      /\ o.cost \in {0, 1} /\ o.res \in {0, 1, Denied, NoAnswer}
      /\ o.res = 0 => WentDown(o)
      /\ o.res = 1 => ~node.running /\ ~node.marked /\ o.node = node
      /\ o.res = Denied => o.node = node /\ o.cost = 1
      /\ o.res = NoAnswer => ~node.up \/ o.cost = 1
  BY StackStopIs
<1>4. node' = o.node /\ troubles' = troubles + o.cost
  BY <1>1 DEF Takes
<1>5. Denied # 1 /\ NoAnswer \notin {0, 1, Denied} /\ Denied # 0
  BY DEF Denied, NoAnswer
<1>6. /\ SameCall /\ service'.did = service.did \union Reached(FALSE, o)
      /\ \/ o.res \notin {1, Denied} /\ service'.step = "wait" /\ service'.ok = service.ok
         \/ o.res \in {1, Denied} /\ service'.step = "resume" /\ ~service'.ok
  BY <1>1, <1>2 DEF ServiceType, SameCall
<1>7. /\ o.res = NoAnswer /\ (o.node.up \/ o.node.running) => "lost_stop" \in causes'
      /\ o.res = Denied => "denied" \in causes'
      /\ causes \subseteq causes'
  BY <1>1, <1>5 DEF Blame
<1>8. Grows
  BY <1>2, <1>3, <1>4, <1>7 DEF Grows
<1>9. /\ Scratchpads' = Scratchpads /\ node'.address = node.address
      /\ node'.autostart = node.autostart
  BY <1>2, <1>3, <1>4 DEF WentDown, NodeType, Scratchpads
<1>10. \/ node' = node /\ service'.step = "wait"
          /\ (node.up => "lost_stop" \in causes' /\ troubles' > troubles)
       \/ node' = node /\ service'.step = "resume"
          /\ ((~node.running /\ ~node.marked)
              \/ ("denied" \in causes' /\ troubles' > troubles))
       \/ node.up /\ ~node'.up /\ ~node'.running /\ service'.step = "wait"
  <2>1. CASE o.res = 1
    BY <1>3, <1>4, <1>6, <2>1
  <2>2. CASE o.res = Denied
    <3>1. troubles' > troubles
      BY <1>2, <1>3, <1>4, <2>2
    <3>. QED
      BY <1>3, <1>4, <1>6, <1>7, <2>2, <3>1
  <2>3. CASE o.res \in {0, NoAnswer} /\ WentDown(o)
    BY <1>2, <1>4, <1>5, <1>6, <2>3 DEF WentDown, NodeType
  <2>4. CASE o.res = NoAnswer /\ o.node = node
    <3>1. node.up => troubles' > troubles
      BY <1>2, <1>3, <1>4, <2>4
    <3>. QED
      BY <1>4, <1>5, <1>6, <1>7, <2>4, <3>1
  <2>. QED
    BY <1>3, <2>1, <2>2, <2>3, <2>4
<1>11. service.task = "process" => service'.did = service.did
  BY <1>6 DEF Reached
<1>12. service.task = "stop" =>
         "stack" \in service'.did \/ causes' \intersect {"denied", "lost_stop"} # {}
  <2>1. ~o.node.running \/ causes' \intersect {"denied", "lost_stop"} # {}
    BY <1>2, <1>3, <1>7 DEF WentDown, NodeType
  <2>2. service.task = "stop" /\ ~o.node.running => "stack" \in Reached(FALSE, o)
    BY <1>2, <1>3 DEF Reached, WentDown, NodeType
  <2>. QED
    BY <1>6, <2>1, <2>2
<1>. QED
  BY <1>6, <1>8, <1>9, <1>10, <1>11, <1>12 DEF StopRequest

LEMMA StopWaitIs ==
  ASSUME Typed, StopWait
  PROVE  /\ Serving("stop", "wait") \/ Serving("process", "wait")
         /\ SameCall /\ service'.step = "resume" /\ service'.did = service.did
         /\ service'.ok => node.up
         /\ service'.ok \/ ("slow" \in causes' /\ troubles' > troubles)
         /\ node' = node /\ Grows
         /\ UNCHANGED <<thread, address, signals, config, otap, booted, wanted, undone, targeted>>
<1>1. PICK answered \in BOOLEAN :
        /\ answered => node.up
        /\ Takes([node |-> node, cost |-> IF answered THEN 0 ELSE 1])
        /\ service' = [service EXCEPT !.step = "resume", !.ok = answered]
        /\ Blame(IF answered THEN {} ELSE {"slow"})
  BY DEF StopWait
<1>2. service \in ServiceType /\ troubles \in Nat
  BY SinkAssumption DEF Typed, TypeOK
<1>3. node' = node /\ troubles' = troubles + (IF answered THEN 0 ELSE 1)
  BY <1>1 DEF Takes
<1>4. SameCall /\ service'.step = "resume" /\ service'.did = service.did /\ service'.ok = answered
  BY <1>1, <1>2 DEF ServiceType, SameCall
<1>5. causes \subseteq causes' /\ (answered \/ "slow" \in causes')
  BY <1>1 DEF Blame
<1>6. Grows /\ (answered \/ troubles' > troubles)
  BY <1>2, <1>3, <1>5 DEF Grows
<1>. QED
  BY <1>1, <1>3, <1>4, <1>5, <1>6 DEF StopWait

LEMMA StopDoneIs ==
  ASSUME Typed, StopDone
  PROVE  /\ Serving("stop", "resume") \/ Serving("process", "resume")
         /\ \/ /\ service.task = "process" /\ service.ok /\ SameCall /\ service'.step = "read"
               /\ service'.did = service.did /\ UNCHANGED <<thread, undone>>
            \/ /\ ~(service.task = "process" /\ service.ok) /\ Reply(service.ok)
         /\ signals' = signals
         /\ UNCHANGED <<address, config, otap, node, booted, troubles, wanted, causes, targeted>>
BY GoesIs DEF StopDone, Steps, Signal, NoSignal

LEMMA UploadBeginIs ==
  ASSUME Typed, UploadBegin
  PROVE  /\ Serving("upload", "begin")
         /\ \/ /\ ~node.running /\ SameCall /\ service'.step = "block"
               /\ service'.fetched = service.fetched /\ UNCHANGED <<thread, undone>>
               /\ node'.loading = [seq |-> service.seq, next |-> 0]
            \/ /\ Reply(FALSE)
               /\ \/ node' = node /\ (node.running \/ ~node.up \/ troubles' > troubles)
                  \/ "partial" \in causes' /\ (~node.up \/ troubles' > troubles)
         /\ Settings' = Settings /\ node'.processed = node.processed
         /\ node'.marked => node.marked
         /\ Grows
         /\ UNCHANGED <<address, signals, config, otap, booted, wanted, targeted>>
<1>1. PICK o \in ScratchpadStart(service.seq) :
        /\ Takes(o)
        /\ IF ConvertErrorCode(ScratchpadStartLUT, o.res) = "ok"
             THEN Goes("block") /\ UNCHANGED <<thread, undone>>
             ELSE Reply(FALSE)
        /\ Blame(IF o.res = NoAnswer THEN {"partial"} ELSE {})
  BY DEF UploadBegin
<1>2. node \in NodeType /\ service \in ServiceType /\ troubles \in Nat
  BY SinkAssumption DEF Typed, TypeOK
<1>3. /\ o.node = node \/ Erased(service.seq, o)
      /\ o.cost \in {0, 1} /\ o.res \in {0, 1, NoAnswer}
      /\ o.res = 0 => Erased(service.seq, o)
      /\ o.res = 1 => node.running /\ o.node = node
      /\ o.res = NoAnswer => ~node.up \/ o.cost = 1
  BY ScratchpadStartIs
<1>4. node' = o.node /\ troubles' = troubles + o.cost
  BY <1>1 DEF Takes
<1>5. /\ Settings' = Settings /\ node'.processed = node.processed /\ (node'.marked => node.marked)
      /\ o.res = 0 => ~node.running /\ node'.loading = [seq |-> service.seq, next |-> 0]
  BY <1>2, <1>3, <1>4 DEF Erased, NodeType, Settings
<1>6. causes \subseteq causes' /\ (o.res = NoAnswer => "partial" \in causes')
  BY <1>1 DEF Blame
<1>7. Grows /\ (o.cost = 1 => troubles' > troubles)
  BY <1>2, <1>3, <1>4, <1>6 DEF Grows
<1>8. o.res \in Int /\ (ConvertErrorCode(ScratchpadStartLUT, o.res) = "ok" <=> o.res = 0)
  BY <1>3, OkIsZero DEF NoAnswer
<1>9. /\ o.res = 0 => Goes("block") /\ UNCHANGED <<thread, undone>>
      /\ o.res # 0 => Reply(FALSE)
  BY <1>1, <1>8
<1>10. Goes("block") => SameCall /\ service'.step = "block" /\ service'.fetched = service.fetched
  BY GoesIs DEF Steps
<1>. QED
  BY <1>3, <1>4, <1>5, <1>6, <1>7, <1>8, <1>9, <1>10 DEF UploadBegin

LEMMA UploadBlockIs ==
  ASSUME Typed, UploadBlock
  PROVE  /\ Serving("upload", "block")
         /\ \/ /\ SameCall /\ UNCHANGED <<thread, undone, causes>>
               /\ service'.fetched = service.fetched + 1
               /\ node.loading # NotLoading /\ node.loading.next = service.fetched
               /\ \/ /\ service'.fetched = Blocks /\ service'.step = "read"
                     /\ node'.stored = node.loading.seq
                     /\ service'.did = IF node'.stored = service.seq THEN {"upload"} ELSE {}
                  \/ /\ service'.fetched # Blocks /\ service'.step = "block"
                     /\ node'.loading = [seq |-> node.loading.seq, next |-> service'.fetched]
            \/ /\ Reply(FALSE) /\ "partial" \in causes'
               /\ \/ node.running \/ node.loading = NotLoading
                  \/ node.loading.next # service.fetched
                  \/ ~node.up \/ troubles' > troubles
         /\ Settings' = Settings /\ node'.processed = node.processed
         /\ node'.marked = node.marked /\ Grows
         /\ UNCHANGED <<address, signals, config, otap, booted, wanted, targeted>>
<1> DEFINE loaded == service.fetched + 1
<1>1. PICK o \in ScratchpadBlock(service.fetched) :
        /\ Takes(o)
        /\ IF ConvertErrorCode(ScratchpadBlockLUT, o.res) = "ok"
             THEN /\ service' = [service EXCEPT !.fetched = loaded,
                                   !.step = IF loaded = Blocks THEN "read" ELSE "block",
                                   !.did = IF o.node.stored = service.seq
                                             THEN {"upload"} ELSE {}]
                  /\ UNCHANGED <<thread, causes, undone>>
             ELSE Reply(FALSE) /\ Blame({"partial"})
  BY DEF UploadBlock
<1>2. node \in NodeType /\ service \in ServiceType /\ troubles \in Nat /\ node.running \in BOOLEAN
  BY SinkAssumption DEF Typed, TypeOK, NodeType
<1>3. /\ o.node = node \/ Loaded(service.fetched, o)
      /\ o.cost \in {0, 1} /\ o.res \in {0, 1, 3, 4, 5, NoAnswer}
      /\ o.res \in {0, 1} => Loaded(service.fetched, o)
      /\ o.res \in {3, 4, 5} =>
           node.running \/ node.loading = NotLoading \/ node.loading.next # service.fetched
      /\ o.res = NoAnswer => ~node.up \/ o.cost = 1
  BY <1>2, ScratchpadBlockIs
<1>4. node' = o.node /\ troubles' = troubles + o.cost
  BY <1>1 DEF Takes
<1>5. Settings' = Settings /\ node'.processed = node.processed /\ node'.marked = node.marked
  <2>1. CASE o.node = node
    BY <1>4, <2>1 DEF Settings
  <2>2. CASE o.node = [node EXCEPT !.stored = node.loading.seq, !.loading = NotLoading]
    BY <1>2, <1>4, <2>2 DEF Settings, NodeType
  <2>3. CASE o.node = [node EXCEPT !.loading.next = service.fetched + 1]
    BY <1>2, <1>4, <2>3 DEF Settings, NodeType
  <2>. QED
    BY <1>3, <2>1, <2>2, <2>3 DEF Loaded
<1>6. o.res \in Int /\ (ConvertErrorCode(ScratchpadBlockLUT, o.res) = "ok" <=> o.res \in {0, 1})
  BY <1>3, OkIsLoaded DEF NoAnswer
<1>7. CASE o.res \in {0, 1}
  <2>1. UNCHANGED <<thread, causes, undone>>
        /\ service' = [service EXCEPT !.fetched = loaded,
                         !.step = IF loaded = Blocks THEN "read" ELSE "block",
                         !.did = IF o.node.stored = service.seq THEN {"upload"} ELSE {}]
    BY <1>1, <1>6, <1>7
  <2>2. /\ SameCall /\ service'.fetched = service.fetched + 1
        /\ service'.step = IF loaded = Blocks THEN "read" ELSE "block"
        /\ service'.did = IF node'.stored = service.seq THEN {"upload"} ELSE {}
    BY <1>2, <1>4, <2>1 DEF ServiceType, SameCall
  <2>3. /\ node.loading # NotLoading /\ node.loading.next = service.fetched
        /\ loaded = Blocks => node'.stored = node.loading.seq
        /\ loaded # Blocks => node'.loading = [seq |-> node.loading.seq, next |-> loaded]
    BY <1>2, <1>3, <1>4, <1>7 DEF Loaded, NodeType
  <2>4. Grows
    BY <1>2, <1>3, <1>4, <2>1 DEF Grows
  <2>. QED
    BY <1>5, <2>1, <2>2, <2>3, <2>4 DEF UploadBlock
<1>8. CASE o.res \notin {0, 1}
  <2>1. Reply(FALSE) /\ Blame({"partial"})
    BY <1>1, <1>6, <1>8
  <2>2. causes \subseteq causes' /\ "partial" \in causes'
    BY <2>1 DEF Blame
  <2>3. Grows /\ (o.cost = 1 => troubles' > troubles)
    BY <1>2, <1>3, <1>4, <2>2 DEF Grows
  <2>. QED
    BY <1>3, <1>5, <1>8, <2>1, <2>2, <2>3 DEF UploadBlock
<1>. QED
  BY <1>7, <1>8

LEMMA UpdateScratchpadIs ==
  ASSUME Typed, UpdateScratchpad
  PROVE  /\ Serving("process", "update")
         /\ \/ /\ SameCall /\ service'.step = "request" /\ service'.did = service.did
               /\ UNCHANGED <<thread, undone>> /\ node'.marked /\ node.up /\ ~node.running
            \/ /\ Reply(FALSE) /\ (node' = node \/ "partial" \in causes')
         /\ Settings' = Settings /\ node'.processed = node.processed
         /\ node'.stored = node.stored /\ node'.loading = node.loading /\ Grows
         /\ UNCHANGED <<address, signals, config, otap, booted, wanted, targeted>>
<1>1. PICK o \in ScratchpadUpdate :
        /\ Takes(o)
        /\ IF ConvertErrorCode(ScratchpadUpdateLUT, o.res) = "ok"
             THEN Goes("request") /\ UNCHANGED <<thread, undone>>
             ELSE Reply(FALSE)
        /\ Blame(IF o.res = NoAnswer THEN {"partial"} ELSE {})
  BY DEF UpdateScratchpad
<1>2. node \in NodeType /\ service \in ServiceType /\ troubles \in Nat /\ node.running \in BOOLEAN
  BY SinkAssumption DEF Typed, TypeOK, NodeType
<1>3. /\ o.node = node \/ Marked(o)
      /\ o.cost \in {0, 1} /\ o.res \in {0, 1, 2, NoAnswer}
      /\ o.res = 0 => Marked(o)
      /\ o.res \in {1, 2} => o.node = node
  BY <1>2, ScratchpadUpdateIs
<1>4. node' = o.node /\ troubles' = troubles + o.cost
  BY <1>1 DEF Takes
<1>5. /\ Settings' = Settings /\ node'.processed = node.processed
      /\ node'.stored = node.stored /\ node'.loading = node.loading
      /\ o.res = 0 => node'.marked /\ node.up /\ ~node.running
  BY <1>2, <1>3, <1>4 DEF Marked, NodeType, Settings
<1>6. causes \subseteq causes' /\ (o.res = NoAnswer => "partial" \in causes')
  BY <1>1 DEF Blame
<1>7. Grows
  BY <1>2, <1>3, <1>4, <1>6 DEF Grows
<1>8. o.res \in Int /\ (ConvertErrorCode(ScratchpadUpdateLUT, o.res) = "ok" <=> o.res = 0)
  BY <1>3, OkIsZero DEF NoAnswer
<1>9. o.res = 0 => Goes("request") /\ UNCHANGED <<thread, undone>>
  BY <1>1, <1>8
<1>10. o.res # 0 => Reply(FALSE)
  BY <1>1, <1>8
<1>11. Goes("request") => SameCall /\ service'.step = "request" /\ service'.did = service.did
  BY GoesIs DEF Steps
<1>. QED
  BY <1>3, <1>4, <1>5, <1>6, <1>7, <1>9, <1>10, <1>11 DEF UpdateScratchpad

(* What the transport's threads do to themselves.                           *)

LEMMA UpdateIs ==
  ASSUME Typed, NEW t \in Threads, NEW new, Update(t, new)
  PROVE  thread'[t] = new /\ \A d \in Threads \ {t} : thread'[d] = thread[d]
BY DEF Update, Typed, TypeOK

Others(t) == \A d \in Threads \ {t} : thread'[d] = thread[d]
Failed == ~node.up \/ troubles' > troubles
Alike(new, me) ==
  /\ new.request = me.request /\ new.number = me.number /\ new.captured = me.captured
  /\ new.stopped = me.stopped

LEMMA StatusIs ==
  ASSUME Typed, NEW o \in StatusRead, Takes(o)
  PROVE  /\ node' = node /\ troubles' >= troubles
         /\ ConvertErrorCode(AttReadLUT, o.res) = "ok" \/ Failed
         /\ ConvertErrorCode(AttReadLUT, o.res) = "ok" => node.up
<1>1. troubles \in Nat
  BY SinkAssumption DEF Typed, TypeOK
<1>2. o.node = node /\ o.cost \in {0, 1} /\ o.res \in {0, NoAnswer}
      /\ (o.res = NoAnswer /\ node.up => o.cost = 1) /\ (o.res = 0 => node.up) /\ o.res \in Int
  BY ReadsNothingElse DEF NoAnswer
<1>3. node' = node /\ troubles' = troubles + o.cost
  BY <1>2 DEF Takes
<1>4. o.res = 0 <=> ConvertErrorCode(AttReadLUT, o.res) = "ok"
  BY <1>2, OkIsZero DEF NoAnswer
<1>5. troubles' >= troubles /\ (o.cost = 1 => troubles' > troubles)
  BY <1>1, <1>2, <1>3
<1>. QED
  BY <1>2, <1>3, <1>4, <1>5 DEF Failed

LEMMA CaptureIs ==
  ASSUME Typed, NEW t \in Threads, Capture(t)
  PROVE  /\ Free /\ t \in Clients /\ At(t, "idle") /\ Others(t)
         /\ node' = node /\ troubles' >= troubles
         /\ UNCHANGED <<address, signals, service, wanted, causes, targeted, undone>>
         /\ \/ thread'[t] = Idle /\ Failed
            \/ LET new == thread'[t]
               IN  /\ IsConfig(new) /\ new.request \in Requests /\ new.todo = new.request.items
                   /\ new.captured = node.running /\ new.pc = Continues(new.todo)
                   /\ ~new.stopped /\ new.result = "ok" /\ new.did = {} /\ node.up
<1>1. PICK me \in Calling(t, "capture"), o \in StatusRead :
        /\ Takes(o)
        /\ IF ConvertErrorCode(AttReadLUT, o.res) = "ok"
             THEN /\ Update(t, [me EXCEPT !.captured = node.running, !.pc = Continues(me.todo)])
                  /\ UNCHANGED undone
             ELSE Finishes(t, me, "error")
  BY DEF Capture
<1>2. /\ Free /\ t \in Clients /\ me \in ThreadType /\ IsConfig(me) /\ me.request \in Requests
      /\ me.todo = me.request.items /\ me.did = {} /\ At(t, "idle") /\ me.result = "ok"
      /\ ~me.stopped
  BY CallingIs
<1>3. node' = node /\ troubles' >= troubles
      /\ (ConvertErrorCode(AttReadLUT, o.res) = "ok" \/ Failed)
      /\ (ConvertErrorCode(AttReadLUT, o.res) = "ok" => node.up)
  BY <1>1, StatusIs
<1>4. UNCHANGED <<address, signals, service, wanted, causes, targeted>>
  BY DEF Capture, sinkService
<1>5. CASE ConvertErrorCode(AttReadLUT, o.res) = "ok"
  <2> DEFINE pc == Continues(me.todo)
             new == [me EXCEPT !.captured = node.running, !.pc = pc]
  <2>1. thread'[t] = new /\ Others(t) /\ UNCHANGED undone
    BY <1>1, <1>5, UpdateIs DEF Others
  <2> HIDE DEF pc
  <2>2. /\ IsConfig(new) /\ new.request = me.request /\ new.todo = me.todo
        /\ new.captured = node.running /\ new.pc = pc
        /\ ~new.stopped /\ new.result = "ok" /\ new.did = {}
    BY <1>2 DEF ThreadType, IsConfig
  <2> HIDE DEF new
  <2>. QED
    BY <1>2, <1>3, <1>4, <1>5, <2>1, <2>2 DEF pc
<1>6. CASE ConvertErrorCode(AttReadLUT, o.res) # "ok"
  <2>1. Update(t, Idle) /\ UNCHANGED undone
    BY <1>1, <1>6 DEF Finishes
  <2>. QED
    BY <1>2, <1>3, <1>4, <1>6, <2>1, UpdateIs DEF Others
<1>. QED
  BY <1>5, <1>6

LEMMA CheckIs ==
  ASSUME Typed, NEW t \in Threads, Check(t)
  PROVE  /\ Free /\ t \in Clients /\ Others(t)
         /\ node' = node /\ troubles' >= troubles
         /\ UNCHANGED <<address, signals, service, wanted, causes, targeted, undone>>
         /\ \E me \in ThreadType :
              /\ me.request \in Requests
              /\ (IsConfig(me) /\ me.todo # <<>>) \/ Kind(me) \in {"upload", "process"}
              /\ \/ me = thread[t] /\ At(t, "check")
                 \/ /\ At(t, "idle") /\ Kind(me) \in {"upload", "process"} /\ me.number # 0
                    /\ me.did = {} /\ me.result = "ok" /\ ~me.stopped
              /\ LET new == thread'[t]
                 IN  \/ /\ Alike(new, me) /\ new.todo = me.todo
                        /\ new.did = me.did /\ new.result = me.result
                        /\ new.pc = (IF node.running THEN "stop" ELSE "work") /\ node.up
                     \/ /\ Failed /\ IsConfig(me) /\ Alike(new, me) /\ new.todo = Tail(me.todo)
                        /\ new.did = me.did /\ new.result = "error"
                        /\ new.pc = Continues(new.todo)
                     \/ Failed /\ ~IsConfig(me) /\ new = Idle
<1>1. PICK me \in Calling(t, "check"), o \in StatusRead :
        /\ Takes(o)
        /\ IF ConvertErrorCode(AttReadLUT, o.res) = "ok"
             THEN Update(t, [me EXCEPT !.pc = IF node.running THEN "stop" ELSE "work"])
             ELSE Update(t, IF IsConfig(me) THEN ItemDone(me, "error", me.did) ELSE Idle)
  BY DEF Check
<1>2. /\ Free /\ t \in Clients /\ me \in ThreadType /\ me.request \in Requests /\ me.pc = "check"
      /\ (IsConfig(me) /\ me.todo # <<>>) \/ Kind(me) \in {"upload", "process"}
      /\ \/ me = thread[t]
         \/ /\ At(t, "idle") /\ me = Begins(me.request) /\ me.number = ops + 1
            /\ me.did = {} /\ me.result = "ok" /\ ~me.stopped
      /\ ops + 1 # 0
  <2>1. ops \in 0 .. MaxOps
    BY DEF Typed, TypeOK
  <2>2. ops + 1 # 0
    BY <2>1
  <2>. QED
    BY <2>2, CallingIs
<1>3. me = thread[t] \/ Kind(me) \in {"upload", "process"}
  <2>1. CASE me = Begins(me.request) /\ IsConfig(me) /\ At(t, "idle")
    <3>1. ops < MaxOps \/ me = thread[t]
      BY <2>1, CallingIs
    <3>2. ops \in 0 .. MaxOps
      BY DEF Typed, TypeOK
    <3>. QED
      BY <1>2, <2>1, <3>1, <3>2, BeginsIs DEF IsConfig
  <2>. QED
    BY <1>2, <2>1
<1>4. node' = node /\ troubles' >= troubles
      /\ (ConvertErrorCode(AttReadLUT, o.res) = "ok" \/ Failed)
      /\ (ConvertErrorCode(AttReadLUT, o.res) = "ok" => node.up)
  BY <1>1, StatusIs
<1>5. UNCHANGED <<address, signals, service, wanted, causes, targeted, undone>>
  BY DEF Check, sinkService, history
<1>6. Others(t)
  BY <1>1, UpdateIs DEF Others
<1>7. \/ /\ Alike(thread'[t], me) /\ thread'[t].todo = me.todo
         /\ thread'[t].did = me.did /\ thread'[t].result = me.result
         /\ thread'[t].pc = (IF node.running THEN "stop" ELSE "work") /\ node.up
      \/ /\ Failed /\ IsConfig(me) /\ Alike(thread'[t], me) /\ thread'[t].todo = Tail(me.todo)
         /\ thread'[t].did = me.did /\ thread'[t].result = "error"
         /\ thread'[t].pc = Continues(Tail(me.todo))
      \/ Failed /\ ~IsConfig(me) /\ thread'[t] = Idle
  <2>1. CASE ConvertErrorCode(AttReadLUT, o.res) = "ok"
    <3> DEFINE pc == IF node.running THEN "stop" ELSE "work"
               new == [me EXCEPT !.pc = pc]
    <3>1. thread'[t] = new
      BY <1>1, <2>1, UpdateIs
    <3> HIDE DEF pc
    <3>2. /\ Alike(new, me) /\ new.todo = me.todo /\ new.did = me.did /\ new.result = me.result
          /\ new.pc = pc
      BY <1>2 DEF ThreadType, Alike
    <3> HIDE DEF new
    <3>. QED
      BY <1>4, <2>1, <3>1, <3>2 DEF pc
  <2>2. CASE ConvertErrorCode(AttReadLUT, o.res) # "ok" /\ IsConfig(me)
    <3>1. thread'[t] = ItemDone(me, "error", me.did)
      BY <1>1, <2>2, UpdateIs
    <3>2. me.todo # <<>> /\ me.did \in SUBSET Work /\ "error" \in Results
      BY <1>2, <2>2 DEF IsConfig, Kind, ThreadType, Results
    <3>. QED
      BY <1>2, <1>4, <2>2, <3>1, <3>2, ItemDoneIs DEF Alike
  <2>3. CASE ConvertErrorCode(AttReadLUT, o.res) # "ok" /\ ~IsConfig(me)
    BY <1>1, <1>4, <2>3, UpdateIs
  <2>. QED
    BY <2>1, <2>2, <2>3
<1>. QED
  BY <1>2, <1>3, <1>4, <1>5, <1>6, <1>7 DEF At

LEMMA WriteItemIs ==
  ASSUME Typed, NEW t \in Threads, WriteItem(t)
  PROVE  LET me == thread[t]
             new == thread'[t]
         IN  /\ Free /\ t \in Clients /\ Others(t) /\ At(t, "work") /\ IsConfig(me)
             /\ me.todo # <<>> /\ me.todo \in Seq(Items)
             /\ Grows
             /\ UNCHANGED <<address, signals, service, wanted, causes, targeted, undone>>
             /\ node' = node \/ (~node.running /\ node' = [node EXCEPT !.address = me.number])
             /\ Alike(new, me) /\ new.todo = Tail(me.todo) /\ new.pc = Continues(new.todo)
             /\ \/ new.result = me.result /\ new.did = me.did \union {Head(me.todo)}
                \/ /\ new.result = "error" /\ new.did = me.did
                   /\ Failed \/ (node.running /\ Head(me.todo) # "app_config")
<1> DEFINE me == thread[t]
           item == Head(me.todo)
           lut == IF item = "app_config" THEN AppConfigWriteLUT ELSE AttWriteLUT
<1>1. At(t, "work") /\ Free /\ IsConfig(me) /\ me \in ThreadType /\ Placed(t, me)
  BY DEF WriteItem, CallsAt, Typed, TypeOK, PlaceInv
<1>2. t \in Clients /\ me.request \in Requests /\ me.todo # <<>> /\ me.todo \in Seq(Items)
      /\ item \in Items /\ me.did \in SUBSET Work /\ me.result \in Results
  <2>1. t \in Clients /\ me.request \in Requests /\ me.todo # <<>> /\ me.todo \in Seq(Items)
    BY <1>1, ClientsAreThreads DEF At, Placed, IsConfig, Kind, ThreadType
  <2>2. me.did \in SUBSET Work /\ me.result \in Results
    BY <1>1 DEF ThreadType
  <2>. QED
    BY <2>1, <2>2
<1>3. PICK o \in ItemWrite(item, me.number) :
        /\ Takes(o)
        /\ IF ConvertErrorCode(lut, o.res) = "ok"
             THEN Update(t, ItemDone(me, me.result, me.did \union {item}))
             ELSE Update(t, ItemDone(me, "error", me.did))
  BY DEF WriteItem
<1>4. UNCHANGED <<address, signals, service, wanted, causes, targeted, undone>>
  BY DEF WriteItem, history, sinkService
<1> HIDE DEF me, item
<1>5. /\ o.node = node \/ (~node.running /\ o.node = [node EXCEPT !.address = me.number])
      /\ o.cost \in {0, 1} /\ o.res \in {0, 2, NoAnswer}
      /\ o.res = 2 => node.running /\ item # "app_config"
      /\ o.res = NoAnswer => ~node.up \/ o.cost = 1
  BY ItemWriteIs
<1>6. node' = o.node /\ troubles' = troubles + o.cost
  BY <1>3 DEF Takes
<1>7. troubles \in Nat
  BY SinkAssumption DEF Typed, TypeOK
<1>8. Grows /\ (o.cost = 1 => troubles' > troubles)
  BY <1>4, <1>5, <1>6, <1>7 DEF Grows
<1>9. o.res \in Int /\ (ConvertErrorCode(lut, o.res) = "ok" <=> o.res = 0)
  BY <1>5, OkIsZero DEF NoAnswer
<1>10. Others(t) /\ thread'[t] \in {ItemDone(me, me.result, me.did \union {item}),
                                    ItemDone(me, "error", me.did)}
       /\ (o.res = 0 => thread'[t] = ItemDone(me, me.result, me.did \union {item}))
       /\ (o.res # 0 => thread'[t] = ItemDone(me, "error", me.did))
  BY <1>3, <1>9, UpdateIs DEF Others
<1>11. me.did \union {item} \in SUBSET Work /\ "error" \in Results
  BY <1>2 DEF Work, Results
<1>12. CASE o.res = 0
  <2> DEFINE new == ItemDone(me, me.result, me.did \union {item})
  <2>1. /\ Alike(new, me) /\ new.todo = Tail(me.todo) /\ new.pc = Continues(Tail(me.todo))
        /\ new.result = me.result /\ new.did = me.did \union {item}
    BY <1>1, <1>2, <1>11, ItemDoneIs DEF Alike
  <2> HIDE DEF new
  <2>2. thread'[t] = new
    BY <1>10, <1>12 DEF new
  <2>. QED
    BY <1>1, <1>2, <1>4, <1>5, <1>6, <1>8, <1>10, <2>1, <2>2 DEF me, item
<1>13. CASE o.res # 0
  <2> DEFINE new == ItemDone(me, "error", me.did)
  <2>1. /\ Alike(new, me) /\ new.todo = Tail(me.todo) /\ new.pc = Continues(Tail(me.todo))
        /\ new.result = "error" /\ new.did = me.did
    BY <1>1, <1>2, <1>11, ItemDoneIs DEF Alike
  <2> HIDE DEF new
  <2>2. thread'[t] = new
    BY <1>10, <1>13 DEF new
  <2>3. Failed \/ (node.running /\ item # "app_config")
    BY <1>5, <1>8, <1>13 DEF Failed
  <2>. QED
    BY <1>1, <1>2, <1>4, <1>5, <1>6, <1>8, <1>10, <2>1, <2>2, <2>3 DEF me, item
<1>. QED
  BY <1>12, <1>13

LEMMA MovesIs ==
  ASSUME Typed, NEW t \in Threads, NEW where, Moves(t, where)
  PROVE  LET me == thread[t]
             new == thread'[t]
         IN  /\ Alike(new, me) /\ new.todo = me.todo /\ new.did = me.did
             /\ new.result = me.result /\ new.seen = me.seen /\ new.pc = where
             /\ Others(t)
<1> DEFINE me == thread[t]
           new == [me EXCEPT !.pc = where]
<1>1. thread'[t] = new /\ Others(t) /\ me \in ThreadType
  BY UpdateIs DEF Moves, Others, Typed, TypeOK
<1>2. /\ Alike(new, me) /\ new.todo = me.todo /\ new.did = me.did
      /\ new.result = me.result /\ new.seen = me.seen /\ new.pc = where
  BY <1>1 DEF ThreadType, Alike
<1> HIDE DEF new
<1>. QED
  BY <1>1, <1>2

(* An operation ends, and what it has reported done is compared with what   *)
(* was.                                                                     *)
Ends(t, me, result) ==
  /\ thread'[t] = Idle /\ Others(t)
  /\ undone' = IF result = "ok" THEN undone \union (Asked(me) \ me.did) ELSE undone
LEMMA EndsIs ==
  ASSUME Typed, NEW t \in Threads, NEW me, NEW result, Finishes(t, me, result)
  PROVE  Ends(t, me, result)
BY UpdateIs DEF Finishes, Ends, Others

Found(me) == IF node.running = NewState(me) THEN {"stack"} ELSE {}
LEMMA RestoreIs ==
  ASSUME Typed, NEW t \in Threads, Restore(t)
  PROVE  LET me == thread[t]
             new == thread'[t]
         IN  /\ Free /\ t \in Clients /\ Others(t) /\ At(t, "restore") /\ IsConfig(me)
             /\ me.request \in Requests /\ me.request.started \in {"keep", "start", "stop"}
             /\ node' = node /\ Grows
             /\ UNCHANGED <<address, signals, service, targeted, undone>>
             /\ \/ /\ Alike(new, me) /\ new.todo = me.todo
                   /\ new.result = me.result
                   /\ new.did = me.did \union Found(me)
                   /\ new.pc = IF node.running = NewState(me) THEN "readback" ELSE "change"
                   /\ wanted' = IF node.running = NewState(me) THEN Wants(t) ELSE wanted
                   /\ causes' = causes \union Overlap({d \in Relying(t) : thread[d].stopped})
                \/ /\ new = Idle /\ wanted' = wanted /\ "unread" \in causes' /\ Failed
<1> DEFINE me == thread[t]
<1>1. At(t, "restore") /\ Free /\ Placed(t, me)
  BY DEF Restore, CallsAt, Typed, PlaceInv
<1>2. t \in Clients /\ IsConfig(me) /\ me.request \in Requests
      /\ me.request.started \in {"keep", "start", "stop"}
  BY <1>1, ClientsAreThreads, RequestIs DEF At, Placed, IsConfig
<1>3. UNCHANGED <<address, signals, service, targeted>>
  BY DEF Restore, sinkService
<1> HIDE DEF me
<1> DEFINE pc == IF node.running = NewState(me) THEN "readback" ELSE "change"
<1>4. PICK o \in StatusRead :
        /\ Takes(o)
        /\ IF ConvertErrorCode(AttReadLUT, o.res) = "ok"
             THEN /\ Update(t, [me EXCEPT !.pc = pc, !.did = @ \union Found(me)])
                  /\ wanted' = IF node.running = NewState(me) THEN Wants(t) ELSE wanted
                  /\ Blame(Overlap({d \in Relying(t) : thread[d].stopped}))
                  /\ UNCHANGED undone
             ELSE Finishes(t, me, "error") /\ Blame({"unread"}) /\ UNCHANGED wanted
  BY DEF Restore, Found, me
<1>5. node' = node /\ troubles' >= troubles
      /\ (ConvertErrorCode(AttReadLUT, o.res) = "ok" \/ Failed)
  BY <1>4, StatusIs
<1> HIDE DEF pc
<1>6. CASE ConvertErrorCode(AttReadLUT, o.res) = "ok"
  <2>1. /\ Alike(thread'[t], me) /\ thread'[t].todo = me.todo
        /\ thread'[t].did = me.did \union Found(me)
        /\ thread'[t].result = me.result /\ thread'[t].pc = pc /\ Others(t)
    <3> DEFINE new == [me EXCEPT !.pc = pc, !.did = @ \union Found(me)]
    <3>1. thread'[t] = new /\ Others(t) /\ me \in ThreadType
      BY <1>4, <1>6, UpdateIs DEF Others, Typed, TypeOK, me
    <3>2. /\ Alike(new, me) /\ new.todo = me.todo /\ new.did = me.did \union Found(me)
          /\ new.result = me.result /\ new.pc = pc
      BY <3>1 DEF ThreadType, Alike
    <3> HIDE DEF new
    <3>. QED
      BY <3>1, <3>2
  <2>2. /\ wanted' = IF node.running = NewState(me) THEN Wants(t) ELSE wanted
        /\ causes' = causes \union Overlap({d \in Relying(t) : thread[d].stopped})
        /\ undone' = undone
    BY <1>4, <1>6 DEF Blame
  <2>. QED
    BY <1>1, <1>2, <1>3, <1>5, <2>1, <2>2 DEF Grows, me, pc
<1>7. CASE ConvertErrorCode(AttReadLUT, o.res) # "ok"
  <2>1. Ends(t, me, "error") /\ causes' = causes \union {"unread"} /\ wanted' = wanted
    BY <1>4, <1>7, EndsIs DEF Blame
  <2>. QED
    BY <1>1, <1>2, <1>3, <1>5, <1>7, <2>1 DEF Grows, Ends, me
<1>. QED
  BY <1>6, <1>7

(* The address is read, and is assigned by a step of its own.               *)
ReadsOf(t, me) ==
  LET new == thread'[t]
  IN  /\ node' = node /\ Grows /\ Others(t)
      /\ \/ /\ Alike(new, me) /\ new.todo = me.todo /\ new.did = me.did
            /\ new.result = me.result /\ new.pc = "assign" /\ new.seen = <<node.address>>
            /\ UNCHANGED <<undone, causes>>
         \/ /\ Ends(t, me, me.result) /\ causes' = causes \union {"unread"}
LEMMA ReadsAre ==
  ASSUME Typed, NEW t \in Threads, NEW me \in ThreadType, Reads(t, me)
  PROVE  ReadsOf(t, me)
<1> DEFINE new == Reading(me)
<1>1. PICK o \in NetworkAddressRead :
        /\ Takes(o)
        /\ \/ Update(t, new) /\ UNCHANGED <<causes, undone>>
           \/ Finishes(t, me, me.result) /\ Blame({"unread"})
  BY DEF Reads, Reading
<1>2. node' = node /\ troubles' >= troubles
  <2>1. o.node = node /\ o.cost \in {0, 1} /\ troubles \in Nat
    BY SinkAssumption, AddressReadIs DEF Typed, TypeOK
  <2>2. node' = o.node /\ troubles' = troubles + o.cost
    BY <1>1 DEF Takes
  <2>. QED
    BY <2>1, <2>2
<1>3. /\ Alike(new, me) /\ new.todo = me.todo /\ new.did = me.did
      /\ new.result = me.result /\ new.pc = "assign" /\ new.seen = <<node.address>>
  BY DEF Reading, Alike, ThreadType
<1> HIDE DEF new
<1>4. CASE Update(t, new) /\ UNCHANGED <<causes, undone>>
  BY <1>2, <1>3, <1>4, UpdateIs DEF ReadsOf, Others, Grows
<1>5. CASE Finishes(t, me, me.result) /\ Blame({"unread"})
  <2>1. Ends(t, me, me.result) /\ causes' = causes \union {"unread"}
    BY <1>5, EndsIs DEF Blame
  <2>. QED
    BY <1>2, <2>1 DEF ReadsOf, Grows, Ends
<1>. QED
  BY <1>1, <1>4, <1>5

LEMMA ReadbackIs ==
  ASSUME Typed, NEW t \in Threads, Readback(t)
  PROVE  /\ Free /\ t \in Clients /\ At(t, "readback") /\ IsConfig(thread[t])
         /\ thread[t].todo = <<>> /\ ReadsOf(t, thread[t])
         /\ UNCHANGED <<address, signals, service, wanted, targeted>>
<1>1. At(t, "readback") /\ Free /\ Placed(t, thread[t]) /\ thread[t] \in ThreadType
      /\ Reads(t, thread[t])
  BY DEF Readback, CallsAt, Typed, TypeOK, PlaceInv
<1>2. t \in Clients /\ IsConfig(thread[t]) /\ thread[t].todo = <<>>
  BY <1>1, ClientsAreThreads DEF At, Placed
<1>. QED
  BY <1>1, <1>2, ReadsAre DEF Readback, sinkService

LEMMA OnStackStartedIs ==
  ASSUME Typed, OnStackStarted
  PROVE  /\ Free /\ Glib \in Threads /\ At(Glib, "idle") /\ ReadsOf(Glib, Idle)
         /\ signals > 0 /\ signals' = signals - 1
         /\ UNCHANGED <<address, service, wanted, targeted>>
<1>1. Reads(Glib, Idle) /\ Glib \in Threads /\ Idle \in ThreadType
  BY ClientsAreThreads, IdleIs DEF OnStackStarted
<1>. QED
  BY <1>1, ReadsAre DEF OnStackStarted, CallsAt, sinkService

LEMMA AssignIs ==
  ASSUME Typed, NEW t \in Threads, Assign(t)
  PROVE  /\ At(t, "assign") /\ Ends(t, thread[t], thread[t].result)
         /\ IsConfig(thread[t]) \/ (t = Glib /\ thread[t].request = NoRequest)
         /\ thread[t].todo = <<>>
         /\ node' = node /\ Grows
         /\ address' = node.address \/ "crossed" \in causes'
         /\ UNCHANGED <<signals, service, wanted, targeted>>
<1>1. At(t, "assign") /\ Placed(t, thread[t])
  BY DEF Assign, Typed, PlaceInv
<1>2. (IsConfig(thread[t]) \/ (t = Glib /\ thread[t].request = NoRequest)) /\ thread[t].todo = <<>>
  BY <1>1 DEF At, Placed
<1>3. Ends(t, thread[t], thread[t].result)
  BY EndsIs DEF Assign
<1>4. causes \subseteq causes' /\ (address' = node.address \/ "crossed" \in causes')
  BY DEF Assign, Blame
<1>5. troubles' >= troubles
  BY DEF Assign, Typed, TypeOK
<1>. QED
  BY <1>1, <1>2, <1>3, <1>4, <1>5 DEF Assign, Grows, sinkService

(* A default target is one that is asked for by its thread: its sequence,   *)
(* then its CRC, is read.                                                   *)
LEMMA DefaultTargetIs ==
  ASSUME Typed, NEW t \in Threads, DefaultTarget(t)
  PROVE  LET me == thread[t]
             new == thread'[t]
         IN  /\ Free /\ t \in Clients /\ Others(t)
             /\ UNCHANGED <<address, signals, service, node, troubles, wanted, causes, targeted,
                            undone>>
             /\ \/ /\ At(t, "idle") /\ new.pc = "crc" /\ new.seen = <<otap.stored>>
                   /\ Kind(new) = "target" /\ new.result = "ok"
                \/ /\ At(t, "crc") /\ new = Idle
                \/ /\ At(t, "crc") /\ new.pc = "target"
                   /\ new.seen = Append(me.seen, otap.stored)
                   /\ Kind(new) = "target" /\ new.result = me.result
<1>1. PICK me \in Calling(t, "sequence") \union Calling(t, "crc") :
        \/ /\ me.pc = "sequence" /\ UNCHANGED undone
           /\ Update(t, [me EXCEPT !.seen = Append(me.seen, otap.stored), !.pc = "crc"])
        \/ me.pc = "crc" /\ Finishes(t, me, "invalid_param")
        \/ /\ me.pc = "crc" /\ UNCHANGED undone
           /\ Update(t, [me EXCEPT !.seen = Append(me.seen, otap.stored), !.pc = "target"])
  <2>1. PICK me \in Calling(t, "sequence") \union Calling(t, "crc") :
          LET seen == Append(me.seen, LocalScratchpad)
          IN  CASE me.pc = "sequence" ->
                     Update(t, [me EXCEPT !.seen = seen, !.pc = "crc"]) /\ UNCHANGED undone
                [] me.pc = "crc" /\ seen[1] = 0 -> Finishes(t, me, "invalid_param")
                [] OTHER -> Update(t, [me EXCEPT !.seen = seen, !.pc = "target"])
                            /\ UNCHANGED undone
    BY DEF DefaultTarget
  <2>2. me.pc \in {"sequence", "crc"}
    BY CallingIs
  <2>3. CASE me.pc = "sequence"
    BY <2>1, <2>3 DEF LocalScratchpad
  <2>4. CASE me.pc = "crc" /\ Append(me.seen, LocalScratchpad)[1] = 0
    BY <2>1, <2>4
  <2>5. CASE me.pc = "crc" /\ Append(me.seen, LocalScratchpad)[1] # 0
    BY <2>1, <2>5 DEF LocalScratchpad
  <2>. QED
    BY <2>2, <2>3, <2>4, <2>5
<1>2. /\ t \in Clients /\ me \in ThreadType /\ Free /\ Kind(me) = "target"
      /\ me.pc = "sequence" => me.seen = <<>> /\ At(t, "idle") /\ me.result = "ok"
      /\ me.pc = "crc" => me = thread[t] /\ At(t, "crc")
  BY CallingIs DEF At
<1>3. UNCHANGED <<address, signals, service, node, troubles, wanted, causes, targeted>>
  BY DEF DefaultTarget, sinkService
<1> DEFINE seen == Append(me.seen, otap.stored)
<1>4. me.pc = "sequence" => seen = <<otap.stored>>
  <2>1. \A x \in Values : Append(<<>>, x) = <<x>>
    OBVIOUS
  <2>. QED
    BY <1>2, <2>1 DEF Typed, TypeOK
<1> HIDE DEF seen
<1>5. ASSUME NEW pc, Update(t, [me EXCEPT !.seen = seen, !.pc = pc])
      PROVE  /\ Others(t) /\ thread'[t].pc = pc /\ thread'[t].seen = seen
             /\ Kind(thread'[t]) = "target" /\ thread'[t].result = me.result
  <2> DEFINE new == [me EXCEPT !.seen = seen, !.pc = pc]
  <2>1. thread'[t] = new /\ Others(t)
    BY <1>5, UpdateIs DEF Others
  <2>2. new.pc = pc /\ new.seen = seen /\ Kind(new) = "target" /\ new.result = me.result
    BY <1>2 DEF ThreadType, Kind
  <2> HIDE DEF new
  <2>. QED
    BY <2>1, <2>2
<1>6. CASE me.pc = "sequence" /\ UNCHANGED undone /\ Update(t, [me EXCEPT !.seen = seen, !.pc = "crc"])
  BY <1>2, <1>3, <1>4, <1>5, <1>6
<1>7. CASE me.pc = "crc" /\ Finishes(t, me, "invalid_param")
  BY <1>2, <1>3, <1>7, EndsIs DEF Ends
<1>8. CASE me.pc = "crc" /\ UNCHANGED undone /\ Update(t, [me EXCEPT !.seen = seen, !.pc = "target"])
  <2>1. /\ Others(t) /\ thread'[t].pc = "target" /\ thread'[t].seen = seen
        /\ Kind(thread'[t]) = "target" /\ thread'[t].result = me.result
    BY <1>5, <1>8
  <2>2. seen = Append(thread[t].seen, otap.stored)
    BY <1>2, <1>8 DEF seen
  <2>. QED
    BY <1>2, <1>3, <1>8, <2>1, <2>2
<1>. QED
  BY <1>1, <1>6, <1>7, <1>8 DEF seen

LEMMA SetTargetIs ==
  ASSUME Typed, NEW t \in Threads, SetTarget(t)
  PROVE  /\ Free /\ At(t, "target") /\ thread'[t] = Idle /\ Others(t)
         /\ targeted' = [seq |-> thread[t].seen[1], crc |-> thread[t].seen[2],
                         stored |-> node.stored]
         /\ node' = node /\ Grows
         /\ UNCHANGED <<address, signals, service, wanted, causes, undone>>
<1>1. At(t, "target") /\ Free /\ Placed(t, thread[t])
  BY DEF SetTarget, CallsAt, Typed, PlaceInv
<1>2. PICK o \in TargetWrite :
        Takes(o) /\ Finishes(t, thread[t], ConvertErrorCode(TargetLUT, o.res))
  BY DEF SetTarget
<1>3. node' = node /\ troubles' >= troubles
  <2>1. o.node = node /\ o.cost \in {0, 1} /\ troubles \in Nat
    BY SinkAssumption, ReadsNothingElse DEF Typed, TypeOK
  <2>2. node' = o.node /\ troubles' = troubles + o.cost
    BY <1>2 DEF Takes
  <2>. QED
    BY <2>1, <2>2
<1>4. Asked(thread[t]) = {} /\ undone \subseteq Work
  BY <1>1 DEF At, Placed, Kind, Asked, Typed, TypeOK
<1>5. Ends(t, thread[t], ConvertErrorCode(TargetLUT, o.res))
  BY <1>2, EndsIs
<1>6. undone' = undone
  <2> DEFINE result == ConvertErrorCode(TargetLUT, o.res)
  <2>1. undone' = IF result = "ok" THEN undone \union ({} \ thread[t].did) ELSE undone
    BY <1>4, <1>5 DEF Ends
  <2> HIDE DEF result
  <2>. QED
    BY <2>1
<1>. QED
  BY <1>1, <1>3, <1>5, <1>6 DEF SetTarget, Ends, Grows, sinkService

LEMMA CallerIs ==
  ASSUME Typed, NEW t \in Threads, Call(t)
  PROVE  LET me == thread[t]
             new == thread'[t]
         IN  /\ new.pc = me.pc /\ new.request = me.request /\ new.number = me.number
             /\ new.captured = me.captured /\ new.stopped = (me.stopped \/ me.pc = "stop")
             /\ new.todo = me.todo /\ new.did = me.did /\ new.result = me.result
             /\ Others(t)
             /\ wanted' = IF me.pc = "change" THEN Wants(t) ELSE wanted
             /\ causes' = causes \union (IF me.pc = "work" THEN {} ELSE Overlap(Relying(t)))
             /\ UNCHANGED <<address, signals, undone, targeted, troubles>>
<1> DEFINE me == thread[t]
           new == [me EXCEPT !.stopped = @ \/ me.pc = "stop"]
<1>1. thread'[t] = new /\ Others(t) /\ me \in ThreadType
  BY UpdateIs DEF Call, Others, Typed, TypeOK
<1>2. /\ new.pc = me.pc /\ new.request = me.request /\ new.number = me.number
      /\ new.captured = me.captured /\ new.stopped = (me.stopped \/ me.pc = "stop")
      /\ new.todo = me.todo /\ new.did = me.did /\ new.result = me.result
  BY <1>1 DEF ThreadType
<1> HIDE DEF new
<1>. QED
  BY <1>1, <1>2 DEF Call, Blame

(* The reply, in the fields of its caller.                                  *)
LEMMA AnswersAre ==
  ASSUME Typed, NEW good \in BOOLEAN, Reply(good), service.caller # Nobody
  PROVE  LET t == service.caller
             me == thread[t]
             new == thread'[t]
         IN  /\ t \in Clients /\ t \in Threads /\ Others(t) /\ Waits(me)
             /\ service' = NoCall /\ service.task = Called(me)
             /\ \/ /\ me.pc \in {"stop", "change"} /\ undone' = undone
                   /\ Alike(new, me) /\ new.todo = me.todo
                   /\ new.did = IF me.pc = "stop" THEN me.did ELSE me.did \union service.did
                   /\ new.result = me.result
                   /\ new.pc = IF me.pc = "stop" THEN "work" ELSE "readback"
                \/ me.pc = "restart" /\ Ends(t, Served(t), me.result)
                \/ /\ me.pc = "work" /\ me.stopped /\ undone' = undone
                   /\ Alike(new, me) /\ new.did = me.did \union service.did
                   /\ new.result = (IF good THEN me.result ELSE "error")
                   /\ new.pc = "restart"
                \/ /\ me.pc = "work" /\ ~me.stopped
                   /\ Ends(t, Served(t), IF good THEN me.result ELSE "error")
             /\ Served(t).request = me.request /\ Served(t).did = me.did \union service.did
             /\ Served(t).stopped = me.stopped
<1> DEFINE t == service.caller
           me == thread[t]
<1>1. /\ t \in Clients /\ t \in Threads
      /\ me \in ThreadType /\ Waits(me) /\ Served(t) \in ThreadType /\ Judged(t, good) \in ThreadType
      /\ me.pc = "stop" => Moves(t, "work") /\ UNCHANGED undone
      /\ me.pc = "change" => Update(t, [Served(t) EXCEPT !.pc = "readback"]) /\ UNCHANGED undone
      /\ me.pc = "restart" => Finishes(t, Served(t), Served(t).result)
      /\ me.pc = "work" /\ me.stopped =>
           Update(t, [Judged(t, good) EXCEPT !.pc = "restart"]) /\ UNCHANGED undone
      /\ me.pc = "work" /\ ~me.stopped => Finishes(t, Served(t), Judged(t, good).result)
  BY ReplyCases
<1>2. /\ Served(t).request = me.request /\ Served(t).did = me.did \union service.did
      /\ Served(t).result = me.result /\ Served(t).stopped = me.stopped
      /\ Judged(t, good).did = me.did \union service.did
      /\ Judged(t, good).result = (IF good THEN me.result ELSE "error")
      /\ Alike(Judged(t, good), me)
  BY <1>1 DEF Served, Judged, ThreadType, Alike
<1>3. service' = NoCall /\ service.task = Called(me)
  BY DEF Reply, Typed, CallerInv
<1>4. CASE me.pc \in {"stop", "change"}
  <2>1. CASE me.pc = "stop"
    BY <1>1, <1>2, <1>3, <2>1, MovesIs
  <2>2. CASE me.pc = "change"
    <3> DEFINE new == [Served(t) EXCEPT !.pc = "readback"]
    <3>1. thread'[t] = new /\ Others(t) /\ undone' = undone
      BY <1>1, <2>2, UpdateIs DEF Others
    <3>2. /\ Alike(new, me) /\ new.todo = me.todo /\ new.did = me.did \union service.did
          /\ new.result = me.result /\ new.pc = "readback"
      BY <1>1, <1>2 DEF ThreadType, Alike, Served
    <3> HIDE DEF new
    <3>. QED
      BY <1>1, <1>2, <1>3, <2>2, <3>1, <3>2
  <2>. QED
    BY <1>4, <2>1, <2>2
<1>5. CASE me.pc = "restart"
  <2>1. Ends(t, Served(t), me.result)
    BY <1>1, <1>2, <1>5, EndsIs
  <2>. QED
    BY <1>1, <1>2, <1>3, <1>5, <2>1 DEF Ends
<1>6. CASE me.pc = "work" /\ me.stopped
  <2> DEFINE new == [Judged(t, good) EXCEPT !.pc = "restart"]
  <2>1. thread'[t] = new /\ Others(t) /\ undone' = undone
    BY <1>1, <1>6, UpdateIs DEF Others
  <2>2. /\ Alike(new, me) /\ new.did = me.did \union service.did
        /\ new.result = (IF good THEN me.result ELSE "error") /\ new.pc = "restart"
    BY <1>1, <1>2 DEF ThreadType, Alike
  <2> HIDE DEF new
  <2>. QED
    BY <1>1, <1>2, <1>3, <1>6, <2>1, <2>2
<1>7. CASE me.pc = "work" /\ ~me.stopped
  <2>1. Ends(t, Served(t), IF good THEN me.result ELSE "error")
    BY <1>1, <1>2, <1>7, EndsIs
  <2>. QED
    BY <1>1, <1>2, <1>3, <1>7, <2>1 DEF Ends
<1>. QED
  BY <1>1, <1>4, <1>5, <1>6, <1>7 DEF Waits

-----------------------------------------------------------------------------
(* What is reported done has been done.                                     *)

Lost == "lost_stop" \in causes
Left(me) == {me.todo[i] : i \in DOMAIN me.todo}

Pending(me) == IF me.pc \in {"readback", "assign"} THEN {} ELSE {"stack"}

(* A configuration without an error so far has written all but what is      *)
(* left, and its state of the stack when it has come to the read back; an   *)
(* operation that restores the stack has been executed.                     *)
Honest(me, excused) ==
  /\ IsConfig(me) /\ me.result = "ok" =>
       Asked(me) \subseteq me.did \union Left(me) \union Pending(me) \union excused
  /\ me.pc = "restart" /\ me.result = "ok" => Kind(me) \in me.did \union excused
HonestInv == \A t \in Clients : Honest(thread[t], Excused)

(* Blocks are loaded for the upload that is served; when it is read back    *)
(* the last one has been stored.                                            *)
LoadInv ==
  Serving("upload", "block") => node.loading = NotLoading \/ node.loading.seq = service.seq
UploadInv == Serving("upload", "read") => service.did = {"upload"}

(* From the mark to the boot that processes the scratchpad, then to the     *)
(* reply.                                                                   *)
Processed == service.did = {"process"}
ProcessInv ==
  service.task = "process" /\ ~Lost =>
    /\ service.step = "request" => node.marked \/ Processed
    /\ service.step = "wait" => (node.marked \/ Processed) /\ (~node.up \/ Processed)
    /\ service.step = "resume" /\ service.ok => Processed
    /\ service.step = "read" => Processed

(* From the request of a start or a stop to the reply.                      *)
StackServed == Serving("start", "autostart") \/ Serving("stop", "wait") \/ Serving("stop", "resume")
StackDoneInv == StackServed => "stack" \in service.did \union Excused

Truthful == HonestInv /\ LoadInv /\ UploadInv /\ ProcessInv /\ StackDoneInv /\ OkMeansDone

LEMMA ExcusedGrows ==
  ASSUME causes \subseteq causes'
  PROVE  Excused \subseteq Excused'
BY DEF Excused, Without

LEMMA LostIsExcused == Lost => "process" \in Excused
BY DEF Lost, Excused

LEMMA LeftIs ==
  ASSUME NEW s \in Seq(Items), s # <<>>
  PROVE  /\ Tail(s) \in Seq(Items)
         /\ {s[i] : i \in DOMAIN s} \subseteq {Head(s)} \union {Tail(s)[i] : i \in DOMAIN Tail(s)}
<1>1. Tail(s) \in Seq(Items) /\ Len(Tail(s)) = Len(s) - 1 /\ Len(s) \in Nat
  OBVIOUS
<1>2. ASSUME NEW i \in DOMAIN s PROVE s[i] = Head(s) \/ \E j \in DOMAIN Tail(s) : s[i] = Tail(s)[j]
  <2>1. CASE i = 1
    BY <2>1
  <2>2. CASE i # 1
    <3>1. i \in 2 .. Len(s)
      BY <2>2
    <3>2. i - 1 \in DOMAIN Tail(s) /\ Tail(s)[i - 1] = s[i]
      BY <3>1
    <3>. QED
      BY <3>2
  <2>. QED
    BY <2>1, <2>2
<1>. QED
  BY <1>1, <1>2

LEMMA HonestStays ==
  ASSUME NEW me, NEW new, NEW excused, NEW later, Honest(me, excused), excused \subseteq later,
         new.request = me.request, new.todo = me.todo, me.did \subseteq new.did,
         new.result = me.result,
         \/ new.pc = me.pc \/ new.pc \notin {"restart", "readback", "assign"}
         \/ me.pc = "readback" /\ new.pc = "assign"
         \/ "stack" \in new.did \union later /\ new.pc # "restart"
  PROVE  Honest(new, later)
<1>1. Left(new) = Left(me) /\ Kind(new) = Kind(me) /\ IsConfig(new) = IsConfig(me)
  BY DEF Left, Kind, IsConfig
<1>2. IsConfig(me) => Asked(new) = Asked(me)
  BY DEF IsConfig, Asked
<1>3. IsConfig(new) /\ new.result = "ok" =>
        Asked(new) \subseteq new.did \union Left(new) \union Pending(new) \union later
  <2>1. Pending(me) \subseteq Pending(new) \union new.did \union later
    BY DEF Pending
  <2>. QED
    BY <1>1, <1>2, <2>1 DEF Honest
<1>. QED
  BY <1>1, <1>3 DEF Honest

LEMMA HonestIdle ==
  ASSUME NEW excused
  PROVE  Honest(Idle, excused)
BY IdleIs DEF Honest, IsConfig, NoRequest

(* One thread moves; the others stay honest.                                *)
LEMMA HonestOthers ==
  ASSUME HonestInv, NEW t \in Threads, Others(t), causes \subseteq causes',
         t \in Clients => Honest(thread'[t], Excused')
  PROVE  HonestInv'
<1>1. Excused \subseteq Excused'
  BY ExcusedGrows
<1>2. ASSUME NEW d \in Clients PROVE Honest(thread'[d], Excused')
  <2>1. CASE d = t
    BY <2>1
  <2>2. CASE d # t
    <3>1. thread'[d] = thread[d] /\ Honest(thread[d], Excused)
      BY <2>2, ClientsAreThreads DEF Others, HonestInv
    <3>. QED
      BY <1>1, <3>1, HonestStays
  <2>. QED
    BY <2>1, <2>2
<1>. QED
  BY <1>2 DEF HonestInv

Reported == undone' \subseteq undone \union Excused

(* What a configuration reports done, or the read of a signal, is done.     *)
LEMMA ConfigEnds ==
  ASSUME Typed, HonestInv, NEW t \in Threads, NEW me, NEW result, Ends(t, me, result),
         me.todo = <<>>, me.result = result,
         \/ me = thread[t] /\ IsConfig(me) /\ t \in Clients /\ me.pc \in {"readback", "assign"}
         \/ me.request = NoRequest
  PROVE  Reported
<1>1. CASE me.request = NoRequest
  BY <1>1 DEF Ends, Asked, NoRequest, Typed, TypeOK, Reported
<1>2. CASE me = thread[t] /\ IsConfig(me) /\ t \in Clients /\ me.pc \in {"readback", "assign"}
  <2>1. Left(me) = {} /\ Pending(me) = {}
    BY <1>2 DEF Left, Pending
  <2>2. result = "ok" => Asked(me) \subseteq me.did \union Excused
    BY <1>2, <2>1 DEF HonestInv, Honest
  <2>. QED
    BY <2>2 DEF Ends, Reported
<1>. QED
  BY <1>1, <1>2

LEMMA ClientHonest ==
  ASSUME Typed, HonestInv, ClientStep
  PROVE  HonestInv' /\ Reported
<1>1. undone' = undone => Reported
  BY DEF Reported
<1>2. causes \subseteq causes' /\ Excused \subseteq Excused'
  BY ClientStepIs, ExcusedGrows
<1>3. ASSUME NEW t \in Threads, NEW me \in {thread[t]}, me.request = thread[t].request,
             t \in Clients, NEW new, new = thread'[t],
             new.request = me.request, new.todo = me.todo, me.did \subseteq new.did,
             new.result = me.result,
             \/ new.pc = me.pc \/ new.pc \notin {"restart", "readback", "assign"}
             \/ me.pc = "readback" /\ new.pc = "assign"
             \/ "stack" \in new.did /\ new.pc # "restart"
      PROVE  Honest(thread'[t], Excused')
  <2>1. Honest(me, Excused)
    BY <1>3 DEF HonestInv
  <2>2. Honest(new, Excused')
    BY <1>2, <1>3, <2>1, HonestStays
  <2>. QED
    BY <1>3, <2>2
<1>4. ASSUME NEW t \in Threads, Capture(t) PROVE HonestInv' /\ Reported
  <2>1. /\ t \in Clients /\ Others(t) /\ undone' = undone
        /\ \/ thread'[t] = Idle
           \/ LET new == thread'[t]
              IN  /\ IsConfig(new) /\ new.request \in Requests /\ new.todo = new.request.items
                  /\ new.pc = Continues(new.todo) /\ new.did = {}
    BY <1>4, CaptureIs
  <2>2. Honest(thread'[t], Excused')
    <3>1. CASE thread'[t] = Idle
      BY <1>1, <3>1, HonestIdle
    <3>2. CASE thread'[t] # Idle
      <4> DEFINE new == thread'[t]
      <4>1. /\ IsConfig(new) /\ new.request \in Requests /\ new.todo = new.request.items
            /\ new.pc = Continues(new.todo) /\ new.did = {}
        BY <2>1, <3>2
      <4>2. new.pc \notin {"restart", "readback", "assign"}
        BY <4>1 DEF Continues
      <4>3. Asked(new) = Left(new) \union Pending(new)
        BY <4>1, <4>2 DEF Asked, Left, IsConfig, Pending
      <4>. QED
        BY <4>2, <4>3 DEF Honest
    <3>. QED
      BY <3>1, <3>2
  <2>. QED
    BY <1>1, <1>2, <2>1, <2>2, HonestOthers
<1>5. ASSUME NEW t \in Threads, Check(t) PROVE HonestInv' /\ Reported
  <2>1. /\ t \in Clients /\ Others(t) /\ undone' = undone
    BY <1>5, CheckIs
  <2>2. PICK me \in ThreadType :
          /\ (IsConfig(me) /\ me.todo # <<>>) \/ Kind(me) \in {"upload", "process"}
          /\ \/ me = thread[t] /\ At(t, "check")
             \/ At(t, "idle") /\ Kind(me) \in {"upload", "process"}
          /\ LET new == thread'[t]
             IN  \/ /\ Alike(new, me) /\ new.todo = me.todo
                    /\ new.did = me.did /\ new.result = me.result
                    /\ new.pc = IF node.running THEN "stop" ELSE "work"
                 \/ /\ new.result = "error"
                 \/ new = Idle
    BY <1>5, CheckIs
  <2>3. Honest(thread'[t], Excused')
    <3>1. CASE thread'[t] = Idle
      BY <1>1, <3>1, HonestIdle
    <3>2. CASE thread'[t].result = "error"
      BY <3>2 DEF Honest
    <3>3. CASE /\ Alike(thread'[t], me) /\ thread'[t].todo = me.todo
               /\ thread'[t].did = me.did /\ thread'[t].result = me.result
               /\ thread'[t].pc = IF node.running THEN "stop" ELSE "work"
      <4>1. CASE me = thread[t]
        BY <1>3, <2>1, <3>3, <4>1 DEF Alike
      <4>2. CASE Kind(me) \in {"upload", "process"}
        BY <3>3, <4>2 DEF Alike, Honest, IsConfig, Kind
      <4>. QED
        BY <2>2, <4>1, <4>2
    <3>. QED
      BY <2>2, <3>1, <3>2, <3>3
  <2>. QED
    BY <1>1, <1>2, <2>1, <2>3, HonestOthers
<1>6. ASSUME NEW t \in Threads, WriteItem(t) PROVE HonestInv' /\ Reported
  <2> DEFINE me == thread[t]
             new == thread'[t]
  <2>1. /\ t \in Clients /\ Others(t) /\ IsConfig(me) /\ undone' = undone
        /\ me.todo # <<>> /\ me.todo \in Seq(Items)
        /\ new.request = me.request /\ new.todo = Tail(me.todo) /\ new.pc = Continues(new.todo)
        /\ \/ new.result = me.result /\ new.did = me.did \union {Head(me.todo)}
           \/ new.result = "error"
    BY <1>6, WriteItemIs DEF Alike
  <2>2. Honest(me, Excused) /\ new.pc \notin {"restart", "readback", "assign"}
        /\ IsConfig(new) /\ Asked(new) = Asked(me)
    BY <2>1 DEF HonestInv, Continues, IsConfig, Asked
  <2>3. Left(me) \subseteq {Head(me.todo)} \union Left(new)
    BY <2>1, LeftIs DEF Left
  <2> HIDE DEF me, new
  <2>4. Honest(new, Excused')
    <3>1. Pending(new) = {"stack"} /\ Pending(me) \subseteq {"stack"}
      BY <2>2 DEF Pending
    <3>. QED
      BY <1>2, <2>1, <2>2, <2>3, <3>1 DEF Honest
  <2>. QED
    BY <1>1, <1>2, <2>1, <2>4, HonestOthers DEF new
<1>7. ASSUME NEW t \in Threads, Restore(t) PROVE HonestInv' /\ Reported
  <2>1. /\ t \in Clients /\ Others(t) /\ undone' = undone
        /\ \/ /\ Alike(thread'[t], thread[t]) /\ thread'[t].todo = thread[t].todo
              /\ thread'[t].result = thread[t].result
              /\ thread[t].did \subseteq thread'[t].did
              /\ thread'[t].pc = "change" \/ (thread'[t].pc = "readback" /\ "stack" \in thread'[t].did)
           \/ thread'[t] = Idle
    BY <1>7, RestoreIs DEF Found
  <2>2. Honest(thread'[t], Excused')
    BY <1>1, <1>3, <2>1, HonestIdle DEF Alike
  <2>. QED
    BY <1>1, <1>2, <2>1, <2>2, HonestOthers
<1>8. ASSUME NEW t \in Threads, Readback(t) PROVE HonestInv' /\ Reported
  <2>1. t \in Clients /\ IsConfig(thread[t]) /\ thread[t].todo = <<>> /\ ReadsOf(t, thread[t])
        /\ thread[t].pc = "readback"
    BY <1>8, ReadbackIs DEF Readback, CallsAt, At
  <2>2. CASE Ends(t, thread[t], thread[t].result)
    <3>1. Reported /\ thread'[t] = Idle /\ Others(t)
      BY <2>1, <2>2, ConfigEnds DEF Ends, At
    <3>. QED
      BY <1>1, <1>2, <3>1, HonestIdle, HonestOthers
  <2>3. CASE ~Ends(t, thread[t], thread[t].result)
    <3>1. /\ Alike(thread'[t], thread[t]) /\ thread'[t].todo = thread[t].todo
          /\ thread'[t].did = thread[t].did /\ thread'[t].result = thread[t].result
          /\ thread'[t].pc = "assign" /\ undone' = undone /\ Others(t)
      BY <2>1, <2>3 DEF ReadsOf
    <3>2. Honest(thread'[t], Excused')
      BY <1>3, <2>1, <3>1 DEF Alike
    <3>. QED
      BY <1>1, <1>2, <3>1, <3>2, HonestOthers
  <2>. QED
    BY <2>2, <2>3
<1>9. ASSUME OnStackStarted PROVE HonestInv' /\ Reported
  <2>1. ReadsOf(Glib, Idle) /\ Glib \in Threads /\ Glib \notin Clients /\ Idle.todo = <<>>
        /\ Idle.request = NoRequest
    BY <1>9, OnStackStartedIs, ClientsAreThreads, IdleIs DEF Idle
  <2>2. Reported /\ Others(Glib)
    BY <1>1, <2>1, ConfigEnds DEF ReadsOf
  <2>. QED
    BY <1>1, <1>2, <2>1, <2>2, HonestOthers
<1>10. ASSUME NEW t \in Threads, Assign(t) PROVE HonestInv' /\ Reported
  <2>1. /\ Ends(t, thread[t], thread[t].result) /\ thread[t].todo = <<>>
        /\ IsConfig(thread[t]) \/ (t = Glib /\ thread[t].request = NoRequest)
        /\ thread[t].pc = "assign"
    BY <1>10, AssignIs DEF Assign, At
  <2>2. Reported
    <3>1. t \in Clients \/ t = Glib
      BY ClientsAreThreads
    <3>2. t = Glib => thread[t].request = NoRequest
      BY DEF Typed, PlaceInv, Placed
    <3>. QED
      BY <2>1, <3>1, <3>2, ConfigEnds
  <2>. QED
    BY <1>1, <1>2, <2>1, <2>2, HonestIdle, HonestOthers DEF Ends
<1>11. ASSUME NEW t \in Threads, DefaultTarget(t) PROVE HonestInv' /\ Reported
  <2>1. /\ Others(t) /\ undone' = undone
        /\ thread'[t] = Idle \/ (Kind(thread'[t]) = "target" /\ thread'[t].pc \in {"crc", "target"})
    BY <1>11, DefaultTargetIs
  <2>2. Honest(thread'[t], Excused')
    BY <1>1, <2>1, HonestIdle DEF Honest, IsConfig, Kind
  <2>. QED
    BY <1>1, <1>2, <2>1, <2>2, HonestOthers
<1>12. ASSUME NEW t \in Threads, SetTarget(t) PROVE HonestInv' /\ Reported
  BY <1>1, <1>2, <1>12, SetTargetIs, HonestIdle, HonestOthers
<1>13. ASSUME NEW t \in Threads, Call(t) PROVE HonestInv' /\ Reported
  <2>1. /\ thread'[t].pc = thread[t].pc /\ thread'[t].request = thread[t].request
        /\ thread'[t].todo = thread[t].todo /\ thread'[t].did = thread[t].did
        /\ thread'[t].result = thread[t].result /\ Others(t) /\ undone' = undone /\ t \in Clients
    BY <1>13, CallerIs, CallIs
  <2>2. Honest(thread'[t], Excused')
    BY <1>3, <2>1
  <2>. QED
    BY <1>1, <1>2, <2>1, <2>2, HonestOthers
<1>. QED
  BY <1>4, <1>5, <1>6, <1>7, <1>8, <1>9, <1>10, <1>11, <1>12, <1>13 DEF ClientStep, ThreadStep

(* A cause is never taken back.                                             *)
LEMMA StepCauses ==
  ASSUME Typed, Next
  PROVE  causes \subseteq causes'
<1>1. CASE ClientStep
  BY <1>1, ClientStepIs
<1>2. CASE ServiceStep
  <2>1. CASE ReadScratchpad \/ OtapInit
    BY <2>1, RereadIs DEF ReadScratchpad, OtapInit
  <2>2. CASE Register \/ ConfigRead \/ ConfigStore
    BY <2>2 DEF Register, history, ConfigRead, ConfigStore, Blame
  <2>. QED
    BY <1>2, <2>1, <2>2, StartStackIs, SetAutostartIs, ClearAutostartIs, StopRequestIs, StopWaitIs,
       StopDoneIs, UploadBeginIs, UploadBlockIs, UpdateScratchpadIs
    DEF ServiceStep, Grows
<1>3. CASE NodeReboots
  BY <1>3, NodeRebootsIs
<1>4. CASE TransportDies \/ NodeBoots
  BY <1>4 DEF TransportDies, NodeBoots, Blame, history
<1>. QED
  BY <1>1, <1>2, <1>3, <1>4, BootIndicationIs DEF Next, ClientStep

(* A reply that says a scratchpad was loaded or processed tells the truth.  *)
LEMMA ReplyHonest ==
  ASSUME Typed, HonestInv, NEW good \in BOOLEAN, Reply(good), causes \subseteq causes',
         good /\ service.task \in {"upload", "process"} => service.task \in service.did \union Excused,
         service.task \in {"start", "stop"} => "stack" \in service.did \union Excused
  PROVE  HonestInv' /\ Reported
<1>1. Excused \subseteq Excused'
  BY ExcusedGrows
<1>2. CASE service.caller = Nobody
  <2>1. thread' = thread /\ undone' = undone
    BY <1>2 DEF Reply
  <2>2. \A t \in Clients : Honest(thread'[t], Excused')
    BY <1>1, <2>1, HonestStays DEF HonestInv
  <2>. QED
    BY <2>1, <2>2 DEF HonestInv, Reported
<1>3. CASE service.caller # Nobody
  <2> DEFINE t == service.caller
             me == thread[t]
             new == thread'[t]
             result == IF good THEN me.result ELSE "error"
  <2>1. /\ t \in Clients /\ t \in Threads /\ Others(t) /\ Waits(me) /\ service.task = Called(me)
        /\ \/ /\ me.pc \in {"stop", "change"} /\ undone' = undone
              /\ Alike(new, me) /\ new.todo = me.todo
              /\ new.did = IF me.pc = "stop" THEN me.did ELSE me.did \union service.did
              /\ new.result = me.result
              /\ new.pc = IF me.pc = "stop" THEN "work" ELSE "readback"
           \/ me.pc = "restart" /\ Ends(t, Served(t), me.result)
           \/ /\ me.pc = "work" /\ undone' = undone
              /\ Alike(new, me) /\ new.did = me.did \union service.did
              /\ new.result = result
              /\ new.pc = "restart"
           \/ me.pc = "work" /\ ~me.stopped /\ Ends(t, Served(t), result)
        /\ Served(t).request = me.request /\ Served(t).did = me.did \union service.did
        /\ Served(t).stopped = me.stopped
    BY <1>3, AnswersAre
  <2>2. /\ Honest(me, Excused)
        /\ me.pc \in {"work", "restart"} => Kind(me) \in {"upload", "process"} /\ ~IsConfig(me)
    BY <2>1 DEF HonestInv, Typed, PlaceInv, Placed, Waits, IsConfig, Kind
  <2>3. me.pc = "work" => service.task = Kind(me)
    BY <2>1 DEF Called, Kind
  <2>4. me.pc \in {"work", "restart"} =>
          /\ Asked(Served(t)) \subseteq {Kind(me), "stack"}
          /\ ~me.stopped => Asked(Served(t)) = {Kind(me)}
    BY <2>1, <2>2 DEF Asked, Kind
  <2>5. me.pc = "work" /\ result = "ok" => Kind(me) \in service.did \union Excused
    BY <2>2, <2>3
  <2>10. me.pc \in {"change", "restart"} => "stack" \in service.did \union Excused
    BY <2>1 DEF Called
  <2> HIDE DEF t, me, new, result
  <2>6. CASE /\ me.pc \in {"stop", "change"} /\ undone' = undone
             /\ Alike(new, me) /\ new.todo = me.todo
             /\ new.did = IF me.pc = "stop" THEN me.did ELSE me.did \union service.did
             /\ new.result = me.result
             /\ new.pc = IF me.pc = "stop" THEN "work" ELSE "readback"
    <3>1. Honest(new, Excused')
      <4>1. new.request = me.request /\ me.did \subseteq new.did
            /\ (new.pc = "work" \/ "stack" \in new.did \union Excused') /\ new.pc # "restart"
        BY <1>1, <2>6, <2>10 DEF Alike
      <4>. QED
        BY <1>1, <2>2, <2>6, <4>1, HonestStays
    <3>. QED
      BY <2>1, <2>6, <3>1, HonestOthers DEF new, Reported
  <2>7. CASE me.pc = "restart" /\ Ends(t, Served(t), me.result)
    <3>1. me.result = "ok" => Kind(me) \in me.did \union Excused
      BY <2>2, <2>7 DEF Honest
    <3>2. me.result = "ok" => Asked(Served(t)) \ (me.did \union service.did) \subseteq Excused
      BY <2>4, <2>7, <2>10, <3>1
    <3>3. Reported
      BY <2>1, <2>7, <3>2 DEF Ends, Reported
    <3>. QED
      BY <1>1, <2>1, <2>7, <3>3, HonestIdle, HonestOthers DEF Ends
  <2>8. CASE /\ me.pc = "work" /\ undone' = undone
             /\ Alike(new, me) /\ new.did = me.did \union service.did
             /\ new.result = result
             /\ new.pc = "restart"
    <3>1. Honest(new, Excused')
      BY <1>1, <2>2, <2>5, <2>8 DEF Alike, Honest, IsConfig, Kind
    <3>. QED
      BY <2>1, <2>8, <3>1, HonestOthers DEF new, Reported
  <2>9. CASE me.pc = "work" /\ ~me.stopped /\ Ends(t, Served(t), result)
    <3>1. result = "ok" => Asked(Served(t)) \ (me.did \union service.did) \subseteq Excused
      BY <2>4, <2>5, <2>9
    <3>2. Reported
      BY <2>1, <2>9, <3>1 DEF Ends, Reported
    <3>. QED
      BY <1>1, <2>1, <2>9, <3>2, HonestIdle, HonestOthers DEF Ends
  <2>. QED
    BY <2>1, <2>6, <2>7, <2>8, <2>9
<1>. QED
  BY <1>2, <1>3

(* No thread moves.                                                         *)
LEMMA HonestStill ==
  ASSUME Typed, HonestInv, causes \subseteq causes', UNCHANGED <<thread, undone>>
  PROVE  HonestInv' /\ Reported
<1>1. \A t \in Clients : Honest(thread'[t], Excused')
  BY ExcusedGrows, HonestStays DEF HonestInv
<1>. QED
  BY <1>1 DEF HonestInv, Reported

(* The loading and the processing, up to the reply.                         *)
Loading == LoadInv /\ UploadInv /\ ProcessInv /\ StackDoneInv
LEMMA LoadingEnds ==
  ASSUME service' = NoCall
  PROVE  Loading'
BY NoCallIs DEF Loading, LoadInv, UploadInv, ProcessInv, StackDoneInv, StackServed, Serving

LEMMA LoadingElse ==
  ASSUME service'.task \notin {"upload", "process"}, StackDoneInv'
  PROVE  Loading'
BY DEF Loading, LoadInv, UploadInv, ProcessInv, Serving

LEMMA ServiceHonest ==
  ASSUME Typed, Truthful, ServiceStep
  PROVE  HonestInv' /\ Loading' /\ Reported
<1>1. HonestInv /\ LoadInv /\ UploadInv /\ ProcessInv /\ StackDoneInv
      /\ service \in ServiceType /\ node \in NodeType
  BY DEF Truthful, Typed, TypeOK
<1>2. ASSUME causes \subseteq causes', UNCHANGED <<thread, undone>>,
             service'.task \notin {"upload", "process"}, StackDoneInv'
      PROVE  HonestInv' /\ Loading' /\ Reported
  BY <1>1, <1>2, HonestStill, LoadingElse
<1>3. ASSUME causes \subseteq causes', NEW good \in BOOLEAN, Reply(good),
             ~good \/ service.task \notin {"upload", "process"},
             service.task \in {"start", "stop"} => StackServed
      PROVE  HonestInv' /\ Loading' /\ Reported
  BY <1>1, <1>3, ReplyHonest, LoadingEnds DEF Reply, StackDoneInv
<1>4. CASE StartStack
  <2>1. /\ causes \subseteq causes' /\ UNCHANGED <<thread, undone>> /\ service'.task = "start"
        /\ "stack" \in service'.did \/ "not_started" \in causes'
    BY <1>4, StartStackIs DEF Grows, SameCall, Serving
  <2>2. StackDoneInv'
    BY <2>1 DEF StackDoneInv, Excused, Without
  <2>. QED
    BY <1>2, <2>1, <2>2
<1>5. CASE SetAutostart
  <2>1. causes \subseteq causes' /\ Reply(service.ok) /\ service.task = "start"
        /\ service.ok \in BOOLEAN /\ StackServed
    BY <1>1, <1>5, SetAutostartIs DEF Grows, Serving, ServiceType, StackServed
  <2>. QED
    BY <1>3, <2>1
<1>6. CASE ClearAutostart
  <2>1. /\ causes \subseteq causes' /\ UNCHANGED <<thread, undone>>
        /\ service'.task = "stop" /\ service'.step = "request"
    BY <1>6, ClearAutostartIs DEF Grows, SameCall, Serving
  <2>2. StackDoneInv'
    BY <2>1 DEF StackDoneInv, StackServed, Serving
  <2>. QED
    BY <1>2, <2>1, <2>2
<1>7. CASE StopRequest
  <2>1. /\ causes \subseteq causes' /\ UNCHANGED <<thread, undone>>
        /\ SameCall /\ service.step = "request"
        /\ service.task = "process" => service'.did = service.did
        /\ service.task = "stop" =>
             "stack" \in service'.did \/ causes' \intersect {"denied", "lost_stop"} # {}
        /\ service.task \in {"stop", "process"} /\ node'.marked = node.marked
        /\ \/ service'.step = "wait"
           \/ service'.step = "resume" /\ ~service'.ok
        /\ \/ node' = node /\ service'.step = "wait" /\ (node.up => "lost_stop" \in causes')
           \/ service'.step = "resume"
           \/ ~node'.up /\ service'.step = "wait"
    BY <1>7, StopRequestIs DEF Grows, Serving, Scratchpads
  <2>2. StackDoneInv'
    BY <2>1 DEF StackDoneInv, StackServed, Excused, Without, Serving, SameCall
  <2>3. LoadInv' /\ UploadInv' /\ ProcessInv'
    BY <1>1, <2>1 DEF LoadInv, UploadInv, ProcessInv, Processed, Serving, SameCall, Lost
  <2>. QED
    BY <1>1, <2>1, <2>2, <2>3, HonestStill DEF Loading
<1>8. CASE StopWait
  <2>1. /\ causes \subseteq causes' /\ UNCHANGED <<thread, undone>>
        /\ SameCall /\ service.step = "wait" /\ service'.did = service.did
        /\ service.task \in {"stop", "process"} /\ node' = node
        /\ service'.step = "resume" /\ (service'.ok => node.up)
    BY <1>8, StopWaitIs DEF Grows, Serving
  <2>2. StackDoneInv'
    BY <1>1, <2>1, ExcusedGrows DEF StackDoneInv, StackServed, Serving, SameCall
  <2>3. LoadInv' /\ UploadInv' /\ ProcessInv'
    BY <1>1, <2>1 DEF LoadInv, UploadInv, ProcessInv, Processed, Serving, SameCall, Lost
  <2>. QED
    BY <1>1, <2>1, <2>2, <2>3, HonestStill DEF Loading
<1>9. CASE StopDone
  <2>1. service.task \in {"stop", "process"} /\ service.step = "resume" /\ causes' = causes
        /\ (service.task = "stop" => StackServed)
        /\ service.ok \in BOOLEAN
        /\ \/ /\ service.task = "process" /\ service.ok /\ SameCall /\ service'.step = "read"
              /\ service'.did = service.did /\ UNCHANGED <<thread, undone>>
           \/ /\ ~(service.task = "process" /\ service.ok) /\ Reply(service.ok)
    BY <1>1, <1>9, StopDoneIs DEF Serving, ServiceType, StackServed
  <2>2. CASE /\ service.task = "process" /\ service.ok /\ SameCall /\ service'.step = "read"
             /\ service'.did = service.did /\ UNCHANGED <<thread, undone>>
    <3>1. Loading'
      BY <1>1, <2>1, <2>2 DEF Loading, LoadInv, UploadInv, ProcessInv, StackDoneInv, StackServed,
                              Processed, Serving, SameCall, Lost
    <3>. QED
      BY <1>1, <2>1, <2>2, <3>1, HonestStill
  <2>3. CASE ~(service.task = "process" /\ service.ok) /\ Reply(service.ok)
    BY <1>3, <2>1, <2>3
  <2>. QED
    BY <2>1, <2>2, <2>3
<1>10. CASE UploadBegin
  <2>1. causes \subseteq causes' /\ Serving("upload", "begin")
        /\ \/ /\ SameCall /\ service'.step = "block" /\ UNCHANGED <<thread, undone>>
              /\ node'.loading = [seq |-> service.seq, next |-> 0]
           \/ Reply(FALSE)
    BY <1>10, UploadBeginIs DEF Grows
  <2>2. CASE /\ SameCall /\ service'.step = "block" /\ UNCHANGED <<thread, undone>>
             /\ node'.loading = [seq |-> service.seq, next |-> 0]
    <3>1. Loading'
      BY <1>1, <2>1, <2>2 DEF Loading, LoadInv, UploadInv, ProcessInv, StackDoneInv, StackServed,
                              Serving, SameCall
    <3>. QED
      BY <1>1, <2>1, <2>2, <3>1, HonestStill
  <2>. QED
    BY <1>3, <2>1, <2>2 DEF Serving
<1>11. CASE UploadBlock
  <2>1. causes \subseteq causes' /\ Serving("upload", "block")
    BY <1>11, UploadBlockIs DEF Grows
  <2>2. \/ /\ SameCall /\ UNCHANGED <<thread, undone>>
           /\ node.loading # NotLoading
           /\ \/ /\ service'.step = "read" /\ node'.stored = node.loading.seq
                 /\ service'.did = IF node'.stored = service.seq THEN {"upload"} ELSE {}
              \/ /\ service'.step = "block"
                 /\ node'.loading = [seq |-> node.loading.seq, next |-> service'.fetched]
        \/ Reply(FALSE)
    BY <1>11, UploadBlockIs
  <2>3. CASE /\ SameCall /\ UNCHANGED <<thread, undone>>
             /\ node.loading # NotLoading
             /\ \/ /\ service'.step = "read" /\ node'.stored = node.loading.seq
                   /\ service'.did = IF node'.stored = service.seq THEN {"upload"} ELSE {}
                \/ /\ service'.step = "block"
                   /\ node'.loading = [seq |-> node.loading.seq, next |-> service'.fetched]
    <3>1. node.loading.seq = service.seq
      BY <1>1, <2>1, <2>3 DEF LoadInv
    <3>2. Loading'
      BY <2>1, <2>3, <3>1 DEF Loading, LoadInv, UploadInv, ProcessInv, StackDoneInv, StackServed,
                              Serving, SameCall
    <3>. QED
      BY <1>1, <2>1, <2>3, <3>2, HonestStill
  <2>. QED
    BY <1>3, <2>1, <2>2, <2>3 DEF Serving
<1>12. CASE UpdateScratchpad
  <2>1. causes \subseteq causes' /\ Serving("process", "update")
        /\ \/ /\ SameCall /\ service'.step = "request" /\ UNCHANGED <<thread, undone>>
              /\ node'.marked
           \/ Reply(FALSE)
    BY <1>12, UpdateScratchpadIs DEF Grows
  <2>2. CASE SameCall /\ service'.step = "request" /\ UNCHANGED <<thread, undone>> /\ node'.marked
    <3>1. Loading'
      BY <2>1, <2>2 DEF Loading, LoadInv, UploadInv, ProcessInv, StackDoneInv, StackServed,
                              Serving, SameCall
    <3>. QED
      BY <1>1, <2>1, <2>2, <3>1, HonestStill
  <2>. QED
    BY <1>3, <2>1, <2>2 DEF Serving
<1>13. CASE ReadScratchpad
  <2>1. Reply(TRUE) /\ causes \subseteq causes'
        /\ (Serving("upload", "read") \/ Serving("process", "read"))
    BY <1>13, RereadIs DEF ReadScratchpad
  <2>2. service.task \in service.did \union Excused /\ service.task \in {"upload", "process"}
    BY <1>1, <2>1, LostIsExcused DEF UploadInv, ProcessInv, Processed, Serving
  <2>. QED
    BY <1>1, <2>1, <2>2, ReplyHonest, LoadingEnds DEF Reply
<1>14. CASE Register
  <2>1. service'.task = "init" /\ UNCHANGED <<thread, undone, causes>>
    BY <1>1, <1>14 DEF Register, Goes, Serving, ServiceType, history
  <2>. QED
    BY <1>2, <2>1 DEF StackDoneInv, StackServed, Serving
<1>15. CASE ConfigRead
  <2>1. service'.task = "init" /\ UNCHANGED <<thread, undone>> /\ causes \subseteq causes'
    BY <1>1, <1>15 DEF ConfigRead, Serving, ServiceType, Blame
  <2>. QED
    BY <1>2, <2>1 DEF StackDoneInv, StackServed, Serving
<1>16. CASE ConfigStore
  <2>1. service'.task = "init" /\ UNCHANGED <<thread, undone>> /\ causes \subseteq causes'
    BY <1>1, <1>16 DEF ConfigStore, Serving, ServiceType, Blame
  <2>. QED
    BY <1>2, <2>1 DEF StackDoneInv, StackServed, Serving
<1>17. CASE OtapInit
  <2>1. service'.task = "none" /\ UNCHANGED <<thread, undone>> /\ causes \subseteq causes'
    BY <1>1, <1>17, RereadIs, NoCallIs DEF OtapInit
  <2>. QED
    BY <1>2, <2>1 DEF StackDoneInv, StackServed, Serving
<1>. QED
  BY <1>4, <1>5, <1>6, <1>7, <1>8, <1>9, <1>10, <1>11, <1>12, <1>13, <1>14, <1>15, <1>16, <1>17
  DEF ServiceStep

LEMMA StepTruthful ==
  ASSUME Typed, Truthful, [Next]_vars
  PROVE  Truthful'
<1>1. HonestInv /\ LoadInv /\ UploadInv /\ ProcessInv /\ StackDoneInv /\ OkMeansDone
      /\ service \in ServiceType /\ node \in NodeType
  BY DEF Truthful, Typed, TypeOK
<1>2. ASSUME HonestInv', Loading', Reported, causes \subseteq causes' PROVE Truthful'
  <2>1. OkMeansDone'
    BY <1>1, <1>2, ExcusedGrows DEF OkMeansDone, Reported
  <2>. QED
    BY <1>2, <2>1 DEF Truthful, Loading
<1>3. CASE ClientStep
  <2>1. HonestInv' /\ Reported /\ causes \subseteq causes'
    BY <1>1, <1>3, ClientHonest, ClientStepIs
  <2>2. PICK a \in Values : Addressed(a)
    BY <1>3, ClientStepIs
  <2>3. node'.loading = node.loading /\ node'.marked = node.marked /\ node'.up = node.up
    BY <1>1, <2>2 DEF Addressed, NodeType
  <2>4. service' = service \/ (service'.task \in {"start", "stop", "upload", "process"}
                                /\ service'.step = Entry(service'.task))
    BY <1>3, ClientStepIs
  <2>5. Loading'
    <3>1. CASE service' = service
      BY <1>1, <2>1, <2>3, <3>1, ExcusedGrows DEF Loading, LoadInv, UploadInv, ProcessInv, StackDoneInv, StackServed,
                              Processed, Serving, Lost
    <3>2. CASE service'.task \in {"start", "stop", "upload", "process"}
               /\ service'.step = Entry(service'.task)
      BY <3>2, EntryIs DEF Loading, LoadInv, UploadInv, ProcessInv, StackDoneInv, StackServed,
                             Processed, Serving
    <3>. QED
      BY <2>4, <3>1, <3>2
  <2>. QED
    BY <1>2, <2>1, <2>5 DEF Reported
<1>4. CASE ServiceStep
  <2>1. causes \subseteq causes'
    BY <1>4, StepCauses DEF Next
  <2>. QED
    BY <1>2, <1>4, <2>1, ServiceHonest
<1>5. CASE BootIndication
  <2>1. node' = node /\ causes \subseteq causes' /\ UNCHANGED <<thread, service, undone>>
    BY <1>5, BootIndicationIs
  <2>2. Loading'
    BY <1>1, <2>1, ExcusedGrows DEF Loading, LoadInv, UploadInv, ProcessInv, StackDoneInv, StackServed,
                              Processed, Serving, Lost
  <2>. QED
    BY <1>1, <1>2, <2>1, <2>2, HonestStill
<1>6. CASE NodeBoots
  <2>1. node' = Booting /\ UNCHANGED <<thread, causes, undone>> /\ ~node.up
        /\ service' = IF node.marked /\ service.task = "process" /\ service.step # "update"
                        THEN [service EXCEPT !.did = {"process"}] ELSE service
    BY <1>6 DEF NodeBoots, Booting, history
  <2>2. node'.loading = node.loading /\ node'.up
    BY <1>1, <2>1 DEF Booting, NodeType
  <2>3. /\ service'.task = service.task /\ service'.step = service.step
        /\ service'.ok = service.ok /\ service'.seq = service.seq
        /\ service.task # "process" => service'.did = service.did
        /\ service'.did = service.did \/ service'.did = {"process"}
        /\ node.marked /\ service.task = "process" /\ service.step # "update" =>
             service'.did = {"process"}
    BY <1>1, <2>1 DEF ServiceType
  <2>4. Loading'
    BY <1>1, <2>1, <2>2, <2>3, ExcusedGrows DEF Loading, LoadInv, UploadInv, ProcessInv, StackDoneInv, StackServed,
                              Processed, Serving, Lost
  <2>. QED
    BY <1>1, <1>2, <2>1, <2>4, HonestStill
<1>7. CASE NodeReboots
  <2>1. PICK cause \in {"reboot", "remote_api", "remote_otap"} :
          /\ node' = Rebooting(cause) /\ causes' = causes \union RebootBlame(cause)
          /\ UNCHANGED <<thread, service, undone>>
    BY <1>7, NodeRebootsIs
  <2>2. node'.loading = NotLoading /\ (node.marked => node'.marked) /\ ~node'.up
    BY <1>1, <2>1 DEF Rebooting, NodeType
  <2>3. Loading'
    BY <1>1, <2>1, <2>2, ExcusedGrows DEF Loading, LoadInv, UploadInv, ProcessInv, StackDoneInv, StackServed,
                              Processed, Serving, Lost
  <2>. QED
    BY <1>1, <1>2, <2>1, <2>3, HonestStill
<1>8. CASE TransportDies
  <2>1. /\ thread' = [t \in Threads |-> Idle] /\ undone' = undone /\ causes \subseteq causes'
        /\ service' = [service EXCEPT !.caller = Nobody] /\ node' = node
    BY <1>8 DEF TransportDies, Takes, Blame
  <2>2. Loading'
    <3>1. /\ service'.task = service.task /\ service'.step = service.step
          /\ service'.ok = service.ok /\ service'.seq = service.seq /\ service'.did = service.did
      BY <1>1, <2>1 DEF ServiceType
    <3>. QED
      BY <1>1, <2>1, <3>1, ExcusedGrows DEF Loading, LoadInv, UploadInv, ProcessInv, StackDoneInv, StackServed,
                              Processed, Serving, Lost
  <2>3. \A t \in Clients : Honest(thread'[t], Excused')
    <3>1. Honest(Idle, Excused')
      BY HonestIdle
    <3>. QED
      BY <2>1, <3>1, ClientsAreThreads
  <2>. QED
    BY <1>2, <2>1, <2>2, <2>3 DEF HonestInv, Reported
<1>9. CASE UNCHANGED vars
  <2>1. UNCHANGED <<thread, service, node, causes, undone>>
    BY <1>9 DEF vars, sinkService, history
  <2>2. Loading'
    BY <1>1, <2>1, ExcusedGrows DEF Loading, LoadInv, UploadInv, ProcessInv, StackDoneInv, StackServed,
                              Processed, Serving, Lost
  <2>. QED
    BY <1>1, <1>2, <2>1, <2>2, HonestStill
<1>. QED
  BY <1>3, <1>4, <1>5, <1>6, <1>7, <1>8, <1>9 DEF Next, ClientStep

(* Whatever overlaps, is lost or reboots: what an operation reported done   *)
(* has been done by the node, the state of the stack that was asked for or  *)
(* found included.  The exceptions are a processing whose stop request was  *)
(* lost, and the state of the stack when a start or a stop was refused or   *)
(* lost, since write_config ignores what SetStackState answers.             *)
THEOREM ReportedIsDone == Spec => []OkMeansDone
<1>1. Init => Truthful
  <2> SUFFICES ASSUME Init PROVE Truthful
    OBVIOUS
  <2>1. service.task = "init" /\ service.step = "register" /\ undone = {}
        /\ \A t \in Threads : thread[t] = Idle
    BY DEF Init, NoCall
  <2>2. HonestInv
    <3>1. Honest(Idle, Excused)
      BY HonestIdle
    <3>. QED
      BY <2>1, <3>1, ClientsAreThreads DEF HonestInv
  <2>. QED
    BY <2>1, <2>2 DEF Truthful, LoadInv, UploadInv, ProcessInv, StackDoneInv, StackServed, OkMeansDone,
                      Serving
<1>2. Typed /\ Truthful /\ [Next]_vars => Truthful'
  BY StepTruthful
<1>3. Truthful => OkMeansDone
  BY DEF Truthful
<1>. QED
  BY SinkInvariant, <1>1, <1>2, <1>3, PTL DEF Spec

-----------------------------------------------------------------------------
(* What a default target is made of.                                        *)

LEMMA WithoutStays ==
  ASSUME NEW excuses, causes \subseteq causes', Without(excuses)'
  PROVE  Without(excuses)
BY DEF Without

(* The service's copy of the stored scratchpad is read when an upload ends, *)
(* and nobody is in the middle of a target then.                            *)
TargetExcuses == {"crossed_target", "partial", "unread", "remote_otap"}
CopyInv ==
  \/ otap.stored = node.stored \/ service.task = "init"
  \/ Serving("upload", "block") \/ Serving("upload", "read")
Seen(me) ==
  /\ me.pc = "crc" => me.seen = <<otap.stored>>
  /\ me.pc = "target" => me.seen[1] = otap.stored /\ me.seen[2] = otap.stored
SeenInv == \A t \in Clients : Seen(thread[t])
TargetSet == targeted.seq = targeted.crc /\ targeted.crc = targeted.stored
TargetInv == Without(TargetExcuses) => CopyInv /\ SeenInv /\ TargetSet

(* A reply has nobody ask for a target, nor leave it.                       *)
LEMMA ReplySeen ==
  ASSUME Typed, NEW good \in BOOLEAN, Reply(good), SeenInv, otap' = otap
  PROVE  SeenInv'
<1>1. CASE service.caller = Nobody
  BY <1>1 DEF Reply, SeenInv, Seen
<1>2. CASE service.caller # Nobody
  <2> DEFINE t == service.caller
  <2>1. t \in Threads /\ Others(t) /\ thread'[t].pc \notin {"crc", "target"}
    BY <1>2, AnswersAre, IdleIs DEF Ends
  <2>2. ASSUME NEW d \in Clients PROVE Seen(thread[d])'
    <3>1. CASE d = t
      BY <2>1, <3>1 DEF Seen
    <3>2. CASE d # t
      BY <2>1, <3>2, ClientsAreThreads DEF Others, SeenInv, Seen
    <3>. QED
      BY <3>1, <3>2
  <2>. QED
    BY <2>2 DEF SeenInv
<1>. QED
  BY <1>1, <1>2

LEMMA ClientTargets ==
  ASSUME Typed, CopyInv, SeenInv, TargetSet, ClientStep
  PROVE  SeenInv' /\ TargetSet'
<1>1. otap' = otap
  BY ClientStepIs
<1>2. ASSUME NEW t \in Threads, Others(t), t \in Clients => Seen(thread[t])'
      PROVE  SeenInv'
  <2>1. ASSUME NEW d \in Clients PROVE Seen(thread[d])'
    <3>1. CASE d = t
      BY <1>2, <3>1
    <3>2. CASE d # t
      BY <1>1, <1>2, <3>2, ClientsAreThreads DEF Others, SeenInv, Seen
    <3>. QED
      BY <3>1, <3>2
  <2>. QED
    BY <2>1 DEF SeenInv
<1>3. ASSUME NEW t \in Threads, Others(t), thread'[t].pc \notin {"crc", "target"},
             targeted' = targeted
      PROVE  SeenInv' /\ TargetSet'
  BY <1>2, <1>3 DEF Seen, TargetSet
<1>4. ASSUME NEW t \in Threads, Capture(t) PROVE SeenInv' /\ TargetSet'
  BY <1>3, <1>4, CaptureIs, IdleIs DEF Continues
<1>5. ASSUME NEW t \in Threads, Check(t) PROVE SeenInv' /\ TargetSet'
  BY <1>3, <1>5, CheckIs, IdleIs DEF Continues
<1>6. ASSUME NEW t \in Threads, WriteItem(t) PROVE SeenInv' /\ TargetSet'
  BY <1>3, <1>6, WriteItemIs DEF Continues
<1>7. ASSUME NEW t \in Threads, Restore(t) PROVE SeenInv' /\ TargetSet'
  BY <1>3, <1>7, RestoreIs, IdleIs
<1>8. ASSUME NEW t \in Threads, Readback(t) PROVE SeenInv' /\ TargetSet'
  BY <1>3, <1>8, ReadbackIs, IdleIs DEF ReadsOf, Ends
<1>9. ASSUME OnStackStarted PROVE SeenInv' /\ TargetSet'
  BY <1>3, <1>9, OnStackStartedIs, IdleIs DEF ReadsOf, Ends
<1>10. ASSUME NEW t \in Threads, Assign(t) PROVE SeenInv' /\ TargetSet'
  BY <1>3, <1>10, AssignIs, IdleIs DEF Ends
<1>11. ASSUME NEW t \in Threads, DefaultTarget(t) PROVE SeenInv' /\ TargetSet'
  <2>1. t \in Clients /\ Others(t) /\ targeted' = targeted
        /\ \/ thread'[t].pc = "crc" /\ thread'[t].seen = <<otap.stored>>
           \/ thread'[t].pc = "idle"
           \/ /\ At(t, "crc") /\ thread'[t].pc = "target"
              /\ thread'[t].seen = Append(thread[t].seen, otap.stored)
    BY <1>11, DefaultTargetIs, IdleIs
  <2>2. \A x \in Values : Append(<<x>>, x)[1] = x /\ Append(<<x>>, x)[2] = x
    OBVIOUS
  <2>3. At(t, "crc") => /\ Append(thread[t].seen, otap.stored)[1] = otap.stored
                        /\ Append(thread[t].seen, otap.stored)[2] = otap.stored
    BY <2>1, <2>2 DEF At, SeenInv, Seen, Typed, TypeOK
  <2>4. Seen(thread[t])'
    BY <1>1, <2>1, <2>3 DEF Seen
  <2>. QED
    BY <1>2, <2>1, <2>4 DEF TargetSet
<1>12. ASSUME NEW t \in Threads, SetTarget(t) PROVE SeenInv' /\ TargetSet'
  <2>1. Free /\ At(t, "target") /\ thread'[t] = Idle /\ Others(t)
        /\ targeted' = [seq |-> thread[t].seen[1], crc |-> thread[t].seen[2],
                        stored |-> node.stored]
    BY <1>12, SetTargetIs
  <2>2. t \in Clients
    BY <2>1, ClientsAreThreads DEF At, Typed, PlaceInv, Placed
  <2>3. thread[t].seen[1] = node.stored /\ thread[t].seen[2] = node.stored
    BY <2>1, <2>2 DEF At, SeenInv, Seen, CopyInv, Free, Serving
  <2>. QED
    BY <1>2, <2>1, <2>3, IdleIs DEF TargetSet, Seen
<1>13. ASSUME NEW t \in Threads, Call(t) PROVE SeenInv' /\ TargetSet'
  BY <1>3, <1>13, CallerIs, CallIs DEF Waits
<1>. QED
  BY <1>4, <1>5, <1>6, <1>7, <1>8, <1>9, <1>10, <1>11, <1>12, <1>13 DEF ClientStep, ThreadStep

LEMMA StepTarget ==
  ASSUME Typed, TargetInv, [Next]_vars
  PROVE  TargetInv'
<1> SUFFICES ASSUME Without(TargetExcuses)' PROVE CopyInv' /\ SeenInv' /\ TargetSet'
  BY DEF TargetInv
<1>1. causes \subseteq causes'
  <2>1. UNCHANGED vars => causes' = causes
    BY DEF vars, history
  <2>. QED
    BY <2>1, StepCauses
<1>2. "crossed_target" \notin causes' /\ "partial" \notin causes' /\ "unread" \notin causes'
      /\ "remote_otap" \notin causes'
  BY DEF Without, TargetExcuses
<1>3. CopyInv /\ SeenInv /\ TargetSet
  <2>1. Without(TargetExcuses)
    BY <1>1, WithoutStays DEF TargetExcuses, Without
  <2>. QED
    BY <2>1 DEF TargetInv
<1>4. service \in ServiceType /\ node \in NodeType
  BY DEF Typed, TypeOK
<1>5. ASSUME NEW good \in BOOLEAN, Reply(good), otap' = otap, targeted' = targeted,
             node'.stored = node.stored, ~Serving("upload", "block"), ~Serving("upload", "read"),
             service.task # "init"
      PROVE  CopyInv' /\ SeenInv' /\ TargetSet'
  <2>1. CopyInv'
    BY <1>3, <1>5 DEF CopyInv, Serving
  <2>. QED
    BY <1>3, <1>5, <2>1, ReplySeen DEF TargetSet
<1>6. ASSUME UNCHANGED <<thread, otap, targeted>>,
             node'.stored = node.stored /\ service'.task = service.task
               /\ (service'.step = service.step \/ service.task # "upload")
      PROVE  CopyInv' /\ SeenInv' /\ TargetSet'
  BY <1>3, <1>6 DEF CopyInv, SeenInv, Seen, TargetSet, Serving
<1>7. CASE ClientStep
  <2>1. PICK a \in Values : Addressed(a)
    BY <1>7, ClientStepIs
  <2>2. node'.stored = node.stored /\ otap' = otap
        /\ (service' = service \/ Free)
    BY <1>4, <1>7, <2>1, ClientStepIs DEF Addressed, NodeType
  <2>3. CopyInv'
    BY <1>3, <2>2 DEF CopyInv, Serving, Free
  <2>. QED
    BY <1>3, <1>7, <2>3, ClientTargets
<1>8. CASE StartStack
  BY <1>6, <1>8, StartStackIs DEF SameCall, Serving, Scratchpads
<1>9. CASE SetAutostart
  <2>1. Reply(service.ok) /\ service.ok \in BOOLEAN /\ service.task = "start"
        /\ node'.stored = node.stored /\ UNCHANGED <<otap, targeted>>
    BY <1>4, <1>9, SetAutostartIs DEF Serving, Scratchpads, ServiceType
  <2>. QED
    BY <1>5, <2>1 DEF Serving
<1>10. CASE ClearAutostart
  BY <1>6, <1>10, ClearAutostartIs DEF SameCall, Serving, Scratchpads
<1>11. CASE StopRequest
  BY <1>6, <1>11, StopRequestIs DEF SameCall, Serving, Scratchpads
<1>12. CASE StopWait
  BY <1>6, <1>12, StopWaitIs DEF SameCall, Serving
<1>13. CASE StopDone
  <2>1. /\ Serving("stop", "resume") \/ Serving("process", "resume")
        /\ \/ SameCall /\ UNCHANGED <<thread, undone>>
           \/ Reply(service.ok)
        /\ UNCHANGED <<otap, node, targeted>> /\ service.ok \in BOOLEAN
    BY <1>4, <1>13, StopDoneIs DEF ServiceType
  <2>. QED
    BY <1>5, <1>6, <2>1 DEF SameCall, Serving
<1>14. CASE UploadBegin
  <2>1. /\ Serving("upload", "begin") /\ UNCHANGED <<otap, targeted>>
        /\ \/ SameCall /\ service'.step = "block" /\ thread' = thread
           \/ Reply(FALSE) /\ node' = node
    BY <1>2, <1>14, UploadBeginIs
  <2>2. CASE SameCall /\ service'.step = "block" /\ thread' = thread
    BY <1>3, <2>1, <2>2 DEF SameCall, Serving, CopyInv, SeenInv, Seen, TargetSet
  <2>. QED
    BY <1>5, <2>1, <2>2 DEF Serving
<1>15. CASE UploadBlock
  <2>1. /\ Serving("upload", "block") /\ UNCHANGED <<otap, targeted>>
        /\ SameCall /\ service'.step \in {"read", "block"} /\ thread' = thread
    BY <1>2, <1>15, UploadBlockIs
  <2>. QED
    BY <1>3, <2>1 DEF SameCall, Serving, CopyInv, SeenInv, Seen, TargetSet
<1>16. CASE UpdateScratchpad
  <2>1. /\ Serving("process", "update") /\ UNCHANGED <<otap, targeted>>
        /\ node'.stored = node.stored
        /\ (SameCall /\ thread' = thread) \/ Reply(FALSE)
    BY <1>16, UpdateScratchpadIs
  <2>. QED
    BY <1>5, <1>6, <2>1 DEF SameCall, Serving
<1>17. ASSUME Reread, targeted' = targeted, service' = NoCall,
              thread' = thread \/ Reply(TRUE)
       PROVE  CopyInv' /\ SeenInv' /\ TargetSet'
  <2>1. /\ node' = node /\ otap'.stored = node.stored
        /\ \A t \in Clients : thread[t].pc \notin {"crc", "target"}
    BY <1>2, <1>17, RereadIs
  <2>2. ASSUME NEW d \in Clients PROVE thread'[d].pc \notin {"crc", "target"}
    <3>1. CASE thread' = thread
      BY <2>1, <3>1
    <3>2. CASE Reply(TRUE) /\ service.caller = Nobody
      BY <2>1, <3>2 DEF Reply
    <3>3. CASE Reply(TRUE) /\ service.caller # Nobody
      <4> DEFINE t == service.caller
      <4>1. t \in Threads /\ Others(t) /\ thread'[t].pc \notin {"crc", "target"}
        BY <3>3, AnswersAre, IdleIs DEF Ends
      <4>. QED
        BY <2>1, <4>1, ClientsAreThreads DEF Others
    <3>. QED
      BY <1>17, <3>1, <3>2, <3>3
  <2>. QED
    BY <1>3, <1>17, <2>1, <2>2 DEF CopyInv, SeenInv, Seen, TargetSet
<1>18. CASE ReadScratchpad
  BY <1>17, <1>18 DEF ReadScratchpad, Reply
<1>19. CASE Register
  BY <1>4, <1>6, <1>19 DEF Register, Goes, Serving, ServiceType, history
<1>20. CASE ConfigRead
  <2>1. node' = node
    BY <1>20, ReadsNothingElse DEF ConfigRead, Takes
  <2>. QED
    BY <1>4, <1>6, <1>20, <2>1 DEF ConfigRead, Serving, ServiceType
<1>21. CASE ConfigStore
  BY <1>4, <1>6, <1>21 DEF ConfigStore, Serving, ServiceType
<1>22. CASE OtapInit
  BY <1>17, <1>22 DEF OtapInit
<1>23. CASE BootIndication
  BY <1>6, <1>23, BootIndicationIs
<1>24. CASE NodeBoots
  <2>1. /\ node' = Booting /\ UNCHANGED <<thread, otap, targeted>>
        /\ service' = service \/ service' = [service EXCEPT !.did = {"process"}]
    BY <1>24 DEF NodeBoots, Booting, history
  <2>2. node'.stored = node.stored /\ service'.task = service.task /\ service'.step = service.step
    BY <1>4, <2>1 DEF Booting, NodeType, ServiceType
  <2>. QED
    BY <1>6, <2>1, <2>2
<1>25. CASE NodeReboots
  <2>1. PICK cause \in {"reboot", "remote_api", "remote_otap"} :
          /\ node' = Rebooting(cause) /\ causes' = causes \union RebootBlame(cause)
          /\ UNCHANGED <<thread, service, otap, targeted>>
    BY <1>25, NodeRebootsIs
  <2>2. cause # "remote_otap"
    BY <1>2, <2>1 DEF RebootBlame
  <2>3. node'.stored = node.stored
    BY <1>4, <2>1, <2>2 DEF Rebooting, NodeType
  <2>. QED
    BY <1>6, <2>1, <2>3
<1>26. CASE TransportDies
  <2>1. /\ thread' = [t \in Threads |-> Idle] /\ node' = node
        /\ service' = [service EXCEPT !.caller = Nobody] /\ UNCHANGED <<otap, targeted>>
    BY <1>26 DEF TransportDies, Takes
  <2>2. service'.task = service.task /\ service'.step = service.step
    BY <1>4, <2>1 DEF ServiceType
  <2>3. \A t \in Clients : thread'[t].pc = "idle"
    BY <2>1, IdleIs, ClientsAreThreads
  <2>. QED
    BY <1>3, <2>1, <2>2, <2>3 DEF CopyInv, SeenInv, Seen, TargetSet, Serving
<1>27. CASE UNCHANGED vars
  BY <1>6, <1>27 DEF vars, sinkService, history
<1>. QED
  BY <1>7, <1>8, <1>9, <1>10, <1>11, <1>12, <1>13, <1>14, <1>15, <1>16, <1>18, <1>19, <1>20,
     <1>21, <1>22, <1>23, <1>24, <1>25, <1>26, <1>27 DEF Next, ServiceStep, ClientStep

(* A target set by default is of one scratchpad, the one that is stored,    *)
(* unless an upload ends in between or the copy it is read from is old.     *)
THEOREM TargetIsStored == Spec => []DefaultTargetIsStored
<1>1. Init => TargetInv
  BY ClientsAreThreads, IdleIs
  DEF Init, TargetInv, CopyInv, SeenInv, Seen, TargetSet, NoCall
<1>2. Typed /\ TargetInv /\ [Next]_vars => TargetInv'
  BY StepTarget
<1>3. TargetInv => DefaultTargetIsStored
  BY DEF TargetInv, TargetExcuses, TargetSet, DefaultTargetIsStored
<1>. QED
  BY SinkInvariant, <1>1, <1>2, <1>3, PTL DEF Spec

-----------------------------------------------------------------------------
(* The address with which messages are tagged.                              *)

(* While the sink service starts nobody is asking it for anything.          *)
StartInv == service.task = "init" => address = Unset /\ \A t \in Threads : At(t, "idle")

(* An address that is not the node's is still to be read: the stack is not  *)
(* up yet, its start is to be signalled, or its signal to be taken.         *)
AddressExcuses == {"unread", "crossed", "not_started"}
Signalling == \/ \E i \in DOMAIN booted : booted[i]
              \/ Serving("start", "autostart") /\ service.ok
              \/ signals > 0
Assigning == \E t \in Threads : At(t, "assign")
Following ==
  address \in {Unset, node.address} \/ ~node.running \/ ~node.up \/ Signalling \/ Assigning
AddressInv == Without(AddressExcuses) => Following
Addresses == StartInv /\ AddressInv

LEMMA ClientAddress ==
  ASSUME Typed, ClientStep
  PROVE  /\ Free \/ Assigning
         /\ \/ \E t \in Threads : Assign(t)
            \/ /\ Free /\ OnStackStarted
            \/ /\ Free /\ signals' = signals /\ address' = address
               /\ Assigning => Assigning'
<1> DEFINE Goal == /\ Free /\ signals' = signals /\ address' = address
                   /\ Assigning => Assigning'
<1>1. ASSUME NEW t \in Threads, Others(t), Free, ~At(t, "assign"), signals' = signals,
             address' = address
      PROVE  Goal
  <2>1. Assigning => Assigning'
    <3>1. ASSUME NEW d \in Threads, At(d, "assign") PROVE At(d, "assign")'
      BY <1>1, <3>1 DEF Others, At
    <3>. QED
      BY <3>1 DEF Assigning
  <2>. QED
    BY <1>1, <2>1
<1>2. ASSUME NEW t \in Threads, Capture(t) PROVE Goal
  BY <1>1, <1>2, CaptureIs DEF At
<1>3. ASSUME NEW t \in Threads, Check(t) PROVE Goal
  BY <1>1, <1>3, CheckIs DEF At
<1>4. ASSUME NEW t \in Threads, WriteItem(t) PROVE Goal
  BY <1>1, <1>4, WriteItemIs DEF At
<1>5. ASSUME NEW t \in Threads, Restore(t) PROVE Goal
  BY <1>1, <1>5, RestoreIs DEF At
<1>6. ASSUME NEW t \in Threads, Readback(t) PROVE Goal
  BY <1>1, <1>6, ReadbackIs DEF At, ReadsOf, Ends
<1>7. ASSUME NEW t \in Threads, DefaultTarget(t) PROVE Goal
  BY <1>1, <1>7, DefaultTargetIs DEF At
<1>8. ASSUME NEW t \in Threads, SetTarget(t) PROVE Goal
  BY <1>1, <1>8, SetTargetIs DEF At
<1>9. ASSUME NEW t \in Threads, Call(t) PROVE Goal
  BY <1>1, <1>9, CallerIs, CallIs DEF At, Waits
<1>10. OnStackStarted => Free
  BY OnStackStartedIs
<1>11. \A t \in Threads : Assign(t) => Assigning
  BY AssignIs DEF Assigning
<1> HIDE DEF Goal
<1>12. Goal \/ OnStackStarted \/ \E t \in Threads : Assign(t)
  BY <1>2, <1>3, <1>4, <1>5, <1>6, <1>7, <1>8, <1>9 DEF ClientStep, ThreadStep
<1>. QED
  BY <1>10, <1>11, <1>12 DEF Goal

(* A reply leaves alone who has read an address.                            *)
LEMMA ReplyAssigning ==
  ASSUME Typed, NEW good \in BOOLEAN, Reply(good), Assigning
  PROVE  Assigning'
<1>1. PICK d \in Threads : At(d, "assign")
  BY DEF Assigning
<1>2. thread'[d] = thread[d]
  <2>1. CASE service.caller = Nobody
    BY <2>1 DEF Reply
  <2>2. CASE service.caller # Nobody
    BY <1>1, <2>2, AnswersAre DEF Others, At, Waits
  <2>. QED
    BY <2>1, <2>2
<1>. QED
  BY <1>1, <1>2 DEF Assigning, At

LEMMA StepStart ==
  ASSUME Typed, StartInv, [Next]_vars
  PROVE  StartInv'
<1> SUFFICES ASSUME service'.task = "init"
             PROVE  address' = Unset /\ \A t \in Threads : thread'[t].pc = "idle"
  BY DEF StartInv, At
<1>1. service \in ServiceType
  BY DEF Typed, TypeOK
<1>2. ~ClientStep
  <2>1. ASSUME ClientStep PROVE FALSE
    <3>1. service.task = "init"
      BY <2>1, ClientStepIs
    <3>2. Free \/ Assigning
      BY <2>1, ClientAddress
    <3>. QED
      BY <3>1, <3>2 DEF StartInv, Free, Assigning, At
  <2>. QED
    BY <2>1
<1>3. ASSUME UNCHANGED <<address, thread>>, service'.task = service.task
      PROVE  address' = Unset /\ \A t \in Threads : thread'[t].pc = "idle"
  BY <1>3 DEF StartInv, At
<1>4. CASE StartStack
  BY <1>4, StartStackIs DEF SameCall, Serving
<1>5. CASE SetAutostart
  BY <1>5, NoCallIs DEF SetAutostart, Reply
<1>6. CASE ClearAutostart
  BY <1>6, ClearAutostartIs DEF SameCall, Serving
<1>7. CASE StopRequest \/ StopWait
  BY <1>7, StopRequestIs, StopWaitIs DEF SameCall, Serving
<1>8. CASE StopDone
  BY <1>8, StopDoneIs, NoCallIs DEF Reply, SameCall, Serving
<1>9. CASE UploadBegin \/ UploadBlock
  BY <1>9, UploadBeginIs, UploadBlockIs, NoCallIs DEF Reply, SameCall, Serving
<1>10. CASE UpdateScratchpad
  BY <1>10, UpdateScratchpadIs, NoCallIs DEF Reply, SameCall, Serving
<1>11. CASE ReadScratchpad \/ OtapInit
  BY <1>11, NoCallIs DEF ReadScratchpad, Reply, OtapInit
<1>12. CASE Register \/ ConfigRead \/ ConfigStore
  BY <1>3, <1>12 DEF Register, ConfigRead, ConfigStore, Serving
<1>13. CASE BootIndication
  BY <1>3, <1>13, BootIndicationIs
<1>14. CASE NodeBoots
  <2>1. UNCHANGED <<address, thread>> /\ (service' = service \/ service' = [service EXCEPT !.did = {"process"}])
    BY <1>14 DEF NodeBoots
  <2>. QED
    BY <1>1, <1>3, <2>1 DEF ServiceType
<1>15. CASE NodeReboots
  BY <1>3, <1>15, NodeRebootsIs
<1>16. CASE TransportDies
  BY <1>16, IdleIs DEF TransportDies
<1>17. CASE UNCHANGED vars
  BY <1>3, <1>17 DEF vars, sinkService
<1>. QED
  BY <1>2, <1>4, <1>5, <1>6, <1>7, <1>8, <1>9, <1>10, <1>11, <1>12, <1>13, <1>14, <1>15, <1>16,
     <1>17 DEF Next, ServiceStep, ClientStep

LEMMA StepAddress ==
  ASSUME Typed, StartInv, AddressInv, [Next]_vars
  PROVE  AddressInv'
<1> SUFFICES ASSUME Without(AddressExcuses)' PROVE Following'
  BY DEF AddressInv
<1>1. causes \subseteq causes'
  <2>1. UNCHANGED vars => causes' = causes
    BY DEF vars, history
  <2>. QED
    BY <2>1, StepCauses
<1>2. "unread" \notin causes' /\ "crossed" \notin causes' /\ "not_started" \notin causes'
  BY DEF Without, AddressExcuses
<1>3. Following
  <2>1. Without(AddressExcuses)
    BY <1>1 DEF AddressExcuses, Without
  <2>. QED
    BY <2>1 DEF AddressInv
<1>4. service \in ServiceType /\ node \in NodeType /\ signals \in Nat /\ booted \in Seq(BOOLEAN)
      /\ signals' \in Nat
  BY StepTyped DEF Typed, TypeOK
<1>5. ASSUME UNCHANGED <<address, booted>>, signals' >= signals,
             node'.address = node.address,
             node'.up /\ node'.running => node.up /\ node.running, Assigning => Assigning',
             Serving("start", "autostart") /\ service.ok =>
               signals' > 0 \/ (Serving("start", "autostart") /\ service.ok)'
      PROVE  Following'
  <2>1. signals > 0 => signals' > 0
    BY <1>4, <1>5
  <2>2. Signalling => Signalling'
    <3>1. (\E i \in DOMAIN booted : booted[i]) => \E i \in DOMAIN booted' : booted'[i]
      BY <1>5
    <3>. QED
      BY <1>5, <2>1, <3>1 DEF Signalling
  <2>. QED
    BY <1>3, <1>5, <2>2 DEF Following
<1>6. ASSUME thread' = thread PROVE Assigning => Assigning'
  BY <1>6 DEF Assigning, At
<1>7. CASE ClientStep
  <2>1. PICK a \in Values : Addressed(a)
    BY <1>7, ClientStepIs
  <2>2. /\ node'.running = node.running /\ node'.up = node.up /\ booted' = booted
        /\ node'.address = node.address \/ ~node.running
        /\ service' = service \/ Free
    BY <1>4, <1>7, <2>1, ClientStepIs DEF Addressed, NodeType
  <2>3. (Serving("start", "autostart") /\ service.ok) => (Serving("start", "autostart") /\ service.ok)'
    BY <2>2 DEF Serving, Free
  <2>4. CASE ~node.running
    BY <2>2, <2>4 DEF Following
  <2>5. CASE node.running /\ \E t \in Threads : Assign(t)
    BY <1>2, <2>2, <2>5, AssignIs DEF Following
  <2>6. CASE node.running /\ OnStackStarted
    <3>1. ReadsOf(Glib, Idle) /\ Glib \in Threads
      BY <2>6, OnStackStartedIs
    <3>2. Assigning'
      BY <1>2, <3>1 DEF ReadsOf, Assigning, At
    <3>. QED
      BY <3>2 DEF Following
  <2>7. CASE node.running /\ signals' = signals /\ address' = address /\ (Assigning => Assigning')
    BY <1>4, <1>5, <2>2, <2>3, <2>7
  <2>. QED
    BY <1>7, <2>4, <2>5, <2>6, <2>7, ClientAddress
<1>8. CASE StartStack
  BY <1>2, <1>8, StartStackIs DEF SameCall, Serving, Following, Signalling
<1>9. CASE SetAutostart
  <2>1. /\ Reply(service.ok) /\ service.ok \in BOOLEAN /\ UNCHANGED <<address, booted>>
        /\ node'.address = node.address /\ node'.up = node.up /\ node'.running = node.running
        /\ signals' = IF service.ok THEN signals + 1 ELSE signals
    BY <1>4, <1>9, SetAutostartIs DEF ServiceType
  <2>2. signals' >= signals /\ (service.ok => signals' > 0)
    BY <1>4, <2>1
  <2>3. Assigning => Assigning'
    BY <2>1, ReplyAssigning
  <2>. QED
    BY <1>5, <2>1, <2>2, <2>3
<1>10. CASE ClearAutostart
  BY <1>4, <1>5, <1>6, <1>10, ClearAutostartIs DEF Serving
<1>11. CASE StopRequest
  <2>1. /\ Serving("stop", "request") \/ Serving("process", "request")
        /\ node' = node \/ ~node'.up
        /\ UNCHANGED <<thread, address, signals, booted>>
    BY <1>11, StopRequestIs
  <2>2. ~node'.up => Following'
    BY DEF Following
  <2>. QED
    BY <1>4, <1>5, <1>6, <2>1, <2>2 DEF Serving
<1>12. CASE StopWait
  BY <1>4, <1>5, <1>6, <1>12, StopWaitIs DEF Serving
<1>13. CASE StopDone
  <2>1. /\ Serving("stop", "resume") \/ Serving("process", "resume")
        /\ thread' = thread \/ Reply(service.ok)
        /\ UNCHANGED <<address, signals, booted, node>> /\ service.ok \in BOOLEAN
    BY <1>4, <1>13, StopDoneIs DEF ServiceType
  <2>2. Assigning => Assigning'
    BY <1>6, <2>1, ReplyAssigning
  <2>. QED
    BY <1>4, <1>5, <2>1, <2>2 DEF Serving
<1>14. CASE UploadBegin \/ UploadBlock \/ UpdateScratchpad
  <2>1. /\ service.task # "start" /\ (thread' = thread \/ Reply(FALSE))
        /\ UNCHANGED <<address, signals, booted>> /\ Settings' = Settings
    BY <1>14, UploadBeginIs, UploadBlockIs, UpdateScratchpadIs DEF Serving
  <2>2. Assigning => Assigning'
    BY <1>6, <2>1, ReplyAssigning
  <2>3. node'.address = node.address /\ node'.up = node.up /\ node'.running = node.running
    BY <2>1 DEF Settings
  <2>4. service.task # "start"
    BY <1>14, UploadBeginIs, UploadBlockIs, UpdateScratchpadIs DEF Serving
  <2>. QED
    BY <1>4, <1>5, <2>1, <2>2, <2>3, <2>4 DEF Serving
<1>15. CASE ReadScratchpad
  <2>1. /\ Serving("upload", "read") \/ Serving("process", "read")
        /\ Reply(TRUE) /\ UNCHANGED <<address, signals, booted, node>>
    BY <1>15, RereadIs DEF ReadScratchpad
  <2>2. Assigning => Assigning'
    BY <2>1, ReplyAssigning
  <2>. QED
    BY <1>4, <1>5, <2>1, <2>2 DEF Serving
<1>16. CASE Register \/ ConfigRead \/ ConfigStore \/ OtapInit
  <2>1. /\ service.task = "init" /\ UNCHANGED <<thread, address, signals, booted>>
    BY <1>16 DEF Register, history, ConfigRead, ConfigStore, OtapInit, Serving
  <2>. QED
    BY <2>1 DEF StartInv, Following
<1>17. CASE BootIndication
  <2>1. /\ booted # <<>> /\ booted' = Tail(booted) /\ node' = node
        /\ UNCHANGED <<thread, address, service>>
        /\ Handled \/ Swallowed
    BY <1>17, BootIndicationIs
  <2>2. CASE Swallowed
    BY <2>1, <2>2 DEF Swallowed, Serving, StartInv, Following
  <2>3. CASE Handled
    <3>1. /\ Head(booted) => signals' = signals + 1
          /\ ~Head(booted) => signals' = signals
      BY <2>3 DEF Handled, Signal
    <3>2. signals > 0 => signals' > 0
      <4>1. signals' = signals + 1 \/ signals' = signals
        BY <3>1
      <4>. QED
        BY <1>4, <4>1
    <3>3. signals' = signals + 1 => signals' > 0
      BY <1>4
    <3>4. ASSUME NEW i \in DOMAIN booted, booted[i]
          PROVE  Head(booted) \/ \E j \in DOMAIN booted' : booted'[j]
      <4>1. CASE i = 1
        <5>1. Head(booted) = booted[1]
          BY <1>4, <2>1
        <5>. QED
          BY <3>4, <4>1, <5>1
      <4>2. CASE i # 1
        <5>1. i \in 2 .. Len(booted)
          BY <1>4, <4>2
        <5>2. i - 1 \in DOMAIN Tail(booted) /\ Tail(booted)[i - 1] = booted[i]
          BY <1>4, <2>1, <5>1
        <5>. QED
          BY <2>1, <3>4, <5>2
      <4>. QED
        BY <4>1, <4>2
    <3>5. Signalling => Signalling'
      BY <2>1, <3>1, <3>2, <3>3, <3>4 DEF Signalling, Serving
    <3>6. Assigning => Assigning'
      BY <1>6, <2>1
    <3>. QED
      BY <1>3, <2>1, <3>5, <3>6 DEF Following
  <2>. QED
    BY <2>1, <2>2, <2>3
<1>18. CASE NodeBoots
  <2>1. /\ node' = Booting /\ ~node.up /\ booted' = Append(booted, node.running)
    BY <1>18 DEF NodeBoots, Booting
  <2>2. node'.running = node.running /\ node.running \in BOOLEAN
    BY <1>4, <2>1 DEF Booting, NodeType
  <2>3. Len(booted) + 1 \in DOMAIN booted' /\ booted'[Len(booted) + 1] = node.running
    BY <1>4, <2>1, <2>2
  <2>. QED
    BY <2>2, <2>3 DEF Following, Signalling
<1>19. CASE NodeReboots
  <2>1. PICK cause \in {"reboot", "remote_api", "remote_otap"} : node' = Rebooting(cause)
    BY <1>19, NodeRebootsIs
  <2>2. ~node'.up
    BY <1>4, <2>1 DEF Rebooting, NodeType
  <2>. QED
    BY <2>2 DEF Following
<1>20. CASE TransportDies
  BY <1>20 DEF TransportDies, Following
<1>21. CASE UNCHANGED vars
  BY <1>4, <1>5, <1>6, <1>21 DEF vars, sinkService, Serving
<1>. QED
  BY <1>7, <1>8, <1>9, <1>10, <1>11, <1>12, <1>13, <1>14, <1>15, <1>16, <1>17, <1>18, <1>19,
     <1>20, <1>21 DEF Next, ServiceStep, ClientStep

(* At rest the address with which messages are tagged is the node's, unless *)
(* it could not be read, two threads crossed or a start failed.             *)
THEOREM AddressFollows == Spec => []AddressCacheFollows
<1>1. Init => Addresses
  BY IdleIs DEF Init, Addresses, StartInv, AddressInv, Following, At
<1>2. Typed /\ Addresses /\ [Next]_vars => Addresses'
  BY StepStart, StepAddress DEF Addresses
<1>3. Typed /\ Addresses => AddressCacheFollows
  <2> SUFFICES ASSUME Typed, Addresses, AtRest, node.running, address # Unset,
                      Without({"unread", "crossed", "not_started"})
               PROVE  address = node.address
    BY DEF AddressCacheFollows
  <2>1. Following
    BY DEF Addresses, AddressInv, AddressExcuses
  <2>2. ~Signalling /\ ~Assigning /\ node.up
    BY DEF AtRest, Signalling, Assigning, At, Free, Serving
  <2>. QED
    BY <2>1, <2>2 DEF Following
<1>. QED
  BY SinkInvariant, <1>1, <1>2, <1>3, PTL DEF Spec

-----------------------------------------------------------------------------
(* The copies of the sink service.                                          *)

(* The firmware version is the node's, or about to be read: Config_Init has *)
(* not stored its own yet, or the node boots.                               *)
ConfigInv ==
  Without({"unread", "crossed_init"}) =>
    \/ config = node.processed
    \/ service.task = "init" /\ service.step \in {"register", "config", "store"}
    \/ ~node.up \/ booted # <<>>

(* A scratchpad is marked only while a call processes it, from its mark to  *)
(* the boot; and that call ends with a read of the copy.                    *)
CopyExcuses == {"unread", "partial", "slow", "denied", "lost_stop", "remote_otap", "interrupted"}
Marks ==
  /\ Serving("process", "request") => node.marked /\ node.up
  /\ Serving("process", "wait") => (node.marked <=> ~node.up)
  /\ node.marked => Serving("process", "request") \/ Serving("process", "wait")
  /\ Serving("process", "resume") => service.ok
Copied ==
  \/ otap.stored = node.stored /\ otap.processed = node.processed
  \/ service.task = "init"
  \/ Serving("upload", "block") \/ Serving("upload", "read")
  \/ Serving("process", "wait") \/ Serving("process", "resume") \/ Serving("process", "read")
OtapInv == Without(CopyExcuses) => Marks /\ Copied
Copies == ConfigInv /\ OtapInv

LEMMA StepConfig ==
  ASSUME Typed, ConfigInv, [Next]_vars
  PROVE  ConfigInv'
<1> SUFFICES ASSUME Without({"unread", "crossed_init"})'
             PROVE  (\/ config = node.processed
                     \/ service.task = "init" /\ service.step \in {"register", "config", "store"}
                     \/ ~node.up \/ booted # <<>>)'
  BY DEF ConfigInv
<1>1. causes \subseteq causes'
  <2>1. UNCHANGED vars => causes' = causes
    BY DEF vars, history
  <2>. QED
    BY <2>1, StepCauses
<1>2. "unread" \notin causes' /\ "crossed_init" \notin causes'
  BY DEF Without
<1>3. \/ config = node.processed
      \/ service.task = "init" /\ service.step \in {"register", "config", "store"}
      \/ ~node.up \/ booted # <<>>
  BY <1>1 DEF ConfigInv, Without
<1>4. service \in ServiceType /\ node \in NodeType /\ booted \in Seq(BOOLEAN)
  BY DEF Typed, TypeOK
<1> HIDE DEF ConfigInv
<1>5. ASSUME UNCHANGED <<config, booted>>, node'.processed = node.processed, node'.up => node.up,
             service.task # "init" \/ (service'.task = service.task /\ service'.step = service.step)
      PROVE  (\/ config = node.processed
              \/ service.task = "init" /\ service.step \in {"register", "config", "store"}
              \/ ~node.up \/ booted # <<>>)'
  BY <1>3, <1>5
<1>6. CASE ClientStep
  <2>1. PICK a \in Values : Addressed(a)
    BY <1>6, ClientStepIs
  <2>2. node'.processed = node.processed /\ node'.up = node.up
    BY <1>4, <2>1 DEF Addressed, NodeType
  <2>3. UNCHANGED <<config, booted>> /\ (service' = service \/ service.task # "init")
    BY <1>6, ClientStepIs DEF Free
  <2>. QED
    BY <1>5, <2>2, <2>3
<1>7. CASE StartStack
  BY <1>5, <1>7, StartStackIs DEF Serving, Scratchpads
<1>8. CASE SetAutostart
  BY <1>5, <1>8, SetAutostartIs DEF Serving, Scratchpads
<1>9. CASE ClearAutostart
  BY <1>5, <1>9, ClearAutostartIs DEF Serving, Scratchpads
<1>10. CASE StopRequest
  BY <1>5, <1>10, StopRequestIs DEF Serving, Scratchpads
<1>11. CASE StopWait
  BY <1>5, <1>11, StopWaitIs DEF Serving
<1>12. CASE StopDone
  BY <1>5, <1>12, StopDoneIs DEF Serving
<1>13. CASE UploadBegin
  BY <1>5, <1>13, UploadBeginIs DEF Serving, Settings
<1>14. CASE UploadBlock
  BY <1>5, <1>14, UploadBlockIs DEF Serving, Settings
<1>15. CASE UpdateScratchpad
  BY <1>5, <1>15, UpdateScratchpadIs DEF Serving, Settings
<1>16. CASE ReadScratchpad
  BY <1>5, <1>16, RereadIs DEF ReadScratchpad, Serving
<1>17. CASE Register
  BY <1>4, <1>17 DEF Register, Goes, Serving, ServiceType
<1>18. CASE ConfigRead
  BY <1>4, <1>18 DEF ConfigRead, Serving, ServiceType
<1>19. CASE ConfigStore
  <2>1. config' = node.processed /\ node' = node
    BY <1>2, <1>19 DEF ConfigStore, Blame
  <2>. QED
    BY <2>1
<1>20. CASE OtapInit
  <2>1. Serving("init", "otap") /\ node' = node /\ UNCHANGED <<config, booted>>
    BY <1>20, RereadIs DEF OtapInit
  <2>. QED
    BY <1>3, <2>1 DEF Serving
<1>21. CASE BootIndication
  <2>1. node' = node /\ service' = service /\ (Handled \/ Swallowed)
    BY <1>21, BootIndicationIs
  <2>. QED
    BY <1>2, <2>1 DEF Handled, Swallowed, Serving
<1>22. CASE NodeBoots
  <2>1. booted' = Append(booted, node.running) /\ node.running \in BOOLEAN
    BY <1>4, <1>22 DEF NodeBoots, NodeType
  <2>2. booted' # <<>>
    BY <1>4, <2>1
  <2>. QED
    BY <2>2
<1>23. CASE NodeReboots
  <2>1. PICK cause \in {"reboot", "remote_api", "remote_otap"} : node' = Rebooting(cause)
    BY <1>23, NodeRebootsIs
  <2>2. ~node'.up
    BY <1>4, <2>1 DEF Rebooting, NodeType
  <2>. QED
    BY <2>2
<1>24. CASE TransportDies
  <2>1. service' = [service EXCEPT !.caller = Nobody] /\ node' = node /\ UNCHANGED <<config, booted>>
    BY <1>24 DEF TransportDies, Takes
  <2>2. service'.task = service.task /\ service'.step = service.step
    BY <1>4, <2>1 DEF ServiceType
  <2>. QED
    BY <1>5, <2>1, <2>2
<1>25. CASE UNCHANGED vars
  BY <1>5, <1>25 DEF vars, sinkService
<1>. QED
  BY <1>6, <1>7, <1>8, <1>9, <1>10, <1>11, <1>12, <1>13, <1>14, <1>15, <1>16, <1>17, <1>18, <1>19,
     <1>20, <1>21, <1>22, <1>23, <1>24, <1>25 DEF Next, ServiceStep, ClientStep

LEMMA StepOtap ==
  ASSUME Typed, OtapInv, [Next]_vars
  PROVE  OtapInv'
<1> SUFFICES ASSUME Without(CopyExcuses)' PROVE Marks' /\ Copied'
  BY DEF OtapInv
<1>1. causes \subseteq causes'
  <2>1. UNCHANGED vars => causes' = causes
    BY DEF vars, history
  <2>. QED
    BY <2>1, StepCauses
<1>2. \A x \in CopyExcuses : x \notin causes'
  BY DEF Without, CopyExcuses
<1>3. Marks /\ Copied
  <2>1. Without(CopyExcuses)
    BY <1>1 DEF CopyExcuses, Without
  <2>. QED
    BY <2>1 DEF OtapInv
<1>4. service \in ServiceType /\ node \in NodeType /\ node.marked \in BOOLEAN /\ node.up \in BOOLEAN
  BY DEF Typed, TypeOK, NodeType
<1>5. ASSUME Scratchpads' = Scratchpads, otap' = otap,
             service.task \notin {"upload", "process", "init"},
             service'.task \notin {"upload", "process", "init"}
      PROVE  Marks' /\ Copied'
  BY <1>3, <1>5 DEF Marks, Copied, Serving, Scratchpads
<1>6. ASSUME node'.marked = node.marked, node'.up = node.up, otap' = otap,
             node'.stored = node.stored, node'.processed = node.processed,
             service'.task = service.task, service'.step = service.step, service'.ok = service.ok
      PROVE  Marks' /\ Copied'
  BY <1>3, <1>6 DEF Marks, Copied, Serving
<1>7. CASE ClientStep
  <2>1. PICK a \in Values : Addressed(a)
    BY <1>7, ClientStepIs
  <2>2. node'.marked = node.marked /\ node'.up = node.up /\ otap' = otap
        /\ node'.stored = node.stored /\ node'.processed = node.processed
    BY <1>4, <1>7, <2>1, ClientStepIs DEF Addressed, NodeType
  <2>3. \/ service' = service
        \/ /\ Free /\ service'.task \in {"start", "stop", "upload", "process"}
           /\ service'.step = Entry(service'.task)
    BY <1>7, ClientStepIs
  <2>4. CASE service' = service
    BY <1>6, <2>2, <2>4
  <2>5. CASE /\ Free /\ service'.task \in {"start", "stop", "upload", "process"}
             /\ service'.step = Entry(service'.task)
    <3>1. ~Serving("process", "request")' /\ ~Serving("process", "wait")'
          /\ ~Serving("process", "resume")'
      BY <2>5, EntryIs DEF Serving
    <3>2. ~node.marked /\ otap.stored = node.stored /\ otap.processed = node.processed
      BY <1>3, <2>5 DEF Marks, Copied, Serving, Free
    <3>. QED
      BY <2>2, <3>1, <3>2 DEF Marks, Copied
  <2>. QED
    BY <2>3, <2>4, <2>5
<1>8. CASE StartStack
  BY <1>5, <1>8, StartStackIs DEF SameCall, Serving
<1>9. CASE SetAutostart
  BY <1>5, <1>9, SetAutostartIs, NoCallIs DEF Serving, Reply
<1>10. CASE ClearAutostart
  BY <1>5, <1>10, ClearAutostartIs DEF SameCall, Serving
<1>11. CASE StopRequest
  <2>1. /\ Serving("stop", "request") \/ Serving("process", "request")
        /\ SameCall /\ otap' = otap
        /\ node'.marked = node.marked /\ node'.stored = node.stored
        /\ node'.processed = node.processed
        /\ \/ node' = node /\ service'.step = "wait" /\ (node.up => "lost_stop" \in causes')
           \/ node' = node /\ service'.step = "resume" /\ (~node.marked \/ "denied" \in causes')
           \/ node.up /\ ~node'.up /\ service'.step = "wait"
    BY <1>11, StopRequestIs DEF Scratchpads
  <2>2. CASE Serving("stop", "request")
    BY <1>3, <2>1, <2>2 DEF SameCall, Serving, Marks, Copied
  <2>3. CASE Serving("process", "request")
    <3>1. node.marked /\ node.up
      BY <1>3, <2>3 DEF Marks
    <3>2. ~node'.up /\ service'.step = "wait"
      BY <1>2, <2>1, <3>1 DEF CopyExcuses
    <3>. QED
      BY <2>1, <2>3, <3>1, <3>2 DEF SameCall, Serving, Marks, Copied
  <2>. QED
    BY <2>1, <2>2, <2>3
<1>12. CASE StopWait
  <2>1. /\ Serving("stop", "wait") \/ Serving("process", "wait")
        /\ SameCall /\ service'.step = "resume" /\ node' = node /\ otap' = otap
        /\ service'.ok /\ node.up
    BY <1>2, <1>12, StopWaitIs DEF CopyExcuses
  <2>2. ~node.marked
    BY <1>3, <2>1 DEF Marks, Serving
  <2>3. Marks'
    BY <2>1, <2>2 DEF SameCall, Serving, Marks
  <2>4. Copied'
    BY <1>3, <2>1 DEF SameCall, Serving, Copied
  <2>. QED
    BY <2>3, <2>4
<1>13. CASE StopDone
  <2>1. /\ Serving("stop", "resume") \/ Serving("process", "resume")
        /\ \/ service.task = "process" /\ SameCall /\ service'.step = "read"
           \/ ~(service.task = "process" /\ service.ok) /\ Reply(service.ok)
        /\ UNCHANGED <<otap, node>>
    BY <1>13, StopDoneIs
  <2>2. ~node.marked /\ (Serving("process", "resume") => service.ok)
    BY <1>3, <2>1 DEF Marks, Serving
  <2>3. CASE Serving("stop", "resume")
    BY <1>3, <2>1, <2>2, <2>3, NoCallIs DEF Marks, Copied, Serving, Reply
  <2>4. CASE Serving("process", "resume")
    BY <2>1, <2>2, <2>4 DEF Marks, Copied, Serving, SameCall
  <2>. QED
    BY <2>1, <2>3, <2>4
<1>14. CASE UploadBegin
  <2>1. /\ Serving("upload", "begin") /\ otap' = otap
        /\ \/ SameCall /\ service'.step = "block"
           \/ Reply(FALSE) /\ node' = node
        /\ node'.marked => node.marked
    BY <1>2, <1>14, UploadBeginIs DEF CopyExcuses
  <2>2. ~node'.marked
    BY <1>3, <2>1 DEF Marks, Serving
  <2>. QED
    BY <1>3, <2>1, <2>2, NoCallIs DEF SameCall, Serving, Marks, Copied, Reply
<1>15. CASE UploadBlock
  <2>1. /\ Serving("upload", "block") /\ node'.marked = node.marked
        /\ SameCall /\ service'.step \in {"block", "read"}
    BY <1>2, <1>15, UploadBlockIs DEF CopyExcuses
  <2>2. ~node'.marked
    BY <1>3, <2>1 DEF Marks, Serving
  <2>. QED
    BY <2>1, <2>2 DEF SameCall, Serving, Marks, Copied
<1>16. CASE UpdateScratchpad
  <2>1. /\ Serving("process", "update") /\ otap' = otap
        /\ \/ SameCall /\ service'.step = "request" /\ node'.marked /\ node.up
           \/ Reply(FALSE) /\ node' = node
        /\ Settings' = Settings /\ node'.processed = node.processed
        /\ node'.stored = node.stored
    BY <1>2, <1>16, UpdateScratchpadIs DEF CopyExcuses
  <2>2. ~node.marked /\ otap.stored = node.stored /\ otap.processed = node.processed
        /\ node'.up = node.up
    BY <1>3, <2>1 DEF Marks, Copied, Serving, Settings
  <2>. QED
    BY <2>1, <2>2, NoCallIs DEF SameCall, Serving, Marks, Copied, Reply
<1>17. ASSUME Reread, service' = NoCall, ~Serving("process", "request"), ~Serving("process", "wait")
       PROVE  Marks' /\ Copied'
  <2>1. node' = node /\ otap' = [stored |-> node.stored, processed |-> node.processed]
    BY <1>2, <1>17, RereadIs DEF CopyExcuses
  <2>2. ~node.marked
    BY <1>3, <1>17 DEF Marks
  <2>. QED
    BY <1>17, <2>1, <2>2, NoCallIs DEF Serving, Marks, Copied
<1>18. CASE ReadScratchpad
  BY <1>17, <1>18 DEF ReadScratchpad, Reply, Serving
<1>19. CASE OtapInit
  BY <1>17, <1>19 DEF OtapInit, Serving
<1>20. CASE Register \/ ConfigRead \/ ConfigStore
  <2>1. service.task = "init" /\ service'.task = "init"
    BY <1>4, <1>20 DEF Register, ConfigRead, ConfigStore, Goes, Serving, ServiceType
  <2>2. node' = node
    BY <1>20, ReadsNothingElse DEF Register, ConfigRead, ConfigStore, Takes
  <2>. QED
    BY <1>3, <2>1, <2>2 DEF Marks, Copied, Serving
<1>21. CASE BootIndication
  BY <1>6, <1>21, BootIndicationIs
<1>22. CASE NodeBoots
  <2>1. /\ node' = Booting /\ otap' = otap /\ ~node.up
        /\ service' = service \/ service' = [service EXCEPT !.did = {"process"}]
    BY <1>22 DEF NodeBoots, Booting
  <2>2. /\ ~node'.marked /\ node'.up /\ node'.stored = node.stored
        /\ ~node.marked => node'.processed = node.processed
    BY <1>4, <2>1 DEF Booting, NodeType
  <2>3. service'.task = service.task /\ service'.step = service.step /\ service'.ok = service.ok
    BY <1>4, <2>1 DEF ServiceType
  <2>4. Marks'
    BY <1>3, <2>1, <2>2, <2>3 DEF Marks, Serving
  <2>5. Copied'
    <3>1. CASE node.marked
      BY <1>3, <2>1, <2>3, <3>1 DEF Marks, Copied, Serving
    <3>2. CASE ~node.marked
      BY <1>3, <2>1, <2>2, <2>3, <3>2 DEF Copied, Serving
    <3>. QED
      BY <3>1, <3>2
  <2>. QED
    BY <2>4, <2>5
<1>23. CASE NodeReboots
  <2>1. PICK cause \in {"reboot", "remote_api", "remote_otap"} :
          /\ node' = Rebooting(cause) /\ causes' = causes \union RebootBlame(cause)
          /\ UNCHANGED <<service, otap>>
    BY <1>23, NodeRebootsIs
  <2>2. cause # "remote_otap" /\ service.task \in {"none", "init"}
    BY <1>2, <2>1 DEF RebootBlame, CopyExcuses
  <2>3. node'.stored = node.stored /\ node'.processed = node.processed /\ node'.marked = node.marked
    BY <1>4, <2>1, <2>2 DEF Rebooting, NodeType
  <2>. QED
    BY <1>3, <2>1, <2>2, <2>3 DEF Marks, Copied, Serving
<1>24. CASE TransportDies
  <2>1. service' = [service EXCEPT !.caller = Nobody] /\ node' = node /\ otap' = otap
    BY <1>24 DEF TransportDies, Takes
  <2>2. service'.task = service.task /\ service'.step = service.step /\ service'.ok = service.ok
    BY <1>4, <2>1 DEF ServiceType
  <2>. QED
    BY <1>6, <2>1, <2>2
<1>25. CASE UNCHANGED vars
  BY <1>6, <1>25 DEF vars, sinkService
<1>. QED
  BY <1>7, <1>8, <1>9, <1>10, <1>11, <1>12, <1>13, <1>14, <1>15, <1>16, <1>18, <1>19,
     <1>20, <1>21, <1>22, <1>23, <1>24, <1>25 DEF Next, ServiceStep, ClientStep

(* At rest the copies the sink service keeps are the node's, each unless    *)
(* one of the causes that the property names kept it from being read.       *)
THEOREM CachesFollow == Spec => []ServiceCachesFollowNode
<1>1. Init => Copies
  <2> SUFFICES ASSUME Init PROVE Copies
    OBVIOUS
  <2>1. service.task = "init" /\ service.step = "register" /\ ~node.marked
    BY DEF Init, NoCall
  <2>. QED
    BY <2>1 DEF Copies, ConfigInv, OtapInv, Marks, Copied, Serving
<1>2. Typed /\ Copies /\ [Next]_vars => Copies'
  BY StepConfig, StepOtap DEF Copies
<1>3. Typed /\ Copies => ServiceCachesFollowNode
  <2> SUFFICES ASSUME Typed, Copies, AtRest, Without({"unread"})
               PROVE  /\ config = node.processed \/ "crossed_init" \in causes
                      /\ \/ otap = [stored |-> node.stored, processed |-> node.processed]
                         \/ ~Without({"partial", "slow", "denied", "lost_stop", "remote_otap",
                                      "interrupted"})
    BY DEF ServiceCachesFollowNode
  <2>1. service.task = "none" /\ node.up /\ booted = <<>>
    BY DEF AtRest, Free
  <2>2. config = node.processed \/ "crossed_init" \in causes
    BY <2>1 DEF Copies, ConfigInv, Without
  <2>3. ASSUME Without({"partial", "slow", "denied", "lost_stop", "remote_otap", "interrupted"})
        PROVE  otap = [stored |-> node.stored, processed |-> node.processed]
    <3>1. Without(CopyExcuses)
      BY <2>3 DEF CopyExcuses, Without
    <3>2. otap.stored = node.stored /\ otap.processed = node.processed
      BY <2>1, <3>1 DEF Copies, OtapInv, Copied, Serving
    <3>. QED
      BY <3>2 DEF Typed, TypeOK
  <2>. QED
    BY <2>2, <2>3
<1>. QED
  BY SinkInvariant, <1>1, <1>2, <1>3, PTL DEF Spec
=============================================================================
