------------------------- MODULE SinkControlStack -------------------------
(***************************************************************************)
(* Continues SinkControlSafety with what the operations are for: the work  *)
(* that needs a stopped stack is done while it is stopped, and does not    *)
(* fail without a cause; and the stack is left as it was asked for.        *)
(***************************************************************************)
EXTENDS SinkControlSafety

(* From the first look at the stack until it is restored, an operation      *)
(* relies on its state; an item or a scratchpad needs it stopped.           *)
Relies(me) == me.pc \in {"check", "stop", "work", "restore", "change", "restart"}
Needs(me) == ~IsConfig(me) \/ Head(me.todo) # "app_config"
InChange == service.task \in {"start", "stop"}
Exclusive ==
  /\ service.caller # Nobody
  /\ \A d \in Clients \ {service.caller} : ~Relies(thread[d])
Turned == Serving("stop", "wait") \/ Serving("stop", "resume")

LEMMA TakesMore ==
  ASSUME Typed, NEW o, o.cost \in {0, 1}, Takes(o)
  PROVE  troubles' >= troubles
<1>1. troubles \in Nat /\ troubles' = troubles + o.cost
  BY SinkAssumption DEF Typed, TypeOK, Takes
<1>. QED
  BY <1>1

LEMMA StepTroubles ==
  ASSUME Typed, Next
  PROVE  troubles' >= troubles
<1>1. troubles' = troubles => troubles' >= troubles
  BY SinkAssumption DEF Typed, TypeOK
<1>2. ASSUME NEW t \in Threads, ThreadStep(t) PROVE troubles' >= troubles
  <2>1. CASE Capture(t) \/ Check(t)
    BY <2>1, CaptureIs, CheckIs
  <2>2. CASE WriteItem(t) \/ Restore(t)
    BY <2>2, WriteItemIs, RestoreIs DEF Grows
  <2>3. CASE Readback(t)
    BY <2>3, ReadbackIs DEF ReadsOf, Grows
  <2>4. CASE Assign(t) \/ SetTarget(t)
    BY <2>4, AssignIs, SetTargetIs DEF Grows
  <2>5. CASE DefaultTarget(t) \/ Call(t)
    BY <1>1, <2>5, DefaultTargetIs, CallerIs
  <2>. QED
    BY <1>2, <2>1, <2>2, <2>3, <2>4, <2>5 DEF ThreadStep
<1>3. CASE OnStackStarted
  BY <1>3, OnStackStartedIs DEF ReadsOf, Grows
<1>4. CASE ServiceStep
  <2>1. CASE ReadScratchpad \/ OtapInit
    <3>1. PICK o \in ScratchpadStatusRead : Takes(o)
      BY <2>1 DEF ReadScratchpad, OtapInit, Reread
    <3>. QED
      BY <3>1, ReadsNothingElse, TakesMore
  <2>2. CASE ConfigRead
    <3>1. PICK o \in FirmwareVersionRead : Takes(o)
      BY <2>2 DEF ConfigRead
    <3>. QED
      BY <3>1, ReadsNothingElse, TakesMore
  <2>3. CASE Register \/ ConfigStore \/ StopDone
    BY <1>1, <2>3, StopDoneIs DEF Register, ConfigStore
  <2>. QED
    BY <1>4, <2>1, <2>2, <2>3, StartStackIs, SetAutostartIs, ClearAutostartIs, StopRequestIs,
       StopWaitIs, UploadBeginIs, UploadBlockIs, UpdateScratchpadIs DEF ServiceStep, Grows
<1>5. CASE BootIndication
  <2>1. CASE Serving("init", "register")
    BY <1>1, <1>5, <2>1 DEF BootIndication
  <2>2. CASE ~Serving("init", "register")
    <3>1. PICK o \in FirmwareVersionRead : Takes(o)
      BY <1>5, <2>2 DEF BootIndication
    <3>. QED
      BY <3>1, ReadsNothingElse, TakesMore
  <2>. QED
    BY <2>1, <2>2
<1>6. CASE NodeBoots
  BY <1>1, <1>6 DEF NodeBoots
<1>7. CASE NodeReboots
  BY <1>7, NodeRebootsIs, SinkAssumption DEF Typed, TypeOK
<1>8. CASE TransportDies
  <2> DEFINE o == [node |-> node, cost |-> 1]
  <2>1. Takes(o) /\ o.cost \in {0, 1}
    BY <1>8 DEF TransportDies
  <2> HIDE DEF o
  <2>. QED
    BY <2>1, TakesMore
<1>. QED
  BY <1>2, <1>3, <1>4, <1>5, <1>6, <1>7, <1>8 DEF Next

(* A start or stop that overlaps with nobody is its caller's alone.         *)
LEMMA CallAlone ==
  ASSUME Typed, NEW t \in Threads, Call(t), "overlap" \notin causes', InChange'
  PROVE  Exclusive' /\ service'.caller = t /\ thread[t].pc # "work" /\ ~Turned'
<1>1. /\ service'.task = Called(thread[t]) /\ service'.caller = t /\ t # Nobody
      /\ t \in Clients /\ Waits(thread[t]) /\ service'.step = Entry(service'.task)
  BY CallIs
<1>2. thread[t].pc # "work"
  BY <1>1 DEF Called, Waits, IsConfig, InChange, Typed, PlaceInv, Placed, Kind
<1>3. Relying(t) = {}
  BY <1>2, CallerIs DEF Overlap
<1>4. \A d \in Clients \ {t} : ~Relies(thread'[d])
  BY <1>3, CallerIs, ClientsAreThreads DEF Relying, Relies, Others
<1>5. ~Turned'
  BY <1>1, EntryIs DEF Turned, Serving, InChange
<1>. QED
  BY <1>1, <1>2, <1>4, <1>5 DEF Exclusive

-----------------------------------------------------------------------------
(* Nothing fails without a cause.                                           *)

(* Without trouble and overlaps no request is refused or goes unanswered:   *)
(* the node is down only while a stop waits for it, who needs the stack     *)
(* stopped finds it so, and the blocks of an upload follow each other.      *)
NoTrouble == troubles = 0 /\ Without({"overlap"})
Fine(me) ==
  /\ me.result = "error" => Kind(me) = "process"
  /\ Kind(me) = "upload" => me.number # 0
FineInv == \A t \in Clients : Fine(thread[t])
Needed == \A t \in Clients : At(t, "work") /\ Needs(thread[t]) => ~node.running
UpInv == node.up \/ Serving("stop", "wait") \/ Serving("process", "wait")
BlockInv ==
  /\ service.task = "upload" => service.seq # 0
  /\ Serving("upload", "begin") => service.fetched = 0
  /\ Serving("upload", "block") =>
       ~node.running /\ node.loading = [seq |-> service.seq, next |-> service.fetched]
Quiet == /\ FineInv /\ UpInv /\ BlockInv
         /\ IF InChange THEN Exclusive /\ (Turned => ~node.running) ELSE Needed

LEMMA FineIdle == Fine(Idle) /\ ~Relies(Idle) /\ Idle.pc = "idle" /\ Idle.result = "ok"
BY DEF Fine, Relies, Kind, Idle, NoRequest

LEMMA FineStays ==
  ASSUME NEW me, NEW new, Fine(me), Alike(new, me),
         new.result = me.result \/ new.result # "error"
  PROVE  Fine(new)
BY DEF Fine, Alike, Kind

(* A client that was answered as it should be.                              *)
LEMMA ClientFine ==
  ASSUME Typed, Quiet, ClientStep, NoTrouble, NoTrouble'
  PROVE  /\ FineInv'
         /\ Free => \A t \in Clients : thread'[t].pc = "work" /\ Needs(thread'[t]) => ~node.running
<1> DEFINE Good(new) == Fine(new) /\ (Free /\ new.pc = "work" /\ Needs(new) => ~node.running)
<1> DEFINE Goal == \A t \in Clients : Good(thread'[t])
<1>1. Good(Idle) /\ \A t \in Clients : Good(thread[t])
  BY FineIdle DEF Quiet, FineInv, Needed, InChange, Free, At
<1>2. ASSUME NEW t \in Threads, Others(t), Good(thread'[t]) PROVE Goal
  BY <1>1, <1>2, ClientsAreThreads DEF Others
<1>3. Free => ~Failed
  <2>1. Free => node.up
    BY DEF Quiet, UpInv, Free, Serving
  <2>2. ~(troubles' > troubles)
    BY DEF NoTrouble
  <2>. QED
    BY <2>1, <2>2 DEF Failed
<1> HIDE DEF Good
<1>4. ASSUME NEW new, Fine(new), new.pc = "work" => ~Needs(new) \/ ~node.running PROVE Good(new)
  BY <1>4 DEF Good
<1>5. ASSUME NEW rest \in Seq(Items), NEW new, new.todo = rest, IsConfig(new),
             new.pc = Continues(rest), Fine(new)
      PROVE  Good(new)
  BY <1>4, <1>5, ContinuesIs DEF Needs
<1>6. ASSUME NEW t \in Threads, Capture(t) PROVE Goal
  <2>1. /\ Others(t) /\ Free
        /\ LET new == thread'[t]
           IN  /\ IsConfig(new) /\ new.request \in Requests /\ new.todo = new.request.items
               /\ new.pc = Continues(new.todo) /\ new.result = "ok"
    BY <1>3, <1>6, CaptureIs
  <2>2. thread'[t].todo \in Seq(Items)
    BY <2>1, RequestIs DEF IsConfig
  <2>3. Fine(thread'[t])
    BY <2>1 DEF Fine, Kind, IsConfig
  <2>. QED
    BY <1>2, <1>5, <2>1, <2>2, <2>3
<1>7. ASSUME NEW t \in Threads, Check(t) PROVE Goal
  <2>1. /\ Others(t) /\ t \in Clients
        /\ \E me \in ThreadType :
             /\ \/ me = thread[t]
                \/ me.number # 0 /\ me.result = "ok"
             /\ LET new == thread'[t]
                IN  /\ Alike(new, me) /\ new.result = me.result
                    /\ new.pc = (IF node.running THEN "stop" ELSE "work")
    BY <1>3, <1>7, CheckIs
  <2>2. PICK me \in ThreadType :
          /\ \/ me = thread[t]
             \/ me.number # 0 /\ me.result = "ok"
          /\ LET new == thread'[t]
             IN  /\ Alike(new, me) /\ new.result = me.result
                 /\ new.pc = (IF node.running THEN "stop" ELSE "work")
    BY <2>1
  <2>3. Fine(me)
    BY <2>1, <2>2 DEF Fine, Quiet, FineInv
  <2>4. Fine(thread'[t])
    BY <2>2, <2>3, FineStays
  <2>5. Good(thread'[t])
    BY <1>4, <2>2, <2>4
  <2>. QED
    BY <1>2, <2>1, <2>5
<1>8. ASSUME NEW t \in Threads, WriteItem(t) PROVE Goal
  <2> DEFINE me == thread[t]
             new == thread'[t]
  <2>1. /\ Free /\ t \in Clients /\ Others(t) /\ At(t, "work") /\ IsConfig(me)
        /\ me.todo # <<>> /\ me.todo \in Seq(Items)
        /\ Alike(new, me) /\ new.todo = Tail(me.todo) /\ new.pc = Continues(new.todo)
        /\ new.result = me.result \/ (node.running /\ Head(me.todo) # "app_config")
    BY <1>3, <1>8, WriteItemIs
  <2>2. Needs(me) => ~node.running
    BY <2>1 DEF Quiet, Needed, InChange, Free
  <2>3. new.result = me.result /\ Fine(me)
    BY <2>1, <2>2 DEF Needs, Quiet, FineInv
  <2>4. Fine(new)
    BY <2>1, <2>3, FineStays
  <2>5. Tail(me.todo) \in Seq(Items) /\ IsConfig(new)
    BY <2>1 DEF Alike, IsConfig
  <2>6. Good(new)
    BY <1>5, <2>1, <2>4, <2>5
  <2>. QED
    BY <1>2, <2>1, <2>6
<1>9. ASSUME NEW t \in Threads, Restore(t) PROVE Goal
  <2>1. /\ t \in Clients /\ Others(t) /\ Alike(thread'[t], thread[t])
        /\ thread'[t].result = thread[t].result /\ thread'[t].pc # "work"
    BY <1>3, <1>9, RestoreIs
  <2>2. Fine(thread'[t])
    BY <2>1, FineStays DEF Quiet, FineInv
  <2>. QED
    BY <1>2, <1>4, <2>1, <2>2
<1>10. ASSUME NEW t \in Threads, NEW me, ReadsOf(t, me), me = Idle \/ (t \in Clients /\ me = thread[t])
       PROVE  Goal
  <2>1. CASE thread'[t] = Idle
    BY <1>1, <1>2, <1>10, <2>1 DEF ReadsOf, Ends
  <2>2. CASE thread'[t] # Idle
    <3>1. /\ Others(t) /\ Alike(thread'[t], me)
          /\ thread'[t].result = me.result /\ thread'[t].pc # "work"
      BY <1>10, <2>2 DEF ReadsOf, Ends
    <3>2. Fine(me)
      BY <1>10, FineIdle DEF Quiet, FineInv
    <3>3. Fine(thread'[t])
      BY <3>1, <3>2, FineStays
    <3>. QED
      BY <1>2, <1>4, <3>1, <3>3
  <2>. QED
    BY <2>1, <2>2
<1>11. ASSUME NEW t \in Threads, Readback(t) PROVE Goal
  BY <1>10, <1>11, ReadbackIs
<1>12. ASSUME OnStackStarted PROVE Goal
  <2>1. ReadsOf(Glib, Idle) /\ Glib \in Threads
    BY <1>12, OnStackStartedIs
  <2>. QED
    BY <1>10, <2>1
<1>13. ASSUME NEW t \in Threads, Assign(t) \/ SetTarget(t) PROVE Goal
  BY <1>1, <1>2, <1>13, AssignIs, SetTargetIs DEF Ends
<1>14. ASSUME NEW t \in Threads, DefaultTarget(t) PROVE Goal
  <2>1. /\ t \in Clients /\ Others(t)
        /\ \/ thread'[t] = Idle
           \/ thread'[t].pc # "work" /\ Kind(thread'[t]) = "target" /\ thread'[t].result # "error"
           \/ /\ thread'[t].pc = "target" /\ Kind(thread'[t]) = "target"
              /\ thread'[t].result = thread[t].result /\ At(t, "crc")
    BY <1>14, DefaultTargetIs
  <2>2. At(t, "crc") => thread[t].result # "error"
    BY <2>1 DEF Quiet, FineInv, Fine, Typed, PlaceInv, Placed, At
  <2>3. CASE thread'[t] # Idle
    BY <1>2, <1>4, <2>1, <2>2, <2>3, FineIdle DEF Fine
  <2>. QED
    BY <1>1, <1>2, <2>1, <2>3
<1>15. ASSUME NEW t \in Threads, Call(t) PROVE Goal
  <2>1. /\ t \in Clients /\ Others(t) /\ Free /\ thread'[t].pc = thread[t].pc
        /\ thread'[t].request = thread[t].request /\ thread'[t].number = thread[t].number
        /\ thread'[t].todo = thread[t].todo /\ thread'[t].result = thread[t].result
    BY <1>15, CallerIs, CallIs
  <2>2. Fine(thread'[t])
    BY <2>1 DEF Fine, Kind, Quiet, FineInv
  <2>3. Needs(thread'[t]) <=> Needs(thread[t])
    BY <2>1 DEF Needs, IsConfig
  <2>4. thread[t].pc = "work" /\ Needs(thread[t]) => ~node.running
    BY <2>1 DEF Quiet, Needed, InChange, Free, At
  <2>. QED
    BY <1>2, <1>4, <2>1, <2>2, <2>3, <2>4
<1> HIDE DEF Goal
<1>16. Goal
  BY <1>6, <1>7, <1>8, <1>9, <1>11, <1>12, <1>13, <1>14, <1>15 DEF ClientStep, ThreadStep
<1>. QED
  BY <1>16 DEF FineInv, Good, Goal

LEMMA ClientQuiet ==
  ASSUME Typed, Quiet, ClientStep, NoTrouble, NoTrouble'
  PROVE  Quiet'
<1>1. /\ FineInv'
      /\ Free => \A t \in Clients : thread'[t].pc = "work" /\ Needs(thread'[t]) => ~node.running
  BY ClientFine
<1>2. PICK a \in Values : Addressed(a)
  BY ClientStepIs
<1>3. node'.running = node.running /\ node'.up = node.up /\ node'.loading = node.loading
  BY <1>2 DEF Addressed, Typed, TypeOK, NodeType
<1>4. CASE service' = service /\ Free
  BY <1>1, <1>3, <1>4 DEF Quiet, UpInv, BlockInv, Serving, InChange, Free, Needed, At
<1>5. CASE service' = service /\ ~Free
  <2>1. PICK t \in Threads : Assign(t)
    BY <1>5, ClientAddress
  <2>2. At(t, "assign") /\ thread'[t] = Idle /\ Others(t)
    BY <2>1, AssignIs DEF Ends
  <2>3. Exclusive => Exclusive'
    BY <1>5, <2>2, FineIdle, ClientsAreThreads DEF Exclusive, Others
  <2>4. Needed => Needed'
    BY <1>3, <2>2, FineIdle, ClientsAreThreads DEF Needed, At, Others
  <2>. QED
    BY <1>1, <1>3, <1>5, <2>3, <2>4 DEF Quiet, UpInv, BlockInv, Serving, InChange, Turned
<1>6. CASE Free /\ service' # service
  <2>1. PICK t \in Threads : Call(t)
    <3>1. ASSUME NEW t \in Threads, ThreadStep(t) PROVE Call(t)
      BY <1>6, <3>1, CaptureIs, CheckIs, WriteItemIs, RestoreIs, ReadbackIs, AssignIs,
         DefaultTargetIs, SetTargetIs DEF ThreadStep
    <3>. QED
      BY <1>6, <3>1, OnStackStartedIs DEF ClientStep
  <2>2. /\ service'.task = Called(thread[t]) /\ service'.step = Entry(service'.task)
        /\ service'.task \in {"start", "stop", "upload", "process"} /\ Waits(thread[t])
        /\ service'.seq = thread[t].number /\ service'.fetched = 0 /\ t \in Clients
    BY <2>1, CallIs
  <2>3. node.up
    BY <1>6 DEF Quiet, UpInv, Free, Serving
  <2>4. service'.task = "upload" => Kind(thread[t]) = "upload" /\ service'.step = "begin"
    BY <2>2, EntryIs DEF Called, Waits, Kind
  <2>5. BlockInv'
    BY <2>2, <2>4 DEF BlockInv, Serving, Quiet, FineInv, Fine
  <2>6. InChange' => Exclusive' /\ ~Turned'
    BY <2>1, CallAlone DEF NoTrouble, Without
  <2>7. Needed'
    BY <1>1, <1>3, <1>6 DEF Needed, At
  <2>. QED
    BY <1>1, <1>3, <2>3, <2>5, <2>6, <2>7 DEF Quiet, UpInv
<1>. QED
  BY <1>4, <1>5, <1>6, ClientStepIs, ClientAddress DEF Quiet

(* A reply sets its caller on again, which was at work only if the stack    *)
(* is stopped, and is not told of an upload that it failed.                 *)
LEMMA ReplyQuiet ==
  ASSUME Typed, Quiet, NEW good \in BOOLEAN, Reply(good), node'.running = node.running, node'.up,
         service.task = "stop" => ~node.running,
         good \/ service.task # "upload" \/ service.caller = Nobody
  PROVE  Quiet'
<1>1. UpInv' /\ BlockInv' /\ ~InChange'
  BY NoCallIs DEF Reply, UpInv, BlockInv, Serving, InChange
<1>2. CASE service.caller = Nobody
  <2>1. thread' = thread /\ ~InChange
    BY <1>2 DEF Reply, Quiet, Exclusive
  <2>. QED
    BY <1>1, <2>1 DEF Quiet, FineInv, Needed, At
<1>3. CASE service.caller # Nobody
  <2> DEFINE t == service.caller
             me == thread[t]
             new == thread'[t]
  <2>1. /\ t \in Clients /\ Others(t) /\ Waits(me) /\ service.task = Called(me)
        /\ \/ /\ me.pc \in {"stop", "change"} /\ Alike(new, me) /\ new.result = me.result
              /\ new.pc = IF me.pc = "stop" THEN "work" ELSE "readback"
           \/ new = Idle
           \/ /\ me.pc = "work" /\ Alike(new, me) /\ new.pc = "restart"
              /\ new.result = (IF good THEN me.result ELSE "error")
    BY <1>3, AnswersAre DEF Ends
  <2>2. me.pc = "stop" => service.task = "stop"
    BY <2>1 DEF Called
  <2>3. me.pc = "work" => service.task = Kind(me) /\ Kind(me) \in {"upload", "process"}
    BY <2>1, ClientsAreThreads DEF Called, Kind, Waits, IsConfig, Typed, PlaceInv, Placed
  <2>4. Fine(me)
    BY <2>1 DEF Quiet, FineInv
  <2>5. Fine(new)
    <3>1. CASE new.result = me.result /\ Alike(new, me)
      BY <2>4, <3>1, FineStays
    <3>2. CASE new = Idle
      BY <3>2, FineIdle
    <3>3. CASE me.pc = "work" /\ Alike(new, me) /\ ~good
      BY <1>3, <2>3, <2>4, <3>3 DEF Fine, Alike, Kind
    <3>. QED
      BY <2>1, <3>1, <3>2, <3>3
  <2>6. new.pc = "work" => ~node.running
    BY <2>1, <2>2, FineIdle
  <2>7. ASSUME NEW d \in Clients \ {t}
        PROVE  Fine(thread'[d]) /\ (thread'[d].pc = "work" /\ Needs(thread'[d]) => ~node.running)
    <3>1. thread'[d] = thread[d]
      BY <2>1, <2>7, ClientsAreThreads DEF Others
    <3>2. thread[d].pc = "work" /\ Needs(thread[d]) => ~node.running
      BY <2>7 DEF Quiet, Exclusive, Needed, At, Relies
    <3>. QED
      BY <2>7, <3>1, <3>2 DEF Quiet, FineInv
  <2> HIDE DEF t, new
  <2>8. FineInv' /\ Needed'
    BY <2>5, <2>6, <2>7 DEF FineInv, Needed, At, new
  <2>. QED
    BY <1>1, <2>8 DEF Quiet
<1>. QED
  BY <1>2, <1>3

LEMMA StepQuiet ==
  ASSUME Typed, Quiet, NoTrouble, NoTrouble', [Next]_vars
  PROVE  Quiet'
<1>1. ~(troubles' > troubles) /\ service \in ServiceType /\ node \in NodeType
  BY DEF NoTrouble, Typed, TypeOK
<1>2. ASSUME UNCHANGED thread, SameCall, node'.running = node.running, node'.up = node.up,
             service.task # "upload"
      PROVE  /\ FineInv' /\ BlockInv' /\ (Needed => Needed') /\ (Exclusive => Exclusive')
             /\ InChange' = InChange
  BY <1>2 DEF SameCall, Quiet, FineInv, BlockInv, Serving, Needed, At, Exclusive, InChange
<1>3. ASSUME UNCHANGED <<thread, service>>, node'.running = node.running, node'.up = node.up,
             node'.loading = node.loading
      PROVE  Quiet'
  BY <1>3 DEF Quiet, FineInv, UpInv, BlockInv, Serving, Needed, At, Exclusive, InChange, Turned
<1>4. CASE ClientStep
  BY <1>4, ClientQuiet
<1>5. CASE StartStack
  <2>1. /\ service.task = "start" /\ SameCall /\ UNCHANGED thread /\ node'.up = node.up
    BY <1>5, StartStackIs DEF Serving
  <2>2. node.up /\ Exclusive
    BY <2>1 DEF Quiet, UpInv, Serving, InChange
  <2>. QED
    BY <2>1, <2>2 DEF Quiet, FineInv, UpInv, BlockInv, Serving, SameCall, Exclusive, InChange,
                      Turned
<1>6. CASE SetAutostart
  <2>1. /\ service.task = "start" /\ Reply(service.ok) /\ service.ok \in BOOLEAN
        /\ node'.running = node.running /\ node'.up = node.up
    BY <1>1, <1>6, SetAutostartIs DEF Serving, ServiceType
  <2>2. node.up
    BY <2>1 DEF Quiet, UpInv, Serving
  <2>. QED
    BY <2>1, <2>2, ReplyQuiet
<1>7. CASE ClearAutostart
  <2>1. /\ Serving("stop", "autostart") /\ SameCall /\ service'.step = "request"
        /\ UNCHANGED thread /\ node'.up = node.up /\ node'.running = node.running
    BY <1>7, ClearAutostartIs
  <2>2. node.up /\ Exclusive
    BY <2>1 DEF Quiet, UpInv, Serving, InChange
  <2>. QED
    BY <1>2, <2>1, <2>2 DEF Quiet, UpInv, Serving, InChange, Turned
<1>8. CASE StopRequest
  <2>1. /\ Serving("stop", "request") \/ Serving("process", "request")
        /\ SameCall /\ UNCHANGED thread
    BY <1>8, StopRequestIs
  <2>2. node.up
    BY <2>1 DEF Quiet, UpInv, Serving
  <2>3. \/ node' = node /\ service'.step = "resume" /\ ~node.running
        \/ ~node'.up /\ ~node'.running /\ service'.step = "wait"
    BY <1>1, <1>8, <2>2, StopRequestIs
  <2>4. ~node'.running
    BY <2>3
  <2>5. UpInv'
    BY <2>1, <2>2, <2>3 DEF UpInv, Serving, SameCall
  <2>6. FineInv' /\ BlockInv' /\ (Exclusive => Exclusive')
    BY <2>1 DEF SameCall, Quiet, FineInv, BlockInv, Serving, Exclusive
  <2>. QED
    BY <2>1, <2>4, <2>5, <2>6 DEF Quiet, Needed, InChange, SameCall
<1>9. CASE StopWait
  <2>1. /\ Serving("stop", "wait") \/ Serving("process", "wait")
        /\ SameCall /\ service'.step = "resume" /\ UNCHANGED <<thread, node>>
        /\ node.up
    BY <1>1, <1>9, StopWaitIs
  <2>. QED
    BY <1>2, <2>1 DEF Quiet, UpInv, Serving, InChange, Turned, SameCall
<1>10. CASE StopDone
  <2>1. /\ Serving("stop", "resume") \/ Serving("process", "resume")
        /\ UNCHANGED node /\ service.ok \in BOOLEAN
        /\ \/ /\ service.task = "process" /\ SameCall /\ service'.step = "read"
              /\ UNCHANGED thread
           \/ Reply(service.ok)
    BY <1>1, <1>10, StopDoneIs DEF ServiceType
  <2>2. node.up
    BY <2>1 DEF Quiet, UpInv, Serving
  <2>3. service.task = "stop" => ~node.running
    BY <2>1 DEF Quiet, Turned, InChange, Serving
  <2>4. CASE Reply(service.ok)
    BY <2>1, <2>2, <2>3, <2>4, ReplyQuiet DEF Serving
  <2>5. CASE /\ service.task = "process" /\ SameCall /\ service'.step = "read" /\ UNCHANGED thread
    BY <1>2, <2>1, <2>2, <2>5 DEF Quiet, UpInv, InChange
  <2>. QED
    BY <2>1, <2>4, <2>5
<1>11. CASE UploadBegin
  <2>1. Serving("upload", "begin") /\ Settings' = Settings
    BY <1>11, UploadBeginIs
  <2>2. node.up /\ node'.up /\ node'.running = node.running
    BY <2>1 DEF Quiet, UpInv, Serving, Settings
  <2>3. CASE SameCall /\ service'.step = "block"
    <3>1. /\ ~node.running /\ service'.fetched = service.fetched /\ UNCHANGED thread
          /\ node'.loading = [seq |-> service.seq, next |-> 0]
      BY <2>1, <2>3, <1>11, NoCallIs, UploadBeginIs DEF Reply, Serving, SameCall
    <3>2. service.fetched = 0 /\ service.seq # 0
      BY <2>1 DEF Quiet, BlockInv, Serving
    <3>3. BlockInv' /\ ~InChange' /\ ~InChange
      BY <2>1, <2>2, <2>3, <3>1, <3>2 DEF BlockInv, Serving, SameCall, InChange
    <3>. QED
      BY <2>2, <3>1, <3>3 DEF Quiet, FineInv, UpInv, Needed, At
  <2>4. CASE Reply(FALSE)
    <3>1. node.running
      BY <1>1, <1>11, <2>2, <2>4, UploadBeginIs, NoCallIs DEF Reply, Serving, SameCall
    <3>2. service.caller = Nobody
      <4>1. SUFFICES ASSUME service.caller # Nobody PROVE FALSE
        OBVIOUS
      <4>2. service.caller \in Clients /\ Waits(thread[service.caller])
            /\ Called(thread[service.caller]) = "upload"
        BY <1>1, <2>1, <4>1 DEF Typed, CallerInv, ServiceType, Serving
      <4>3. thread[service.caller].pc = "work" /\ Needs(thread[service.caller])
        BY <4>2 DEF Called, Waits, Needs
      <4>. QED
        BY <2>1, <3>1, <4>2, <4>3 DEF Quiet, Needed, InChange, Serving, At
    <3>. QED
      BY <2>1, <2>2, <2>4, <3>2, ReplyQuiet DEF Serving
  <2>. QED
    BY <1>11, <2>3, <2>4, UploadBeginIs
<1>12. CASE UploadBlock
  <2>1. Serving("upload", "block") /\ Settings' = Settings
    BY <1>12, UploadBlockIs
  <2>2. node.up /\ node'.up /\ node'.running = node.running /\ ~node.running
        /\ node.loading = [seq |-> service.seq, next |-> service.fetched] /\ service.seq # 0
    BY <2>1 DEF Quiet, UpInv, BlockInv, Serving, Settings
  <2>3. node.loading.seq = service.seq /\ node.loading.next = service.fetched
    BY <2>2
  <2>4. node.loading # NotLoading
    BY <2>2, <2>3 DEF NotLoading
  <2>5. /\ SameCall /\ UNCHANGED thread
        /\ \/ service'.step = "read"
           \/ /\ service'.step = "block"
              /\ node'.loading = [seq |-> node.loading.seq, next |-> service'.fetched]
    BY <1>1, <1>12, <2>2, <2>3, <2>4, UploadBlockIs
  <2>6. BlockInv' /\ ~InChange' /\ ~InChange
    BY <2>1, <2>2, <2>3, <2>5 DEF BlockInv, Serving, SameCall, InChange
  <2>. QED
    BY <2>2, <2>5, <2>6 DEF Quiet, FineInv, UpInv, Needed, At
<1>13. CASE UpdateScratchpad
  <2>1. Serving("process", "update") /\ Settings' = Settings
    BY <1>13, UpdateScratchpadIs
  <2>2. node.up /\ node'.up /\ node'.running = node.running
    BY <2>1 DEF Quiet, UpInv, Serving, Settings
  <2>3. CASE Reply(FALSE)
    BY <2>1, <2>2, <2>3, ReplyQuiet DEF Serving
  <2>4. CASE SameCall /\ UNCHANGED thread
    BY <1>2, <2>1, <2>2, <2>4 DEF Quiet, UpInv, InChange, Serving
  <2>. QED
    BY <1>13, <2>3, <2>4, UpdateScratchpadIs
<1>14. CASE ReadScratchpad
  <2>1. /\ Serving("upload", "read") \/ Serving("process", "read")
        /\ Reply(TRUE) /\ UNCHANGED node
    BY <1>14, RereadIs DEF ReadScratchpad
  <2>2. node.up
    BY <2>1 DEF Quiet, UpInv, Serving
  <2>. QED
    BY <2>1, <2>2, ReplyQuiet DEF Serving
<1>15. CASE Register \/ ConfigRead \/ ConfigStore \/ OtapInit
  <2>1. service.task = "init" /\ service'.task \in {"init", "none"} /\ UNCHANGED <<thread, node>>
    <3>1. CASE Register \/ ConfigStore
      BY <1>1, <3>1 DEF Register, history, ConfigStore, Goes, Serving, ServiceType
    <3>2. CASE ConfigRead
      <4>1. PICK o \in FirmwareVersionRead : Takes(o)
        BY <3>2 DEF ConfigRead
      <4>2. node' = node
        BY <4>1, ReadsNothingElse DEF Takes
      <4>. QED
        BY <1>1, <3>2, <4>2 DEF ConfigRead, Serving, ServiceType
    <3>3. CASE OtapInit
      BY <3>3, RereadIs, NoCallIs DEF OtapInit, Serving
    <3>. QED
      BY <1>15, <3>1, <3>2, <3>3
  <2>. QED
    BY <2>1 DEF Quiet, FineInv, UpInv, BlockInv, Serving, Needed, At, InChange
<1>16. CASE BootIndication
  BY <1>3, <1>16, BootIndicationIs
<1>17. CASE NodeBoots
  <2>1. /\ node' = Booting /\ UNCHANGED thread
        /\ service' = service \/ service' = [service EXCEPT !.did = {"process"}]
    BY <1>17 DEF NodeBoots, Booting
  <2>2. node'.up /\ node'.running = node.running /\ node'.loading = node.loading
    BY <1>1, <2>1 DEF Booting, NodeType
  <2>3. SameCall /\ service'.step = service.step /\ service'.fetched = service.fetched
    BY <1>1, <2>1 DEF SameCall, ServiceType
  <2>. QED
    BY <2>1, <2>2, <2>3
    DEF SameCall, Quiet, FineInv, UpInv, BlockInv, Serving, Needed, At, Exclusive, InChange, Turned
<1>18. CASE NodeReboots \/ TransportDies
  <2>1. troubles' = troubles + 1
    BY <1>18, NodeRebootsIs DEF TransportDies, Takes
  <2>. QED
    BY <1>1, <2>1 DEF Typed, TypeOK
<1>19. CASE UNCHANGED vars
  BY <1>3, <1>19 DEF vars, sinkService
<1>. QED
  BY <1>4, <1>5, <1>6, <1>7, <1>8, <1>9, <1>10, <1>11, <1>12, <1>13, <1>14, <1>15, <1>16, <1>17,
     <1>18, <1>19 DEF Next, ServiceStep, ClientStep

(* An operation that meets no trouble and overlaps with no other does not   *)
(* fail, but the processing of a scratchpad that is not there: what needs a *)
(* stopped stack is done while it is stopped.                               *)
THEOREM NoErrorWithoutCause == Spec => []ErrorsHaveCauses
<1> DEFINE Inv == NoTrouble => Quiet
<1>1. Init => Inv
  <2> SUFFICES ASSUME Init PROVE Quiet
    OBVIOUS
  <2>1. service.task = "init" /\ service.step = "register" /\ node.up
    BY DEF Init, NoCall
  <2>2. \A t \in Clients : thread[t] = Idle
    BY ClientsAreThreads DEF Init
  <2>. QED
    BY <2>1, <2>2, FineIdle
    DEF Quiet, FineInv, UpInv, BlockInv, Serving, InChange, Needed, At
<1>2. Typed /\ Inv /\ [Next]_vars => Inv'
  <2> SUFFICES ASSUME Typed, Inv, [Next]_vars, NoTrouble' PROVE Quiet'
    OBVIOUS
  <2>1. causes \subseteq causes' /\ troubles' >= troubles
    <3>1. UNCHANGED vars => causes' = causes /\ troubles' = troubles
      BY DEF vars, history
    <3>. QED
      BY <3>1, StepCauses, StepTroubles, SinkAssumption DEF Typed, TypeOK
  <2>2. NoTrouble
    BY <2>1, SinkAssumption DEF NoTrouble, Without, Typed, TypeOK
  <2>. QED
    BY <2>2, StepQuiet
<1>3. Typed /\ Inv => ErrorsHaveCauses
  <2> SUFFICES ASSUME Typed, Inv, NEW t \in Clients, thread[t].result = "error",
                      thread[t].request.kind # "process"
               PROVE  troubles > 0 \/ ~Without({"overlap"})
    BY DEF ErrorsHaveCauses
  <2>1. ~NoTrouble
    BY DEF Quiet, FineInv, Fine, Kind
  <2>. QED
    BY <2>1, SinkAssumption DEF NoTrouble, Typed, TypeOK
<1> HIDE DEF Inv
<1>. QED
  BY SinkInvariant, <1>1, <1>2, <1>3, PTL DEF Spec

-----------------------------------------------------------------------------
(* The stack is left as it was asked for.                                   *)

(* Between changes the stack is either as it was last wanted, or held       *)
(* stopped by one operation that is to start it again; every operation at   *)
(* work has seen what it relies on.  During a change its caller is alone,   *)
(* and the call ends in the state that it is to leave.                      *)
StackExcuses == {"overlap", "unread", "not_started", "lost_stop", "denied", "autostart",
                 "interrupted", "crash"}
Holds(me) == me.stopped /\ Relies(me)
Balanced == (node.running <=> wanted) /\ (node.autostart <=> wanted)
Settled == Balanced /\ \A t \in Clients : ~Holds(thread[t])
Held(h) == /\ Holds(thread[h]) /\ ~node.running /\ ~node.autostart /\ wanted
           /\ \A d \in Clients \ {h} : ~Holds(thread[d])
Keeps(me) == IsConfig(me) /\ me.request.started = "keep"
Sound(me, on) ==
  /\ me.pc = "stop" => on
  /\ me.pc = "change" => ~(on <=> NewState(me))
  /\ me.pc = "restart" => me.stopped
  /\ me.pc = "work" /\ Needs(me) => ~on
  /\ me.pc = "check" => IsConfig(me)
  /\ Keeps(me) /\ Relies(me) => (me.captured <=> on \/ me.stopped)
Resting == /\ Settled \/ \E h \in Clients : Held(h)
           /\ \A t \in Clients : Sound(thread[t], node.running)
Turning ==
  LET me == thread[service.caller]
  IN  /\ Exclusive
      /\ me.pc = "stop" => me.stopped /\ wanted /\ (Keeps(me) => me.captured)
      /\ me.pc = "restart" => wanted
      /\ me.pc = "change" => (wanted <=> NewState(me))
      /\ Serving("start", "autostart") => node.running /\ service.ok
      /\ Serving("stop", "request") => ~node.autostart
      /\ Turned => ~node.running /\ ~node.autostart
Reachable ==
  ~node.up /\ node.running => /\ service.task \in {"none", "init"}
                              /\ \A t \in Clients : ~Relies(thread[t])
Addressable == node.running => node.address # Unset
Attended == service.task \notin {"none", "init"} => service.caller # Nobody
Stack == /\ Addressable /\ Attended /\ Reachable
         /\ IF InChange THEN Turning ELSE Resting
StackInv == Without(StackExcuses) => Stack

LEMMA SoundElsewhere ==
  ASSUME NEW me, NEW on, ~Relies(me)
  PROVE  Sound(me, on) /\ ~Holds(me)
BY DEF Sound, Holds, Relies

LEMMA NewStateIs ==
  ASSUME NEW me
  PROVE  /\ me.request.started = "keep" => NewState(me) = me.captured
         /\ me.request.started = "start" => NewState(me) = TRUE
         /\ me.request.started = "stop" => NewState(me) = FALSE
BY DEF NewState

LEMMA NewStateAlike ==
  ASSUME NEW me, NEW new, Alike(new, me)
  PROVE  NewState(new) = NewState(me) /\ Keeps(new) = Keeps(me) /\ IsConfig(new) = IsConfig(me)
BY DEF NewState, Alike, Keeps, IsConfig

(* One thread moves, and goes on holding the stack if it did.               *)
LEMMA RestMoves ==
  ASSUME Typed, Resting, NEW t \in Threads, Others(t),
         node'.running = node.running, node'.autostart = node.autostart, wanted' = wanted,
         t \in Clients => /\ Holds(thread'[t]) <=> Holds(thread[t])
                          /\ Sound(thread'[t], node.running)
  PROVE  Resting'
<1>1. \A d \in Clients : (Holds(thread'[d]) <=> Holds(thread[d])) /\ Sound(thread'[d], node.running)
  BY ClientsAreThreads DEF Others, Resting
<1>2. Settled => Settled'
  BY <1>1 DEF Settled, Balanced
<1>3. ASSUME NEW h \in Clients, Held(h) PROVE Held(h)'
  BY <1>1, <1>3 DEF Held
<1>. QED
  BY <1>1, <1>2, <1>3 DEF Resting

LEMMA RestStays ==
  ASSUME Typed, Resting, UNCHANGED thread,
         node'.running = node.running, node'.autostart = node.autostart, wanted' = wanted
  PROVE  Resting'
BY DEF Resting, Settled, Balanced, Held

LEMMA SoundAt ==
  ASSUME NEW me, NEW new, NEW on, Sound(me, on), Relies(me), Alike(new, me),
         new.pc \in {"check", "work", "restore"}, new.pc = "check" => IsConfig(me),
         new.pc = "work" => ~on \/ ~Needs(new)
  PROVE  Sound(new, on) /\ (Holds(new) <=> Holds(me))
<1>1. Relies(new) /\ Keeps(new) = Keeps(me) /\ IsConfig(new) = IsConfig(me)
  BY NewStateAlike DEF Relies
<1>2. new.captured = me.captured /\ new.stopped = me.stopped
  BY DEF Alike
<1>. QED
  BY <1>1, <1>2 DEF Sound, Holds

(* What a client does between calls leaves the stack as it is, and what it  *)
(* goes on relying on it has seen; it is content with the stack only if it  *)
(* is the state that is wanted then.                                        *)
LEMMA RestoreRest ==
  ASSUME Typed, Resting, Free, NEW t \in Threads, Restore(t),
         "overlap" \notin causes', "unread" \notin causes'
  PROVE  Resting'
<1> DEFINE me == thread[t]
           new == thread'[t]
           on == node.running
<1>1. /\ Free /\ t \in Clients /\ Others(t) /\ me.pc = "restore" /\ IsConfig(me)
      /\ me.request.started \in {"keep", "start", "stop"}
      /\ node' = node /\ Alike(new, me)
      /\ new.pc = IF on = NewState(me) THEN "readback" ELSE "change"
      /\ wanted' = IF on = NewState(me) THEN Wants(t) ELSE wanted
      /\ causes' = causes \union Overlap({d \in Relying(t) : thread[d].stopped})
  BY RestoreIs DEF At
<1>2. Sound(me, on) /\ Relies(me)
  BY <1>1 DEF Resting, Relies
<1>3. NewState(new) = NewState(me) /\ Keeps(new) = Keeps(me) /\ new.stopped = me.stopped
      /\ new.captured = me.captured
  BY <1>1, NewStateAlike DEF Alike
<1>4. on \in BOOLEAN /\ me.captured \in BOOLEAN /\ me.stopped \in BOOLEAN /\ wanted \in BOOLEAN
  BY DEF Typed, TypeOK, NodeType, ThreadType
<1>5. NewState(me) \in BOOLEAN
  BY <1>1, <1>4, NewStateIs
<1> HIDE DEF me, new, on
<1>6. CASE on # NewState(me)
  <2>1. new.pc = "change" /\ wanted' = wanted
    BY <1>1, <1>6
  <2>2. Keeps(me) => (me.captured <=> on \/ me.stopped)
    BY <1>2 DEF Sound
  <2>3. Sound(new, on)
    BY <1>3, <1>4, <1>5, <1>6, <2>1, <2>2 DEF Sound
  <2>4. Holds(new) <=> Holds(me)
    BY <1>2, <1>3, <2>1 DEF Holds, Relies
  <2>. QED
    BY <1>1, <2>1, <2>3, <2>4, RestMoves DEF me, new, on
<1>7. CASE on = NewState(me)
  <2>1. new.pc = "readback"
    BY <1>1, <1>7
  <2>2. Sound(new, on) /\ ~Holds(new)
    BY <2>1, SoundElsewhere DEF Relies
  <2>3. \A d \in Clients \ {t} : ~Holds(thread[d])
    <3>1. {d \in Relying(t) : thread[d].stopped} = {}
      BY <1>1 DEF Overlap
    <3>. QED
      BY <3>1 DEF Relying, Holds, Relies
  <2>4. CASE Holds(me)
    <3>1. Held(t)
      BY <1>1, <2>3, <2>4 DEF Resting, Settled, Held, me
    <3>2. ~on /\ ~node.autostart /\ wanted /\ me.stopped
      BY <2>4, <3>1 DEF Held, on, Holds
    <3>3. me.request.started = "stop"
      <4>1. me.request.started = "keep" => me.captured
        BY <1>1, <1>2, <3>2 DEF Sound, Keeps
      <4>. QED
        BY <1>1, <1>4, <1>7, <3>2, <4>1, NewStateIs
    <3>4. wanted' = FALSE
      BY <1>1, <1>7, <3>3, NewStateIs DEF Wants, me
    <3>. QED
      <4>1. Balanced'
        BY <1>1, <3>2, <3>4 DEF Balanced, on
      <4>2. \A d \in Clients : ~Holds(thread'[d]) /\ Sound(thread'[d], on)
        BY <1>1, <2>2, <2>3, ClientsAreThreads DEF Others, new, Resting, on
      <4>. QED
        BY <1>1, <4>1, <4>2 DEF Resting, Settled, on
  <2>5. CASE ~Holds(me)
    <3>1. Settled
      BY <1>1, <2>3, <2>5 DEF Resting, Held, me
    <3>2. wanted' = wanted
      <4>1. me.request.started = "keep" => wanted' = wanted
        BY <1>1, <1>7 DEF Wants, me
      <4>2. me.request.started # "keep" => wanted' = on
        BY <1>1, <1>7 DEF Wants, me
      <4>. QED
        BY <1>4, <3>1, <4>1, <4>2 DEF Settled, Balanced, on
    <3>. QED
      BY <1>1, <2>2, <2>5, <3>2, RestMoves DEF me, new, on
  <2>. QED
    BY <2>4, <2>5
<1>. QED
  BY <1>6, <1>7

LEMMA ClientRest ==
  ASSUME Typed, Resting, ClientStep, ~InChange, UNCHANGED service,
         "overlap" \notin causes', "unread" \notin causes', "crash" \notin causes'
  PROVE  Resting'
<1> DEFINE on == node.running
           Kept(t) == (Holds(thread'[t]) <=> Holds(thread[t])) /\ Sound(thread'[t], on)
<1>1. node'.running = node.running /\ node'.autostart = node.autostart
  <2>1. PICK a \in Values : Addressed(a)
    BY ClientStepIs
  <2>. QED
    BY <2>1 DEF Addressed, Typed, TypeOK, NodeType
<1>2. ASSUME NEW t \in Threads, Others(t), wanted' = wanted, t \in Clients => Kept(t)
      PROVE  Resting'
  BY <1>1, <1>2, RestMoves
<1>3. \A t \in Clients : Sound(thread[t], on)
  BY DEF Resting
<1>4. ASSUME NEW t \in Threads, ~Relies(thread[t]), ~Relies(thread'[t]) PROVE Kept(t)
  BY <1>4, SoundElsewhere
<1>5. on \in BOOLEAN /\ \A t \in Threads : thread[t] \in ThreadType
  BY DEF Typed, TypeOK, NodeType
<1>6. ~Relies(Idle)
  BY FineIdle
<1> HIDE DEF on, Kept
<1>7. ASSUME NEW t \in Threads, Capture(t) PROVE Resting'
  <2> DEFINE new == thread'[t]
  <2>1. /\ t \in Clients /\ ~Relies(thread[t]) /\ Others(t) /\ wanted' = wanted
        /\ \/ new = Idle
           \/ /\ IsConfig(new) /\ new.request \in Requests /\ new.todo = new.request.items
              /\ new.captured = on /\ new.pc = Continues(new.todo) /\ ~new.stopped
    BY <1>7, CaptureIs DEF At, Relies, on
  <2> HIDE DEF new
  <2>2. CASE new = Idle
    BY <1>2, <1>4, <1>6, <2>1, <2>2 DEF new
  <2>3. CASE new # Idle
    <3>1. new.todo \in Seq(Items)
      BY <2>1, <2>3, RequestIs DEF IsConfig
    <3>2. new.pc \in {"restore", "work", "check"} /\ (new.pc = "work" => ~Needs(new))
      BY <2>1, <2>3, <3>1, ContinuesIs DEF Needs
    <3>3. Sound(new, on) /\ ~Holds(new)
      BY <1>5, <2>1, <2>3, <3>2 DEF Sound, Holds
    <3>4. ~Holds(thread[t])
      BY <2>1 DEF Holds
    <3>. QED
      BY <1>2, <2>1, <3>3, <3>4 DEF Kept, new
  <2>. QED
    BY <2>2, <2>3
<1>8. ASSUME NEW t \in Threads, Check(t) PROVE Resting'
  <2> DEFINE new == thread'[t]
  <2>1. /\ t \in Clients /\ Others(t) /\ wanted' = wanted
    BY <1>8, CheckIs
  <2>2. PICK me \in ThreadType :
          /\ (IsConfig(me) /\ me.todo # <<>>) \/ Kind(me) \in {"upload", "process"}
          /\ \/ me = thread[t] /\ At(t, "check")
             \/ At(t, "idle") /\ Kind(me) \in {"upload", "process"} /\ ~me.stopped
          /\ \/ /\ Alike(new, me) /\ new.todo = me.todo
                /\ new.pc = (IF node.running THEN "stop" ELSE "work")
             \/ /\ IsConfig(me) /\ Alike(new, me) /\ new.todo = Tail(me.todo)
                /\ new.pc = Continues(new.todo)
             \/ ~IsConfig(me) /\ new = Idle
    BY <1>8, CheckIs
  <2> HIDE DEF new
  <2>3. CASE me = thread[t] /\ At(t, "check")
    <3>1. Sound(me, on) /\ IsConfig(me) /\ Relies(me)
      BY <1>3, <2>1, <2>3 DEF Sound, At, Relies
    <3>2. me.todo # <<>> /\ me.todo \in Seq(Items)
      BY <2>2, <3>1 DEF IsConfig, Kind, ThreadType
    <3>3. CASE new.pc = (IF node.running THEN "stop" ELSE "work") /\ Alike(new, me)
      <4>1. new.stopped = me.stopped /\ new.captured = me.captured /\ Keeps(new) = Keeps(me)
            /\ IsConfig(new) = IsConfig(me)
        BY <3>3, NewStateAlike DEF Alike
      <4>2. (new.pc = "stop" /\ on) \/ (new.pc = "work" /\ ~on)
        BY <3>3 DEF on
      <4>3. Sound(new, on) /\ (Holds(new) <=> Holds(me))
        BY <3>1, <4>1, <4>2 DEF Sound, Holds, Relies
      <4>. QED
        BY <1>2, <2>1, <2>3, <4>3 DEF Kept, new
    <3>4. CASE /\ Alike(new, me) /\ new.todo = Tail(me.todo) /\ new.pc = Continues(new.todo)
      <4>1. Tail(me.todo) \in Seq(Items)
        BY <3>2
      <4>2. new.pc \in {"restore", "work", "check"} /\ (new.pc = "work" => ~Needs(new))
        BY <3>1, <3>4, <4>1, ContinuesIs, NewStateAlike DEF Needs
      <4>3. Sound(new, on) /\ (Holds(new) <=> Holds(me))
        BY <3>1, <3>4, <4>2, SoundAt
      <4>. QED
        BY <1>2, <2>1, <2>3, <4>3 DEF Kept, new
    <3>. QED
      BY <2>2, <3>1, <3>3, <3>4
  <2>4. CASE At(t, "idle") /\ Kind(me) \in {"upload", "process"} /\ ~me.stopped
    <3>1. ~Relies(thread[t]) /\ ~Holds(thread[t]) /\ ~IsConfig(me)
      BY <2>4 DEF At, Relies, Holds, Kind, IsConfig
    <3>2. CASE new = Idle
      BY <1>2, <1>4, <1>6, <2>1, <3>1, <3>2 DEF new
    <3>3. CASE new # Idle
      <4>1. Alike(new, me) /\ new.pc = (IF node.running THEN "stop" ELSE "work")
        BY <2>2, <3>1, <3>3
      <4>2. ~new.stopped /\ ~Keeps(new)
        BY <2>4, <3>1, <4>1, NewStateAlike DEF Alike, Keeps
      <4>3. (new.pc = "stop" /\ on) \/ (new.pc = "work" /\ ~on)
        BY <4>1 DEF on
      <4>4. Sound(new, on) /\ ~Holds(new)
        BY <4>2, <4>3 DEF Sound, Holds
      <4>. QED
        BY <1>2, <2>1, <3>1, <4>4 DEF Kept, new
    <3>. QED
      BY <3>2, <3>3
  <2>. QED
    BY <2>2, <2>3, <2>4
<1>9. ASSUME NEW t \in Threads, WriteItem(t) PROVE Resting'
  <2> DEFINE me == thread[t]
             new == thread'[t]
  <2>1. /\ t \in Clients /\ Others(t) /\ wanted' = wanted /\ me.pc = "work" /\ IsConfig(me)
        /\ me.todo # <<>> /\ me.todo \in Seq(Items)
        /\ Alike(new, me) /\ new.todo = Tail(me.todo) /\ new.pc = Continues(new.todo)
    BY <1>9, WriteItemIs DEF At
  <2>2. Sound(me, on) /\ Relies(me) /\ Tail(me.todo) \in Seq(Items)
    BY <1>3, <2>1 DEF Relies
  <2>3. new.pc \in {"restore", "work", "check"} /\ (new.pc = "work" => ~Needs(new))
    BY <2>1, <2>2, ContinuesIs, NewStateAlike DEF Needs
  <2> HIDE DEF me, new
  <2>4. Sound(new, on) /\ (Holds(new) <=> Holds(me))
    BY <2>1, <2>2, <2>3, SoundAt
  <2>. QED
    BY <1>2, <2>1, <2>4 DEF Kept, me, new
<1>10. ASSUME NEW t \in Threads, Restore(t) PROVE Resting'
  BY <1>10, RestoreIs, RestoreRest
<1>11. ASSUME NEW t \in Threads, Readback(t) PROVE Resting'
  <2>1. ~Relies(thread[t]) /\ ~Relies(thread'[t]) /\ Others(t) /\ wanted' = wanted
    BY <1>6, <1>11, ReadbackIs DEF ReadsOf, Ends, At, Relies
  <2>. QED
    BY <1>2, <1>4, <2>1
<1>12. ASSUME OnStackStarted PROVE Resting'
  <2>1. Glib \in Threads /\ Glib \notin Clients /\ Others(Glib) /\ wanted' = wanted
    BY <1>12, OnStackStartedIs, SinkAssumption DEF ReadsOf
  <2>. QED
    BY <1>2, <2>1
<1>13. ASSUME NEW t \in Threads, Assign(t) \/ SetTarget(t) PROVE Resting'
  <2>1. ~Relies(thread[t]) /\ ~Relies(thread'[t]) /\ Others(t) /\ wanted' = wanted
    BY <1>6, <1>13, AssignIs, SetTargetIs DEF Ends, At, Relies
  <2>. QED
    BY <1>2, <1>4, <2>1
<1>14. ASSUME NEW t \in Threads, DefaultTarget(t) PROVE Resting'
  <2>1. ~Relies(thread[t]) /\ ~Relies(thread'[t]) /\ Others(t) /\ wanted' = wanted
    BY <1>6, <1>14, DefaultTargetIs DEF At, Relies
  <2>. QED
    BY <1>2, <1>4, <2>1
<1>15. ASSUME NEW t \in Threads, Call(t) PROVE FALSE
  BY <1>15, CallIs DEF Free
<1>. QED
  BY <1>7, <1>8, <1>9, <1>10, <1>11, <1>12, <1>13, <1>14, <1>15 DEF ClientStep, ThreadStep

(* A change is begun by an operation that nobody else relies against, and   *)
(* what it will leave is then what is wanted.                               *)
LEMMA CallTurns ==
  ASSUME Typed, Resting, NEW t \in Threads, Call(t), "overlap" \notin causes'
  PROVE  IF InChange' THEN Turning' ELSE Resting'
<1> DEFINE me == thread[t]
           new == thread'[t]
           on == node.running
<1>1. /\ Free /\ t \in Clients /\ t # Nobody /\ Waits(me)
      /\ service'.task = Called(me) /\ service'.step = Entry(service'.task)
      /\ service'.caller = t /\ node' = node
  BY CallIs
<1>2. /\ new.pc = me.pc /\ new.request = me.request /\ new.captured = me.captured
      /\ new.stopped = (me.stopped \/ me.pc = "stop") /\ new.todo = me.todo /\ Others(t)
      /\ wanted' = IF me.pc = "change" THEN Wants(t) ELSE wanted
  BY CallerIs
<1>3. Sound(me, on)
  BY <1>1 DEF Resting
<1>4. NewState(new) = NewState(me) /\ Keeps(new) = Keeps(me) /\ IsConfig(new) = IsConfig(me)
      /\ Needs(new) = Needs(me)
  BY <1>2 DEF NewState, Keeps, IsConfig, Needs
<1>5. on \in BOOLEAN /\ me.captured \in BOOLEAN /\ me.stopped \in BOOLEAN /\ wanted \in BOOLEAN
  BY DEF Typed, TypeOK, NodeType, ThreadType
<1>6. Settled \/ \E h \in Clients : Held(h)
  BY DEF Resting
<1> HIDE DEF me, new, on
<1>7. CASE InChange'
  <2>1. Exclusive' /\ me.pc # "work" /\ ~Turned'
    BY <1>7, CallAlone DEF me
  <2>2. /\ ~Serving("start", "autostart")' /\ ~Serving("stop", "request")'
    BY <1>1, EntryIs DEF Serving
  <2>3. \A d \in Clients \ {t} : ~Holds(thread[d])
    BY <1>1, <1>2, <2>1, ClientsAreThreads DEF Exclusive, Others, Holds
  <2>4. IF Holds(me) THEN Held(t) ELSE Settled
    BY <1>1, <1>6, <2>3 DEF Settled, Held, me
  <2>5. IF Holds(me) THEN ~on /\ wanted ELSE (on <=> wanted)
    BY <2>4 DEF Settled, Balanced, Held, on
  <2>6. me.pc = "stop" => new.stopped /\ wanted' /\ (Keeps(new) => new.captured)
    <3>1. SUFFICES ASSUME me.pc = "stop" PROVE new.stopped /\ wanted' /\ (Keeps(new) => new.captured)
      OBVIOUS
    <3>2. on /\ Relies(me) /\ wanted' = wanted /\ new.stopped
      BY <1>2, <1>3, <3>1 DEF Sound, Relies
    <3>3. wanted
      BY <2>5, <3>2
    <3>4. Keeps(me) => me.captured
      BY <1>3, <3>2 DEF Sound
    <3>. QED
      BY <1>2, <1>4, <3>2, <3>3, <3>4
  <2>7. me.pc = "restart" => wanted'
    <3>1. SUFFICES ASSUME me.pc = "restart" PROVE wanted'
      OBVIOUS
    <3>2. Holds(me) /\ wanted' = wanted
      BY <1>2, <1>3, <3>1 DEF Sound, Holds, Relies
    <3>. QED
      BY <2>5, <3>2
  <2>8. me.pc = "change" => (wanted' <=> NewState(new))
    <3>1. SUFFICES ASSUME me.pc = "change" PROVE wanted' <=> NewState(new)
      OBVIOUS
    <3>2. wanted' = (IF me.request.started = "keep" THEN wanted ELSE NewState(me)) /\ Relies(me)
          /\ IsConfig(me)
      BY <1>1, <1>2, <3>1 DEF Wants, Relies, me, Typed, PlaceInv, Placed
    <3>3. CASE me.request.started = "keep"
      <4>1. NewState(me) = me.captured /\ (me.captured <=> on \/ me.stopped)
        BY <1>3, <3>2, <3>3, NewStateIs DEF Sound, Keeps
      <4>2. me.captured <=> wanted
        <5>1. CASE Holds(me)
          BY <2>5, <4>1, <5>1 DEF Holds
        <5>2. CASE ~Holds(me)
          BY <2>5, <3>2, <4>1, <5>2 DEF Holds
        <5>. QED
          BY <5>1, <5>2
      <4>. QED
        BY <1>4, <3>2, <3>3, <4>1, <4>2
    <3>4. CASE me.request.started # "keep"
      BY <1>4, <3>2, <3>4
    <3>. QED
      BY <3>3, <3>4
  <2>9. Turning'
    BY <1>1, <1>2, <2>1, <2>2, <2>6, <2>7, <2>8 DEF Turning, new
  <2>. QED
    BY <1>7, <2>9
<1>8. CASE ~InChange'
  <2>1. me.pc = "work" /\ Relies(me)
    BY <1>1, <1>8 DEF InChange, Called, Waits, Relies
  <2>2. Sound(new, on) /\ (Holds(new) <=> Holds(me))
    BY <1>2, <1>3, <1>4, <2>1 DEF Sound, Holds, Relies
  <2>3. wanted' = wanted
    BY <1>2, <2>1
  <2>4. Resting'
    BY <1>1, <1>2, <2>2, <2>3, RestMoves DEF me, new, on
  <2>. QED
    BY <1>8, <2>4
<1>. QED
  BY <1>7, <1>8

(* A reply during which the stack does not change.                          *)
LEMMA ReplyRest ==
  ASSUME Typed, Resting, NEW good \in BOOLEAN, Reply(good), service.task \in {"upload", "process"},
         node'.running = node.running, node'.autostart = node.autostart, wanted' = wanted
  PROVE  Resting' /\ ~InChange'
<1>1. ~InChange'
  BY NoCallIs DEF Reply, InChange
<1>2. CASE service.caller = Nobody
  BY <1>1, <1>2, RestStays DEF Reply
<1>3. CASE service.caller # Nobody
  <2> DEFINE t == service.caller
             me == thread[t]
             new == thread'[t]
  <2>1. /\ t \in Clients /\ t \in Threads /\ Others(t) /\ Waits(me) /\ service.task = Called(me)
        /\ \/ me.pc \in {"stop", "change", "restart"}
           \/ me.pc = "work" /\ me.stopped /\ Alike(new, me) /\ new.pc = "restart"
           \/ me.pc = "work" /\ ~me.stopped /\ new = Idle
    BY <1>3, AnswersAre DEF Ends
  <2>2. me.pc = "work" /\ ~IsConfig(me)
    BY <2>1 DEF Called, Waits
  <2>3. Holds(new) <=> Holds(me)
    BY <2>1, <2>2, FineIdle DEF Holds, Relies, Alike
  <2>4. Sound(new, node.running)
    <3>1. CASE new = Idle
      BY <3>1, FineIdle, SoundElsewhere
    <3>2. CASE me.stopped /\ Alike(new, me) /\ new.pc = "restart"
      <4>1. ~Keeps(new) /\ new.stopped
        BY <2>2, <3>2, NewStateAlike DEF Keeps, Alike
      <4>. QED
        BY <3>2, <4>1 DEF Sound
    <3>. QED
      BY <2>1, <2>2, <3>1, <3>2
  <2>. QED
    BY <1>1, <2>1, <2>3, <2>4, RestMoves
<1>. QED
  BY <1>2, <1>3

(* The reply to a change: the stack is then as it is wanted, or held by the *)
(* operation that stopped it.                                               *)
LEMMA ReplyTurns ==
  ASSUME Typed, Turning, NEW good \in BOOLEAN, Reply(good), InChange, wanted' = wanted,
         service.task = "start" => node'.running /\ node'.autostart,
         service.task = "stop" => ~node'.running /\ ~node'.autostart
  PROVE  Resting' /\ ~InChange'
<1>0. PICK t \in Clients : t = service.caller
  BY DEF Turning, Exclusive, Typed, TypeOK, ServiceType
<1> DEFINE me == thread[t]
           new == thread'[t]
<1>1. ~InChange'
  BY NoCallIs DEF Reply, InChange
<1>2. /\ t \in Clients /\ t \in Threads /\ Others(t) /\ Waits(me) /\ service.task = Called(me)
      /\ \/ /\ me.pc \in {"stop", "change"} /\ Alike(new, me) /\ new.todo = me.todo
            /\ new.pc = IF me.pc = "stop" THEN "work" ELSE "readback"
         \/ me.pc = "restart" /\ new = Idle
         \/ me.pc = "work"
  BY <1>0, AnswersAre DEF Turning, Exclusive, Ends
<1>3. me.pc # "work"
  BY <1>2 DEF InChange, Called, Waits, IsConfig, Typed, PlaceInv, Placed, Kind
<1>4. \A d \in Clients \ {t} : ~Relies(thread'[d])
  BY <1>0, <1>2, ClientsAreThreads DEF Turning, Exclusive, Others
<1>5. \A d \in Clients \ {t} : ~Holds(thread'[d]) /\ Sound(thread'[d], node'.running)
  BY <1>4, SoundElsewhere
<1>6. CASE me.pc = "stop"
  <2>1. service.task = "stop" /\ me.stopped /\ wanted /\ (Keeps(me) => me.captured)
    BY <1>0, <1>2, <1>6 DEF Called, Turning
  <2>2. new.stopped /\ new.pc = "work" /\ (Keeps(new) => new.captured)
    BY <1>2, <1>6, <2>1, NewStateAlike DEF Alike
  <2>3. Holds(new) /\ Sound(new, node'.running)
    BY <2>1, <2>2 DEF Holds, Relies, Sound
  <2> HIDE DEF new
  <2>4. Held(t)'
    BY <1>2, <1>5, <2>1, <2>3 DEF Held, new
  <2>. QED
    BY <1>1, <1>2, <1>5, <2>3, <2>4 DEF Resting, new
<1>7. CASE me.pc # "stop"
  <2>1. ~Relies(new)
    BY <1>2, <1>3, <1>7, FineIdle DEF Relies
  <2>2. ~Holds(new) /\ Sound(new, node'.running)
    BY <2>1, SoundElsewhere
  <2>3. wanted <=> service.task = "start"
    <3>1. CASE me.pc = "restart"
      BY <1>0, <1>2, <3>1 DEF Called, Turning
    <3>2. CASE me.pc = "change"
      <4>1. service.task = (IF NewState(me) THEN "start" ELSE "stop")
        BY <1>2, <3>2 DEF Called
      <4>2. wanted <=> NewState(me)
        BY <1>0, <3>2 DEF Turning
      <4>. QED
        BY <4>1, <4>2
    <3>. QED
      BY <1>2, <1>3, <1>7, <3>1, <3>2
  <2>4. Balanced'
    BY <2>3 DEF Balanced, InChange
  <2> HIDE DEF new
  <2>. QED
    BY <1>1, <1>5, <2>2, <2>4 DEF Resting, Settled, new
<1>. QED
  BY <1>6, <1>7

(* While the node boots with its stack on nobody gets to rely on it: the    *)
(* first look at it is not answered.                                        *)
LEMMA ClientReach ==
  ASSUME Typed, Reachable, ClientStep, UNCHANGED service,
         node'.running = node.running, node'.up = node.up
  PROVE  Reachable'
<1> SUFFICES ASSUME ~node.up, node.running
             PROVE  service.task \in {"none", "init"} /\ \A t \in Clients : ~Relies(thread'[t])
  BY DEF Reachable
<1>1. service.task \in {"none", "init"} /\ \A t \in Clients : ~Relies(thread[t])
  BY DEF Reachable
<1> DEFINE Goal == \A t \in Clients : ~Relies(thread'[t])
<1>2. ASSUME NEW t \in Threads, Others(t), t \in Clients => ~Relies(thread'[t]) PROVE Goal
  BY <1>1, <1>2, ClientsAreThreads DEF Others
<1>3. ~Relies(Idle)
  BY FineIdle
<1> HIDE DEF Goal
<1>4. ASSUME NEW t \in Threads, Capture(t) PROVE Goal
  BY <1>2, <1>3, <1>4, CaptureIs
<1>5. ASSUME NEW t \in Threads, Check(t) PROVE Goal
  <2>1. ~At(t, "check") /\ Others(t)
    BY <1>1, <1>5, CheckIs DEF At, Relies
  <2>2. thread'[t] = Idle
    BY <1>5, <2>1, CheckIs DEF IsConfig, Kind
  <2>. QED
    BY <1>2, <1>3, <2>1, <2>2
<1>6. ASSUME NEW t \in Threads, WriteItem(t) \/ Restore(t) \/ Call(t) PROVE FALSE
  BY <1>1, <1>6, WriteItemIs, RestoreIs, CallIs DEF At, Relies, Waits
<1>7. ASSUME NEW t \in Threads, Readback(t) PROVE Goal
  BY <1>2, <1>3, <1>7, ReadbackIs DEF ReadsOf, Ends, Relies
<1>8. ASSUME OnStackStarted PROVE Goal
  <2>1. Glib \in Threads /\ Glib \notin Clients /\ Others(Glib)
    BY <1>8, OnStackStartedIs, SinkAssumption DEF ReadsOf
  <2>. QED
    BY <1>2, <2>1
<1>9. ASSUME NEW t \in Threads, Assign(t) \/ SetTarget(t) PROVE Goal
  BY <1>2, <1>3, <1>9, AssignIs, SetTargetIs DEF Ends
<1>10. ASSUME NEW t \in Threads, DefaultTarget(t) PROVE Goal
  BY <1>2, <1>3, <1>10, DefaultTargetIs DEF Relies
<1>11. Goal
  BY <1>4, <1>5, <1>6, <1>7, <1>8, <1>9, <1>10 DEF ClientStep, ThreadStep
<1>. QED
  BY <1>1, <1>11 DEF Goal

LEMMA StepStack ==
  ASSUME Typed, Stack, Without(StackExcuses)', causes \subseteq causes', [Next]_vars
  PROVE  Stack'
<1>1. /\ "overlap" \notin causes' /\ "unread" \notin causes' /\ "not_started" \notin causes'
      /\ "lost_stop" \notin causes' /\ "denied" \notin causes' /\ "autostart" \notin causes'
      /\ "interrupted" \notin causes' /\ "crash" \notin causes'
  BY DEF Without, StackExcuses
<1>2. /\ service \in ServiceType /\ node \in NodeType /\ wanted \in BOOLEAN
      /\ service.ok \in BOOLEAN
  BY DEF Typed, TypeOK, ServiceType
<1>3. ASSUME UNCHANGED wanted, node'.running = node.running, node'.up = node.up \/ node'.up,
             node'.address = node.address, node'.autostart = node.autostart,
             service.task \notin {"start", "stop"}, SameCall, UNCHANGED thread
      PROVE  Stack'
  <2>1. Resting' /\ ~InChange'
    BY <1>3, RestStays DEF Stack, InChange, SameCall
  <2>2. Addressable' /\ Attended' /\ Reachable'
    BY <1>2, <1>3 DEF Stack, Addressable, Attended, Reachable, SameCall
  <2>. QED
    BY <2>1, <2>2 DEF Stack
<1>4. ASSUME NEW good \in BOOLEAN, Reply(good), node'.running = node.running,
             node'.up = node.up, node'.address = node.address, wanted' = wanted, node'.running => node.up
      PROVE  Addressable' /\ Attended' /\ Reachable'
  BY <1>4, NoCallIs DEF Stack, Addressable, Attended, Reachable, Reply
<1>5. service.task \notin {"none", "init"} => (node.running => node.up)
  BY DEF Stack, Reachable
<1>6. CASE ClientStep
  <2>1. PICK a \in Values : Addressed(a)
    BY <1>6, ClientStepIs
  <2>2. /\ node'.running = node.running /\ node'.up = node.up
        /\ node'.autostart = node.autostart
        /\ node'.address = node.address \/ ~node.running
    BY <1>2, <2>1 DEF Addressed, NodeType
  <2>3. Addressable'
    BY <2>2 DEF Addressable, Stack
  <2>4. CASE service' = service /\ ~InChange
    <3>1. Resting' /\ ~InChange'
      BY <1>1, <1>6, <2>4, ClientRest DEF Stack, InChange
    <3>2. Attended'
      BY <2>4 DEF Attended, Stack
    <3>3. Reachable'
      BY <1>6, <2>2, <2>4, ClientReach DEF Stack
    <3>. QED
      BY <2>3, <3>1, <3>2, <3>3 DEF Stack
  <2>5. CASE service' = service /\ InChange
    <3>1. PICK t \in Threads : Assign(t)
      BY <1>6, <2>5, ClientAddress DEF InChange, Free
    <3>2. At(t, "assign") /\ thread'[t] = Idle /\ Others(t) /\ wanted' = wanted
      BY <3>1, AssignIs DEF Ends
    <3>3. PICK c \in Clients : c = service.caller
      BY <1>2, <2>5 DEF Stack, Turning, Exclusive, ServiceType
    <3>4. Waits(thread[c])
      BY <3>3, SinkAssumption DEF Typed, CallerInv
    <3>5. c # t /\ thread'[c] = thread[c]
      BY <3>2, <3>3, <3>4, ClientsAreThreads DEF At, Waits, Others
    <3>6. Exclusive'
      BY <2>5, <3>2, FineIdle, ClientsAreThreads DEF Stack, Turning, Exclusive, Others
    <3>7. Turning'
      BY <2>2, <2>5, <3>2, <3>3, <3>5, <3>6 DEF Stack, Turning, Serving, Turned
    <3>8. Reachable'
      BY <1>5, <2>2, <2>5 DEF Reachable, InChange
    <3>. QED
      BY <2>3, <2>5, <3>7, <3>8 DEF Stack, Attended, InChange
  <2>6. CASE service' # service /\ Free
    <3>1. PICK t \in Threads : Call(t)
      <4>1. ASSUME NEW t \in Threads, ThreadStep(t) PROVE Call(t)
        BY <2>6, <4>1, CaptureIs, CheckIs, WriteItemIs, RestoreIs, ReadbackIs, AssignIs,
           DefaultTargetIs, SetTargetIs DEF ThreadStep
      <4>. QED
        BY <1>6, <2>6, <4>1, OnStackStartedIs DEF ClientStep
    <3>2. service'.caller = t /\ t # Nobody /\ t \in Clients /\ Waits(thread[t])
      BY <3>1, CallIs
    <3>3. IF InChange' THEN Turning' ELSE Resting'
      BY <1>1, <2>6, <3>1, CallTurns DEF Stack, InChange, Free
    <3>4. ~(~node.up /\ node.running)
      <4>1. CASE Relies(thread[t])
        BY <3>2, <4>1 DEF Stack, Reachable
      <4>2. CASE ~Relies(thread[t])
        BY <3>2, <4>2 DEF Waits, Relies
      <4>. QED
        BY <4>1, <4>2
    <3>. QED
      BY <2>2, <2>3, <3>2, <3>3, <3>4 DEF Stack, Attended, Reachable
  <2>. QED
    BY <1>6, <2>4, <2>5, <2>6, ClientStepIs
<1>7. CASE StartStack
  <2>1. /\ Serving("start", "request") /\ SameCall /\ service'.step = "autostart"
        /\ service'.ok /\ node'.running
        /\ node' = node \/ node.address # Unset
        /\ node'.address = node.address /\ node'.up = node.up /\ node.up
        /\ UNCHANGED <<thread, wanted>>
    BY <1>1, <1>7, StartStackIs
  <2>2. Turning
    BY <2>1 DEF Stack, InChange, Serving
  <2>3. Turning' /\ InChange'
    BY <2>1, <2>2 DEF Turning, Exclusive, Serving, SameCall, Turned, InChange
  <2>4. Addressable' /\ Attended' /\ Reachable'
    BY <2>1 DEF Stack, Addressable, Attended, Reachable, SameCall
  <2>. QED
    BY <2>3, <2>4 DEF Stack
<1>8. CASE SetAutostart
  <2>1. /\ Serving("start", "autostart") /\ Reply(service.ok) /\ node'.autostart
        /\ node'.running = node.running /\ node'.address = node.address /\ node'.up = node.up
        /\ wanted' = wanted
    BY <1>1, <1>8, SetAutostartIs DEF SetAutostart
  <2>2. Turning /\ InChange /\ node.running /\ node.up
    BY <1>5, <2>1 DEF Stack, InChange, Serving, Turning
  <2>3. Resting' /\ ~InChange'
    BY <1>2, <2>1, <2>2, ReplyTurns DEF Serving
  <2>. QED
    BY <1>2, <1>4, <2>1, <2>2, <2>3 DEF Stack
<1>9. CASE ClearAutostart
  <2>1. /\ Serving("stop", "autostart") /\ SameCall /\ service'.step = "request"
        /\ ~node'.autostart
        /\ node'.running = node.running /\ node'.address = node.address /\ node'.up = node.up
        /\ UNCHANGED <<thread, wanted>>
    BY <1>1, <1>9, ClearAutostartIs
  <2>2. Turning
    BY <2>1 DEF Stack, InChange, Serving
  <2>3. Turning' /\ InChange'
    BY <2>1, <2>2 DEF Turning, Exclusive, Serving, SameCall, Turned, InChange
  <2>4. Addressable' /\ Attended' /\ Reachable'
    BY <1>5, <2>1 DEF Stack, Addressable, Attended, Reachable, SameCall, Serving
  <2>. QED
    BY <2>3, <2>4 DEF Stack
<1>10. CASE StopRequest
  <2>1. /\ Serving("stop", "request") \/ Serving("process", "request")
        /\ SameCall /\ UNCHANGED <<thread, wanted>>
        /\ node'.address = node.address /\ node'.autostart = node.autostart
    BY <1>10, StopRequestIs
  <2>2. \/ node' = node /\ service'.step = "wait" /\ ~node.up
        \/ node' = node /\ service'.step = "resume" /\ ~node.running
        \/ ~node'.running /\ service'.step = "wait"
    BY <1>1, <1>10, StopRequestIs
  <2>3. ~node'.running
    BY <1>5, <2>1, <2>2 DEF Serving
  <2>4. Addressable' /\ Attended' /\ Reachable'
    BY <2>1, <2>3 DEF Stack, Addressable, Attended, Reachable, SameCall
  <2>5. CASE service.task = "stop"
    <3>1. Turning /\ ~node.autostart
      BY <2>1, <2>5 DEF Stack, InChange, Serving, Turning
    <3>2. Turning' /\ InChange'
      BY <2>1, <2>2, <2>3, <2>5, <3>1 DEF Turning, Exclusive, Serving, SameCall, Turned, InChange
    <3>. QED
      BY <2>4, <3>2 DEF Stack
  <2>6. CASE service.task = "process"
    <3>1. Resting /\ service.caller # Nobody
      BY <2>1, <2>6 DEF Stack, InChange, Attended
    <3>2. service.caller \in Clients /\ Waits(thread[service.caller])
          /\ Called(thread[service.caller]) = "process"
      BY <1>2, <2>6, <3>1 DEF Typed, CallerInv, ServiceType
    <3>3. thread[service.caller].pc = "work" /\ Needs(thread[service.caller])
      BY <3>2 DEF Called, Waits, Needs
    <3>4. ~node.running
      BY <3>1, <3>2, <3>3 DEF Resting, Sound
    <3>5. node'.running = node.running
      <4>1. node.running \in BOOLEAN /\ node'.running \in BOOLEAN
        BY <1>2, <1>10, StopRequestTyped DEF Typed, TypeOK, NodeType
      <4>. QED
        BY <2>3, <3>4, <4>1
    <3>6. Resting' /\ ~InChange'
      BY <2>1, <2>6, <3>1, <3>5, RestStays DEF InChange, SameCall
    <3>. QED
      BY <2>4, <3>6 DEF Stack
  <2>. QED
    BY <2>1, <2>5, <2>6 DEF Serving
<1>11. CASE StopWait
  <2>1. /\ Serving("stop", "wait") \/ Serving("process", "wait")
        /\ SameCall /\ service'.step = "resume" /\ UNCHANGED <<thread, node, wanted>>
    BY <1>11, StopWaitIs
  <2>2. CASE service.task = "stop"
    <3>1. Turning /\ Turned
      BY <2>1, <2>2 DEF Stack, InChange, Serving, Turned
    <3>2. Turning' /\ InChange'
      BY <2>1, <2>2, <3>1 DEF Turning, Exclusive, Serving, SameCall, Turned, InChange
    <3>3. Addressable' /\ Attended' /\ Reachable'
      BY <2>1 DEF Stack, Addressable, Attended, Reachable, SameCall
    <3>. QED
      BY <3>2, <3>3 DEF Stack
  <2>3. CASE service.task = "process"
    BY <1>3, <2>1, <2>3
  <2>. QED
    BY <2>1, <2>2, <2>3 DEF Serving
<1>12. CASE StopDone
  <2>1. /\ Serving("stop", "resume") \/ Serving("process", "resume")
        /\ UNCHANGED <<node, wanted>>
        /\ \/ service.task = "process" /\ SameCall /\ UNCHANGED thread
           \/ Reply(service.ok)
    BY <1>12, StopDoneIs
  <2>2. CASE service.task = "process" /\ SameCall /\ UNCHANGED thread
    BY <1>3, <2>1, <2>2
  <2>3. CASE Reply(service.ok) /\ service.task = "process"
    <3>1. Resting
      BY <2>3 DEF Stack, InChange
    <3>2. Resting' /\ ~InChange'
      BY <1>2, <2>1, <2>3, <3>1, ReplyRest
    <3>. QED
      BY <1>2, <1>4, <1>5, <2>1, <2>3, <3>2 DEF Stack
  <2>4. CASE Reply(service.ok) /\ service.task = "stop"
    <3>1. Turning /\ Turned /\ InChange
      BY <2>1, <2>4 DEF Stack, InChange, Serving, Turned
    <3>2. ~node.running /\ ~node.autostart
      BY <3>1 DEF Turning
    <3>3. Resting' /\ ~InChange'
      BY <1>2, <2>1, <2>4, <3>1, <3>2, ReplyTurns
    <3>. QED
      BY <1>2, <1>4, <2>1, <2>4, <3>2, <3>3 DEF Stack
  <2>. QED
    BY <2>1, <2>2, <2>3, <2>4 DEF Serving
<1>13. CASE UploadBegin \/ UploadBlock \/ UpdateScratchpad \/ ReadScratchpad
  <2>1. /\ service.task \in {"upload", "process"} /\ Settings' = Settings /\ wanted' = wanted
        /\ \/ SameCall /\ UNCHANGED thread
           \/ Reply(FALSE) \/ Reply(TRUE)
    <3>1. CASE ReadScratchpad
      BY <3>1, RereadIs DEF ReadScratchpad, Serving, Settings
    <3>. QED
      BY <1>13, <3>1, UploadBeginIs, UploadBlockIs, UpdateScratchpadIs DEF Serving
  <2>2. node'.up = node.up /\ node'.running = node.running /\ node'.autostart = node.autostart
        /\ node'.address = node.address
    BY <2>1 DEF Settings
  <2>3. ASSUME NEW good \in BOOLEAN, Reply(good) PROVE Stack'
    <3>1. Resting
      BY <2>1 DEF Stack, InChange
    <3>2. Resting' /\ ~InChange'
      BY <2>1, <2>2, <2>3, <3>1, ReplyRest
    <3>. QED
      BY <1>4, <1>5, <2>1, <2>2, <2>3, <3>2 DEF Stack
  <2>4. CASE SameCall /\ UNCHANGED thread
    BY <1>3, <2>1, <2>2, <2>4
  <2>. QED
    BY <2>1, <2>3, <2>4
<1>14. CASE Register \/ ConfigRead \/ ConfigStore \/ OtapInit
  <2>1. service.task = "init" /\ service'.task \in {"init", "none"}
        /\ UNCHANGED <<thread, node, wanted>>
    <3>1. CASE Register \/ ConfigStore
      BY <1>2, <3>1 DEF Register, history, ConfigStore, Goes, Serving, ServiceType
    <3>2. CASE ConfigRead
      <4>1. PICK o \in FirmwareVersionRead : Takes(o)
        BY <3>2 DEF ConfigRead
      <4>2. node' = node
        BY <4>1, ReadsNothingElse DEF Takes
      <4>. QED
        BY <1>2, <3>2, <4>2 DEF ConfigRead, Serving, ServiceType
    <3>3. CASE OtapInit
      BY <3>3, RereadIs, NoCallIs DEF OtapInit, Serving
    <3>. QED
      BY <1>14, <3>1, <3>2, <3>3
  <2>2. Resting' /\ ~InChange'
    BY <2>1, RestStays DEF Stack, InChange
  <2>3. Addressable' /\ Attended' /\ Reachable'
    BY <2>1 DEF Stack, Addressable, Attended, Reachable
  <2>. QED
    BY <2>2, <2>3 DEF Stack
<1>15. ASSUME UNCHANGED <<thread, service, wanted>>, node' = node PROVE Stack'
  <2>1. Turning => Turning'
    BY <1>15 DEF Turning, Exclusive, Serving, Turned
  <2>2. Resting => Resting'
    BY <1>15, RestStays
  <2>. QED
    BY <1>15, <2>1, <2>2 DEF Stack, Addressable, Attended, Reachable, InChange
<1>16. CASE BootIndication
  BY <1>15, <1>16, BootIndicationIs
<1>17. CASE NodeBoots
  <2>1. /\ node' = Booting /\ UNCHANGED <<thread, wanted>>
        /\ service' = service \/ service' = [service EXCEPT !.did = {"process"}]
    BY <1>17 DEF NodeBoots, Booting, history
  <2>2. node'.up /\ node'.running = node.running /\ node'.address = node.address
        /\ node'.autostart = node.autostart
    BY <1>2, <2>1 DEF Booting, NodeType
  <2>3. SameCall /\ service'.step = service.step /\ service'.ok = service.ok
    BY <1>2, <2>1 DEF SameCall, ServiceType
  <2>4. CASE service.task \notin {"start", "stop"}
    BY <1>3, <2>1, <2>2, <2>3, <2>4
  <2>5. CASE service.task \in {"start", "stop"}
    <3>1. Turning' /\ InChange'
      BY <2>1, <2>2, <2>3, <2>5
      DEF Stack, Turning, Exclusive, Serving, SameCall, Turned, InChange
    <3>. QED
      BY <2>2, <2>3, <3>1 DEF Stack, Addressable, Attended, Reachable, SameCall
  <2>. QED
    BY <2>4, <2>5
<1>18. CASE NodeReboots
  <2>1. PICK cause \in {"reboot", "remote_api", "remote_otap"} :
          node' = Rebooting(cause) /\ causes' = causes \union RebootBlame(cause)
    BY <1>18, NodeRebootsIs
  <2>2. UNCHANGED <<thread, service, wanted>>
    BY <1>18 DEF NodeReboots, sinkService
  <2>3. service.task \in {"none", "init"} /\ \A t \in Clients : thread[t].pc = "idle"
    BY <1>1, <2>1 DEF RebootBlame, At
  <2>4. ~InChange /\ \A t \in Clients : ~Relies(thread[t])
    BY <2>3 DEF InChange, Relies
  <2>5. Settled
    BY <2>4 DEF Stack, Resting, Held, Holds
  <2>6. /\ ~node'.up /\ node'.autostart = node.autostart
        /\ node'.running = (node.autostart /\ node.address # Unset)
        /\ node'.address \in {node.address, Reconfigured}
    BY <1>2, <2>1 DEF Rebooting, NodeType
  <2>7. node.running \in BOOLEAN /\ node.autostart \in BOOLEAN
    BY <1>2 DEF NodeType
  <2>8. node'.running <=> node.running
    BY <2>5, <2>6 DEF Settled, Balanced, Stack, Addressable
  <2>9. Reconfigured # Unset
    BY SinkAssumption DEF Reconfigured, Unset
  <2>10. Addressable'
    BY <2>6, <2>8, <2>9 DEF Addressable, Stack
  <2>11. Settled'
    BY <2>2, <2>5, <2>6, <2>8 DEF Settled, Balanced
  <2>12. Resting'
    <3>1. \A t \in Clients : Sound(thread'[t], node'.running)
      BY <2>2, <2>4, SoundElsewhere
    <3>. QED
      BY <2>11, <3>1 DEF Resting
  <2>. QED
    BY <2>2, <2>3, <2>4, <2>10, <2>12 DEF Stack, Attended, Reachable, InChange
<1>19. CASE TransportDies
  BY <1>1, <1>19 DEF TransportDies, Blame
<1>20. CASE UNCHANGED vars
  BY <1>15, <1>20 DEF vars, sinkService, history
<1>. QED
  BY <1>6, <1>7, <1>8, <1>9, <1>10, <1>11, <1>12, <1>13, <1>14, <1>16, <1>17, <1>18, <1>19, <1>20
  DEF Next, ServiceStep, ClientStep

(* "Set stack in state defined by new config or set it as it was            *)
(* previously": at rest the stack runs, and will after a reboot, as it was  *)
(* last asked for, unless something that the property names happened.       *)
THEOREM StackIsLeftAsWanted == Spec => []StackLeftAsWanted
<1>1. Init => StackInv
  <2> SUFFICES ASSUME Init PROVE Stack
    BY DEF StackInv
  <2>1. service.task = "init" /\ service.step = "register" /\ node.up
    BY DEF Init, NoCall
  <2>2. \A t \in Clients : thread[t] = Idle
    BY ClientsAreThreads DEF Init
  <2>3. /\ node.running = wanted /\ node.autostart = wanted
        /\ node.running => node.address # Unset
    BY SinkAssumption DEF Init, Preset, Unset
  <2>4. Resting
    BY <2>2, <2>3, FineIdle, SoundElsewhere DEF Resting, Settled, Balanced
  <2>. QED
    BY <2>1, <2>3, <2>4 DEF Stack, Addressable, Attended, Reachable, InChange
<1>2. Typed /\ StackInv /\ [Next]_vars => StackInv'
  <2> SUFFICES ASSUME Typed, StackInv, [Next]_vars, Without(StackExcuses)' PROVE Stack'
    BY DEF StackInv
  <2>1. causes \subseteq causes'
    <3>1. UNCHANGED vars => causes' = causes
      BY DEF vars, history
    <3>. QED
      BY <3>1, StepCauses
  <2>2. Stack
    BY <2>1 DEF StackInv, StackExcuses, Without
  <2>. QED
    BY <2>1, <2>2, StepStack
<1>3. Typed /\ StackInv => StackLeftAsWanted
  <2> SUFFICES ASSUME Typed, StackInv, AtRest,
                      Without({"overlap", "unread", "not_started", "lost_stop", "denied",
                               "autostart", "interrupted", "crash"})
               PROVE  node.running = wanted /\ node.autostart = wanted
    BY DEF StackLeftAsWanted
  <2>1. Resting
    BY DEF StackInv, StackExcuses, Stack, AtRest, Free, InChange
  <2>2. Balanced
    BY <2>1, ClientsAreThreads DEF Resting, Settled, Held, Holds, Relies, AtRest, At
  <2>3. node.running \in BOOLEAN /\ node.autostart \in BOOLEAN /\ wanted \in BOOLEAN
    BY DEF Typed, TypeOK, NodeType
  <2>. QED
    BY <2>2, <2>3 DEF Balanced
<1>. QED
  BY SinkInvariant, <1>1, <1>2, <1>3, PTL DEF Spec
=============================================================================
