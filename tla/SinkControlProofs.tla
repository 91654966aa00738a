------------------------- MODULE SinkControlProofs -------------------------
(***************************************************************************)
(* For any number of clients, operations, blocks and troubles: the         *)
(* operations on a sink keep their places, a call is the one its caller    *)
(* waits for, and every change of the stack is signalled.  What is         *)
(* reported, copied and left of an operation follows in SinkControlSafety  *)
(* and SinkControlStack.                                                   *)
(***************************************************************************)
EXTENDS SinkControl, TLAPS

(* What a thread at a place is doing.  A call is served at once or ends in  *)
(* the same step, so nobody waits at "capture" or "sequence".               *)
Kind(me) == me.request.kind
Placed(t, me) ==
  /\ me.pc \notin {"capture", "sequence"}
  /\ t = Glib => me.pc \in {"idle", "assign"} /\ me.request = NoRequest
  /\ t # Glib /\ me.pc # "idle" => me.request \in Requests
  /\ me.pc \in {"restore", "change", "readback"} => IsConfig(me) /\ me.todo = <<>>
  /\ me.pc = "assign" => (IsConfig(me) \/ t = Glib) /\ me.todo = <<>> /\ Len(me.seen) = 1
  /\ me.pc \in {"check", "stop", "work"} =>
       (IsConfig(me) /\ me.todo # <<>>) \/ Kind(me) \in {"upload", "process"}
  /\ me.pc = "restart" => Kind(me) \in {"upload", "process"}
  /\ me.pc = "crc" => Kind(me) = "target" /\ Len(me.seen) = 1
  /\ me.pc = "target" => Kind(me) = "target" /\ Len(me.seen) = 2
PlaceInv == \A t \in Threads : Placed(t, thread[t])

(* A call is the one its caller waits for.                                  *)
Waits(me) == me.pc \in {"stop", "change", "restart"} \/ (me.pc = "work" /\ ~IsConfig(me))
CallerInv ==
  /\ service.task \in {"none", "init"} => service.caller = Nobody
  /\ service.caller # Nobody =>
       LET me == thread[service.caller]
       IN  Waits(me) /\ service.task = Called(me) /\ service.seq = me.number
StoreInv == Serving("init", "store") => service.fetched \in Values

Typed == TypeOK /\ PlaceInv /\ CallerInv /\ StoreInv
-----------------------------------------------------------------------------
(* Requests to the node.                                                    *)

LEMMA OutcomeIs ==
  ASSUME NEW code \in Nat, NEW after, NEW o \in Outcomes(code, after)
  PROVE  /\ o.node \in {node, after} /\ o.res \in {code, NoAnswer} /\ o.cost \in {0, 1}
         /\ o.res # NoAnswer => node.up /\ o.node = after /\ o.res = code
         /\ o.res = NoAnswer /\ node.up => o.cost = 1
         /\ ~node.up => o.node = node /\ o.res = NoAnswer
         /\ o.res \in Int
BY DEF Outcomes, NoAnswer

LEMMA TableSizes ==
  /\ Len(AttReadLUT) = 7 /\ Len(AttWriteLUT) = 7 /\ Len(AppConfigWriteLUT) = 5
  /\ Len(ScratchpadStartLUT) = 5 /\ Len(ScratchpadUpdateLUT) = 4 /\ Len(ScratchpadBlockLUT) = 8
BY DEF AttReadLUT, AttWriteLUT, AppConfigWriteLUT, ScratchpadStartLUT, ScratchpadUpdateLUT,
       ScratchpadBlockLUT

(* The codes that the tables have.                                          *)
LEMMA OkIsZero ==
  ASSUME NEW res \in -1 .. 4
  PROVE  /\ ConvertErrorCode(AttReadLUT, res) = "ok" <=> res = 0
         /\ ConvertErrorCode(AttWriteLUT, res) = "ok" <=> res = 0
         /\ ConvertErrorCode(AppConfigWriteLUT, res) = "ok" <=> res = 0
         /\ ConvertErrorCode(ScratchpadStartLUT, res) = "ok" <=> res = 0
         /\ res # 4 => (ConvertErrorCode(ScratchpadUpdateLUT, res) = "ok" <=> res = 0)
<1>1. ConvertErrorCode(AttReadLUT, res) = "ok" <=> res = 0
  BY TableSizes DEF ConvertErrorCode, AttReadLUT
<1>2. ConvertErrorCode(AttWriteLUT, res) = "ok" <=> res = 0
  BY TableSizes DEF ConvertErrorCode, AttWriteLUT
<1>3. ConvertErrorCode(AppConfigWriteLUT, res) = "ok" <=> res = 0
  BY TableSizes DEF ConvertErrorCode, AppConfigWriteLUT
<1>4. ConvertErrorCode(ScratchpadStartLUT, res) = "ok" <=> res = 0
  BY TableSizes DEF ConvertErrorCode, ScratchpadStartLUT
<1>5. res # 4 => (ConvertErrorCode(ScratchpadUpdateLUT, res) = "ok" <=> res = 0)
  BY TableSizes DEF ConvertErrorCode, ScratchpadUpdateLUT
<1>. QED
  BY <1>1, <1>2, <1>3, <1>4, <1>5

(* A block is loaded when the node took it: 4, which means that nothing was *)
(* begun, is an error.                                                      *)
LEMMA OkIsLoaded ==
  ASSUME NEW res \in -1 .. 7
  PROVE  ConvertErrorCode(ScratchpadBlockLUT, res) = "ok" <=> res \in {0, 1}
BY TableSizes DEF ConvertErrorCode, ScratchpadBlockLUT

(* What a request leaves of the node.                                       *)
Same(o) == o.node = node

LEMMA ReadsNothingElse ==
  ASSUME NEW o, o \in StatusRead \union FirmwareVersionRead \union ScratchpadStatusRead
                        \union TargetWrite
  PROVE  o.node = node /\ o.cost \in {0, 1} /\ o.res \in {0, NoAnswer}
         /\ (o.res = 0 => node.up) /\ (o.res = NoAnswer /\ node.up => o.cost = 1)
BY OutcomeIs DEF StatusRead, FirmwareVersionRead, ScratchpadStatusRead, TargetWrite, NoAnswer

LEMMA AddressReadIs ==
  ASSUME NEW o, o \in NetworkAddressRead
  PROVE  o.node = node /\ o.cost \in {0, 1} /\ o.res \in {0, 4, NoAnswer}
         /\ (o.res = 0 => node.up)
BY OutcomeIs DEF NetworkAddressRead, NoAnswer

LEMMA AutostartWriteIs ==
  ASSUME NEW on \in BOOLEAN, NEW o, o \in AutostartWrite(on)
  PROVE  /\ o.node \in {node, [node EXCEPT !.autostart = on]} /\ o.res \in {0, NoAnswer}
         /\ o.res = 0 => o.node = [node EXCEPT !.autostart = on]
         /\ o.cost \in {0, 1} /\ (~node.up => o.res = NoAnswer)
BY OutcomeIs DEF AutostartWrite, NoAnswer

LEMMA ItemWriteIs ==
  ASSUME NEW item, NEW value, NEW o, o \in ItemWrite(item, value)
  PROVE  /\ \/ o.node = node
            \/ ~node.running /\ o.node = [node EXCEPT !.address = value]
         /\ o.cost \in {0, 1} /\ o.res \in {0, 2, NoAnswer}
         /\ o.res = 2 => node.running /\ item # "app_config"
         /\ o.res = NoAnswer => ~node.up \/ o.cost = 1
<1>1. CASE node.running /\ item # "app_config"
  <2>1. o \in Outcomes(2, node)
    BY <1>1 DEF ItemWrite
  <2>. QED
    BY <1>1, <2>1, OutcomeIs DEF NoAnswer
<1>2. CASE ~(node.running /\ item # "app_config")
  <2> DEFINE after == IF item = "network_address" THEN [node EXCEPT !.address = value] ELSE node
  <2>1. o \in Outcomes(0, after)
    BY <1>2 DEF ItemWrite
  <2>2. o.node \in {node, after}
    BY <2>1, OutcomeIs
  <2>3. o.cost \in {0, 1} /\ o.res \in {0, NoAnswer} /\ (o.res = NoAnswer => ~node.up \/ o.cost = 1)
    BY <2>1, OutcomeIs DEF NoAnswer
  <2>. QED
    BY <1>2, <2>2, <2>3 DEF NoAnswer
<1>. QED
  BY <1>1, <1>2

Started(o) == node.up /\ ~node.running /\ node.address # Unset /\ o.node = [node EXCEPT !.running = TRUE]
LEMMA StackStartIs ==
  ASSUME NEW o, o \in StackStart, node.running \in BOOLEAN
  PROVE  /\ o.node = node \/ Started(o)
         /\ o.cost \in {0, 1} /\ o.res \in {0, 1, 2, NoAnswer}
         /\ o.res = 0 => Started(o)
<1>1. CASE node.running
  <2>1. o \in Outcomes(1, node)
    BY <1>1 DEF StackStart
  <2>. QED
    BY <1>1, <2>1, OutcomeIs DEF NoAnswer
<1>2. CASE ~node.running /\ node.address = Unset
  <2>1. o \in Outcomes(2, node)
    BY <1>2 DEF StackStart
  <2>. QED
    BY <1>2, <2>1, OutcomeIs DEF NoAnswer
<1>3. CASE ~node.running /\ node.address # Unset
  <2>1. o \in Outcomes(0, [node EXCEPT !.running = TRUE])
    BY <1>3 DEF StackStart
  <2>2. o.node = node \/ (node.up /\ o.node = [node EXCEPT !.running = TRUE])
    BY <2>1, OutcomeIs
  <2>3. o.cost \in {0, 1} /\ o.res \in {0, NoAnswer} 
    BY <2>1, OutcomeIs DEF NoAnswer
  <2>4. o.res = 0 => node.up /\ o.node = [node EXCEPT !.running = TRUE]
    BY <2>1, OutcomeIs DEF NoAnswer
  <2>. QED
    BY <1>3, <2>2, <2>3, <2>4 DEF Started, NoAnswer
<1>. QED
  BY <1>1, <1>2, <1>3

WentDown(o) == node.up /\ o.node = [node EXCEPT !.up = FALSE, !.running = FALSE]
LEMMA StackStopIs ==
  ASSUME NEW o, o \in StackStop
  PROVE  /\ o.node = node \/ WentDown(o)
         /\ o.cost \in {0, 1} /\ o.res \in {0, 1, Denied, NoAnswer}
         /\ o.res = 0 => WentDown(o)
         /\ o.res = 1 => ~node.running /\ ~node.marked /\ o.node = node
         /\ o.res = Denied => o.node = node /\ o.cost = 1
         /\ o.res = NoAnswer => ~node.up \/ o.cost = 1
<1> DEFINE down == [node EXCEPT !.up = FALSE, !.running = FALSE]
<1>1. CASE o \in Outcomes(0, down)
  <2>1. o.node = node \/ (node.up /\ o.node = down)
    BY <1>1, OutcomeIs
  <2>2. o.cost \in {0, 1} /\ o.res \in {0, NoAnswer} /\ (o.res = NoAnswer => ~node.up \/ o.cost = 1)
    BY <1>1, OutcomeIs DEF NoAnswer
  <2>3. o.res = 0 => node.up /\ o.node = down
    BY <1>1, OutcomeIs DEF NoAnswer
  <2>. QED
    BY <2>1, <2>2, <2>3 DEF WentDown, NoAnswer, Denied
<1>2. CASE o \in Outcomes(1, node) /\ ~node.running /\ ~node.marked
  BY <1>2, OutcomeIs DEF NoAnswer, Denied
<1>3. CASE o = [res |-> Denied, node |-> node, cost |-> 1]
  BY <1>3 DEF NoAnswer, Denied
<1>. QED
  BY <1>1, <1>2, <1>3 DEF StackStop

Erased(seq, o) ==
  ~node.running /\ o.node = [node EXCEPT !.loading = [seq |-> seq, next |-> 0],
                                         !.stored = 0, !.marked = FALSE]
LEMMA ScratchpadStartIs ==
  ASSUME NEW seq, NEW o, o \in ScratchpadStart(seq)
  PROVE  /\ o.node = node \/ Erased(seq, o)
         /\ o.cost \in {0, 1} /\ o.res \in {0, 1, NoAnswer}
         /\ o.res = 0 => Erased(seq, o)
         /\ o.res = 1 => node.running /\ o.node = node
         /\ o.res = NoAnswer => ~node.up \/ o.cost = 1
<1>1. CASE node.running
  <2>1. o \in Outcomes(1, node)
    BY <1>1 DEF ScratchpadStart
  <2>. QED
    BY <1>1, <2>1, OutcomeIs DEF NoAnswer
<1>2. CASE ~node.running
  <2> DEFINE after == [node EXCEPT !.loading = [seq |-> seq, next |-> 0],
                                   !.stored = 0, !.marked = FALSE]
  <2>1. o \in Outcomes(0, after)
    BY <1>2 DEF ScratchpadStart
  <2>2. o.node \in {node, after} /\ o.cost \in {0, 1} /\ o.res \in {0, NoAnswer}
    BY <2>1, OutcomeIs DEF NoAnswer
  <2>3. (o.res = 0 => o.node = after) /\ (o.res = NoAnswer => ~node.up \/ o.cost = 1)
    BY <2>1, OutcomeIs DEF NoAnswer
  <2>. QED
    BY <1>2, <2>2, <2>3 DEF Erased, NoAnswer
<1>. QED
  BY <1>1, <1>2

(* The block that was due is taken; the last one makes the scratchpad that  *)
(* was loaded the stored one.                                               *)
Loaded(block, o) ==
  /\ ~node.running /\ node.loading # NotLoading /\ node.loading.next = block
  /\ \/ /\ block + 1 = Blocks
        /\ o.node = [node EXCEPT !.stored = node.loading.seq, !.loading = NotLoading]
     \/ /\ block + 1 # Blocks
        /\ o.node = [node EXCEPT !.loading.next = block + 1]
LEMMA ScratchpadBlockIs ==
  ASSUME NEW block, NEW o, o \in ScratchpadBlock(block), node.running \in BOOLEAN
  PROVE  /\ o.node = node \/ Loaded(block, o)
         /\ o.cost \in {0, 1} /\ o.res \in {0, 1, 3, 4, 5, NoAnswer}
         /\ o.res \in {0, 1} => Loaded(block, o)
         /\ o.res \in {3, 4, 5} => node.running \/ node.loading = NotLoading \/ node.loading.next # block
         /\ o.res = NoAnswer => ~node.up \/ o.cost = 1
<1>1. CASE node.running
  <2>1. o \in Outcomes(3, node)
    BY <1>1 DEF ScratchpadBlock
  <2>. QED
    BY <1>1, <2>1, OutcomeIs DEF NoAnswer
<1>2. CASE ~node.running /\ node.loading = NotLoading
  <2>1. o \in Outcomes(4, node)
    BY <1>2 DEF ScratchpadBlock
  <2>. QED
    BY <1>2, <2>1, OutcomeIs DEF NoAnswer
<1>3. CASE ~node.running /\ node.loading # NotLoading /\ node.loading.next # block
  <2>1. o \in Outcomes(5, node)
    BY <1>3 DEF ScratchpadBlock
  <2>. QED
    BY <1>3, <2>1, OutcomeIs DEF NoAnswer
<1>4. CASE ~node.running /\ node.loading # NotLoading /\ node.loading.next = block
  <2>1. CASE block + 1 = Blocks
    <3> DEFINE after == [node EXCEPT !.stored = node.loading.seq, !.loading = NotLoading]
    <3>1. o \in Outcomes(1, after)
      BY <1>4, <2>1 DEF ScratchpadBlock
    <3>2. o.node \in {node, after} /\ o.cost \in {0, 1} /\ o.res \in {1, NoAnswer}
      BY <3>1, OutcomeIs DEF NoAnswer
    <3>3. (o.res = 1 => o.node = after) /\ (o.res = NoAnswer => ~node.up \/ o.cost = 1)
      BY <3>1, OutcomeIs DEF NoAnswer
    <3>. QED
      BY <1>4, <2>1, <3>2, <3>3 DEF Loaded, NoAnswer
  <2>2. CASE block + 1 # Blocks
    <3> DEFINE after == [node EXCEPT !.loading.next = block + 1]
    <3>1. o \in Outcomes(0, after)
      BY <1>4, <2>2 DEF ScratchpadBlock
    <3> HIDE DEF after
    <3>2. o.node \in {node, after} /\ o.cost \in {0, 1} /\ o.res \in {0, NoAnswer}
      BY <3>1, OutcomeIs DEF NoAnswer
    <3>3. (o.res = 0 => o.node = after) /\ (o.res = NoAnswer => ~node.up \/ o.cost = 1)
      BY <3>1, OutcomeIs DEF NoAnswer
    <3> USE DEF after
    <3>. QED
      BY <1>4, <2>2, <3>2, <3>3 DEF Loaded, NoAnswer
  <2>. QED
    BY <2>1, <2>2
<1>. QED
  BY <1>1, <1>2, <1>3, <1>4

Marked(o) == node.up /\ ~node.running /\ node.stored # 0 /\ o.node = [node EXCEPT !.marked = TRUE]
LEMMA ScratchpadUpdateIs ==
  ASSUME NEW o, o \in ScratchpadUpdate, node.running \in BOOLEAN
  PROVE  /\ o.node = node \/ Marked(o)
         /\ o.cost \in {0, 1} /\ o.res \in {0, 1, 2, NoAnswer}
         /\ o.res = 0 => Marked(o)
         /\ o.res \in {1, 2} => o.node = node
         /\ o.res = NoAnswer => ~node.up \/ o.cost = 1
<1>1. CASE node.running
  <2>1. o \in Outcomes(1, node)
    BY <1>1 DEF ScratchpadUpdate
  <2>. QED
    BY <1>1, <2>1, OutcomeIs DEF NoAnswer
<1>2. CASE ~node.running /\ node.stored = 0
  <2>1. o \in Outcomes(2, node)
    BY <1>2 DEF ScratchpadUpdate
  <2>. QED
    BY <1>2, <2>1, OutcomeIs DEF NoAnswer
<1>3. CASE ~node.running /\ node.stored # 0
  <2> DEFINE after == [node EXCEPT !.marked = TRUE]
  <2>1. o \in Outcomes(0, after)
    BY <1>3 DEF ScratchpadUpdate
  <2>2. o.node = node \/ (node.up /\ o.node = after)
    BY <2>1, OutcomeIs
  <2>3. (o.res = 0 => node.up /\ o.node = after) /\ (o.res = NoAnswer => ~node.up \/ o.cost = 1)
        /\ o.cost \in {0, 1} /\ o.res \in {0, NoAnswer}
    BY <2>1, OutcomeIs DEF NoAnswer
  <2>. QED
    BY <1>3, <2>2, <2>3 DEF Marked, NoAnswer
<1>. QED
  BY <1>1, <1>2, <1>3
-----------------------------------------------------------------------------

(* The places of the threads.                                               *)

LEMMA RequestIs ==
  ASSUME NEW r \in Requests
  PROVE  \/ r.kind = "config" /\ r.items \in Seq(Items) /\ r.started \in {"keep", "start", "stop"}
         \/ r.kind \in {"upload", "process", "target"}
BY SinkAssumption

LEMMA ClientsAreThreads ==
  /\ Glib \in Threads /\ Glib \notin Clients /\ Nobody \notin Clients
  /\ \A t \in Clients : t \in Threads /\ t # Glib /\ t # Nobody
  /\ \A t \in Threads : t \in Clients \/ t = Glib
BY SinkAssumption DEF Threads

LEMMA IdleIs ==
  /\ Idle \in ThreadType /\ Idle.pc = "idle" /\ Idle.result = "ok" /\ Idle.did = {}
  /\ Idle.seen = <<>> /\ Idle.request = NoRequest /\ ~Idle.stopped
  /\ \A t : Placed(t, Idle)
<1>1. MaxOps \in Nat
  BY SinkAssumption
<1>2. <<>> \in Seq(Items) /\ <<>> \in Seq(Values)
  OBVIOUS
<1>3. Idle \in ThreadType
  BY <1>1, <1>2 DEF Idle, ThreadType, Places, Results, NoRequest
<1>4. \A t : Placed(t, Idle)
  BY DEF Idle, Placed
<1>. QED
  BY <1>3, <1>4 DEF Idle

LEMMA BeginsIs ==
  ASSUME NEW r \in Requests, ops \in 0 .. MaxOps, ops < MaxOps
  PROVE  LET me == Begins(r)
         IN  /\ me \in ThreadType /\ me.request = r /\ me.number = ops + 1
             /\ me.did = {} /\ me.seen = <<>> /\ me.result = "ok" /\ ~me.stopped
             /\ r.kind = "config" => me.todo = r.items /\ me.pc = "capture"
             /\ r.kind # "config" => me.todo = <<>>
             /\ r.kind = "target" => me.pc = "sequence"
             /\ r.kind \in {"upload", "process"} => me.pc = "check"
<1> DEFINE todo == IF r.kind = "config" THEN r.items ELSE <<>>
           pc == CASE r.kind = "config" -> "capture"
                   [] r.kind = "target" -> "sequence"
                   [] OTHER -> "check"
           me == [Idle EXCEPT !.request = r, !.number = ops + 1, !.todo = todo, !.pc = pc]
<1>1. Begins(r) = me
  BY DEF Begins
<1>2. todo \in Seq(Items)
  BY RequestIs
<1>3. pc \in {"capture", "sequence", "check"} /\ pc \in Places
  BY DEF Places
<1>4. ops + 1 \in 0 .. MaxOps
  BY SinkAssumption
<1>5. me \in ThreadType
  <2> HIDE DEF todo, pc
  <2>. QED
    BY <1>2, <1>3, <1>4, IdleIs DEF ThreadType
<1>6. /\ me.request = r /\ me.number = ops + 1 /\ me.did = {} /\ me.seen = <<>>
      /\ me.result = "ok" /\ ~me.stopped /\ me.todo = todo /\ me.pc = pc
  <2> HIDE DEF todo, pc
  <2>. QED
    BY IdleIs DEF ThreadType
<1>. QED
  BY <1>1, <1>5, <1>6

(* A call is made by a client, at its place or with its operation.          *)
LEMMA CallingIs ==
  ASSUME Typed, NEW t \in Threads, NEW where \in {"capture", "check", "sequence", "crc"},
         NEW me \in Calling(t, where)
  PROVE  /\ Free /\ t \in Clients /\ me \in ThreadType /\ me.pc = where
         /\ me.request \in Requests
         /\ \/ me = thread[t] /\ where \in {"check", "crc"}
            \/ /\ At(t, "idle") /\ ops < MaxOps /\ me = Begins(me.request)
               /\ me.number = ops + 1 /\ me.did = {} /\ me.result = "ok" /\ ~me.stopped
               /\ where = "crc" => FALSE
         /\ where = "capture" => IsConfig(me) /\ me.todo = me.request.items /\ me.did = {}
         /\ where = "check" =>
              (IsConfig(me) /\ me.todo # <<>>) \/ Kind(me) \in {"upload", "process"}
         /\ where = "sequence" => Kind(me) = "target" /\ me.seen = <<>>
         /\ where = "crc" => Kind(me) = "target" /\ Len(me.seen) = 1
<1>1. Free
  BY DEF Calling
<1>2. CASE At(t, "idle") /\ t \in Clients /\ ops < MaxOps
  <2>1. PICK r \in Requests : me = Begins(r) /\ me.pc = where
    BY <1>1, <1>2 DEF Calling
  <2>2. ops \in 0 .. MaxOps
    BY DEF Typed, TypeOK
  <2>3. r.kind \in {"config", "upload", "process", "target"}
    BY RequestIs
  <2>. QED
    BY <1>1, <1>2, <2>1, <2>2, <2>3, BeginsIs DEF IsConfig, Kind
<1>3. CASE ~(At(t, "idle") /\ t \in Clients /\ ops < MaxOps)
  <2>1. me = thread[t] /\ me.pc = where
    BY <1>1, <1>3 DEF Calling
  <2>2. Placed(t, me) /\ me \in ThreadType
    BY <2>1 DEF Typed, TypeOK, PlaceInv
  <2>3. where \in {"check", "crc"} /\ t # Glib /\ me.request \in Requests
    BY <2>1, <2>2 DEF Placed
  <2>. QED
    BY <1>1, <2>1, <2>2, <2>3, ClientsAreThreads DEF Placed
<1>. QED
  BY <1>2, <1>3

LEMMA CountsIs ==
  ASSUME Typed, NEW t \in Threads, NEW where \in {"capture", "check", "sequence", "crc"},
         NEW me \in Calling(t, where), Counts(t)
  PROVE  ops' \in 0 .. MaxOps
<1>1. ops \in 0 .. MaxOps /\ MaxOps \in Nat
  BY SinkAssumption DEF Typed, TypeOK
<1>2. CASE At(t, "idle") /\ t \in Clients
  <2>1. ops < MaxOps
    BY <1>2, CallingIs DEF At
  <2>. QED
    BY <1>1, <1>2, <2>1 DEF Counts
<1>3. CASE ~(At(t, "idle") /\ t \in Clients)
  BY <1>1, <1>3 DEF Counts
<1>. QED
  BY <1>2, <1>3

(* A thread moves that waits for no call.                                   *)
LEMMA ThreadMoves ==
  ASSUME Typed, NEW t \in Threads, NEW new \in ThreadType, Placed(t, new), Update(t, new),
         service' = service, Free \/ ~Waits(thread[t])
  PROVE  /\ thread' \in [Threads -> ThreadType] /\ PlaceInv' /\ CallerInv' /\ StoreInv'
         /\ thread'[t] = new /\ \A d \in Threads \ {t} : thread'[d] = thread[d]
<1>1. thread' = [thread EXCEPT ![t] = new] /\ thread \in [Threads -> ThreadType]
  BY DEF Update, Typed, TypeOK
<1>2. /\ thread' \in [Threads -> ThreadType]
      /\ thread'[t] = new /\ \A d \in Threads \ {t} : thread'[d] = thread[d]
  BY <1>1
<1>3. PlaceInv'
  <2>1. \A d \in Threads : Placed(d, thread'[d])
    BY <1>2 DEF Typed, PlaceInv
  <2>. QED
    BY <2>1 DEF PlaceInv, Placed, Kind, IsConfig
<1>4. CallerInv'
  <2>1. CASE service.caller = Nobody
    BY <2>1 DEF CallerInv
  <2>2. CASE service.caller # Nobody
    <3>1. service.task \notin {"none", "init"} /\ Waits(thread[service.caller])
      BY <2>2 DEF Typed, CallerInv
    <3>2. service.caller # t
      BY <3>1 DEF Free
    <3>3. service.caller \in Threads
      BY <2>2, ClientsAreThreads DEF Typed, TypeOK, ServiceType
    <3>4. thread'[service.caller] = thread[service.caller]
      BY <1>2, <3>2, <3>3
    <3>. QED
      BY <2>2, <3>1, <3>4 DEF Typed, CallerInv, Waits, IsConfig, Called, NewState
  <2>. QED
    BY <2>1, <2>2
<1>5. StoreInv'
  BY DEF Typed, StoreInv, Serving, Values, Preset
<1>. QED
  BY <1>2, <1>3, <1>4, <1>5

LEMMA AskedIsWork ==
  ASSUME NEW me \in ThreadType
  PROVE  Asked(me) \subseteq Work
<1>1. CASE me.request = NoRequest
  BY <1>1 DEF Asked, NoRequest
<1>2. CASE me.request \in Requests /\ me.request.kind = "config"
  <2>1. me.request.items \in Seq(Items)
    BY <1>2, RequestIs
  <2>2. \A i \in DOMAIN me.request.items : me.request.items[i] \in Items
    BY <2>1
  <2>3. Asked(me) = {me.request.items[i] : i \in DOMAIN me.request.items} \union {"stack"}
    BY <1>2 DEF Asked
  <2>. QED
    BY <2>2, <2>3 DEF Work
<1>3. CASE me.request \in Requests /\ me.request.kind # "config"
  BY <1>3, RequestIs DEF Asked, Work
<1>. QED
  BY <1>1, <1>2, <1>3 DEF ThreadType

LEMMA FinishesIs ==
  ASSUME Typed, NEW t \in Threads, NEW me \in ThreadType, NEW result, Finishes(t, me, result)
  PROVE  undone' \subseteq Work /\ Update(t, Idle)
<1>1. undone \subseteq Work
  BY DEF Typed, TypeOK
<1>. QED
  BY <1>1, AskedIsWork DEF Finishes

(* The reply: what it makes of the caller.                                  *)
Served(t) == [thread[t] EXCEPT !.did = @ \union service.did]
Judged(t, good) == [Served(t) EXCEPT !.result = IF good THEN @ ELSE "error"]
LEMMA ReplyCases ==
  ASSUME Typed, NEW good \in BOOLEAN, Reply(good), service.caller # Nobody
  PROVE  LET t == service.caller
         IN  /\ t \in Clients /\ t \in Threads /\ t # Glib
             /\ thread[t] \in ThreadType /\ Placed(t, thread[t]) /\ Waits(thread[t])
             /\ Served(t) \in ThreadType /\ Judged(t, good) \in ThreadType
             /\ thread[t].pc = "stop" => Moves(t, "work") /\ UNCHANGED undone
             /\ thread[t].pc = "change" =>
                  Update(t, [Served(t) EXCEPT !.pc = "readback"]) /\ UNCHANGED undone
             /\ thread[t].pc = "restart" => Finishes(t, Served(t), Served(t).result)
             /\ thread[t].pc = "work" /\ thread[t].stopped =>
                  Update(t, [Judged(t, good) EXCEPT !.pc = "restart"]) /\ UNCHANGED undone
             /\ thread[t].pc = "work" /\ ~thread[t].stopped =>
                  Finishes(t, Served(t), Judged(t, good).result)
<1> DEFINE t == service.caller
           me == [thread[t] EXCEPT !.did = @ \union service.did]
           worked == [me EXCEPT !.result = IF good THEN @ ELSE "error"]
<1>1. t \in Clients /\ t \in Threads /\ t # Glib /\ service.did \subseteq Work
  BY ClientsAreThreads DEF Typed, TypeOK, ServiceType
<1>2. thread[t] \in ThreadType /\ Placed(t, thread[t]) /\ Waits(thread[t])
  BY <1>1 DEF Typed, TypeOK, PlaceInv, CallerInv
<1>3. me \in ThreadType /\ worked \in ThreadType
  BY <1>1, <1>2 DEF ThreadType, Results
<1>4. me = Served(t) /\ worked = Judged(t, good)
  BY DEF Served, Judged
<1>5. me.pc = thread[t].pc /\ me.stopped = thread[t].stopped
  BY <1>2 DEF ThreadType
<1> HIDE DEF me, worked
<1>6. CASE me.pc = "stop"
  BY <1>1, <1>2, <1>3, <1>4, <1>5, <1>6 DEF Reply, me, worked
<1>7. CASE me.pc = "change"
  BY <1>1, <1>2, <1>3, <1>4, <1>5, <1>7 DEF Reply, me, worked
<1>8. CASE me.pc = "restart"
  BY <1>1, <1>2, <1>3, <1>4, <1>5, <1>8 DEF Reply, me, worked
<1>9. CASE me.pc = "work"
  BY <1>1, <1>2, <1>3, <1>4, <1>5, <1>9 DEF Reply, me, worked
<1>. QED
  BY <1>2, <1>5, <1>6, <1>7, <1>8, <1>9 DEF Waits

LEMMA ReplyIs ==
  ASSUME Typed, NEW good \in BOOLEAN, Reply(good)
  PROVE  /\ service' = NoCall
         /\ thread' \in [Threads -> ThreadType] /\ PlaceInv' /\ CallerInv' /\ StoreInv'
         /\ undone' \subseteq Work
<1>1. service' = NoCall
  BY DEF Reply
<1>2. CallerInv' /\ StoreInv'
  BY <1>1 DEF CallerInv, StoreInv, NoCall, Serving
<1>3. CASE service.caller = Nobody
  <2>1. UNCHANGED <<thread, undone>>
    BY <1>3 DEF Reply
  <2>. QED
    BY <1>1, <1>2, <2>1 DEF Typed, TypeOK, PlaceInv, Placed, Kind, IsConfig
<1>4. CASE service.caller # Nobody
  <2> DEFINE t == service.caller
  <2>1. t \in Clients /\ t \in Threads /\ t # Glib
    BY <1>4, ReplyCases
  <2>2. thread[t] \in ThreadType /\ Placed(t, thread[t]) /\ Waits(thread[t])
    BY <1>4, ReplyCases
  <2>3. Served(t) \in ThreadType /\ Judged(t, good) \in ThreadType
    BY <1>4, ReplyCases
  <2>4. /\ thread[t].pc = "stop" => Moves(t, "work") /\ UNCHANGED undone
        /\ thread[t].pc = "change" =>
                  Update(t, [Served(t) EXCEPT !.pc = "readback"]) /\ UNCHANGED undone
        /\ thread[t].pc = "restart" => Finishes(t, Served(t), Served(t).result)
        /\ thread[t].pc = "work" =>
             \/ Update(t, [Judged(t, good) EXCEPT !.pc = "restart"]) /\ UNCHANGED undone
             \/ Finishes(t, Served(t), Judged(t, good).result)
    BY <1>4, ReplyCases
  <2>5. PICK new \in ThreadType : Update(t, new) /\ Placed(t, new)
    <3>1. CASE thread[t].pc = "stop"
      <4> DEFINE new == [thread[t] EXCEPT !.pc = "work"]
      <4>1. Update(t, new)
        BY <2>4, <3>1 DEF Moves
      <4>2. new \in ThreadType
        BY <2>2 DEF ThreadType, Places
      <4>3. Placed(t, new)
        BY <2>1, <2>2, <3>1 DEF Placed, ThreadType, Kind, IsConfig
      <4>. QED
        BY <4>1, <4>2, <4>3
    <3>2. CASE thread[t].pc = "change"
      <4> DEFINE new == [Served(t) EXCEPT !.pc = "readback"]
      <4>1. Update(t, new)
        BY <2>4, <3>2
      <4>2. new \in ThreadType
        BY <2>3 DEF ThreadType, Places
      <4>3. new.pc = "readback" /\ new.request = thread[t].request /\ new.todo = thread[t].todo
        BY <2>2, <2>3 DEF Served, ThreadType
      <4>4. Placed(t, new)
        <5> HIDE DEF new
        <5>. QED
          BY <2>1, <2>2, <3>2, <4>3 DEF Placed, Kind, IsConfig
      <4>. QED
        BY <4>1, <4>2, <4>4
    <3>3. CASE thread[t].pc = "restart"
      <4>1. Update(t, Idle)
        BY <2>1, <2>3, <2>4, <3>3, FinishesIs
      <4>. QED
        BY <4>1, IdleIs
    <3>4. CASE thread[t].pc = "work" /\ Update(t, [Judged(t, good) EXCEPT !.pc = "restart"])
      <4> DEFINE new == [Judged(t, good) EXCEPT !.pc = "restart"]
      <4>1. new \in ThreadType
        BY <2>3 DEF ThreadType, Places
      <4>2. new.pc = "restart" /\ new.request = thread[t].request
        BY <2>2, <2>3 DEF Judged, Served, ThreadType
      <4>3. Placed(t, new)
        <5> HIDE DEF new
        <5>. QED
          BY <2>1, <2>2, <3>4, <4>2 DEF Placed, Waits, Kind, IsConfig
      <4>. QED
        BY <3>4, <4>1, <4>3
    <3>5. CASE thread[t].pc = "work" /\ Finishes(t, Served(t), Judged(t, good).result)
      <4>1. Update(t, Idle)
        BY <2>1, <2>3, <3>5, FinishesIs
      <4>. QED
        BY <4>1, IdleIs
    <3>. QED
      BY <2>2, <2>4, <3>1, <3>2, <3>3, <3>4, <3>5 DEF Waits
  <2>6. undone' \subseteq Work
    <3>1. UNCHANGED undone \/ Finishes(t, Served(t), Served(t).result) \/ Finishes(t, Served(t), Judged(t, good).result)
      BY <2>2, <2>4 DEF Waits
    <3>. QED
      BY <2>1, <2>3, <3>1, FinishesIs DEF Typed, TypeOK
  <2>7. thread' \in [Threads -> ThreadType]
    BY <2>1, <2>5 DEF Update, Typed, TypeOK
  <2>8. PlaceInv'
    <3>1. \A d \in Threads : thread'[d] = IF d = t THEN new ELSE thread[d]
      BY <2>1, <2>5 DEF Update, Typed, TypeOK
    <3>2. \A d \in Threads : Placed(d, thread'[d])
      BY <2>5, <3>1 DEF Typed, PlaceInv
    <3>. QED
      BY <3>2 DEF PlaceInv, Placed, Kind, IsConfig
  <2>. QED
    BY <1>1, <1>2, <2>6, <2>7, <2>8
<1>. QED
  BY <1>3, <1>4

LEMMA TakesIs ==
  ASSUME Typed, NEW o, o.node \in NodeType, o.cost \in {0, 1, 2}, Takes(o)
  PROVE  node' = o.node /\ node' \in NodeType
         /\ troubles' = troubles + o.cost /\ troubles' \in 0 .. MaxTroubles
BY SinkAssumption DEF Takes, Typed, TypeOK

LEMMA ClientStepTyped ==
  ASSUME Typed, NEW t \in Threads, NEW new \in ThreadType, Placed(t, new), Update(t, new),
         Free \/ ~Waits(thread[t]), UNCHANGED <<sinkService, booted, announced>>,
         node' \in NodeType, troubles' \in 0 .. MaxTroubles, ops' \in 0 .. MaxOps,
         address' \in Values, signals' \in Nat, causes' \subseteq Causes,
         undone' \subseteq Work, wanted' \in BOOLEAN,
         targeted' \in [seq : Values, crc : Values, stored : Values]
  PROVE  Typed'
<1>1. service' = service /\ polling' = polling /\ config' = config /\ otap' = otap
  BY DEF sinkService
<1>2. thread' \in [Threads -> ThreadType] /\ PlaceInv' /\ CallerInv' /\ StoreInv'
  BY <1>1, ThreadMoves
<1>3. TypeOK'
  BY <1>1, <1>2 DEF Typed, TypeOK, ServiceType, Values, Preset
<1>. QED
  BY <1>2, <1>3 DEF Typed

LEMMA ContinuesIs ==
  ASSUME NEW rest \in Seq(Items)
  PROVE  /\ rest = <<>> => Continues(rest) = "restore"
         /\ rest # <<>> => Continues(rest) \in {"work", "check"}
         /\ rest # <<>> /\ Continues(rest) = "work" => Head(rest) = "app_config"
BY DEF Continues

LEMMA ItemDoneIs ==
  ASSUME NEW t \in Clients, NEW me \in ThreadType, IsConfig(me), me.todo # <<>>,
         me.request \in Requests, NEW result \in Results, NEW did \in SUBSET Work
  PROVE  LET new == ItemDone(me, result, did)
         IN  /\ new \in ThreadType /\ Placed(t, new)
             /\ new.todo = Tail(me.todo) /\ new.pc = Continues(Tail(me.todo))
             /\ new.pc \in {"restore", "work", "check"}
             /\ new.request = me.request /\ new.captured = me.captured
             /\ new.stopped = me.stopped /\ new.number = me.number
             /\ new.result = result /\ new.did = did
<1> DEFINE rest == Tail(me.todo)
           pc == Continues(rest)
           new == [me EXCEPT !.todo = rest, !.pc = pc, !.result = result, !.did = did]
<1>1. rest \in Seq(Items)
  BY DEF ThreadType
<1>2. pc \in {"restore", "work", "check"} /\ (pc = "restore" <=> rest = <<>>)
  BY <1>1, ContinuesIs
<1>3. ItemDone(me, result, did) = new
  BY DEF ItemDone, ThreadType
<1> HIDE DEF rest, pc
<1>4. new \in ThreadType
  BY <1>1, <1>2 DEF ThreadType, Places
<1>5. /\ new.todo = rest /\ new.pc = pc /\ new.request = me.request /\ new.captured = me.captured
      /\ new.stopped = me.stopped /\ new.number = me.number
      /\ new.result = result /\ new.did = did
  BY DEF ThreadType
<1>6. Placed(t, new)
  <2> HIDE DEF new
  <2>. QED
    BY <1>2, <1>5, ClientsAreThreads DEF Placed, IsConfig, Kind
<1>. QED
  BY <1>2, <1>3, <1>4, <1>5, <1>6 DEF rest, pc

LEMMA CaptureTyped ==
  ASSUME Typed, NEW t \in Threads, Capture(t)
  PROVE  Typed'
<1>1. PICK me \in Calling(t, "capture"), o \in StatusRead :
        /\ Takes(o)
        /\ \/ /\ Update(t, [me EXCEPT !.captured = node.running, !.pc = Continues(me.todo)])
              /\ UNCHANGED undone
           \/ Finishes(t, me, "error")
  BY DEF Capture
<1>2. /\ t \in Clients /\ t # Glib /\ me \in ThreadType /\ IsConfig(me) /\ Free
      /\ me.request \in Requests
  BY CallingIs, ClientsAreThreads
<1>3. ops' \in 0 .. MaxOps
  BY CountsIs DEF Capture
<1>4. node' = node /\ node \in NodeType /\ troubles' \in 0 .. MaxTroubles
  BY <1>1, ReadsNothingElse, TakesIs DEF Typed, TypeOK
<1>5. PICK new \in ThreadType : Placed(t, new) /\ Update(t, new) /\ undone' \subseteq Work
  <2> DEFINE pc == Continues(me.todo)
             moved == [me EXCEPT !.captured = node.running, !.pc = pc]
  <2>1. CASE Update(t, moved) /\ UNCHANGED undone
    <3>1. me.todo \in Seq(Items) /\ node.running \in BOOLEAN
      BY <1>2, <1>4 DEF ThreadType, NodeType
    <3>2. pc \in {"restore", "work", "check"} /\ (pc = "restore" <=> me.todo = <<>>)
      BY <3>1, ContinuesIs
    <3> HIDE DEF pc
    <3>3. moved \in ThreadType
      BY <1>2, <3>1, <3>2 DEF ThreadType, Places
    <3>4. moved.pc = pc /\ moved.request = me.request /\ moved.todo = me.todo
      BY <1>2 DEF ThreadType
    <3>5. Placed(t, moved)
      <4> HIDE DEF moved
      <4>. QED
        BY <1>2, <3>2, <3>4 DEF Placed, IsConfig, Kind
    <3>. QED
      BY <2>1, <3>3, <3>5 DEF Typed, TypeOK
  <2>2. CASE Finishes(t, me, "error")
    BY <1>2, <2>2, FinishesIs, IdleIs
  <2>. QED
    BY <1>1, <2>1, <2>2
<1>6. UNCHANGED <<address, signals, sinkService, booted, wanted, causes, announced, targeted>>
  BY DEF Capture
<1>. QED
  BY <1>2, <1>3, <1>4, <1>5, <1>6, ClientStepTyped DEF Typed, TypeOK

LEMMA CheckTyped ==
  ASSUME Typed, NEW t \in Threads, Check(t)
  PROVE  Typed'
<1>1. PICK me \in Calling(t, "check"), o \in StatusRead :
        /\ Takes(o)
        /\ \/ Update(t, [me EXCEPT !.pc = IF node.running THEN "stop" ELSE "work"])
           \/ Update(t, IF IsConfig(me) THEN ItemDone(me, "error", me.did) ELSE Idle)
  BY DEF Check
<1>2. /\ t \in Clients /\ t # Glib /\ me \in ThreadType /\ Free /\ me.request \in Requests
      /\ (IsConfig(me) /\ me.todo # <<>>) \/ Kind(me) \in {"upload", "process"}
  BY CallingIs, ClientsAreThreads
<1>3. ops' \in 0 .. MaxOps
  BY CountsIs DEF Check
<1>4. node' = node /\ node \in NodeType /\ troubles' \in 0 .. MaxTroubles
  BY <1>1, ReadsNothingElse, TakesIs DEF Typed, TypeOK
<1>5. PICK new \in ThreadType : Placed(t, new) /\ Update(t, new)
  <2> DEFINE pc == IF node.running THEN "stop" ELSE "work"
             moved == [me EXCEPT !.pc = pc]
  <2>1. CASE Update(t, moved)
    <3>1. pc \in {"stop", "work"}
      OBVIOUS
    <3> HIDE DEF pc
    <3>2. moved \in ThreadType
      BY <1>2, <3>1 DEF ThreadType, Places
    <3>3. moved.pc = pc /\ moved.request = me.request /\ moved.todo = me.todo
      BY <1>2 DEF ThreadType
    <3>4. Placed(t, moved)
      <4> HIDE DEF moved
      <4>. QED
        BY <1>2, <3>1, <3>3 DEF Placed, IsConfig, Kind
    <3>. QED
      BY <2>1, <3>2, <3>4
  <2>2. CASE IsConfig(me) /\ Update(t, ItemDone(me, "error", me.did))
    <3>1. me.todo # <<>> /\ me.did \in SUBSET Work /\ "error" \in Results
      BY <1>2, <2>2 DEF IsConfig, Kind, ThreadType, Results
    <3>. QED
      BY <1>2, <2>2, <3>1, ItemDoneIs
  <2>3. CASE Update(t, Idle)
    BY <2>3, IdleIs
  <2>. QED
    BY <1>1, <2>1, <2>2, <2>3
<1>6. UNCHANGED <<address, signals, sinkService, booted, wanted, causes, announced, undone,
                  targeted>>
  BY DEF Check, history
<1>. QED
  BY <1>2, <1>3, <1>4, <1>5, <1>6, ClientStepTyped DEF Typed, TypeOK

LEMMA WriteItemTyped ==
  ASSUME Typed, NEW t \in Threads, WriteItem(t)
  PROVE  Typed'
<1> DEFINE me == thread[t]
           item == Head(me.todo)
<1>1. At(t, "work") /\ Free /\ IsConfig(me) /\ me \in ThreadType /\ Placed(t, me)
  BY DEF WriteItem, CallsAt, Typed, TypeOK, PlaceInv
<1>2. t \in Clients /\ me.request \in Requests /\ me.todo # <<>> /\ me.todo \in Seq(Items)
      /\ item \in Items /\ me.did \in SUBSET Work /\ me.result \in Results /\ me.number \in Values
  <2>1. t \in Clients /\ me.request \in Requests /\ me.todo # <<>> /\ me.todo \in Seq(Items)
    BY <1>1, ClientsAreThreads DEF At, Placed, IsConfig, Kind, ThreadType
  <2>2. me.did \in SUBSET Work /\ me.result \in Results /\ me.number \in Values
    BY <1>1, SinkAssumption DEF ThreadType, Values, Preset
  <2>. QED
    BY <2>1, <2>2
<1>3. PICK o \in ItemWrite(item, me.number) :
        /\ Takes(o)
        /\ \/ Update(t, ItemDone(me, me.result, me.did \union {item}))
           \/ Update(t, ItemDone(me, "error", me.did))
  BY DEF WriteItem
<1>4. o.node \in NodeType /\ o.cost \in {0, 1}
  <2>1. o.node = node \/ o.node = [node EXCEPT !.address = me.number]
    BY ItemWriteIs
  <2>2. o.cost \in {0, 1}
    BY ItemWriteIs
  <2>3. node \in NodeType
    BY DEF Typed, TypeOK
  <2>. QED
    BY <1>2, <2>1, <2>2, <2>3 DEF NodeType
<1>5. node' \in NodeType /\ troubles' \in 0 .. MaxTroubles
  BY <1>3, <1>4, TakesIs
<1>6. PICK new \in ThreadType : Placed(t, new) /\ Update(t, new)
  <2>1. me.did \union {item} \in SUBSET Work /\ "error" \in Results
    BY <1>2 DEF Work, Results
  <2> HIDE DEF me, item
  <2>. QED
    BY <1>1, <1>2, <1>3, <2>1, ItemDoneIs
<1>7. UNCHANGED <<address, signals, sinkService, booted, ops, wanted, causes, announced, undone,
                  targeted>>
  BY DEF WriteItem, history
<1>. QED
  BY <1>1, <1>5, <1>6, <1>7, ClientStepTyped DEF Typed, TypeOK

LEMMA RestoreTyped ==
  ASSUME Typed, NEW t \in Threads, Restore(t)
  PROVE  Typed'
<1> DEFINE me == thread[t]
           new == NewState(me)
<1>1. At(t, "restore") /\ Free /\ me \in ThreadType /\ Placed(t, me)
  BY DEF Restore, CallsAt, Typed, TypeOK, PlaceInv
<1>2. t \in Clients /\ t # Glib /\ me.request \in Requests /\ IsConfig(me) /\ me.todo = <<>>
  BY <1>1, ClientsAreThreads DEF At, Placed
<1>3. me.request.started \in {"keep", "start", "stop"} /\ me.captured \in BOOLEAN
  BY <1>1, <1>2, RequestIs DEF IsConfig, ThreadType
<1>4. wanted \in BOOLEAN /\ Wants(t) \in BOOLEAN
  BY <1>3 DEF Typed, TypeOK, Wants, NewState
<1>5. PICK o \in StatusRead :
        /\ Takes(o)
        /\ \/ /\ Update(t, [thread[t] EXCEPT
                     !.pc = IF node.running = new THEN "readback" ELSE "change",
                     !.did = @ \union IF node.running = new THEN {"stack"} ELSE {}])
              /\ wanted' = IF node.running = new THEN Wants(t) ELSE wanted
              /\ Blame(Overlap({d \in Relying(t) : thread[d].stopped}))
              /\ UNCHANGED undone
           \/ /\ Finishes(t, me, "error") /\ Blame({"unread"})
              /\ UNCHANGED wanted
  BY DEF Restore
<1>6. node' \in NodeType /\ troubles' \in 0 .. MaxTroubles
  BY <1>5, ReadsNothingElse, TakesIs DEF Typed, TypeOK
<1>7. wanted' \in BOOLEAN /\ causes' \subseteq Causes
  BY <1>4, <1>5 DEF Blame, Overlap, Causes, Typed, TypeOK
<1>8. PICK moved \in ThreadType : Placed(t, moved) /\ Update(t, moved) /\ undone' \subseteq Work
  <2> HIDE DEF new
  <2>1. CASE /\ Update(t, [thread[t] EXCEPT
                    !.pc = IF node.running = new THEN "readback" ELSE "change",
                    !.did = @ \union IF node.running = new THEN {"stack"} ELSE {}])
             /\ UNCHANGED undone
    <3> DEFINE pc == IF node.running = new THEN "readback" ELSE "change"
               more == IF node.running = new THEN {"stack"} ELSE {}
               moved == [me EXCEPT !.pc = pc, !.did = @ \union more]
    <3>1. pc \in {"readback", "change"} /\ Update(t, moved) /\ more \subseteq Work
      BY <2>1 DEF Work
    <3> HIDE DEF pc, more
    <3>2. moved \in ThreadType /\ moved.pc = pc /\ moved.request = me.request
          /\ moved.todo = me.todo
      BY <1>1, <3>1 DEF ThreadType, Places
    <3>3. Placed(t, moved)
      <4> HIDE DEF moved
      <4>. QED
        BY <1>2, <3>1, <3>2 DEF Placed, IsConfig, Kind
    <3>. QED
      BY <2>1, <3>1, <3>2, <3>3 DEF Typed, TypeOK
  <2>2. CASE Finishes(t, me, "error")
    BY <1>1, <2>2, FinishesIs, IdleIs
  <2>. QED
    BY <1>5, <2>1, <2>2
<1>9. UNCHANGED <<address, signals, sinkService, booted, ops, announced, targeted>>
  BY DEF Restore
<1>. QED
  BY <1>1, <1>6, <1>7, <1>8, <1>9, ClientStepTyped DEF Typed, TypeOK

Reading(me) == [me EXCEPT !.seen = <<node.address>>, !.pc = "assign"]
LEMMA ReadsIs ==
  ASSUME Typed, NEW t \in Threads, NEW me \in ThreadType, Reads(t, me), me.todo = <<>>,
         IsConfig(me) \/ t = Glib, t = Glib => me.request = NoRequest,
         t # Glib => me.request \in Requests
  PROVE  /\ node' = node /\ node' \in NodeType /\ troubles' \in 0 .. MaxTroubles
         /\ causes' \subseteq Causes /\ undone' \subseteq Work
         /\ \E new \in ThreadType :
              /\ Placed(t, new) /\ Update(t, new)
              /\ \/ new = Reading(me) /\ new.seen = <<node.address>> /\ new.pc = "assign"
                    /\ new.request = me.request /\ new.result = me.result /\ new.did = me.did
                    /\ UNCHANGED <<causes, undone>>
                 \/ new = Idle /\ Finishes(t, me, me.result) /\ Blame({"unread"})
<1>1. PICK o \in NetworkAddressRead :
        /\ Takes(o)
        /\ \/ Update(t, Reading(me)) /\ UNCHANGED <<causes, undone>>
           \/ Finishes(t, me, me.result) /\ Blame({"unread"})
  BY DEF Reads, Reading
<1>2. node' = node /\ node' \in NodeType /\ troubles' \in 0 .. MaxTroubles
  BY <1>1, AddressReadIs, TakesIs DEF Typed, TypeOK
<1>3. CASE Update(t, Reading(me)) /\ UNCHANGED <<causes, undone>>
  <2> DEFINE new == Reading(me)
  <2>1. node.address \in Values
    BY <1>2 DEF NodeType
  <2>2. <<node.address>> \in Seq(Values) /\ Len(<<node.address>>) = 1
    BY <2>1
  <2>3. new \in ThreadType /\ new.seen = <<node.address>> /\ new.pc = "assign"
        /\ new.request = me.request /\ new.todo = me.todo
        /\ new.result = me.result /\ new.did = me.did
    BY <2>2 DEF Reading, ThreadType, Places
  <2>4. Placed(t, new)
    <3> HIDE DEF new
    <3>. QED
      BY <2>2, <2>3 DEF Placed, IsConfig, Kind
  <2>. QED
    BY <1>2, <1>3, <2>3, <2>4 DEF Typed, TypeOK
<1>4. CASE Finishes(t, me, me.result) /\ Blame({"unread"})
  <2>1. undone' \subseteq Work /\ Update(t, Idle)
    BY <1>4, FinishesIs
  <2>2. causes' \subseteq Causes
    BY <1>4 DEF Blame, Causes, Typed, TypeOK
  <2>. QED
    BY <1>2, <1>4, <2>1, <2>2, IdleIs
<1>. QED
  BY <1>1, <1>3, <1>4

LEMMA ReadbackTyped ==
  ASSUME Typed, NEW t \in Threads, Readback(t)
  PROVE  Typed'
<1>1. /\ At(t, "readback") /\ Free /\ thread[t] \in ThreadType /\ Placed(t, thread[t])
      /\ Reads(t, thread[t])
  BY DEF Readback, CallsAt, Typed, TypeOK, PlaceInv
<1>2. t # Glib /\ thread[t].request \in Requests /\ IsConfig(thread[t]) /\ thread[t].todo = <<>>
  BY <1>1 DEF At, Placed
<1>3. /\ node' \in NodeType /\ troubles' \in 0 .. MaxTroubles
      /\ causes' \subseteq Causes /\ undone' \subseteq Work
  BY <1>1, <1>2, ReadsIs
<1>4. PICK new \in ThreadType : Placed(t, new) /\ Update(t, new)
  BY <1>1, <1>2, ReadsIs
<1>5. UNCHANGED <<address, signals, sinkService, booted, ops, wanted, announced, targeted>>
  BY DEF Readback
<1>. QED
  BY <1>1, <1>3, <1>4, <1>5, ClientStepTyped DEF Typed, TypeOK

LEMMA OnStackStartedTyped ==
  ASSUME Typed, OnStackStarted
  PROVE  Typed'
<1>1. At(Glib, "idle") /\ Free /\ Reads(Glib, Idle) /\ Glib \in Threads /\ signals > 0
  BY ClientsAreThreads DEF OnStackStarted, CallsAt
<1>2. Idle \in ThreadType /\ Idle.request = NoRequest /\ Idle.todo = <<>>
  BY IdleIs DEF Idle
<1>3. /\ node' \in NodeType /\ troubles' \in 0 .. MaxTroubles
      /\ causes' \subseteq Causes /\ undone' \subseteq Work
  BY <1>1, <1>2, ReadsIs
<1>4. PICK new \in ThreadType : Placed(Glib, new) /\ Update(Glib, new)
  BY <1>1, <1>2, ReadsIs
<1>5. UNCHANGED <<address, sinkService, booted, ops, wanted, announced, targeted>>
      /\ signals' = signals - 1
  BY DEF OnStackStarted
<1>6. signals' \in Nat
  BY <1>1, <1>5 DEF Typed, TypeOK
<1>. QED
  BY <1>1, <1>3, <1>4, <1>5, <1>6, ClientStepTyped DEF Typed, TypeOK

LEMMA AssignTyped ==
  ASSUME Typed, NEW t \in Threads, Assign(t)
  PROVE  Typed'
<1>1. At(t, "assign") /\ thread[t] \in ThreadType /\ Placed(t, thread[t])
  BY DEF Assign, Typed, TypeOK, PlaceInv
<1>2. thread[t].seen \in Seq(Values) /\ Len(thread[t].seen) = 1 /\ ~Waits(thread[t])
  BY <1>1 DEF At, Placed, ThreadType, Waits
<1>3. thread[t].seen[1] \in Values
  BY <1>2
<1>4. address' \in Values /\ undone' \subseteq Work /\ Update(t, Idle)
  BY <1>1, <1>3, FinishesIs DEF Assign
<1>5. causes' \subseteq Causes
  BY DEF Assign, Blame, Causes, Typed, TypeOK
<1>6. UNCHANGED <<signals, sinkService, node, booted, ops, troubles, wanted, announced,
                 targeted>>
  BY DEF Assign
<1>. QED
  BY <1>2, <1>4, <1>5, <1>6, IdleIs, ClientStepTyped DEF Typed, TypeOK

LEMMA DefaultTargetTyped ==
  ASSUME Typed, NEW t \in Threads, DefaultTarget(t)
  PROVE  Typed'
<1>1. PICK me \in Calling(t, "sequence") \union Calling(t, "crc") :
        \/ /\ me.pc = "sequence" /\ UNCHANGED undone
           /\ Update(t, [me EXCEPT !.seen = Append(me.seen, otap.stored), !.pc = "crc"])
        \/ me.pc = "crc" /\ Finishes(t, me, "invalid_param")
        \/ /\ me.pc = "crc" /\ UNCHANGED undone
           /\ Update(t, [me EXCEPT !.seen = Append(me.seen, otap.stored), !.pc = "target"])
  <2>1. PICK me \in Calling(t, "sequence") \union Calling(t, "crc") :
          LET seen == Append(me.seen, LocalScratchpad)
          IN  CASE me.pc = "sequence" ->
                     Update(t, [me EXCEPT !.seen = seen, !.pc = "crc"]) /\ UNCHANGED undone
                [] me.pc = "crc" /\ seen[1] = 0 -> Finishes(t, me, "invalid_param")
                [] OTHER -> Update(t, [me EXCEPT !.seen = seen, !.pc = "target"])
                            /\ UNCHANGED undone
    BY DEF DefaultTarget
  <2>2. me.pc \in {"sequence", "crc"}
    BY CallingIs
  <2>3. CASE me.pc = "sequence"
    BY <2>1, <2>3 DEF LocalScratchpad
  <2>4. CASE me.pc = "crc" /\ Append(me.seen, LocalScratchpad)[1] = 0
    BY <2>1, <2>4
  <2>5. CASE me.pc = "crc" /\ Append(me.seen, LocalScratchpad)[1] # 0
    BY <2>1, <2>5 DEF LocalScratchpad
  <2>. QED
    BY <2>2, <2>3, <2>4, <2>5
<1>2. /\ t \in Clients /\ t # Glib /\ me \in ThreadType /\ Free /\ me.request \in Requests
      /\ Kind(me) = "target"
      /\ me.pc = "sequence" => me.seen = <<>>
      /\ me.pc = "crc" => Len(me.seen) = 1
  BY CallingIs, ClientsAreThreads
<1>3. ops' \in 0 .. MaxOps
  BY CountsIs DEF DefaultTarget
<1>4. me.seen \in Seq(Values) /\ otap.stored \in Values
  BY <1>2 DEF ThreadType, Typed, TypeOK
<1> DEFINE seen == Append(me.seen, otap.stored)
<1>5. seen \in Seq(Values) /\ Len(seen) = Len(me.seen) + 1
  BY <1>4
<1> HIDE DEF seen
<1>6. PICK new \in ThreadType : Placed(t, new) /\ Update(t, new) /\ undone' \subseteq Work
  <2>1. CASE /\ me.pc = "sequence" /\ UNCHANGED undone
             /\ Update(t, [me EXCEPT !.seen = Append(me.seen, otap.stored), !.pc = "crc"])
    <3> DEFINE new == [me EXCEPT !.seen = seen, !.pc = "crc"]
    <3>1. new \in ThreadType /\ new.pc = "crc" /\ new.request = me.request /\ new.seen = seen
      BY <1>2, <1>5 DEF ThreadType, Places
    <3>2. Len(seen) = 1
      BY <1>2, <1>5, <2>1
    <3>3. Placed(t, new)
      <4> HIDE DEF new
      <4>. QED
        BY <1>2, <3>1, <3>2 DEF Placed, Kind
    <3>. QED
      BY <1>5, <2>1, <3>1, <3>3 DEF Typed, TypeOK, seen
  <2>2. CASE me.pc = "crc" /\ Finishes(t, me, "invalid_param")
    BY <1>2, <2>2, FinishesIs, IdleIs
  <2>3. CASE /\ me.pc = "crc" /\ UNCHANGED undone
             /\ Update(t, [me EXCEPT !.seen = Append(me.seen, otap.stored), !.pc = "target"])
    <3> DEFINE new == [me EXCEPT !.seen = seen, !.pc = "target"]
    <3>1. new \in ThreadType /\ new.pc = "target" /\ new.request = me.request /\ new.seen = seen
      BY <1>2, <1>5 DEF ThreadType, Places
    <3>2. Len(seen) = 2
      <4>1. Len(me.seen) = 1
        BY <1>2, <2>3
      <4>. QED
        BY <1>5, <4>1
    <3>3. Placed(t, new)
      <4> HIDE DEF new
      <4>. QED
        BY <1>2, <3>1, <3>2 DEF Placed, Kind
    <3>. QED
      BY <1>5, <2>3, <3>1, <3>3 DEF Typed, TypeOK, seen
  <2>. QED
    BY <1>1, <2>1, <2>2, <2>3
<1>7. UNCHANGED <<address, signals, sinkService, node, booted, troubles, wanted, causes,
                 announced, targeted>>
  BY DEF DefaultTarget
<1>. QED
  BY <1>2, <1>3, <1>6, <1>7, ClientStepTyped DEF Typed, TypeOK

LEMMA SetTargetTyped ==
  ASSUME Typed, NEW t \in Threads, SetTarget(t)
  PROVE  Typed'
<1>1. At(t, "target") /\ Free /\ thread[t] \in ThreadType /\ Placed(t, thread[t])
  BY DEF SetTarget, CallsAt, Typed, TypeOK, PlaceInv
<1>2. thread[t].seen \in Seq(Values) /\ Len(thread[t].seen) = 2
  BY <1>1 DEF At, Placed, ThreadType
<1>3. thread[t].seen[1] \in Values /\ thread[t].seen[2] \in Values /\ node.stored \in Values
  BY <1>2 DEF Typed, TypeOK, NodeType
<1>4. targeted' \in [seq : Values, crc : Values, stored : Values]
  BY <1>3 DEF SetTarget
<1>5. PICK o \in TargetWrite :
        Takes(o) /\ Finishes(t, thread[t], ConvertErrorCode(TargetLUT, o.res))
  BY DEF SetTarget
<1>6. node' \in NodeType /\ troubles' \in 0 .. MaxTroubles
  BY <1>5, ReadsNothingElse, TakesIs DEF Typed, TypeOK
<1>7. undone' \subseteq Work /\ Update(t, Idle)
  BY <1>1, <1>5, FinishesIs
<1>8. UNCHANGED <<address, signals, sinkService, booted, ops, wanted, causes, announced>>
  BY DEF SetTarget
<1>. QED
  BY <1>1, <1>4, <1>6, <1>7, <1>8, IdleIs, ClientStepTyped DEF Typed, TypeOK

LEMMA CallTyped ==
  ASSUME Typed, NEW t \in Threads, Call(t)
  PROVE  Typed'
<1> DEFINE me == thread[t]
           new == [me EXCEPT !.stopped = @ \/ me.pc = "stop"]
<1>1. Free /\ Waits(me) /\ me \in ThreadType /\ Placed(t, me)
  BY DEF Call, Waits, At, Typed, TypeOK, PlaceInv
<1>2. t \in Clients /\ t # Glib /\ t # Nobody /\ me.request \in Requests
  BY <1>1, ClientsAreThreads DEF Placed, Waits
<1>3. Called(me) \in {"start", "stop", "upload", "process"}
  <2>1. me.pc = "work" => me.request.kind \in {"upload", "process"}
    BY <1>1 DEF Placed, Waits, Kind
  <2>2. CASE me.pc = "stop"
    BY <2>2 DEF Called
  <2>3. CASE me.pc = "restart"
    BY <2>3 DEF Called
  <2>4. CASE me.pc = "change"
    BY <2>4 DEF Called
  <2>5. CASE me.pc = "work"
    BY <2>1, <2>5 DEF Called
  <2>. QED
    BY <1>1, <2>2, <2>3, <2>4, <2>5 DEF Waits
<1>4. Entry(Called(me)) \in Steps
  BY <1>3 DEF Entry, Steps
<1>5. service' = [NoCall EXCEPT !.task = Called(me), !.step = Entry(Called(me)),
                                !.caller = t, !.seq = me.number]
  BY DEF Call
<1>6. service' \in ServiceType /\ service'.caller = t /\ service'.task = Called(me)
      /\ service'.seq = me.number
  <2>1. me.number \in 0 .. MaxOps
    BY <1>1 DEF ThreadType
  <2> HIDE DEF me
  <2>. QED
    BY <1>2, <1>3, <1>4, <1>5, <2>1 DEF NoCall, ServiceType, Tasks
<1>7. Update(t, new) /\ new \in ThreadType /\ new.pc = me.pc /\ new.request = me.request
      /\ new.todo = me.todo /\ new.seen = me.seen /\ new.number = me.number
      /\ new.captured = me.captured
  BY <1>1 DEF Call, ThreadType
<1>8. Placed(t, new)
  <2> HIDE DEF me, new
  <2>. QED
    BY <1>1, <1>7 DEF Placed, Kind, IsConfig
<1>9. thread' \in [Threads -> ThreadType] /\ thread'[t] = new
      /\ \A d \in Threads \ {t} : thread'[d] = thread[d]
  <2> HIDE DEF new
  <2>. QED
    BY <1>7 DEF Update, Typed, TypeOK
<1>10. PlaceInv'
  <2> HIDE DEF new
  <2>1. \A d \in Threads : Placed(d, thread'[d])
    BY <1>8, <1>9 DEF Typed, PlaceInv
  <2>. QED
    BY <2>1 DEF PlaceInv, Placed, Kind, IsConfig
<1>11. CallerInv' /\ StoreInv'
  <2> HIDE DEF me, new
  <2>1. Waits(new) /\ Called(new) = Called(me)
    BY <1>1, <1>7 DEF Waits, IsConfig, Called, NewState
  <2>2. CallerInv'
    BY <1>2, <1>3, <1>6, <1>7, <1>9, <2>1 DEF CallerInv, Waits, IsConfig, Called, NewState
  <2>. QED
    BY <1>3, <1>6, <2>2 DEF StoreInv, Serving
<1>12. wanted' \in BOOLEAN /\ causes' \subseteq Causes
  <2>1. me.pc = "change" => Wants(t) \in BOOLEAN
    <3>1. me.pc = "change" => me.request.started \in {"keep", "start", "stop"}
      BY <1>1, <1>2, RequestIs DEF Placed, IsConfig
    <3>2. me.captured \in BOOLEAN /\ wanted \in BOOLEAN
      BY <1>1 DEF ThreadType, Typed, TypeOK
    <3>. QED
      BY <3>1, <3>2 DEF Wants, NewState
  <2>2. wanted' = wanted \/ (me.pc = "change" /\ wanted' = Wants(t))
    BY DEF Call
  <2>3. causes' = causes \/ causes' = causes \union {"overlap"}
    BY DEF Call, Blame, Overlap
  <2>. QED
    BY <2>1, <2>2, <2>3 DEF Causes, Typed, TypeOK
<1>13. UNCHANGED <<address, signals, polling, config, otap, node, booted, ops, troubles,
                 announced, undone, targeted>>
  BY DEF Call
<1>14. TypeOK'
  BY <1>6, <1>9, <1>12, <1>13 DEF Typed, TypeOK, ServiceType, Values, Preset
<1>. QED
  BY <1>10, <1>11, <1>14 DEF Typed

(* The service goes on with the call it serves, or replies.                 *)
SameCall == service'.task = service.task /\ service'.caller = service.caller
            /\ service'.seq = service.seq
LEMMA GoesIs ==
  ASSUME Typed, NEW step \in Steps, Goes(step)
  PROVE  /\ service' \in ServiceType /\ SameCall /\ service'.step = step
         /\ service'.did = service.did /\ service'.ok = service.ok
         /\ service'.fetched = service.fetched
BY DEF Goes, Typed, TypeOK, ServiceType, SameCall

ServiceTyped ==
  /\ service' \in ServiceType /\ thread' \in [Threads -> ThreadType] /\ undone' \subseteq Work
  /\ PlaceInv' /\ CallerInv' /\ StoreInv'
LEMMA GoesOnTyped ==
  ASSUME Typed, service' \in ServiceType, SameCall, UNCHANGED <<thread, undone>>,
         service'.task = "init" /\ service'.step = "store" => service'.fetched \in Values
  PROVE  ServiceTyped
<1>1. PlaceInv'
  BY DEF Typed, PlaceInv, Placed, Kind, IsConfig
<1>2. CallerInv'
  BY DEF Typed, CallerInv, Waits, IsConfig, Called, NewState, SameCall
<1>3. StoreInv'
  BY DEF StoreInv, Serving, Values, Preset
<1>4. thread' \in [Threads -> ThreadType] /\ undone' \subseteq Work
  BY DEF Typed, TypeOK
<1>. QED
  BY <1>1, <1>2, <1>3, <1>4 DEF ServiceTyped

LEMMA NoCallIs ==
  /\ NoCall \in ServiceType /\ NoCall.task = "none" /\ NoCall.step = "none"
  /\ NoCall.caller = Nobody
BY SinkAssumption DEF NoCall, ServiceType, Tasks, Steps

LEMMA ReplyTyped ==
  ASSUME Typed, NEW good \in BOOLEAN, Reply(good)
  PROVE  ServiceTyped /\ service' = NoCall
BY ReplyIs, NoCallIs DEF ServiceTyped

LEMMA ServiceStepTyped ==
  ASSUME Typed, ServiceTyped, UNCHANGED <<address, booted, ops, wanted, targeted>>,
         node' \in NodeType, troubles' \in 0 .. MaxTroubles, signals' \in Nat,
         polling' \in BOOLEAN, config' \in Values,
         otap' \in [stored : Values, processed : Values], causes' \subseteq Causes,
         announced' \in BOOLEAN
  PROVE  Typed'
<1>1. TypeOK'
  BY DEF ServiceTyped, Typed, TypeOK, ServiceType, Values, Preset
<1>. QED
  BY <1>1 DEF ServiceTyped, Typed

LEMMA SignalIs ==
  ASSUME Typed, NEW name, Signal(name) \/ NoSignal
  PROVE  signals' \in Nat /\ announced' \in BOOLEAN
<1>1. signals \in Nat /\ announced \in BOOLEAN
  BY DEF Typed, TypeOK
<1>2. CASE Signal(name)
  BY <1>1, <1>2 DEF Signal
<1>3. CASE NoSignal
  BY <1>1, <1>3 DEF NoSignal
<1>. QED
  BY <1>2, <1>3

LEMMA BlameIs ==
  ASSUME Typed, NEW what \in SUBSET Causes, Blame(what)
  PROVE  causes' \subseteq Causes /\ causes \subseteq causes' /\ causes' = causes \union what
BY DEF Blame, Typed, TypeOK

LEMMA AutostartBlameIs ==
  ASSUME NEW o
  PROVE  AutostartBlame(o) \subseteq Causes
BY DEF AutostartBlame, Causes

LEMMA AutostartNode ==
  ASSUME Typed, NEW on \in BOOLEAN, NEW o \in AutostartWrite(on)
  PROVE  o.node \in NodeType /\ o.cost \in {0, 1}
<1>1. node \in NodeType
  BY DEF Typed, TypeOK
<1>2. o.node \in {node, [node EXCEPT !.autostart = on]} /\ o.cost \in {0, 1}
  BY AutostartWriteIs
<1>. QED
  BY <1>1, <1>2 DEF NodeType

LEMMA StackStartNode ==
  ASSUME Typed, NEW o \in StackStart
  PROVE  o.node \in NodeType /\ o.cost \in {0, 1}
<1>1. node \in NodeType /\ node.running \in BOOLEAN
  BY DEF Typed, TypeOK, NodeType
<1>2. (o.node = node \/ Started(o)) /\ o.cost \in {0, 1}
  BY <1>1, StackStartIs
<1>. QED
  BY <1>1, <1>2 DEF NodeType, Started

LEMMA StackStopNode ==
  ASSUME Typed, NEW o \in StackStop
  PROVE  o.node \in NodeType /\ o.cost \in {0, 1}
<1>1. node \in NodeType
  BY DEF Typed, TypeOK
<1>2. (o.node = node \/ WentDown(o)) /\ o.cost \in {0, 1}
  BY StackStopIs
<1>. QED
  BY <1>1, <1>2 DEF NodeType, WentDown

LEMMA ScratchpadStartNode ==
  ASSUME Typed, NEW o \in ScratchpadStart(service.seq)
  PROVE  o.node \in NodeType /\ o.cost \in {0, 1}
<1>1. node \in NodeType /\ service.seq \in 0 .. MaxOps
  BY DEF Typed, TypeOK, ServiceType
<1>2. (o.node = node \/ Erased(service.seq, o)) /\ o.cost \in {0, 1}
  BY ScratchpadStartIs
<1>3. 0 \in 0 .. Blocks - 1 /\ 0 \in Values
  BY SinkAssumption DEF Values, Preset
<1>4. [seq |-> service.seq, next |-> 0] \in [seq : 0 .. MaxOps, next : 0 .. Blocks - 1]
  BY <1>1, <1>3
<1>5. CASE Erased(service.seq, o)
  BY <1>1, <1>2, <1>3, <1>4, <1>5 DEF NodeType, Erased
<1>. QED
  BY <1>1, <1>2, <1>5

LEMMA ScratchpadBlockNode ==
  ASSUME Typed, NEW o \in ScratchpadBlock(service.fetched)
  PROVE  o.node \in NodeType /\ o.cost \in {0, 1}
<1>1. node \in NodeType /\ service.fetched \in Nat /\ node.running \in BOOLEAN
  BY DEF Typed, TypeOK, ServiceType, NodeType
<1>2. (o.node = node \/ Loaded(service.fetched, o)) /\ o.cost \in {0, 1}
  BY <1>1, ScratchpadBlockIs
<1>3. CASE Loaded(service.fetched, o)
  <2>1. node.loading.seq \in Values /\ NotLoading \in [seq : 0 .. MaxOps, next : 0 .. Blocks - 1]
    BY <1>1, SinkAssumption DEF NodeType, NotLoading, Values, Preset
  <2>2. CASE o.node = [node EXCEPT !.stored = node.loading.seq, !.loading = NotLoading]
    BY <1>1, <1>2, <2>1, <2>2 DEF NodeType
  <2>3. CASE service.fetched + 1 # Blocks
             /\ o.node = [node EXCEPT !.loading.next = service.fetched + 1]
    <3>1. service.fetched + 1 \in 0 .. Blocks - 1
      BY <1>1, <1>3, <2>3, SinkAssumption DEF Loaded, NodeType
    <3>. QED
      BY <1>1, <1>2, <2>3, <3>1 DEF NodeType
  <2>. QED
    BY <1>3, <2>2, <2>3 DEF Loaded
<1>. QED
  BY <1>1, <1>2, <1>3

LEMMA ScratchpadUpdateNode ==
  ASSUME Typed, NEW o \in ScratchpadUpdate
  PROVE  o.node \in NodeType /\ o.cost \in {0, 1}
<1>1. node \in NodeType /\ node.running \in BOOLEAN
  BY DEF Typed, TypeOK, NodeType
<1>2. (o.node = node \/ Marked(o)) /\ o.cost \in {0, 1}
  BY <1>1, ScratchpadUpdateIs
<1>. QED
  BY <1>1, <1>2 DEF NodeType, Marked

LEMMA StartStackTyped ==
  ASSUME Typed, StartStack
  PROVE  Typed'
<1>1. PICK o \in StackStart, late \in 0 .. 1 :
        /\ Takes([o EXCEPT !.cost = @ + late])
        /\ service' = [service EXCEPT !.did = @ \union Reached(TRUE, o),
                                       !.step = "autostart", !.ok = o.res = 0 /\ late = 0]
        /\ announced' = (announced /\ o.node.running = node.running)
        /\ Blame(IF service'.ok THEN {} ELSE {"not_started"})
  BY DEF StartStack
<1>2. o.node \in NodeType /\ o.cost \in {0, 1}
  BY StackStartNode
<1>3. node' \in NodeType /\ troubles' \in 0 .. MaxTroubles
  <2> DEFINE both == [o EXCEPT !.cost = @ + late]
  <2>1. both.node = o.node /\ both.cost = o.cost + late
    BY DEF StackStart, Outcomes
  <2>2. both.cost \in {0, 1, 2}
    BY <1>2, <2>1
  <2> HIDE DEF both
  <2>3. Takes(both)
    BY <1>1 DEF both
  <2>. QED
    BY <1>2, <2>1, <2>2, <2>3, TakesIs
<1>4. service' \in ServiceType /\ SameCall /\ service'.step = "autostart"
  <2>1. service \in ServiceType
    BY DEF Typed, TypeOK
  <2>2. Reached(TRUE, o) \subseteq Work
    BY DEF Reached, Work
  <2>. QED
    BY <1>1, <2>1, <2>2 DEF ServiceType, SameCall, Steps
<1>5. ServiceTyped
  BY <1>4, GoesOnTyped DEF StartStack
<1>6. causes' \subseteq Causes /\ announced' \in BOOLEAN
  BY <1>1 DEF Blame, Causes, Typed, TypeOK
<1>7. UNCHANGED <<address, signals, polling, config, otap, booted, ops, wanted, targeted>>
  BY DEF StartStack
<1>. QED
  BY <1>3, <1>5, <1>6, <1>7, ServiceStepTyped DEF Typed, TypeOK

LEMMA SetAutostartTyped ==
  ASSUME Typed, SetAutostart
  PROVE  Typed'
<1>1. PICK o \in AutostartWrite(TRUE) : Takes(o) /\ Blame(AutostartBlame(o))
  BY DEF SetAutostart
<1>2. node' \in NodeType /\ troubles' \in 0 .. MaxTroubles
  BY <1>1, AutostartNode, TakesIs
<1>3. causes' \subseteq Causes
  BY <1>1, AutostartBlameIs, BlameIs
<1>4. signals' \in Nat /\ announced' \in BOOLEAN
  BY SignalIs DEF SetAutostart
<1>5. ServiceTyped
  BY ReplyTyped DEF SetAutostart, Typed, TypeOK, ServiceType
<1>6. UNCHANGED <<address, polling, config, otap, booted, ops, wanted, targeted>>
  BY DEF SetAutostart
<1>. QED
  BY <1>2, <1>3, <1>4, <1>5, <1>6, ServiceStepTyped DEF Typed, TypeOK

LEMMA ClearAutostartTyped ==
  ASSUME Typed, ClearAutostart
  PROVE  Typed'
<1>1. PICK o \in AutostartWrite(FALSE) : Takes(o) /\ Blame(AutostartBlame(o))
  BY DEF ClearAutostart
<1>2. node' \in NodeType /\ troubles' \in 0 .. MaxTroubles
  BY <1>1, AutostartNode, TakesIs
<1>3. causes' \subseteq Causes
  BY <1>1, AutostartBlameIs, BlameIs
<1>4. ServiceTyped
  BY GoesIs, GoesOnTyped DEF ClearAutostart, Steps
<1>5. UNCHANGED <<address, signals, polling, config, otap, booted, ops, wanted,
                 announced, targeted>>
  BY DEF ClearAutostart
<1>. QED
  BY <1>2, <1>3, <1>4, <1>5, ServiceStepTyped DEF Typed, TypeOK

LEMMA StopRequestTyped ==
  ASSUME Typed, StopRequest
  PROVE  Typed'
<1>1. PICK o \in StackStop :
        /\ Takes(o)
        /\ service' = IF o.res \in {1, Denied}
                        THEN [service EXCEPT !.did = @ \union Reached(FALSE, o),
                                             !.step = "resume", !.ok = FALSE]
                        ELSE [service EXCEPT !.did = @ \union Reached(FALSE, o), !.step = "wait"]
        /\ Blame(CASE o.res = NoAnswer /\ (o.node.up \/ o.node.running) -> {"lost_stop"}
                   [] o.res = Denied -> {"denied"}
                   [] OTHER -> {})
        /\ announced' = (announced /\ o.node.running = node.running)
  BY DEF StopRequest
<1>2. node' \in NodeType /\ troubles' \in 0 .. MaxTroubles
  BY <1>1, StackStopNode, TakesIs
<1>3. causes' \subseteq Causes /\ announced' \in BOOLEAN
  BY <1>1 DEF Blame, Causes, Typed, TypeOK
<1>4. service' \in ServiceType /\ SameCall /\ service'.step \in {"resume", "wait"}
  <2>1. service \in ServiceType
    BY DEF Typed, TypeOK
  <2>2. Reached(FALSE, o) \subseteq Work
    BY DEF Reached, Work
  <2>. QED
    BY <1>1, <2>1, <2>2 DEF ServiceType, SameCall, Steps
<1>5. ServiceTyped
  BY <1>4, GoesOnTyped DEF StopRequest
<1>6. polling' = FALSE
      /\ UNCHANGED <<address, signals, config, otap, booted, ops, wanted, targeted>>
  BY DEF StopRequest
<1>. QED
  BY <1>2, <1>3, <1>5, <1>6, ServiceStepTyped DEF Typed, TypeOK

LEMMA StopWaitTyped ==
  ASSUME Typed, StopWait
  PROVE  Typed'
<1>1. PICK answered \in BOOLEAN :
        /\ Takes([node |-> node, cost |-> IF answered THEN 0 ELSE 1])
        /\ service' = [service EXCEPT !.step = "resume", !.ok = answered]
        /\ Blame(IF answered THEN {} ELSE {"slow"})
  BY DEF StopWait
<1>2. node' \in NodeType /\ troubles' \in 0 .. MaxTroubles
  <2> DEFINE o == [node |-> node, cost |-> IF answered THEN 0 ELSE 1]
  <2>1. o.node \in NodeType /\ o.cost \in {0, 1}
    BY DEF Typed, TypeOK
  <2> HIDE DEF o
  <2>. QED
    BY <1>1, <2>1, TakesIs DEF o
<1>3. causes' \subseteq Causes
  BY <1>1 DEF Blame, Causes, Typed, TypeOK
<1>4. service' \in ServiceType /\ SameCall /\ service'.step = "resume"
  <2>1. service \in ServiceType
    BY DEF Typed, TypeOK
  <2>. QED
    BY <1>1, <2>1 DEF ServiceType, SameCall, Steps
<1>5. ServiceTyped
  BY <1>4, GoesOnTyped DEF StopWait
<1>6. UNCHANGED <<address, signals, polling, config, otap, booted, ops, wanted,
                 announced, targeted>>
  BY DEF StopWait
<1>. QED
  BY <1>2, <1>3, <1>5, <1>6, ServiceStepTyped DEF Typed, TypeOK

LEMMA StopDoneTyped ==
  ASSUME Typed, StopDone
  PROVE  Typed'
<1>1. service.ok \in BOOLEAN
  BY DEF Typed, TypeOK, ServiceType
<1>2. ServiceTyped /\ signals' \in Nat /\ announced' \in BOOLEAN
  <2>1. CASE Goes("read") /\ UNCHANGED <<thread, signals, announced, undone>>
    BY <2>1, GoesIs, GoesOnTyped DEF Steps, Typed, TypeOK
  <2>2. CASE Reply(service.ok) /\ (Signal("StackStopped") \/ NoSignal)
    BY <1>1, <2>2, ReplyTyped, SignalIs
  <2>. QED
    BY <2>1, <2>2 DEF StopDone
<1>3. polling' = TRUE
      /\ UNCHANGED <<address, config, otap, node, booted, ops, troubles, wanted, causes,
                     targeted>>
  BY DEF StopDone
<1>. QED
  BY <1>2, <1>3, ServiceStepTyped DEF Typed, TypeOK

LEMMA UploadBeginTyped ==
  ASSUME Typed, UploadBegin
  PROVE  Typed'
<1>1. PICK o \in ScratchpadStart(service.seq) :
        /\ Takes(o)
        /\ \/ Goes("block") /\ UNCHANGED <<thread, undone>>
           \/ Reply(FALSE)
        /\ Blame(IF o.res = NoAnswer THEN {"partial"} ELSE {})
  BY DEF UploadBegin
<1>2. node' \in NodeType /\ troubles' \in 0 .. MaxTroubles
  BY <1>1, ScratchpadStartNode, TakesIs
<1>3. causes' \subseteq Causes
  BY <1>1 DEF Blame, Causes, Typed, TypeOK
<1>4. ServiceTyped
  BY <1>1, GoesIs, GoesOnTyped, ReplyTyped DEF Steps
<1>5. UNCHANGED <<address, signals, polling, config, otap, booted, ops, wanted,
                 announced, targeted>>
  BY DEF UploadBegin
<1>. QED
  BY <1>2, <1>3, <1>4, <1>5, ServiceStepTyped DEF Typed, TypeOK

LEMMA UploadBlockTyped ==
  ASSUME Typed, UploadBlock
  PROVE  Typed'
<1> DEFINE loaded == service.fetched + 1
<1>1. PICK o \in ScratchpadBlock(service.fetched) :
        /\ Takes(o)
        /\ \/ /\ service' = [service EXCEPT !.fetched = loaded,
                               !.step = IF loaded = Blocks THEN "read" ELSE "block",
                               !.did = IF o.node.stored = service.seq THEN {"upload"} ELSE {}]
              /\ UNCHANGED <<thread, causes, undone>>
           \/ Reply(FALSE) /\ Blame({"partial"})
  BY DEF UploadBlock
<1>2. node' \in NodeType /\ troubles' \in 0 .. MaxTroubles
  BY <1>1, ScratchpadBlockNode, TakesIs
<1>3. causes' \subseteq Causes
  BY <1>1 DEF Blame, Causes, Typed, TypeOK
<1>4. ServiceTyped
  <2>1. CASE Reply(FALSE)
    BY <2>1, ReplyTyped
  <2>2. CASE /\ service' = [service EXCEPT !.fetched = loaded,
                              !.step = IF loaded = Blocks THEN "read" ELSE "block",
                              !.did = IF o.node.stored = service.seq THEN {"upload"} ELSE {}]
             /\ UNCHANGED <<thread, causes, undone>>
    <3> DEFINE step == IF loaded = Blocks THEN "read" ELSE "block"
               did == IF o.node.stored = service.seq THEN {"upload"} ELSE {}
    <3>1. service \in ServiceType
      BY DEF Typed, TypeOK
    <3>2. loaded \in Nat /\ step \in {"read", "block"} /\ did \subseteq Work
      BY <3>1 DEF ServiceType, Work
    <3> HIDE DEF loaded, step, did
    <3>3. service' \in ServiceType /\ SameCall /\ service'.step = step
      BY <2>2, <3>1, <3>2 DEF ServiceType, SameCall, Steps, step, did
    <3>. QED
      BY <2>2, <3>2, <3>3, GoesOnTyped
  <2>. QED
    BY <1>1, <2>1, <2>2
<1>5. UNCHANGED <<address, signals, polling, config, otap, booted, ops, wanted,
                 announced, targeted>>
  BY DEF UploadBlock
<1>. QED
  BY <1>2, <1>3, <1>4, <1>5, ServiceStepTyped DEF Typed, TypeOK

LEMMA UpdateScratchpadTyped ==
  ASSUME Typed, UpdateScratchpad
  PROVE  Typed'
<1>1. PICK o \in ScratchpadUpdate :
        /\ Takes(o)
        /\ \/ Goes("request") /\ UNCHANGED <<thread, undone>>
           \/ Reply(FALSE)
        /\ Blame(IF o.res = NoAnswer THEN {"partial"} ELSE {})
  BY DEF UpdateScratchpad
<1>2. node' \in NodeType /\ troubles' \in 0 .. MaxTroubles
  BY <1>1, ScratchpadUpdateNode, TakesIs
<1>3. causes' \subseteq Causes
  BY <1>1 DEF Blame, Causes, Typed, TypeOK
<1>4. ServiceTyped
  BY <1>1, GoesIs, GoesOnTyped, ReplyTyped DEF Steps
<1>5. UNCHANGED <<address, signals, polling, config, otap, booted, ops, wanted,
                 announced, targeted>>
  BY DEF UpdateScratchpad
<1>. QED
  BY <1>2, <1>3, <1>4, <1>5, ServiceStepTyped DEF Typed, TypeOK

LEMMA RereadIs ==
  ASSUME Typed, Reread
  PROVE  /\ node' = node /\ node' \in NodeType /\ troubles' \in 0 .. MaxTroubles
         /\ otap' \in [stored : Values, processed : Values] /\ causes' \subseteq Causes
         /\ \/ /\ otap' = [stored |-> node.stored, processed |-> node.processed]
               /\ causes \subseteq causes'
               /\ (\E t \in Clients : thread[t].pc \in {"crc", "target"})
                    => "crossed_target" \in causes'
            \/ otap' = otap /\ causes' = causes \union {"unread"}
<1>1. PICK o \in ScratchpadStatusRead :
        /\ Takes(o)
        /\ IF o.res = 0
             THEN /\ otap' = [stored |-> node.stored, processed |-> node.processed]
                  /\ Blame(IF \E t \in Clients : thread[t].pc \in {"crc", "target"}
                             THEN {"crossed_target"} ELSE {})
             ELSE UNCHANGED otap /\ Blame({"unread"})
  BY DEF Reread
<1>2. node' = node /\ node' \in NodeType /\ troubles' \in 0 .. MaxTroubles
  BY <1>1, ReadsNothingElse, TakesIs DEF Typed, TypeOK
<1>3. otap' \in [stored : Values, processed : Values]
  BY <1>1, <1>2 DEF Typed, TypeOK, NodeType
<1>4. causes' \subseteq Causes
  BY <1>1 DEF Blame, Causes, Typed, TypeOK
<1>. QED
  BY <1>1, <1>2, <1>3, <1>4 DEF Blame

LEMMA ReadScratchpadTyped ==
  ASSUME Typed, ReadScratchpad
  PROVE  Typed'
<1>1. ServiceTyped
  BY ReplyTyped DEF ReadScratchpad
<1>2. UNCHANGED <<address, signals, polling, config, booted, ops, wanted, announced,
                 targeted>>
  BY DEF ReadScratchpad
<1>. QED
  BY <1>1, <1>2, RereadIs, ServiceStepTyped DEF ReadScratchpad, Typed, TypeOK

LEMMA RegisterTyped ==
  ASSUME Typed, Register
  PROVE  Typed'
<1>1. UNCHANGED <<thread, address, signals, polling, config, otap, node, booted, ops,
                  troubles, wanted, causes, announced, undone, targeted>>
  BY DEF Register, history
<1>2. ServiceTyped
  BY <1>1, GoesIs, GoesOnTyped DEF Register, Steps
<1>. QED
  BY <1>1, <1>2, ServiceStepTyped DEF Typed, TypeOK

LEMMA ConfigReadTyped ==
  ASSUME Typed, ConfigRead
  PROVE  Typed'
<1>1. PICK o \in FirmwareVersionRead :
        /\ Takes(o)
        /\ service' = [service EXCEPT !.step = "store",
                         !.fetched = IF o.res = 0 THEN node.processed ELSE config]
        /\ Blame(IF o.res = 0 THEN {} ELSE {"unread"})
  BY DEF ConfigRead
<1>2. node' \in NodeType /\ troubles' \in 0 .. MaxTroubles
  BY <1>1, ReadsNothingElse, TakesIs DEF Typed, TypeOK
<1>3. causes' \subseteq Causes
  BY <1>1 DEF Blame, Causes, Typed, TypeOK
<1>4. ServiceTyped
  <2> DEFINE value == IF o.res = 0 THEN node.processed ELSE config
  <2>1. service \in ServiceType /\ value \in Values /\ Values \subseteq Nat
    BY SinkAssumption DEF Typed, TypeOK, NodeType, Values, Preset
  <2> HIDE DEF value
  <2>2. service' \in ServiceType /\ SameCall /\ service'.fetched = value
    BY <1>1, <2>1 DEF ServiceType, SameCall, Steps, value
  <2>3. UNCHANGED <<thread, undone>>
    BY DEF ConfigRead
  <2>. QED
    BY <2>1, <2>2, <2>3, GoesOnTyped
<1>5. UNCHANGED <<address, signals, polling, config, otap, booted, ops, wanted, announced,
                  targeted>>
  BY DEF ConfigRead
<1>. QED
  BY <1>2, <1>3, <1>4, <1>5, ServiceStepTyped DEF Typed, TypeOK

LEMMA ConfigStoreTyped ==
  ASSUME Typed, ConfigStore
  PROVE  Typed'
<1>1. service.fetched \in Values /\ config' = service.fetched
  BY DEF ConfigStore, Typed, StoreInv
<1>2. causes' \subseteq Causes
  BY DEF ConfigStore, Blame, Causes, Typed, TypeOK
<1>3. ServiceTyped
  <2>1. service' \in ServiceType /\ SameCall /\ service'.step = "otap"
    BY DEF ConfigStore, Typed, TypeOK, ServiceType, SameCall, Steps
  <2>2. UNCHANGED <<thread, undone>>
    BY DEF ConfigStore
  <2>. QED
    BY <2>1, <2>2, GoesOnTyped
<1>4. UNCHANGED <<address, signals, polling, otap, node, booted, ops, troubles,
                  wanted, announced, targeted>>
  BY DEF ConfigStore
<1>. QED
  BY <1>1, <1>2, <1>3, <1>4, ServiceStepTyped DEF Typed, TypeOK

LEMMA OtapInitTyped ==
  ASSUME Typed, OtapInit
  PROVE  Typed'
<1>1. Serving("init", "otap") /\ Reread /\ service' = NoCall /\ UNCHANGED <<thread, undone>>
  BY DEF OtapInit
<1>2. ServiceTyped
  <2>1. PlaceInv' /\ thread' \in [Threads -> ThreadType] /\ undone' \subseteq Work
    BY <1>1 DEF Typed, TypeOK, PlaceInv, Placed, Kind, IsConfig
  <2>2. CallerInv' /\ StoreInv'
    BY <1>1, NoCallIs DEF CallerInv, StoreInv, Serving
  <2>. QED
    BY <1>1, <2>1, <2>2, NoCallIs DEF ServiceTyped
<1>3. UNCHANGED <<address, signals, polling, config, booted, ops, wanted, announced,
                  targeted>>
  BY DEF OtapInit
<1>. QED
  BY <1>1, <1>2, <1>3, RereadIs, ServiceStepTyped DEF Typed, TypeOK

(* A boot indication is handled, or nobody is registered for it.            *)
Handled ==
  /\ node.up /\ config' \in {config, node.processed}
  /\ (config' = node.processed /\ causes \subseteq causes') \/ causes' = causes \union {"unread"}
  /\ Signal(IF Head(booted) THEN "StackStarted" ELSE "StackStopped")
Swallowed ==
  Serving("init", "register") /\ UNCHANGED <<config, signals, node, troubles, causes, announced>>
LEMMA BootIndicationIs ==
  ASSUME Typed, BootIndication
  PROVE  /\ booted # <<>> /\ booted' = Tail(booted) /\ node.up
         /\ node' = node /\ troubles' \in 0 .. MaxTroubles
         /\ Handled \/ Swallowed
         /\ causes' \subseteq Causes /\ causes \subseteq causes' /\ config' \in Values
         /\ signals' \in Nat /\ announced' \in BOOLEAN
         /\ UNCHANGED <<thread, address, service, polling, otap, ops, wanted, undone, targeted>>
<1>1. booted # <<>> /\ booted' = Tail(booted) /\ node.up
      /\ UNCHANGED <<thread, address, service, polling, otap, ops, wanted, undone, targeted>>
  BY DEF BootIndication
<1>2. CASE Swallowed
  BY <1>1, <1>2 DEF Swallowed, Typed, TypeOK
<1>3. CASE ~Serving("init", "register")
  <2>1. PICK o \in FirmwareVersionRead :
          /\ Takes(o)
          /\ config' = IF o.res = 0 THEN node.processed ELSE config
          /\ Blame(IF o.res = 0 THEN {} ELSE {"unread"})
    BY <1>3 DEF BootIndication
  <2>2. Signal(IF Head(booted) THEN "StackStarted" ELSE "StackStopped")
    BY <1>3 DEF BootIndication
  <2>3. node' = node /\ troubles' \in 0 .. MaxTroubles
    BY <2>1, ReadsNothingElse, TakesIs DEF Typed, TypeOK
  <2>4. signals' \in Nat /\ announced' \in BOOLEAN
    BY <2>2, SignalIs
  <2>5. causes' \subseteq Causes /\ causes \subseteq causes' /\ config' \in Values
        /\ config' \in {config, node.processed}
        /\ (config' = node.processed \/ causes' = causes \union {"unread"})
    BY <2>1 DEF Blame, Causes, Typed, TypeOK, NodeType
  <2>. QED
    BY <1>1, <2>2, <2>3, <2>4, <2>5 DEF Handled
<1>. QED
  BY <1>2, <1>3 DEF BootIndication, Swallowed

LEMMA BootIndicationTyped ==
  ASSUME Typed, BootIndication
  PROVE  Typed'
<1>1. booted' \in Seq(BOOLEAN)
  <2>1. booted \in Seq(BOOLEAN) /\ booted # <<>> /\ booted' = Tail(booted)
    BY BootIndicationIs DEF Typed, TypeOK
  <2>. QED
    BY <2>1
<1>2. UNCHANGED <<thread, address, service, polling, otap, ops, wanted, undone, targeted>>
  BY BootIndicationIs
<1>3. node' \in NodeType
  BY BootIndicationIs DEF Typed, TypeOK
<1>4. PlaceInv' /\ CallerInv' /\ StoreInv'
  BY <1>2 DEF Typed, PlaceInv, Placed, Kind, IsConfig, CallerInv, Waits, Called, NewState,
              StoreInv, Serving, Values, Preset
<1>5. TypeOK'
  BY <1>1, <1>2, <1>3, BootIndicationIs DEF Typed, TypeOK, ServiceType, Values, Preset
<1>. QED
  BY <1>4, <1>5 DEF Typed

Booting == [node EXCEPT !.up = TRUE, !.marked = FALSE,
                        !.processed = IF node.marked THEN node.stored ELSE @]
LEMMA NodeBootsTyped ==
  ASSUME Typed, NodeBoots
  PROVE  Typed'
<1>1. node' = Booting /\ booted' = Append(booted, node.running)
      /\ UNCHANGED <<thread, address, signals, polling, config, otap, ops, troubles,
                     wanted, causes, announced, undone, targeted>>
  BY DEF NodeBoots, history, Booting
<1>2. node' \in NodeType /\ booted' \in Seq(BOOLEAN)
  <2>1. node \in NodeType /\ booted \in Seq(BOOLEAN)
    BY DEF Typed, TypeOK
  <2>2. node.running \in BOOLEAN
    BY <2>1 DEF NodeType
  <2>3. node' \in NodeType
    BY <1>1, <2>1 DEF Booting, NodeType
  <2>. QED
    BY <1>1, <2>1, <2>2, <2>3
<1>3. service' \in ServiceType /\ SameCall /\ service'.step = service.step
      /\ service'.fetched = service.fetched
  <2>1. service \in ServiceType
    BY DEF Typed, TypeOK
  <2>2. service' = service \/ service' = [service EXCEPT !.did = {"process"}]
    BY DEF NodeBoots
  <2>. QED
    BY <2>1, <2>2 DEF ServiceType, SameCall, Work
<1>4. ServiceTyped
  BY <1>1, <1>3, GoesOnTyped DEF Typed, StoreInv, Serving, SameCall
<1>5. TypeOK'
  BY <1>1, <1>2, <1>4 DEF ServiceTyped, Typed, TypeOK, ServiceType, Values, Preset
<1>. QED
  BY <1>4, <1>5 DEF ServiceTyped, Typed

Rebooting(cause) ==
  [node EXCEPT !.up = FALSE, !.loading = NotLoading,
     !.running = node.autostart /\ node.address # Unset,
     !.address = IF cause = "remote_api" THEN Reconfigured ELSE @,
     !.stored = IF cause = "remote_otap" THEN RemoteSeq ELSE @,
     !.marked = @ \/ cause = "remote_otap"]
RebootBlame(cause) ==
  (IF cause = "remote_otap" THEN {cause} ELSE {})
  \union (IF service.task \in {"none", "init"} /\ \A t \in Clients : At(t, "idle")
            THEN {} ELSE {"interrupted"})
LEMMA NodeRebootsIs ==
  ASSUME Typed, NodeReboots
  PROVE  \E cause \in {"reboot", "remote_api", "remote_otap"} :
           /\ node.up /\ (cause = "reboot" \/ node.running)
           /\ node' = Rebooting(cause) /\ node' \in NodeType
           /\ troubles' = troubles + 1 /\ troubles' \in 0 .. MaxTroubles
           /\ causes' = causes \union RebootBlame(cause) /\ causes' \subseteq Causes
           /\ announced' = (announced /\ node'.running = node.running)
           /\ UNCHANGED <<thread, address, signals, service, polling, config, otap, booted, ops,
                          wanted, undone, targeted>>
<1>1. PICK cause \in {"reboot", "remote_api", "remote_otap"} :
        /\ cause = "reboot" \/ node.running
        /\ Takes([cost |-> 1, node |-> Rebooting(cause)])
        /\ Blame(RebootBlame(cause))
  BY DEF NodeReboots, Rebooting, RebootBlame
<1>2. node \in NodeType
  BY DEF Typed, TypeOK
<1>3. Rebooting(cause) \in NodeType
  <2>1. Reconfigured \in Values /\ RemoteSeq \in Values
    BY SinkAssumption DEF Reconfigured, RemoteSeq, Values, Preset
  <2>2. NotLoading \in [seq : 0 .. MaxOps, next : 0 .. Blocks - 1]
    BY SinkAssumption DEF NotLoading
  <2>. QED
    BY <1>2, <2>1, <2>2 DEF Rebooting, NodeType
<1>4. node' = Rebooting(cause) /\ troubles' = troubles + 1 /\ troubles' \in 0 .. MaxTroubles
  <2> DEFINE o == [cost |-> 1, node |-> Rebooting(cause)]
  <2>1. o.node = Rebooting(cause) /\ o.cost = 1
    OBVIOUS
  <2> HIDE DEF o
  <2>2. Takes(o)
    BY <1>1 DEF o
  <2>. QED
    BY <1>3, <2>1, <2>2, TakesIs
<1>5. causes' = causes \union RebootBlame(cause) /\ causes' \subseteq Causes
  BY <1>1 DEF Blame, RebootBlame, Causes, Typed, TypeOK
<1>6. /\ node.up /\ announced' = (announced /\ node'.running = node.running)
      /\ UNCHANGED <<thread, address, signals, service, polling, config, otap, booted, ops,
                     wanted, undone, targeted>>
  BY DEF NodeReboots, sinkService
<1>. QED
  BY <1>1, <1>3, <1>4, <1>5, <1>6

LEMMA NodeRebootsTyped ==
  ASSUME Typed, NodeReboots
  PROVE  Typed'
<1>1. PICK cause \in {"reboot", "remote_api", "remote_otap"} :
        /\ node' \in NodeType /\ troubles' \in 0 .. MaxTroubles /\ causes' \subseteq Causes
        /\ announced' = (announced /\ node'.running = node.running)
        /\ UNCHANGED <<thread, address, signals, service, polling, config, otap, booted, ops,
                       wanted, undone, targeted>>
  BY NodeRebootsIs
<1>2. ServiceTyped
  BY <1>1 DEF Typed, TypeOK, PlaceInv, Placed, Kind, IsConfig, CallerInv, Waits, Called,
              NewState, StoreInv, Serving, Values, Preset, ServiceTyped, ServiceType
<1>3. announced' \in BOOLEAN
  BY <1>1 DEF Typed, TypeOK
<1>. QED
  BY <1>1, <1>2, <1>3, ServiceStepTyped DEF Typed, TypeOK

LEMMA TransportDiesTyped ==
  ASSUME Typed, TransportDies
  PROVE  Typed'
<1>1. /\ thread' = [t \in Threads |-> Idle] /\ address' = Unset /\ signals' = 0
      /\ service' = [service EXCEPT !.caller = Nobody]
      /\ Takes([node |-> node, cost |-> 1]) /\ Blame({"crash"})
      /\ UNCHANGED <<polling, config, otap, booted, ops, wanted, announced, undone, targeted>>
  BY DEF TransportDies
<1>2. thread' \in [Threads -> ThreadType] /\ PlaceInv'
  <2>1. \A t \in Threads : thread'[t] = Idle /\ Placed(t, thread'[t])
    BY <1>1, IdleIs
  <2>. QED
    BY <1>1, <2>1, IdleIs DEF PlaceInv, Placed, Kind, IsConfig
<1>3. service' \in ServiceType /\ service'.caller = Nobody /\ service'.task = service.task
      /\ service'.step = service.step /\ service'.fetched = service.fetched
  BY <1>1 DEF Typed, TypeOK, ServiceType
<1>4. CallerInv' /\ StoreInv'
  BY <1>3 DEF CallerInv, StoreInv, Serving, Values, Preset, Typed
<1>5. node' \in NodeType /\ troubles' \in 0 .. MaxTroubles
  <2> DEFINE o == [node |-> node, cost |-> 1]
  <2>1. o.node \in NodeType /\ o.cost \in {0, 1, 2}
    BY DEF Typed, TypeOK
  <2> HIDE DEF o
  <2>. QED
    BY <1>1, <2>1, TakesIs DEF o
<1>6. causes' \subseteq Causes /\ address' \in Values
  BY <1>1, SinkAssumption DEF Blame, Causes, Unset, Values, Preset, Typed, TypeOK
<1>7. TypeOK'
  BY <1>1, <1>2, <1>3, <1>5, <1>6 DEF Typed, TypeOK, ServiceType, Values, Preset
<1>. QED
  BY <1>2, <1>4, <1>7 DEF Typed

LEMMA InitTyped == Init => Typed
<1> SUFFICES ASSUME Init PROVE Typed
  OBVIOUS
<1>1. MaxOps \in Nat /\ MaxTroubles \in Nat /\ Blocks \in Nat \ {0}
  BY SinkAssumption
<1>2. 0 \in Values /\ Preset \in Values /\ 0 \in 0 .. Blocks - 1
  BY <1>1 DEF Values, Preset
<1>3. thread \in [Threads -> ThreadType] /\ PlaceInv
  BY IdleIs DEF Init, PlaceInv
<1>4. service \in ServiceType /\ service.caller = Nobody /\ service.step = "register"
  BY NoCallIs DEF Init, ServiceType, Tasks, Steps
<1>5. CallerInv /\ StoreInv
  BY <1>4 DEF CallerInv, StoreInv, Serving
<1>6. node \in NodeType
  <2>1. PICK on \in BOOLEAN :
          node = [up |-> TRUE, running |-> on, autostart |-> on,
                  address |-> IF on THEN Preset ELSE Unset,
                  loading |-> NotLoading, marked |-> FALSE,
                  stored |-> IF on THEN Preset ELSE 0, processed |-> IF on THEN Preset ELSE 0]
    BY DEF Init
  <2>. QED
    BY <1>1, <1>2, <2>1 DEF NodeType, Unset, NotLoading
<1>7. TypeOK
  BY <1>1, <1>2, <1>3, <1>4, <1>6 DEF Init, TypeOK, Unset
<1>. QED
  BY <1>3, <1>5, <1>7 DEF Typed

LEMMA StepTyped ==
  ASSUME Typed, [Next]_vars
  PROVE  Typed'
<1>1. ASSUME NEW t \in Threads, ThreadStep(t) PROVE Typed'
  BY <1>1, CaptureTyped, CheckTyped, WriteItemTyped, RestoreTyped, ReadbackTyped, AssignTyped,
     DefaultTargetTyped, SetTargetTyped, CallTyped DEF ThreadStep
<1>2. CASE ServiceStep
  BY <1>2, StartStackTyped, SetAutostartTyped, ClearAutostartTyped, StopRequestTyped,
     StopWaitTyped, StopDoneTyped, UploadBeginTyped, UploadBlockTyped, UpdateScratchpadTyped,
     ReadScratchpadTyped, RegisterTyped, ConfigReadTyped, ConfigStoreTyped, OtapInitTyped
  DEF ServiceStep
<1>3. CASE UNCHANGED vars
  BY <1>3 DEF vars, sinkService, history, Typed, TypeOK, PlaceInv, Placed, Kind, IsConfig,
     CallerInv, Waits, Called, NewState, StoreInv, Serving, ServiceType, Values, Preset
<1>. QED
  BY <1>1, <1>2, <1>3, OnStackStartedTyped, BootIndicationTyped, NodeBootsTyped,
     NodeRebootsTyped, TransportDiesTyped DEF Next

(* The threads keep their places, and the variables their ranges.           *)
THEOREM SinkInvariant == Spec => []Typed
<1>1. Typed /\ [Next]_vars => Typed'
  BY StepTyped
<1>. QED
  BY InitTyped, <1>1, PTL DEF Spec

(* The variables stay in their ranges (TypeOK), for any number of clients,  *)
(* operations, blocks and troubles.                                         *)
THEOREM TypeCorrect == Spec => []TypeOK
BY SinkInvariant, PTL DEF Typed
-----------------------------------------------------------------------------

(* What the steps of the transport's threads leave of the rest.             *)

LEMMA CallIs ==
  ASSUME Typed, NEW t \in Threads, Call(t)
  PROVE  /\ Free /\ t \in Clients /\ t # Nobody /\ Waits(thread[t])
         /\ service'.task = Called(thread[t]) /\ service'.step = Entry(service'.task)
         /\ service'.task \in {"start", "stop", "upload", "process"}
         /\ service'.caller = t /\ service'.seq = thread[t].number
         /\ service'.did = {} /\ service'.fetched = 0 /\ service'.ok
         /\ node' = node /\ causes \subseteq causes'
<1> DEFINE me == thread[t]
<1>1. Free /\ Waits(me) /\ me \in ThreadType /\ Placed(t, me)
  BY DEF Call, Waits, At, Typed, TypeOK, PlaceInv
<1>2. t \in Clients /\ t # Nobody
  BY <1>1, ClientsAreThreads DEF Placed, Waits
<1>3. Called(me) \in {"start", "stop", "upload", "process"}
  <2>1. me.pc = "work" => me.request.kind \in {"upload", "process"}
    BY <1>1 DEF Placed, Waits, Kind
  <2>2. CASE me.pc = "stop"
    BY <2>2 DEF Called
  <2>3. CASE me.pc = "restart"
    BY <2>3 DEF Called
  <2>4. CASE me.pc = "change"
    BY <2>4 DEF Called
  <2>5. CASE me.pc = "work"
    BY <2>1, <2>5 DEF Called
  <2>. QED
    BY <1>1, <2>2, <2>3, <2>4, <2>5 DEF Waits
<1>4. service' = [NoCall EXCEPT !.task = Called(me), !.step = Entry(Called(me)),
                                !.caller = t, !.seq = me.number]
  BY DEF Call
<1>5. /\ service'.task = Called(me) /\ service'.step = Entry(Called(me))
      /\ service'.caller = t /\ service'.seq = me.number
      /\ service'.did = {} /\ service'.fetched = 0 /\ service'.ok
  <2> HIDE DEF me
  <2>. QED
    BY <1>4 DEF NoCall
<1>6. node' = node /\ causes \subseteq causes'
  BY DEF Call, Blame
<1>. QED
  BY <1>1, <1>2, <1>3, <1>5, <1>6

LEMMA EntryIs ==
  /\ Entry("start") = "request" /\ Entry("stop") = "autostart"
  /\ Entry("upload") = "begin" /\ Entry("process") = "update"
BY DEF Entry

ClientStep == OnStackStarted \/ \E t \in Threads : ThreadStep(t)
Addressed(a) == node' = [node EXCEPT !.address = a] /\ (a = node.address \/ (Free /\ ~node.running))
LEMMA ClientStepIs ==
  ASSUME Typed, ClientStep
  PROVE  /\ UNCHANGED <<booted, announced, polling, config, otap>>
         /\ \E a \in Values : Addressed(a)
         /\ causes \subseteq causes' /\ troubles \in 0 .. MaxTroubles
         /\ \/ service' = service
            \/ /\ Free /\ node' = node
               /\ service'.task \in {"start", "stop", "upload", "process"}
               /\ service'.step = Entry(service'.task)
<1> DEFINE Still == /\ UNCHANGED <<booted, announced, polling, config, otap>>
                    /\ \E a \in Values : Addressed(a)
                    /\ causes \subseteq causes' /\ service' = service
<1>1. node \in NodeType /\ node.address \in Values /\ node = [node EXCEPT !.address = node.address]
      /\ troubles \in 0 .. MaxTroubles
  BY DEF Typed, TypeOK, NodeType
<1>2. node' = node => \E a \in Values : Addressed(a)
  BY <1>1 DEF Addressed
<1>3. ASSUME NEW t \in Threads, Capture(t) PROVE Still
  <2>1. node' = node
    BY <1>3, ReadsNothingElse DEF Capture, Takes
  <2>. QED
    BY <1>2, <1>3, <2>1 DEF Capture, sinkService
<1>4. ASSUME NEW t \in Threads, Check(t) PROVE Still
  <2>1. node' = node
    BY <1>4, ReadsNothingElse DEF Check, Takes
  <2>. QED
    BY <1>2, <1>4, <2>1 DEF Check, sinkService, history
<1>5. ASSUME NEW t \in Threads, WriteItem(t) PROVE Still
  <2> DEFINE me == thread[t]
  <2>1. PICK o \in ItemWrite(Head(me.todo), me.number) : Takes(o)
    BY <1>5 DEF WriteItem
  <2>2. me.number \in Values /\ Free
    BY <1>5, SinkAssumption DEF WriteItem, CallsAt, Typed, TypeOK, ThreadType, Values, Preset
  <2>3. \E a \in Values : Addressed(a)
    <3> HIDE DEF me
    <3>1. o.node = node \/ (~node.running /\ o.node = [node EXCEPT !.address = me.number])
      BY ItemWriteIs
    <3>2. node' = o.node
      BY <2>1 DEF Takes
    <3>. QED
      BY <1>2, <2>2, <3>1, <3>2 DEF Addressed
  <2>. QED
    BY <1>5, <2>3 DEF WriteItem, sinkService, history
<1>6. ASSUME NEW t \in Threads, Restore(t) PROVE Still
  <2>1. node' = node
    BY <1>6, ReadsNothingElse DEF Restore, Takes
  <2>2. causes \subseteq causes'
    BY <1>6 DEF Restore, Blame
  <2>. QED
    BY <1>2, <1>6, <2>1, <2>2 DEF Restore, sinkService
<1>7. ASSUME NEW t \in Threads, NEW me, Reads(t, me) PROVE node' = node /\ causes \subseteq causes'
  BY <1>7, AddressReadIs DEF Reads, Takes, Blame
<1>8. ASSUME NEW t \in Threads, Readback(t) PROVE Still
  <2>1. node' = node /\ causes \subseteq causes'
    BY <1>7, <1>8 DEF Readback
  <2>. QED
    BY <1>2, <1>8, <2>1 DEF Readback, sinkService
<1>9. ASSUME OnStackStarted PROVE Still
  <2>1. node' = node /\ causes \subseteq causes'
    BY <1>7, <1>9, ClientsAreThreads DEF OnStackStarted
  <2>. QED
    BY <1>2, <1>9, <2>1 DEF OnStackStarted, sinkService
<1>10. ASSUME NEW t \in Threads, Assign(t) PROVE Still
  BY <1>2, <1>10 DEF Assign, Blame, sinkService
<1>11. ASSUME NEW t \in Threads, DefaultTarget(t) PROVE Still
  BY <1>2, <1>11 DEF DefaultTarget, sinkService
<1>12. ASSUME NEW t \in Threads, SetTarget(t) PROVE Still
  <2>1. node' = node
    BY <1>12, ReadsNothingElse DEF SetTarget, Takes
  <2>. QED
    BY <1>2, <1>12, <2>1 DEF SetTarget, sinkService
<1>13. ASSUME NEW t \in Threads, Call(t)
       PROVE  /\ UNCHANGED <<booted, announced, polling, config, otap>>
              /\ \E a \in Values : Addressed(a)
              /\ causes \subseteq causes'
              /\ Free /\ node' = node
              /\ service'.task \in {"start", "stop", "upload", "process"}
              /\ service'.step = Entry(service'.task)
  <2>1. UNCHANGED <<booted, announced, polling, config, otap>>
    BY <1>13 DEF Call
  <2>. QED
    BY <1>2, <1>13, <2>1, CallIs
<1> HIDE DEF Still
<1>14. Still \/ \E t \in Threads : Call(t)
  BY <1>3, <1>4, <1>5, <1>6, <1>8, <1>9, <1>10, <1>11, <1>12 DEF ClientStep, ThreadStep
<1>. QED
  BY <1>1, <1>13, <1>14 DEF Still
-----------------------------------------------------------------------------
(* Every change of the stack is signalled.                                  *)

(* Nobody is registered for boot indications yet: the stack is as it was.   *)
FirstInv ==
  Serving("init", "register") =>
    announced /\ node.running = node.autostart /\ (node.running => node.address # Unset)
ChangeInv ==
  \/ announced \/ "not_started" \in causes \/ ~node.up \/ booted # <<>>
  \/ Serving("start", "autostart") /\ service.ok
Signalled == FirstInv /\ ChangeInv

LEMMA StepSignalled ==
  ASSUME Typed, Signalled, [Next]_vars
  PROVE  Signalled'
<1>1. node \in NodeType /\ booted \in Seq(BOOLEAN) /\ service \in ServiceType
  BY DEF Typed, TypeOK
<1>2. CASE ClientStep
  <2>1. PICK a \in Values : Addressed(a)
    BY <1>2, ClientStepIs
  <2>2. node'.up = node.up /\ node'.running = node.running /\ node'.autostart = node.autostart
        /\ (node'.address = node.address \/ Free)
    BY <1>1, <2>1 DEF Addressed, NodeType
  <2>3. /\ UNCHANGED <<announced, booted>> /\ causes \subseteq causes'
        /\ \/ service' = service
           \/ /\ Free /\ service'.task \in {"start", "stop", "upload", "process"}
              /\ service'.step = Entry(service'.task)
    BY <1>2, ClientStepIs
  <2>. QED
    BY <2>2, <2>3, EntryIs DEF Signalled, FirstInv, ChangeInv, Serving, Free
<1>3. CASE StartStack
  <2>1. PICK o \in StackStart, late \in 0 .. 1 :
          /\ node' = o.node
          /\ service' = [service EXCEPT !.did = @ \union Reached(TRUE, o),
                                         !.step = "autostart", !.ok = o.res = 0 /\ late = 0]
          /\ announced' = (announced /\ o.node.running = node.running)
          /\ Blame(IF service'.ok THEN {} ELSE {"not_started"})
    BY <1>3 DEF StartStack, Takes, StackStart, Outcomes
  <2>2. Serving("start", "request") /\ service'.task = "start" /\ service'.step = "autostart"
    BY <1>1, <1>3, <2>1 DEF StartStack, ServiceType, Serving
  <2>3. service'.ok \/ "not_started" \in causes'
    BY <2>1 DEF Blame
  <2>. QED
    BY <2>2, <2>3 DEF Signalled, FirstInv, ChangeInv, Serving
<1>4. CASE SetAutostart
  <2>1. PICK o \in AutostartWrite(TRUE) : node' = o.node /\ Blame(AutostartBlame(o))
    BY <1>4 DEF SetAutostart, Takes
  <2>2. node'.up = node.up
    BY <1>1, <2>1, AutostartWriteIs DEF NodeType
  <2>3. /\ causes \subseteq causes' /\ booted' = booted /\ service' = NoCall
        /\ Serving("start", "autostart")
        /\ IF service.ok THEN announced' = TRUE ELSE announced' = announced
    BY <1>4, <2>1 DEF SetAutostart, Blame, Reply, Signal, NoSignal
  <2>. QED
    BY <2>2, <2>3, NoCallIs DEF Signalled, FirstInv, ChangeInv, Serving
<1>5. CASE ClearAutostart
  <2>1. PICK o \in AutostartWrite(FALSE) : node' = o.node /\ Blame(AutostartBlame(o))
    BY <1>5 DEF ClearAutostart, Takes
  <2>2. node'.up = node.up
    BY <1>1, <2>1, AutostartWriteIs DEF NodeType
  <2>3. service'.step = "request" /\ service'.task = "stop" /\ service.task = "stop"
    BY <1>1, <1>5 DEF ClearAutostart, Goes, ServiceType, Serving
  <2>4. causes \subseteq causes' /\ booted' = booted /\ announced' = announced
    BY <1>5, <2>1 DEF ClearAutostart, Blame
  <2>. QED
    BY <2>2, <2>3, <2>4 DEF Signalled, FirstInv, ChangeInv, Serving
<1>6. CASE StopRequest
  <2>1. PICK o \in StackStop :
          /\ node' = o.node
          /\ service' = IF o.res \in {1, Denied}
                          THEN [service EXCEPT !.did = @ \union Reached(FALSE, o),
                                               !.step = "resume", !.ok = FALSE]
                          ELSE [service EXCEPT !.did = @ \union Reached(FALSE, o), !.step = "wait"]
          /\ announced' = (announced /\ o.node.running = node.running)
    BY <1>6 DEF StopRequest, Takes
  <2>2. node' = node \/ ~node'.up
    BY <1>1, <2>1, StackStopIs DEF WentDown, NodeType
  <2>3. service'.step \in {"resume", "wait"} /\ service.step = "request"
        /\ service.task \in {"stop", "process"} /\ service'.task = service.task
    BY <1>1, <1>6, <2>1 DEF StopRequest, Serving, ServiceType
  <2>4. causes \subseteq causes' /\ booted' = booted
    BY <1>6 DEF StopRequest, Blame
  <2>5. announced' = announced \/ ~node'.up
    BY <2>1, <2>2 DEF Typed, TypeOK
  <2>. QED
    BY <2>2, <2>3, <2>4, <2>5 DEF Signalled, FirstInv, ChangeInv, Serving
<1>7. CASE StopWait
  <2>1. node' = node /\ causes \subseteq causes' /\ UNCHANGED <<booted, announced>>
    BY <1>7 DEF StopWait, Takes, Blame
  <2>2. service.step = "wait" /\ service'.step = "resume"
    BY <1>1, <1>7 DEF StopWait, Serving, ServiceType
  <2>. QED
    BY <2>1, <2>2 DEF Signalled, FirstInv, ChangeInv, Serving
<1>8. CASE StopDone
  <2>1. UNCHANGED <<node, booted, causes>> /\ service.step = "resume"
    BY <1>8 DEF StopDone, Serving
  <2>2. service'.step \in {"read", "none"}
    BY <1>1, <1>8, NoCallIs DEF StopDone, Goes, Reply, ServiceType
  <2>3. announced' = announced \/ announced' = TRUE
    BY <1>8 DEF StopDone, Signal, NoSignal
  <2>. QED
    BY <2>1, <2>2, <2>3 DEF Signalled, FirstInv, ChangeInv, Serving
<1>9. CASE UploadBegin
  <2>1. PICK o \in ScratchpadStart(service.seq) : node' = o.node
    BY <1>9 DEF UploadBegin, Takes
  <2>2. node'.up = node.up
    <3>1. o.node = node \/ Erased(service.seq, o)
      BY ScratchpadStartIs
    <3>. QED
      BY <1>1, <2>1, <3>1 DEF Erased, NodeType
  <2>3. causes \subseteq causes' /\ UNCHANGED <<booted, announced>> /\ service.step = "begin"
        /\ service'.step \in {"block", "none"}
    BY <1>1, <1>9, NoCallIs DEF UploadBegin, Blame, Goes, Reply, ServiceType, Serving
  <2>. QED
    BY <2>2, <2>3 DEF Signalled, FirstInv, ChangeInv, Serving
<1>10. CASE UploadBlock
  <2>1. PICK o \in ScratchpadBlock(service.fetched) : node' = o.node
    BY <1>10 DEF UploadBlock, Takes
  <2>2. node'.up = node.up
    <3>1. o.node = node \/ Loaded(service.fetched, o)
      BY <1>1, ScratchpadBlockIs DEF NodeType
    <3>. QED
      BY <1>1, <2>1, <3>1 DEF Loaded, NodeType
  <2>3. causes \subseteq causes' /\ UNCHANGED <<booted, announced>> /\ service.step = "block"
    BY <1>10 DEF UploadBlock, Blame, Serving
  <2>4. service'.step \in {"block", "read", "none"}
    BY <1>1, <1>10, NoCallIs DEF UploadBlock, Reply, ServiceType
  <2>. QED
    BY <2>2, <2>3, <2>4 DEF Signalled, FirstInv, ChangeInv, Serving
<1>11. CASE UpdateScratchpad
  <2>1. PICK o \in ScratchpadUpdate : node' = o.node
    BY <1>11 DEF UpdateScratchpad, Takes
  <2>2. node'.up = node.up
    BY <1>1, <2>1, ScratchpadUpdateIs DEF Marked, NodeType
  <2>3. causes \subseteq causes' /\ UNCHANGED <<booted, announced>> /\ service.step = "update"
        /\ service'.step \in {"request", "none"}
    BY <1>1, <1>11, NoCallIs DEF UpdateScratchpad, Blame, Goes, Reply, ServiceType, Serving
  <2>. QED
    BY <2>2, <2>3 DEF Signalled, FirstInv, ChangeInv, Serving
<1>12. CASE ReadScratchpad
  <2>1. node' = node /\ causes \subseteq causes'
    BY <1>12, RereadIs DEF ReadScratchpad
  <2>2. UNCHANGED <<booted, announced>> /\ service.step = "read" /\ service'.step = "none"
    BY <1>12, NoCallIs DEF ReadScratchpad, Reply, Serving
  <2>. QED
    BY <2>1, <2>2 DEF Signalled, FirstInv, ChangeInv, Serving
<1>13. CASE Register
  <2>1. UNCHANGED <<node, booted, announced, causes>> /\ service.task = "init"
        /\ service'.step = "config"
    BY <1>1, <1>13 DEF Register, history, Goes, Serving, ServiceType
  <2>. QED
    BY <2>1 DEF Signalled, FirstInv, ChangeInv, Serving
<1>14. CASE ConfigRead
  <2>1. node' = node /\ causes \subseteq causes'
    BY <1>14, ReadsNothingElse DEF ConfigRead, Takes, Blame
  <2>2. UNCHANGED <<booted, announced>> /\ service.task = "init" /\ service'.step = "store"
    BY <1>1, <1>14 DEF ConfigRead, Serving, ServiceType
  <2>. QED
    BY <2>1, <2>2 DEF Signalled, FirstInv, ChangeInv, Serving
<1>15. CASE ConfigStore
  <2>1. causes \subseteq causes' /\ UNCHANGED <<node, booted, announced>>
        /\ service.task = "init" /\ service'.step = "otap"
    BY <1>1, <1>15 DEF ConfigStore, Blame, Serving, ServiceType
  <2>. QED
    BY <2>1 DEF Signalled, FirstInv, ChangeInv, Serving
<1>16. CASE OtapInit
  <2>1. node' = node /\ causes \subseteq causes'
    BY <1>16, RereadIs DEF OtapInit
  <2>2. UNCHANGED <<booted, announced>> /\ service.task = "init" /\ service'.step = "none"
    BY <1>16, NoCallIs DEF OtapInit, Serving
  <2>. QED
    BY <2>1, <2>2 DEF Signalled, FirstInv, ChangeInv, Serving
<1>17. CASE BootIndication
  <2>1. booted # <<>> /\ node' = node /\ service' = service /\ causes \subseteq causes'
        /\ (Handled \/ Swallowed)
    BY <1>17, BootIndicationIs
  <2>2. CASE Handled
    BY <2>1, <2>2 DEF Handled, Signal, Signalled, FirstInv, ChangeInv, Serving
  <2>3. CASE Swallowed
    BY <2>1, <2>3 DEF Swallowed, Signalled, FirstInv, ChangeInv, Serving
  <2>. QED
    BY <2>1, <2>2, <2>3
<1>18. CASE NodeBoots
  <2>1. node' = Booting /\ booted' = Append(booted, node.running) /\ announced' = announced
    BY <1>18 DEF NodeBoots, history, Booting
  <2>2. node'.running = node.running /\ node'.autostart = node.autostart
        /\ node'.address = node.address
    BY <1>1, <2>1 DEF Booting, NodeType
  <2>3. booted' # <<>>
    BY <1>1, <2>1 DEF NodeType
  <2>4. service'.task = service.task /\ service'.step = service.step
    BY <1>1, <1>18 DEF NodeBoots, ServiceType
  <2>. QED
    BY <2>1, <2>2, <2>3, <2>4 DEF Signalled, FirstInv, ChangeInv, Serving
<1>19. CASE NodeReboots
  <2>1. PICK cause \in {"reboot", "remote_api", "remote_otap"} :
          node' = Rebooting(cause) /\ announced' = (announced /\ node'.running = node.running)
          /\ service' = service
    BY <1>19, NodeRebootsIs
  <2>2. /\ ~node'.up /\ node'.autostart = node.autostart
        /\ node'.running = (node.autostart /\ node.address # Unset)
        /\ node'.address \in {node.address, Reconfigured}
    BY <1>1, <2>1 DEF Rebooting, NodeType
  <2>3. Reconfigured # Unset
    BY SinkAssumption DEF Reconfigured, Unset
  <2>4. node.running \in BOOLEAN /\ node.autostart \in BOOLEAN
    BY <1>1 DEF NodeType
  <2>. QED
    BY <2>1, <2>2, <2>3, <2>4 DEF Signalled, FirstInv, ChangeInv, Serving
<1>20. CASE TransportDies
  <2>1. node' = node /\ causes \subseteq causes' /\ UNCHANGED <<booted, announced>>
    BY <1>20 DEF TransportDies, Takes, Blame
  <2>2. service'.task = service.task /\ service'.step = service.step /\ service'.ok = service.ok
    BY <1>1, <1>20 DEF TransportDies, ServiceType
  <2>. QED
    BY <2>1, <2>2 DEF Signalled, FirstInv, ChangeInv, Serving
<1>21. CASE UNCHANGED vars
  BY <1>21 DEF vars, sinkService, history, Signalled, FirstInv, ChangeInv, Serving
<1>. QED
  BY <1>2, <1>3, <1>4, <1>5, <1>6, <1>7, <1>8, <1>9, <1>10, <1>11, <1>12, <1>13, <1>14, <1>15,
     <1>16, <1>17, <1>18, <1>19, <1>20, <1>21 DEF Next, ServiceStep, ClientStep

(* At rest every change of the state of the stack has been signalled, or a  *)
(* start answered late or not at all (ChangeIsSignalled).                   *)
THEOREM ChangeAlwaysSignalled == Spec => []ChangeIsSignalled
<1>1. ASSUME Init PROVE Signalled
  <2>1. PICK on \in BOOLEAN :
          node = [up |-> TRUE, running |-> on, autostart |-> on,
                  address |-> IF on THEN Preset ELSE Unset,
                  loading |-> NotLoading, marked |-> FALSE,
                  stored |-> IF on THEN Preset ELSE 0, processed |-> IF on THEN Preset ELSE 0]
    BY <1>1 DEF Init
  <2>2. Preset # Unset /\ announced = TRUE
    BY <1>1, SinkAssumption DEF Init, Preset, Unset
  <2>3. node.running = on /\ node.autostart = on /\ (on => node.address = Preset)
    BY <2>1
  <2>. QED
    BY <2>2, <2>3 DEF Signalled, FirstInv, ChangeInv
<1>2. Typed /\ Signalled /\ [Next]_vars => Signalled'
  BY StepSignalled
<1>3. Signalled => ChangeIsSignalled
  BY DEF Signalled, ChangeInv, ChangeIsSignalled, AtRest, Free, Serving, Without
<1>. QED
  BY SinkInvariant, <1>1, <1>2, <1>3, PTL DEF Spec
=============================================================================
