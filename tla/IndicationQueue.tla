-------------------------- MODULE IndicationQueue ---------------------------
(***************************************************************************)
(* The two service threads of c-mesh-api on Linux (lib/platform/linux/     *)
(* platform.c): the polling thread asks the node for indications and       *)
(* stores them in a ring, the dispatch thread runs their handlers.  A      *)
(* third thread stands for the application: it sends requests and closes   *)
(* and reopens the library.                                                *)
(*                                                                         *)
(* A step is what a thread does between two accesses to state another      *)
(* thread may change: each read the polling thread makes without the queue *)
(* lock is a step of its own (the library is built without optimisation,   *)
(* so each mention of a static variable is a load).                        *)
(***************************************************************************)
EXTENDS Integers, Sequences

CONSTANTS
  MaxNumberIndication,  \* MAX_NUMBER_INDICATION, 30 in wpc_internal.h
  UIntRange,            \* 2^32, the range of an unsigned int
  StartIndices,         \* where earlier openings of the library may have left the ring
  MaxIndications,       \* bound: indications the node ever hands over
  MaxCloses             \* bound: calls of Platform_close

ASSUME QueueAssumption ==
  /\ MaxNumberIndication \in Nat \ {0}
  /\ UIntRange \in Nat
  /\ UIntRange >= 4 * MaxNumberIndication
  /\ StartIndices \subseteq 0 .. 2 * MaxNumberIndication - 1
  /\ MaxIndications \in Nat
  /\ MaxCloses \in Nat

QueueSize == 2 * MaxNumberIndication
Index == 0 .. QueueSize - 1

poll == "poll"          \* thread_polling
dispatch == "dispatch"  \* thread_dispatch
app == "app"            \* a thread of the application
Threads == {poll, dispatch, app}
Free == "free"          \* a mutex nobody owns

VARIABLES
  slots, write, read, empty,  \* m_indications_queue, m_ind_queue_*, m_queue_empty
  queueMutex, sendingMutex,   \* owner of each mutex, or Free
  pollRunning, dispatchRunning,
  pc,        \* where each thread is
  quota,     \* max_ind: indications the running poll may still read
  more,      \* indication_status of the frame just received
  fatal,     \* the application's close comes from the link watchdog
  alive,     \* the process has not called exit()
  closes,    \* calls of Platform_close so far
  arrived,   \* indications the node has handed over: 1 .. arrived
  handled,   \* those given to a handler, in order
  refused,   \* those dropped with "Must never happen!"
  torn       \* the dispatcher wrapped the ring while quota was being computed

ring == <<slots, write, read, empty>>
flags == <<pollRunning, dispatchRunning>>
mutexes == <<queueMutex, sendingMutex>>
polling == <<quota, more, torn>>
process == <<fatal, alive, closes>>
history == <<arrived, handled, refused>>
vars == <<ring, flags, mutexes, pc, polling, process, history>>

-----------------------------------------------------------------------------
(* Mutexes are PTHREAD_MUTEX_ERRORCHECK: an unlock by a thread that is not  *)
(* the owner fails and changes nothing.                                     *)
Unlocked(mutex, t) == IF mutex = t THEN Free ELSE mutex

Goto(t, label) == pc' = [pc EXCEPT ![t] = label]

(* pthread_cond_signal: only a thread that already waits is woken. *)
NotSignalled(pcs) == pcs
Signalled(pcs) == [pcs EXCEPT ![dispatch] = IF @ = "waiting" THEN "relock" ELSE @]

SuccessorUnwrapped(i) == i + 1
Successor(i) == (i + 1) % QueueSize

(* Unsigned subtraction in C. *)
UIntSub(a, b) == IF a >= b THEN a - b ELSE UIntRange + a - b

AtMostMax(room) == IF room > MaxNumberIndication THEN MaxNumberIndication ELSE room

(* The room the poller computes on each side of `write > read`. *)
RoomAhead == QueueSize - (write - read)
RoomBehindOffByOne == UIntSub(read, write) + 1
RoomBehind == UIntSub(read, write)

(* Test of onIndicationReceivedLocked, made with the queue locked. *)
IsFullNever == FALSE
IsFull == ~empty /\ write = read

(* Test of the dispatcher after it advanced m_ind_queue_read. *)
DrainedAlways == TRUE
Drained == read = write

(* Platform_init does not reset the ring: the indices stay where the last   *)
(* close left them.                                                         *)
Init ==
  /\ slots = [i \in Index |-> 0]
  /\ write \in StartIndices /\ read = write /\ empty = TRUE
  /\ queueMutex = Free /\ sendingMutex = Free
  /\ pollRunning = TRUE /\ dispatchRunning = TRUE
  /\ pc = [t \in Threads |-> IF t = poll THEN "loop" ELSE IF t = dispatch THEN "start" ELSE "idle"]
  /\ quota = 0 /\ more = FALSE /\ torn = FALSE
  /\ fatal = FALSE /\ alive = TRUE /\ closes = 0
  /\ arrived = 0 /\ handled = <<>> /\ refused = {}

-----------------------------------------------------------------------------
(* poll_for_indication: how many indications to ask for.                    *)

PollLoop ==  \* test of the loop, then usleep
  /\ pc[poll] = "loop"
  /\ Goto(poll, IF pollRunning THEN "seeEmpty" ELSE "done")
  /\ UNCHANGED <<ring, flags, mutexes, polling, process, history>>

SeeEmpty ==
  /\ pc[poll] = "seeEmpty"
  /\ Goto(poll, IF empty THEN "seeEmptyAgain" ELSE "seeFull")
  /\ UNCHANGED <<ring, flags, mutexes, polling, process, history>>

SeeFull ==  \* "Queue is full, do not poll"
  /\ pc[poll] = "seeFull"
  /\ Goto(poll, IF write = read THEN "loop" ELSE "seeEmptyAgain")
  /\ UNCHANGED <<ring, flags, mutexes, polling, process, history>>

Ask(room, isTorn) ==
  /\ quota' = AtMostMax(room)
  /\ torn' = isTorn
  /\ Goto(poll, "lockSending")
  /\ UNCHANGED <<ring, flags, mutexes, more, process, history>>

SeeEmptyAgain ==
  /\ pc[poll] = "seeEmptyAgain"
  /\ \/ empty /\ Ask(QueueSize, FALSE)
     \/ /\ ~empty
        /\ Goto(poll, "seeOrder")
        /\ UNCHANGED <<ring, flags, mutexes, polling, process, history>>

SeeOrder ==
  /\ pc[poll] = "seeOrder"
  /\ Goto(poll, IF write > read THEN "roomAhead" ELSE "roomBehind")
  /\ UNCHANGED <<ring, flags, mutexes, polling, process, history>>

SeeRoom ==  \* reads m_ind_queue_read once more
  \/ pc[poll] = "roomAhead" /\ Ask(RoomAhead, FALSE)
  \/ pc[poll] = "roomBehind" /\ Ask(RoomBehind, read < write)

-----------------------------------------------------------------------------
(* get_indication: the exchange with the node, under the sending mutex.     *)

(* Platform_lock_request, from any thread. *)
LockSending(t) ==
  /\ pc[t] = "lockSending"
  /\ sendingMutex = Free
  /\ sendingMutex' = t
  /\ Goto(t, IF t = poll THEN "poll" ELSE "request")
  /\ UNCHANGED <<ring, flags, queueMutex, polling, process, history>>

(* check_if_timeout_reached_locked found the link dead: close, then exit. *)
Watchdog(t) ==
  /\ closes < MaxCloses
  /\ closes' = closes + 1
  /\ fatal' = IF t = app THEN TRUE ELSE fatal
  /\ sendingMutex' = Unlocked(sendingMutex, t)
  /\ Goto(t, "stopDispatch")
  /\ UNCHANGED <<ring, flags, queueMutex, polling, alive, history>>

LeavePoll ==  \* get_indication returns to the polling loop
  /\ sendingMutex' = Unlocked(sendingMutex, poll)
  /\ Goto(poll, "loop")
  /\ UNCHANGED <<ring, flags, queueMutex, polling, process, history>>

PollRequest ==
  /\ pc[poll] = "poll"
  /\ \/ LeavePoll              \* room for none, poll disabled, error, none pending
     \/ quota > 0 /\ Watchdog(poll)
     \/ /\ quota > 0           \* the confirm says that indications are pending
        /\ arrived < MaxIndications
        /\ Goto(poll, "receive")
        /\ UNCHANGED <<ring, flags, mutexes, polling, process, history>>

(* handle_indication: a frame is read and acknowledged, or none comes. *)
Receive ==
  /\ pc[poll] = "receive"
  /\ \/ LeavePoll
     \/ /\ arrived < MaxIndications
        /\ \E status \in BOOLEAN : more' = status
        /\ arrived' = arrived + 1
        /\ Goto(poll, "store")
        /\ UNCHANGED <<ring, flags, mutexes, quota, torn, process, handled, refused>>

(* onIndicationReceivedLocked, then the loop of get_indication_locked. *)
Store ==
  /\ pc[poll] = "store"
  /\ queueMutex = Free
  /\ quota' = quota - 1
  /\ LET again == more /\ quota > 1
         moved == [pc EXCEPT ![poll] = IF again THEN "receive" ELSE "loop"]
     IN  /\ sendingMutex' = IF again THEN sendingMutex ELSE Unlocked(sendingMutex, poll)
         /\ \/ /\ IsFull
               /\ refused' = refused \union {arrived}
               /\ pc' = moved
               /\ UNCHANGED ring
            \/ /\ ~IsFull
               /\ slots' = [slots EXCEPT ![write] = arrived]
               /\ write' = Successor(write)
               /\ empty' = FALSE
               /\ pc' = Signalled(moved)
               /\ UNCHANGED <<read, refused>>
  /\ UNCHANGED <<flags, queueMutex, more, torn, process, arrived, handled>>

-----------------------------------------------------------------------------
(* dispatch_indication of platform.c.                                       *)

LockQueue ==  \* at the start, in pthread_cond_wait, and after a handler
  /\ queueMutex = Free
  /\ queueMutex' = dispatch
  /\ \/ pc[dispatch] = "start" /\ Goto(dispatch, "test")
     \/ pc[dispatch] = "relock" /\ Goto(dispatch, "recheck")
     \/ pc[dispatch] = "lockQueue" /\ Goto(dispatch, "advance")
  /\ UNCHANGED <<ring, flags, sendingMutex, polling, process, history>>

(* The thread that leaves the loop keeps the queue mutex if it owns it. *)
TestRunning ==
  /\ pc[dispatch] = "test"
  /\ Goto(dispatch, IF dispatchRunning THEN "look" ELSE "done")
  /\ UNCHANGED <<ring, flags, mutexes, polling, process, history>>

(* pthread_cond_wait fails at once when the caller does not own the mutex. *)
Look ==
  /\ pc[dispatch] = "look"
  /\ \/ ~empty /\ Goto(dispatch, "take") /\ UNCHANGED mutexes
     \/ /\ empty /\ queueMutex = dispatch
        /\ queueMutex' = Free
        /\ Goto(dispatch, "waiting")
        /\ UNCHANGED sendingMutex
     \/ /\ empty /\ queueMutex # dispatch
        /\ Goto(dispatch, "recheck")
        /\ UNCHANGED mutexes
  /\ UNCHANGED <<ring, flags, polling, process, history>>

SpuriousWakeup ==
  /\ pc[dispatch] = "waiting"
  /\ Goto(dispatch, "relock")
  /\ UNCHANGED <<ring, flags, mutexes, polling, process, history>>

Recheck ==  \* woken for nothing: unlock, and go on without the lock
  /\ pc[dispatch] = "recheck"
  /\ Goto(dispatch, IF empty THEN "test" ELSE "take")
  /\ queueMutex' = IF empty THEN Unlocked(queueMutex, dispatch) ELSE queueMutex
  /\ UNCHANGED <<ring, flags, sendingMutex, polling, process, history>>

Take ==
  /\ pc[dispatch] = "take"
  /\ queueMutex' = Unlocked(queueMutex, dispatch)
  /\ Goto(dispatch, "handle")
  /\ UNCHANGED <<ring, flags, sendingMutex, polling, process, history>>

Handle ==  \* the handler may send a request to the node before it returns
  /\ pc[dispatch] = "handle"
  /\ handled' = Append(handled, slots[read])
  /\ \E next \in {"lockQueue", "lockSending"} : Goto(dispatch, next)
  /\ UNCHANGED <<ring, flags, mutexes, polling, process, arrived, refused>>

Advance ==
  /\ pc[dispatch] = "advance"
  /\ read' = Successor(read)
  /\ Goto(dispatch, "setEmpty")
  /\ UNCHANGED <<slots, write, empty, flags, mutexes, polling, process, history>>

SetEmpty ==
  /\ pc[dispatch] = "setEmpty"
  /\ empty' = IF Drained THEN TRUE ELSE empty
  /\ Goto(dispatch, "test")
  /\ UNCHANGED <<slots, write, read, flags, mutexes, polling, process, history>>

-----------------------------------------------------------------------------
(* Requests of the application and of the handlers.                         *)

StartRequest ==
  /\ pc[app] = "idle"
  /\ Goto(app, "lockSending")
  /\ UNCHANGED <<ring, flags, mutexes, polling, process, history>>

FinishRequest(t) ==
  /\ pc[t] = "request"
  /\ \/ /\ sendingMutex' = Unlocked(sendingMutex, t)
        /\ Goto(t, IF t = app THEN "idle" ELSE "lockQueue")
        /\ UNCHANGED <<ring, flags, queueMutex, polling, process, history>>
     \/ Watchdog(t)

-----------------------------------------------------------------------------
(* Platform_close, from the application or from any thread's watchdog.      *)

CallClose ==
  /\ pc[app] = "idle"
  /\ closes < MaxCloses
  /\ closes' = closes + 1
  /\ fatal' = FALSE
  /\ Goto(app, "stopDispatch")
  /\ UNCHANGED <<ring, flags, mutexes, polling, alive, history>>

StopDispatch(t) ==
  /\ pc[t] = "stopDispatch"
  /\ dispatchRunning' = FALSE
  /\ Goto(t, "signal")
  /\ UNCHANGED <<ring, pollRunning, mutexes, polling, process, history>>

Signal(t) ==
  /\ pc[t] = "signal"
  /\ pc' = Signalled([pc EXCEPT ![t] = "stopPolling"])
  /\ UNCHANGED <<ring, flags, mutexes, polling, process, history>>

StopPolling(t) ==
  /\ pc[t] = "stopPolling"
  /\ pollRunning' = FALSE
  /\ Goto(t, "joinPoll")
  /\ UNCHANGED <<ring, dispatchRunning, mutexes, polling, process, history>>

JoinLabel == [th \in {poll, dispatch} |-> IF th = poll THEN "joinPoll" ELSE "joinDispatch"]

(* pthread_join may also fail at once when the target joins the caller or   *)
(* when another thread already joins the target.                            *)
JoinNever(t, target) == TRUE
Joined(t, target) ==
  \/ t = target
  \/ pc[target] = "done"
  \/ t # app /\ pc[target] = JoinLabel[t]
  \/ \E other \in Threads \ {t, target} : pc[other] = JoinLabel[target]

JoinPoll(t) ==
  /\ pc[t] = "joinPoll"
  /\ Joined(t, poll)
  /\ Goto(t, "joinDispatch")
  /\ UNCHANGED <<ring, flags, mutexes, polling, process, history>>

JoinDispatch(t) ==
  /\ pc[t] = "joinDispatch"
  /\ Joined(t, dispatch)
  /\ Goto(t, "destroy")
  /\ UNCHANGED <<ring, flags, mutexes, polling, process, history>>

(* pthread_mutex_destroy refuses a mutex that is locked; the watchdog then  *)
(* exits the process.                                                       *)
Destroy(t) ==
  /\ pc[t] = "destroy"
  /\ alive' = (t = app /\ ~fatal)
  /\ Goto(t, "closed")
  /\ UNCHANGED <<ring, flags, mutexes, polling, fatal, closes, history>>

(* WPC_initialize after a WPC_close: Platform_init makes new mutexes and    *)
(* threads; the ring keeps what it held.  An opening beside the threads of  *)
(* the last one, which are then in a close of their own, is not modelled.   *)
Reopen ==
  /\ pc[app] = "closed"
  /\ pc[poll] = "done" /\ pc[dispatch] = "done"
  /\ queueMutex' = Free /\ sendingMutex' = Free
  /\ pollRunning' = TRUE /\ dispatchRunning' = TRUE
  /\ pc' = [pc EXCEPT ![poll] = "loop", ![dispatch] = "start", ![app] = "idle"]
  /\ UNCHANGED <<ring, polling, process, history>>

-----------------------------------------------------------------------------
PollStep == \/ PollLoop \/ SeeEmpty \/ SeeFull \/ SeeEmptyAgain \/ SeeOrder \/ SeeRoom
            \/ PollRequest \/ Receive \/ Store

DispatchStep == \/ LockQueue \/ TestRunning \/ Look \/ Recheck \/ Take \/ Handle
                \/ Advance \/ SetEmpty

CloseStep(t) == \/ StopDispatch(t) \/ Signal(t) \/ StopPolling(t)
                \/ JoinPoll(t) \/ JoinDispatch(t) \/ Destroy(t)

ThreadStep(t) == \/ t = poll /\ PollStep
                 \/ t = dispatch /\ DispatchStep
                 \/ LockSending(t)
                 \/ t # poll /\ FinishRequest(t)
                 \/ CloseStep(t)

Next == /\ alive
        /\ \/ \E t \in Threads : ThreadStep(t)
           \/ SpuriousWakeup
           \/ StartRequest \/ CallClose \/ Reopen

(* Every thread that can run does; a lock that is released again and again  *)
(* is granted: the threads that hold it sleep between two uses of it.       *)
Fairness ==
  /\ \A t \in Threads : WF_vars(alive /\ ThreadStep(t)) /\ SF_vars(alive /\ LockSending(t))
  /\ SF_vars(alive /\ LockQueue)
  /\ SF_vars(alive /\ Store)

Spec == Init /\ [][Next]_vars
FairSpec == Spec /\ Fairness
-----------------------------------------------------------------------------
(* Properties.                                                              *)

PollLabels == {"loop", "seeEmpty", "seeFull", "seeEmptyAgain", "seeOrder", "roomAhead",
               "roomBehind", "lockSending", "poll", "receive", "store", "done"}
DispatchLabels == {"start", "test", "look", "waiting", "relock", "recheck", "take", "handle",
                   "lockSending", "request", "lockQueue", "advance", "setEmpty", "done"}
AppLabels == {"idle", "lockSending", "request"}
CloseLabels == {"stopDispatch", "signal", "stopPolling", "joinPoll", "joinDispatch",
                "destroy", "closed"}
Labels == PollLabels \union DispatchLabels \union AppLabels \union CloseLabels

(* Every variable keeps its type; the indices of the ring stay in range.    *)
ControlTypes ==
  /\ pc \in [Threads -> Labels]
  /\ pc[poll] \in PollLabels \union CloseLabels
  /\ pc[dispatch] \in DispatchLabels \union CloseLabels
  /\ pc[app] \in AppLabels \union CloseLabels
DataTypes ==
  /\ slots \in [Index -> 0 .. arrived]
  /\ write \in Index /\ read \in Index /\ empty \in BOOLEAN
  /\ queueMutex \in {Free, dispatch}
  /\ sendingMutex \in Threads \union {Free}
  /\ pollRunning \in BOOLEAN /\ dispatchRunning \in BOOLEAN
  /\ quota \in 0 .. MaxNumberIndication
  /\ more \in BOOLEAN /\ torn \in BOOLEAN /\ fatal \in BOOLEAN /\ alive \in BOOLEAN
  /\ closes \in 0 .. MaxCloses
  /\ arrived \in 0 .. MaxIndications
  /\ handled \in Seq(0 .. arrived)
  /\ refused \subseteq 1 .. arrived
TypeOK == ControlTypes /\ DataTypes

(* Indications in the ring whose handler has not returned.  Between the two *)
(* stores that end a dispatch the indices already agree on an empty ring    *)
(* and m_queue_empty does not yet.                                          *)
Occupied ==
  IF empty \/ (write = read /\ pc[dispatch] = "setEmpty") THEN 0
  ELSE IF write > read THEN write - read
  ELSE QueueSize - (read - write)

(* The dispatch thread is inside m_dispatch_indication_f or owes the ring   *)
(* the update that follows it.                                              *)
Serving == pc[dispatch] \in {"lockSending", "request", "lockQueue", "advance"} \union CloseLabels

(* The poller never asks the node for more indications than the ring has    *)
(* room for, unless the dispatcher wrapped the ring between the two reads   *)
(* of m_ind_queue_read at the end of the room computation.                  *)
QuotaFits ==
  (pc[poll] \in {"lockSending", "poll", "receive", "store"} /\ ~torn)
    => quota <= QueueSize - Occupied

(* What keeps QuotaFits true from step to step: who owns which mutex where,  *)
(* what m_queue_empty says of the indices, and what the poller may still     *)
(* conclude from the reads it has made.                                      *)
PollerInv ==
  /\ pc[poll] \in {"poll", "receive", "store"} => sendingMutex = poll
  /\ pc[poll] \in {"receive", "store"} => quota > 0
  /\ pc[poll] = "store" => arrived > 0
DispatcherInv ==
  /\ pc[dispatch] \in {"advance", "setEmpty"} => queueMutex = dispatch
  /\ (Serving \/ pc[dispatch] \in {"take", "handle", "setEmpty"}) => ~empty
  /\ empty => read = write
RoomInv ==
  pc[poll] = "roomAhead" => (read <= write /\ (read = write => Occupied = 0))
RingInv == PollerInv /\ DispatcherInv /\ RoomInv

(* An indication that was acknowledged to the node is dropped only by a     *)
(* poll whose quota comes from such a torn read.                            *)
LossOnlyWhenTorn == [][refused' # refused => torn]_vars

(* While a handler works through its pointer into the ring, the polling     *)
(* thread does not overwrite that slot.                                     *)
SlotInUseUntouched == [][Serving => slots'[read] = slots[read]]_vars

(* Once WPC_close returned to the application, nobody owns the sending      *)
(* mutex and both threads have ended, so the library may be opened again;   *)
(* unless the watchdog fired in both, so that each joined the other and     *)
(* neither join of the application had to wait.                             *)
Ended(t) == pc[t] = "done"
InClose(t) == pc[t] \in CloseLabels
QuietAfterClose ==
  pc[app] = "closed" =>
    /\ sendingMutex = Free
    /\ (Ended(poll) /\ Ended(dispatch)) \/ (InClose(poll) /\ InClose(dispatch))

(* The ring, its locks and its threads behave as the bounded fifo: nothing  *)
(* is reordered, duplicated, overwritten or forgotten, across wraps and     *)
(* across a close and a reopen.                                             *)
LastTaken == IF pc[poll] = "store" THEN arrived - 1 ELSE arrived
Contents == [i \in 1 .. Occupied |-> slots[(read + i - 1) % QueueSize]]
Fifo == INSTANCE IndicationFifo WITH
  Capacity <- QueueSize, last <- LastTaken, fifo <- Contents, serving <- Serving
ImplementsFifo == Fifo!Spec

(* As long as nobody closes the library, every stored indication reaches    *)
(* its handler.                                                             *)
StoredIsHandled ==
  \A i \in 1 .. MaxIndications :
    (pc[poll] # "store" /\ arrived >= i /\ i \notin refused)
      ~> ((\E k \in 1 .. Len(handled) : handled[k] = i) \/ closes > 0)

(* "No more room for indications! Must never happen!" never happens.        *)
RoomMustNeverRunOut == refused = {}

(* A close that was begun ends: WPC_close returns or the process exits.     *)
CloseReturns ==
  \A t \in Threads : pc[t] = "stopDispatch" ~> (pc[t] = "closed" \/ ~alive)
=============================================================================
