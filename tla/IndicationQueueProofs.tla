----------------------- MODULE IndicationQueueProofs ------------------------
(***************************************************************************)
(* For every queue size, every number of indications and of closes: the    *)
(* variables keep their types, the poller never asks for more than the     *)
(* ring holds unless it read m_ind_queue_read across a wrap, only such a   *)
(* torn read loses an indication, the slot a handler works on is not       *)
(* overwritten, all is quiet after a close, and the ring implements the    *)
(* bounded fifo.                                                           *)
(***************************************************************************)
EXTENDS IndicationQueue, SequenceTheorems, TLAPS

(* The next index of the ring, without the modulus. *)
LEMMA SuccessorInIndex ==
  ASSUME NEW i \in Index
  PROVE  /\ Successor(i) = IF i = QueueSize - 1 THEN 0 ELSE i + 1
         /\ Successor(i) \in Index
<1> USE QueueAssumption DEF QueueSize, Index, Successor
<1>1. CASE i = QueueSize - 1
  BY <1>1
<1>2. CASE i # QueueSize - 1
  <2>1. i + 1 \in 0 .. QueueSize - 1
    BY <1>2
  <2>2. QED
    BY <2>1, <1>2
<1>3. QED
  BY <1>1, <1>2

(* The number of stored indications never exceeds the ring. *)
LEMMA OccupiedRange == TypeOK => Occupied \in 0 .. QueueSize
  BY QueueAssumption DEF TypeOK, DataTypes, Occupied, QueueSize, Index

(* Steps that touch neither the ring nor the window of SetEmpty leave the   *)
(* occupation as it is.                                                     *)
LEMMA OccupiedFrame ==
  ASSUME UNCHANGED ring, (pc[dispatch] = "setEmpty") <=> (pc'[dispatch] = "setEmpty")
  PROVE  Occupied' = Occupied
  BY DEF ring, Occupied

(* A dispatched indication gives its slot back. *)
LEMMA OccupiedAdvance ==
  ASSUME TypeOK, RingInv, Advance
  PROVE  /\ Occupied > 0
         /\ Occupied' = Occupied - 1
         /\ read' = write => Occupied' = 0
<1>1. read' = IF read = QueueSize - 1 THEN 0 ELSE read + 1
  BY SuccessorInIndex DEF Advance, TypeOK, DataTypes
<1>2. /\ ~empty /\ empty' = empty /\ write' = write
      /\ pc[dispatch] = "advance" /\ pc'[dispatch] = "setEmpty"
  BY DEF Advance, Goto, TypeOK, ControlTypes, RingInv, DispatcherInv, Serving, dispatch, Threads
<1>3. /\ write \in 0 .. QueueSize - 1 /\ read \in 0 .. QueueSize - 1
      /\ QueueSize \in Nat /\ QueueSize >= 2
  BY QueueAssumption DEF TypeOK, DataTypes, Index, QueueSize
<1>4. Occupied = IF write > read THEN write - read ELSE QueueSize - (read - write)
  BY <1>2, <1>3 DEF Occupied
<1>5. Occupied' = IF write > read' THEN write - read'
                  ELSE IF write = read' THEN 0 ELSE QueueSize - (read' - write)
  BY <1>1, <1>2, <1>3 DEF Occupied
<1>6. QED
  BY <1>1, <1>3, <1>4, <1>5

(* The end of a dispatch only makes m_queue_empty agree with the indices. *)
LEMMA OccupiedSetEmpty ==
  ASSUME TypeOK, RingInv, SetEmpty
  PROVE  Occupied' = Occupied
<1>1. /\ ~empty /\ read' = read /\ write' = write
      /\ empty' = IF read = write THEN TRUE ELSE empty
      /\ pc[dispatch] = "setEmpty" /\ pc'[dispatch] # "setEmpty"
  BY DEF SetEmpty, Drained, Goto, TypeOK, ControlTypes, RingInv, DispatcherInv, dispatch, Threads
<1>2. write \in Int /\ read \in Int /\ QueueSize \in Int
  BY QueueAssumption DEF TypeOK, DataTypes, Index, QueueSize
<1>3. QED
  BY <1>1, <1>2 DEF Occupied

(* A store outside a full ring takes one slot. *)
LEMMA OccupiedStore ==
  ASSUME TypeOK, RingInv, Store, ~IsFull, write' = Successor(write), empty' = FALSE,
         read' = read, pc'[dispatch] # "setEmpty"
  PROVE  /\ Occupied < QueueSize
         /\ Occupied' = Occupied + 1
<1>1. write' = IF write = QueueSize - 1 THEN 0 ELSE write + 1
  BY SuccessorInIndex DEF TypeOK, DataTypes
<1>2. /\ write \in 0 .. QueueSize - 1 /\ read \in 0 .. QueueSize - 1
      /\ QueueSize \in Nat /\ QueueSize >= 2
  BY QueueAssumption DEF TypeOK, DataTypes, Index, QueueSize
<1>3. pc[dispatch] # "setEmpty"
  BY DEF Store, RingInv, DispatcherInv, Free, dispatch
<1>4. Occupied = IF empty THEN 0 ELSE IF write > read THEN write - read
                 ELSE QueueSize - (read - write)
  BY <1>2, <1>3 DEF Occupied
<1>5. Occupied' = IF write' > read THEN write' - read ELSE QueueSize - (read - write')
  BY <1>1, <1>2 DEF Occupied
<1>6. (empty => read = write) /\ ~(~empty /\ write = read)
  BY DEF RingInv, DispatcherInv, IsFull
<1>7. QED
  BY <1>1, <1>2, <1>4, <1>5, <1>6
-----------------------------------------------------------------------------
(* The initial state satisfies the inductive invariant. *)
LEMMA InitInv == Init => TypeOK /\ RingInv /\ QuotaFits
<1> SUFFICES ASSUME Init PROVE TypeOK /\ RingInv /\ QuotaFits
  OBVIOUS
<1>1. pc[poll] = "loop" /\ pc[dispatch] = "start" /\ pc[app] = "idle"
  BY DEF Init, Threads, poll, dispatch, app
<1>2. ControlTypes
  <2>1. {"loop", "start", "idle"} \subseteq Labels
    BY DEF Labels, PollLabels, DispatchLabels, AppLabels
  <2>2. pc \in [Threads -> Labels]
    BY <2>1 DEF Init
  <2>3. QED
    BY <1>1, <2>2 DEF ControlTypes, PollLabels, DispatchLabels, AppLabels
<1>3. DataTypes
  <2>1. write \in Index /\ slots \in [Index -> 0 .. arrived]
    BY QueueAssumption DEF Init, Index, QueueSize
  <2>2. handled \in Seq(0 .. arrived) /\ refused \subseteq 1 .. arrived
    BY DEF Init
  <2>3. quota \in 0 .. MaxNumberIndication /\ closes \in 0 .. MaxCloses
        /\ arrived \in 0 .. MaxIndications
    BY QueueAssumption DEF Init
  <2>4. QED
    BY <2>1, <2>2, <2>3 DEF Init, DataTypes
<1>4. RingInv /\ QuotaFits
  BY <1>1 DEF Init, RingInv, PollerInv, DispatcherInv, RoomInv, QuotaFits, Serving, CloseLabels
<1>5. QED
  BY <1>2, <1>3, <1>4 DEF TypeOK

(* The labels a thread may be at. *)
Own(t) == CloseLabels \union
          (IF t = poll THEN PollLabels ELSE IF t = dispatch THEN DispatchLabels ELSE AppLabels)

(* A thread that moves to a label of its own leaves the others where they are. *)
LEMMA GotoMoves ==
  ASSUME ControlTypes, NEW t \in Threads, NEW label \in Own(t), Goto(t, label)
  PROVE  /\ ControlTypes'
         /\ pc'[t] = label
         /\ \A u \in Threads \ {t} : pc'[u] = pc[u]
<1>1. label \in Labels
  BY DEF Own, Labels
<1>2. /\ pc' \in [Threads -> Labels]
      /\ pc'[t] = label
      /\ \A u \in Threads \ {t} : pc'[u] = pc[u]
  BY <1>1 DEF ControlTypes, Goto
<1>3. QED
  BY <1>2 DEF ControlTypes, Own, Threads, poll, dispatch, app

(* pthread_cond_signal moves a waiting dispatcher and nobody else. *)
LEMMA SignalMoves ==
  ASSUME ControlTypes, NEW t \in Threads, NEW label \in Own(t),
         pc' = Signalled([pc EXCEPT ![t] = label]), t # dispatch \/ label # "waiting"
  PROVE  /\ ControlTypes'
         /\ pc'[t] = label
         /\ \A u \in Threads \ {t} :
              pc'[u] = IF u = dispatch /\ pc[u] = "waiting" THEN "relock" ELSE pc[u]
<1> DEFINE moved == [pc EXCEPT ![t] = label]
<1>1. label \in Labels /\ "relock" \in Labels /\ "relock" \in DispatchLabels
  BY DEF Own, Labels, DispatchLabels
<1>2. moved \in [Threads -> Labels] /\ moved[t] = label
      /\ \A u \in Threads \ {t} : moved[u] = pc[u]
  BY <1>1 DEF ControlTypes
<1>3. pc' = [moved EXCEPT ![dispatch] = IF moved[dispatch] = "waiting" THEN "relock" ELSE moved[dispatch]]
  BY DEF Signalled
<1> HIDE DEF moved
<1>4. /\ pc' \in [Threads -> Labels]
      /\ pc'[dispatch] = IF moved[dispatch] = "waiting" THEN "relock" ELSE moved[dispatch]
      /\ \A u \in Threads \ {dispatch} : pc'[u] = moved[u]
  BY <1>1, <1>2, <1>3 DEF Threads
<1>5. /\ pc'[t] = label
      /\ \A u \in Threads \ {t} :
           pc'[u] = IF u = dispatch /\ pc[u] = "waiting" THEN "relock" ELSE pc[u]
  BY <1>2, <1>4 DEF Threads
<1>6. QED
  BY <1>1, <1>4, <1>5 DEF ControlTypes, Own, Threads, poll, dispatch, app
(* Every action keeps each thread at one of its own labels. *)
LEMMA ControlStep == ControlTypes /\ [Next]_vars => ControlTypes'
<1> SUFFICES ASSUME ControlTypes, [Next]_vars
             PROVE  ControlTypes'
  OBVIOUS
<1> USE DEF PollLabels, DispatchLabels, AppLabels, CloseLabels
<1>1. ASSUME NEW label \in PollLabels \union CloseLabels, Goto(poll, label)
      PROVE  ControlTypes'
  BY <1>1, GotoMoves DEF Own, Threads
<1>2. ASSUME NEW label \in DispatchLabels \union CloseLabels, Goto(dispatch, label)
      PROVE  ControlTypes'
  BY <1>2, GotoMoves DEF Own, Threads, poll, dispatch
<1>3. ASSUME NEW label \in AppLabels \union CloseLabels, Goto(app, label)
      PROVE  ControlTypes'
  BY <1>3, GotoMoves DEF Own, Threads, poll, dispatch, app
<1>4. ASSUME NEW t \in Threads, NEW label \in CloseLabels, Goto(t, label)
      PROVE  ControlTypes'
  BY <1>1, <1>2, <1>3, <1>4 DEF Threads
<1> HIDE DEF PollLabels, DispatchLabels, AppLabels, CloseLabels
<1>5. ASSUME NEW t \in Threads, Watchdog(t)
      PROVE  ControlTypes'
  BY <1>4, <1>5 DEF Watchdog, CloseLabels
<1>6. CASE PollLoop \/ SeeEmpty \/ SeeFull \/ SeeEmptyAgain \/ SeeOrder \/ SeeRoom
  <2>1. \E label \in PollLabels : Goto(poll, label)
    BY <1>6 DEF PollLoop, SeeEmpty, SeeFull, SeeOrder, SeeEmptyAgain, SeeRoom, Ask, PollLabels
  <2>2. QED
    BY <1>1, <2>1
<1>7. CASE PollRequest \/ Receive
  <2>1. (\E label \in PollLabels : Goto(poll, label)) \/ Watchdog(poll)
    BY <1>7 DEF PollRequest, Receive, LeavePoll, PollLabels
  <2>2. QED
    BY <1>1, <1>5, <2>1 DEF Threads
<1>8. CASE Store
  <2> DEFINE label == IF more /\ quota > 1 THEN "receive" ELSE "loop"
  <2>1. Goto(poll, label) \/ pc' = Signalled([pc EXCEPT ![poll] = label])
    BY <1>8, Zenon DEF Store, Goto
  <2>2. label \in Own(poll) /\ label \in PollLabels
    BY DEF Own, PollLabels
  <2> HIDE DEF label
  <2>3. QED
    BY <1>1, <2>1, <2>2, SignalMoves DEF Threads, poll, dispatch
<1>9. CASE LockQueue \/ TestRunning \/ Look \/ SpuriousWakeup \/ Recheck \/ Take \/ Handle
           \/ Advance \/ SetEmpty
  <2>1. \E label \in DispatchLabels : Goto(dispatch, label)
    BY <1>9 DEF LockQueue, TestRunning, Look, SpuriousWakeup, Recheck, Take, Handle,
       Advance, SetEmpty, DispatchLabels
  <2>2. QED
    BY <1>2, <2>1
<1>10. CASE StartRequest \/ CallClose
  BY <1>3, <1>10 DEF StartRequest, CallClose, AppLabels, CloseLabels
<1>11. CASE Reopen
  BY <1>11 DEF Reopen, ControlTypes, Threads, poll, dispatch, app, Labels, PollLabels,
     DispatchLabels, AppLabels
<1>12. ASSUME NEW t \in Threads, LockSending(t)
       PROVE  ControlTypes'
  <2>1. CASE t = poll
    BY <1>1, <1>12, <2>1 DEF LockSending, PollLabels
  <2>2. CASE t = dispatch
    BY <1>2, <1>12, <2>2 DEF LockSending, DispatchLabels, poll, dispatch
  <2>3. CASE t = app
    BY <1>3, <1>12, <2>3 DEF LockSending, AppLabels, poll, app
  <2>4. QED
    BY <2>1, <2>2, <2>3 DEF Threads
<1>13. ASSUME NEW t \in Threads, t # poll, FinishRequest(t)
       PROVE  ControlTypes'
  <2>1. CASE t = dispatch
    BY <1>2, <1>5, <1>13, <2>1 DEF FinishRequest, DispatchLabels, dispatch, app
  <2>2. CASE t = app
    BY <1>3, <1>5, <1>13, <2>2 DEF FinishRequest, AppLabels
  <2>3. QED
    BY <1>13, <2>1, <2>2 DEF Threads
<1>14. ASSUME NEW t \in Threads, CloseStep(t)
       PROVE  ControlTypes'
  <2>1. CASE Signal(t)
    <3>1. "stopPolling" \in Own(t)
      BY DEF Own, CloseLabels
    <3>2. QED
      BY <2>1, <3>1, SignalMoves DEF Signal
  <2>2. CASE ~Signal(t)
    BY <1>4, <1>14, <2>2
       DEF CloseStep, StopDispatch, StopPolling, JoinPoll, JoinDispatch, Destroy, CloseLabels
  <2>3. QED
    BY <2>1, <2>2
<1>15. CASE UNCHANGED vars
  BY <1>15 DEF vars, ControlTypes
<1>16. QED
  BY <1>6, <1>7, <1>8, <1>9, <1>10, <1>11, <1>12, <1>13, <1>14, <1>15
     DEF Next, ThreadStep, PollStep, DispatchStep
(* The room computed without a torn read fits a ring of QueueSize slots, and *)
(* what is asked for never exceeds MaxNumberIndication.                      *)
LEMMA RoomTypes ==
  ASSUME TypeOK, RingInv
  PROVE  /\ RoomBehind \in Nat
         /\ pc[poll] = "roomAhead" => RoomAhead \in 0 .. QueueSize
<1>1. /\ write \in 0 .. QueueSize - 1 /\ read \in 0 .. QueueSize - 1
      /\ QueueSize \in Nat /\ UIntRange \in Nat /\ UIntRange >= 2 * QueueSize
  BY QueueAssumption DEF TypeOK, DataTypes, Index, QueueSize
<1>2. RoomBehind \in Nat
  BY <1>1 DEF RoomBehind, UIntSub
<1>3. pc[poll] = "roomAhead" => read <= write
  BY DEF RingInv, RoomInv
<1>4. QED
  BY <1>1, <1>2, <1>3 DEF RoomAhead

LEMMA AtMostMaxRange ==
  ASSUME NEW room \in Nat
  PROVE  AtMostMax(room) \in 0 .. MaxNumberIndication /\ AtMostMax(room) <= room
  BY QueueAssumption DEF AtMostMax

(* Every action keeps the types of the data. *)
LEMMA DataStep == TypeOK /\ RingInv /\ [Next]_vars => DataTypes'
<1> SUFFICES ASSUME TypeOK, RingInv, [Next]_vars
             PROVE  DataTypes'
  OBVIOUS
<1>a. DataTypes
  BY DEF TypeOK
<1> USE <1>a DEF ring, flags, mutexes, polling, process, history
<1>1. ASSUME UNCHANGED <<ring, flags, mutexes, polling, process, history>>
      PROVE  DataTypes'
  BY <1>1 DEF DataTypes
<1>2. ASSUME NEW room \in Nat, NEW isTorn \in BOOLEAN, Ask(room, isTorn)
      PROVE  DataTypes'
  BY <1>2, AtMostMaxRange DEF Ask, DataTypes
<1>3. CASE SeeEmptyAgain \/ SeeRoom
  <2>1. QueueSize \in Nat
    BY QueueAssumption DEF QueueSize
  <2>2. (read < write) \in BOOLEAN
    OBVIOUS
  <2>3. SeeEmptyAgain => DataTypes'
    BY <1>1, <1>2, <2>1 DEF SeeEmptyAgain
  <2>4. pc[poll] = "roomAhead" => RoomAhead \in Nat
    BY <2>1, RoomTypes
  <2>5. SeeRoom => DataTypes'
    BY <1>2, <2>2, <2>4, RoomTypes DEF SeeRoom
  <2>6. QED
    BY <1>3, <2>3, <2>5
<1>4. CASE PollLoop \/ SeeEmpty \/ SeeFull \/ SeeOrder \/ TestRunning \/ SpuriousWakeup
           \/ StartRequest
  BY <1>1, <1>4 DEF PollLoop, SeeEmpty, SeeFull, SeeOrder, TestRunning, SpuriousWakeup,
     StartRequest
<1>5. ASSUME NEW t \in Threads,
             UNCHANGED <<ring, flags, queueMutex, polling, process, history>>,
             sendingMutex' \in {t, Unlocked(sendingMutex, t)}
      PROVE  DataTypes'
  BY <1>5 DEF DataTypes, Unlocked
<1>6. ASSUME UNCHANGED <<ring, flags, sendingMutex, polling, process, history>>,
             queueMutex' \in {queueMutex, dispatch, Free}
      PROVE  DataTypes'
  BY <1>6 DEF DataTypes
<1>7. ASSUME NEW t \in Threads, Watchdog(t)
      PROVE  DataTypes'
  <2>1. closes' \in 0 .. MaxCloses
    BY <1>7, QueueAssumption DEF Watchdog, DataTypes
  <2>2. sendingMutex' \in Threads \union {Free} /\ fatal' \in BOOLEAN
    BY <1>7 DEF Watchdog, DataTypes, Unlocked
  <2>3. QED
    BY <1>7, <2>1, <2>2 DEF Watchdog, DataTypes
<1>8. CASE PollRequest
  BY <1>1, <1>5, <1>7, <1>8 DEF PollRequest, LeavePoll, Threads
<1>9. CASE Receive
  <2>1. CASE LeavePoll
    BY <1>5, <2>1 DEF LeavePoll, Threads
  <2>2. CASE ~LeavePoll
    <3>1. /\ arrived' = arrived + 1 /\ arrived < MaxIndications /\ more' \in BOOLEAN
          /\ UNCHANGED <<ring, flags, mutexes, quota, torn, process, handled, refused>>
      BY <1>9, <2>2 DEF Receive
    <3>2. /\ arrived' \in 0 .. MaxIndications /\ 0 .. arrived \subseteq 0 .. arrived'
          /\ 1 .. arrived \subseteq 1 .. arrived'
      BY <3>1, QueueAssumption DEF DataTypes
    <3>3. handled' \in Seq(0 .. arrived') /\ refused' \subseteq 1 .. arrived'
      BY <3>1, <3>2 DEF DataTypes
    <3>4. slots' \in [Index -> 0 .. arrived']
      BY <3>1, <3>2 DEF DataTypes
    <3>5. QED
      BY <3>1, <3>2, <3>3, <3>4 DEF DataTypes
  <2>3. QED
    BY <2>1, <2>2
<1>10. CASE Store
  <2>1. quota' \in 0 .. MaxNumberIndication /\ arrived > 0
    <3>1. quota > 0 /\ arrived > 0 /\ quota' = quota - 1
      BY <1>10 DEF Store, RingInv, PollerInv
    <3>2. QED
      BY <3>1, QueueAssumption DEF DataTypes
  <2>2. sendingMutex' \in Threads \union {Free}
    <3>1. sendingMutex' = sendingMutex \/ sendingMutex' = Unlocked(sendingMutex, poll)
      BY <1>10, Zenon DEF Store
    <3>2. QED
      BY <3>1 DEF DataTypes, Unlocked
  <2>3. refused' \subseteq 1 .. arrived
    <3>1. refused' = refused \/ refused' = refused \union {arrived}
      BY <1>10, Zenon DEF Store
    <3>2. arrived \in 1 .. arrived /\ refused \subseteq 1 .. arrived
      BY <2>1, QueueAssumption DEF DataTypes
    <3>3. QED
      BY <3>1, <3>2
  <2>4. slots' \in [Index -> 0 .. arrived]
    <3>1. slots' = slots \/ slots' = [slots EXCEPT ![write] = arrived]
      BY <1>10, Zenon DEF Store
    <3>2. QED
      BY <3>1 DEF DataTypes
  <2>5. Successor(write) \in Index
    BY SuccessorInIndex DEF DataTypes
  <2>6. write' \in Index /\ read' = read /\ empty' \in BOOLEAN
    <3>1. read' = read /\ (write' = write \/ write' = Successor(write))
          /\ (empty' = empty \/ empty' = FALSE)
      BY <1>10, Zenon DEF Store
    <3>2. QED
      BY <2>5, <3>1 DEF DataTypes
  <2>7. UNCHANGED <<flags, queueMutex, more, torn, process, arrived, handled>>
    BY <1>10 DEF Store
  <2>8. QED
    BY <2>1, <2>2, <2>3, <2>4, <2>6, <2>7 DEF DataTypes
<1>11. CASE LockQueue \/ Look \/ Recheck \/ Take
  BY <1>6, <1>11 DEF LockQueue, Look, Recheck, Take, Unlocked
<1>12. CASE Handle
  <2>1. slots[read] \in 0 .. arrived
    BY DEF DataTypes
  <2>2. handled' \in Seq(0 .. arrived)
    BY <1>12, <2>1 DEF Handle, DataTypes
  <2>3. QED
    BY <1>12, <2>2 DEF Handle, DataTypes
<1>13. CASE Advance \/ SetEmpty
  <2>1. Successor(read) \in Index
    BY SuccessorInIndex DEF DataTypes
  <2>2. QED
    BY <1>13, <2>1 DEF Advance, SetEmpty, DataTypes
<1>14. CASE CallClose
  <2>1. closes' \in 0 .. MaxCloses
    BY <1>14, QueueAssumption DEF CallClose, DataTypes
  <2>2. QED
    BY <1>14, <2>1 DEF CallClose, DataTypes
<1>15. CASE Reopen
  BY <1>15 DEF Reopen, DataTypes
<1>16. ASSUME NEW t \in Threads, LockSending(t)
       PROVE  DataTypes'
  BY <1>5, <1>16 DEF LockSending
<1>17. ASSUME NEW t \in Threads, FinishRequest(t)
       PROVE  DataTypes'
  BY <1>5, <1>7, <1>17 DEF FinishRequest
<1>18. ASSUME NEW t \in Threads, CloseStep(t)
       PROVE  DataTypes'
  <2>1. CASE Signal(t) \/ JoinPoll(t) \/ JoinDispatch(t)
    BY <1>1, <2>1 DEF Signal, JoinPoll, JoinDispatch
  <2>2. CASE StopDispatch(t) \/ StopPolling(t) \/ Destroy(t)
    BY <2>2 DEF StopDispatch, StopPolling, Destroy, DataTypes
  <2>3. QED
    BY <1>18, <2>1, <2>2 DEF CloseStep
<1>19. CASE UNCHANGED vars
  BY <1>1, <1>19 DEF vars
<1>20. QED
  BY <1>3, <1>4, <1>8, <1>9, <1>10, <1>11, <1>12, <1>13, <1>14, <1>15, <1>16, <1>17, <1>18,
     <1>19
     DEF Next, ThreadStep, PollStep, DispatchStep
(* A step of the poller outside Store does not disturb what is known of the *)
(* dispatcher.                                                              *)
LEMMA DispatcherStays ==
  ASSUME RingInv, UNCHANGED <<ring, queueMutex>>, pc'[dispatch] = pc[dispatch]
  PROVE  DispatcherInv' /\ Occupied' = Occupied
  BY OccupiedFrame DEF RingInv, DispatcherInv, Serving, ring

(* A step of another thread does not disturb what is known of the poller.   *)
LEMMA PollerStays ==
  ASSUME RingInv, QuotaFits, UNCHANGED <<read, write, quota, torn, arrived>>,
         pc'[poll] = pc[poll], Occupied' = Occupied, sendingMutex = poll => sendingMutex' = poll
  PROVE  PollerInv' /\ RoomInv' /\ QuotaFits'
  BY DEF RingInv, PollerInv, RoomInv, QuotaFits, QueueSize

(* Every action keeps RingInv and QuotaFits. *)
LEMMA RingStep == TypeOK /\ RingInv /\ QuotaFits /\ [Next]_vars => RingInv' /\ QuotaFits'
<1> SUFFICES ASSUME TypeOK, RingInv, QuotaFits, [Next]_vars
             PROVE  PollerInv' /\ DispatcherInv' /\ RoomInv' /\ QuotaFits'
  BY DEF RingInv
<1> DEFINE Goal == PollerInv' /\ DispatcherInv' /\ RoomInv' /\ QuotaFits'
<1>b. ControlTypes /\ DataTypes /\ ControlTypes'
  BY ControlStep DEF TypeOK
<1>c. /\ QueueSize \in Nat /\ Occupied \in 0 .. QueueSize
      /\ read \in 0 .. QueueSize - 1 /\ write \in 0 .. QueueSize - 1
  BY QueueAssumption, OccupiedRange, <1>b DEF QueueSize, DataTypes, Index
<1>d. poll # dispatch /\ poll # app /\ dispatch # app
  BY DEF poll, dispatch, app
<1>1. ASSUME UNCHANGED <<ring, flags, mutexes, polling, process, history>>,
             pc'[poll] = pc[poll], pc'[dispatch] = pc[dispatch]
      PROVE  Goal
  BY <1>1, DispatcherStays, PollerStays DEF ring, mutexes, polling, history
<1>2. ASSUME NEW label, pc'[poll] = label, pc'[dispatch] = pc[dispatch],
             label \notin {"roomAhead", "lockSending", "poll", "receive", "store"},
             UNCHANGED <<ring, queueMutex>>
      PROVE  Goal
  BY <1>2, DispatcherStays DEF PollerInv, RoomInv, QuotaFits
<1>3. ASSUME NEW label \in PollLabels \union CloseLabels, Goto(poll, label)
      PROVE  pc'[poll] = label /\ pc'[dispatch] = pc[dispatch]
  BY <1>3, <1>b, <1>d, GotoMoves DEF Own, Threads
<1>4. CASE PollLoop \/ SeeEmpty \/ SeeFull
  <2>1. PICK label \in {"done", "seeEmpty", "seeEmptyAgain", "seeFull", "loop"} : Goto(poll, label)
    BY <1>4 DEF PollLoop, SeeEmpty, SeeFull
  <2>2. pc'[poll] = label /\ pc'[dispatch] = pc[dispatch]
    BY <1>3, <2>1 DEF PollLabels
  <2>3. UNCHANGED <<ring, queueMutex>>
    BY <1>4 DEF PollLoop, SeeEmpty, SeeFull, mutexes
  <2>4. QED
    BY <1>2, <2>1, <2>2, <2>3
<1>5. ASSUME NEW room \in Nat, NEW isTorn \in BOOLEAN, Ask(room, isTorn),
             ~isTorn => room <= QueueSize - Occupied
      PROVE  Goal
  <2>1. pc'[poll] = "lockSending" /\ pc'[dispatch] = pc[dispatch]
    BY <1>3, <1>5 DEF Ask, PollLabels
  <2>2. UNCHANGED <<ring, queueMutex>> /\ quota' = AtMostMax(room) /\ torn' = isTorn
    BY <1>5 DEF Ask, mutexes
  <2>3. DispatcherInv' /\ Occupied' = Occupied
    BY <2>1, <2>2, DispatcherStays
  <2>4. AtMostMax(room) \in Nat /\ AtMostMax(room) <= room
    BY AtMostMaxRange, QueueAssumption
  <2>5. QuotaFits'
    BY <1>c, <1>5, <2>2, <2>3, <2>4 DEF QuotaFits, QueueSize
  <2>6. QED
    BY <2>1, <2>3, <2>5 DEF PollerInv, RoomInv
<1>6. CASE SeeEmptyAgain
  <2>1. CASE empty /\ Ask(QueueSize, FALSE)
    <3>1. Occupied = 0
      BY <2>1 DEF Occupied
    <3>2. QueueSize \in Nat /\ QueueSize <= QueueSize - Occupied
      BY <1>c, <3>1
    <3>3. QED
      BY <1>5, <2>1, <3>2
  <2>2. CASE ~empty /\ Goto(poll, "seeOrder") /\ UNCHANGED <<ring, mutexes>>
    <3>1. pc'[poll] = "seeOrder" /\ pc'[dispatch] = pc[dispatch]
      BY <1>3, <2>2 DEF PollLabels
    <3>2. QED
      BY <1>2, <2>2, <3>1 DEF mutexes
  <2>3. QED
    BY <1>6, <2>1, <2>2 DEF SeeEmptyAgain
<1>7. CASE SeeOrder
  <2>1. UNCHANGED <<ring, queueMutex>>
    BY <1>7 DEF SeeOrder, mutexes
  <2>2. CASE write > read
    <3>1. pc'[poll] = "roomAhead" /\ pc'[dispatch] = pc[dispatch]
      BY <1>3, <1>7, <2>2 DEF SeeOrder, PollLabels
    <3>2. RoomInv'
      BY <1>c, <2>1, <2>2 DEF RoomInv, ring
    <3>3. QED
      BY <2>1, <3>1, <3>2, DispatcherStays DEF PollerInv, QuotaFits
  <2>3. CASE ~(write > read)
    <3>1. pc'[poll] = "roomBehind" /\ pc'[dispatch] = pc[dispatch]
      BY <1>3, <1>7, <2>3 DEF SeeOrder, PollLabels
    <3>2. QED
      BY <1>2, <2>1, <3>1
  <2>4. QED
    BY <2>2, <2>3
<1>8. CASE SeeRoom
  <2>1. CASE pc[poll] = "roomAhead" /\ Ask(RoomAhead, FALSE)
    <3>1. read <= write /\ (read = write => Occupied = 0)
      BY <2>1 DEF RingInv, RoomInv
    <3>2. Occupied <= write - read
      BY <1>c, <3>1 DEF Occupied
    <3>3. RoomAhead \in Nat /\ RoomAhead <= QueueSize - Occupied
      BY <1>c, <3>1, <3>2 DEF RoomAhead
    <3>4. QED
      BY <1>5, <2>1, <3>3
  <2>2. CASE pc[poll] = "roomBehind" /\ Ask(RoomBehind, read < write)
    <3>1. ASSUME read >= write
          PROVE  RoomBehind <= QueueSize - Occupied
      <4>1. RoomBehind = read - write
        BY <3>1 DEF RoomBehind, UIntSub
      <4>2. Occupied <= QueueSize - (read - write)
        BY <1>c, <3>1 DEF Occupied, RingInv, DispatcherInv
      <4>3. QED
        BY <1>c, <4>1, <4>2
    <3>2. RoomBehind \in Nat
      BY RoomTypes
    <3>3. ~(read < write) => RoomBehind <= QueueSize - Occupied
      BY <1>c, <3>1
    <3>4. (read < write) \in BOOLEAN
      BY <1>c
    <3>5. QED
      BY <1>5, <2>2, <3>2, <3>3, <3>4
  <2>3. QED
    BY <1>8, <2>1, <2>2 DEF SeeRoom
<1>9. ASSUME NEW t \in Threads, NEW label \in Own(t), Goto(t, label), t # poll
      PROVE  pc'[poll] = pc[poll] /\ pc'[t] = label
  BY <1>9, <1>b, GotoMoves DEF Threads
<1>10. ASSUME NEW label, pc'[dispatch] = label, pc'[poll] = pc[poll],
              Serving' => Serving \/ pc[dispatch] \in {"take", "handle", "setEmpty"},
              label \in {"take", "handle", "setEmpty"} =>
                ~empty \/ Serving \/ pc[dispatch] \in {"take", "handle", "setEmpty"},
              label \in {"advance", "setEmpty"} => queueMutex' = dispatch,
              Occupied' = Occupied,
              UNCHANGED <<ring, quota, torn, arrived>>,
              sendingMutex = poll => sendingMutex' = poll
       PROVE  Goal
  <2>1. PollerInv' /\ RoomInv' /\ QuotaFits'
    BY <1>10, PollerStays DEF ring
  <2>2. DispatcherInv'
    BY <1>10 DEF RingInv, DispatcherInv, ring
  <2>3. QED
    BY <2>1, <2>2
<1>11. ASSUME NEW t \in Threads, LockSending(t)
       PROVE  Goal
  <2>1. UNCHANGED <<ring, queueMutex, quota, torn, arrived>> /\ sendingMutex = Free /\ sendingMutex' = t
        /\ pc[t] = "lockSending"
    BY <1>11 DEF LockSending, polling, history
  <2>2. CASE t = poll
    <3>1. pc'[poll] = "poll" /\ pc'[dispatch] = pc[dispatch]
      BY <1>3, <1>11, <2>2 DEF LockSending, PollLabels
    <3>2. DispatcherInv' /\ Occupied' = Occupied
      BY <2>1, <3>1, DispatcherStays
    <3>3. QuotaFits'
      BY <2>1, <2>2, <3>2 DEF QuotaFits, QueueSize
    <3>4. QED
      BY <2>1, <2>2, <3>1, <3>2, <3>3 DEF PollerInv, RoomInv
  <2>3. CASE t = dispatch
    <3>1. pc'[poll] = pc[poll] /\ pc'[dispatch] = "request"
      BY <1>9, <1>11, <1>d, <2>3 DEF LockSending, Own, DispatchLabels
    <3>2. Occupied' = Occupied
      BY <2>1, <2>3, <3>1, OccupiedFrame
    <3>3. Serving
      BY <2>1, <2>3 DEF Serving
    <3>4. QED
      BY <1>10, <2>1, <3>1, <3>2, <3>3 DEF Free, poll
  <2>4. CASE t = app
    <3>1. pc'[poll] = pc[poll] /\ pc'[dispatch] = pc[dispatch]
      BY <1>11, <1>b, <1>d, <2>4, GotoMoves DEF LockSending, Own, AppLabels, Threads
    <3>2. DispatcherInv' /\ Occupied' = Occupied
      BY <2>1, <3>1, DispatcherStays
    <3>3. QED
      BY <2>1, <3>1, <3>2, PollerStays DEF ring, Free, poll
  <2>5. QED
    BY <2>2, <2>3, <2>4 DEF Threads
<1>12. ASSUME NEW t \in Threads, NEW label \in CloseLabels, Goto(t, label),
              t = dispatch => Serving,
              UNCHANGED <<ring, queueMutex, quota, torn, arrived>>,
              sendingMutex' = sendingMutex \/ sendingMutex' = Unlocked(sendingMutex, t)
       PROVE  Goal
  <2>1. pc'[t] = label /\ \A u \in Threads \ {t} : pc'[u] = pc[u]
    BY <1>12, <1>b, GotoMoves DEF Own
  <2>2. CASE t = poll
    BY <1>2, <1>12, <1>d, <2>1, <2>2 DEF Threads, CloseLabels
  <2>3. CASE t # poll
    <3>1. sendingMutex = poll => sendingMutex' = poll
      BY <1>12, <2>3 DEF Unlocked
    <3>2. CASE t = dispatch
      <4>1. pc'[poll] = pc[poll] /\ pc'[dispatch] = label /\ label # "setEmpty"
            /\ label \notin {"take", "handle", "advance"}
        BY <1>d, <2>1, <3>2 DEF Threads, CloseLabels
      <4>2. pc[dispatch] # "setEmpty"
        BY <1>12, <3>2 DEF Serving, CloseLabels
      <4>3. Occupied' = Occupied
        BY <1>12, <4>1, <4>2, OccupiedFrame
      <4>4. QED
        BY <1>10, <1>12, <3>1, <3>2, <4>1, <4>3
    <3>3. CASE t = app
      <4>1. pc'[poll] = pc[poll] /\ pc'[dispatch] = pc[dispatch]
        BY <1>d, <2>1, <3>3 DEF Threads
      <4>2. DispatcherInv' /\ Occupied' = Occupied
        BY <1>12, <4>1, DispatcherStays
      <4>3. QED
        BY <1>12, <3>1, <4>1, <4>2, PollerStays DEF ring
    <3>4. QED
      BY <2>3, <3>2, <3>3 DEF Threads
  <2>4. QED
    BY <2>2, <2>3
<1>13. ASSUME NEW t \in Threads, Watchdog(t), t = dispatch => Serving
       PROVE  Goal
  BY <1>12, <1>13 DEF Watchdog, CloseLabels, polling, history
<1>14. CASE PollRequest
  <2>1. CASE LeavePoll
    BY <1>2, <1>3, <2>1 DEF LeavePoll, PollLabels
  <2>2. CASE quota > 0 /\ Watchdog(poll)
    BY <1>13, <1>d, <2>2 DEF Threads
  <2>3. CASE /\ quota > 0
             /\ pc[poll] = "poll"
             /\ Goto(poll, "receive")
             /\ UNCHANGED <<ring, mutexes, polling, history>>
    <3>1. pc'[poll] = "receive" /\ pc'[dispatch] = pc[dispatch]
      BY <1>3, <2>3 DEF PollLabels
    <3>2. DispatcherInv' /\ Occupied' = Occupied
      BY <2>3, <3>1, DispatcherStays DEF mutexes
    <3>3. QuotaFits'
      BY <2>3, <3>1, <3>2 DEF QuotaFits, QueueSize, polling
    <3>4. PollerInv' /\ RoomInv'
      BY <2>3, <3>1 DEF RingInv, PollerInv, RoomInv, mutexes, polling
    <3>5. QED
      BY <3>2, <3>3, <3>4
  <2>4. QED
    BY <1>14, <2>1, <2>2, <2>3 DEF PollRequest
<1>15. CASE Receive
  <2>1. CASE LeavePoll
    BY <1>2, <1>3, <2>1 DEF LeavePoll, PollLabels
  <2>2. CASE ~LeavePoll
    <3>1. /\ pc[poll] = "receive" /\ arrived' = arrived + 1 /\ Goto(poll, "store")
          /\ UNCHANGED <<ring, mutexes, quota, torn>>
      BY <1>15, <2>2 DEF Receive
    <3>2. pc'[poll] = "store" /\ pc'[dispatch] = pc[dispatch]
      BY <1>3, <3>1 DEF PollLabels
    <3>3. DispatcherInv' /\ Occupied' = Occupied
      BY <3>1, <3>2, DispatcherStays DEF mutexes
    <3>4. QuotaFits'
      BY <3>1, <3>2, <3>3 DEF QuotaFits, QueueSize
    <3>5. arrived' > 0
      BY <1>b, <3>1, QueueAssumption DEF DataTypes
    <3>6. PollerInv' /\ RoomInv'
      BY <3>1, <3>2, <3>5 DEF RingInv, PollerInv, RoomInv, mutexes
    <3>7. QED
      BY <3>3, <3>4, <3>6
  <2>3. QED
    BY <2>1, <2>2
<1>16. CASE Store
  <2> DEFINE again == more /\ quota > 1
             label == IF again THEN "receive" ELSE "loop"
  <2>1. /\ pc[poll] = "store" /\ queueMutex = Free /\ queueMutex' = queueMutex
        /\ torn' = torn /\ arrived' = arrived /\ quota' = quota - 1
        /\ sendingMutex' = IF again THEN sendingMutex ELSE Unlocked(sendingMutex, poll)
        /\ \/ IsFull /\ Goto(poll, label) /\ UNCHANGED ring
           \/ /\ ~IsFull /\ pc' = Signalled([pc EXCEPT ![poll] = label])
              /\ write' = Successor(write) /\ empty' = FALSE /\ read' = read
    BY <1>16, Zenon DEF Store, Goto
  <2>2. label \in Own(poll) /\ label \in PollLabels /\ (label = "receive" => quota > 1)
        /\ label \in {"receive", "loop"} /\ label # "waiting"
    BY DEF Own, PollLabels
  <2>3. sendingMutex = poll /\ quota > 0
    BY <2>1 DEF RingInv, PollerInv
  <2>4. pc[dispatch] \notin {"advance", "setEmpty"}
    BY <2>1 DEF RingInv, DispatcherInv, Free, dispatch
  <2>5. quota \in Int /\ quota' \in Int
    BY <1>b, <2>1, QueueAssumption DEF DataTypes
  <2>6. (label = "receive" => sendingMutex' = poll)
    BY <2>1, <2>3
  <2> HIDE DEF label, again
  <2>7. pc'[poll] = label => PollerInv' /\ RoomInv'
    BY <2>1, <2>2, <2>5, <2>6 DEF PollerInv, RoomInv
  <2>8. CASE IsFull /\ Goto(poll, label) /\ UNCHANGED ring
    <3>1. pc'[poll] = label /\ pc'[dispatch] = pc[dispatch]
      BY <1>3, <2>2, <2>8
    <3>2. DispatcherInv' /\ Occupied' = Occupied
      BY <2>1, <2>8, <3>1, DispatcherStays
    <3>3. Occupied = QueueSize
      BY <1>c, <2>4, <2>8 DEF Occupied, IsFull
    <3>4. QuotaFits'
      <4>1. torn
        BY <1>c, <2>1, <2>3, <2>5, <3>3 DEF QuotaFits
      <4>2. QED
        BY <2>1, <4>1 DEF QuotaFits
    <3>5. QED
      BY <2>7, <3>1, <3>2, <3>4
  <2>9. CASE /\ ~IsFull /\ pc' = Signalled([pc EXCEPT ![poll] = label])
             /\ write' = Successor(write) /\ empty' = FALSE /\ read' = read
    <3>1. pc'[poll] = label
          /\ pc'[dispatch] = IF pc[dispatch] = "waiting" THEN "relock" ELSE pc[dispatch]
      BY <1>b, <1>d, <2>2, <2>9, SignalMoves DEF Threads
    <3>2. Occupied' = Occupied + 1
      BY <1>16, <2>4, <2>9, <3>1, OccupiedStore
    <3>3. QuotaFits'
      BY <1>c, <2>1, <2>5, <3>2 DEF QuotaFits, QueueSize
    <3>4. DispatcherInv'
      BY <2>4, <2>9, <3>1 DEF DispatcherInv, Serving
    <3>5. QED
      BY <2>7, <3>1, <3>3, <3>4
  <2>10. QED
    BY <2>1, <2>8, <2>9
<1>17. ASSUME NEW label \in DispatchLabels \ {"setEmpty"}, Goto(dispatch, label),
              pc[dispatch] # "setEmpty",
              label \in {"take", "handle", "lockSending", "request", "lockQueue", "advance"} => ~empty,
              label = "advance" => queueMutex' = dispatch,
              UNCHANGED <<ring, quota, torn, arrived>>,
              sendingMutex = poll => sendingMutex' = poll
       PROVE  Goal
  <2>1. pc'[poll] = pc[poll] /\ pc'[dispatch] = label
    BY <1>9, <1>17, <1>d DEF Own, Threads
  <2>2. Occupied' = Occupied
    BY <1>17, <2>1, OccupiedFrame
  <2>3. label \notin CloseLabels
    BY <1>17 DEF DispatchLabels, CloseLabels
  <2>4. DispatcherInv'
    BY <1>17, <2>1, <2>3 DEF RingInv, DispatcherInv, Serving, ring
  <2>5. PollerInv' /\ RoomInv' /\ QuotaFits'
    BY <1>17, <2>1, <2>2, PollerStays DEF ring
  <2>6. QED
    BY <2>4, <2>5
<1>18. CASE LockQueue
  <2>1. PICK label \in {"test", "recheck", "advance"} :
          /\ Goto(dispatch, label)
          /\ label = "advance" => pc[dispatch] = "lockQueue"
          /\ pc[dispatch] # "setEmpty"
    BY <1>18 DEF LockQueue
  <2>2. UNCHANGED <<ring, quota, torn, arrived, sendingMutex>> /\ queueMutex' = dispatch
    BY <1>18 DEF LockQueue, polling, history
  <2>3. label = "advance" => ~empty
    BY <2>1 DEF RingInv, DispatcherInv, Serving
  <2>4. label \in DispatchLabels \ {"setEmpty"}
    BY DEF DispatchLabels
  <2>5. QED
    BY <1>17, <2>1, <2>2, <2>3, <2>4
<1>19. CASE TestRunning \/ Look \/ SpuriousWakeup \/ Recheck
  <2>1. PICK label \in {"look", "done", "take", "waiting", "recheck", "relock", "test"} :
          /\ Goto(dispatch, label)
          /\ label = "take" => ~empty
          /\ pc[dispatch] # "setEmpty"
    BY <1>19 DEF TestRunning, Look, SpuriousWakeup, Recheck
  <2>2. UNCHANGED <<ring, quota, torn, arrived, sendingMutex>>
    BY <1>19 DEF TestRunning, Look, SpuriousWakeup, Recheck, polling, history, mutexes
  <2>3. label \in DispatchLabels \ {"setEmpty"}
    BY DEF DispatchLabels
  <2>4. QED
    BY <1>17, <2>1, <2>2, <2>3
<1>20. CASE Take \/ Handle
  <2>1. PICK label \in {"handle", "lockQueue", "lockSending"} : Goto(dispatch, label)
    BY <1>20 DEF Take, Handle
  <2>2. UNCHANGED <<ring, quota, torn, arrived, sendingMutex>> /\ pc[dispatch] \in {"take", "handle"}
    BY <1>20 DEF Take, Handle, polling, history, mutexes
  <2>3. ~empty
    BY <2>2 DEF RingInv, DispatcherInv
  <2>4. label \in DispatchLabels \ {"setEmpty"}
    BY DEF DispatchLabels
  <2>5. QED
    BY <1>17, <2>1, <2>2, <2>3, <2>4
<1>21. CASE Advance
  <2>1. /\ pc[dispatch] = "advance" /\ pc'[dispatch] = "setEmpty" /\ pc'[poll] = pc[poll]
    BY <1>21, <1>9, <1>d DEF Advance, Own, DispatchLabels, Threads
  <2>2. UNCHANGED <<write, empty, mutexes, quota, torn, arrived>> /\ read' = Successor(read)
    BY <1>21 DEF Advance, polling, history
  <2>3. queueMutex' = dispatch /\ ~empty'
    BY <2>1, <2>2 DEF RingInv, DispatcherInv, Serving, mutexes
  <2>4. DispatcherInv'
    BY <2>1, <2>3 DEF DispatcherInv
  <2>5. Occupied > 0 /\ Occupied' = Occupied - 1 /\ (read' = write => Occupied' = 0)
    BY <1>21, OccupiedAdvance
  <2>6. PollerInv'
    BY <2>1, <2>2 DEF RingInv, PollerInv, mutexes
  <2>7. RoomInv'
    <3>1. read' = IF read = QueueSize - 1 THEN 0 ELSE read + 1
      BY <2>2, <1>c, SuccessorInIndex DEF Index
    <3>2. QED
      BY <1>c, <2>1, <2>2, <2>5, <3>1 DEF RingInv, RoomInv
  <2>8. QuotaFits'
    <3>1. quota \in Int
      BY <1>b DEF DataTypes
    <3>2. QED
      BY <1>c, <2>1, <2>2, <2>5, <3>1 DEF QuotaFits, QueueSize
  <2>9. QED
    BY <2>4, <2>6, <2>7, <2>8
<1>22. CASE SetEmpty
  <2>1. /\ pc[dispatch] = "setEmpty" /\ pc'[dispatch] = "test" /\ pc'[poll] = pc[poll]
    BY <1>22, <1>9, <1>d DEF SetEmpty, Own, DispatchLabels, Threads
  <2>2. /\ UNCHANGED <<read, write, mutexes, quota, torn, arrived>>
        /\ empty' = IF read = write THEN TRUE ELSE empty
    BY <1>22 DEF SetEmpty, Drained, polling, history
  <2>3. DispatcherInv'
    BY <2>1, <2>2 DEF RingInv, DispatcherInv, Serving, CloseLabels
  <2>4. QED
    BY <1>22, <2>1, <2>2, <2>3, OccupiedSetEmpty, PollerStays DEF mutexes
<1>23. CASE StartRequest \/ CallClose
  <2>1. PICK label \in AppLabels \union CloseLabels : Goto(app, label)
    BY <1>23 DEF StartRequest, CallClose, AppLabels, CloseLabels
  <2>2. pc'[poll] = pc[poll] /\ pc'[dispatch] = pc[dispatch]
    BY <2>1, <1>b, <1>d, GotoMoves DEF Own, Threads
  <2>3. UNCHANGED <<ring, mutexes, polling, history>>
    BY <1>23 DEF StartRequest, CallClose
  <2>4. QED
    BY <2>2, <2>3, DispatcherStays, PollerStays DEF ring, mutexes, polling, history
<1>24. CASE Reopen
  <2>1. pc'[poll] = "loop" /\ pc'[dispatch] = "start"
    BY <1>24, <1>b, <1>d DEF Reopen, ControlTypes, Threads
  <2>2. UNCHANGED ring
    BY <1>24 DEF Reopen
  <2>3. DispatcherInv'
    BY <2>1, <2>2 DEF RingInv, DispatcherInv, Serving, CloseLabels, ring
  <2>4. QED
    BY <2>1, <2>3 DEF PollerInv, RoomInv, QuotaFits
<1>25. ASSUME NEW t \in Threads, t # poll, FinishRequest(t)
       PROVE  Goal
  <2>1. pc[t] = "request" /\ (t = dispatch => Serving)
    BY <1>25 DEF FinishRequest, Serving
  <2>2. CASE Watchdog(t)
    BY <1>13, <2>1, <2>2
  <2>3. CASE /\ sendingMutex' = Unlocked(sendingMutex, t)
             /\ Goto(t, IF t = app THEN "idle" ELSE "lockQueue")
             /\ UNCHANGED <<ring, flags, queueMutex, polling, process, history>>
    <3>1. sendingMutex = poll => sendingMutex' = poll
      BY <1>25, <2>3 DEF Unlocked
    <3>2. CASE t = dispatch
      <4>1. Goto(dispatch, "lockQueue") /\ UNCHANGED <<ring, quota, torn, arrived>>
        BY <1>d, <2>3, <3>2 DEF polling, history
      <4>2. ~empty /\ pc[dispatch] # "setEmpty"
        BY <2>1, <3>2 DEF RingInv, DispatcherInv
      <4>3. "lockQueue" \in DispatchLabels \ {"setEmpty"}
        BY DEF DispatchLabels
      <4>4. QED
        BY <1>17, <3>1, <4>1, <4>2, <4>3
    <3>3. CASE t = app
      <4>1. pc'[poll] = pc[poll] /\ pc'[dispatch] = pc[dispatch]
        BY <1>b, <1>d, <2>3, <3>3, GotoMoves DEF Own, AppLabels, Threads
      <4>2. QED
        BY <2>3, <3>1, <4>1, DispatcherStays, PollerStays DEF ring, polling, history
    <3>4. QED
      BY <1>25, <3>2, <3>3 DEF Threads
  <2>4. QED
    BY <1>25, <2>2, <2>3 DEF FinishRequest
<1>26. ASSUME NEW t \in Threads, CloseStep(t)
       PROVE  Goal
  <2>1. pc[t] \in CloseLabels
    BY <1>26 DEF CloseStep, StopDispatch, Signal, StopPolling, JoinPoll, JoinDispatch, Destroy,
       CloseLabels
  <2>2. t = dispatch => Serving
    BY <2>1 DEF Serving
  <2>3. UNCHANGED <<ring, mutexes, quota, torn, arrived>>
    BY <1>26 DEF CloseStep, StopDispatch, Signal, StopPolling, JoinPoll, JoinDispatch, Destroy,
       polling, history
  <2>4. CASE Signal(t)
    <3>1. pc' = Signalled([pc EXCEPT ![t] = "stopPolling"]) /\ "stopPolling" \in Own(t)
          /\ "stopPolling" \in CloseLabels
      BY <2>4 DEF Signal, Own, CloseLabels
    <3>3. pc'[t] = "stopPolling"
          /\ \A u \in Threads \ {t} :
               pc'[u] = IF u = dispatch /\ pc[u] = "waiting" THEN "relock" ELSE pc[u]
      BY <1>b, <3>1, SignalMoves
    <3>4. CASE t = dispatch
      <4>1. pc'[dispatch] = "stopPolling" /\ pc'[poll] = pc[poll]
        BY <1>d, <3>3, <3>4 DEF Threads
      <4>2. Occupied' = Occupied
        BY <2>1, <2>3, <3>4, <4>1, OccupiedFrame DEF CloseLabels
      <4>3. QED
        BY <1>10, <2>2, <2>3, <3>4, <4>1, <4>2 DEF mutexes
    <3>5. CASE t # dispatch
      <4>1. pc'[dispatch] = IF pc[dispatch] = "waiting" THEN "relock" ELSE pc[dispatch]
        BY <3>3, <3>5 DEF Threads
      <4>2. Occupied' = Occupied
        BY <2>3, <4>1, OccupiedFrame
      <4>3. DispatcherInv'
        BY <2>3, <4>1 DEF RingInv, DispatcherInv, Serving, CloseLabels, ring, mutexes
      <4>4. CASE t = poll
        <5>1. pc'[poll] = "stopPolling"
          BY <3>3, <4>4
        <5>2. QED
          BY <4>3, <5>1 DEF PollerInv, RoomInv, QuotaFits
      <4>5. CASE t # poll
        <5>1. pc'[poll] = pc[poll]
          BY <1>d, <3>3, <4>5 DEF Threads
        <5>2. QED
          BY <2>3, <4>2, <4>3, <5>1, PollerStays DEF ring, mutexes
      <4>6. QED
        BY <4>4, <4>5
    <3>6. QED
      BY <3>4, <3>5
  <2>5. CASE ~Signal(t)
    <3>1. PICK label \in CloseLabels : Goto(t, label)
      BY <1>26, <2>5 DEF CloseStep, StopDispatch, StopPolling, JoinPoll, JoinDispatch, Destroy,
         CloseLabels
    <3>2. QED
      BY <1>12, <2>2, <2>3, <3>1 DEF mutexes
  <2>6. QED
    BY <2>4, <2>5
<1>27. CASE UNCHANGED vars
  BY <1>1, <1>27 DEF vars
<1>28. QED
  BY <1>4, <1>6, <1>7, <1>8, <1>11, <1>14, <1>15, <1>16, <1>18, <1>19, <1>20, <1>21, <1>22,
     <1>23, <1>24, <1>25, <1>26, <1>27
     DEF Next, ThreadStep, PollStep, DispatchStep
-----------------------------------------------------------------------------
(* The inductive invariant: types, ownership and order of the indices, and  *)
(* the poller's quota.                                                      *)
QueueInv == TypeOK /\ RingInv /\ QuotaFits

(* Every reachable state of the queue satisfies the inductive invariant.    *)
THEOREM QueueInvariant == Spec => []QueueInv
<1>1. Init => QueueInv
  BY InitInv DEF QueueInv
<1>2. QueueInv /\ [Next]_vars => QueueInv'
  BY ControlStep, DataStep, RingStep DEF QueueInv, TypeOK
<1>3. QED
  BY <1>1, <1>2, PTL DEF Spec

(* For every queue size the variables of the two service threads keep their *)
(* types: in particular no index ever leaves m_indications_queue.           *)
THEOREM TypeCorrect == Spec => []TypeOK
<1>1. QueueInv => TypeOK
  BY DEF QueueInv
<1>2. QED
  BY <1>1, QueueInvariant, PTL

(* The mutexes are where the code relies on them, m_queue_empty implies that *)
(* the indices agree, and the poller's last comparison of the indices still  *)
(* holds when it acts on it.                                                 *)
THEOREM RingCorrect == Spec => []RingInv
<1>1. QueueInv => RingInv
  BY DEF QueueInv
<1>2. QED
  BY <1>1, QueueInvariant, PTL

(* The number of indications the poller asks for always fits the free slots, *)
(* except after a torn read of m_ind_queue_read.                             *)
THEOREM QuotaAlwaysFits == Spec => []QuotaFits
<1>1. QueueInv => QuotaFits
  BY DEF QueueInv
<1>2. QED
  BY <1>1, QueueInvariant, PTL

(* Only onIndicationReceivedLocked writes the slots or refuses an indication. *)
LEMMA OnlyStore ==
  ASSUME [Next]_vars
  PROVE  Store \/ (slots' = slots /\ refused' = refused)
<1> USE DEF ring, history
<1>1. ASSUME NEW t \in Threads, ThreadStep(t), ~Store
      PROVE  slots' = slots /\ refused' = refused
  <2>1. ASSUME NEW u, Watchdog(u)
        PROVE  slots' = slots /\ refused' = refused
    BY <2>1 DEF Watchdog
  <2>2. CASE PollStep
    BY <1>1, <2>1, <2>2 DEF PollStep, PollLoop, SeeEmpty, SeeFull, SeeEmptyAgain, SeeOrder,
       SeeRoom, Ask, PollRequest, LeavePoll, Receive
  <2>3. CASE DispatchStep
    BY <2>3 DEF DispatchStep, LockQueue, TestRunning, Look, Recheck, Take, Handle, Advance,
       SetEmpty
  <2>4. CASE LockSending(t) \/ FinishRequest(t)
    BY <2>1, <2>4 DEF LockSending, FinishRequest
  <2>5. CASE CloseStep(t)
    BY <2>5 DEF CloseStep, StopDispatch, Signal, StopPolling, JoinPoll, JoinDispatch, Destroy
  <2>6. QED
    BY <1>1, <2>2, <2>3, <2>4, <2>5 DEF ThreadStep
<1>2. CASE SpuriousWakeup \/ StartRequest \/ CallClose \/ Reopen \/ UNCHANGED vars
  BY <1>2 DEF SpuriousWakeup, StartRequest, CallClose, Reopen, vars
<1>3. QED
  BY <1>1, <1>2 DEF Next

(* An acknowledged indication is dropped only by a poll whose quota was      *)
(* computed across a wrap of m_ind_queue_read: without that race the comment *)
(* "Must never happen!" of platform.c is right, for every queue size.        *)
THEOREM LossNeedsTornRead == Spec => LossOnlyWhenTorn
<1>1. QueueInv /\ [Next]_vars => [refused' # refused => torn]_vars
  <2> SUFFICES ASSUME QueueInv, [Next]_vars, refused' # refused PROVE torn
    OBVIOUS
  <2>1. Store /\ refused' # refused
    BY OnlyStore
  <2>2. pc[poll] = "store" /\ queueMutex = Free /\ IsFull
    BY <2>1, Zenon DEF Store
  <2>3. quota > 0 /\ pc[dispatch] # "setEmpty"
    BY <2>2 DEF QueueInv, RingInv, PollerInv, DispatcherInv, Free, dispatch
  <2>4. /\ read \in Int /\ write \in Int /\ quota \in Int /\ QueueSize \in Int
    BY QueueAssumption DEF QueueInv, TypeOK, DataTypes, Index, QueueSize
  <2>5. Occupied = QueueSize
    BY <2>2, <2>3, <2>4 DEF Occupied, IsFull
  <2>6. QED
    BY <2>2, <2>3, <2>4, <2>5 DEF QueueInv, QuotaFits
<1>2. QED
  BY <1>1, QueueInvariant, PTL DEF Spec, LossOnlyWhenTorn

(* The pointer a handler is given stays good: the polling thread never       *)
(* writes the slot whose handler has not returned.                           *)
THEOREM SlotKept == Spec => SlotInUseUntouched
<1>1. QueueInv /\ [Next]_vars => [Serving => slots'[read] = slots[read]]_vars
  <2> SUFFICES ASSUME QueueInv, [Next]_vars, Serving PROVE slots'[read] = slots[read]
    OBVIOUS
  <2>1. CASE Store
    <3>1. ~empty
      BY DEF QueueInv, RingInv, DispatcherInv
    <3>2. UNCHANGED ring \/ (~IsFull /\ slots' = [slots EXCEPT ![write] = arrived])
      BY <2>1, Zenon DEF Store
    <3>3. slots \in [Index -> 0 .. arrived] /\ read \in Index
      BY DEF QueueInv, TypeOK, DataTypes
    <3>4. QED
      BY <3>1, <3>2, <3>3 DEF IsFull, ring
  <2>2. QED
    BY <2>1, OnlyStore
<1>2. QED
  BY <1>1, QueueInvariant, PTL DEF Spec, SlotInUseUntouched

-----------------------------------------------------------------------------
(* Closing.                                                                 *)

(* Whoever owns the sending mutex is in the exchange it protects; and the   *)
(* two joins of the application returned because the thread had ended, or   *)
(* because the other thread was joining it from a close of its own.         *)
Exchanging == {"poll", "receive", "store", "request"}
MutexInUse == \A t \in Threads : sendingMutex = t => pc[t] \in Exchanging
JoinsReturned ==
  /\ pc[app] = "joinDispatch" => Ended(poll) \/ InClose(dispatch)
  /\ pc[app] \in {"destroy", "closed"} =>
       (Ended(poll) /\ Ended(dispatch)) \/ (InClose(poll) /\ InClose(dispatch))
ClosingInv == MutexInUse /\ JoinsReturned

(* One thread moves; a thread that ended or is in its close does not come   *)
(* back.                                                                    *)
LEMMA OneMoves ==
  ASSUME ControlTypes, ClosingInv, NEW t \in Threads, pc'[t] \in Own(t),
         \A u \in Threads \ {t} :
           pc'[u] = pc[u] \/ (u = dispatch /\ pc[u] = "waiting" /\ pc'[u] = "relock"),
         sendingMutex' # t \/ pc'[t] \in Exchanging,
         \A u \in Threads \ {t} : sendingMutex' = u => sendingMutex = u,
         t # app => ~Ended(t) /\ (InClose(t) => InClose(t)'),
         t = app => JoinsReturned'
  PROVE  ClosingInv'
<1>1. poll # dispatch /\ poll # app /\ dispatch # app /\ Threads = {poll, dispatch, app}
  BY DEF poll, dispatch, app, Threads
<1>2. MutexInUse'
  BY <1>1 DEF MutexInUse, ClosingInv, Exchanging
<1>3. CASE t # app
  <2>1. pc'[app] = pc[app]
    BY <1>1, <1>3
  <2>2. \A u \in {poll, dispatch} : /\ Ended(u) => u # t /\ Ended(u)'
                                    /\ InClose(u) => InClose(u)'
    BY <1>1, <1>3 DEF Ended, InClose, CloseLabels
  <2>3. JoinsReturned'
    BY <1>1, <2>1, <2>2 DEF JoinsReturned, ClosingInv, Ended, InClose
  <2>. QED
    BY <1>2, <2>3 DEF ClosingInv
<1>. QED
  BY <1>2, <1>3 DEF ClosingInv

LEMMA ClosingStep == ControlTypes /\ ClosingInv /\ [Next]_vars => ClosingInv'
<1>. SUFFICES ASSUME ControlTypes, ClosingInv, [Next]_vars PROVE ClosingInv'
  OBVIOUS
<1>. USE DEF mutexes, ring, flags, polling, process, history
<1>d. poll # dispatch /\ poll # app /\ dispatch # app /\ Threads = {poll, dispatch, app}
      /\ \A t \in Threads : t # Free
  BY DEF poll, dispatch, app, Threads, Free
<1>u. \A t \in Threads : /\ Unlocked(sendingMutex, t) # t
                         /\ \A u \in Threads : Unlocked(sendingMutex, t) = u => sendingMutex = u
  BY <1>d DEF Unlocked
<1>m. \A t \in Threads : sendingMutex = t => pc[t] \in Exchanging
  BY DEF ClosingInv, MutexInUse
(* The steps between two labels of a thread's own loop. *)
<1>1. ASSUME NEW t \in Threads, NEW label \in Own(t), Goto(t, label),
             pc[t] \notin CloseLabels \union {"done"}, label \notin {"joinDispatch", "destroy", "closed"},
             sendingMutex' # t \/ label \in Exchanging,
             \A u \in Threads \ {t} : sendingMutex' = u => sendingMutex = u
      PROVE  ClosingInv'
  <2>1. pc'[t] = label /\ \A u \in Threads \ {t} : pc'[u] = pc[u]
    BY <1>1, GotoMoves
  <2>2. t = app => JoinsReturned'
    BY <1>1, <2>1 DEF JoinsReturned
  <2>3. t # app => ~Ended(t) /\ ~InClose(t)
    BY <1>1 DEF Ended, InClose
  <2>. QED
    BY <1>1, <2>1, <2>2, <2>3, OneMoves
<1>2. ASSUME NEW t \in Threads, Watchdog(t), pc[t] \in Exchanging
      PROVE  ClosingInv'
  <2>1. Goto(t, "stopDispatch") /\ sendingMutex' = Unlocked(sendingMutex, t)
    BY <1>2 DEF Watchdog
  <2>2. "stopDispatch" \in Own(t) /\ pc[t] \notin CloseLabels \union {"done"}
    BY <1>2 DEF Own, CloseLabels, Exchanging
  <2>. QED
    BY <1>1, <1>u, <2>1, <2>2
<1>3. CASE PollLoop \/ SeeEmpty \/ SeeFull \/ SeeEmptyAgain \/ SeeOrder \/ SeeRoom
  <2>1. PICK label \in {"done", "seeEmpty", "seeEmptyAgain", "seeFull", "loop", "seeOrder",
                        "roomAhead", "roomBehind", "lockSending"} :
          Goto(poll, label) /\ sendingMutex' = sendingMutex
    BY <1>3 DEF PollLoop, SeeEmpty, SeeFull, SeeEmptyAgain, SeeOrder, SeeRoom, Ask
  <2>2. pc[poll] \in {"loop", "seeEmpty", "seeFull", "seeEmptyAgain", "seeOrder", "roomAhead",
                      "roomBehind"}
    BY <1>3 DEF PollLoop, SeeEmpty, SeeFull, SeeEmptyAgain, SeeOrder, SeeRoom
  <2>3. sendingMutex # poll /\ pc[poll] \notin CloseLabels \union {"done"}
    BY <1>d, <1>m, <2>2 DEF Exchanging, CloseLabels
  <2>4. label \in Own(poll)
    BY <2>1 DEF Own, PollLabels
  <2>. QED
    BY <1>1, <1>d, <2>1, <2>3, <2>4
<1>4. CASE LeavePoll /\ pc[poll] \in {"poll", "receive"}
  <2>1. Goto(poll, "loop") /\ sendingMutex' = Unlocked(sendingMutex, poll)
    BY <1>4 DEF LeavePoll
  <2>2. "loop" \in Own(poll) /\ pc[poll] \notin CloseLabels \union {"done"}
    BY <1>4 DEF Own, PollLabels, CloseLabels
  <2>. QED
    BY <1>1, <1>d, <1>u, <2>1, <2>2
<1>5. CASE PollRequest \/ Receive
  <2>1. \/ LeavePoll /\ pc[poll] \in {"poll", "receive"}
        \/ Watchdog(poll) /\ pc[poll] \in Exchanging
        \/ \E label \in {"receive", "store"} :
             /\ Goto(poll, label) /\ sendingMutex' = sendingMutex
             /\ pc[poll] \in {"poll", "receive"}
    BY <1>5 DEF PollRequest, Receive, Exchanging
  <2>2. \A label \in {"receive", "store"} : label \in Own(poll) /\ label \in Exchanging
    BY DEF Own, PollLabels, Exchanging
  <2>3. pc[poll] \in {"poll", "receive"} => pc[poll] \notin CloseLabels \union {"done"}
    BY DEF CloseLabels
  <2>. QED
    BY <1>1, <1>2, <1>4, <1>d, <2>1, <2>2, <2>3
<1>6. CASE Store
  <2> DEFINE again == more /\ quota > 1
             label == IF again THEN "receive" ELSE "loop"
  <2>1. /\ Goto(poll, label) \/ pc' = Signalled([pc EXCEPT ![poll] = label])
        /\ pc[poll] = "store"
        /\ sendingMutex' = IF again THEN sendingMutex ELSE Unlocked(sendingMutex, poll)
    BY <1>6, Zenon DEF Store, Goto
  <2>2. label \in Own(poll)
    BY DEF Own, PollLabels
  <2>3. sendingMutex' # poll \/ label \in Exchanging
    BY <1>d, <1>u, <2>1 DEF Exchanging
  <2>4. \A u \in Threads \ {poll} : sendingMutex' = u => sendingMutex = u
    BY <1>d, <1>u, <2>1
  <2>5. label \notin {"joinDispatch", "destroy", "closed"}
    OBVIOUS
  <2>. HIDE DEF label
  <2>6. /\ pc'[poll] = label
        /\ \A u \in Threads \ {poll} :
             pc'[u] = pc[u] \/ (u = dispatch /\ pc[u] = "waiting" /\ pc'[u] = "relock")
    BY <1>d, <2>1, <2>2, GotoMoves, SignalMoves
  <2>7. ~Ended(poll) /\ ~InClose(poll)
    BY <2>1 DEF Ended, InClose, CloseLabels
  <2>. QED
    BY <1>d, <2>2, <2>3, <2>4, <2>6, <2>7, OneMoves
<1>7. CASE LockQueue \/ TestRunning \/ Look \/ SpuriousWakeup \/ Recheck \/ Take \/ Handle
           \/ Advance \/ SetEmpty
  <2>1. PICK label \in {"test", "recheck", "advance", "look", "done", "take", "waiting", "relock",
                        "handle", "lockQueue", "lockSending", "setEmpty"} :
          Goto(dispatch, label) /\ sendingMutex' = sendingMutex
    BY <1>7 DEF LockQueue, TestRunning, Look, SpuriousWakeup, Recheck, Take, Handle, Advance,
                SetEmpty
  <2>2. pc[dispatch] \in {"start", "relock", "lockQueue", "test", "look", "waiting", "recheck",
                          "take", "handle", "advance", "setEmpty"}
    BY <1>7 DEF LockQueue, TestRunning, Look, SpuriousWakeup, Recheck, Take, Handle, Advance,
                SetEmpty
  <2>3. sendingMutex # dispatch /\ pc[dispatch] \notin CloseLabels \union {"done"}
    BY <1>d, <1>m, <2>2 DEF Exchanging, CloseLabels
  <2>4. label \in Own(dispatch)
    BY <1>d, <2>1 DEF Own, DispatchLabels
  <2>. QED
    BY <1>1, <1>d, <2>1, <2>3, <2>4
<1>8. CASE StartRequest \/ CallClose
  <2>1. PICK label \in {"lockSending", "stopDispatch"} :
          Goto(app, label) /\ sendingMutex' = sendingMutex
    BY <1>8 DEF StartRequest, CallClose
  <2>2. pc[app] = "idle"
    BY <1>8 DEF StartRequest, CallClose
  <2>3. sendingMutex # app /\ pc[app] \notin CloseLabels \union {"done"}
    BY <1>d, <1>m, <2>2 DEF Exchanging, CloseLabels
  <2>4. label \in Own(app)
    BY <1>d, <2>1 DEF Own, AppLabels, CloseLabels
  <2>. QED
    BY <1>1, <1>d, <2>1, <2>3, <2>4
<1>9. CASE Reopen
  <2>1. sendingMutex' = Free /\ pc'[app] = "idle"
    BY <1>9, <1>d DEF Reopen, ControlTypes
  <2>. QED
    BY <1>d, <2>1 DEF ClosingInv, MutexInUse, JoinsReturned
<1>10. ASSUME NEW t \in Threads, LockSending(t)
       PROVE  ClosingInv'
  <2>1. /\ pc[t] = "lockSending" /\ sendingMutex' = t
        /\ Goto(t, IF t = poll THEN "poll" ELSE "request")
    BY <1>10 DEF LockSending
  <2>2. (IF t = poll THEN "poll" ELSE "request") \in Own(t) \intersect Exchanging
    BY <1>d DEF Own, PollLabels, DispatchLabels, AppLabels, Exchanging
  <2>3. pc[t] \notin CloseLabels \union {"done"}
    BY <2>1 DEF CloseLabels
  <2>4. (IF t = poll THEN "poll" ELSE "request") \notin {"joinDispatch", "destroy", "closed"}
    OBVIOUS
  <2>. QED
    BY <1>1, <2>1, <2>2, <2>3, <2>4
<1>11. ASSUME NEW t \in Threads, t # poll, FinishRequest(t)
       PROVE  ClosingInv'
  <2>1. pc[t] = "request" /\ pc[t] \notin CloseLabels \union {"done"} /\ pc[t] \in Exchanging
    BY <1>11 DEF FinishRequest, CloseLabels, Exchanging
  <2>2. CASE Watchdog(t)
    BY <1>2, <2>1, <2>2
  <2>3. CASE ~Watchdog(t)
    <3>1. /\ sendingMutex' = Unlocked(sendingMutex, t)
          /\ Goto(t, IF t = app THEN "idle" ELSE "lockQueue")
      BY <1>11, <2>3 DEF FinishRequest
    <3>2. (IF t = app THEN "idle" ELSE "lockQueue") \in Own(t)
      BY <1>11, <1>d DEF Own, DispatchLabels, AppLabels
    <3>3. (IF t = app THEN "idle" ELSE "lockQueue") \notin {"joinDispatch", "destroy", "closed"}
      OBVIOUS
    <3>. QED
      BY <1>1, <1>u, <2>1, <3>1, <3>2, <3>3
  <2>. QED
    BY <2>2, <2>3
<1>12. ASSUME NEW t \in Threads, CloseStep(t)
       PROVE  ClosingInv'
  <2>1. sendingMutex' = sendingMutex /\ pc[t] \in CloseLabels
    BY <1>12 DEF CloseStep, StopDispatch, Signal, StopPolling, JoinPoll, JoinDispatch, Destroy,
                 CloseLabels
  <2>2. sendingMutex # t /\ (t # app => ~Ended(t) /\ InClose(t))
    BY <1>m, <2>1 DEF Exchanging, CloseLabels, Ended, InClose
  <2>3. ASSUME NEW label \in CloseLabels, pc'[t] = label,
               \A u \in Threads \ {t} :
                 pc'[u] = pc[u] \/ (u = dispatch /\ pc[u] = "waiting" /\ pc'[u] = "relock"),
               t = app => JoinsReturned'
        PROVE  ClosingInv'
    <3>1. label \in Own(t) /\ (t # app => InClose(t)')
      BY <2>3 DEF Own, InClose
    <3>. QED
      BY <2>1, <2>2, <2>3, <3>1, OneMoves
  <2>4. CASE Signal(t)
    <3>1. "stopPolling" \in Own(t) /\ "stopPolling" \in CloseLabels
      BY DEF Own, CloseLabels
    <3>2. /\ pc'[t] = "stopPolling"
          /\ \A u \in Threads \ {t} :
               pc'[u] = pc[u] \/ (u = dispatch /\ pc[u] = "waiting" /\ pc'[u] = "relock")
      BY <2>4, <3>1, SignalMoves DEF Signal
    <3>3. t = app => JoinsReturned'
      BY <3>2 DEF JoinsReturned
    <3>. QED
      BY <2>3, <3>1, <3>2, <3>3
  <2>5. ASSUME NEW label \in CloseLabels, Goto(t, label)
        PROVE  pc'[t] = label /\ \A u \in Threads \ {t} : pc'[u] = pc[u]
    BY <2>5, GotoMoves DEF Own
  <2>6. CASE StopDispatch(t) \/ StopPolling(t)
    <3>1. PICK label \in {"signal", "joinPoll"} : Goto(t, label)
      BY <2>6 DEF StopDispatch, StopPolling
    <3>2. label \in CloseLabels
      BY <3>1 DEF CloseLabels
    <3>3. t = app => JoinsReturned'
      BY <2>5, <3>1, <3>2 DEF JoinsReturned
    <3>. QED
      BY <2>3, <2>5, <3>1, <3>2, <3>3
  <2>7. CASE JoinPoll(t)
    <3>1. Goto(t, "joinDispatch") /\ Joined(t, poll) /\ "joinDispatch" \in CloseLabels
      BY <2>7 DEF JoinPoll, CloseLabels
    <3>2. t = app => Ended(poll) \/ InClose(dispatch)
      BY <1>d, <3>1 DEF Joined, JoinLabel, Ended, InClose, CloseLabels
    <3>3. t = app => JoinsReturned'
      BY <1>d, <2>5, <3>1, <3>2 DEF JoinsReturned, Ended, InClose
    <3>. QED
      BY <2>3, <2>5, <3>1, <3>3
  <2>8. CASE JoinDispatch(t)
    <3>1. /\ pc[t] = "joinDispatch" /\ Goto(t, "destroy") /\ Joined(t, dispatch)
          /\ "destroy" \in CloseLabels
      BY <2>8 DEF JoinDispatch, CloseLabels
    <3>2. t = app => Ended(dispatch) \/ pc[poll] = "joinDispatch"
      BY <1>d, <3>1 DEF Joined, JoinLabel, Ended
    <3>3. t = app => Ended(poll) \/ InClose(dispatch)
      BY <3>1 DEF ClosingInv, JoinsReturned
    <3>4. t = app => (Ended(poll) /\ Ended(dispatch)) \/ (InClose(poll) /\ InClose(dispatch))
      BY <3>2, <3>3 DEF Ended, InClose, CloseLabels
    <3>5. t = app => JoinsReturned'
      BY <1>d, <2>5, <3>1, <3>4 DEF JoinsReturned, Ended, InClose
    <3>. QED
      BY <2>3, <2>5, <3>1, <3>5
  <2>9. CASE Destroy(t)
    <3>1. pc[t] = "destroy" /\ Goto(t, "closed") /\ "closed" \in CloseLabels
      BY <2>9 DEF Destroy, CloseLabels
    <3>2. t = app => JoinsReturned'
      BY <1>d, <2>5, <3>1 DEF JoinsReturned, ClosingInv, Ended, InClose
    <3>. QED
      BY <2>3, <2>5, <3>1, <3>2
  <2>. QED
    BY <1>12, <2>4, <2>6, <2>7, <2>8, <2>9 DEF CloseStep
<1>13. CASE UNCHANGED vars
  BY <1>13 DEF vars, ClosingInv, MutexInUse, JoinsReturned, Ended, InClose
<1>. QED
  BY <1>3, <1>5, <1>6, <1>7, <1>8, <1>9, <1>10, <1>11, <1>12, <1>13
     DEF Next, ThreadStep, PollStep, DispatchStep

(* A close that returned to the application left no owner of the sending    *)
(* mutex, and both service threads ended, or both are in closes of their    *)
(* own: for any number of closes by any of the three threads.               *)
THEOREM ClosedIsQuiet == Spec => []QuietAfterClose
<1>1. Init => ClosingInv
  BY DEF Init, ClosingInv, MutexInUse, JoinsReturned, Threads, Free, poll, dispatch, app
<1>2. QueueInv /\ ClosingInv /\ [Next]_vars => ClosingInv'
  BY ClosingStep DEF QueueInv, TypeOK
<1>3. QueueInv /\ ClosingInv => QuietAfterClose
  <2>. SUFFICES ASSUME QueueInv, ClosingInv, pc[app] = "closed" PROVE QuietAfterClose
    BY DEF QuietAfterClose
  <2>1. (Ended(poll) /\ Ended(dispatch)) \/ (InClose(poll) /\ InClose(dispatch))
    BY DEF ClosingInv, JoinsReturned
  <2>2. sendingMutex \in Threads \union {Free}
    BY DEF QueueInv, TypeOK, DataTypes
  <2>3. \A t \in Threads : pc[t] \notin Exchanging
    BY <2>1 DEF Exchanging, Ended, InClose, CloseLabels, Threads
  <2>. QED
    BY <2>1, <2>2, <2>3 DEF QuietAfterClose, ClosingInv, MutexInUse
<1>. QED
  BY <1>1, <1>2, <1>3, QueueInvariant, PTL DEF Spec

-----------------------------------------------------------------------------
(* The ring implements the bounded fifo.                                    *)

(* Where the i-th indication of the ring is, without the modulus.           *)
Place(r, i) == (r + i - 1) % QueueSize

LEMMA PlaceInRing ==
  ASSUME NEW r \in Index, NEW i \in 1 .. QueueSize
  PROVE  /\ Place(r, i) \in Index
         /\ Place(r, i) = IF r + i - 1 < QueueSize THEN r + i - 1 ELSE r + i - 1 - QueueSize
<1>1. QueueSize \in Nat /\ QueueSize >= 2
  BY QueueAssumption DEF QueueSize
<1>. HIDE DEF QueueSize
<1>2. \A n \in 0 .. QueueSize - 1 : n % QueueSize = n
  BY <1>1
<1>3. \A n \in QueueSize .. 2 * QueueSize - 1 : n % QueueSize = n - QueueSize
  BY <1>1
<1>4. r \in 0 .. QueueSize - 1
  BY DEF Index
<1>5. CASE r + i - 1 < QueueSize
  <2>1. r + i - 1 \in 0 .. QueueSize - 1
    BY <1>1, <1>4, <1>5
  <2>. QED
    BY <1>2, <1>5, <2>1 DEF Place, Index
<1>6. CASE r + i - 1 >= QueueSize
  <2>1. r + i - 1 \in QueueSize .. 2 * QueueSize - 1
    BY <1>1, <1>4, <1>6
  <2>2. (r + i - 1) % QueueSize = (r + i - 1) - QueueSize
    BY <1>3, <2>1
  <2>3. Place(r, i) = (r + i - 1) - QueueSize
    BY <2>2 DEF Place
  <2>. QED
    BY <1>1, <1>4, <1>6, <2>3 DEF Index
<1>. QED
  BY <1>1, <1>4, <1>5, <1>6

(* The next i-th place is the place of i + 1.                               *)
LEMMA PlaceMovesOn ==
  ASSUME NEW r \in Index, NEW i \in 1 .. QueueSize - 1
  PROVE  Place(Successor(r), i) = Place(r, i + 1)
<1>1. QueueSize \in Nat /\ QueueSize >= 2
  BY QueueAssumption DEF QueueSize
<1>2. Successor(r) = (IF r = QueueSize - 1 THEN 0 ELSE r + 1) /\ Successor(r) \in Index
  BY SuccessorInIndex
<1>. HIDE DEF QueueSize
<1>3. r \in 0 .. QueueSize - 1 /\ i \in 1 .. QueueSize /\ i + 1 \in 1 .. QueueSize
  BY <1>1 DEF Index
<1>4. Place(r, i + 1) = IF r + i < QueueSize THEN r + i ELSE r + i - QueueSize
  BY <1>1, <1>3, PlaceInRing
<1>5. Place(Successor(r), i) = IF Successor(r) + i - 1 < QueueSize THEN Successor(r) + i - 1
                               ELSE Successor(r) + i - 1 - QueueSize
  BY <1>2, <1>3, PlaceInRing
<1>. QED
  BY <1>1, <1>2, <1>3, <1>4, <1>5

(* A function on 1 .. n is a sequence of length n.                          *)
LEMMA FunctionIsSequence ==
  ASSUME NEW n \in Nat, NEW f \in [1 .. n -> Nat]
  PROVE  f \in Seq(Nat) /\ Len(f) = n
<1>1. f \in Seq(Nat)
  BY SeqDef
<1>2. Len(f) \in Nat /\ 1 .. Len(f) = 1 .. n
  BY <1>1, LenProperties
<1>. QED
  BY <1>1, <1>2

LEMMA ContentsAreSequence ==
  ASSUME TypeOK
  PROVE  /\ Occupied \in 0 .. QueueSize /\ QueueSize \in Nat /\ QueueSize >= 2
         /\ Contents \in Seq(Nat) /\ Len(Contents) = Occupied
         /\ \A i \in 1 .. Occupied : /\ Contents[i] = slots[Place(read, i)]
                                     /\ Place(read, i) \in Index
<1>1. Occupied \in 0 .. QueueSize /\ QueueSize \in Nat /\ QueueSize >= 2
  BY OccupiedRange, QueueAssumption DEF QueueSize
<1>2. \A i \in 1 .. Occupied : Place(read, i) \in Index /\ Contents[i] = slots[Place(read, i)]
  BY <1>1, PlaceInRing DEF Contents, Place, TypeOK, DataTypes
<1>3. \A i \in 1 .. Occupied : Contents[i] \in Nat
  BY <1>2 DEF TypeOK, DataTypes
<1>4. Contents \in [1 .. Occupied -> Nat]
  BY <1>3 DEF Contents
<1>5. Occupied \in Nat
  BY <1>1
<1>. QED
  BY <1>1, <1>2, <1>4, <1>5, FunctionIsSequence

LEMMA ContentsAreSequenceNext ==
  TypeOK' => (Contents \in Seq(Nat) /\ Len(Contents) = Occupied)'
<1>1. TypeOK => (Contents \in Seq(Nat) /\ Len(Contents) = Occupied)
  BY ContentsAreSequence
<1>. QED
  BY <1>1, PTL

(* A store adds the indication at the end.                                  *)
LEMMA ContentsStore ==
  ASSUME TypeOK, TypeOK', RingInv, Store, ~IsFull, write' = Successor(write), empty' = FALSE,
         read' = read, slots' = [slots EXCEPT ![write] = arrived], arrived \in Nat,
         pc'[dispatch] # "setEmpty"
  PROVE  Contents' = Append(Contents, arrived) /\ Len(Contents) < QueueSize
<1>1. /\ Occupied \in Nat /\ QueueSize \in Nat /\ QueueSize >= 2
      /\ Contents \in Seq(Nat) /\ Len(Contents) = Occupied
      /\ \A i \in 1 .. Occupied : /\ Contents[i] = slots[Place(read, i)]
                                  /\ Place(read, i) \in Index
  BY ContentsAreSequence
<1>2. Occupied < QueueSize /\ Occupied' = Occupied + 1
  BY OccupiedStore
<1>3. Contents' \in Seq(Nat) /\ Len(Contents') = Occupied + 1
  BY <1>2, ContentsAreSequenceNext
<1>4. read \in 0 .. QueueSize - 1 /\ write \in 0 .. QueueSize - 1 /\ read \in Index
      /\ slots \in [Index -> Nat] /\ write \in Index
  BY DEF TypeOK, DataTypes, Index
<1>5. Occupied = IF empty THEN 0 ELSE IF write > read THEN write - read
                 ELSE QueueSize - (read - write)
  <2>1. pc[dispatch] # "setEmpty"
    BY DEF Store, RingInv, DispatcherInv, Free, dispatch
  <2>. QED
    BY <2>1 DEF Occupied
<1>6. (empty => read = write) /\ ~(~empty /\ write = read)
  BY DEF RingInv, DispatcherInv, IsFull
<1>7. \A i \in 1 .. Occupied + 1 :
        Place(read, i) = IF read + i - 1 < QueueSize THEN read + i - 1
                         ELSE read + i - 1 - QueueSize
  BY <1>1, <1>2, <1>4, PlaceInRing
<1>. HIDE DEF QueueSize
<1>8. Place(read, Occupied + 1) = write
  BY <1>1, <1>2, <1>4, <1>5, <1>6, <1>7
<1>9. \A i \in 1 .. Occupied : Place(read, i) # write
  BY <1>1, <1>2, <1>4, <1>5, <1>6, <1>7
<1>10. \A i \in 1 .. Occupied + 1 : Contents'[i] = slots'[Place(read, i)]
  BY <1>2 DEF Contents, Place
<1>11. \A i \in 1 .. Occupied + 1 : Contents'[i] = Append(Contents, arrived)[i]
  <2>. SUFFICES ASSUME NEW i \in 1 .. Occupied + 1
                PROVE  Contents'[i] = Append(Contents, arrived)[i]
    OBVIOUS
  <2>1. CASE i = Occupied + 1
    BY <1>1, <1>4, <1>8, <1>10, <2>1, AppendProperties
  <2>2. CASE i # Occupied + 1
    <3>1. i \in 1 .. Occupied
      BY <1>1, <2>2
    <3>2. slots'[Place(read, i)] = slots[Place(read, i)]
      BY <1>1, <1>4, <1>9, <3>1
    <3>. QED
      BY <1>1, <1>10, <3>1, <3>2, AppendProperties
  <2>. QED
    BY <2>1, <2>2
<1>12. Append(Contents, arrived) \in Seq(Nat) /\ Len(Append(Contents, arrived)) = Occupied + 1
  BY <1>1, AppendProperties
<1>13. Contents' = Append(Contents, arrived)
  BY <1>3, <1>11, <1>12, SeqEqual
<1>. QED
  BY <1>1, <1>2, <1>13

(* The end of a dispatch removes the first indication.                      *)
LEMMA ContentsAdvance ==
  ASSUME TypeOK, TypeOK', RingInv, Advance
  PROVE  Contents' = Tail(Contents) /\ Contents # <<>>
<1>1. /\ Occupied \in Nat /\ QueueSize \in Nat /\ QueueSize >= 2 /\ Occupied <= QueueSize
      /\ Contents \in Seq(Nat) /\ Len(Contents) = Occupied
      /\ \A i \in 1 .. Occupied : Contents[i] = slots[Place(read, i)]
  BY ContentsAreSequence
<1>2. Occupied > 0 /\ Occupied' = Occupied - 1
  BY OccupiedAdvance
<1>3. Contents' \in Seq(Nat) /\ Len(Contents') = Occupied - 1
  BY <1>2, ContentsAreSequenceNext
<1>4. read' = Successor(read) /\ slots' = slots /\ read \in Index
  BY DEF Advance, TypeOK, DataTypes
<1>5. Contents # <<>>
  BY <1>1, <1>2, EmptySeq
<1>6. /\ Tail(Contents) \in Seq(Nat) /\ Len(Tail(Contents)) = Occupied - 1
      /\ \A i \in 1 .. Occupied - 1 : Tail(Contents)[i] = Contents[i + 1]
  BY <1>1, <1>5, HeadTailProperties
<1>7. \A i \in 1 .. Occupied - 1 : Contents'[i] = slots[Place(Successor(read), i)]
  BY <1>2, <1>4 DEF Contents, Place
<1>. HIDE DEF QueueSize
<1>8. \A i \in 1 .. Occupied - 1 : /\ i \in 1 .. QueueSize - 1 /\ i + 1 \in 1 .. Occupied
  BY <1>1, <1>2
<1>9. \A i \in 1 .. Occupied - 1 : Contents'[i] = Tail(Contents)[i]
  BY <1>1, <1>4, <1>6, <1>7, <1>8, PlaceMovesOn
<1>10. Contents' = Tail(Contents)
  BY <1>3, <1>6, <1>9, SeqEqual
<1>. QED
  BY <1>5, <1>10

(* Where the dispatch thread stands, as far as the fifo can tell.           *)
Busy(label) == label \in {"lockSending", "request", "lockQueue", "advance"} \union CloseLabels
SameOutside(u, label) ==
  /\ u = poll => (pc[u] = "store" <=> label = "store")
  /\ u = dispatch => (Busy(pc[u]) <=> Busy(label)) /\ (pc[u] = "setEmpty" <=> label = "setEmpty")

(* A step that leaves the ring and the history alone, and moves no thread    *)
(* across a place the fifo can see, is a stutter of the fifo.               *)
LEMMA Stutters ==
  ASSUME UNCHANGED <<ring, arrived, handled, refused>>,
         \A u \in Threads : SameOutside(u, pc'[u])
  PROVE  UNCHANGED Fifo!fifoVars
<1>1. /\ pc[poll] = "store" <=> pc'[poll] = "store"
      /\ Busy(pc[dispatch]) <=> Busy(pc'[dispatch])
      /\ pc[dispatch] = "setEmpty" <=> pc'[dispatch] = "setEmpty"
  BY DEF SameOutside, Threads
<1>2. LastTaken' = LastTaken
  BY <1>1 DEF LastTaken
<1>3. Occupied' = Occupied
  BY <1>1, OccupiedFrame
<1>4. Contents' = Contents
  BY <1>3 DEF Contents, ring
<1>5. Serving' = Serving
  BY <1>1 DEF Serving, Busy
<1>. QED
  BY <1>2, <1>4, <1>5 DEF Fifo!fifoVars

(* Most steps move one thread between two places the fifo cannot tell apart. *)
LEMMA MovesUnseen ==
  ASSUME ControlTypes, UNCHANGED <<ring, arrived, handled, refused>>,
         NEW t \in Threads, NEW label \in Own(t), SameOutside(t, label),
         \/ Goto(t, label)
         \/ pc' = Signalled([pc EXCEPT ![t] = label]) /\ (t # dispatch \/ label # "waiting")
  PROVE  UNCHANGED Fifo!fifoVars
<1>1. SameOutside(t, pc'[t])
  BY GotoMoves, SignalMoves
<1>2. ASSUME NEW u \in Threads \ {t} PROVE SameOutside(u, pc'[u])
  <2>1. pc'[u] = pc[u] \/ (u = dispatch /\ pc[u] = "waiting" /\ pc'[u] = "relock")
    BY GotoMoves, SignalMoves
  <2>2. dispatch # poll
    BY DEF poll, dispatch
  <2>. QED
    BY <2>1, <2>2 DEF SameOutside, Busy, CloseLabels
<1>. QED
  BY <1>1, <1>2, Stutters

(* Storing an indication accepts or refuses it.                             *)
LEMMA StoreIsAcceptOrRefuse ==
  ASSUME QueueInv, TypeOK', Store
  PROVE  Fifo!Accept \/ Fifo!Refuse
<1>. DEFINE label == IF more /\ quota > 1 THEN "receive" ELSE "loop"
<1>1. /\ pc[poll] = "store" /\ queueMutex = Free /\ arrived' = arrived /\ handled' = handled
      /\ \/ /\ IsFull /\ refused' = refused \union {arrived} /\ UNCHANGED ring
            /\ Goto(poll, label)
         \/ /\ ~IsFull /\ refused' = refused
            /\ slots' = [slots EXCEPT ![write] = arrived]
            /\ write' = Successor(write) /\ empty' = FALSE /\ read' = read
            /\ pc' = Signalled([pc EXCEPT ![poll] = label])
  BY Zenon DEF Store, Goto, history
<1>2. ControlTypes /\ RingInv /\ TypeOK /\ arrived \in Nat /\ poll # dispatch
      /\ label \in Own(poll) /\ label # "store"
  BY DEF QueueInv, TypeOK, DataTypes, Own, PollLabels, poll, dispatch
<1>. HIDE DEF label
<1>3. /\ pc'[poll] = label
      /\ pc'[dispatch] = pc[dispatch]
         \/ (pc[dispatch] = "waiting" /\ pc'[dispatch] = "relock")
  BY <1>1, <1>2, GotoMoves, SignalMoves DEF Threads
<1>4. pc[dispatch] # "setEmpty" /\ pc'[dispatch] # "setEmpty"
  BY <1>1, <1>2, <1>3 DEF RingInv, DispatcherInv, Free, dispatch
<1>5. Serving' = Serving
  BY <1>3 DEF Serving, CloseLabels
<1>6. arrived = LastTaken + 1 /\ LastTaken' = arrived
  BY <1>1, <1>2, <1>3 DEF LastTaken
<1>7. CASE IsFull
  <2>1. UNCHANGED ring /\ refused' = refused \union {arrived}
    BY <1>1, <1>7
  <2>2. Occupied' = Occupied
    BY <1>4, <2>1, OccupiedFrame
  <2>3. Contents' = Contents
    BY <2>1, <2>2 DEF Contents, ring
  <2>4. write \in Int /\ read \in Int /\ QueueSize \in Int
    BY <1>2, QueueAssumption DEF TypeOK, DataTypes, Index, QueueSize
  <2>5. Occupied = QueueSize
    BY <1>4, <1>7, <2>4 DEF Occupied, IsFull
  <2>6. Len(Contents) = QueueSize
    BY <1>2, <2>5, ContentsAreSequence
  <2>. QED
    BY <1>1, <1>5, <1>6, <2>1, <2>3, <2>6 DEF Fifo!Refuse
<1>8. CASE ~IsFull
  <2>1. Contents' = Append(Contents, arrived) /\ Len(Contents) < QueueSize
    BY <1>1, <1>2, <1>4, <1>8, ContentsStore
  <2>. QED
    BY <1>1, <1>5, <1>6, <1>8, <2>1 DEF Fifo!Accept
<1>. QED
  BY <1>7, <1>8

(* Calling a handler serves the head of the fifo.                           *)
LEMMA HandleIsServe ==
  ASSUME QueueInv, Handle
  PROVE  Fifo!Serve
<1>1. PICK label \in {"lockQueue", "lockSending"} : Goto(dispatch, label)
  BY DEF Handle
<1>2. /\ pc[dispatch] = "handle" /\ UNCHANGED <<ring, arrived, refused>>
      /\ handled' = Append(handled, slots[read])
  BY DEF Handle
<1>3. ControlTypes /\ RingInv /\ TypeOK /\ poll # dispatch /\ label \in Own(dispatch)
  BY <1>1 DEF QueueInv, TypeOK, Own, DispatchLabels, poll, dispatch
<1>4. pc'[dispatch] = label /\ pc'[poll] = pc[poll]
  BY <1>1, <1>3, GotoMoves DEF Threads
<1>5. Occupied' = Occupied
  BY <1>1, <1>2, <1>4, OccupiedFrame
<1>6. LastTaken' = LastTaken /\ Contents' = Contents
  BY <1>2, <1>4, <1>5 DEF LastTaken, Contents, ring
<1>7. Serving = FALSE /\ Serving' = TRUE
  BY <1>1, <1>2, <1>4 DEF Serving, CloseLabels
<1>8. Occupied \in Nat \ {0}
  <2>1. ~empty
    BY <1>2, <1>3 DEF RingInv, DispatcherInv
  <2>2. write \in 0 .. QueueSize - 1 /\ read \in 0 .. QueueSize - 1 /\ QueueSize \in Nat
    BY <1>3, QueueAssumption DEF TypeOK, DataTypes, Index, QueueSize
  <2>. QED
    BY <1>2, <2>1, <2>2 DEF Occupied
<1>9. /\ Contents \in Seq(Nat) /\ Len(Contents) = Occupied
      /\ Contents[1] = slots[Place(read, 1)]
      /\ Place(read, 1) = read
  <2>1. 1 \in 1 .. QueueSize /\ read \in Index /\ read \in 0 .. QueueSize - 1
        /\ QueueSize \in Nat /\ 1 \in 1 .. Occupied
    BY <1>3, <1>8, QueueAssumption DEF TypeOK, DataTypes, Index, QueueSize
  <2>2. Place(read, 1) = read
    BY <2>1, PlaceInRing
  <2>. QED
    BY <1>3, <2>1, <2>2, ContentsAreSequence
<1>10. Contents # <<>> /\ Head(Contents) = slots[read]
  BY <1>8, <1>9, EmptySeq, HeadTailProperties
<1>. QED
  BY <1>2, <1>6, <1>7, <1>10 DEF Fifo!Serve

(* Advancing m_ind_queue_read after a handler releases the head.            *)
LEMMA AdvanceIsRelease ==
  ASSUME QueueInv, TypeOK', Advance
  PROVE  Fifo!Release
<1>1. /\ pc[dispatch] = "advance" /\ Goto(dispatch, "setEmpty")
      /\ UNCHANGED <<arrived, handled, refused>>
  BY DEF Advance, history
<1>2. ControlTypes /\ RingInv /\ TypeOK /\ poll # dispatch /\ "setEmpty" \in Own(dispatch)
  BY DEF QueueInv, TypeOK, Own, DispatchLabels, poll, dispatch
<1>3. pc'[dispatch] = "setEmpty" /\ pc'[poll] = pc[poll]
  BY <1>1, <1>2, GotoMoves DEF Threads
<1>4. LastTaken' = LastTaken
  BY <1>1, <1>3 DEF LastTaken
<1>5. Serving = TRUE /\ Serving' = FALSE
  BY <1>1, <1>3 DEF Serving, CloseLabels
<1>6. Contents' = Tail(Contents)
  BY <1>2, ContentsAdvance
<1>. QED
  BY <1>1, <1>4, <1>5, <1>6 DEF Fifo!Release

(* Making m_queue_empty agree with the indices is not seen.                 *)
LEMMA SetEmptyUnseen ==
  ASSUME QueueInv, SetEmpty
  PROVE  UNCHANGED Fifo!fifoVars
<1>1. /\ pc[dispatch] = "setEmpty" /\ Goto(dispatch, "test")
      /\ UNCHANGED <<slots, read, arrived, handled, refused>>
  BY DEF SetEmpty, history
<1>2. ControlTypes /\ RingInv /\ TypeOK /\ poll # dispatch /\ "test" \in Own(dispatch)
  BY DEF QueueInv, TypeOK, Own, DispatchLabels, poll, dispatch
<1>3. pc'[dispatch] = "test" /\ pc'[poll] = pc[poll]
  BY <1>1, <1>2, GotoMoves DEF Threads
<1>4. LastTaken' = LastTaken
  BY <1>1, <1>3 DEF LastTaken
<1>5. Serving' = Serving
  BY <1>1, <1>3 DEF Serving, CloseLabels
<1>6. Occupied' = Occupied
  BY <1>2, OccupiedSetEmpty
<1>7. Contents' = Contents
  BY <1>1, <1>6 DEF Contents
<1>. QED
  BY <1>1, <1>4, <1>5, <1>7 DEF Fifo!fifoVars

(* An indication that arrived and is not stored yet is not seen.            *)
LEMMA ArrivalUnseen ==
  ASSUME QueueInv, pc[poll] = "receive", arrived' = arrived + 1, Goto(poll, "store"),
         UNCHANGED <<ring, handled, refused>>
  PROVE  UNCHANGED Fifo!fifoVars
<1>1. ControlTypes /\ arrived \in Nat /\ poll # dispatch /\ "store" \in Own(poll)
  BY DEF QueueInv, TypeOK, DataTypes, Own, PollLabels, poll, dispatch
<1>2. pc'[poll] = "store" /\ pc'[dispatch] = pc[dispatch]
  BY <1>1, GotoMoves DEF Threads
<1>3. LastTaken' = LastTaken
  BY <1>1, <1>2 DEF LastTaken
<1>4. Occupied' = Occupied
  BY <1>2, OccupiedFrame
<1>5. Contents' = Contents /\ Serving' = Serving
  BY <1>2, <1>4 DEF Contents, ring, Serving
<1>. QED
  BY <1>3, <1>5 DEF Fifo!fifoVars

(* Every step of the threads is a step of the fifo or is not seen.          *)
LEMMA FifoStep ==
  ASSUME QueueInv, TypeOK', [Next]_vars
  PROVE  [Fifo!Next]_(Fifo!fifoVars)
<1>. DEFINE Frame == UNCHANGED <<ring, arrived, handled, refused>>
            Goal == [Fifo!Next]_(Fifo!fifoVars)
<1>d. poll # dispatch /\ poll # app /\ dispatch # app /\ Threads = {poll, dispatch, app}
  BY DEF poll, dispatch, app, Threads
<1>c. ControlTypes
  BY DEF QueueInv, TypeOK
(* The steps between two places the fifo cannot tell apart. *)
<1>1. ASSUME NEW t \in Threads, NEW label \in Own(t), SameOutside(t, label), Frame,
             \/ Goto(t, label)
             \/ pc' = Signalled([pc EXCEPT ![t] = label]) /\ (t # dispatch \/ label # "waiting")
      PROVE  Goal
  BY <1>1, <1>c, MovesUnseen
<1>2. ASSUME NEW t \in Threads, Watchdog(t), pc[t] \in {"poll", "request"}
      PROVE  Goal
  <2>1. Goto(t, "stopDispatch") /\ Frame
    BY <1>2 DEF Watchdog, history
  <2>2. "stopDispatch" \in Own(t)
    BY DEF Own, CloseLabels
  <2>3. t = dispatch => pc[t] = "request"
    BY <1>2, <1>c, <1>d DEF ControlTypes, DispatchLabels, CloseLabels
  <2>4. SameOutside(t, "stopDispatch")
    BY <1>2, <2>3 DEF SameOutside, Busy, CloseLabels
  <2>. QED
    BY <1>1, <2>1, <2>2, <2>4
<1>3. CASE PollLoop \/ SeeEmpty \/ SeeFull \/ SeeEmptyAgain \/ SeeOrder \/ SeeRoom
  <2>1. PICK label \in {"done", "seeEmpty", "seeEmptyAgain", "seeFull", "loop", "seeOrder",
                        "roomAhead", "roomBehind", "lockSending"} :
          Goto(poll, label) /\ Frame
    BY <1>3 DEF PollLoop, SeeEmpty, SeeFull, SeeEmptyAgain, SeeOrder, SeeRoom, Ask, history
  <2>2. pc[poll] # "store"
    BY <1>3 DEF PollLoop, SeeEmpty, SeeFull, SeeEmptyAgain, SeeOrder, SeeRoom
  <2>3. label \in Own(poll) /\ SameOutside(poll, label)
    BY <1>d, <2>1, <2>2 DEF Own, PollLabels, SameOutside
  <2>. QED
    BY <1>1, <1>d, <2>1, <2>3
<1>4. CASE LeavePoll /\ pc[poll] \in {"poll", "receive"}
  <2>1. Goto(poll, "loop") /\ Frame
    BY <1>4 DEF LeavePoll, history
  <2>2. "loop" \in Own(poll) /\ SameOutside(poll, "loop")
    BY <1>4, <1>d DEF Own, PollLabels, SameOutside
  <2>. QED
    BY <1>1, <1>d, <2>1, <2>2
<1>5. CASE PollRequest
  <2>1. \/ LeavePoll /\ pc[poll] \in {"poll", "receive"}
        \/ Watchdog(poll) /\ pc[poll] \in {"poll", "request"}
        \/ Goto(poll, "receive") /\ Frame /\ pc[poll] = "poll"
    BY <1>5 DEF PollRequest, history
  <2>2. pc[poll] = "poll" => SameOutside(poll, "receive")
    BY <1>d DEF SameOutside
  <2>3. "receive" \in Own(poll)
    BY DEF Own, PollLabels
  <2>. QED
    BY <1>1, <1>2, <1>4, <1>d, <2>1, <2>2, <2>3
<1>6. CASE Receive
  <2>1. \/ LeavePoll /\ pc[poll] \in {"poll", "receive"}
        \/ /\ pc[poll] = "receive" /\ arrived' = arrived + 1 /\ Goto(poll, "store")
           /\ UNCHANGED <<ring, handled, refused>>
    BY <1>6 DEF Receive
  <2>. QED
    BY <1>4, <2>1, ArrivalUnseen
<1>7. CASE Store
  BY <1>7, StoreIsAcceptOrRefuse DEF Fifo!Next
<1>8. CASE LockQueue \/ TestRunning \/ Look \/ SpuriousWakeup \/ Recheck \/ Take
  <2>1. PICK label \in {"test", "recheck", "advance", "look", "done", "take", "waiting", "relock",
                        "handle"} :
          /\ Goto(dispatch, label) /\ Frame
          /\ label = "advance" <=> pc[dispatch] = "lockQueue"
    BY <1>8 DEF LockQueue, TestRunning, Look, SpuriousWakeup, Recheck, Take, history
  <2>2. pc[dispatch] \in {"start", "relock", "lockQueue", "test", "look", "waiting", "recheck",
                          "take"}
    BY <1>8 DEF LockQueue, TestRunning, Look, SpuriousWakeup, Recheck, Take
  <2>3. label \in Own(dispatch)
    BY <1>d, <2>1 DEF Own, DispatchLabels
  <2>4. SameOutside(dispatch, label)
    BY <1>d, <2>1, <2>2 DEF SameOutside, Busy, CloseLabels
  <2>. QED
    BY <1>1, <1>d, <2>1, <2>3, <2>4
<1>9. CASE Handle
  BY <1>9, HandleIsServe DEF Fifo!Next
<1>10. CASE Advance
  BY <1>10, AdvanceIsRelease DEF Fifo!Next
<1>11. CASE SetEmpty
  BY <1>11, SetEmptyUnseen
<1>12. CASE StartRequest \/ CallClose
  <2>1. PICK label \in {"lockSending", "stopDispatch"} : Goto(app, label) /\ Frame
    BY <1>12 DEF StartRequest, CallClose, history
  <2>2. label \in Own(app) /\ SameOutside(app, label)
    BY <1>d, <2>1 DEF Own, AppLabels, CloseLabels, SameOutside
  <2>. QED
    BY <1>1, <1>d, <2>1, <2>2
<1>13. CASE Reopen
  <2>1. /\ pc' = [pc EXCEPT ![poll] = "loop", ![dispatch] = "start", ![app] = "idle"]
        /\ Frame /\ pc[poll] = "done" /\ pc[dispatch] = "done"
    BY <1>13 DEF Reopen, history
  <2>2. pc'[poll] = "loop" /\ pc'[dispatch] = "start"
    BY <1>c, <1>d, <2>1 DEF ControlTypes
  <2>3. \A u \in Threads : SameOutside(u, pc'[u])
    BY <1>d, <2>1, <2>2 DEF SameOutside, Busy, CloseLabels
  <2>. QED
    BY <2>1, <2>3, Stutters
<1>14. ASSUME NEW t \in Threads, LockSending(t)
       PROVE  Goal
  <2>1. pc[t] = "lockSending" /\ Goto(t, IF t = poll THEN "poll" ELSE "request") /\ Frame
    BY <1>14 DEF LockSending, history
  <2>2. (IF t = poll THEN "poll" ELSE "request") \in Own(t)
    BY <1>d DEF Own, PollLabels, DispatchLabels, AppLabels
  <2>3. SameOutside(t, IF t = poll THEN "poll" ELSE "request")
    BY <1>d, <2>1 DEF SameOutside, Busy, CloseLabels
  <2>. QED
    BY <1>1, <2>1, <2>2, <2>3
<1>15. ASSUME NEW t \in Threads, t # poll, FinishRequest(t)
       PROVE  Goal
  <2>1. \/ Watchdog(t) /\ pc[t] \in {"poll", "request"}
        \/ /\ Goto(t, IF t = app THEN "idle" ELSE "lockQueue") /\ Frame
           /\ pc[t] = "request"
    BY <1>15 DEF FinishRequest, history
  <2>2. (IF t = app THEN "idle" ELSE "lockQueue") \in Own(t)
    BY <1>15, <1>d DEF Own, DispatchLabels, AppLabels
  <2>3. pc[t] = "request" => SameOutside(t, IF t = app THEN "idle" ELSE "lockQueue")
    BY <1>15, <1>d DEF SameOutside, Busy, CloseLabels
  <2>. QED
    BY <1>1, <1>2, <2>1, <2>2, <2>3
<1>16. ASSUME NEW t \in Threads, CloseStep(t)
       PROVE  Goal
  <2>1. Frame /\ pc[t] \in CloseLabels
    BY <1>16 DEF CloseStep, StopDispatch, Signal, StopPolling, JoinPoll, JoinDispatch, Destroy,
                 CloseLabels, history
  <2>2. PICK label \in CloseLabels :
          \/ Goto(t, label)
          \/ pc' = Signalled([pc EXCEPT ![t] = label]) /\ label # "waiting"
    BY <1>16 DEF CloseStep, StopDispatch, Signal, StopPolling, JoinPoll, JoinDispatch, Destroy,
                 CloseLabels
  <2>3. label \in Own(t) /\ SameOutside(t, label)
    BY <1>d, <2>1, <2>2 DEF Own, SameOutside, Busy, CloseLabels
  <2>. QED
    BY <1>1, <2>1, <2>2, <2>3
<1>17. CASE UNCHANGED vars
  BY <1>17, Stutters DEF vars, history, SameOutside
<1>. QED
  BY <1>3, <1>5, <1>6, <1>7, <1>8, <1>9, <1>10, <1>11, <1>12, <1>13, <1>14, <1>15, <1>16, <1>17
     DEF Next, ThreadStep, PollStep, DispatchStep

(* The ring, its locks, its threads and its reopenings implement the bounded *)
(* fifo of IndicationFifo: nothing acknowledged to the node is reordered,   *)
(* handled twice, overwritten or forgotten, for every size of the ring.     *)
THEOREM ImplementsTheFifo == Spec => ImplementsFifo
<1>1. Init => Fifo!Init
  <2>. SUFFICES ASSUME Init PROVE Fifo!Init
    OBVIOUS
  <2>1. pc[poll] = "loop" /\ pc[dispatch] = "start"
    BY DEF Init, Threads, poll, dispatch, app
  <2>2. Occupied = 0 /\ LastTaken = 0 /\ Serving = FALSE
    BY <2>1 DEF Init, Occupied, LastTaken, Serving, CloseLabels
  <2>3. Contents = <<>>
    BY <2>2, InitInv, ContentsAreSequence, EmptySeq
  <2>. QED
    BY <2>2, <2>3 DEF Init, Fifo!Init
<1>2. QueueInv /\ QueueInv' /\ [Next]_vars => [Fifo!Next]_(Fifo!fifoVars)
  BY FifoStep DEF QueueInv
<1>. QED
  BY <1>1, <1>2, QueueInvariant, PTL DEF Spec, ImplementsFifo, Fifo!Spec
=============================================================================
