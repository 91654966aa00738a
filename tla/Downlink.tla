------------------------------ MODULE Downlink ------------------------------
(***************************************************************************)
(* Downlink messages: the D-Bus thread of the sink service (sink_service/  *)
(* source/data.c, send_message) sends them through dsap_data_tx_request    *)
(* of c-mesh-api and counts what the sink holds; the dispatch thread of    *)
(* the library takes the TX indications and, through the table of dsap.c,  *)
(* calls back on_data_sent_cb, which gives the capacity back.  The two     *)
(* threads share the table and the counter without any lock.               *)
(*                                                                         *)
(* The node is outside: it accepts or refuses a frame, sends one TX        *)
(* indication for every message it accepted, and forgets what it holds     *)
(* when it resets.                                                         *)
(***************************************************************************)
EXTENDS Integers, Sequences, FiniteSets, Functions

CONSTANTS
  DownlinkLimit,  \* m_downlink_limit, 1 .. 16 (0 turns the accounting off)
  TableSize,      \* MAX_SENT_PACKET_WITH_INDICATION, 16
  ByteRange,      \* 256: m_message_queued_in_sink is a uint8_t
  IdRange,        \* 256: m_pdu_id is a uint8_t
  Weights,        \* message sizes, in fragments; 0 is an empty message
  MaxMessages,    \* bound: messages given to WPC_send_data_with_options
  MaxResets       \* bound: resets of the node

ASSUME DownlinkAssumption ==
  /\ DownlinkLimit \in Nat \ {0} /\ TableSize \in Nat
  /\ DownlinkLimit <= TableSize   \* main.c refuses a limit over 16
  /\ ByteRange \in Nat /\ 2 * DownlinkLimit < ByteRange
  /\ IdRange \in Nat \ {0}
  /\ Weights \subseteq Nat /\ {MaxMessages, MaxResets} \subseteq Nat

Slots == 1 .. TableSize

(* What pdu_id is made of; sent numbers the messages and is history.        *)
NoPdu == [weight |-> 0, id |-> 0, sent |-> 0]

VARIABLES
  queued,   \* m_message_queued_in_sink
  nextId,   \* m_pdu_id
  busy, entry, \* indication_sent_cb_table: the flag, and the pdu_id beside it
  bus, busPdu, fragment, busSlot, busLoad,   \* the thread in send_message
  disp, dispPdu, dispSlot, found, dispLoad,  \* the dispatch thread
  inSink,      \* messages the node holds
  loose,       \* fragments it holds of messages that were abandoned
  indications, \* TX indications in the indication queue
  sent, resets, \* so far
  confirmed,   \* history: messages whose confirm was received and successful
  mishaps      \* history: what went wrong so far, see Mishaps

busState == <<bus, busPdu, fragment, busSlot, busLoad>>
dispState == <<disp, dispPdu, dispSlot, found, dispLoad>>
table == <<busy, entry>>
nodeState == <<inSink, loose, indications, resets>>
vars == <<queued, nextId, table, busState, dispState, nodeState, sent, confirmed, mishaps>>

(* "race": a += and a -= on the counter overlapped.  "early": the           *)
(* indication of a message was taken before the message was registered.     *)
(* "half": an entry was matched before its new pdu_id was filled in.        *)
(* "full": no entry was free.  "clash": two messages in flight have the     *)
(* same pdu_id.  "missed": the indication of a confirmed message found no   *)
(* entry.  "stolen": that of a message that was not confirmed found one.    *)
(* "reset": the node forgot messages.  "empty": a message had no byte.      *)
(* "abandoned": a message failed that the node holds, in part or as a whole. *)
Mishaps == {"race", "early", "half", "full", "clash", "missed", "stolen", "reset", "empty",
            "abandoned"}
Mishap(kinds) == mishaps' = mishaps \union kinds

PduId(pdu) == <<pdu.weight, pdu.id>>

Init ==
  /\ queued = 0 /\ nextId = 0
  /\ busy = [i \in Slots |-> FALSE] /\ entry = [i \in Slots |-> PduId(NoPdu)]
  /\ bus = "idle" /\ busPdu = NoPdu /\ fragment = 0 /\ busSlot = 1 /\ busLoad = 0
  /\ disp = "idle" /\ dispPdu = NoPdu /\ dispSlot = 1 /\ found = FALSE /\ dispLoad = 0
  /\ inSink = {} /\ loose = 0 /\ indications = <<>> /\ sent = 0 /\ resets = 0
  /\ confirmed = {} /\ mishaps = {}
(* A return from either function ends the life of its locals. *)
BusReturns == bus' = "idle" /\ busPdu' = NoPdu /\ fragment' = 0 /\ busSlot' = 1 /\ busLoad' = 0
DispReturns == /\ disp' = "idle" /\ dispPdu' = NoPdu /\ dispSlot' = 1
               /\ found' = FALSE /\ dispLoad' = 0
-----------------------------------------------------------------------------
(* send_message of data.c, on the D-Bus thread.                             *)

(* APP_RES_OUT_OF_MEMORY is returned to the caller when the sink is full.   *)
FitsOneMore(weight) == queued + weight <= DownlinkLimit + 1
Fits(weight) == queued + weight <= DownlinkLimit

IdsInFlight ==
  {PduId(pdu) : pdu \in (inSink \union Range(indications) \union {dispPdu}) \ {NoPdu}}
    \union {entry[i] : i \in {j \in Slots : busy[j]}}

SendMessage ==
  /\ bus = "idle"
  /\ sent < MaxMessages
  /\ \E weight \in Weights :
       /\ Fits(weight)
       /\ busPdu' = [weight |-> weight, id |-> nextId, sent |-> sent + 1]
       /\ Mishap((IF weight = 0 THEN {"empty"} ELSE {})
                   \union (IF <<weight, nextId>> \in IdsInFlight THEN {"clash"} ELSE {}))
  /\ sent' = sent + 1
  /\ nextId' = (nextId + 1) % IdRange
  /\ fragment' = 1
  /\ bus' = "request"
  /\ UNCHANGED <<queued, table, busSlot, busLoad, dispState, nodeState, confirmed>>

LastFragment == fragment >= busPdu.weight

(* One exchange with the node.  A message of several fragments is abandoned *)
(* at the first that fails, or whose confirm is lost; the ones before stay  *)
(* in the sink, and only a last fragment has a TX indication.               *)
RequestFails ==
  /\ bus = "request"
  /\ BusReturns
  /\ \E taken \in {fragment - 1, fragment} :
       /\ IF taken = fragment /\ LastFragment
            THEN inSink' = inSink \union {busPdu} /\ UNCHANGED loose
            ELSE loose' = loose + taken /\ UNCHANGED inSink
       /\ Mishap(IF taken > 0 THEN {"abandoned"} ELSE {})
  /\ UNCHANGED <<queued, nextId, table, dispState, indications, resets, sent, confirmed>>

FragmentAccepted ==
  /\ bus = "request"
  /\ ~LastFragment
  /\ fragment' = fragment + 1
  /\ UNCHANGED <<queued, nextId, table, bus, busPdu, busSlot, busLoad, dispState, nodeState,
                 sent, confirmed, mishaps>>

MessageAccepted ==
  /\ bus = "request"
  /\ LastFragment
  /\ inSink' = inSink \union {busPdu}
  /\ confirmed' = confirmed \union {busPdu.sent}
  /\ bus' = "register" /\ busSlot' = 1
  /\ UNCHANGED <<queued, nextId, table, busPdu, fragment, busLoad, dispState, loose,
                 indications, resets, sent, mishaps>>

(* set_indication_cb, after the confirm; its result is not looked at.       *)
FreeAlways(slot) == TRUE
FreeSlot(slot) == ~busy[slot]

RegisterSlot ==
  /\ bus = "register"
  /\ \/ /\ busSlot \in Slots /\ FreeSlot(busSlot)
        /\ busy' = [busy EXCEPT ![busSlot] = TRUE]
        /\ bus' = "fill"
        /\ UNCHANGED <<busSlot, mishaps>>
     \/ /\ busSlot \in Slots /\ ~FreeSlot(busSlot)
        /\ busSlot' = busSlot + 1
        /\ UNCHANGED <<busy, bus, mishaps>>
     \/ /\ busSlot \notin Slots
        /\ bus' = "load"
        /\ Mishap({"full"})
        /\ UNCHANGED <<busy, busSlot>>
  /\ UNCHANGED <<queued, nextId, entry, busPdu, fragment, busLoad, dispState, nodeState, sent,
                 confirmed>>

FillSlot ==
  /\ bus = "fill"
  /\ entry' = [entry EXCEPT ![busSlot] = PduId(busPdu)]
  /\ bus' = "load"
  /\ UNCHANGED <<queued, nextId, busy, busPdu, fragment, busSlot, busLoad, dispState, nodeState,
                 sent, confirmed, mishaps>>

(* m_message_queued_in_sink += weight: a load, then a store. *)
LoadCounter ==
  /\ bus = "load"
  /\ busLoad' = queued
  /\ bus' = "store"
  /\ UNCHANGED <<queued, nextId, table, busPdu, fragment, busSlot, dispState, nodeState, sent,
                 confirmed, mishaps>>

StoreCounter ==
  /\ bus = "store"
  /\ queued' = (busLoad + busPdu.weight) % ByteRange
  /\ BusReturns
  /\ Mishap(IF disp = "store" THEN {"race"} ELSE {})
  /\ UNCHANGED <<nextId, table, dispState, nodeState, sent, confirmed>>
-----------------------------------------------------------------------------
(* dsap_data_tx_indication_handler, on the dispatch thread.                 *)

TakeIndication ==
  /\ disp = "idle"
  /\ indications # <<>>
  /\ dispPdu' = Head(indications)
  /\ indications' = Tail(indications)
  /\ dispSlot' = 1 /\ found' = FALSE
  /\ disp' = "scan"
  /\ Mishap(IF dispPdu' = busPdu /\ bus \in {"register", "fill"} THEN {"early"} ELSE {})
  /\ UNCHANGED <<queued, nextId, table, busState, dispLoad, inSink, loose, resets, sent,
                 confirmed>>

MatchesAny(slot) == busy[slot]
MatchesId(slot) == busy[slot] /\ entry[slot] = PduId(dispPdu)

(* get_indication_cb goes through the whole table and frees every match.    *)
ScanSlot ==
  /\ disp = "scan"
  /\ dispSlot \in Slots
  /\ dispSlot' = dispSlot + 1
  /\ \/ /\ MatchesId(dispSlot)
        /\ busy' = [busy EXCEPT ![dispSlot] = FALSE]
        /\ found' = TRUE
        /\ Mishap(IF bus = "fill" /\ busSlot = dispSlot THEN {"half"} ELSE {})
     \/ ~MatchesId(dispSlot) /\ UNCHANGED <<busy, found, mishaps>>
  /\ UNCHANGED <<queued, nextId, entry, busState, disp, dispPdu, dispLoad, nodeState, sent,
                 confirmed>>

ScanDone ==
  /\ disp = "scan"
  /\ dispSlot \notin Slots
  /\ \/ /\ found
        /\ disp' = "load"
        /\ UNCHANGED <<dispPdu, dispSlot, found, dispLoad>>
     \/ ~found /\ DispReturns
  /\ Mishap(IF found /\ dispPdu.sent \notin confirmed THEN {"stolen"}
            ELSE IF ~found /\ dispPdu.sent \in confirmed THEN {"missed"} ELSE {})
  /\ UNCHANGED <<queued, nextId, table, busState, nodeState, sent, confirmed>>

(* on_data_sent_cb: m_message_queued_in_sink -= weight. *)
LoadCounterCb ==
  /\ disp = "load"
  /\ dispLoad' = queued
  /\ disp' = "store"
  /\ UNCHANGED <<queued, nextId, table, busState, dispPdu, dispSlot, found, nodeState, sent,
                 confirmed, mishaps>>

KeepsCount(pdu) == dispLoad
GivenBackUnwrapped(pdu) == dispLoad - pdu.weight
GivenBack(pdu) == (dispLoad - pdu.weight) % ByteRange

StoreCounterCb ==
  /\ disp = "store"
  /\ queued' = GivenBack(dispPdu)
  /\ DispReturns
  /\ Mishap(IF bus = "store" THEN {"race"} ELSE {})
  /\ UNCHANGED <<nextId, table, busState, nodeState, sent, confirmed>>
-----------------------------------------------------------------------------
(* The node. *)
Transmitted ==  \* the message left, and the poller stored its TX indication
  /\ \E pdu \in inSink :
       /\ inSink' = inSink \ {pdu}
       /\ indications' = Append(indications, pdu)
  /\ UNCHANGED <<queued, nextId, table, busState, dispState, loose, resets, sent, confirmed,
                 mishaps>>

LooseTransmitted ==
  /\ loose > 0
  /\ loose' = loose - 1
  /\ UNCHANGED <<queued, nextId, table, busState, dispState, inSink, indications, resets, sent,
                 confirmed, mishaps>>

NodeReset ==
  /\ resets < MaxResets
  /\ inSink # {} \/ loose > 0
  /\ resets' = resets + 1
  /\ inSink' = {} /\ loose' = 0
  /\ Mishap({"reset"})
  /\ UNCHANGED <<queued, nextId, table, busState, dispState, indications, sent, confirmed>>
-----------------------------------------------------------------------------
BusStep == \/ SendMessage \/ RequestFails \/ FragmentAccepted \/ MessageAccepted
           \/ RegisterSlot \/ FillSlot \/ LoadCounter \/ StoreCounter

DispatchStep == \/ TakeIndication \/ ScanSlot \/ ScanDone \/ LoadCounterCb \/ StoreCounterCb

Next == BusStep \/ DispatchStep \/ Transmitted \/ LooseTransmitted \/ NodeReset

Spec == Init /\ [][Next]_vars
-----------------------------------------------------------------------------
Pdus == [weight : Weights \union {0}, id : 0 .. IdRange - 1, sent : 0 .. MaxMessages]

(* Every variable keeps its type; the counter stays a byte. *)
TypeOK ==
  /\ queued \in 0 .. ByteRange - 1 /\ busLoad \in 0 .. ByteRange - 1
  /\ dispLoad \in 0 .. ByteRange - 1
  /\ nextId \in 0 .. IdRange - 1
  /\ busy \in [Slots -> BOOLEAN]
  /\ entry \in [Slots -> {PduId(pdu) : pdu \in Pdus}]
  /\ bus \in {"idle", "request", "register", "fill", "load", "store"}
  /\ disp \in {"idle", "scan", "load", "store"}
  /\ busPdu \in Pdus /\ dispPdu \in Pdus
  /\ fragment \in 0 .. DownlinkLimit
  /\ busSlot \in 1 .. TableSize + 1 /\ dispSlot \in 1 .. TableSize + 1 /\ found \in BOOLEAN
  /\ inSink \subseteq Pdus /\ indications \in Seq(Pdus) /\ loose \in Nat
  /\ sent \in 0 .. MaxMessages /\ resets \in 0 .. MaxResets
  /\ confirmed \subseteq 1 .. sent /\ mishaps \subseteq Mishaps

(* The fragments of messages, one for each unit of their weight. *)
Fragments(pdus) == UNION {{pdu} \X (1 .. pdu.weight) : pdu \in pdus}
Weigh(pdus) == Cardinality(Fragments({pdu \in pdus : pdu.sent \in confirmed}))

(* What the sink holds, with the fragments of a message not yet complete.   *)
Load == Cardinality(Fragments(inSink)) + loose + IF bus = "request" THEN fragment - 1 ELSE 0

(* "Max number of downlink packet being sent in parallel": what the sink    *)
(* holds never exceeds the limit, unless an update of the counter was lost  *)
(* or a callback ran for another message; or a message was abandoned whose  *)
(* fragments the sink goes on to send (dsap.c:266, 276), and then at least  *)
(* the confirmed messages keep to it.                                       *)
LimitKept ==
  mishaps \intersect {"race", "stolen"} = {} =>
    /\ Weigh(inSink) <= DownlinkLimit
    /\ Load <= DownlinkLimit \/ "abandoned" \in mishaps

(* "Keep track of packet queued on the sink": between two messages and two  *)
(* indications the counter is what the sink and the indication queue hold,  *)
(* unless an indication was missed or stolen, an update was lost, or the    *)
(* node was reset.                                                          *)
CountedExactly ==
  (bus = "idle" /\ disp = "idle" /\ mishaps \intersect {"race", "missed", "stolen", "reset"} = {})
    => queued = Weigh(inSink \union Range(indications))

(* An indication fails to find the entry of its confirmed message only      *)
(* because it came before the registration, or the entry was taken for the  *)
(* message it held before, or the table was full, or two messages shared a  *)
(* pdu_id; and the table is full only after such a loss, a race or a reset, *)
(* or with empty messages, which weigh nothing.                             *)
EntryFound ==
  /\ "missed" \in mishaps => mishaps \intersect {"early", "half", "full", "clash"} # {}
  /\ "full" \in mishaps =>
       mishaps \intersect {"early", "clash", "race", "stolen", "reset", "empty"} # {}

(* Once everything sent has been indicated and called back, the whole       *)
(* capacity is there again.                                                 *)
CapacityComesBack ==
  (bus = "idle" /\ disp = "idle" /\ inSink = {} /\ indications = <<>>) => queued = 0
=============================================================================
