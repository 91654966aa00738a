----------------------------- MODULE Reassembly -----------------------------
(***************************************************************************)
(* Uplink messages longer than one packet: the dispatch thread of c-mesh-  *)
(* api collects their fragments per source and packet id (reassembly.c),   *)
(* gives a message that has become full to the application, and now and    *)
(* then forgets the incomplete ones (dsap_data_rx_frag_indication_handler  *)
(* of dsap.c).                                                             *)
(*                                                                         *)
(* The sending nodes and the mesh are outside: fragments arrive late, out  *)
(* of order, more than once (a node repeats an indication whose response   *)
(* it missed) or never, and packet ids come back after a wrap or a reboot. *)
(*                                                                         *)
(* The bytes are left out: a fragment stands for the bytes of its message  *)
(* at its offset.                                                          *)
(***************************************************************************)
EXTENDS Integers, Sequences, FiniteSetsExt, Functions

CONSTANTS
  Sources,         \* nodes that send
  PacketIdRange,   \* 2^12: a packet id has 12 bits
  Mtu,             \* bytes a fragment carries
  Lengths,         \* lengths of messages, in bytes: over Mtu, up to 1500
  MaxDuration,     \* what WPC_set_max_fragment_duration sets, in seconds
  GcPeriod,        \* MIN_GARBAGE_COLLECT_PERIOD_S, in clock ticks
  TicksPerSecond,  \* 1000: timestamps are in milliseconds
  MaxMessages, MaxReboots, MaxDuplicates, MaxFailures, MaxTime  \* bounds

ASSUME ReassemblyAssumption ==
  /\ {PacketIdRange, Mtu, TicksPerSecond} \subseteq Nat \ {0}
  /\ Lengths \subseteq {length \in Nat : length > Mtu}
  /\ {MaxDuration, GcPeriod} \subseteq Nat
  /\ {MaxMessages, MaxReboots, MaxDuplicates, MaxFailures, MaxTime} \subseteq Nat

VARIABLES
  nextId,      \* the packet id each source uses next
  messages,    \* messages sent so far
  arrivals,    \* for each fragment sent, how often it arrived
  packets,     \* m_packets: what is kept for a key, see NewPacket
  duration,    \* m_fragment_max_duration_s
  registered,  \* m_data_cb # NULL
  now, lastGc, \* the clock, and last_gc_ts_ms
  reboots, duplicates, failures, \* so far
  delivered,   \* history: what was given to the callback
  spoiled,     \* history: messages that lost or mixed fragments here
  completed,   \* history: messages that became full
  lastCheck    \* history: when the handler last got to its collection test

mesh == <<nextId, messages, reboots>>
history == <<delivered, spoiled, completed, lastCheck>>
vars == <<mesh, arrivals, packets, duration, registered, now, lastGc, duplicates, failures,
          history>>

(* The split of a message: full fragments, and a last one with the rest.    *)
Fragments(msg, length) ==
  {[msg |-> msg, offset |-> offset,
    size |-> IF offset + Mtu < length THEN Mtu ELSE length - offset,
    last |-> offset + Mtu >= length] : offset \in {o \in 0 .. length - 1 : o % Mtu = 0}}

FragmentsOf(msg) == Fragments(msg, messages[msg].length)

Key(fragment) == <<messages[fragment.msg].source, messages[fragment.msg].id>>

(* full_size and the timestamp stay 0 until a fragment sets them.           *)
NewPacket == [fragments |-> {}, fullSize |-> 0, last |-> 0]
PacketOf(key) == IF key \in DOMAIN packets THEN packets[key] ELSE NewPacket

Init ==
  /\ nextId = [source \in Sources |-> 0] /\ messages = <<>> /\ arrivals = <<>>
  /\ packets = <<>> /\ duration = 0 /\ registered = FALSE
  /\ now = 0 /\ lastGc = 0
  /\ reboots = 0 /\ duplicates = 0 /\ failures = 0
  /\ delivered = <<>> /\ spoiled = {} /\ completed = {} /\ lastCheck = 0
-----------------------------------------------------------------------------
(* The nodes, the clock, and the other threads of the application.          *)

SendMessage(source) ==
  /\ Len(messages) < MaxMessages
  /\ \E length \in Lengths :
       /\ messages' = Append(messages, [source |-> source, id |-> nextId[source],
                                        length |-> length])
       /\ arrivals' = [f \in DOMAIN arrivals \union Fragments(Len(messages) + 1, length) |->
                         IF f \in DOMAIN arrivals THEN arrivals[f] ELSE 0]
  /\ nextId' = [nextId EXCEPT ![source] = (@ + 1) % PacketIdRange]
  /\ UNCHANGED <<reboots, packets, duration, registered, now, lastGc, duplicates, failures,
                 history>>

Reboot(source) ==
  /\ reboots < MaxReboots
  /\ nextId[source] # 0
  /\ nextId' = [nextId EXCEPT ![source] = 0]
  /\ reboots' = reboots + 1
  /\ UNCHANGED <<messages, arrivals, packets, duration, registered, now, lastGc, duplicates,
                 failures, history>>

Tick ==
  /\ now < MaxTime
  /\ now' = now + 1
  /\ UNCHANGED <<mesh, arrivals, packets, duration, registered, lastGc, duplicates, failures,
                 history>>

(* main() of the sink service, after the library already runs. *)
SetMaxDuration ==
  /\ duration = 0
  /\ duration' = MaxDuration
  /\ UNCHANGED <<mesh, arrivals, packets, registered, now, lastGc, duplicates, failures, history>>

RegisterForData ==
  /\ registered' = ~registered
  /\ UNCHANGED <<mesh, arrivals, packets, duration, now, lastGc, duplicates, failures, history>>
-----------------------------------------------------------------------------
(* The handler of a fragment.                                               *)

Arrive(fragment) ==
  /\ arrivals[fragment] = 0 \/ duplicates < MaxDuplicates
  /\ duplicates' = duplicates + (IF arrivals[fragment] = 0 THEN 0 ELSE 1)
  /\ arrivals' = [arrivals EXCEPT ![fragment] = @ + 1]

Others(packet, fragment) == {f.msg : f \in packet.fragments} \ {fragment.msg}

(* Fragments of two messages in one packet spoil both. *)
Mixed(packet, fragment) ==
  IF Others(packet, fragment) = {} THEN {} ELSE Others(packet, fragment) \union {fragment.msg}

NeverDuplicate(packet, fragment) == FALSE
IsDuplicate(packet, fragment) == \E f \in packet.fragments : f.offset = fragment.offset

ForgetsSize(packet, fragment) ==
  [fragments |-> packet.fragments \union {fragment},
   fullSize |-> IF fragment.last THEN fragment.offset + fragment.size ELSE 0,
   last |-> now]
AddFragment(packet, fragment) ==
  [fragments |-> packet.fragments \union {fragment},
   fullSize |-> IF fragment.last THEN fragment.offset + fragment.size ELSE packet.fullSize,
   last |-> now]

(* The sum of the sizes is the number of bytes, each with its fragment.     *)
Bytes(fragments) == UNION {{f} \X (1 .. f.size) : f \in fragments}
ReceivedSize(packet) == Cardinality(Bytes(packet.fragments))

FullOnceLastKnown(packet) == packet.fullSize # 0
IsFull(packet) == packet.fullSize # 0 /\ ReceivedSize(packet) = packet.fullSize

Kept(key, packet) ==
  [k \in DOMAIN packets \union {key} |-> IF k = key THEN packet ELSE packets[k]]

RemovedNever(key) == packets
Removed(key) == Restrict(packets, DOMAIN packets \ {key})

(* The age counts whole seconds, rounded down. *)
NeverTooOld(packet) == FALSE
TooOld(packet) == (now - packet.last) \div TicksPerSecond > duration

GcDue == duration > 0 /\ now - lastGc > GcPeriod

(* The end of the handler: what it left is kept, but for the packets that   *)
(* are too old when a collection is due.                                    *)
Collect(kept, alsoSpoiled) ==
  LET dropped == {key \in DOMAIN kept : GcDue /\ TooOld(kept[key])}
  IN  /\ packets' = Restrict(kept, DOMAIN kept \ dropped)
      /\ lastGc' = IF GcDue THEN now ELSE lastGc
      /\ lastCheck' = IF duration > 0 THEN now ELSE lastCheck
      /\ spoiled' = spoiled \union alsoSpoiled
                      \union {f.msg : f \in UNION {kept[key].fragments : key \in dropped}}

(* No memory for the packet itself: nothing is kept. *)
PacketFails(fragment) ==
  /\ failures < MaxFailures
  /\ Key(fragment) \notin DOMAIN packets
  /\ Arrive(fragment)
  /\ failures' = failures + 1
  /\ Collect(packets, {fragment.msg})
  /\ UNCHANGED <<mesh, duration, registered, now, delivered, completed>>

(* No memory for the fragment: its packet is kept, even when it is new.     *)
FragmentFails(fragment) ==
  LET packet == PacketOf(Key(fragment))
  IN  /\ failures < MaxFailures
      /\ ~IsDuplicate(packet, fragment)
      /\ Arrive(fragment)
      /\ failures' = failures + 1
      /\ Collect(Kept(Key(fragment), packet), {fragment.msg})
      /\ UNCHANGED <<mesh, duration, registered, now, delivered, completed>>

(* Already a fragment at this offset: the packet is left as it is. *)
RefuseDuplicate(fragment) ==
  LET packet == PacketOf(Key(fragment))
  IN  /\ IsDuplicate(packet, fragment)
      /\ Arrive(fragment)
      /\ Collect(packets, Mixed(packet, fragment))
      /\ UNCHANGED <<mesh, duration, registered, now, failures, delivered, completed>>

KeepFragment(fragment) ==
  LET packet == PacketOf(Key(fragment))
      grown == AddFragment(packet, fragment)
  IN  /\ ~IsDuplicate(packet, fragment)
      /\ ~IsFull(grown)
      /\ Arrive(fragment)
      /\ Collect(Kept(Key(fragment), grown), Mixed(packet, fragment))
      /\ UNCHANGED <<mesh, duration, registered, now, failures, delivered, completed>>

Complete(fragment) ==
  LET packet == PacketOf(Key(fragment))
  IN  /\ ~IsDuplicate(packet, fragment)
      /\ IsFull(AddFragment(packet, fragment))
      /\ Arrive(fragment)
      /\ completed' = completed \union {fragment.msg}

DeliverPacket(fragment) ==
  LET grown == AddFragment(PacketOf(Key(fragment)), fragment)
  IN  /\ Complete(fragment)
      /\ registered
      /\ delivered' = Append(delivered, [fragments |-> grown.fragments, size |-> grown.fullSize])
      /\ Collect(Removed(Key(fragment)), Mixed(PacketOf(Key(fragment)), fragment))
      /\ UNCHANGED <<mesh, duration, registered, now, failures>>

(* Nobody is registered: the full packet is dropped, and the handler        *)
(* returns before its collection test.                                      *)
DropPacket(fragment) ==
  /\ Complete(fragment)
  /\ ~registered
  /\ packets' = Removed(Key(fragment))
  /\ spoiled' = spoiled \union Mixed(PacketOf(Key(fragment)), fragment)
  /\ UNCHANGED <<mesh, duration, registered, now, lastGc, failures, delivered, lastCheck>>

HandleFragment(fragment) ==
  \/ PacketFails(fragment) \/ FragmentFails(fragment) \/ RefuseDuplicate(fragment)
  \/ KeepFragment(fragment) \/ DeliverPacket(fragment) \/ DropPacket(fragment)
-----------------------------------------------------------------------------
Next ==
  \/ \E source \in Sources : SendMessage(source) \/ Reboot(source)
  \/ Tick \/ SetMaxDuration \/ RegisterForData
  \/ \E fragment \in DOMAIN arrivals : HandleFragment(fragment)

Spec == Init /\ [][Next]_vars
-----------------------------------------------------------------------------
(* Every variable keeps its type, and a packet is stored under the key of   *)
(* its fragments, one fragment an offset, never full.                       *)
MeshTypes ==
  /\ nextId \in [Sources -> 0 .. PacketIdRange - 1]
  /\ messages \in Seq([source : Sources, id : 0 .. PacketIdRange - 1, length : Lengths])
  /\ arrivals \in [UNION {FragmentsOf(msg) : msg \in DOMAIN messages} -> Nat]
PacketTypes ==
  /\ DOMAIN packets \subseteq Sources \X (0 .. PacketIdRange - 1)
  /\ \A key \in DOMAIN packets :
       /\ packets[key].last \in 0 .. now /\ packets[key].fullSize \in Nat
       /\ ~IsFull(packets[key])
       /\ \A f \in packets[key].fragments :
            /\ f \in DOMAIN arrivals /\ Key(f) = key
            /\ \A g \in packets[key].fragments : f.offset = g.offset => f = g
OtherTypes ==
  /\ duration \in {0, MaxDuration} /\ registered \in BOOLEAN
  /\ now \in 0 .. MaxTime /\ lastGc \in 0 .. now /\ lastCheck \in 0 .. now
  /\ reboots \in 0 .. MaxReboots /\ duplicates \in 0 .. MaxDuplicates
  /\ failures \in 0 .. MaxFailures
  /\ delivered \in Seq([fragments : SUBSET DOMAIN arrivals, size : Nat])
  /\ spoiled \subseteq DOMAIN messages /\ completed \subseteq DOMAIN messages
TypeOK == MeshTypes /\ PacketTypes /\ OtherTypes

FromOne(msg, packet) == \A f \in packet.fragments : f.msg = msg

(* What the application gets is a whole message of one node, unless two     *)
(* messages with the same source and packet id met in one packet, whatever  *)
(* the order in which fragments came, were repeated, lost or forgotten.     *)
DeliveredWhole ==
  \A i \in DOMAIN delivered :
    \/ \E msg \in DOMAIN messages : /\ delivered[i].fragments = FragmentsOf(msg)
                                    /\ delivered[i].size = messages[msg].length
    \/ \E f, g \in delivered[i].fragments : f.msg # g.msg

(* A message reaches the application no more often than each of its         *)
(* fragments arrived: what was used once is not there a second time.        *)
DeliveredAsOftenAsArrived ==
  \A msg \in DOMAIN messages :
    LET times == Quantify(DOMAIN delivered, LAMBDA i : FromOne(msg, delivered[i]))
    IN  \A fragment \in FragmentsOf(msg) : times <= arrivals[fragment]

(* A message all of whose fragments arrived became full, unless it met      *)
(* another one, memory failed, or it was forgotten on the way.              *)
ArrivedIsCompleted ==
  \A msg \in DOMAIN messages \ (spoiled \union completed) :
    \E fragment \in FragmentsOf(msg) : arrivals[fragment] = 0

(* "the maximum duration in seconds to keep fragment from incomplete        *)
(* packets": at the last test of the handler nothing was kept for longer    *)
(* than the duration, the rest of a second, and one period of collection.   *)
(* (Between two such tests nothing is ever forgotten.)                      *)
OldIsForgotten ==
  \A key \in DOMAIN packets :
    (duration > 0 /\ packets[key].fragments # {}) =>
      lastCheck - packets[key].last < (duration + 1) * TicksPerSecond + GcPeriod
=============================================================================
