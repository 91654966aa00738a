-------------------------- MODULE ReassemblyProofs --------------------------
(***************************************************************************)
(* For every number of nodes, packet ids, messages and fragments: what the *)
(* application is given is a whole message, no more often than it came,    *)
(* what came in full is given, and what is incomplete is forgotten in time.*)
(***************************************************************************)
EXTENDS Reassembly, FiniteSetTheorems, SequenceTheorems, TLAPS

-----------------------------------------------------------------------------
(* Offsets and bytes.                                                       *)

LEMMA Quotient ==
  ASSUME NEW M \in Nat \ {0}, NEW a \in Nat
  PROVE  \E q \in Nat : q * M <= a /\ a < q * M + M /\ (a % M = 0 => a = q * M)
<1>1. a = M * (a \div M) + (a % M) /\ a % M \in 0 .. M - 1 /\ a \div M \in Nat
  OBVIOUS
<1>2. (a \div M) * M = M * (a \div M)
  BY <1>1
<1>. DEFINE q == a \div M
<1>3. q \in Nat /\ q * M <= a /\ a < q * M + M /\ (a % M = 0 => a = q * M)
  BY <1>1, <1>2
<1>. HIDE DEF q
<1>. QED
  BY <1>3

(* Two different multiples of M are at least M apart. *)
LEMMA Apart ==
  ASSUME NEW M \in Nat \ {0}, NEW a \in Nat, NEW b \in Nat, a % M = 0, b % M = 0, a < b
  PROVE  a + M <= b
<1>1. PICK i \in Nat : a = i * M
  BY Quotient
<1>2. PICK j \in Nat : b = j * M
  BY Quotient
<1>3. i < j
  BY <1>1, <1>2
<1>4. i * M + M <= j * M
  BY <1>3
<1>. QED
  BY <1>1, <1>2, <1>4

(* Every number is within M after a multiple of M.                          *)
LEMMA MultipleBelow ==
  ASSUME NEW M \in Nat \ {0}, NEW a \in Nat
  PROVE  \E o \in 0 .. a : o % M = 0 /\ a < o + M
<1>1. PICK i \in Nat : i * M <= a /\ a < i * M + M
  BY Quotient
<1>2. (i * M) % M = 0
  OBVIOUS
<1>3. i * M \in 0 .. a
  BY <1>1
<1>. QED
  BY <1>1, <1>2, <1>3

(* The fragments of one message: where they are and what they are.          *)
LEMMA FragmentFacts ==
  ASSUME NEW msg, NEW length \in Lengths, NEW f \in Fragments(msg, length)
  PROVE  /\ f.msg = msg /\ f.offset \in Nat /\ f.offset < length /\ f.offset % Mtu = 0
         /\ f.size \in 1 .. Mtu /\ f.offset + f.size <= length
         /\ f.last <=> f.offset + f.size = length
         /\ f.size = Mtu \/ f.offset + f.size = length
         /\ f = [msg |-> msg, offset |-> f.offset,
                 size |-> IF f.offset + Mtu < length THEN Mtu ELSE length - f.offset,
                 last |-> f.offset + Mtu >= length]
<1>1. PICK offset \in 0 .. length - 1 :
        /\ offset % Mtu = 0
        /\ f = [msg |-> msg, offset |-> offset,
                size |-> IF offset + Mtu < length THEN Mtu ELSE length - offset,
                last |-> offset + Mtu >= length]
  BY DEF Fragments
<1>2. length \in Nat /\ Mtu \in Nat \ {0}
  BY ReassemblyAssumption
<1>3. /\ f.msg = msg /\ f.offset = offset
      /\ f.size = IF offset + Mtu < length THEN Mtu ELSE length - offset
      /\ f.last = (offset + Mtu >= length)
  BY <1>1
<1>4. offset \in Nat /\ offset < length
  BY <1>2
<1>5. f.last <=> offset + Mtu >= length
  BY <1>3, Zenon
<1>6. f = [msg |-> msg, offset |-> f.offset,
           size |-> IF f.offset + Mtu < length THEN Mtu ELSE length - f.offset,
           last |-> f.offset + Mtu >= length]
  BY <1>1, <1>3
<1>7. /\ f.size \in 1 .. Mtu /\ f.offset + f.size <= length
      /\ f.last <=> f.offset + f.size = length
      /\ f.size = Mtu \/ f.offset + f.size = length
  BY <1>2, <1>3, <1>4, <1>5
<1>. QED
  BY <1>1, <1>3, <1>4, <1>5, <1>6, <1>7

(* Each byte of a message is in one fragment.                               *)
LEMMA FragmentAt ==
  ASSUME NEW msg, NEW length \in Lengths, NEW b \in 1 .. length
  PROVE  \E f \in Fragments(msg, length) : f.offset < b /\ b <= f.offset + f.size
<1>1. length \in Nat /\ Mtu \in Nat \ {0} /\ b - 1 \in Nat
  BY ReassemblyAssumption
<1>2. PICK o \in 0 .. b - 1 : o % Mtu = 0 /\ b - 1 < o + Mtu
  BY <1>1, MultipleBelow
<1>3. o \in 0 .. length - 1
  BY <1>1
<1>. DEFINE f == [msg |-> msg, offset |-> o,
                  size |-> IF o + Mtu < length THEN Mtu ELSE length - o,
                  last |-> o + Mtu >= length]
<1>4. f \in Fragments(msg, length)
  BY <1>2, <1>3 DEF Fragments
<1>5. f.offset < b /\ b <= f.offset + f.size
  BY <1>1, <1>2, <1>3
<1>. QED
  BY <1>4, <1>5

(* A message has a last fragment.                                           *)
LEMMA LastFragment ==
  ASSUME NEW msg, NEW length \in Lengths
  PROVE  \E f \in Fragments(msg, length) : f.last
<1>1. length \in Nat /\ Mtu \in Nat \ {0} /\ length \in 1 .. length
  BY ReassemblyAssumption
<1>2. PICK f \in Fragments(msg, length) : f.offset < length /\ length <= f.offset + f.size
  BY <1>1, FragmentAt
<1>. QED
  BY <1>1, <1>2, FragmentFacts

(* Two fragments of a message do not overlap.                               *)
LEMMA NoOverlap ==
  ASSUME NEW msg, NEW length \in Lengths,
         NEW f \in Fragments(msg, length), NEW g \in Fragments(msg, length),
         f.offset < g.offset
  PROVE  f.offset + f.size <= g.offset
<1>1. Mtu \in Nat \ {0} /\ f.offset + Mtu <= g.offset
  BY ReassemblyAssumption, FragmentFacts, Apart
<1>2. f.offset \in Nat /\ g.offset \in Nat /\ f.size \in 1 .. Mtu
  BY FragmentFacts
<1>. QED
  BY <1>1, <1>2

(* The bytes of the fragments of a message are as many as its length says.  *)
LEMMA BytesOfMessage ==
  ASSUME NEW msg, NEW length \in Lengths
  PROVE  /\ IsFiniteSet(Bytes(Fragments(msg, length)))
         /\ Cardinality(Bytes(Fragments(msg, length))) = length
<1>. DEFINE B == Bytes(Fragments(msg, length))
            position == [byte \in B |-> byte[1].offset + byte[2]]
<1>1. length \in Nat
  BY ReassemblyAssumption
<1>2. \A byte \in B : /\ byte[1] \in Fragments(msg, length) /\ byte[2] \in 1 .. byte[1].size
                      /\ byte = <<byte[1], byte[2]>>
  BY DEF Bytes
<1>3. position \in [B -> 1 .. length]
  <2>. SUFFICES ASSUME NEW byte \in B PROVE byte[1].offset + byte[2] \in 1 .. length
    OBVIOUS
  <2>1. byte[1].offset \in Nat /\ byte[1].size \in Nat /\ byte[1].offset + byte[1].size <= length
    BY <1>2, FragmentFacts, ReassemblyAssumption
  <2>. QED
    BY <1>1, <1>2, <2>1
<1>4. ASSUME NEW b1 \in B, NEW b2 \in B, position[b1] = position[b2]
      PROVE  b1 = b2
  <2>1. /\ b1[1] \in Fragments(msg, length) /\ b2[1] \in Fragments(msg, length)
        /\ b1[1].offset \in Nat /\ b2[1].offset \in Nat
        /\ b1[1].size \in Nat /\ b2[1].size \in Nat
    BY <1>2, FragmentFacts, ReassemblyAssumption
  <2>2. b1[1].offset + b1[2] = b2[1].offset + b2[2]
    BY <1>4
  <2>3. ~(b1[1].offset < b2[1].offset)
    BY <1>2, <2>1, <2>2, NoOverlap
  <2>4. ~(b2[1].offset < b1[1].offset)
    BY <1>2, <2>1, <2>2, NoOverlap
  <2>5. b1[1].offset = b2[1].offset
    BY <2>1, <2>3, <2>4
  <2>6. b1[1] = b2[1]
    BY <2>1, <2>5, FragmentFacts
  <2>7. b1[2] = b2[2]
    BY <1>2, <2>1, <2>2, <2>5
  <2>. QED
    BY <1>2, <2>6, <2>7
<1>5. ASSUME NEW b \in 1 .. length
      PROVE  \E byte \in B : position[byte] = b
  <2>1. PICK f \in Fragments(msg, length) : f.offset < b /\ b <= f.offset + f.size
    BY FragmentAt
  <2>2. f.offset \in Nat /\ f.size \in Nat /\ b \in Nat
    BY <1>1, FragmentFacts, ReassemblyAssumption
  <2>3. b - f.offset \in 1 .. f.size
    BY <2>1, <2>2
  <2>4. <<f, b - f.offset>> \in B
    BY <2>3 DEF Bytes
  <2>5. position[<<f, b - f.offset>>] = b
    BY <2>2, <2>4
  <2>. QED
    BY <2>4, <2>5
<1>. HIDE DEF B, position
<1>6. position \in Injection(B, 1 .. length) /\ position \in Surjection(B, 1 .. length)
  BY <1>3, <1>4, <1>5 DEF Injection, Surjection, IsInjective
<1>7. IsFiniteSet(1 .. length) /\ Cardinality(1 .. length) = length
  BY <1>1, FS_Interval
<1>8. IsFiniteSet(B) /\ Cardinality(B) = length
  BY <1>6, <1>7, FS_Injection
<1>. QED
  BY <1>8 DEF B

(* Fragments of one message with as many bytes as the message are all its   *)
(* fragments.                                                               *)
LEMMA AllFragments ==
  ASSUME NEW msg, NEW length \in Lengths, NEW some \in SUBSET Fragments(msg, length),
         Cardinality(Bytes(some)) = length
  PROVE  some = Fragments(msg, length)
<1>1. Bytes(some) \subseteq Bytes(Fragments(msg, length))
  BY DEF Bytes
<1>2. Bytes(some) = Bytes(Fragments(msg, length))
  BY <1>1, BytesOfMessage, FS_Subset
<1>3. ASSUME NEW f \in Fragments(msg, length)
      PROVE  f \in some
  <2>1. <<f, 1>> \in Bytes(Fragments(msg, length))
    BY FragmentFacts, ReassemblyAssumption DEF Bytes
  <2>2. <<f, 1>> \in Bytes(some)
    BY <1>2, <2>1
  <2>. QED
    BY <2>2 DEF Bytes
<1>. QED
  BY <1>3

-----------------------------------------------------------------------------
(* The inductive invariant.                                                 *)

Held(fragment) == Key(fragment) \in DOMAIN packets /\ fragment \in packets[Key(fragment)].fragments
Times(msg) == Cardinality({i \in DOMAIN delivered : FromOne(msg, delivered[i])})

(* full_size is known when the last fragment is there, and comes from it.   *)
SizeKnown(packet) ==
  /\ packet.fullSize # 0 => \E f \in packet.fragments : f.last /\ packet.fullSize = f.offset + f.size
  /\ (\E f \in packet.fragments : f.last) => packet.fullSize # 0
SizesKnown == \A key \in DOMAIN packets : SizeKnown(packets[key])

(* Two messages that share a packet are both spoiled.                       *)
Meets(fragments) == \A f, g \in fragments : f.msg # g.msg => f.msg \in spoiled
SharedIsSpoiled == \A key \in DOMAIN packets : Meets(packets[key].fragments)

(* What arrived is held, unless its message is spoiled or completed.        *)
ArrivedIsHeld ==
  \A f \in DOMAIN arrivals :
    (arrivals[f] > 0 /\ f.msg \notin spoiled \union completed) => Held(f)

(* Each arrival of a fragment is used for one delivery, or is still held.   *)
UsedOnce ==
  \A f \in DOMAIN arrivals : Times(f.msg) + (IF Held(f) THEN 1 ELSE 0) <= arrivals[f]

DeliveredSome == \A i \in DOMAIN delivered : delivered[i].fragments # {}

(* The last collection left nothing too old, and the last test found none   *)
(* due, or made one.                                                        *)
CollectedInTime ==
  /\ lastCheck - lastGc <= GcPeriod
  /\ duration = 0 => (lastGc = 0 /\ lastCheck = 0)
  /\ \A key \in DOMAIN packets :
       packets[key].fragments # {} =>
         lastGc - packets[key].last < (duration + 1) * TicksPerSecond

Uses == DeliveredSome /\ DeliveredWhole /\ UsedOnce
Keeps == SizesKnown /\ SharedIsSpoiled /\ ArrivedIsHeld

-----------------------------------------------------------------------------
(* The messages that were sent.                                             *)

LEMMA MessageTypes ==
  ASSUME MeshTypes, NEW msg \in DOMAIN messages
  PROVE  /\ messages[msg].length \in Lengths /\ messages[msg].source \in Sources
         /\ messages[msg].id \in 0 .. PacketIdRange - 1
<1>. DEFINE Message == [source : Sources, id : 0 .. PacketIdRange - 1, length : Lengths]
<1>1. messages \in Seq(Message)
  BY DEF MeshTypes
<1>. HIDE DEF Message
<1>2. messages[msg] \in Message
  BY <1>1, LenProperties
<1>. QED
  BY <1>2 DEF Message

LEMMA FragmentInMesh ==
  ASSUME MeshTypes, NEW f \in DOMAIN arrivals
  PROVE  /\ f.msg \in DOMAIN messages /\ f \in FragmentsOf(f.msg)
         /\ messages[f.msg].length \in Lengths
         /\ Key(f) \in Sources \X (0 .. PacketIdRange - 1)
         /\ arrivals[f] \in Nat
<1>1. PICK msg \in DOMAIN messages : f \in FragmentsOf(msg)
  BY DEF MeshTypes
<1>2. /\ messages[msg].length \in Lengths /\ messages[msg].source \in Sources
      /\ messages[msg].id \in 0 .. PacketIdRange - 1
  BY <1>1, MessageTypes
<1>3. f.msg = msg
  BY <1>1, <1>2, FragmentFacts DEF FragmentsOf
<1>. QED
  BY <1>1, <1>2, <1>3 DEF Key, MeshTypes

LEMMA MeshFragments ==
  ASSUME MeshTypes, NEW msg \in DOMAIN messages
  PROVE  /\ FragmentsOf(msg) \subseteq DOMAIN arrivals
         /\ messages[msg].length \in Lengths
         /\ \A f \in FragmentsOf(msg) : f.msg = msg /\ Key(f) = <<messages[msg].source, messages[msg].id>>
<1>1. messages[msg].length \in Lengths
  BY MessageTypes
<1>2. \A f \in FragmentsOf(msg) : f.msg = msg
  BY <1>1, FragmentFacts DEF FragmentsOf
<1>. QED
  BY <1>1, <1>2 DEF MeshTypes, Key

(* What was sent stays as it was; what is sent now did not arrive yet.      *)
MeshGrows ==
  /\ DOMAIN messages \subseteq DOMAIN messages'
  /\ \A msg \in DOMAIN messages : messages'[msg] = messages[msg]
  /\ DOMAIN arrivals \subseteq DOMAIN arrivals'
  /\ \A f \in DOMAIN arrivals : arrivals'[f] = arrivals[f]
  /\ \A f \in DOMAIN arrivals' \ DOMAIN arrivals : arrivals'[f] = 0 /\ f.msg \notin DOMAIN messages

LEMMA SendGrows ==
  ASSUME MeshTypes, NEW source \in Sources, SendMessage(source)
  PROVE  MeshTypes' /\ MeshGrows
<1>1. PICK length \in Lengths :
        /\ messages' = Append(messages, [source |-> source, id |-> nextId[source],
                                         length |-> length])
        /\ arrivals' = [f \in DOMAIN arrivals \union Fragments(Len(messages) + 1, length) |->
                         IF f \in DOMAIN arrivals THEN arrivals[f] ELSE 0]
  BY DEF SendMessage
<1>0. PICK new : new = Len(messages) + 1
  OBVIOUS
<1>. DEFINE sent == [source |-> source, id |-> nextId[source], length |-> length]
            Message == [source : Sources, id : 0 .. PacketIdRange - 1, length : Lengths]
<1>2. /\ nextId[source] \in 0 .. PacketIdRange - 1 /\ PacketIdRange \in Nat \ {0}
      /\ nextId' = [nextId EXCEPT ![source] = (@ + 1) % PacketIdRange]
  BY ReassemblyAssumption DEF MeshTypes, SendMessage
<1>3. nextId' \in [Sources -> 0 .. PacketIdRange - 1]
  <2>1. (nextId[source] + 1) % PacketIdRange \in 0 .. PacketIdRange - 1
    BY <1>2
  <2>. QED
    BY <1>2, <2>1 DEF MeshTypes
<1>4. sent \in Message /\ messages \in Seq(Message) /\ Len(messages) \in Nat
      /\ DOMAIN messages = 1 .. Len(messages)
  BY <1>2, LenProperties DEF MeshTypes
<1>5. /\ messages' \in Seq(Message) /\ DOMAIN messages' = 1 .. new
      /\ messages'[new] = sent
      /\ \A msg \in DOMAIN messages : messages'[msg] = messages[msg]
  BY <1>0, <1>1, <1>4, AppendProperties
<1>. HIDE DEF Message
<1>6. DOMAIN messages' = DOMAIN messages \union {new} /\ new \notin DOMAIN messages
  BY <1>0, <1>4, <1>5
<1>7. \A msg \in DOMAIN messages : FragmentsOf(msg)' = FragmentsOf(msg)
  BY <1>5 DEF FragmentsOf
<1>8. FragmentsOf(new)' = Fragments(new, length)
  <2>1. messages'[new].length = length
    BY <1>5
  <2>. QED
    BY <2>1 DEF FragmentsOf
<1>9. /\ DOMAIN arrivals' = Fragments(new, length) \union DOMAIN arrivals
      /\ \A f \in DOMAIN arrivals' :
           arrivals'[f] = IF f \in DOMAIN arrivals THEN arrivals[f] ELSE 0
  BY <1>0, <1>1
<1>10. \A f \in Fragments(new, length) : f.msg = new
  BY FragmentFacts
<1>11. \A f \in DOMAIN arrivals : f.msg \in DOMAIN messages /\ arrivals[f] \in Nat
  BY FragmentInMesh
<1>12. \A f \in DOMAIN arrivals : f \notin Fragments(new, length)
  BY <1>6, <1>10, <1>11
<1>13. MeshGrows
  BY <1>5, <1>6, <1>9, <1>10, <1>12 DEF MeshGrows
<1>14. DOMAIN arrivals' = UNION {FragmentsOf(msg)' : msg \in DOMAIN messages'}
  <2>1. DOMAIN arrivals = UNION {FragmentsOf(msg) : msg \in DOMAIN messages}
    BY DEF MeshTypes
  <2>2. \A f : f \in DOMAIN arrivals' <=> (f \in Fragments(new, length)
                                            \/ \E msg \in DOMAIN messages : f \in FragmentsOf(msg))
    BY <1>9, <2>1
  <2>3. \A f : (\E msg \in DOMAIN messages' : f \in FragmentsOf(msg)')
               <=> (f \in Fragments(new, length)
                    \/ \E msg \in DOMAIN messages : f \in FragmentsOf(msg))
    BY <1>6, <1>7, <1>8
  <2>. QED
    BY <2>2, <2>3
<1>15. arrivals' = [f \in DOMAIN arrivals' |-> arrivals'[f]]
  BY <1>1
<1>16. \A f \in DOMAIN arrivals' : arrivals'[f] \in Nat
  BY <1>9, <1>11
<1>17. arrivals' \in [UNION {FragmentsOf(msg)' : msg \in DOMAIN messages'} -> Nat]
  BY <1>14, <1>15, <1>16
<1>. QED
  BY <1>3, <1>5, <1>13, <1>17 DEF MeshTypes, Message

LEMMA OldFragments ==
  ASSUME TypeOK, MeshGrows
  PROVE  /\ \A f \in DOMAIN arrivals : f.msg \in DOMAIN messages /\ Key(f)' = Key(f)
         /\ \A msg \in DOMAIN messages : FragmentsOf(msg)' = FragmentsOf(msg)
         /\ \A key \in DOMAIN packets : packets[key].fragments \subseteq DOMAIN arrivals
         /\ \A i \in DOMAIN delivered : delivered[i].fragments \subseteq DOMAIN arrivals
<1>1. \A f \in DOMAIN arrivals : f.msg \in DOMAIN messages
  BY FragmentInMesh DEF TypeOK
<1>2. \A f \in DOMAIN arrivals : Key(f)' = Key(f)
  BY <1>1 DEF MeshGrows, Key
<1>3. \A msg \in DOMAIN messages : FragmentsOf(msg)' = FragmentsOf(msg)
  BY DEF MeshGrows, FragmentsOf
<1>4. \A key \in DOMAIN packets : packets[key].fragments \subseteq DOMAIN arrivals
  BY DEF TypeOK, PacketTypes
<1>5. ASSUME NEW i \in DOMAIN delivered
      PROVE  delivered[i].fragments \subseteq DOMAIN arrivals
  <2>. DEFINE Delivery == [fragments : SUBSET DOMAIN arrivals, size : Nat]
  <2>1. delivered \in Seq(Delivery)
    BY DEF TypeOK, OtherTypes
  <2>. HIDE DEF Delivery
  <2>2. delivered[i] \in Delivery
    BY <2>1, LenProperties
  <2>. QED
    BY <2>2 DEF Delivery
<1>. QED
  BY <1>1, <1>2, <1>3, <1>4, <1>5

(* What the nodes do adds messages and changes nothing here.                *)
LEMMA QuietKeeps ==
  ASSUME TypeOK, Keeps, Uses, MeshGrows, UNCHANGED <<packets, spoiled, completed, delivered>>
  PROVE  Keeps' /\ Uses'
<1>1. /\ \A f \in DOMAIN arrivals : /\ f.msg \in DOMAIN messages /\ Key(f)' = Key(f)
                                    /\ arrivals'[f] = arrivals[f] /\ f \in DOMAIN arrivals'
      /\ \A msg \in DOMAIN messages : FragmentsOf(msg)' = FragmentsOf(msg)
                                      /\ messages'[msg] = messages[msg] /\ msg \in DOMAIN messages'
      /\ \A key \in DOMAIN packets : packets[key].fragments \subseteq DOMAIN arrivals
      /\ \A i \in DOMAIN delivered : delivered[i].fragments \subseteq DOMAIN arrivals
      /\ \A f \in DOMAIN arrivals' \ DOMAIN arrivals : arrivals'[f] = 0 /\ f.msg \notin DOMAIN messages
  BY OldFragments DEF MeshGrows
<1>2. \A f \in DOMAIN arrivals : Held(f)' <=> Held(f)
  BY <1>1 DEF Held
<1>3. \A f \in DOMAIN arrivals' \ DOMAIN arrivals : ~Held(f)'
  BY <1>1 DEF Held
<1>4. SizesKnown' /\ SharedIsSpoiled' /\ DeliveredSome'
  BY DEF Keeps, Uses, SizesKnown, SharedIsSpoiled, Meets, DeliveredSome
<1>5. ArrivedIsHeld'
  <2>. SUFFICES ASSUME NEW f \in DOMAIN arrivals', arrivals'[f] > 0,
                       f.msg \notin spoiled \union completed
                PROVE  Held(f)'
    BY DEF ArrivedIsHeld
  <2>1. f \in DOMAIN arrivals
    BY <1>1
  <2>2. Held(f)
    BY <1>1, <2>1 DEF Keeps, ArrivedIsHeld
  <2>. QED
    BY <1>2, <2>1, <2>2
<1>6. DeliveredWhole'
  BY <1>1 DEF Uses, DeliveredWhole
<1>7. \A msg : Times(msg)' = Times(msg)
  BY DEF Times, FromOne
<1>8. UsedOnce'
  <2>1. ASSUME NEW f \in DOMAIN arrivals
        PROVE  Times(f.msg)' + (IF Held(f)' THEN 1 ELSE 0) <= arrivals'[f]
    BY <1>1, <1>2, <1>7 DEF Uses, UsedOnce
  <2>2. ASSUME NEW f \in DOMAIN arrivals' \ DOMAIN arrivals
        PROVE  Times(f.msg)' + (IF Held(f)' THEN 1 ELSE 0) <= arrivals'[f]
    <3>1. ASSUME NEW i \in DOMAIN delivered PROVE ~FromOne(f.msg, delivered[i])
      <4>1. PICK g \in delivered[i].fragments : TRUE
        BY DEF Uses, DeliveredSome
      <4>. QED
        BY <1>1, <4>1 DEF FromOne
    <3>2. {i \in DOMAIN delivered : FromOne(f.msg, delivered[i])} = {}
      BY <3>1
    <3>3. Times(f.msg) = 0
      BY <3>2, FS_EmptySet DEF Times
    <3>. QED
      BY <1>1, <1>3, <1>7, <3>3
  <2>3. DOMAIN arrivals' = DOMAIN arrivals \union (DOMAIN arrivals' \ DOMAIN arrivals)
    BY <1>1
  <2>. QED
    BY <2>1, <2>2, <2>3 DEF UsedOnce
<1>. QED
  BY <1>4, <1>5, <1>6, <1>8 DEF Keeps, Uses

-----------------------------------------------------------------------------
(* What the handler of a fragment does.                                     *)

(* Of what the handler kept, a collection may drop what it spoils.          *)
Settled(kept, lost) ==
  /\ DOMAIN packets' \subseteq DOMAIN kept
  /\ \A key \in DOMAIN packets' : packets'[key] = kept[key]
  /\ spoiled \union lost \subseteq spoiled'
  /\ \A key \in DOMAIN kept \ DOMAIN packets' : \A f \in kept[key].fragments : f.msg \in spoiled'
  /\ \A msg \in spoiled' :
       \/ msg \in spoiled \union lost
       \/ \E key \in DOMAIN kept : \E f \in kept[key].fragments : f.msg = msg

LEMMA CollectSettles ==
  ASSUME NEW kept, NEW lost, Collect(kept, lost)
  PROVE  Settled(kept, lost)
<1>1. PICK dropped \in SUBSET DOMAIN kept :
        /\ packets' = Restrict(kept, DOMAIN kept \ dropped)
        /\ spoiled' = spoiled \union lost
                        \union {f.msg : f \in UNION {kept[key].fragments : key \in dropped}}
  BY DEF Collect
<1>2. DOMAIN packets' = DOMAIN kept \ dropped
      /\ \A key \in DOMAIN packets' : packets'[key] = kept[key]
  BY <1>1 DEF Restrict
<1>3. \A key \in dropped : \A f \in kept[key].fragments : f.msg \in spoiled'
  BY <1>1
<1>4. \A msg \in spoiled' : \/ msg \in spoiled \union lost
                            \/ \E key \in dropped : \E f \in kept[key].fragments : f.msg = msg
  BY <1>1
<1>. QED
  BY <1>1, <1>2, <1>3, <1>4 DEF Settled

(* The four ways a fragment ends: no memory for it, there already, kept, or *)
(* the last that was missing.                                               *)
Grown(fragment) == AddFragment(PacketOf(Key(fragment)), fragment)
MixedBy(fragment) == Mixed(PacketOf(Key(fragment)), fragment)
Elsewhere(fragment, kept) ==
  /\ DOMAIN kept \ {Key(fragment)} = DOMAIN packets \ {Key(fragment)}
  /\ \A key \in DOMAIN packets \ {Key(fragment)} : kept[key] = packets[key]
Loses(fragment, kept) ==
  /\ Settled(kept, {fragment.msg})
  /\ Key(fragment) \in DOMAIN packets => Key(fragment) \in DOMAIN kept
  /\ Key(fragment) \in DOMAIN kept => kept[Key(fragment)] = PacketOf(Key(fragment))
  /\ UNCHANGED <<delivered, completed>>
Refuses(fragment, kept) ==
  /\ Settled(kept, MixedBy(fragment))
  /\ kept = packets
  /\ IsDuplicate(PacketOf(Key(fragment)), fragment)
  /\ UNCHANGED <<delivered, completed>>
Grows(fragment, kept) ==
  /\ Settled(kept, MixedBy(fragment))
  /\ ~IsDuplicate(PacketOf(Key(fragment)), fragment)
  /\ Key(fragment) \in DOMAIN kept /\ kept[Key(fragment)] = Grown(fragment)
  /\ ~IsFull(Grown(fragment))
  /\ UNCHANGED <<delivered, completed>>
Completes(fragment, kept) ==
  /\ Settled(kept, MixedBy(fragment))
  /\ ~IsDuplicate(PacketOf(Key(fragment)), fragment)
  /\ Key(fragment) \notin DOMAIN kept
  /\ IsFull(Grown(fragment))
  /\ completed' = completed \union {fragment.msg}
  /\ \/ delivered' = delivered
     \/ delivered' = Append(delivered, [fragments |-> Grown(fragment).fragments,
                                        size |-> Grown(fragment).fullSize])

Ends(fragment, kept) ==
  Loses(fragment, kept) \/ Refuses(fragment, kept) \/ Grows(fragment, kept) \/ Completes(fragment, kept)

LEMMA Handling ==
  ASSUME NEW fragment, HandleFragment(fragment)
  PROVE  /\ Arrive(fragment) /\ UNCHANGED <<mesh, duration, registered, now>>
         /\ \E kept : Elsewhere(fragment, kept) /\ Ends(fragment, kept)
<1>. DEFINE key == Key(fragment)
            packet == PacketOf(key)
            Goal == /\ Arrive(fragment) /\ UNCHANGED <<mesh, duration, registered, now>>
                    /\ \E kept : Elsewhere(fragment, kept) /\ Ends(fragment, kept)
<1>1. ASSUME NEW p
      PROVE  /\ Elsewhere(fragment, Kept(key, p))
             /\ key \in DOMAIN Kept(key, p) /\ Kept(key, p)[key] = p
  BY DEF Elsewhere, Kept
<1>2. Elsewhere(fragment, packets)
  BY DEF Elsewhere
<1>3. Elsewhere(fragment, Removed(key)) /\ key \notin DOMAIN Removed(key)
  BY DEF Elsewhere, Removed, Restrict
<1>4. CASE PacketFails(fragment)
  <2>1. Loses(fragment, packets)
    BY <1>4, CollectSettles DEF PacketFails, Loses
  <2>. QED
    BY <1>2, <1>4, <2>1 DEF PacketFails, Ends
<1>5. CASE FragmentFails(fragment)
  <2>1. Loses(fragment, Kept(key, packet))
    BY <1>1, <1>5, CollectSettles DEF FragmentFails, Loses
  <2>. QED
    BY <1>1, <1>5, <2>1 DEF FragmentFails, Ends
<1>6. CASE RefuseDuplicate(fragment)
  <2>1. Refuses(fragment, packets)
    BY <1>6, CollectSettles DEF RefuseDuplicate, Refuses, MixedBy
  <2>. QED
    BY <1>2, <1>6, <2>1 DEF RefuseDuplicate, Ends
<1>7. CASE KeepFragment(fragment)
  <2>1. Grows(fragment, Kept(key, Grown(fragment)))
    BY <1>1, <1>7, CollectSettles DEF KeepFragment, Grows, Grown, MixedBy
  <2>. QED
    BY <1>1, <1>7, <2>1 DEF KeepFragment, Ends
<1>8. CASE DeliverPacket(fragment)
  <2>1. Completes(fragment, Removed(key))
    BY <1>3, <1>8, CollectSettles DEF DeliverPacket, Complete, Completes, Grown, MixedBy
  <2>. QED
    BY <1>3, <1>8, <2>1 DEF DeliverPacket, Complete, Ends
<1>9. CASE DropPacket(fragment)
  <2>1. Settled(Removed(key), MixedBy(fragment))
    BY <1>9 DEF DropPacket, Settled, MixedBy
  <2>2. Completes(fragment, Removed(key))
    BY <1>3, <1>9, <2>1 DEF DropPacket, Complete, Completes, Grown, MixedBy
  <2>. QED
    BY <1>3, <1>9, <2>2 DEF DropPacket, Complete, Ends
<1>. QED
  BY <1>4, <1>5, <1>6, <1>7, <1>8, <1>9 DEF HandleFragment

(* While a fragment is handled, nothing is sent.                            *)
LEMMA ArriveFrame ==
  ASSUME MeshTypes, NEW fragment \in DOMAIN arrivals, Arrive(fragment), UNCHANGED mesh
  PROVE  /\ MeshTypes' /\ DOMAIN arrivals' = DOMAIN arrivals
         /\ \A f \in DOMAIN arrivals :
              arrivals'[f] = IF f = fragment THEN arrivals[f] + 1 ELSE arrivals[f]
         /\ \A f : Key(f)' = Key(f)
         /\ \A msg : FragmentsOf(msg)' = FragmentsOf(msg)
<1>1. arrivals' = [arrivals EXCEPT ![fragment] = @ + 1] /\ arrivals[fragment] \in Nat
  BY FragmentInMesh DEF Arrive
<1>2. messages' = messages /\ nextId' = nextId
  BY DEF mesh
<1>3. \A f : Key(f)' = Key(f)
  BY <1>2 DEF Key
<1>4. \A msg : FragmentsOf(msg)' = FragmentsOf(msg)
  BY <1>2 DEF FragmentsOf
<1>5. UNION {FragmentsOf(msg)' : msg \in DOMAIN messages'} = UNION {FragmentsOf(msg) : msg \in DOMAIN messages}
  BY <1>2, <1>4
<1>6. /\ DOMAIN arrivals' = DOMAIN arrivals /\ arrivals' \in [DOMAIN arrivals -> Nat]
      /\ \A f \in DOMAIN arrivals :
           arrivals'[f] = IF f = fragment THEN arrivals[f] + 1 ELSE arrivals[f]
  <2>1. arrivals \in [DOMAIN arrivals -> Nat]
    BY DEF MeshTypes
  <2>. QED
    BY <1>1, <2>1
<1>7. DOMAIN arrivals = UNION {FragmentsOf(msg) : msg \in DOMAIN messages}
  BY DEF MeshTypes
<1>8. MeshTypes'
  BY <1>2, <1>5, <1>6, <1>7 DEF MeshTypes
<1>. QED
  BY <1>3, <1>4, <1>6, <1>8

(* The packet a fragment is for, before and after.                          *)
Fits(key, packet) ==
  /\ packet.last \in 0 .. now /\ packet.fullSize \in Nat
  /\ \A f \in packet.fragments :
       /\ f \in DOMAIN arrivals /\ Key(f) = key
       /\ \A g \in packet.fragments : f.offset = g.offset => f = g

LEMMA PacketFacts ==
  ASSUME TypeOK, Keeps, NEW fragment \in DOMAIN arrivals
  PROVE  LET packet == PacketOf(Key(fragment))
         IN  /\ Fits(Key(fragment), packet) /\ SizeKnown(packet) /\ Meets(packet.fragments)
             /\ ~IsFull(packet)
             /\ \A f \in packet.fragments : Held(f)
<1>. DEFINE key == Key(fragment)
<1>1. CASE key \in DOMAIN packets
  <2>1. PacketOf(key) = packets[key]
    BY <1>1 DEF PacketOf
  <2>. QED
    BY <1>1, <2>1 DEF TypeOK, PacketTypes, Fits, Keeps, SizesKnown, SharedIsSpoiled, Held
<1>2. CASE key \notin DOMAIN packets
  <2>1. PacketOf(key) = NewPacket
    BY <1>2 DEF PacketOf
  <2>2. now \in Nat
    BY ReassemblyAssumption DEF TypeOK, OtherTypes
  <2>. QED
    BY <2>1, <2>2 DEF NewPacket, Fits, SizeKnown, Meets, IsFull
<1>. QED
  BY <1>1, <1>2

LEMMA GrownFacts ==
  ASSUME TypeOK, Keeps, NEW fragment \in DOMAIN arrivals,
         ~IsDuplicate(PacketOf(Key(fragment)), fragment)
  PROVE  /\ Fits(Key(fragment), Grown(fragment)) /\ SizeKnown(Grown(fragment))
         /\ Grown(fragment).last = now
         /\ Grown(fragment).fragments = PacketOf(Key(fragment)).fragments \union {fragment}
<1>. DEFINE packet == PacketOf(Key(fragment))
            grown == Grown(fragment)
<1>1. /\ grown.fragments = packet.fragments \union {fragment} /\ grown.last = now
      /\ grown.fullSize = IF fragment.last THEN fragment.offset + fragment.size ELSE packet.fullSize
  BY DEF Grown, AddFragment
<1>2. Fits(Key(fragment), packet) /\ SizeKnown(packet)
  BY PacketFacts
<1>3. \A f \in packet.fragments : f.offset # fragment.offset
  BY DEF IsDuplicate
<1>4. now \in Nat
  BY ReassemblyAssumption DEF TypeOK, OtherTypes
<1>5. /\ fragment.offset \in Nat /\ fragment.size \in Nat \ {0}
  BY FragmentInMesh, FragmentFacts, ReassemblyAssumption DEF TypeOK, FragmentsOf
<1>6. grown.fullSize \in Nat /\ (fragment.last => grown.fullSize # 0)
  BY <1>1, <1>2, <1>5 DEF Fits
<1>. HIDE DEF grown, packet
<1>7. Fits(Key(fragment), grown)
  BY <1>1, <1>2, <1>3, <1>4, <1>6 DEF Fits
<1>8. SizeKnown(grown)
  BY <1>1, <1>2, <1>6 DEF SizeKnown
<1>. QED
  BY <1>1, <1>7, <1>8 DEF grown, packet

(* A fragment that is kept meets the others, or spoils them.                *)
LEMMA GrownMeets ==
  ASSUME TypeOK, Keeps, NEW fragment \in DOMAIN arrivals,
         ~IsDuplicate(PacketOf(Key(fragment)), fragment),
         spoiled \union MixedBy(fragment) \subseteq spoiled'
  PROVE  \A f, g \in Grown(fragment).fragments : f.msg # g.msg => f.msg \in spoiled'
<1>. DEFINE packet == PacketOf(Key(fragment))
<1>1. Grown(fragment).fragments = packet.fragments \union {fragment} /\ Meets(packet.fragments)
  BY GrownFacts, PacketFacts
<1>2. \A f \in packet.fragments : f.msg # fragment.msg =>
        f.msg \in spoiled' /\ fragment.msg \in spoiled'
  BY DEF MixedBy, Mixed, Others
<1>. HIDE DEF packet
<1>. QED
  BY <1>1, <1>2 DEF Meets

(* One fragment of a message is known by its offset.                        *)
LEMMA SameOffset ==
  ASSUME MeshTypes, NEW f \in DOMAIN arrivals, NEW g \in DOMAIN arrivals,
         f.msg = g.msg, f.offset = g.offset
  PROVE  f = g
<1>1. PICK msg \in DOMAIN messages : /\ f.msg = msg /\ f \in FragmentsOf(msg) /\ g \in FragmentsOf(msg)
                                     /\ messages[msg].length \in Lengths
  BY FragmentInMesh
<1>. QED
  BY <1>1, FragmentFacts DEF FragmentsOf

(* What the handler kept of the other packets and of its own.               *)
LEMMA EndsKeep ==
  ASSUME TypeOK, Keeps, NEW fragment \in DOMAIN arrivals, Arrive(fragment), UNCHANGED <<mesh, now>>,
         NEW kept, Elsewhere(fragment, kept), Ends(fragment, kept)
  PROVE  /\ \A key \in DOMAIN kept :
              /\ Fits(key, kept[key]) /\ ~IsFull(kept[key]) /\ SizeKnown(kept[key])
              /\ \A f, g \in kept[key].fragments : f.msg # g.msg => f.msg \in spoiled'
              /\ key \in Sources \X (0 .. PacketIdRange - 1)
              /\ \/ key \in DOMAIN packets /\ kept[key] = packets[key]
                 \/ kept[key].fragments = {}
                 \/ kept[key] = Grown(fragment) /\ key = Key(fragment) /\ Grows(fragment, kept)
<1>. SUFFICES ASSUME NEW key \in DOMAIN kept
              PROVE  /\ Fits(key, kept[key]) /\ ~IsFull(kept[key]) /\ SizeKnown(kept[key])
                     /\ \A f, g \in kept[key].fragments : f.msg # g.msg => f.msg \in spoiled'
                     /\ key \in Sources \X (0 .. PacketIdRange - 1)
                     /\ \/ key \in DOMAIN packets /\ kept[key] = packets[key]
                        \/ kept[key].fragments = {}
                        \/ kept[key] = Grown(fragment) /\ key = Key(fragment) /\ Grows(fragment, kept)
  OBVIOUS
<1>1. spoiled \subseteq spoiled'
  BY DEF Ends, Loses, Refuses, Grows, Completes, Settled
<1>2. CASE key \in DOMAIN packets /\ kept[key] = packets[key]
  BY <1>1, <1>2 DEF TypeOK, PacketTypes, Fits, Keeps, SizesKnown, SharedIsSpoiled, Meets
<1>3. CASE key = Key(fragment) /\ key \notin DOMAIN packets /\ kept[key] = PacketOf(key)
  <2>1. kept[key].fragments = {}
    BY <1>3 DEF PacketOf, NewPacket
  <2>. QED
    BY <1>3, <2>1, PacketFacts, FragmentInMesh DEF TypeOK
<1>4. CASE key = Key(fragment) /\ kept[key] = Grown(fragment) /\ Grows(fragment, kept)
  <2>1. /\ ~IsDuplicate(PacketOf(Key(fragment)), fragment) /\ ~IsFull(Grown(fragment))
        /\ spoiled \union MixedBy(fragment) \subseteq spoiled'
    BY <1>4 DEF Grows, Settled
  <2>. QED
    BY <1>4, <2>1, GrownFacts, GrownMeets, FragmentInMesh DEF TypeOK
<1>5. key # Key(fragment) => key \in DOMAIN packets /\ kept[key] = packets[key]
  BY DEF Elsewhere
<1>6. key = Key(fragment) =>
        \/ key \in DOMAIN packets /\ kept[key] = packets[key]
        \/ key \notin DOMAIN packets /\ kept[key] = PacketOf(key)
        \/ kept[key] = Grown(fragment) /\ Grows(fragment, kept)
  BY DEF Ends, Loses, Refuses, Grows, Completes, PacketOf
<1>. QED
  BY <1>2, <1>3, <1>4, <1>5, <1>6

LEMMA HandlerKeeps ==
  ASSUME TypeOK, Keeps, NEW fragment \in DOMAIN arrivals, Arrive(fragment), UNCHANGED <<mesh, now>>,
         NEW kept, Elsewhere(fragment, kept), Ends(fragment, kept)
  PROVE  Keeps'
<1>1. /\ DOMAIN packets' \subseteq DOMAIN kept
      /\ \A key \in DOMAIN packets' : packets'[key] = kept[key]
      /\ spoiled \subseteq spoiled' /\ completed \subseteq completed'
      /\ \A key \in DOMAIN kept \ DOMAIN packets' : \A f \in kept[key].fragments : f.msg \in spoiled'
  BY DEF Ends, Loses, Refuses, Grows, Completes, Settled
<1>2. SizesKnown' /\ SharedIsSpoiled'
  BY <1>1, EndsKeep DEF SizesKnown, SharedIsSpoiled, Meets
<1>3. /\ DOMAIN arrivals' = DOMAIN arrivals /\ \A f : Key(f)' = Key(f)
      /\ \A f \in DOMAIN arrivals \ {fragment} : arrivals'[f] = arrivals[f]
  BY ArriveFrame DEF TypeOK
<1>4. ArrivedIsHeld'
  <2>. SUFFICES ASSUME NEW f \in DOMAIN arrivals, arrivals'[f] > 0,
                       f.msg \notin spoiled', f.msg \notin completed'
                PROVE  Held(f)'
    BY <1>3 DEF ArrivedIsHeld
  <2>. DEFINE packet == PacketOf(Key(fragment))
  <2>1. ASSUME Key(f) \in DOMAIN kept, f \in kept[Key(f)].fragments
        PROVE  Held(f)'
    BY <1>1, <1>3, <2>1 DEF Held
  <2>2. CASE f # fragment
    <3>1. Key(f) \in DOMAIN packets /\ f \in packets[Key(f)].fragments
      BY <1>1, <1>3, <2>2 DEF Keeps, ArrivedIsHeld, Held
    <3>2. CASE Key(f) # Key(fragment)
      BY <2>1, <3>1, <3>2 DEF Elsewhere
    <3>3. CASE Key(f) = Key(fragment)
      <4>1. packet = packets[Key(f)] /\ f \in packet.fragments
        BY <3>1, <3>3 DEF PacketOf
      <4>2. CASE Loses(fragment, kept) \/ Refuses(fragment, kept)
        BY <2>1, <3>1, <3>3, <4>1, <4>2 DEF Loses, Refuses
      <4>3. CASE Grows(fragment, kept)
        BY <2>1, <3>3, <4>1, <4>3, GrownFacts DEF Grows
      <4>4. CASE Completes(fragment, kept)
        <5>1. f.msg # fragment.msg
          BY <4>4 DEF Completes
        <5>2. f.msg \in MixedBy(fragment)
          BY <4>1, <5>1 DEF MixedBy, Mixed, Others
        <5>. QED
          BY <4>4, <5>2 DEF Completes, Settled
      <4>. QED
        BY <4>2, <4>3, <4>4 DEF Ends
    <3>. QED
      BY <3>2, <3>3
  <2>3. CASE f = fragment
    <3>1. ~Loses(fragment, kept) /\ ~Completes(fragment, kept)
      BY <2>3 DEF Loses, Completes, Settled
    <3>2. CASE Refuses(fragment, kept)
      <4>1. PICK g \in packet.fragments : g.offset = fragment.offset
        BY <3>2 DEF Refuses, IsDuplicate
      <4>2. g.msg = fragment.msg
        <5>. SUFFICES ASSUME g.msg # fragment.msg PROVE fragment.msg \in MixedBy(fragment)
          BY <2>3, <3>2 DEF Refuses, Settled
        <5>. QED
          BY <4>1 DEF MixedBy, Mixed, Others
      <4>3. Held(g) /\ g \in DOMAIN arrivals
        BY <4>1, PacketFacts DEF Fits
      <4>4. g = fragment
        BY <4>1, <4>2, <4>3, SameOffset DEF TypeOK
      <4>. QED
        BY <2>1, <2>3, <3>2, <4>3, <4>4 DEF Refuses, Held
    <3>3. CASE Grows(fragment, kept)
      BY <2>1, <2>3, <3>3, GrownFacts DEF Grows
    <3>. QED
      BY <3>1, <3>2, <3>3 DEF Ends
  <2>. QED
    BY <2>2, <2>3
<1>. QED
  BY <1>2, <1>4 DEF Keeps

(* A full packet of one message is the whole message.                       *)
LEMMA FullIsWhole ==
  ASSUME TypeOK, NEW msg \in DOMAIN messages, NEW packet, SizeKnown(packet), IsFull(packet),
         packet.fragments \subseteq DOMAIN arrivals, FromOne(msg, packet)
  PROVE  packet.fragments = FragmentsOf(msg) /\ packet.fullSize = messages[msg].length
<1>1. packet.fragments \subseteq FragmentsOf(msg) /\ messages[msg].length \in Lengths
  BY FragmentInMesh, MessageTypes DEF TypeOK, FromOne
<1>2. PICK f \in packet.fragments : f.last /\ packet.fullSize = f.offset + f.size
  BY DEF SizeKnown, IsFull
<1>3. packet.fullSize = messages[msg].length
  BY <1>1, <1>2, FragmentFacts DEF FragmentsOf
<1>4. Cardinality(Bytes(packet.fragments)) = messages[msg].length
  BY <1>3 DEF IsFull, ReceivedSize
<1>. QED
  BY <1>1, <1>3, <1>4, AllFragments DEF FragmentsOf

(* A packet all of whose fragments are there is full.                       *)
LEMMA WholeIsFull ==
  ASSUME MeshTypes, NEW msg \in DOMAIN messages, NEW packet, SizeKnown(packet),
         packet.fragments = FragmentsOf(msg)
  PROVE  IsFull(packet)
<1>1. messages[msg].length \in Lengths
  BY MessageTypes
<1>2. packet.fullSize # 0
  BY <1>1, LastFragment DEF SizeKnown, FragmentsOf
<1>3. PICK f \in FragmentsOf(msg) : f.last /\ packet.fullSize = f.offset + f.size
  BY <1>2 DEF SizeKnown
<1>4. packet.fullSize = messages[msg].length
  BY <1>1, <1>3, FragmentFacts DEF FragmentsOf
<1>5. Cardinality(Bytes(packet.fragments)) = messages[msg].length
  BY <1>1, BytesOfMessage DEF FragmentsOf
<1>. QED
  BY <1>2, <1>4, <1>5 DEF IsFull, ReceivedSize

(* How often a message was delivered, before and after a delivery.          *)
LEMMA TimesNat ==
  ASSUME TypeOK, NEW msg
  PROVE  Times(msg) \in Nat
<1>1. DOMAIN delivered = 1 .. Len(delivered) /\ Len(delivered) \in Nat
  BY LenProperties DEF TypeOK, OtherTypes
<1>2. IsFiniteSet(DOMAIN delivered)
  BY <1>1, FS_Interval
<1>3. IsFiniteSet({i \in DOMAIN delivered : FromOne(msg, delivered[i])})
  BY <1>2, FS_Subset
<1>. QED
  BY <1>3, FS_CardinalityType DEF Times

LEMMA TimesAppend ==
  ASSUME TypeOK, NEW d, delivered' = Append(delivered, d), NEW msg
  PROVE  /\ Times(msg)' = Times(msg) + (IF FromOne(msg, d) THEN 1 ELSE 0)
         /\ DOMAIN delivered' = DOMAIN delivered \union {Len(delivered) + 1}
         /\ \A i \in DOMAIN delivered : delivered'[i] = delivered[i]
         /\ delivered'[Len(delivered) + 1] = d
<1>. DEFINE n == Len(delivered) + 1
            old == {i \in DOMAIN delivered : FromOne(msg, delivered[i])}
            all == {i \in DOMAIN delivered' : FromOne(msg, delivered'[i])}
<1>1. DOMAIN delivered = 1 .. Len(delivered) /\ Len(delivered) \in Nat
  BY LenProperties DEF TypeOK, OtherTypes
<1>2. /\ DOMAIN delivered' = 1 .. n /\ delivered'[n] = d
      /\ \A i \in DOMAIN delivered : delivered'[i] = delivered[i]
  BY <1>1
<1>3. DOMAIN delivered' = DOMAIN delivered \union {n} /\ n \notin DOMAIN delivered
  BY <1>1, <1>2
<1>4. IsFiniteSet(old)
  <2>1. IsFiniteSet(1 .. Len(delivered))
    BY <1>1, FS_Interval
  <2>. QED
    BY <1>1, <2>1, FS_Subset
<1>5. n \notin old
  BY <1>3
<1>6. all = IF FromOne(msg, d) THEN old \union {n} ELSE old
  BY <1>2, <1>3
<1>. HIDE DEF old, all, n
<1>7. Cardinality(all) = Cardinality(old) + (IF FromOne(msg, d) THEN 1 ELSE 0)
  <2>1. Cardinality(old) \in Nat /\ Cardinality(old \union {n}) = Cardinality(old) + 1
    BY <1>4, <1>5, FS_AddElement, FS_CardinalityType
  <2>. QED
    BY <1>6, <2>1
<1>8. Times(msg) = Cardinality(old) /\ Times(msg)' = Cardinality(all)
  BY DEF Times, FromOne, old, all
<1>. QED
  BY <1>2, <1>3, <1>7, <1>8 DEF n

LEMMA HandlerUses ==
  ASSUME TypeOK, Keeps, Uses, NEW fragment \in DOMAIN arrivals, Arrive(fragment), UNCHANGED <<mesh, now>>,
         NEW kept, Elsewhere(fragment, kept), Ends(fragment, kept)
  PROVE  Uses'
<1>. DEFINE Delivery == [fragments |-> Grown(fragment).fragments, size |-> Grown(fragment).fullSize]
            grown == Grown(fragment)
<1>1. /\ MeshTypes' /\ DOMAIN arrivals' = DOMAIN arrivals
      /\ \A f \in DOMAIN arrivals :
           arrivals'[f] = IF f = fragment THEN arrivals[f] + 1 ELSE arrivals[f]
      /\ \A f : Key(f)' = Key(f)
      /\ \A msg : FragmentsOf(msg)' = FragmentsOf(msg)
      /\ messages' = messages
  BY ArriveFrame DEF TypeOK, mesh
<1>2. /\ DOMAIN packets' \subseteq DOMAIN kept
      /\ \A key \in DOMAIN packets' : packets'[key] = kept[key]
  BY DEF Ends, Loses, Refuses, Grows, Completes, Settled
<1>3. \A f \in DOMAIN arrivals : arrivals[f] \in Nat /\ Times(f.msg) \in Nat
                                 /\ f.msg \in DOMAIN messages
  BY FragmentInMesh, TimesNat DEF TypeOK
(* What is held now was held before, or is the fragment that came. *)
<1>4. ASSUME NEW f \in DOMAIN arrivals, Held(f)'
      PROVE  Held(f) \/ (f = fragment /\ ~Completes(fragment, kept))
  <2>1. Key(f) \in DOMAIN kept /\ f \in kept[Key(f)].fragments
    BY <1>1, <1>2, <1>4 DEF Held
  <2>2. CASE Key(f) \in DOMAIN packets /\ kept[Key(f)] = packets[Key(f)]
    BY <2>1, <2>2 DEF Held
  <2>3. CASE kept[Key(f)] = grown /\ Grows(fragment, kept)
    <3>1. f \in PacketOf(Key(fragment)).fragments \/ f = fragment
      BY <2>1, <2>3, GrownFacts DEF Grows
    <3>2. ~Completes(fragment, kept)
      BY <2>3 DEF Grows, Completes
    <3>. QED
      BY <3>1, <3>2, PacketFacts
  <2>. QED
    BY <2>1, <2>2, <2>3, EndsKeep
<1>5. CASE delivered' = delivered
  <2>1. DeliveredSome' /\ DeliveredWhole'
    BY <1>1, <1>5 DEF Uses, DeliveredSome, DeliveredWhole
  <2>2. \A msg : Times(msg)' = Times(msg)
    BY <1>5 DEF Times, FromOne
  <2>3. UsedOnce'
    <3>. SUFFICES ASSUME NEW f \in DOMAIN arrivals
                  PROVE  Times(f.msg) + (IF Held(f)' THEN 1 ELSE 0) <= arrivals'[f]
      BY <1>1, <2>2 DEF UsedOnce
    <3>1. Times(f.msg) + (IF Held(f) THEN 1 ELSE 0) <= arrivals[f]
      BY DEF Uses, UsedOnce
    <3>. QED
      BY <1>1, <1>3, <1>4, <3>1
  <2>. QED
    BY <2>1, <2>3 DEF Uses
<1>6. CASE Completes(fragment, kept) /\ delivered' = Append(delivered, Delivery)
  <2>1. /\ ~IsDuplicate(PacketOf(Key(fragment)), fragment) /\ Key(fragment) \notin DOMAIN kept
        /\ IsFull(grown)
    BY <1>6 DEF Completes
  <2>2. /\ grown.fragments = PacketOf(Key(fragment)).fragments \union {fragment}
        /\ SizeKnown(grown) /\ Fits(Key(fragment), grown)
    BY <2>1, GrownFacts
  <2>3. grown.fragments \subseteq DOMAIN arrivals
    BY <2>2 DEF Fits
  <2>4. Delivery.fragments = grown.fragments /\ Delivery.size = grown.fullSize
    OBVIOUS
  <2>5. /\ DOMAIN delivered' = DOMAIN delivered \union {Len(delivered) + 1}
        /\ \A i \in DOMAIN delivered : delivered'[i] = delivered[i]
        /\ delivered'[Len(delivered) + 1] = Delivery
    BY <1>6, TimesAppend
  <2>6. \A msg : Times(msg)' = Times(msg) + (IF FromOne(msg, Delivery) THEN 1 ELSE 0)
    BY <1>6, TimesAppend
  <2>. HIDE DEF Delivery, grown
  <2>7. DeliveredSome'
    BY <2>2, <2>4, <2>5 DEF Uses, DeliveredSome
  <2>8. ASSUME NEW msg \in DOMAIN messages, FromOne(msg, Delivery)
        PROVE  grown.fragments = FragmentsOf(msg) /\ grown.fullSize = messages[msg].length
    <3>1. FromOne(msg, grown)
      BY <2>4, <2>8 DEF FromOne
    <3>. QED
      BY <2>1, <2>2, <2>3, <3>1, FullIsWhole
  <2>9. \/ FromOne(fragment.msg, Delivery)
        \/ \E f, g \in Delivery.fragments : f.msg # g.msg
    BY <2>2, <2>4 DEF FromOne
  <2>10. DeliveredWhole'
    <3>1. \/ \E msg \in DOMAIN messages : /\ Delivery.fragments = FragmentsOf(msg)
                                          /\ Delivery.size = messages[msg].length
          \/ \E f, g \in Delivery.fragments : f.msg # g.msg
      BY <1>3, <2>4, <2>8, <2>9
    <3>. QED
      BY <1>1, <2>5, <3>1 DEF Uses, DeliveredWhole
  <2>11. UsedOnce'
    <3>. SUFFICES ASSUME NEW f \in DOMAIN arrivals
                  PROVE  Times(f.msg)' + (IF Held(f)' THEN 1 ELSE 0) <= arrivals'[f]
      BY <1>1 DEF UsedOnce
    <3>1. Times(f.msg) + (IF Held(f) THEN 1 ELSE 0) <= arrivals[f]
      BY DEF Uses, UsedOnce
    <3>2. Held(f)' => Held(f)
      BY <1>4, <1>6
    <3>3. CASE ~FromOne(f.msg, Delivery)
      BY <1>1, <1>3, <2>6, <3>1, <3>2, <3>3
    <3>4. CASE FromOne(f.msg, Delivery)
      <4>1. f \in grown.fragments
        BY <1>3, <2>8, <3>4, FragmentInMesh DEF TypeOK
      <4>2. Key(f) = Key(fragment)
        BY <2>2, <4>1 DEF Fits
      <4>3. ~Held(f)'
        BY <1>1, <1>2, <2>1, <4>2 DEF Held
      <4>4. f = fragment \/ Held(f)
        BY <2>2, <4>1, PacketFacts
      <4>. QED
        BY <1>1, <1>3, <2>6, <3>1, <3>4, <4>3, <4>4
    <3>. QED
      BY <3>3, <3>4
  <2>. QED
    BY <2>7, <2>10, <2>11 DEF Uses
<1>. QED
  BY <1>5, <1>6 DEF Ends, Loses, Refuses, Grows, Completes

(* The collection test of the handler, when it gets there.                  *)
Timed ==
  \/ UNCHANGED <<lastGc, lastCheck>>
  \/ duration > 0 /\ now - lastGc <= GcPeriod /\ lastGc' = lastGc /\ lastCheck' = now
  \/ /\ duration > 0 /\ lastGc' = now /\ lastCheck' = now
     /\ \A key \in DOMAIN packets' : ~TooOld(packets'[key])

LEMMA CollectTimed ==
  ASSUME OtherTypes, NEW kept, NEW lost, Collect(kept, lost)
  PROVE  Timed
<1>1. /\ packets' = Restrict(kept, DOMAIN kept \ {key \in DOMAIN kept : GcDue /\ TooOld(kept[key])})
      /\ lastGc' = IF GcDue THEN now ELSE lastGc
      /\ lastCheck' = IF duration > 0 THEN now ELSE lastCheck
  BY DEF Collect
<1>2. GcDue => \A key \in DOMAIN packets' : ~TooOld(packets'[key])
  BY <1>1 DEF Restrict
<1>3. GcDue <=> duration > 0 /\ now - lastGc > GcPeriod
  BY DEF GcDue
<1>4. now \in Nat /\ lastGc \in Nat /\ GcPeriod \in Nat /\ duration \in Nat
  BY ReassemblyAssumption DEF OtherTypes
<1>5. CASE GcDue
  BY <1>1, <1>2, <1>3, <1>5 DEF Timed
<1>6. CASE ~GcDue
  BY <1>1, <1>3, <1>4, <1>6 DEF Timed
<1>. QED
  BY <1>5, <1>6

LEMMA HandlerTimes ==
  ASSUME OtherTypes, NEW fragment, HandleFragment(fragment)
  PROVE  /\ Timed
         /\ failures' = failures \/ (failures < MaxFailures /\ failures' = failures + 1)
<1>1. CASE DropPacket(fragment)
  BY <1>1 DEF DropPacket, Timed
<1>2. CASE ~DropPacket(fragment)
  <2>1. \E kept, lost : Collect(kept, lost)
    BY <1>2 DEF HandleFragment, PacketFails, FragmentFails, RefuseDuplicate, KeepFragment, DeliverPacket
  <2>2. Timed
    BY <2>1, CollectTimed
  <2>3. failures' = failures \/ (failures < MaxFailures /\ failures' = failures + 1)
    BY <1>2 DEF HandleFragment, PacketFails, FragmentFails, RefuseDuplicate, KeepFragment, DeliverPacket
  <2>. QED
    BY <2>2, <2>3
<1>. QED
  BY <1>1, <1>2

LEMMA HandlerTypes ==
  ASSUME TypeOK, Keeps, NEW fragment \in DOMAIN arrivals, HandleFragment(fragment)
  PROVE  TypeOK'
<1>1. /\ Arrive(fragment) /\ UNCHANGED mesh /\ duration' = duration /\ registered' = registered
      /\ now' = now
  BY Handling
<1>2. PICK kept : Elsewhere(fragment, kept) /\ Ends(fragment, kept)
  BY Handling
<1>3. /\ MeshTypes' /\ DOMAIN arrivals' = DOMAIN arrivals
      /\ \A f : Key(f)' = Key(f)
      /\ messages' = messages /\ reboots' = reboots
  BY <1>1, ArriveFrame DEF TypeOK, mesh
<1>4. \A key \in DOMAIN kept : /\ Fits(key, kept[key]) /\ ~IsFull(kept[key])
                               /\ key \in Sources \X (0 .. PacketIdRange - 1)
  BY <1>1, <1>2, EndsKeep
<1>5. PICK lost \in {{fragment.msg}, MixedBy(fragment)} : Settled(kept, lost)
  BY <1>2 DEF Ends, Loses, Refuses, Grows, Completes
<1>6. PacketTypes'
  <2>1. ASSUME NEW key \in DOMAIN packets'
        PROVE  /\ packets'[key].last \in 0 .. now /\ packets'[key].fullSize \in Nat
               /\ ~IsFull(packets'[key])
               /\ key \in Sources \X (0 .. PacketIdRange - 1)
               /\ \A f \in packets'[key].fragments :
                    /\ f \in DOMAIN arrivals /\ Key(f) = key
                    /\ \A g \in packets'[key].fragments : f.offset = g.offset => f = g
    <3>1. key \in DOMAIN kept /\ packets'[key] = kept[key]
      BY <1>5 DEF Settled
    <3>. QED
      BY <1>4, <3>1 DEF Fits
  <2>2. DOMAIN packets' \subseteq Sources \X (0 .. PacketIdRange - 1)
    BY <2>1
  <2>3. \A key \in DOMAIN packets' : (~IsFull(packets[key]))'
    BY <2>1 DEF IsFull
  <2>. QED
    BY <1>1, <1>3, <2>1, <2>2, <2>3 DEF PacketTypes
<1>7. fragment.msg \in DOMAIN messages /\ \A f \in DOMAIN arrivals : f.msg \in DOMAIN messages
  BY FragmentInMesh DEF TypeOK
<1>8. lost \subseteq DOMAIN messages
  <2>1. \A f \in PacketOf(Key(fragment)).fragments : f.msg \in DOMAIN messages
    BY <1>7, PacketFacts DEF Fits
  <2>. QED
    BY <1>5, <1>7, <2>1 DEF MixedBy, Mixed, Others
<1>9. spoiled' \subseteq DOMAIN messages
  <2>1. spoiled \subseteq DOMAIN messages
    BY DEF TypeOK, OtherTypes
  <2>2. \A key \in DOMAIN kept : \A f \in kept[key].fragments : f.msg \in DOMAIN messages
    BY <1>4, <1>7 DEF Fits
  <2>. QED
    BY <1>5, <1>8, <2>1, <2>2 DEF Settled
<1>10. completed' \subseteq DOMAIN messages
  BY <1>2, <1>7 DEF TypeOK, OtherTypes, Ends, Loses, Refuses, Grows, Completes
<1>11. delivered' \in Seq([fragments : SUBSET DOMAIN arrivals, size : Nat])
  <2>. DEFINE Delivery == [fragments : SUBSET DOMAIN arrivals, size : Nat]
  <2>1. delivered \in Seq(Delivery)
    BY DEF TypeOK, OtherTypes
  <2>2. Completes(fragment, kept) =>
          [fragments |-> Grown(fragment).fragments, size |-> Grown(fragment).fullSize] \in Delivery
    <3>. SUFFICES ASSUME Completes(fragment, kept)
                  PROVE  Fits(Key(fragment), Grown(fragment))
      BY DEF Fits
    <3>. QED
      BY GrownFacts DEF Completes
  <2>. HIDE DEF Delivery
  <2>3. delivered' \in Seq(Delivery)
    BY <1>2, <2>1, <2>2, AppendProperties DEF Ends, Loses, Refuses, Grows, Completes
  <2>. QED
    BY <2>3 DEF Delivery
<1>12. /\ Timed
       /\ failures' = failures \/ (failures < MaxFailures /\ failures' = failures + 1)
  BY HandlerTimes DEF TypeOK
<1>13. lastGc' \in 0 .. now /\ lastCheck' \in 0 .. now /\ failures' \in 0 .. MaxFailures
  <2>1. /\ now \in Nat /\ lastGc \in 0 .. now /\ lastCheck \in 0 .. now
        /\ failures \in 0 .. MaxFailures /\ MaxFailures \in Nat
    BY ReassemblyAssumption DEF TypeOK, OtherTypes
  <2>. QED
    BY <1>12, <2>1 DEF Timed
<1>14. duplicates' \in 0 .. MaxDuplicates
  <2>1. duplicates \in 0 .. MaxDuplicates /\ MaxDuplicates \in Nat
    BY ReassemblyAssumption DEF TypeOK, OtherTypes
  <2>. QED
    BY <1>1, <2>1 DEF Arrive
<1>15. OtherTypes'
  BY <1>1, <1>3, <1>9, <1>10, <1>11, <1>13, <1>14 DEF TypeOK, OtherTypes
<1>. QED
  BY <1>3, <1>6, <1>15 DEF TypeOK

(* A packet younger than the duration, in whole seconds.                    *)
LEMMA YoungerThan ==
  ASSUME NEW M \in Nat \ {0}, NEW a \in Nat, NEW d \in Nat, ~(a \div M > d)
  PROVE  a < (d + 1) * M
<1>1. a \div M <= d
  OBVIOUS
<1>. QED
  BY <1>1

LEMMA HandlerCollects ==
  ASSUME TypeOK, TypeOK', Keeps, CollectedInTime,
         NEW fragment \in DOMAIN arrivals, HandleFragment(fragment)
  PROVE  CollectedInTime'
<1>1. Arrive(fragment) /\ UNCHANGED mesh /\ duration' = duration /\ now' = now /\ Timed
  BY Handling, HandlerTimes DEF TypeOK
<1>2. PICK kept : Elsewhere(fragment, kept) /\ Ends(fragment, kept)
  BY Handling
<1>3. /\ now \in Nat /\ lastGc \in 0 .. now /\ lastCheck \in 0 .. now /\ duration \in Nat
      /\ TicksPerSecond \in Nat \ {0} /\ GcPeriod \in Nat
  BY ReassemblyAssumption DEF TypeOK, OtherTypes
<1>. DEFINE bound == (duration + 1) * TicksPerSecond
<1>4. bound \in Nat \ {0}
  BY <1>3
<1>5. ASSUME NEW key \in DOMAIN packets', packets'[key].fragments # {}
      PROVE  lastGc - packets'[key].last < bound
  <2>1. key \in DOMAIN kept /\ packets'[key] = kept[key]
    BY <1>2, <1>5 DEF Ends, Loses, Refuses, Grows, Completes, Settled
  <2>2. CASE key \in DOMAIN packets /\ kept[key] = packets[key]
    BY <1>5, <2>1, <2>2 DEF CollectedInTime
  <2>3. CASE kept[key] = Grown(fragment) /\ Grows(fragment, kept)
    <3>1. packets'[key].last = now
      BY <2>1, <2>3, GrownFacts DEF Grows
    <3>. QED
      BY <1>3, <1>4, <3>1
  <2>. QED
    BY <1>1, <1>2, <1>5, <2>1, <2>2, <2>3, EndsKeep
<1>6. ASSUME NEW key \in DOMAIN packets', ~TooOld(packets'[key])
      PROVE  now - packets'[key].last < bound
  <2>1. packets'[key].last \in 0 .. now
    BY <1>1 DEF TypeOK, PacketTypes
  <2>2. now - packets'[key].last \in Nat
    BY <1>3, <2>1
  <2>3. ~((now - packets'[key].last) \div TicksPerSecond > duration)
    BY <1>6 DEF TooOld
  <2>. QED
    BY <1>3, <2>2, <2>3, YoungerThan
<1>7. \A key \in DOMAIN packets' : packets'[key].fragments # {} => lastGc' - packets'[key].last < bound
  BY <1>1, <1>5, <1>6 DEF Timed
<1>8. lastCheck' - lastGc' <= GcPeriod
  BY <1>1, <1>3 DEF Timed, CollectedInTime
<1>9. duration = 0 => lastGc' = 0 /\ lastCheck' = 0
  BY <1>1, <1>3 DEF Timed, CollectedInTime
<1>. QED
  BY <1>1, <1>7, <1>8, <1>9 DEF CollectedInTime

-----------------------------------------------------------------------------
(* The other steps: nodes, clock, settings.                                 *)

LEMMA StaysGrown ==
  ASSUME MeshTypes, UNCHANGED <<messages, arrivals>>
  PROVE  MeshGrows
BY DEF MeshGrows

(* PacketTypes depends on the mesh only through what was already sent.      *)
LEMMA PacketsStay ==
  ASSUME TypeOK, MeshGrows, packets' = packets, now' \in Nat, now <= now'
  PROVE  PacketTypes'
<1>1. \A f \in DOMAIN arrivals : Key(f)' = Key(f) /\ f \in DOMAIN arrivals'
  BY OldFragments DEF MeshGrows
<1>2. \A key \in DOMAIN packets : (~IsFull(packets[key]))'
  BY DEF TypeOK, PacketTypes, IsFull
<1>3. \A key \in DOMAIN packets : packets[key].last \in 0 .. now'
  <2>1. now \in Nat
    BY ReassemblyAssumption DEF TypeOK, OtherTypes
  <2>. QED
    BY <2>1 DEF TypeOK, PacketTypes
<1>. QED
  BY <1>1, <1>2, <1>3 DEF TypeOK, PacketTypes

LEMMA DeliveriesStay ==
  ASSUME TypeOK, MeshGrows, delivered' = delivered
  PROVE  delivered' \in Seq([fragments : SUBSET DOMAIN arrivals', size : Nat])
<1>. DEFINE Old == [fragments : SUBSET DOMAIN arrivals, size : Nat]
            New == [fragments : SUBSET DOMAIN arrivals', size : Nat]
<1>1. Old \subseteq New
  BY DEF MeshGrows
<1>2. delivered \in Seq(Old)
  BY DEF TypeOK, OtherTypes
<1>. HIDE DEF Old, New
<1>3. delivered \in Seq(New)
  BY <1>1, <1>2, SeqDef
<1>. QED
  BY <1>3 DEF New

(* What these steps may change besides the messages.                        *)
AsBefore == <<packets, lastGc, duplicates, failures, delivered, spoiled, completed, lastCheck>>

LEMMA QuietSteps ==
  ASSUME TypeOK, [Next]_vars, ~\E fragment \in DOMAIN arrivals : HandleFragment(fragment)
  PROVE  /\ MeshTypes' /\ MeshGrows /\ UNCHANGED AsBefore
         /\ now' \in now .. MaxTime /\ registered' \in BOOLEAN /\ reboots' \in 0 .. MaxReboots
         /\ duration' = duration \/ (duration = 0 /\ duration' = MaxDuration)
<1>1. /\ now \in 0 .. MaxTime /\ MaxTime \in Nat /\ registered \in BOOLEAN
      /\ reboots \in 0 .. MaxReboots /\ MaxReboots \in Nat /\ MeshTypes
  BY ReassemblyAssumption DEF TypeOK, OtherTypes
<1>2. now \in now .. MaxTime
  BY <1>1
<1>3. CASE \E source \in Sources : SendMessage(source)
  <2>1. /\ UNCHANGED AsBefore /\ now' = now /\ registered' = registered /\ reboots' = reboots
        /\ duration' = duration
    BY <1>3 DEF SendMessage, AsBefore, history
  <2>. QED
    BY <1>1, <1>2, <1>3, <2>1, SendGrows
<1>4. CASE \E source \in Sources : Reboot(source)
  <2>1. PICK source \in Sources : Reboot(source)
    BY <1>4
  <2>2. /\ UNCHANGED AsBefore /\ now' = now /\ registered' = registered /\ duration' = duration
        /\ UNCHANGED <<messages, arrivals>>
    BY <2>1 DEF Reboot, AsBefore, history
  <2>3. reboots < MaxReboots /\ reboots' = reboots + 1 /\ nextId' = [nextId EXCEPT ![source] = 0]
    BY <2>1 DEF Reboot
  <2>4. 0 \in 0 .. PacketIdRange - 1
    BY ReassemblyAssumption
  <2>5. nextId' \in [Sources -> 0 .. PacketIdRange - 1]
    BY <1>1, <2>3, <2>4 DEF MeshTypes
  <2>6. MeshTypes'
    BY <1>1, <2>2, <2>5 DEF MeshTypes, FragmentsOf
  <2>. QED
    BY <1>1, <1>2, <2>2, <2>3, <2>6, StaysGrown
<1>5. ASSUME UNCHANGED mesh, UNCHANGED arrivals
      PROVE  MeshTypes' /\ MeshGrows /\ reboots' = reboots
  BY <1>1, <1>5, StaysGrown DEF mesh, MeshTypes, FragmentsOf
<1>6. CASE Tick
  <2>1. /\ UNCHANGED AsBefore /\ UNCHANGED mesh /\ UNCHANGED arrivals /\ registered' = registered
        /\ duration' = duration /\ now < MaxTime /\ now' = now + 1
    BY <1>6 DEF Tick, AsBefore, history
  <2>. QED
    BY <1>1, <1>5, <2>1
<1>7. CASE SetMaxDuration
  <2>1. /\ UNCHANGED AsBefore /\ UNCHANGED mesh /\ UNCHANGED arrivals /\ registered' = registered
        /\ duration = 0 /\ duration' = MaxDuration /\ now' = now
    BY <1>7 DEF SetMaxDuration, AsBefore, history
  <2>. QED
    BY <1>1, <1>2, <1>5, <2>1
<1>8. CASE RegisterForData
  <2>1. /\ UNCHANGED AsBefore /\ UNCHANGED mesh /\ UNCHANGED arrivals /\ registered' = ~registered
        /\ duration' = duration /\ now' = now
    BY <1>8 DEF RegisterForData, AsBefore, history
  <2>. QED
    BY <1>1, <1>2, <1>5, <2>1
<1>9. CASE UNCHANGED vars
  <2>1. /\ UNCHANGED AsBefore /\ UNCHANGED mesh /\ UNCHANGED arrivals /\ registered' = registered
        /\ duration' = duration /\ now' = now
    BY <1>9 DEF vars, AsBefore, history
  <2>. QED
    BY <1>1, <1>2, <1>5, <2>1
<1>. QED
  BY <1>3, <1>4, <1>6, <1>7, <1>8, <1>9 DEF Next

(* The inductive invariant.                                                 *)
ReassemblyInv == TypeOK /\ Keeps /\ Uses /\ CollectedInTime

LEMMA QuietStep ==
  ASSUME ReassemblyInv, [Next]_vars, ~\E fragment \in DOMAIN arrivals : HandleFragment(fragment)
  PROVE  ReassemblyInv'
<1>1. /\ MeshTypes' /\ MeshGrows /\ UNCHANGED AsBefore
      /\ now' \in now .. MaxTime /\ registered' \in BOOLEAN /\ reboots' \in 0 .. MaxReboots
      /\ duration' = duration \/ (duration = 0 /\ duration' = MaxDuration)
  BY QuietSteps DEF ReassemblyInv
<1>2. UNCHANGED <<packets, lastGc, duplicates, failures, delivered, spoiled, completed, lastCheck>>
  BY <1>1 DEF AsBefore
<1>3. /\ now \in Nat /\ lastGc \in 0 .. now /\ lastCheck \in 0 .. now /\ MaxTime \in Nat
      /\ MaxDuration \in Nat /\ TicksPerSecond \in Nat \ {0}
  BY ReassemblyAssumption DEF ReassemblyInv, TypeOK, OtherTypes
<1>4. now' \in Nat /\ now <= now' /\ now' \in 0 .. MaxTime
  BY <1>1, <1>3
<1>5. PacketTypes'
  BY <1>1, <1>2, <1>4, PacketsStay DEF ReassemblyInv
<1>6. delivered' \in Seq([fragments : SUBSET DOMAIN arrivals', size : Nat])
  BY <1>1, <1>2, DeliveriesStay DEF ReassemblyInv
<1>7. lastGc' \in 0 .. now' /\ lastCheck' \in 0 .. now'
  BY <1>2, <1>3, <1>4
<1>8. DOMAIN messages \subseteq DOMAIN messages'
  BY <1>1 DEF MeshGrows
<1>9. OtherTypes'
  BY <1>1, <1>2, <1>4, <1>6, <1>7, <1>8 DEF ReassemblyInv, TypeOK, OtherTypes
<1>10. Keeps' /\ Uses'
  BY <1>1, <1>2, QuietKeeps DEF ReassemblyInv
<1>11. CollectedInTime'
  <2>1. CASE duration' = duration
    BY <1>2, <2>1 DEF ReassemblyInv, CollectedInTime
  <2>2. CASE duration = 0 /\ duration' = MaxDuration
    <3>1. \A key \in DOMAIN packets : packets[key].last \in Nat
      BY DEF ReassemblyInv, TypeOK, PacketTypes
    <3>2. (duration' + 1) * TicksPerSecond > 0
      BY <1>3, <2>2
    <3>3. lastGc = 0 /\ lastCheck = 0 /\ lastCheck - lastGc <= GcPeriod
      BY <2>2 DEF ReassemblyInv, CollectedInTime
    <3>4. \A key \in DOMAIN packets : lastGc - packets[key].last < (duration' + 1) * TicksPerSecond
      BY <1>3, <2>2, <3>1, <3>2, <3>3
    <3>. QED
      BY <1>2, <3>3, <3>4 DEF CollectedInTime
  <2>. QED
    BY <1>1, <2>1, <2>2
<1>. QED
  BY <1>1, <1>5, <1>9, <1>10, <1>11 DEF ReassemblyInv, TypeOK

LEMMA HandlerStep ==
  ASSUME ReassemblyInv, NEW fragment \in DOMAIN arrivals, HandleFragment(fragment)
  PROVE  ReassemblyInv'
<1>1. TypeOK /\ Keeps /\ Uses /\ CollectedInTime
  BY DEF ReassemblyInv
<1>2. Arrive(fragment) /\ UNCHANGED <<mesh, now>>
  BY Handling
<1>3. PICK kept : Elsewhere(fragment, kept) /\ Ends(fragment, kept)
  BY Handling
<1>4. TypeOK'
  BY <1>1, HandlerTypes
<1>5. Keeps'
  BY <1>1, <1>2, <1>3, HandlerKeeps
<1>6. Uses'
  BY <1>1, <1>2, <1>3, HandlerUses
<1>7. CollectedInTime'
  BY <1>1, <1>4, HandlerCollects
<1>. QED
  BY <1>4, <1>5, <1>6, <1>7 DEF ReassemblyInv

LEMMA InitInv == Init => ReassemblyInv
<1>. SUFFICES ASSUME Init PROVE ReassemblyInv
  OBVIOUS
<1>1. /\ messages = <<>> /\ arrivals = <<>> /\ packets = <<>> /\ delivered = <<>>
      /\ DOMAIN messages = {} /\ DOMAIN arrivals = {} /\ DOMAIN packets = {} /\ DOMAIN delivered = {}
  BY DEF Init
<1>2. MeshTypes
  <2>1. nextId \in [Sources -> 0 .. PacketIdRange - 1]
    BY ReassemblyAssumption DEF Init
  <2>2. arrivals \in [{} -> Nat]
    BY <1>1
  <2>3. UNION {FragmentsOf(msg) : msg \in DOMAIN messages} = {}
    BY <1>1
  <2>. QED
    BY <1>1, <2>1, <2>2, <2>3 DEF MeshTypes
<1>3. PacketTypes
  BY <1>1 DEF PacketTypes
<1>4. OtherTypes
  <2>1. duration \in {0, MaxDuration} /\ now \in 0 .. MaxTime /\ lastGc \in 0 .. now
        /\ lastCheck \in 0 .. now /\ reboots \in 0 .. MaxReboots
        /\ duplicates \in 0 .. MaxDuplicates /\ failures \in 0 .. MaxFailures
    BY ReassemblyAssumption DEF Init
  <2>2. delivered \in Seq([fragments : SUBSET DOMAIN arrivals, size : Nat])
    BY <1>1
  <2>3. registered \in BOOLEAN /\ spoiled \subseteq DOMAIN messages /\ completed \subseteq DOMAIN messages
    BY DEF Init
  <2>. QED
    BY <2>1, <2>2, <2>3 DEF OtherTypes
<1>5. Keeps /\ Uses
  BY <1>1 DEF Keeps, SizesKnown, SharedIsSpoiled, ArrivedIsHeld, Uses, DeliveredSome,
              DeliveredWhole, UsedOnce
<1>6. CollectedInTime
  BY <1>1, ReassemblyAssumption DEF Init, CollectedInTime
<1>. QED
  BY <1>2, <1>3, <1>4, <1>5, <1>6 DEF ReassemblyInv, TypeOK

THEOREM ReassemblyInvariant == Spec => []ReassemblyInv
<1>1. ReassemblyInv /\ [Next]_vars => ReassemblyInv'
  BY QuietStep, HandlerStep
<1>. QED
  BY <1>1, InitInv, PTL DEF Spec

-----------------------------------------------------------------------------
(* Every variable keeps its type; a packet holds one fragment an offset,    *)
(* under the key of its fragments, and is never left full.                  *)
THEOREM TypeCorrect == Spec => []TypeOK
<1>1. ReassemblyInv => TypeOK
  BY DEF ReassemblyInv
<1>. QED
  BY <1>1, ReassemblyInvariant, PTL

(* What the application gets is a whole message, unless two messages met.   *)
THEOREM WholeIsDelivered == Spec => []DeliveredWhole
<1>1. ReassemblyInv => DeliveredWhole
  BY DEF ReassemblyInv, Uses
<1>. QED
  BY <1>1, ReassemblyInvariant, PTL

(* A message is delivered no more often than each of its fragments came.    *)
THEOREM NoMoreThanArrived == Spec => []DeliveredAsOftenAsArrived
<1>1. ReassemblyInv => DeliveredAsOftenAsArrived
  <2>. SUFFICES ASSUME ReassemblyInv, NEW msg \in DOMAIN messages, NEW f \in FragmentsOf(msg)
                PROVE  Times(msg) <= arrivals[f]
    BY DEF DeliveredAsOftenAsArrived, Times, Quantify
  <2>1. f \in DOMAIN arrivals /\ f.msg = msg
    BY MeshFragments DEF ReassemblyInv, TypeOK
  <2>2. Times(msg) + (IF Held(f) THEN 1 ELSE 0) <= arrivals[f]
    BY <2>1 DEF ReassemblyInv, Uses, UsedOnce
  <2>3. Times(msg) \in Nat /\ arrivals[f] \in Nat
    BY <2>1, TimesNat, FragmentInMesh DEF ReassemblyInv, TypeOK
  <2>. QED
    BY <2>2, <2>3
<1>. QED
  BY <1>1, ReassemblyInvariant, PTL

(* A message that came in full became full, with its three excuses.         *)
THEOREM CompleteWhenArrived == Spec => []ArrivedIsCompleted
<1>1. ReassemblyInv => ArrivedIsCompleted
  <2>. SUFFICES ASSUME ReassemblyInv, NEW msg \in DOMAIN messages, msg \notin spoiled \union completed,
                       \A f \in FragmentsOf(msg) : arrivals[f] # 0
                PROVE  FALSE
    BY DEF ArrivedIsCompleted
  <2>. DEFINE key == <<messages[msg].source, messages[msg].id>>
              packet == packets[key]
  <2>1. /\ FragmentsOf(msg) \subseteq DOMAIN arrivals /\ messages[msg].length \in Lengths
        /\ \A f \in FragmentsOf(msg) : f.msg = msg /\ Key(f) = key
    BY MeshFragments DEF ReassemblyInv, TypeOK
  <2>2. \A f \in FragmentsOf(msg) : arrivals[f] > 0
    BY <2>1, FragmentInMesh DEF ReassemblyInv, TypeOK
  <2>3. \A f \in FragmentsOf(msg) : key \in DOMAIN packets /\ f \in packet.fragments
    BY <2>1, <2>2 DEF ReassemblyInv, Keeps, ArrivedIsHeld, Held
  <2>4. PICK f \in FragmentsOf(msg) : TRUE
    BY <2>1, LastFragment DEF FragmentsOf
  <2>5. key \in DOMAIN packets /\ f \in packet.fragments /\ f.msg = msg
    BY <2>1, <2>3
  <2>6. \A g \in packet.fragments : g.msg = msg
    BY <2>5 DEF ReassemblyInv, Keeps, SharedIsSpoiled, Meets
  <2>7. packet.fragments \subseteq DOMAIN arrivals /\ ~IsFull(packet) /\ SizeKnown(packet)
    BY <2>5 DEF ReassemblyInv, TypeOK, PacketTypes, Keeps, SizesKnown
  <2>8. packet.fragments = FragmentsOf(msg)
    BY <2>3, <2>6, <2>7, FragmentInMesh DEF ReassemblyInv, TypeOK
  <2>. QED
    BY <2>7, <2>8, WholeIsFull DEF ReassemblyInv, TypeOK
<1>. QED
  BY <1>1, ReassemblyInvariant, PTL

(* At the last test of the handler nothing was kept for longer than the     *)
(* duration, the rest of a second and one period of collection.             *)
THEOREM ForgottenInTime == Spec => []OldIsForgotten
<1>1. ReassemblyInv => OldIsForgotten
  <2>. SUFFICES ASSUME ReassemblyInv, NEW key \in DOMAIN packets, packets[key].fragments # {}
                PROVE  lastCheck - packets[key].last < (duration + 1) * TicksPerSecond + GcPeriod
    BY DEF OldIsForgotten
  <2>1. PICK bound : bound = (duration + 1) * TicksPerSecond
    OBVIOUS
  <2>2. /\ lastCheck \in Nat /\ lastGc \in Nat /\ packets[key].last \in Nat /\ GcPeriod \in Nat
        /\ bound \in Nat
    <3>1. duration \in Nat /\ TicksPerSecond \in Nat /\ GcPeriod \in Nat
      BY ReassemblyAssumption DEF ReassemblyInv, TypeOK, OtherTypes
    <3>2. bound \in Nat
      BY <2>1, <3>1
    <3>3. lastCheck \in Nat /\ lastGc \in Nat /\ packets[key].last \in Nat
      BY DEF ReassemblyInv, TypeOK, OtherTypes, PacketTypes
    <3>. QED
      BY <3>1, <3>2, <3>3
  <2>3. lastCheck - lastGc <= GcPeriod /\ lastGc - packets[key].last < bound
    BY <2>1 DEF ReassemblyInv, CollectedInTime
  <2>4. lastCheck - packets[key].last < bound + GcPeriod
    BY <2>2, <2>3
  <2>. QED
    BY <2>1, <2>4
<1>. QED
  BY <1>1, ReassemblyInvariant, PTL
=============================================================================
