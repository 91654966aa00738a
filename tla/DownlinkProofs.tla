--------------------------- MODULE DownlinkProofs ---------------------------
(***************************************************************************)
(* For any limit, table, message sizes and number of messages: the sink    *)
(* never holds more than the limit, the counter is exact, and an indication *)
(* finds its entry, each with the excuses that its property names.         *)
(***************************************************************************)
EXTENDS Downlink, FiniteSetTheorems, TLAPS

(* Messages the node accepted whose callback has not run.                   *)
InFlight == inSink \union Range(indications) \union (IF disp = "idle" THEN {} ELSE {dispPdu})
Held == {pdu \in InFlight : pdu.sent \in confirmed}
InHand == InFlight \union (IF bus = "idle" THEN {} ELSE {busPdu})

Confirmed == bus \in {"register", "fill", "load", "store"}
Registering == bus \in {"register", "fill"}

(* A message in flight is in one place.                                     *)
Placed ==
  /\ inSink \intersect Range(indications) = {}
  /\ \A i, j \in DOMAIN indications : indications[i] = indications[j] => i = j
  /\ disp # "idle" => dispPdu \notin inSink \union Range(indications)
  /\ disp = "idle" => dispPdu = NoPdu

(* It has a number of its own, and was confirmed when the bus thread is     *)
(* past its request.                                                        *)
Numbered ==
  /\ \A pdu \in InFlight : pdu.sent \in 1 .. sent
  /\ \A p, q \in InFlight : p.sent = q.sent => p = q
  /\ bus # "idle" => busPdu.sent = sent /\ sent > 0
  /\ bus = "request" => sent \notin confirmed /\ \A pdu \in InFlight : pdu.sent # sent
  /\ Confirmed => sent \in confirmed /\ \A pdu \in InFlight : pdu.sent = sent => pdu = busPdu

Progress ==
  /\ bus # "idle" => busPdu.weight <= DownlinkLimit
  /\ bus = "request" => fragment >= 1 /\ fragment - 1 <= busPdu.weight
                        /\ (fragment = 1 \/ fragment <= busPdu.weight)
  /\ bus = "fill" => busSlot \in Slots
  /\ IsFiniteSet(InFlight)

(* What the counter holds: what is in flight, more by what was missed or    *)
(* forgotten, less by the message whose weight is still to be added.        *)
Due == IF Confirmed THEN busPdu.weight ELSE 0
Asked == IF bus = "request" THEN busPdu.weight ELSE 0
Wrapped(n) == IF n >= 0 THEN n ELSE n + ByteRange
Weight(pdus) == Cardinality(Fragments(pdus))
Counted(leak) ==
  /\ Weight(Held) + leak + Asked <= DownlinkLimit
  /\ queued = Wrapped(Weight(Held) + leak - Due)
  /\ mishaps \intersect {"missed", "reset"} = {} => leak = 0
Counting ==
  mishaps \intersect {"race", "stolen"} = {} =>
    /\ \E leak \in 0 .. DownlinkLimit : Counted(leak)
    /\ bus = "store" => busLoad = queued
    /\ disp = "store" => dispLoad = queued
    /\ disp \in {"load", "store"} => dispPdu.sent \in confirmed

(* What is in the sink without a confirm, or in part, was abandoned.        *)
Whole ==
  "abandoned" \notin mishaps => loose = 0 /\ \A pdu \in inSink : pdu.sent \in confirmed

Unlike == \A p, q \in InHand : PduId(p) = PduId(q) => p = q
NotEarly == Registering /\ disp # "idle" => dispPdu # busPdu
Filling(slot) == bus = "fill" /\ slot = busSlot

(* A message whose indication is still to find its entry has one ahead.     *)
HasEntry(pdu) ==
  \E slot \in Slots :
    /\ busy[slot] /\ entry[slot] = PduId(pdu) /\ ~Filling(slot)
    /\ pdu = dispPdu => dispSlot <= slot
Awaited(pdu) == ~(Registering /\ pdu = busPdu) /\ ~(pdu = dispPdu /\ (disp # "scan" \/ found))
Findable == \A pdu \in Held : Awaited(pdu) => HasEntry(pdu)
Registered ==
  mishaps \intersect {"early", "half", "full", "clash"} = {} =>
    /\ Unlike /\ NotEarly /\ Findable
    /\ bus = "fill" => busy[busSlot]
    /\ "missed" \notin mishaps

(* Every entry belongs to a message in flight, and no two to the same one.  *)
Owner(slot, pdu) ==
  /\ pdu \in Held /\ entry[slot] = PduId(pdu)
  /\ pdu = dispPdu => disp = "scan" /\ dispSlot <= slot
  /\ Registering => pdu # busPdu
Owning ==
  \A slot \in Slots : busy[slot] /\ ~Filling(slot) => \E pdu \in Held : Owner(slot, pdu)
Distinct ==
  \A s, t \in Slots : busy[s] /\ busy[t] /\ ~Filling(s) /\ ~Filling(t) /\ entry[s] = entry[t]
                        => s = t
Roomy == bus = "register" => \E slot \in Slots : slot >= busSlot /\ ~busy[slot]
Weighty == \A pdu \in InHand : pdu.weight >= 1
NotYetTaken == Registering => busPdu \in inSink \union Range(indications)
Owned ==
  mishaps \intersect {"early", "clash", "race", "stolen", "reset", "empty"} = {} =>
    /\ Unlike /\ NotEarly /\ NotYetTaken /\ Weighty
    /\ Owning /\ Distinct /\ Roomy
    /\ "full" \notin mishaps
-----------------------------------------------------------------------------
(* The weight of a set of messages: finite, additive, monotone.             *)

LEMMA WeightOfOne ==
  ASSUME NEW pdu, pdu.weight \in Nat
  PROVE  IsFiniteSet({pdu} \X (1 .. pdu.weight))
         /\ Cardinality({pdu} \X (1 .. pdu.weight)) = pdu.weight
<1>1. IsFiniteSet({pdu}) /\ Cardinality({pdu}) = 1
  BY FS_Singleton
<1>2. IsFiniteSet(1 .. pdu.weight) /\ Cardinality(1 .. pdu.weight) = pdu.weight
  BY FS_Interval
<1>. QED
  BY <1>1, <1>2, FS_Product

LEMMA FragmentsAreFinite ==
  ASSUME NEW S, IsFiniteSet(S), \A pdu \in S : pdu.weight \in Nat
  PROVE  IsFiniteSet(Fragments(S)) /\ Weight(S) \in Nat
<1> DEFINE of == [pdu \in S |-> {pdu} \X (1 .. pdu.weight)]
           all == {{pdu} \X (1 .. pdu.weight) : pdu \in S}
<1>1. of \in Surjection(S, all)
  BY DEF Surjection
<1>2. IsFiniteSet(all)
  BY <1>1, FS_Surjection
<1>3. ASSUME NEW one \in all PROVE IsFiniteSet(one)
  <2>1. PICK pdu \in S : one = {pdu} \X (1 .. pdu.weight)
    OBVIOUS
  <2>2. pdu.weight \in Nat
    OBVIOUS
  <2>. QED
    BY <2>1, <2>2, WeightOfOne
<1>4. IsFiniteSet(UNION all)
  BY <1>2, <1>3, FS_UNION
<1>. QED
  BY <1>4, FS_CardinalityType DEF Fragments, Weight

LEMMA WeightAdded ==
  ASSUME NEW S, IsFiniteSet(S), \A q \in S : q.weight \in Nat,
         NEW pdu, pdu \notin S, pdu.weight \in Nat
  PROVE  Weight(S \union {pdu}) = Weight(S) + pdu.weight
<1> DEFINE its == {pdu} \X (1 .. pdu.weight)
<1>1. Fragments(S \union {pdu}) = Fragments(S) \union its
  BY DEF Fragments
<1>2. Fragments(S) \intersect its = {}
  BY DEF Fragments
<1>3. IsFiniteSet(its) /\ Cardinality(its) = pdu.weight
  BY WeightOfOne
<1>4. IsFiniteSet(Fragments(S)) /\ Weight(S) \in Nat
  BY FragmentsAreFinite
<1>5. Cardinality(Fragments(S) \intersect its) = 0
  BY <1>2, FS_EmptySet
<1>. HIDE DEF its
<1>6. Cardinality(Fragments(S) \union its) = Cardinality(Fragments(S)) + Cardinality(its)
  BY <1>3, <1>4, <1>5, FS_Union DEF Weight
<1>. QED
  BY <1>1, <1>3, <1>6 DEF Weight

LEMMA WeightRemoved ==
  ASSUME NEW S, IsFiniteSet(S), \A q \in S : q.weight \in Nat, NEW pdu \in S
  PROVE  Weight(S \ {pdu}) = Weight(S) - pdu.weight
<1> DEFINE T == S \ {pdu}
<1>1. IsFiniteSet(T) /\ pdu \notin T /\ T \union {pdu} = S /\ \A q \in T : q.weight \in Nat
  BY FS_RemoveElement
<1>2. Weight(T) \in Nat
  BY <1>1, FragmentsAreFinite
<1>3. Weight(S) = Weight(T) + pdu.weight
  BY <1>1, WeightAdded
<1>. QED
  BY <1>2, <1>3

LEMMA WeightGrows ==
  ASSUME NEW S, IsFiniteSet(S), \A q \in S : q.weight \in Nat, NEW T, T \subseteq S
  PROVE  Weight(T) \in Nat /\ Weight(T) <= Weight(S)
<1>1. Fragments(T) \subseteq Fragments(S)
  BY DEF Fragments
<1>2. IsFiniteSet(Fragments(S))
  BY FragmentsAreFinite
<1>3. IsFiniteSet(Fragments(T)) /\ Cardinality(Fragments(T)) <= Cardinality(Fragments(S))
  BY <1>1, <1>2, FS_Subset
<1>. QED
  BY <1>3, FS_CardinalityType DEF Weight

LEMMA NothingWeighsNothing == Weight({}) = 0
BY FS_EmptySet DEF Weight, Fragments

(* As many slots as own a message each, of at least one fragment, cannot    *)
(* outnumber the fragments.                                                 *)
LEMMA ManyAreHeavy ==
  ASSUME NEW S, IsFiniteSet(S), \A q \in S : q.weight \in Nat /\ q.weight >= 1,
         NEW slots, NEW owner \in [slots -> S],
         \A s, t \in slots : owner[s] = owner[t] => s = t
  PROVE  IsFiniteSet(slots) /\ Cardinality(slots) <= Weight(S)
<1> DEFINE first == [s \in slots |-> <<owner[s], 1>>]
<1>1. \A s \in slots : first[s] \in Fragments(S)
  BY DEF Fragments
<1>2. \A s, t \in slots : first[s] = first[t] => s = t
  OBVIOUS
<1>3. first \in Injection(slots, Fragments(S))
  BY <1>1, <1>2 DEF Injection, IsInjective
<1>4. IsFiniteSet(Fragments(S))
  BY FragmentsAreFinite
<1>. QED
  BY <1>3, <1>4, FS_Injection DEF Weight

-----------------------------------------------------------------------------
(* Types.                                                                   *)

Types == TypeOK /\ Placed /\ Numbered /\ Progress

LEMMA PdusAreTyped ==
  /\ NoPdu \in Pdus
  /\ \A pdu \in Pdus : /\ pdu.weight \in Nat /\ pdu.id \in 0 .. IdRange - 1
                       /\ pdu.sent \in 0 .. MaxMessages
                       /\ PduId(pdu) \in {PduId(q) : q \in Pdus}
  /\ \A w \in Weights, i \in 0 .. IdRange - 1, n \in 0 .. MaxMessages :
       [weight |-> w, id |-> i, sent |-> n] \in Pdus
BY DownlinkAssumption DEF Pdus, NoPdu

LEMMA InitTypes == Init => TypeOK
<1>. SUFFICES ASSUME Init PROVE TypeOK
  OBVIOUS
<1>1. /\ queued \in 0 .. ByteRange - 1 /\ busLoad \in 0 .. ByteRange - 1
      /\ dispLoad \in 0 .. ByteRange - 1 /\ nextId \in 0 .. IdRange - 1
      /\ fragment \in 0 .. DownlinkLimit
      /\ busSlot \in 1 .. TableSize + 1 /\ dispSlot \in 1 .. TableSize + 1
      /\ loose \in Nat /\ sent \in 0 .. MaxMessages /\ resets \in 0 .. MaxResets
  BY DownlinkAssumption DEF Init
<1>2. /\ busy \in [Slots -> BOOLEAN] /\ entry \in [Slots -> {PduId(pdu) : pdu \in Pdus}]
      /\ busPdu \in Pdus /\ dispPdu \in Pdus
  BY PdusAreTyped DEF Init
<1>3. indications \in Seq(Pdus)
  <2>1. indications = <<>>
    BY DEF Init
  <2>. QED
    BY <2>1
<1>4. /\ bus \in {"idle", "request", "register", "fill", "load", "store"}
      /\ disp \in {"idle", "scan", "load", "store"}
      /\ found \in BOOLEAN /\ inSink \subseteq Pdus
      /\ confirmed \subseteq 1 .. sent /\ mishaps \subseteq Mishaps
  BY DEF Init
<1>. QED
  BY <1>1, <1>2, <1>3, <1>4 DEF TypeOK

(* The numbers, without the rest of the types.                              *)
LEMMA Numbers ==
  ASSUME TypeOK
  PROVE  /\ queued \in Nat /\ busLoad \in Nat /\ dispLoad \in Nat /\ nextId \in Nat
         /\ queued < ByteRange /\ busLoad < ByteRange /\ dispLoad < ByteRange
         /\ fragment \in Nat /\ fragment <= DownlinkLimit /\ loose \in Nat /\ sent \in Nat
         /\ busSlot \in Nat /\ dispSlot \in Nat /\ busSlot >= 1 /\ dispSlot >= 1
         /\ busSlot <= TableSize + 1 /\ dispSlot <= TableSize + 1
         /\ busPdu.weight \in Nat /\ dispPdu.weight \in Nat
         /\ busPdu.sent \in Nat /\ dispPdu.sent \in Nat
<1>1. /\ queued \in 0 .. ByteRange - 1 /\ busLoad \in 0 .. ByteRange - 1
      /\ dispLoad \in 0 .. ByteRange - 1 /\ nextId \in 0 .. IdRange - 1
      /\ fragment \in 0 .. DownlinkLimit /\ loose \in Nat /\ sent \in 0 .. MaxMessages
      /\ busSlot \in 1 .. TableSize + 1 /\ dispSlot \in 1 .. TableSize + 1
      /\ busPdu \in Pdus /\ dispPdu \in Pdus
  BY DEF TypeOK
<1>2. ByteRange \in Nat /\ IdRange \in Nat /\ DownlinkLimit \in Nat /\ TableSize \in Nat
      /\ MaxMessages \in Nat
  BY DownlinkAssumption
<1>3. /\ busPdu.weight \in Nat /\ dispPdu.weight \in Nat
      /\ busPdu.sent \in 0 .. MaxMessages /\ dispPdu.sent \in 0 .. MaxMessages
  BY <1>1, PdusAreTyped
<1>. QED
  BY <1>1, <1>2, <1>3

LEMMA ReturnsAreTyped ==
  /\ BusReturns => /\ bus' = "idle" /\ busPdu' \in Pdus /\ fragment' \in 0 .. DownlinkLimit
                   /\ busSlot' \in 1 .. TableSize + 1 /\ busLoad' \in 0 .. ByteRange - 1
  /\ DispReturns => /\ disp' = "idle" /\ dispPdu' \in Pdus /\ found' \in BOOLEAN
                    /\ dispSlot' \in 1 .. TableSize + 1 /\ dispLoad' \in 0 .. ByteRange - 1
<1>1. /\ 0 \in 0 .. ByteRange - 1 /\ 0 \in 0 .. DownlinkLimit /\ 1 \in 1 .. TableSize + 1
  BY DownlinkAssumption
<1>2. NoPdu \in Pdus
  BY PdusAreTyped
<1>. QED
  BY <1>1, <1>2 DEF BusReturns, DispReturns

LEMMA StillTyped == TypeOK /\ UNCHANGED vars => TypeOK'
BY DEF TypeOK, vars, table, busState, dispState, nodeState

(* A byte stays a byte.                                                     *)
LEMMA ByteStays ==
  ASSUME NEW n \in Int
  PROVE  n % ByteRange \in 0 .. ByteRange - 1
BY DownlinkAssumption

LEMMA IdStays == \A n \in Nat : n % IdRange \in 0 .. IdRange - 1
BY DownlinkAssumption

LEMMA BusTypes == Types /\ BusStep => TypeOK'
<1>. SUFFICES ASSUME Types, BusStep PROVE TypeOK'
  OBVIOUS
<1>. USE DEF table, busState, dispState, nodeState, Mishap
<1>1. CASE SendMessage
  <2>1. PICK weight \in Weights :
          /\ Fits(weight)
          /\ busPdu' = [weight |-> weight, id |-> nextId, sent |-> sent + 1]
          /\ mishaps' \subseteq mishaps \union {"empty", "clash"}
    BY <1>1 DEF SendMessage
  <2>2. sent' \in 0 .. MaxMessages /\ sent + 1 \in 0 .. MaxMessages /\ sent <= sent'
    BY <1>1, DownlinkAssumption DEF SendMessage, Types, TypeOK
  <2>3. busPdu' \in Pdus
    BY <2>1, <2>2, PdusAreTyped DEF Types, TypeOK
  <2>4. nextId' \in 0 .. IdRange - 1
    <3>1. nextId + 1 \in Nat
      BY Numbers DEF Types
    <3>. QED
      BY <1>1, <3>1, IdStays DEF SendMessage
  <2>5. confirmed' \subseteq 1 .. sent' /\ mishaps' \subseteq Mishaps
    BY <1>1, <2>1, <2>2 DEF SendMessage, Types, TypeOK, Mishaps
  <2>6. fragment' \in 0 .. DownlinkLimit
    BY <1>1, DownlinkAssumption DEF SendMessage
  <2>. QED
    BY <1>1, <2>2, <2>3, <2>4, <2>5, <2>6 DEF SendMessage, Types, TypeOK
<1>2. CASE RequestFails
  <2>1. PICK taken \in {fragment - 1, fragment} :
          /\ inSink' \subseteq inSink \union {busPdu}
          /\ loose' \in {loose, loose + taken}
          /\ mishaps' \subseteq mishaps \union {"abandoned"}
    BY <1>2 DEF RequestFails
  <2>2. fragment \in Nat /\ fragment >= 1
    BY <1>2 DEF RequestFails, Types, TypeOK, Progress
  <2>3. inSink' \subseteq Pdus /\ loose' \in Nat
    BY <2>1, <2>2 DEF Types, TypeOK
  <2>4. mishaps' \subseteq Mishaps
    BY <2>1 DEF Types, TypeOK, Mishaps
  <2>. QED
    BY <1>2, <2>3, <2>4, ReturnsAreTyped DEF RequestFails, Types, TypeOK
<1>3. CASE FragmentAccepted
  <2>1. fragment + 1 \in 0 .. DownlinkLimit
    BY <1>3, Numbers, DownlinkAssumption DEF FragmentAccepted, LastFragment, Types, Progress
  <2>. QED
    BY <1>3, <2>1 DEF FragmentAccepted, Types, TypeOK
<1>4. CASE MessageAccepted
  <2>1. busPdu.sent \in 1 .. sent
    BY <1>4 DEF MessageAccepted, Types, Numbered, TypeOK
  <2>2. 1 \in 1 .. TableSize + 1
    BY DownlinkAssumption
  <2>3. confirmed' \subseteq 1 .. sent' /\ inSink' \subseteq Pdus
    BY <1>4, <2>1 DEF MessageAccepted, Types, TypeOK
  <2>. QED
    BY <1>4, <2>2, <2>3 DEF MessageAccepted, Types, TypeOK
<1>5. CASE RegisterSlot
  <2>1. busy' \in [Slots -> BOOLEAN]
    BY <1>5 DEF RegisterSlot, Types, TypeOK
  <2>2. busSlot' \in 1 .. TableSize + 1 /\ bus' \in {"register", "fill", "load"}
    BY <1>5, DownlinkAssumption DEF RegisterSlot, Types, TypeOK, Slots
  <2>3. mishaps' \subseteq Mishaps
    BY <1>5 DEF RegisterSlot, Types, TypeOK, Mishaps
  <2>. QED
    BY <1>5, <2>1, <2>2, <2>3 DEF RegisterSlot, Types, TypeOK
<1>6. CASE FillSlot
  <2>1. PduId(busPdu) \in {PduId(pdu) : pdu \in Pdus}
    BY PdusAreTyped DEF Types, TypeOK
  <2>2. entry' \in [Slots -> {PduId(pdu) : pdu \in Pdus}]
    BY <1>6, <2>1 DEF FillSlot, Types, TypeOK
  <2>. QED
    BY <1>6, <2>2 DEF FillSlot, Types, TypeOK
<1>7. CASE LoadCounter
  BY <1>7 DEF LoadCounter, Types, TypeOK
<1>8. CASE StoreCounter
  <2>1. busLoad + busPdu.weight \in Int
    BY Numbers DEF Types
  <2>2. queued' \in 0 .. ByteRange - 1
    BY <1>8, <2>1, ByteStays DEF StoreCounter
  <2>3. mishaps' \subseteq Mishaps
    BY <1>8 DEF StoreCounter, Types, TypeOK, Mishaps
  <2>. QED
    BY <1>8, <2>2, <2>3, ReturnsAreTyped DEF StoreCounter, Types, TypeOK
<1>. QED
  BY <1>1, <1>2, <1>3, <1>4, <1>5, <1>6, <1>7, <1>8 DEF BusStep

LEMMA OtherTypes ==
  Types /\ (DispatchStep \/ Transmitted \/ LooseTransmitted \/ NodeReset) => TypeOK'
<1>. SUFFICES ASSUME Types, DispatchStep \/ Transmitted \/ LooseTransmitted \/ NodeReset
              PROVE  TypeOK'
  OBVIOUS
<1>. USE DEF table, busState, dispState, nodeState, Mishap
<1>1. CASE TakeIndication
  <2>1. dispPdu' \in Pdus /\ indications' \in Seq(Pdus)
    BY <1>1 DEF TakeIndication, Types, TypeOK
  <2>2. mishaps' \subseteq Mishaps
    BY <1>1 DEF TakeIndication, Types, TypeOK, Mishaps
  <2>3. 1 \in 1 .. TableSize + 1
    BY DownlinkAssumption
  <2>. QED
    BY <1>1, <2>1, <2>2, <2>3 DEF TakeIndication, Types, TypeOK
<1>2. CASE ScanSlot
  <2>1. busy' \in [Slots -> BOOLEAN] /\ found' \in BOOLEAN
    BY <1>2 DEF ScanSlot, Types, TypeOK
  <2>2. dispSlot' \in 1 .. TableSize + 1
    BY <1>2, DownlinkAssumption DEF ScanSlot, Types, TypeOK, Slots
  <2>3. mishaps' \subseteq Mishaps
    BY <1>2 DEF ScanSlot, Types, TypeOK, Mishaps
  <2>. QED
    BY <1>2, <2>1, <2>2, <2>3 DEF ScanSlot, Types, TypeOK
<1>3. CASE ScanDone
  <2>1. mishaps' \subseteq Mishaps
    BY <1>3 DEF ScanDone, Types, TypeOK, Mishaps
  <2>. QED
    BY <1>3, <2>1, ReturnsAreTyped DEF ScanDone, Types, TypeOK
<1>4. CASE LoadCounterCb
  BY <1>4 DEF LoadCounterCb, Types, TypeOK
<1>5. CASE StoreCounterCb
  <2>1. dispLoad - dispPdu.weight \in Int
    BY Numbers DEF Types
  <2>2. queued' \in 0 .. ByteRange - 1
    BY <1>5, <2>1, ByteStays DEF StoreCounterCb, GivenBack
  <2>3. mishaps' \subseteq Mishaps
    BY <1>5 DEF StoreCounterCb, Types, TypeOK, Mishaps
  <2>. QED
    BY <1>5, <2>2, <2>3, ReturnsAreTyped DEF StoreCounterCb, Types, TypeOK
<1>6. CASE Transmitted
  <2>1. PICK pdu \in inSink : /\ inSink' = inSink \ {pdu}
                              /\ indications' = Append(indications, pdu)
    BY <1>6 DEF Transmitted
  <2>2. inSink' \subseteq Pdus /\ indications' \in Seq(Pdus)
    BY <2>1 DEF Types, TypeOK
  <2>. QED
    BY <1>6, <2>2 DEF Transmitted, Types, TypeOK
<1>7. CASE LooseTransmitted
  BY <1>7 DEF LooseTransmitted, Types, TypeOK
<1>8. CASE NodeReset
  <2>1. resets' \in 0 .. MaxResets /\ mishaps' \subseteq Mishaps
    BY <1>8, DownlinkAssumption DEF NodeReset, Types, TypeOK, Mishaps
  <2>. QED
    BY <1>8, <2>1 DEF NodeReset, Types, TypeOK
<1>. QED
  BY <1>1, <1>2, <1>3, <1>4, <1>5, <1>6, <1>7, <1>8 DEF DispatchStep

-----------------------------------------------------------------------------
(* Where the messages in flight are.                                        *)

LEMMA RangeOfAppended ==
  ASSUME NEW s \in Seq(Pdus), NEW pdu \in Pdus
  PROVE  /\ Range(Append(s, pdu)) = Range(s) \union {pdu}
         /\ (/\ pdu \notin Range(s)
             /\ \A i, j \in DOMAIN s : s[i] = s[j] => i = j)
              => \A i, j \in DOMAIN Append(s, pdu) : Append(s, pdu)[i] = Append(s, pdu)[j] => i = j
<1>1. /\ DOMAIN s = 1 .. Len(s) /\ Len(s) \in Nat
      /\ DOMAIN Append(s, pdu) = 1 .. Len(s) + 1
      /\ \A i \in 1 .. Len(s) : Append(s, pdu)[i] = s[i]
      /\ Append(s, pdu)[Len(s) + 1] = pdu
  OBVIOUS
<1>2. 1 .. Len(s) + 1 = (1 .. Len(s)) \union {Len(s) + 1}
  BY <1>1
<1>3. Range(Append(s, pdu)) = Range(s) \union {pdu}
  BY <1>1, <1>2 DEF Range
<1>4. ASSUME pdu \notin Range(s), \A i, j \in DOMAIN s : s[i] = s[j] => i = j,
             NEW i \in DOMAIN Append(s, pdu), NEW j \in DOMAIN Append(s, pdu),
             Append(s, pdu)[i] = Append(s, pdu)[j]
      PROVE  i = j
  <2>1. \A k \in 1 .. Len(s) : s[k] # pdu
    BY <1>1, <1>4 DEF Range
  <2>. QED
    BY <1>1, <1>2, <1>4, <2>1
<1>. QED
  BY <1>3, <1>4

LEMMA RangeOfTail ==
  ASSUME NEW s \in Seq(Pdus), s # <<>>, \A i, j \in DOMAIN s : s[i] = s[j] => i = j
  PROVE  /\ Head(s) \in Pdus /\ Tail(s) \in Seq(Pdus)
         /\ Range(s) = Range(Tail(s)) \union {Head(s)} /\ Head(s) \notin Range(Tail(s))
         /\ \A i, j \in DOMAIN Tail(s) : Tail(s)[i] = Tail(s)[j] => i = j
<1>1. /\ Len(s) \in Nat /\ Len(s) >= 1 /\ DOMAIN s = 1 .. Len(s)
      /\ Tail(s) \in Seq(Pdus) /\ DOMAIN Tail(s) = 1 .. Len(s) - 1
      /\ \A i \in 1 .. Len(s) - 1 : Tail(s)[i] = s[i + 1]
      /\ Head(s) = s[1] /\ Head(s) \in Pdus
  OBVIOUS
<1>2. \A i \in 1 .. Len(s) - 1 : i + 1 \in 1 .. Len(s) /\ i + 1 # 1
  BY <1>1
<1>3. \A i \in 1 .. Len(s) : i = 1 \/ (i - 1 \in 1 .. Len(s) - 1 /\ (i - 1) + 1 = i)
  BY <1>1
<1>4. Head(s) \notin Range(Tail(s))
  BY <1>1, <1>2 DEF Range
<1>5. Range(s) = Range(Tail(s)) \union {Head(s)}
  <2>1. \A i \in 1 .. Len(s) : s[i] \in Range(Tail(s)) \union {Head(s)}
    <3>. SUFFICES ASSUME NEW i \in 1 .. Len(s), i # 1 PROVE s[i] \in Range(Tail(s))
      BY <1>1
    <3>1. i - 1 \in DOMAIN Tail(s) /\ Tail(s)[i - 1] = s[i]
      BY <1>1, <1>3
    <3>. QED
      BY <3>1 DEF Range
  <2>2. Head(s) \in Range(s)
    BY <1>1 DEF Range
  <2>3. Range(Tail(s)) \subseteq Range(s)
    BY <1>1, <1>2 DEF Range
  <2>. QED
    BY <1>1, <2>1, <2>2, <2>3 DEF Range
<1>6. ASSUME NEW i \in DOMAIN Tail(s), NEW j \in DOMAIN Tail(s), Tail(s)[i] = Tail(s)[j]
      PROVE  i = j
  <2>1. i + 1 = j + 1
    BY <1>1, <1>2, <1>6
  <2>. QED
    BY <1>1, <2>1
<1>. QED
  BY <1>1, <1>4, <1>5, <1>6

LEMMA SamePlaces ==
  UNCHANGED <<inSink, indications, dispPdu>> /\ (disp' = "idle" <=> disp = "idle")
    => InFlight' = InFlight /\ (Placed => Placed')
BY DEF InFlight, Placed

Elsewhere ==
  \/ SendMessage \/ FragmentAccepted \/ RegisterSlot \/ FillSlot \/ LoadCounter \/ StoreCounter
  \/ ScanSlot \/ LoadCounterCb \/ LooseTransmitted \/ UNCHANGED vars

(* What a step does to the messages in flight, and that they stay in their  *)
(* places.                                                                  *)
LEMMA Moves ==
  ASSUME Types
  PROVE  /\ Elsewhere => Placed' /\ InFlight' = InFlight
         /\ TakeIndication => Placed' /\ InFlight' = InFlight
         /\ Transmitted => Placed' /\ InFlight' = InFlight
         /\ MessageAccepted => Placed' /\ InFlight' = InFlight \union {busPdu}
         /\ RequestFails =>
              Placed' /\ (InFlight' = InFlight \/ InFlight' = InFlight \union {busPdu})
         /\ ScanDone => Placed' /\ InFlight' = IF found THEN InFlight ELSE InFlight \ {dispPdu}
         /\ StoreCounterCb => Placed' /\ InFlight' = InFlight \ {dispPdu}
         /\ NodeReset => Placed' /\ InFlight' = InFlight \ inSink
<1>. USE DEF table, busState, dispState, nodeState
<1>0. Placed
  BY DEF Types
<1>1. ASSUME Elsewhere PROVE Placed' /\ InFlight' = InFlight
  <2>1. UNCHANGED <<inSink, indications, dispPdu>> /\ (disp' = "idle" <=> disp = "idle")
    BY <1>1 DEF Elsewhere, SendMessage, FragmentAccepted, RegisterSlot, FillSlot, LoadCounter,
                StoreCounter, ScanSlot, LoadCounterCb, LooseTransmitted, vars
  <2>. QED
    BY <1>0, <2>1, SamePlaces
<1>2. ASSUME TakeIndication PROVE Placed' /\ InFlight' = InFlight
  <2>1. /\ disp = "idle" /\ disp' = "scan" /\ inSink' = inSink /\ indications # <<>>
        /\ dispPdu' = Head(indications) /\ indications' = Tail(indications)
    BY <1>2 DEF TakeIndication
  <2>2. /\ Range(indications) = Range(indications') \union {dispPdu'}
        /\ dispPdu' \notin Range(indications')
        /\ \A i, j \in DOMAIN indications' : indications'[i] = indications'[j] => i = j
    BY <1>0, <2>1, RangeOfTail DEF Types, TypeOK, Placed
  <2>. QED
    BY <1>0, <2>1, <2>2 DEF InFlight, Placed
<1>3. ASSUME Transmitted PROVE Placed' /\ InFlight' = InFlight
  <2>1. PICK pdu \in inSink : inSink' = inSink \ {pdu} /\ indications' = Append(indications, pdu)
    BY <1>3 DEF Transmitted
  <2>2. UNCHANGED <<disp, dispPdu>>
    BY <1>3 DEF Transmitted
  <2>3. pdu \in Pdus /\ indications \in Seq(Pdus) /\ pdu \notin Range(indications)
    BY <1>0 DEF Types, TypeOK, Placed
  <2>4. /\ Range(indications') = Range(indications) \union {pdu}
        /\ \A i, j \in DOMAIN indications' : indications'[i] = indications'[j] => i = j
    BY <1>0, <2>1, <2>3, RangeOfAppended DEF Placed
  <2>. QED
    BY <1>0, <2>1, <2>2, <2>4 DEF InFlight, Placed
<1>4. ASSUME UNCHANGED <<indications, disp, dispPdu>>, bus = "request",
             inSink' = inSink \union {busPdu}
      PROVE  Placed' /\ InFlight' = InFlight \union {busPdu}
  <2>1. busPdu \notin InFlight
    BY <1>4 DEF Types, Numbered
  <2>2. InFlight' = InFlight \union {busPdu}
    BY <1>4 DEF InFlight
  <2>. QED
    BY <1>0, <1>4, <2>1, <2>2 DEF InFlight, Placed
<1>5. ASSUME MessageAccepted PROVE Placed' /\ InFlight' = InFlight \union {busPdu}
  BY <1>4, <1>5 DEF MessageAccepted
<1>6. ASSUME RequestFails
      PROVE  Placed' /\ (InFlight' = InFlight \/ InFlight' = InFlight \union {busPdu})
  <2>1. /\ UNCHANGED <<indications, disp, dispPdu>> /\ bus = "request"
        /\ inSink' = inSink \/ inSink' = inSink \union {busPdu}
    BY <1>6 DEF RequestFails
  <2>. QED
    BY <1>0, <1>4, <2>1, SamePlaces
<1>7. ASSUME UNCHANGED <<inSink, indications>>, DispReturns, disp # "idle"
      PROVE  Placed' /\ InFlight' = InFlight \ {dispPdu}
  BY <1>0, <1>7 DEF DispReturns, InFlight, Placed
<1>8. ASSUME ScanDone
      PROVE  Placed' /\ InFlight' = IF found THEN InFlight ELSE InFlight \ {dispPdu}
  <2>1. CASE found
    <3>1. UNCHANGED <<inSink, indications, dispPdu>> /\ disp = "scan" /\ disp' = "load"
      BY <1>8, <2>1 DEF ScanDone
    <3>. QED
      BY <1>0, <2>1, <3>1, SamePlaces
  <2>2. CASE ~found
    BY <1>7, <1>8, <2>2 DEF ScanDone
  <2>. QED
    BY <2>1, <2>2
<1>9. ASSUME StoreCounterCb PROVE Placed' /\ InFlight' = InFlight \ {dispPdu}
  BY <1>7, <1>9 DEF StoreCounterCb
<1>10. ASSUME NodeReset PROVE Placed' /\ InFlight' = InFlight \ inSink
  <2>1. inSink' = {} /\ UNCHANGED <<indications, disp, dispPdu>>
    BY <1>10 DEF NodeReset
  <2>. QED
    BY <1>0, <2>1 DEF InFlight, Placed
<1>. QED
  BY <1>1, <1>2, <1>3, <1>5, <1>6, <1>8, <1>9, <1>10

(* Messages that leave, or stay, keep their numbers.                        *)
LEMMA FewerAreNumbered ==
  ASSUME Numbered, InFlight' \subseteq InFlight, UNCHANGED <<sent, confirmed>>,
         bus' = "idle" \/ UNCHANGED <<bus, busPdu>> \/ (Confirmed /\ Confirmed' /\ busPdu' = busPdu)
  PROVE  Numbered'
<1>1. CASE bus' = "idle"
  BY <1>1 DEF Numbered, Confirmed
<1>2. CASE UNCHANGED <<bus, busPdu>>
  BY <1>2 DEF Numbered, Confirmed
<1>3. CASE Confirmed /\ Confirmed' /\ busPdu' = busPdu
  BY <1>3 DEF Numbered, Confirmed
<1>. QED
  BY <1>1, <1>2, <1>3

LEMMA NumbersStay ==
  ASSUME Types, [Next]_vars
  PROVE  Numbered'
<1>. USE DEF table, busState, dispState, nodeState
<1>0. Numbered /\ sent \in Nat /\ confirmed \subseteq 1 .. sent
  BY Numbers DEF Types, TypeOK
<1>1. CASE SendMessage
  <2>1. /\ InFlight' = InFlight /\ sent' = sent + 1 /\ confirmed' = confirmed
        /\ bus' = "request" /\ busPdu'.sent = sent + 1
    <3>1. InFlight' = InFlight
      BY <1>1, Moves DEF Elsewhere
    <3>. QED
      BY <1>1, <3>1 DEF SendMessage
  <2>2. sent + 1 \notin confirmed /\ sent + 1 > 0
    BY <1>0
  <2>3. \A pdu \in InFlight : pdu.sent \in 1 .. sent + 1 /\ pdu.sent # sent + 1
    BY <1>0 DEF Numbered
  <2>. QED
    BY <1>0, <2>1, <2>2, <2>3 DEF Numbered, Confirmed
<1>2. CASE RequestFails
  <2>1. /\ bus = "request" /\ bus' = "idle" /\ UNCHANGED <<sent, confirmed>>
        /\ InFlight' \subseteq InFlight \union {busPdu}
    BY <1>2, Moves DEF RequestFails, BusReturns
  <2>2. busPdu.sent = sent /\ busPdu.sent \in 1 .. sent /\ \A pdu \in InFlight : pdu.sent # sent
    BY <1>0, <2>1 DEF Numbered
  <2>. QED
    BY <1>0, <2>1, <2>2 DEF Numbered, Confirmed
<1>3. CASE MessageAccepted
  <2>1. /\ bus = "request" /\ bus' = "register" /\ UNCHANGED <<sent, busPdu>>
        /\ confirmed' = confirmed \union {busPdu.sent}
        /\ InFlight' = InFlight \union {busPdu}
    BY <1>3, Moves DEF MessageAccepted
  <2>2. busPdu.sent = sent /\ busPdu.sent \in 1 .. sent /\ \A pdu \in InFlight : pdu.sent # sent
    BY <1>0, <2>1 DEF Numbered
  <2>. QED
    BY <1>0, <2>1, <2>2 DEF Numbered, Confirmed
<1>4. CASE FragmentAccepted \/ RegisterSlot \/ FillSlot \/ LoadCounter \/ StoreCounter
           \/ ScanSlot \/ LoadCounterCb \/ LooseTransmitted \/ UNCHANGED vars
  <2>1. InFlight' = InFlight
    BY <1>4, Moves DEF Elsewhere
  <2>2. /\ UNCHANGED <<sent, confirmed>>
        /\ bus' = "idle" \/ UNCHANGED <<bus, busPdu>>
           \/ (Confirmed /\ Confirmed' /\ busPdu' = busPdu)
    BY <1>4 DEF FragmentAccepted, RegisterSlot, FillSlot, LoadCounter, StoreCounter, BusReturns,
                ScanSlot, LoadCounterCb, LooseTransmitted, vars, Confirmed
  <2>. QED
    BY <1>0, <2>1, <2>2, FewerAreNumbered
<1>5. CASE TakeIndication \/ Transmitted \/ ScanDone \/ StoreCounterCb \/ NodeReset
  <2>1. InFlight' \subseteq InFlight
    BY <1>5, Moves
  <2>2. UNCHANGED <<sent, confirmed, bus, busPdu>>
    BY <1>5 DEF TakeIndication, Transmitted, ScanDone, StoreCounterCb, NodeReset
  <2>. QED
    BY <1>0, <2>1, <2>2, FewerAreNumbered
<1>. QED
  BY <1>1, <1>2, <1>3, <1>4, <1>5 DEF Next, BusStep, DispatchStep

LEMMA ProgressStays ==
  ASSUME Types, [Next]_vars
  PROVE  Progress'
<1>. USE DEF table, busState, dispState, nodeState
<1>0. Progress
  BY DEF Types
<1>1. IsFiniteSet(InFlight')
  <2>1. IsFiniteSet(InFlight)
    BY <1>0 DEF Progress
  <2>2. \A pdu : IsFiniteSet(InFlight \union {pdu})
    BY <2>1, FS_AddElement
  <2>3. \A S : IsFiniteSet(InFlight \ S)
    BY <2>1, FS_Difference
  <2>. QED
    BY <2>1, <2>2, <2>3, Moves DEF Next, BusStep, DispatchStep, Elsewhere
<1>2. bus' # "idle" => busPdu'.weight <= DownlinkLimit
  <2>1. CASE SendMessage
    <3>1. PICK weight \in Weights : queued + weight <= DownlinkLimit /\ busPdu'.weight = weight
      BY <2>1 DEF SendMessage, Fits
    <3>2. queued \in Nat /\ weight \in Nat
      BY Numbers, DownlinkAssumption DEF Types
    <3>. QED
      BY <3>1, <3>2, DownlinkAssumption
  <2>2. CASE ~SendMessage
    <3>1. bus' = "idle" \/ (bus # "idle" /\ busPdu' = busPdu)
      BY <2>2 DEF Next, BusStep, DispatchStep, BusReturns, vars, RequestFails, FragmentAccepted,
                  MessageAccepted, RegisterSlot, FillSlot, LoadCounter, StoreCounter,
                  TakeIndication, ScanSlot, ScanDone, LoadCounterCb, StoreCounterCb, Transmitted,
                  LooseTransmitted, NodeReset
    <3>. QED
      BY <1>0, <3>1 DEF Progress
  <2>. QED
    BY <2>1, <2>2
<1>3. bus' = "request" => /\ fragment' >= 1 /\ fragment' - 1 <= busPdu'.weight
                          /\ fragment' = 1 \/ fragment' <= busPdu'.weight
  <2>1. CASE SendMessage
    <3>1. PICK weight \in Weights : fragment' = 1 /\ busPdu'.weight = weight
      BY <2>1 DEF SendMessage
    <3>2. weight \in Nat
      BY DownlinkAssumption
    <3>. QED
      BY <3>1, <3>2
  <2>2. CASE FragmentAccepted
    BY <1>0, <2>2, Numbers DEF FragmentAccepted, LastFragment, Progress, Types
  <2>3. CASE ~SendMessage /\ ~FragmentAccepted
    <3>1. bus' # "request" \/ UNCHANGED <<bus, busPdu, fragment>>
      BY <2>3 DEF Next, BusStep, DispatchStep, BusReturns, vars, RequestFails, MessageAccepted,
                  RegisterSlot, FillSlot, LoadCounter, StoreCounter,
                  TakeIndication, ScanSlot, ScanDone, LoadCounterCb, StoreCounterCb, Transmitted,
                  LooseTransmitted, NodeReset
    <3>. QED
      BY <1>0, <3>1 DEF Progress
  <2>. QED
    BY <2>1, <2>2, <2>3
<1>4. bus' = "fill" => busSlot' \in Slots
  <2>1. RegisterSlot \/ bus' # "fill" \/ UNCHANGED <<bus, busSlot>>
    BY DEF Next, BusStep, DispatchStep, BusReturns, vars, RequestFails, MessageAccepted,
           SendMessage, FragmentAccepted, FillSlot, LoadCounter, StoreCounter,
           TakeIndication, ScanSlot, ScanDone, LoadCounterCb, StoreCounterCb, Transmitted,
           LooseTransmitted, NodeReset
  <2>. QED
    BY <1>0, <2>1 DEF RegisterSlot, Progress
<1>. QED
  BY <1>1, <1>2, <1>3, <1>4 DEF Progress

LEMMA TypesFromInit == Init => Types
<1>. SUFFICES ASSUME Init PROVE Types
  OBVIOUS
<1>1. InFlight = {}
  BY DEF Init, InFlight, Range
<1>. QED
  BY <1>1, InitTypes, FS_EmptySet DEF Init, Types, Placed, Numbered, Progress, Confirmed, Range

LEMMA TypesStay == Types /\ [Next]_vars => Types'
<1>. SUFFICES ASSUME Types, [Next]_vars PROVE Types'
  OBVIOUS
<1>1. TypeOK'
  BY BusTypes, OtherTypes, StillTyped DEF Types, Next
<1>2. Placed'
  BY Moves DEF Next, BusStep, DispatchStep, Elsewhere
<1>. QED
  BY <1>1, <1>2, NumbersStay, ProgressStays DEF Types

LEMMA TypesHold == Spec => []Types
BY TypesFromInit, TypesStay, PTL DEF Spec

(* Every variable keeps its type, and the counter stays a byte.             *)
THEOREM TypeCorrect == Spec => []TypeOK
<1>1. Types => TypeOK
  BY DEF Types
<1>. QED
  BY <1>1, TypesHold, PTL

-----------------------------------------------------------------------------
(* What the counter holds.                                                  *)

LEMMA WrappedPlus ==
  ASSUME NEW n \in Int, NEW w \in Nat, -DownlinkLimit <= n, n + w <= DownlinkLimit, n + w >= 0
  PROVE  (Wrapped(n) + w) % ByteRange = n + w
<1>1. \A x \in 0 .. ByteRange - 1 : x % ByteRange = x
  BY DownlinkAssumption
<1>2. \A x \in ByteRange .. 2 * ByteRange - 1 : x % ByteRange = x - ByteRange
  BY DownlinkAssumption
<1>3. CASE n >= 0
  <2>1. Wrapped(n) + w \in 0 .. ByteRange - 1
    BY <1>3, DownlinkAssumption DEF Wrapped
  <2>. QED
    BY <1>1, <1>3, <2>1 DEF Wrapped
<1>4. CASE n < 0
  <2>1. Wrapped(n) + w \in ByteRange .. 2 * ByteRange - 1
    BY <1>4, DownlinkAssumption DEF Wrapped
  <2>. QED
    BY <1>2, <1>4, <2>1, DownlinkAssumption DEF Wrapped
<1>. QED
  BY <1>3, <1>4

LEMMA WrappedMinus ==
  ASSUME NEW n \in Int, NEW w \in Nat, -DownlinkLimit <= n - w, n <= DownlinkLimit
  PROVE  (Wrapped(n) - w) % ByteRange = Wrapped(n - w)
<1>1. \A x \in 0 .. ByteRange - 1 : x % ByteRange = x
  BY DownlinkAssumption
<1>2. \A x \in (-ByteRange) .. -1 : x % ByteRange = x + ByteRange
  BY DownlinkAssumption
<1>3. CASE n >= 0 /\ n - w >= 0
  <2>1. Wrapped(n) - w \in 0 .. ByteRange - 1
    BY <1>3, DownlinkAssumption DEF Wrapped
  <2>. QED
    BY <1>1, <1>3, <2>1 DEF Wrapped
<1>4. CASE n >= 0 /\ n - w < 0
  <2>1. Wrapped(n) - w \in (-ByteRange) .. -1
    BY <1>4, DownlinkAssumption DEF Wrapped
  <2>. QED
    BY <1>2, <1>4, <2>1, DownlinkAssumption DEF Wrapped
<1>5. CASE n < 0
  <2>1. Wrapped(n) - w \in 0 .. ByteRange - 1 /\ n - w < 0
    BY <1>5, DownlinkAssumption DEF Wrapped
  <2>. QED
    BY <1>1, <1>5, <2>1, DownlinkAssumption DEF Wrapped
<1>. QED
  BY <1>3, <1>4, <1>5

LEMMA MishapsGrow == [Next]_vars => mishaps \subseteq mishaps'
BY DEF Next, BusStep, DispatchStep, vars, Mishap, SendMessage, RequestFails, FragmentAccepted,
       MessageAccepted, RegisterSlot, FillSlot, LoadCounter, StoreCounter,
       TakeIndication, ScanSlot, ScanDone, LoadCounterCb, StoreCounterCb, Transmitted,
       LooseTransmitted, NodeReset

(* Which step notes which mishap.                                           *)
LEMMA MishapKinds ==
  ASSUME [Next]_vars
  PROVE  /\ ~ScanDone => mishaps' \subseteq mishaps \union (Mishaps \ {"missed", "stolen"})
         /\ ~RegisterSlot => mishaps' \subseteq mishaps \union (Mishaps \ {"full"})
<1>1. CASE SendMessage \/ RequestFails
  BY <1>1 DEF SendMessage, RequestFails, Mishap, Mishaps
<1>2. CASE StoreCounter \/ StoreCounterCb \/ RegisterSlot
  BY <1>2 DEF StoreCounter, StoreCounterCb, RegisterSlot, Mishap, Mishaps
<1>3. CASE TakeIndication \/ ScanSlot \/ NodeReset
  BY <1>3 DEF TakeIndication, ScanSlot, NodeReset, Mishap, Mishaps
<1>4. CASE ScanDone
  BY <1>4 DEF ScanDone, Mishap, Mishaps
<1>5. CASE FragmentAccepted \/ MessageAccepted \/ FillSlot \/ LoadCounter \/ LoadCounterCb
           \/ Transmitted \/ LooseTransmitted \/ UNCHANGED vars
  <2>1. mishaps' = mishaps
    BY <1>5 DEF FragmentAccepted, MessageAccepted, FillSlot, LoadCounter, LoadCounterCb,
                Transmitted, LooseTransmitted, vars
  <2>. QED
    BY <2>1
<1>. QED
  BY <1>1, <1>2, <1>3, <1>4, <1>5 DEF Next, BusStep, DispatchStep

(* What a step does to the confirmed messages in flight.                    *)
LEMMA HeldMoves ==
  ASSUME Types, [Next]_vars
  PROVE  /\ MessageAccepted => Held' = Held \union {busPdu} /\ busPdu \notin Held
         /\ ScanDone => Held' = IF found THEN Held ELSE Held \ {dispPdu}
         /\ StoreCounterCb => Held' = Held \ {dispPdu}
         /\ NodeReset => Held' = Held \ inSink
         /\ RequestFails \/ TakeIndication \/ Transmitted \/ Elsewhere => Held' = Held
<1>0. Numbered
  BY DEF Types
<1>1. ASSUME MessageAccepted PROVE Held' = Held \union {busPdu} /\ busPdu \notin Held
  <2>1. bus = "request" /\ confirmed' = confirmed \union {busPdu.sent}
    BY <1>1 DEF MessageAccepted
  <2>2. InFlight' = InFlight \union {busPdu}
    BY <1>1, Moves
  <2>3. \A pdu \in InFlight : pdu.sent # busPdu.sent
    BY <1>0, <2>1 DEF Numbered
  <2>. QED
    BY <2>1, <2>2, <2>3 DEF Held
<1>2. ASSUME RequestFails PROVE Held' = Held
  <2>1. bus = "request" /\ confirmed' = confirmed
    BY <1>2 DEF RequestFails
  <2>2. InFlight' = InFlight \/ InFlight' = InFlight \union {busPdu}
    BY <1>2, Moves
  <2>3. busPdu.sent \notin confirmed
    BY <1>0, <2>1 DEF Numbered
  <2>. QED
    BY <2>1, <2>2, <2>3 DEF Held
<1>3. ASSUME ScanDone \/ StoreCounterCb \/ NodeReset \/ TakeIndication \/ Transmitted \/ Elsewhere
      PROVE  confirmed' = confirmed
  BY <1>3 DEF ScanDone, StoreCounterCb, NodeReset, TakeIndication, Transmitted, Elsewhere,
              SendMessage, FragmentAccepted, RegisterSlot, FillSlot, LoadCounter, StoreCounter,
              ScanSlot, LoadCounterCb, LooseTransmitted, vars
<1>4. ASSUME ScanDone PROVE Held' = IF found THEN Held ELSE Held \ {dispPdu}
  BY <1>3, <1>4, Moves DEF Held
<1>5. ASSUME StoreCounterCb PROVE Held' = Held \ {dispPdu}
  BY <1>3, <1>5, Moves DEF Held
<1>6. ASSUME NodeReset PROVE Held' = Held \ inSink
  BY <1>3, <1>6, Moves DEF Held
<1>7. ASSUME TakeIndication \/ Transmitted \/ Elsewhere PROVE Held' = Held
  BY <1>3, <1>7, Moves DEF Held
<1>. QED
  BY <1>1, <1>2, <1>4, <1>5, <1>6, <1>7

LEMMA HeldIsFinite ==
  ASSUME Types
  PROVE  /\ IsFiniteSet(Held) /\ Held \subseteq Pdus /\ \A q \in Held : q.weight \in Nat
         /\ Weight(Held) \in Nat
<1>1. Held \subseteq InFlight /\ IsFiniteSet(InFlight)
  BY DEF Held, Types, Progress
<1>2. Range(indications) \subseteq Pdus
  BY DEF Types, TypeOK, Range
<1>3. InFlight \subseteq Pdus
  BY <1>2 DEF InFlight, Types, TypeOK
<1>4. IsFiniteSet(Held)
  BY <1>1, FS_Subset
<1>5. \A q \in Held : q.weight \in Nat
  BY <1>1, <1>3, PdusAreTyped
<1>. QED
  BY <1>1, <1>3, <1>4, <1>5, FragmentsAreFinite

(* The parts of Counting that are not about the leak.                       *)
Loaded ==
  /\ bus = "store" => busLoad = queued
  /\ disp = "store" => dispLoad = queued
  /\ disp \in {"load", "store"} => dispPdu.sent \in confirmed

LEMMA LoadedStays ==
  ASSUME Types, [Next]_vars, Loaded, mishaps' \intersect {"race", "stolen"} = {}
  PROVE  Loaded'
<1>. USE DEF table, busState, dispState, nodeState
<1>1. CASE StoreCounter
  BY <1>1 DEF StoreCounter, Loaded, Mishap, BusReturns
<1>2. CASE StoreCounterCb
  BY <1>2 DEF StoreCounterCb, Loaded, Mishap, DispReturns
<1>3. CASE LoadCounter \/ LoadCounterCb
  BY <1>3 DEF LoadCounter, LoadCounterCb, Loaded
<1>4. CASE ScanDone
  BY <1>4 DEF ScanDone, Loaded, Mishap, DispReturns
<1>5. CASE MessageAccepted
  <2>1. \A n \in confirmed : n \in confirmed'
    BY <1>5 DEF MessageAccepted
  <2>. QED
    BY <1>5, <2>1 DEF MessageAccepted, Loaded
<1>6. CASE SendMessage \/ RequestFails \/ FragmentAccepted \/ RegisterSlot \/ FillSlot
  BY <1>6 DEF SendMessage, RequestFails, FragmentAccepted, RegisterSlot, FillSlot, BusReturns,
              Loaded
<1>7. CASE TakeIndication \/ ScanSlot \/ Transmitted \/ LooseTransmitted \/ NodeReset
           \/ UNCHANGED vars
  BY <1>7 DEF TakeIndication, ScanSlot, Transmitted, LooseTransmitted, NodeReset, vars, Loaded
<1>. QED
  BY <1>1, <1>2, <1>3, <1>4, <1>5, <1>6, <1>7 DEF Next, BusStep, DispatchStep

(* A step that changes neither the messages held nor the counter.           *)
LEMMA SameCount ==
  ASSUME NEW leak \in Nat, Counted(leak), Types, Held' = Held, queued' = queued,
         Due' = Due, Asked' <= Asked, Asked' \in Nat, mishaps \subseteq mishaps'
  PROVE  Counted(leak)'
<1>1. /\ Weight(Held) \in Nat /\ Weight(Held') = Weight(Held) /\ Asked \in Nat
  BY HeldIsFinite, Numbers DEF Types, Asked
<1>2. /\ Weight(Held) + leak + Asked <= DownlinkLimit
      /\ queued = Wrapped(Weight(Held) + leak - Due)
      /\ mishaps \intersect {"missed", "reset"} = {} => leak = 0
  BY DEF Counted
<1>3. Weight(Held') + leak + Asked' <= DownlinkLimit
  BY <1>1, <1>2, DownlinkAssumption
<1>4. queued' = Wrapped(Weight(Held') + leak - Due')
  BY <1>1, <1>2
<1>5. mishaps' \intersect {"missed", "reset"} = {} => leak = 0
  BY <1>2
<1>. QED
  BY <1>3, <1>4, <1>5 DEF Counted

LEMMA CountedStays ==
  ASSUME Types, [Next]_vars, Loaded, NEW leak \in Nat, Counted(leak),
         mishaps' \intersect {"race", "stolen"} = {}
  PROVE  \E n \in Nat : Counted(n)'
<1>. USE DEF table, busState, dispState, nodeState
<1> DEFINE W == Weight(Held)
<1>0. /\ W \in Nat /\ busPdu.weight \in Nat /\ dispPdu.weight \in Nat
      /\ W + leak + Asked <= DownlinkLimit
      /\ queued = Wrapped(W + leak - Due)
      /\ mishaps \intersect {"missed", "reset"} = {} => leak = 0
      /\ mishaps \subseteq mishaps'
  BY HeldIsFinite, Numbers, MishapsGrow DEF Types, Counted
<1>00. /\ Due \in Nat /\ Due <= DownlinkLimit /\ Asked \in Nat /\ DownlinkLimit \in Nat
  BY <1>0, DownlinkAssumption DEF Due, Asked, Confirmed, Types, Progress
<1>1. CASE SendMessage
  <2>1. PICK weight \in Weights : queued + weight <= DownlinkLimit /\ busPdu'.weight = weight
    BY <1>1 DEF SendMessage, Fits
  <2>2. /\ Held' = Held /\ queued' = queued /\ bus = "idle" /\ bus' = "request"
    BY <1>1, HeldMoves DEF SendMessage, Elsewhere
  <2>3. Due = 0 /\ Due' = 0 /\ Asked' = weight /\ weight \in Nat
    BY <2>1, <2>2, DownlinkAssumption DEF Due, Asked, Confirmed
  <2>4. queued = W + leak
    BY <1>0, <2>3 DEF Wrapped
  <2>5. W + leak + weight <= DownlinkLimit
    BY <2>1, <2>4
  <2>6. Weight(Held') = W
    BY <2>2
  <2>7. Weight(Held') + leak + Asked' <= DownlinkLimit
    BY <2>3, <2>5, <2>6
  <2>8. queued' = Wrapped(Weight(Held') + leak - Due')
    BY <1>0, <2>2, <2>3, <2>6
  <2>9. mishaps' \intersect {"missed", "reset"} = {} => leak = 0
    BY <1>0
  <2>. QED
    BY <2>7, <2>8, <2>9 DEF Counted
<1>2. CASE MessageAccepted
  <2>1. /\ bus = "request" /\ bus' = "register" /\ UNCHANGED <<queued, busPdu>>
        /\ Held' = Held \union {busPdu} /\ busPdu \notin Held
    BY <1>2, HeldMoves DEF MessageAccepted
  <2>2. Due = 0 /\ Due' = busPdu.weight /\ Asked = busPdu.weight /\ Asked' = 0
    BY <2>1 DEF Due, Asked, Confirmed
  <2>3. Weight(Held') = W + busPdu.weight
    BY <1>0, <2>1, HeldIsFinite, WeightAdded
  <2>4. Weight(Held') + leak + Asked' <= DownlinkLimit
    BY <1>0, <2>2, <2>3
  <2>5. Weight(Held') + leak - Due' = W + leak - Due
    BY <1>0, <2>2, <2>3
  <2>6. queued' = Wrapped(Weight(Held') + leak - Due')
    BY <1>0, <2>1, <2>5
  <2>7. mishaps' \intersect {"missed", "reset"} = {} => leak = 0
    BY <1>0
  <2>. QED
    BY <2>4, <2>6, <2>7 DEF Counted
<1>3. CASE StoreCounter
  <2>1. /\ bus = "store" /\ bus' = "idle" /\ queued' = (queued + busPdu.weight) % ByteRange
        /\ Held' = Held
    BY <1>3, HeldMoves DEF StoreCounter, Elsewhere, BusReturns, Loaded, Mishap
  <2>2. Due = busPdu.weight /\ Due' = 0 /\ Asked = 0 /\ Asked' = 0
    BY <2>1 DEF Due, Asked, Confirmed
  <2> DEFINE n == W + leak - Due
  <2>3. n \in Int /\ -DownlinkLimit <= n /\ n + busPdu.weight = W + leak
    BY <1>0, <1>00, <2>2
  <2>4. n + busPdu.weight <= DownlinkLimit /\ n + busPdu.weight >= 0
    BY <1>0, <2>2, <2>3
  <2>. HIDE DEF n
  <2>5. queued' = n + busPdu.weight
    BY <1>0, <2>1, <2>3, <2>4, WrappedPlus DEF n
  <2>6. Weight(Held') = W
    BY <2>1
  <2>7. Weight(Held') + leak + Asked' <= DownlinkLimit
    BY <1>0, <2>2, <2>6
  <2>8. queued' = Wrapped(Weight(Held') + leak - Due')
    BY <1>0, <2>2, <2>3, <2>5, <2>6 DEF Wrapped
  <2>9. mishaps' \intersect {"missed", "reset"} = {} => leak = 0
    BY <1>0
  <2>. QED
    BY <2>7, <2>8, <2>9 DEF Counted
<1>4. CASE StoreCounterCb
  <2>1. /\ disp = "store" /\ queued' = (queued - dispPdu.weight) % ByteRange
        /\ UNCHANGED <<bus, busPdu>> /\ Held' = Held \ {dispPdu}
    BY <1>4, HeldMoves DEF StoreCounterCb, GivenBack, Loaded
  <2>2. dispPdu \in Held
    BY <2>1 DEF Held, InFlight, Loaded
  <2>3. Weight(Held') = W - dispPdu.weight /\ Weight(Held') \in Nat
    BY <1>0, <2>1, <2>2, HeldIsFinite, WeightRemoved, WeightGrows
  <2>4. Due' = Due /\ Asked' = Asked
    BY <2>1 DEF Due, Asked, Confirmed
  <2> DEFINE n == W + leak - Due
  <2>5. n \in Int /\ n <= DownlinkLimit /\ -DownlinkLimit <= n - dispPdu.weight
    BY <1>0, <1>00, <2>3
  <2>6. n - dispPdu.weight = Weight(Held') + leak - Due'
    BY <1>0, <1>00, <2>3, <2>4
  <2>. HIDE DEF n
  <2>7. queued' = Wrapped(n - dispPdu.weight)
    BY <1>0, <2>1, <2>5, WrappedMinus DEF n
  <2>8. Weight(Held') + leak + Asked' <= DownlinkLimit
    BY <1>0, <1>00, <2>3, <2>4
  <2>9. queued' = Wrapped(Weight(Held') + leak - Due')
    BY <2>6, <2>7
  <2>10. mishaps' \intersect {"missed", "reset"} = {} => leak = 0
    BY <1>0
  <2>. QED
    BY <2>8, <2>9, <2>10 DEF Counted
<1>5. CASE ScanDone \/ NodeReset
  <2>1. /\ UNCHANGED <<bus, busPdu, queued>>
        /\ Held' \subseteq Held
        /\ Held' # Held => mishaps' \intersect {"missed", "reset"} # {}
    <3>1. CASE ScanDone
      <4>1. UNCHANGED <<bus, busPdu, queued>> /\ Held' = IF found THEN Held ELSE Held \ {dispPdu}
        BY <1>5, <3>1, HeldMoves DEF ScanDone
      <4>2. ~found /\ dispPdu.sent \in confirmed => "missed" \in mishaps'
        BY <3>1 DEF ScanDone, Mishap
      <4>. QED
        BY <4>1, <4>2 DEF Held
    <3>2. CASE NodeReset
      BY <3>2, HeldMoves DEF NodeReset, Mishap
    <3>. QED
      BY <1>5, <3>1, <3>2
  <2> DEFINE V == Weight(Held')
  <2>2. V \in Nat /\ V <= W /\ (Held' = Held => V = W)
    BY <2>1, HeldIsFinite, WeightGrows
  <2>3. Due' = Due /\ Asked' = Asked
    BY <2>1 DEF Due, Asked, Confirmed
  <2>4. PICK n \in Nat : V + n = W + leak /\ (Held' = Held => n = leak)
    <3>1. leak + (W - V) \in Nat /\ V + (leak + (W - V)) = W + leak
      BY <2>2, <1>0
    <3>2. Held' = Held => leak + (W - V) = leak
      BY <2>2, <1>0
    <3>. QED
      BY <3>1, <3>2
  <2>5. V + n + Asked' <= DownlinkLimit
    BY <1>0, <1>00, <2>2, <2>3, <2>4
  <2>6. V + n - Due' = W + leak - Due
    BY <1>0, <1>00, <2>2, <2>3, <2>4
  <2>7. queued' = Wrapped(V + n - Due')
    BY <1>0, <2>1, <2>6
  <2>8. mishaps' \intersect {"missed", "reset"} = {} => n = 0
    BY <1>0, <2>1, <2>4
  <2>. QED
    BY <2>5, <2>7, <2>8 DEF Counted
<1>6. CASE RequestFails \/ FragmentAccepted \/ RegisterSlot \/ FillSlot \/ LoadCounter
           \/ TakeIndication \/ ScanSlot \/ LoadCounterCb \/ Transmitted \/ LooseTransmitted
           \/ UNCHANGED vars
  <2>1. Held' = Held
    BY <1>6, HeldMoves DEF Elsewhere
  <2>2. /\ queued' = queued
        /\ \/ UNCHANGED <<bus, busPdu>>
           \/ bus = "request" /\ bus' = "idle"
           \/ Confirmed /\ Confirmed' /\ bus' # "request" /\ busPdu' = busPdu
    BY <1>6
       DEF RequestFails, FragmentAccepted, RegisterSlot, FillSlot, LoadCounter, TakeIndication,
           ScanSlot, LoadCounterCb, Transmitted, LooseTransmitted, vars, BusReturns, Confirmed
  <2>3. Due' = Due
    BY <2>2 DEF Due, Confirmed
  <2>4. Asked' <= Asked /\ Asked' \in Nat
    BY <1>00, <2>2 DEF Asked
  <2>. QED
    BY <1>0, <2>1, <2>2, <2>3, <2>4, SameCount
<1>. QED
  BY <1>1, <1>2, <1>3, <1>4, <1>5, <1>6 DEF Next, BusStep, DispatchStep

LEMMA HeldWeighs == Types => Weight(Held) \in Nat /\ busPdu.weight \in Nat
BY HeldIsFinite, Numbers DEF Types

LEMMA HeldWeighsNext == Types' => (Weight(Held) \in Nat /\ busPdu.weight \in Nat)'
BY HeldWeighs, PTL

LEMMA CountingStays ==
  ASSUME Types, Types', [Next]_vars, Counting
  PROVE  Counting'
<1>. SUFFICES ASSUME mishaps' \intersect {"race", "stolen"} = {}
              PROVE  (\E leak \in 0 .. DownlinkLimit : Counted(leak)') /\ Loaded'
  BY DEF Counting, Loaded
<1>1. mishaps \intersect {"race", "stolen"} = {}
  BY MishapsGrow
<1>2. Loaded /\ \E leak \in 0 .. DownlinkLimit : Counted(leak)
  BY <1>1 DEF Counting, Loaded
<1>3. PICK leak \in Nat : Counted(leak)
  BY <1>2, DownlinkAssumption
<1>4. PICK n \in Nat : Counted(n)'
  BY <1>2, <1>3, CountedStays
<1>5. n \in 0 .. DownlinkLimit
  <2>1. Weight(Held)' \in Nat /\ busPdu'.weight \in Nat
    BY HeldWeighsNext
  <2>. QED
    BY <1>4, <2>1, DownlinkAssumption DEF Counted, Asked
<1>6. Loaded'
  BY <1>2, LoadedStays
<1>. QED
  BY <1>4, <1>5, <1>6

LEMMA WholeStays ==
  ASSUME Types, [Next]_vars, Whole
  PROVE  Whole'
<1>. USE DEF table, busState, dispState, nodeState
<1>. SUFFICES ASSUME "abandoned" \notin mishaps'
              PROVE  loose' = 0 /\ \A pdu \in inSink' : pdu.sent \in confirmed'
  BY DEF Whole
<1>0. loose = 0 /\ \A pdu \in inSink : pdu.sent \in confirmed
  BY MishapsGrow DEF Whole
<1>1. CASE RequestFails
  <2>1. PICK taken \in {fragment - 1, fragment} :
          /\ IF taken = fragment /\ LastFragment
               THEN inSink' = inSink \union {busPdu} /\ UNCHANGED loose
               ELSE loose' = loose + taken /\ UNCHANGED inSink
          /\ Mishap(IF taken > 0 THEN {"abandoned"} ELSE {})
    BY <1>1 DEF RequestFails
  <2>2. fragment \in Nat /\ fragment >= 1 /\ confirmed' = confirmed
    BY <1>1, Numbers DEF RequestFails, Types, Progress
  <2>3. ~(taken > 0)
    BY <2>1 DEF Mishap
  <2>4. taken = 0 /\ taken # fragment
    BY <2>1, <2>2, <2>3
  <2>5. loose' = loose + 0 /\ inSink' = inSink
    BY <2>1, <2>4
  <2>. QED
    BY <1>0, <2>2, <2>5
<1>2. CASE MessageAccepted
  BY <1>0, <1>2 DEF MessageAccepted
<1>3. CASE LooseTransmitted
  BY <1>0, <1>3 DEF LooseTransmitted
<1>4. CASE Transmitted \/ NodeReset
  BY <1>0, <1>4 DEF Transmitted, NodeReset
<1>5. CASE SendMessage \/ FragmentAccepted \/ RegisterSlot \/ FillSlot \/ LoadCounter
           \/ StoreCounter \/ DispatchStep \/ UNCHANGED vars
  <2>1. UNCHANGED <<inSink, loose, confirmed>>
    BY <1>5 DEF SendMessage, FragmentAccepted, RegisterSlot, FillSlot, LoadCounter, StoreCounter,
                DispatchStep, TakeIndication, ScanSlot, ScanDone, LoadCounterCb, StoreCounterCb,
                vars
  <2>. QED
    BY <1>0, <2>1
<1>. QED
  BY <1>1, <1>2, <1>3, <1>4, <1>5 DEF Next, BusStep

Accounts == Types /\ Counting /\ Whole

LEMMA AccountsHold == Spec => []Accounts
<1>1. Init => Accounts
  <2>. SUFFICES ASSUME Init PROVE Counting /\ Whole
    BY TypesFromInit DEF Accounts
  <2>1. Held = {} /\ Weight(Held) = 0
    BY NothingWeighsNothing DEF Init, Held, InFlight, Range
  <2>2. Due = 0 /\ Asked = 0 /\ queued = 0 /\ bus = "idle" /\ disp = "idle"
    BY DEF Init, Due, Asked, Confirmed
  <2>3. Counted(0) /\ 0 \in 0 .. DownlinkLimit
    BY <2>1, <2>2, DownlinkAssumption DEF Counted, Wrapped
  <2>. QED
    BY <2>2, <2>3 DEF Init, Counting, Whole
<1>2. Accounts /\ [Next]_vars => Accounts'
  BY TypesStay, CountingStays, WholeStays DEF Accounts
<1>. QED
  BY <1>1, <1>2, PTL DEF Spec

(* What the sink holds keeps to m_downlink_limit: never more fragments are  *)
(* in it than it may hold, unless an update of the counter was lost or a    *)
(* callback ran for another message; and if messages were abandoned in part *)
(* then the confirmed ones keep to it.                                      *)
THEOREM LimitIsKept == Spec => []LimitKept
<1>1. ASSUME Accounts, mishaps \intersect {"race", "stolen"} = {}
      PROVE  Weigh(inSink) <= DownlinkLimit /\ (Load <= DownlinkLimit \/ "abandoned" \in mishaps)
  <2>1. Types /\ Counting /\ Whole
    BY <1>1 DEF Accounts
  <2>2. PICK leak \in Nat : Counted(leak)
    BY <1>1, <2>1, DownlinkAssumption DEF Counting
  <2>3. /\ Weight(Held) \in Nat /\ busPdu.weight \in Nat /\ Asked \in Nat
        /\ Weight(Held) + leak + Asked <= DownlinkLimit
    BY <2>1, <2>2, HeldWeighs DEF Counted, Asked
  <2>4. Weigh(inSink) \in Nat /\ Weigh(inSink) <= Weight(Held)
    <3>1. {pdu \in inSink : pdu.sent \in confirmed} \subseteq Held
      BY DEF Held, InFlight
    <3>. QED
      BY <2>1, <3>1, HeldIsFinite, WeightGrows DEF Weigh, Weight
  <2>5. CASE "abandoned" \notin mishaps
    <3>1. loose = 0 /\ inSink \subseteq Held
      BY <2>1, <2>5 DEF Whole, Held, InFlight
    <3>2. Weight(inSink) \in Nat /\ Weight(inSink) <= Weight(Held)
      BY <2>1, <3>1, HeldIsFinite, WeightGrows
    <3>3. (IF bus = "request" THEN fragment - 1 ELSE 0) <= Asked
      BY <2>1, <2>3, Numbers DEF Types, Progress, Asked
    <3>4. fragment \in Nat
      BY <2>1, Numbers DEF Types
    <3> DEFINE begun == IF bus = "request" THEN fragment - 1 ELSE 0
    <3>5. begun \in Int
      BY <3>4
    <3>6. Load = Weight(inSink) + loose + begun
      BY DEF Load, Weight
    <3>. HIDE DEF begun
    <3>7. begun <= Asked
      BY <3>3 DEF begun
    <3>8. Load <= DownlinkLimit
      BY <2>3, <3>1, <3>2, <3>5, <3>6, <3>7, DownlinkAssumption
    <3>. QED
      BY <2>3, <2>4, <3>8, DownlinkAssumption
  <2>. QED
    BY <2>3, <2>4, <2>5, DownlinkAssumption
<1>2. Accounts => LimitKept
  BY <1>1 DEF LimitKept
<1>. QED
  BY <1>2, AccountsHold, PTL

(* Between two messages and two indications the counter is what the sink    *)
(* and the indication queue hold, byte arithmetic included.                 *)
THEOREM CountIsExact == Spec => []CountedExactly
<1>1. ASSUME Accounts, bus = "idle", disp = "idle",
             mishaps \intersect {"race", "missed", "stolen", "reset"} = {}
      PROVE  queued = Weigh(inSink \union Range(indications))
  <2>1. Types /\ Counting
    BY <1>1 DEF Accounts
  <2>2. PICK leak \in Nat : Counted(leak)
    BY <1>1, <2>1, DownlinkAssumption DEF Counting
  <2>3. leak = 0 /\ Due = 0 /\ Weight(Held) \in Nat
    BY <1>1, <2>1, <2>2, HeldWeighs DEF Counted, Due, Confirmed
  <2>4. queued = Weight(Held)
    BY <2>2, <2>3 DEF Counted, Wrapped
  <2>5. Held = {pdu \in inSink \union Range(indications) : pdu.sent \in confirmed}
    BY <1>1 DEF Held, InFlight
  <2>. QED
    BY <2>4, <2>5 DEF Weigh, Weight
<1>2. Accounts => CountedExactly
  BY <1>1 DEF CountedExactly
<1>. QED
  BY <1>2, AccountsHold, PTL

-----------------------------------------------------------------------------
(* The table.                                                               *)

LEMMA BusIsNot ==
  ASSUME Types, disp = "idle" \/ (NotEarly /\ Registering), bus # "idle"
  PROVE  busPdu # dispPdu
<1>1. CASE disp = "idle"
  <2>1. dispPdu.sent = 0 /\ busPdu.sent = sent /\ sent > 0 /\ sent \in Nat
    BY <1>1, Numbers DEF Types, Placed, Numbered, NoPdu
  <2>. QED
    BY <2>1
<1>. QED
  BY <1>1 DEF NotEarly

LEMMA UnlikeStays ==
  ASSUME Types, [Next]_vars, Unlike, "clash" \notin mishaps'
  PROVE  Unlike'
<1>. USE DEF table, busState, dispState, nodeState
<1>1. CASE SendMessage
  <2>1. PICK weight \in Weights :
          /\ busPdu' = [weight |-> weight, id |-> nextId, sent |-> sent + 1]
          /\ Mishap((IF weight = 0 THEN {"empty"} ELSE {})
                      \union (IF <<weight, nextId>> \in IdsInFlight THEN {"clash"} ELSE {}))
    BY <1>1 DEF SendMessage
  <2>2. bus = "idle" /\ bus' # "idle" /\ InFlight' = InFlight
    <3>1. InFlight' = InFlight
      BY <1>1, Moves DEF Elsewhere
    <3>. QED
      BY <1>1, <3>1 DEF SendMessage
  <2>3. PduId(busPdu') \notin IdsInFlight
    BY <2>1 DEF Mishap, PduId
  <2>4. \A pdu \in InFlight : PduId(pdu) \in IdsInFlight
    <3>1. \A pdu \in InFlight : pdu.sent # 0
      BY Numbers DEF Types, Numbered
    <3>2. \A pdu \in InFlight : pdu # NoPdu
      BY <3>1 DEF NoPdu
    <3>. QED
      BY <3>2 DEF InFlight, IdsInFlight
  <2>5. InHand = InFlight /\ InHand' = InFlight \union {busPdu'}
    BY <2>2 DEF InHand
  <2>6. \A q \in InFlight : PduId(q) # PduId(busPdu')
    BY <2>3, <2>4
  <2>7. \A p, q \in InFlight : PduId(p) = PduId(q) => p = q
    BY <2>5 DEF Unlike
  <2>8. PduId(busPdu)' = PduId(busPdu')
    BY DEF PduId
  <2>9. \A p, q \in InHand' : PduId(p) = PduId(q) => p = q
    BY <2>5, <2>6, <2>7
  <2>. QED
    BY <2>9 DEF Unlike, PduId
<1>2. CASE ~SendMessage
  <2>1. InHand' \subseteq InHand
    <3>1. bus' = "idle" \/ (bus # "idle" /\ busPdu' = busPdu)
      BY <1>2 DEF Next, BusStep, DispatchStep, BusReturns, vars, RequestFails, FragmentAccepted,
                  MessageAccepted, RegisterSlot, FillSlot, LoadCounter, StoreCounter,
                  TakeIndication, ScanSlot, ScanDone, LoadCounterCb, StoreCounterCb, Transmitted,
                  LooseTransmitted, NodeReset
    <3>2. InFlight' \subseteq InFlight
          \/ (bus # "idle" /\ InFlight' \subseteq InFlight \union {busPdu})
      BY Moves DEF Next, BusStep, DispatchStep, Elsewhere, RequestFails, MessageAccepted
    <3>. QED
      BY <3>1, <3>2 DEF InHand
  <2>. QED
    BY <2>1 DEF Unlike, PduId
<1>. QED
  BY <1>1, <1>2

LEMMA NotEarlyStays ==
  ASSUME Types, [Next]_vars, NotEarly, "early" \notin mishaps'
  PROVE  NotEarly'
<1>. USE DEF table, busState, dispState, nodeState
<1>1. CASE MessageAccepted
  <2>1. bus = "request" /\ UNCHANGED <<disp, dispPdu, busPdu>>
    BY <1>1 DEF MessageAccepted
  <2>2. disp # "idle" => dispPdu.sent # sent /\ busPdu.sent = sent
    BY <2>1 DEF Types, Numbered, InFlight
  <2>. QED
    BY <2>1, <2>2 DEF NotEarly
<1>2. CASE TakeIndication
  BY <1>2 DEF TakeIndication, NotEarly, Registering, Mishap
<1>3. CASE ~MessageAccepted /\ ~TakeIndication
  <2>1. Registering' => Registering /\ busPdu' = busPdu
    BY <1>3 DEF Registering, Next, BusStep, DispatchStep, BusReturns, vars, SendMessage,
                RequestFails, FragmentAccepted, RegisterSlot, FillSlot, LoadCounter, StoreCounter,
                ScanSlot, ScanDone, LoadCounterCb, StoreCounterCb, Transmitted,
                LooseTransmitted, NodeReset
  <2>2. disp' # "idle" => disp # "idle" /\ dispPdu' = dispPdu
    BY <1>3 DEF Next, BusStep, DispatchStep, DispReturns, vars, SendMessage,
                RequestFails, FragmentAccepted, RegisterSlot, FillSlot, LoadCounter, StoreCounter,
                ScanSlot, ScanDone, LoadCounterCb, StoreCounterCb, Transmitted,
                LooseTransmitted, NodeReset
  <2>. QED
    BY <2>1, <2>2 DEF NotEarly
<1>. QED
  BY <1>1, <1>2, <1>3

LEMMA SameEntries ==
  ASSUME UNCHANGED <<busy, entry, dispPdu, dispSlot>>,
         bus # "fill", bus' # "fill" \/ UNCHANGED <<bus, busSlot>>, NEW pdu, HasEntry(pdu)
  PROVE  HasEntry(pdu)'
BY DEF HasEntry, Filling, PduId

LEMMA FindableStays ==
  ASSUME Types, [Next]_vars, Findable, Unlike, NotEarly, bus = "fill" => busy[busSlot],
         mishaps' \intersect {"early", "half", "full", "clash"} = {}
  PROVE  Findable'
<1>. USE DEF table, busState, dispState, nodeState
<1>1. CASE SendMessage \/ RequestFails \/ FragmentAccepted \/ LoadCounter \/ StoreCounter
  <2>1. Held' = Held
    BY <1>1, HeldMoves DEF Elsewhere
  <2>2. /\ UNCHANGED <<busy, entry, disp, dispPdu, dispSlot, found>>
        /\ bus # "fill" /\ bus' # "fill" /\ ~Registering /\ ~Registering'
    BY <1>1 DEF SendMessage, RequestFails, FragmentAccepted, LoadCounter, StoreCounter,
                BusReturns, Registering
  <2>3. \A pdu : Awaited(pdu)' => Awaited(pdu)
    BY <2>2 DEF Awaited
  <2>. QED
    BY <2>1, <2>2, <2>3, SameEntries DEF Findable
<1>2. CASE MessageAccepted
  <2>1. Held' = Held \union {busPdu}
    BY <1>2, HeldMoves
  <2>2. /\ UNCHANGED <<busy, entry, disp, dispPdu, dispSlot, found, busPdu>>
        /\ bus # "fill" /\ bus' # "fill" /\ ~Registering /\ Registering'
    BY <1>2 DEF MessageAccepted, Registering
  <2>3. \A pdu : Awaited(pdu)' => Awaited(pdu) /\ pdu # busPdu
    BY <2>2 DEF Awaited
  <2>. QED
    BY <2>1, <2>2, <2>3, SameEntries DEF Findable
<1>3. CASE RegisterSlot
  <2>1. Held' = Held
    BY <1>3, HeldMoves DEF Elsewhere
  <2>2. /\ UNCHANGED <<entry, disp, dispPdu, dispSlot, found, busPdu>>
        /\ bus = "register" /\ Registering
        /\ \/ bus' = "fill" /\ ~busy[busSlot] /\ busSlot \in Slots /\ busSlot' = busSlot
              /\ busy' = [busy EXCEPT ![busSlot] = TRUE]
           \/ bus' = "register" /\ busy' = busy
    BY <1>3 DEF RegisterSlot, FreeSlot, Registering, Mishap
  <2>3. \A pdu : Awaited(pdu)' => Awaited(pdu)
    BY <2>2 DEF Awaited, Registering
  <2>4. ASSUME NEW pdu \in Held, HasEntry(pdu) PROVE HasEntry(pdu)'
    <3>1. PICK slot \in Slots : /\ busy[slot] /\ entry[slot] = PduId(pdu)
                                /\ pdu = dispPdu => dispSlot <= slot
      BY <2>4 DEF HasEntry
    <3>2. busy'[slot] /\ ~Filling(slot)'
      BY <2>2, <3>1 DEF Filling, Types, TypeOK
    <3>. QED
      BY <2>2, <3>1, <3>2 DEF HasEntry, PduId
  <2>. QED
    BY <2>1, <2>3, <2>4 DEF Findable
<1>4. CASE FillSlot
  <2>1. Held' = Held
    BY <1>4, HeldMoves DEF Elsewhere
  <2>2. /\ UNCHANGED <<busy, disp, dispPdu, dispSlot, found, busPdu, busSlot>>
        /\ bus = "fill" /\ bus' = "load" /\ Registering /\ ~Registering'
        /\ entry' = [entry EXCEPT ![busSlot] = PduId(busPdu)]
    BY <1>4 DEF FillSlot, Registering
  <2>3. busSlot \in Slots /\ busy[busSlot] /\ entry'[busSlot] = PduId(busPdu)
    BY <2>2 DEF Types, Progress, TypeOK
  <2>4. busPdu # dispPdu
    BY <2>2, BusIsNot
  <2>5. ASSUME NEW pdu \in Held, Awaited(pdu)', pdu # busPdu PROVE HasEntry(pdu)'
    <3>1. Awaited(pdu)
      BY <2>2, <2>5 DEF Awaited
    <3>2. PICK slot \in Slots : /\ busy[slot] /\ entry[slot] = PduId(pdu) /\ ~Filling(slot)
                                /\ pdu = dispPdu => dispSlot <= slot
      BY <3>1 DEF HasEntry, Findable
    <3>3. slot # busSlot /\ entry'[slot] = entry[slot]
      BY <2>2, <3>2 DEF Filling, Types, TypeOK
    <3>. QED
      BY <2>2, <3>2, <3>3 DEF HasEntry, Filling, PduId
  <2>6. \A pdu \in Held : Awaited(pdu)' /\ pdu = busPdu => HasEntry(pdu)'
    BY <2>2, <2>3, <2>4 DEF HasEntry, Filling, PduId
  <2>. QED
    BY <2>1, <2>5, <2>6 DEF Findable
<1>5. CASE TakeIndication
  <2>1. Held' = Held
    BY <1>5, HeldMoves
  <2>2. /\ UNCHANGED <<busy, entry, bus, busPdu, busSlot>>
        /\ disp = "idle" /\ disp' = "scan" /\ dispSlot' = 1 /\ found' = FALSE
    BY <1>5 DEF TakeIndication
  <2>3. \A pdu \in Held : pdu # dispPdu
    <3>1. \A pdu \in Held : pdu.sent # 0
      BY Numbers DEF Held, Types, Numbered
    <3>. QED
      BY <2>2, <3>1 DEF Types, Placed, NoPdu
  <2>4. ASSUME NEW pdu \in Held, Awaited(pdu)' PROVE HasEntry(pdu)'
    <3>1. Awaited(pdu)
      BY <2>2, <2>3, <2>4 DEF Awaited, Registering
    <3>2. PICK slot \in Slots : busy[slot] /\ entry[slot] = PduId(pdu) /\ ~Filling(slot)
      BY <3>1 DEF HasEntry, Findable
    <3>3. 1 <= slot
      BY DownlinkAssumption DEF Slots
    <3>. QED
      BY <2>2, <3>2, <3>3 DEF HasEntry, Filling, PduId
  <2>. QED
    BY <2>1, <2>4 DEF Findable
<1>6. CASE ScanSlot
  <2>1. Held' = Held
    BY <1>6, HeldMoves DEF Elsewhere
  <2>2. /\ UNCHANGED <<entry, bus, busPdu, busSlot, disp, dispPdu>>
        /\ disp = "scan" /\ dispSlot \in Slots /\ dispSlot' = dispSlot + 1
        /\ \/ MatchesId(dispSlot) /\ busy' = [busy EXCEPT ![dispSlot] = FALSE] /\ found' = TRUE
           \/ ~MatchesId(dispSlot) /\ UNCHANGED <<busy, found>>
    BY <1>6 DEF ScanSlot
  <2>3. ASSUME NEW pdu \in Held, Awaited(pdu)' PROVE HasEntry(pdu)'
    <3>1. Awaited(pdu)
      BY <2>2, <2>3 DEF Awaited, Registering
    <3>2. PICK slot \in Slots : /\ busy[slot] /\ entry[slot] = PduId(pdu) /\ ~Filling(slot)
                                /\ pdu = dispPdu => dispSlot <= slot
      BY <3>1 DEF HasEntry, Findable
    <3>3. CASE MatchesId(dispSlot)
      <4>1. busy' = [busy EXCEPT ![dispSlot] = FALSE] /\ pdu # dispPdu
        BY <2>2, <2>3, <3>3 DEF Awaited
      <4>2. pdu \in InHand /\ dispPdu \in InHand
        BY <2>2 DEF Held, InHand, InFlight
      <4>3. slot # dispSlot
        BY <3>2, <3>3, <4>1, <4>2 DEF MatchesId, Unlike
      <4>4. busy'[slot]
        BY <3>2, <4>1, <4>3 DEF Types, TypeOK
      <4>. QED
        BY <2>2, <3>2, <4>1, <4>4 DEF HasEntry, Filling, PduId
    <3>4. CASE ~MatchesId(dispSlot)
      <4>1. pdu = dispPdu => slot # dispSlot
        BY <3>2, <3>4 DEF MatchesId
      <4>2. pdu = dispPdu => dispSlot + 1 <= slot
        BY <2>2, <3>2, <4>1, DownlinkAssumption DEF Slots
      <4>. QED
        BY <2>2, <3>2, <3>4, <4>2 DEF HasEntry, Filling, PduId
    <3>. QED
      BY <3>3, <3>4
  <2>. QED
    BY <2>1, <2>3 DEF Findable
<1>7. CASE ScanDone \/ LoadCounterCb \/ StoreCounterCb
  <2>1. Held' \subseteq Held
        /\ (disp' # "idle" \/ \A pdu \in Held' : pdu # dispPdu /\ pdu # dispPdu')
    <3>1. \A pdu \in Held : pdu.sent # 0
      BY Numbers DEF Held, Types, Numbered
    <3>2. \A pdu \in Held : pdu # NoPdu
      BY <3>1 DEF NoPdu
    <3>3. CASE ScanDone
      <4>1. Held' = IF found THEN Held ELSE Held \ {dispPdu}
        BY <3>3, HeldMoves
      <4>2. IF found THEN disp' = "load" ELSE dispPdu' = NoPdu
        BY <3>3 DEF ScanDone, DispReturns
      <4>. QED
        BY <3>2, <4>1, <4>2
    <3>4. CASE StoreCounterCb
      <4>1. Held' = Held \ {dispPdu} /\ dispPdu' = NoPdu
        BY <3>4, HeldMoves DEF StoreCounterCb, DispReturns
      <4>. QED
        BY <3>2, <4>1
    <3>5. CASE LoadCounterCb
      BY <3>5, HeldMoves DEF LoadCounterCb, Elsewhere
    <3>. QED
      BY <1>7, <3>3, <3>4, <3>5
  <2>2. /\ UNCHANGED <<busy, entry, bus, busPdu, busSlot>>
        /\ disp # "idle" /\ disp' # "scan"
        /\ disp' = "idle" \/ (UNCHANGED dispPdu /\ (disp # "scan" \/ found))
    BY <1>7 DEF ScanDone, LoadCounterCb, StoreCounterCb, DispReturns
  <2>3. ASSUME NEW pdu \in Held', Awaited(pdu)' PROVE HasEntry(pdu)'
    <3>1. Awaited(pdu) /\ pdu # dispPdu'
      BY <2>1, <2>2, <2>3 DEF Awaited, Registering
    <3>2. PICK slot \in Slots : busy[slot] /\ entry[slot] = PduId(pdu) /\ ~Filling(slot)
      BY <2>1, <3>1 DEF HasEntry, Findable
    <3>. QED
      BY <2>2, <3>1, <3>2 DEF HasEntry, Filling, PduId
  <2>. QED
    BY <2>3 DEF Findable
<1>8. CASE Transmitted \/ LooseTransmitted \/ NodeReset \/ UNCHANGED vars
  <2>1. Held' \subseteq Held
    BY <1>8, HeldMoves DEF Elsewhere
  <2>2. UNCHANGED <<busy, entry, bus, busPdu, busSlot, disp, dispPdu, dispSlot, found>>
    BY <1>8 DEF Transmitted, LooseTransmitted, NodeReset, vars
  <2>3. \A pdu : /\ Awaited(pdu)' => Awaited(pdu)
                 /\ HasEntry(pdu) => HasEntry(pdu)'
    BY <2>2 DEF Awaited, Registering, HasEntry, Filling, PduId
  <2>. QED
    BY <2>1, <2>3 DEF Findable
<1>. QED
  BY <1>1, <1>2, <1>3, <1>4, <1>5, <1>6, <1>7, <1>8 DEF Next, BusStep, DispatchStep

LEMMA RegisteredStays ==
  ASSUME Types, [Next]_vars, Registered
  PROVE  Registered'
<1>. USE DEF table, busState, dispState, nodeState
<1>. SUFFICES ASSUME mishaps' \intersect {"early", "half", "full", "clash"} = {}
              PROVE  /\ Unlike' /\ NotEarly' /\ Findable'
                     /\ bus' = "fill" => busy'[busSlot']
                     /\ "missed" \notin mishaps'
  BY DEF Registered
<1>1. mishaps \intersect {"early", "half", "full", "clash"} = {}
  BY MishapsGrow
<1>2. /\ Unlike /\ NotEarly /\ Findable /\ "missed" \notin mishaps
      /\ bus = "fill" => busy[busSlot]
  BY <1>1 DEF Registered
<1>3. bus' = "fill" => busy'[busSlot']
  <2>1. CASE RegisterSlot
    BY <1>2, <2>1 DEF RegisterSlot, Types, TypeOK
  <2>2. CASE ScanSlot
    BY <1>2, <2>2 DEF ScanSlot, Types, TypeOK, Mishap, Progress
  <2>3. CASE ~RegisterSlot /\ ~ScanSlot
    <3>1. bus' # "fill" \/ UNCHANGED <<bus, busSlot, busy>>
      BY <2>3 DEF Next, BusStep, DispatchStep, BusReturns, vars, SendMessage, RequestFails,
                  FragmentAccepted, MessageAccepted, FillSlot, LoadCounter, StoreCounter,
                  TakeIndication, ScanDone, LoadCounterCb, StoreCounterCb, Transmitted,
                  LooseTransmitted, NodeReset
    <3>. QED
      BY <1>2, <3>1
  <2>. QED
    BY <2>1, <2>2, <2>3
<1>4. "missed" \notin mishaps'
  <2>1. CASE ScanDone
    <3>1. ~found => dispPdu.sent \notin confirmed
      <4>. SUFFICES ASSUME ~found, dispPdu.sent \in confirmed PROVE FALSE
        OBVIOUS
      <4>1. disp = "scan" /\ dispSlot \notin Slots /\ dispPdu \in Held
        BY <2>1 DEF ScanDone, Held, InFlight
      <4>2. Awaited(dispPdu)
        BY <1>2, <4>1 DEF Awaited, NotEarly
      <4>3. PICK slot \in Slots : dispSlot <= slot
        BY <1>2, <4>1, <4>2 DEF Findable, HasEntry
      <4>. QED
        BY <4>1, <4>3, Numbers, DownlinkAssumption DEF Slots, Types
    <3>. QED
      BY <1>2, <2>1, <3>1 DEF ScanDone, Mishap
  <2>2. CASE ~ScanDone
    BY <1>2, <2>2, MishapKinds
  <2>. QED
    BY <2>1, <2>2
<1>5. Unlike' /\ NotEarly'
  BY <1>2, UnlikeStays, NotEarlyStays
<1>6. Findable'
  BY <1>2, FindableStays
<1>. QED
  BY <1>3, <1>4, <1>5, <1>6

LEMMA NotYetTakenStays ==
  ASSUME Types, [Next]_vars, NotYetTaken, mishaps' \intersect {"early", "reset"} = {}
  PROVE  NotYetTaken'
<1>. USE DEF table, busState, dispState, nodeState
<1>. SUFFICES ASSUME Registering' PROVE busPdu' \in inSink' \union Range(indications')
  BY DEF NotYetTaken, Range
<1>1. CASE MessageAccepted
  BY <1>1 DEF MessageAccepted
<1>2. CASE TakeIndication
  <2>1. /\ inSink' = inSink /\ indications # <<>> /\ UNCHANGED <<bus, busPdu>>
        /\ dispPdu' = Head(indications) /\ indications' = Tail(indications)
        /\ busPdu # dispPdu'
    BY <1>2 DEF TakeIndication, Mishap, Registering
  <2>2. busPdu \in inSink \union Range(indications)
    BY <2>1 DEF NotYetTaken, Registering
  <2>3. Range(indications) = Range(indications') \union {dispPdu'}
    BY <2>1, RangeOfTail DEF Types, TypeOK, Placed
  <2>. QED
    BY <2>1, <2>2, <2>3
<1>3. CASE Transmitted
  <2>1. PICK pdu \in inSink : inSink' = inSink \ {pdu} /\ indications' = Append(indications, pdu)
    BY <1>3 DEF Transmitted
  <2>2. UNCHANGED <<bus, busPdu>>
    BY <1>3 DEF Transmitted
  <2>3. Range(indications') = Range(indications) \union {pdu}
    BY <2>1, RangeOfAppended DEF Types, TypeOK
  <2>. QED
    BY <2>1, <2>2, <2>3 DEF NotYetTaken, Registering
<1>4. CASE NodeReset
  BY <1>4 DEF NodeReset, Mishap
<1>5. CASE RequestFails \/ StoreCounter
  BY <1>5 DEF RequestFails, StoreCounter, BusReturns, Registering
<1>6. CASE SendMessage \/ FragmentAccepted \/ RegisterSlot \/ FillSlot \/ LoadCounter
           \/ ScanSlot \/ ScanDone \/ LoadCounterCb \/ StoreCounterCb \/ LooseTransmitted
           \/ UNCHANGED vars
  <2>1. Registering /\ UNCHANGED <<inSink, indications, busPdu>>
    BY <1>6 DEF SendMessage, FragmentAccepted, RegisterSlot, FillSlot, LoadCounter, ScanSlot,
                ScanDone, LoadCounterCb, StoreCounterCb, LooseTransmitted, vars, Registering
  <2>. QED
    BY <2>1 DEF NotYetTaken
<1>. QED
  BY <1>1, <1>2, <1>3, <1>4, <1>5, <1>6 DEF Next, BusStep, DispatchStep

LEMMA WeightyStays ==
  ASSUME Types, [Next]_vars, Weighty, "empty" \notin mishaps'
  PROVE  Weighty'
<1>. USE DEF table, busState, dispState, nodeState
<1>1. CASE SendMessage
  <2>1. PICK weight \in Weights : /\ busPdu'.weight = weight
                                  /\ weight = 0 => "empty" \in mishaps'
    BY <1>1 DEF SendMessage, Mishap
  <2>2. weight \in Nat
    BY DownlinkAssumption
  <2>3. busPdu'.weight >= 1
    BY <2>1, <2>2
  <2>4. InFlight' = InFlight
    BY <1>1, Moves DEF Elsewhere
  <2>. QED
    BY <2>3, <2>4 DEF Weighty, InHand
<1>2. CASE ~SendMessage
  <2>1. bus' = "idle" \/ (bus # "idle" /\ busPdu' = busPdu)
    BY <1>2 DEF Next, BusStep, DispatchStep, BusReturns, vars, RequestFails, FragmentAccepted,
                MessageAccepted, RegisterSlot, FillSlot, LoadCounter, StoreCounter,
                TakeIndication, ScanSlot, ScanDone, LoadCounterCb, StoreCounterCb, Transmitted,
                LooseTransmitted, NodeReset
  <2>2. InFlight' \subseteq InFlight
        \/ (bus # "idle" /\ InFlight' \subseteq InFlight \union {busPdu})
    BY Moves DEF Next, BusStep, DispatchStep, Elsewhere, RequestFails, MessageAccepted
  <2>3. InHand' \subseteq InHand
    BY <2>1, <2>2 DEF InHand
  <2>. QED
    BY <2>3 DEF Weighty
<1>. QED
  BY <1>1, <1>2

(* The entries an owner can still be found for.                             *)
LEMMA OwningStays ==
  ASSUME Types, [Next]_vars, Owning, Unlike, NotEarly, NotYetTaken,
         mishaps' \intersect {"early", "reset"} = {}
  PROVE  Owning'
<1>. USE DEF table, busState, dispState, nodeState
<1>1. CASE SendMessage \/ RequestFails \/ FragmentAccepted \/ LoadCounter \/ StoreCounter
  <2>1. Held' = Held
    BY <1>1, HeldMoves DEF Elsewhere
  <2>2. /\ UNCHANGED <<busy, entry, disp, dispPdu, dispSlot>>
        /\ bus # "fill" /\ ~Registering'
    BY <1>1 DEF SendMessage, RequestFails, FragmentAccepted, LoadCounter, StoreCounter,
                BusReturns, Registering
  <2>. QED
    BY <2>1, <2>2 DEF Owning, Owner, Filling, PduId
<1>2. CASE MessageAccepted
  <2>1. Held' = Held \union {busPdu} /\ busPdu \notin Held
    BY <1>2, HeldMoves
  <2>2. /\ UNCHANGED <<busy, entry, disp, dispPdu, dispSlot, busPdu>>
        /\ bus # "fill"
    BY <1>2 DEF MessageAccepted
  <2>. QED
    BY <2>1, <2>2 DEF Owning, Owner, Filling, PduId
<1>3. CASE RegisterSlot
  <2>1. Held' = Held
    BY <1>3, HeldMoves DEF Elsewhere
  <2>2. /\ UNCHANGED <<entry, disp, dispPdu, dispSlot, busPdu>>
        /\ bus = "register"
        /\ \/ bus' = "fill" /\ busSlot' = busSlot /\ busy' = [busy EXCEPT ![busSlot] = TRUE]
           \/ bus' # "fill" /\ busy' = busy
    BY <1>3 DEF RegisterSlot
  <2>3. ASSUME NEW slot \in Slots, busy'[slot], ~Filling(slot)'
        PROVE  \E pdu \in Held' : Owner(slot, pdu)'
    <3>1. busy[slot] /\ ~Filling(slot)
      BY <2>2, <2>3 DEF Filling, Types, TypeOK
    <3>2. PICK pdu \in Held : Owner(slot, pdu)
      BY <3>1 DEF Owning
    <3>3. Owner(slot, pdu)'
      BY <2>1, <2>2, <3>2 DEF Owner, PduId, Registering
    <3>. QED
      BY <2>1, <3>3
  <2>. QED
    BY <2>3 DEF Owning
<1>4. CASE FillSlot
  <2>1. Held' = Held
    BY <1>4, HeldMoves DEF Elsewhere
  <2>2. /\ UNCHANGED <<busy, disp, dispPdu, dispSlot, busPdu, confirmed>>
        /\ bus = "fill" /\ bus' = "load" /\ Registering /\ ~Registering'
        /\ entry' = [entry EXCEPT ![busSlot] = PduId(busPdu)]
    BY <1>4 DEF FillSlot, Registering
  <2>3. busSlot \in Slots /\ entry'[busSlot] = PduId(busPdu)
    BY <2>2 DEF Types, Progress, TypeOK
  <2>4. busPdu # dispPdu
    BY <2>2, BusIsNot
  <2>5. busPdu \in Held
    BY <2>2 DEF NotYetTaken, Held, InFlight, Types, Numbered, Confirmed
  <2>6. ASSUME NEW slot \in Slots, busy'[slot]
        PROVE  \E pdu \in Held' : Owner(slot, pdu)'
    <3>1. CASE slot = busSlot
      <4>1. \A pdu \in Held : pdu = busPdu => Owner(slot, pdu)'
        BY <2>1, <2>2, <2>3, <2>4, <3>1 DEF Owner, PduId
      <4>. QED
        BY <2>1, <2>5, <4>1
    <3>2. CASE slot # busSlot
      <4>1. PICK pdu \in Held : Owner(slot, pdu)
        BY <2>2, <2>6, <3>2 DEF Owning, Filling
      <4>2. entry'[slot] = entry[slot]
        BY <2>2, <3>2 DEF Types, TypeOK
      <4>3. Owner(slot, pdu)'
        BY <2>1, <2>2, <4>1, <4>2 DEF Owner, PduId
      <4>. QED
        BY <2>1, <4>3
    <3>. QED
      BY <3>1, <3>2
  <2>. QED
    BY <2>6 DEF Owning
<1>5. CASE TakeIndication
  <2>1. Held' = Held
    BY <1>5, HeldMoves
  <2>2. /\ UNCHANGED <<busy, entry, bus, busPdu, busSlot>>
        /\ disp' = "scan" /\ dispSlot' = 1
    BY <1>5 DEF TakeIndication
  <2>3. ASSUME NEW slot \in Slots, NEW pdu \in Held, Owner(slot, pdu) PROVE Owner(slot, pdu)'
    <3>1. 1 <= slot
      BY DownlinkAssumption DEF Slots
    <3>. QED
      BY <2>1, <2>2, <2>3, <3>1 DEF Owner, PduId, Registering
  <2>. QED
    BY <2>1, <2>2, <2>3 DEF Owning, Filling
<1>6. CASE ScanSlot
  <2>1. Held' = Held
    BY <1>6, HeldMoves DEF Elsewhere
  <2>2. /\ UNCHANGED <<entry, bus, busPdu, busSlot, disp, dispPdu>>
        /\ disp = "scan" /\ dispSlot \in Slots /\ dispSlot' = dispSlot + 1
        /\ \/ busy' = [busy EXCEPT ![dispSlot] = FALSE]
           \/ ~MatchesId(dispSlot) /\ busy' = busy
    BY <1>6 DEF ScanSlot
  <2>3. ASSUME NEW slot \in Slots, busy'[slot], ~Filling(slot)'
        PROVE  \E pdu \in Held' : Owner(slot, pdu)'
    <3>1. busy[slot] /\ ~Filling(slot) /\ (slot = dispSlot => ~MatchesId(dispSlot))
      BY <2>2, <2>3 DEF Filling, Types, TypeOK
    <3>2. PICK pdu \in Held : Owner(slot, pdu)
      BY <3>1 DEF Owning
    <3>3. pdu = dispPdu => slot # dispSlot
      BY <3>1, <3>2 DEF Owner, MatchesId
    <3>4. pdu = dispPdu => dispSlot + 1 <= slot
      BY <2>2, <3>2, <3>3, DownlinkAssumption DEF Owner, Slots
    <3>5. Owner(slot, pdu)'
      BY <2>1, <2>2, <3>2, <3>4 DEF Owner, PduId, Registering
    <3>. QED
      BY <2>1, <3>5
  <2>. QED
    BY <2>3 DEF Owning
<1>7. CASE ScanDone \/ LoadCounterCb \/ StoreCounterCb
  <2>1. /\ UNCHANGED <<busy, entry, bus, busPdu, busSlot>>
        /\ disp # "scan" \/ dispSlot \notin Slots
        /\ dispPdu' = dispPdu \/ dispPdu' = NoPdu
    BY <1>7 DEF ScanDone, LoadCounterCb, StoreCounterCb, DispReturns
  <2>2. Held \ {dispPdu} \subseteq Held' /\ Held' \subseteq Held
    <3>1. CASE ScanDone
      BY <3>1, HeldMoves
    <3>2. CASE LoadCounterCb \/ StoreCounterCb
      BY <3>2, HeldMoves DEF Elsewhere
    <3>. QED
      BY <1>7, <3>1, <3>2
  <2>3. \A pdu \in Held : pdu # NoPdu
    <3>1. \A pdu \in Held : pdu.sent # 0
      BY Numbers DEF Held, Types, Numbered
    <3>. QED
      BY <3>1 DEF NoPdu
  <2>4. ASSUME NEW slot \in Slots, busy'[slot], ~Filling(slot)'
        PROVE  \E pdu \in Held' : Owner(slot, pdu)'
    <3>1. PICK pdu \in Held : Owner(slot, pdu)
      BY <2>1, <2>4 DEF Owning, Filling
    <3>2. pdu # dispPdu
      BY <2>1, <3>1, Numbers, DownlinkAssumption DEF Owner, Slots, Types
    <3>3. Owner(slot, pdu)' /\ pdu \in Held'
      BY <2>1, <2>2, <2>3, <3>1, <3>2 DEF Owner, PduId, Registering
    <3>. QED
      BY <3>3
  <2>. QED
    BY <2>4 DEF Owning
<1>8. CASE NodeReset
  BY <1>8 DEF NodeReset, Mishap
<1>9. CASE Transmitted \/ LooseTransmitted \/ UNCHANGED vars
  <2>1. Held' = Held
    BY <1>9, HeldMoves DEF Elsewhere
  <2>2. UNCHANGED <<busy, entry, bus, busPdu, busSlot, disp, dispPdu, dispSlot>>
    BY <1>9 DEF Transmitted, LooseTransmitted, vars
  <2>. QED
    BY <2>1, <2>2 DEF Owning, Owner, Filling, Registering, PduId
<1>. QED
  BY <1>1, <1>2, <1>3, <1>4, <1>5, <1>6, <1>7, <1>8, <1>9 DEF Next, BusStep, DispatchStep

LEMMA DistinctStays ==
  ASSUME Types, [Next]_vars, Distinct, Owning, Unlike
  PROVE  Distinct'
<1>. USE DEF table, busState, dispState, nodeState
<1>1. CASE FillSlot
  <2>1. /\ UNCHANGED <<busy, busSlot>> /\ bus = "fill" /\ bus' = "load" /\ Registering
        /\ entry' = [entry EXCEPT ![busSlot] = PduId(busPdu)]
    BY <1>1 DEF FillSlot, Registering
  <2>2. busSlot \in Slots /\ entry'[busSlot] = PduId(busPdu)
        /\ \A slot \in Slots : slot # busSlot => entry'[slot] = entry[slot]
    BY <2>1 DEF Types, Progress, TypeOK
  <2>3. ASSUME NEW slot \in Slots, slot # busSlot, busy[slot]
        PROVE  entry[slot] # PduId(busPdu)
    <3>1. PICK pdu \in Held : Owner(slot, pdu)
      BY <2>3 DEF Owning, Filling
    <3>2. pdu # busPdu /\ pdu \in InHand /\ busPdu \in InHand
      BY <2>1, <3>1 DEF Owner, Held, InHand
    <3>. QED
      BY <3>1, <3>2 DEF Owner, Unlike
  <2>4. ASSUME NEW s \in Slots, NEW t \in Slots, busy[s], busy[t], entry'[s] = entry'[t]
        PROVE  s = t
    <3>1. CASE s # busSlot /\ t # busSlot
      BY <2>2, <2>4, <3>1 DEF Distinct, Filling
    <3>2. CASE s = busSlot \/ t = busSlot
      BY <2>2, <2>3, <2>4, <3>2
    <3>. QED
      BY <3>1, <3>2
  <2>. QED
    BY <2>1, <2>4 DEF Distinct
<1>2. CASE RegisterSlot
  <2>1. /\ entry' = entry /\ bus = "register"
        /\ \/ bus' = "fill" /\ busSlot' = busSlot /\ busy' = [busy EXCEPT ![busSlot] = TRUE]
           \/ bus' # "fill" /\ busy' = busy
    BY <1>2 DEF RegisterSlot
  <2>2. \A slot \in Slots : busy'[slot] /\ ~Filling(slot)' => busy[slot] /\ ~Filling(slot)
    BY <2>1 DEF Filling, Types, TypeOK
  <2>. QED
    BY <2>1, <2>2 DEF Distinct
<1>3. CASE ScanSlot
  <2>1. /\ UNCHANGED <<entry, bus, busSlot>>
        /\ busy' = [busy EXCEPT ![dispSlot] = FALSE] \/ busy' = busy
    BY <1>3 DEF ScanSlot
  <2>2. \A slot \in Slots : busy'[slot] => busy[slot]
    BY <2>1 DEF Types, TypeOK
  <2>. QED
    BY <2>1, <2>2 DEF Distinct, Filling
<1>4. CASE ~FillSlot /\ ~RegisterSlot /\ ~ScanSlot
  <2>1. UNCHANGED <<busy, entry>> /\ (bus # "fill" \/ UNCHANGED <<bus, busSlot>>)
    BY <1>4 DEF Next, BusStep, DispatchStep, BusReturns, vars, SendMessage, RequestFails,
                FragmentAccepted, MessageAccepted, LoadCounter, StoreCounter,
                TakeIndication, ScanDone, LoadCounterCb, StoreCounterCb, Transmitted,
                LooseTransmitted, NodeReset
  <2>. QED
    BY <2>1 DEF Distinct, Filling
<1>. QED
  BY <1>1, <1>2, <1>3, <1>4

(* When a message is accepted the table has an entry for it: every entry in *)
(* use weighs at least one fragment, and there are fewer of those than the  *)
(* limit.                                                                   *)
LEMMA TableHasRoom ==
  ASSUME Types, Owning, Distinct, Weighty, bus = "request",
         NEW leak \in Nat, Counted(leak)
  PROVE  \E slot \in Slots : ~busy[slot]
<1>. SUFFICES ASSUME \A slot \in Slots : busy[slot] PROVE FALSE
  OBVIOUS
<1> DEFINE owner == [slot \in Slots |-> CHOOSE pdu \in Held : Owner(slot, pdu)]
<1>1. \A slot \in Slots : \E pdu \in Held : Owner(slot, pdu)
  BY DEF Owning, Filling
<1>2. \A slot \in Slots : owner[slot] \in Held /\ Owner(slot, owner[slot])
  BY <1>1
<1>3. owner \in [Slots -> Held]
  BY <1>2
<1>. HIDE DEF owner
<1>4. ASSUME NEW s \in Slots, NEW t \in Slots, owner[s] = owner[t] PROVE s = t
  BY <1>2, <1>4 DEF Owner, Distinct, Filling
<1>5. \A pdu \in Held : pdu.weight \in Nat /\ pdu.weight >= 1
  BY HeldIsFinite DEF Weighty, Held, InHand
<1>6. Cardinality(Slots) <= Weight(Held)
  BY <1>3, <1>4, <1>5, HeldIsFinite, ManyAreHeavy
<1>7. Cardinality(Slots) = TableSize
  BY FS_Interval, DownlinkAssumption DEF Slots
<1>8. busPdu.weight >= 1 /\ busPdu.weight \in Nat /\ Weight(Held) \in Nat
  BY HeldWeighs DEF Weighty, InHand
<1>9. Weight(Held) + leak + busPdu.weight <= DownlinkLimit
  BY DEF Counted, Asked
<1>. QED
  BY <1>6, <1>7, <1>8, <1>9, DownlinkAssumption

LEMMA RoomyStays ==
  ASSUME Types, [Next]_vars, Roomy, Owning, Distinct, Weighty, Counting,
         mishaps \intersect {"race", "stolen"} = {}
  PROVE  Roomy'
<1>. USE DEF table, busState, dispState, nodeState
<1>. SUFFICES ASSUME bus' = "register" PROVE \E slot \in Slots : slot >= busSlot' /\ ~busy'[slot]
  BY DEF Roomy
<1>1. CASE MessageAccepted
  <2>1. bus = "request" /\ busy' = busy /\ busSlot' = 1
    BY <1>1 DEF MessageAccepted
  <2>2. PICK leak \in Nat : Counted(leak)
    BY DownlinkAssumption DEF Counting
  <2>3. PICK slot \in Slots : ~busy[slot]
    BY <2>1, <2>2, TableHasRoom
  <2>4. slot >= 1
    BY DownlinkAssumption DEF Slots
  <2>. QED
    BY <2>1, <2>3, <2>4
<1>2. CASE RegisterSlot
  <2>1. bus = "register" /\ busy[busSlot] /\ busSlot' = busSlot + 1 /\ busy' = busy
    BY <1>2 DEF RegisterSlot, FreeSlot
  <2>2. PICK slot \in Slots : slot >= busSlot /\ ~busy[slot]
    BY <2>1 DEF Roomy
  <2>3. slot # busSlot /\ slot \in Nat /\ busSlot \in Nat
    BY <2>1, <2>2, Numbers DEF Slots, Types
  <2>. QED
    BY <2>1, <2>2, <2>3
<1>3. CASE ScanSlot
  <2>1. /\ UNCHANGED <<bus, busSlot>>
        /\ busy' = [busy EXCEPT ![dispSlot] = FALSE] \/ busy' = busy
    BY <1>3 DEF ScanSlot
  <2>2. \A slot \in Slots : busy'[slot] => busy[slot]
    BY <2>1 DEF Types, TypeOK
  <2>. QED
    BY <2>1, <2>2 DEF Roomy
<1>4. CASE ~MessageAccepted /\ ~RegisterSlot /\ ~ScanSlot
  <2>1. UNCHANGED <<bus, busy, busSlot>>
    BY <1>4 DEF Next, BusStep, DispatchStep, BusReturns, vars, SendMessage, RequestFails,
                FragmentAccepted, FillSlot, LoadCounter, StoreCounter,
                TakeIndication, ScanDone, LoadCounterCb, StoreCounterCb, Transmitted,
                LooseTransmitted, NodeReset
  <2>. QED
    BY <2>1 DEF Roomy
<1>. QED
  BY <1>1, <1>2, <1>3, <1>4

LEMMA OwnedStays ==
  ASSUME Types, [Next]_vars, Counting, Owned
  PROVE  Owned'
<1>. SUFFICES ASSUME mishaps' \intersect {"early", "clash", "race", "stolen", "reset", "empty"} = {}
              PROVE  /\ Unlike' /\ NotEarly' /\ NotYetTaken' /\ Weighty'
                     /\ Owning' /\ Distinct' /\ Roomy'
                     /\ "full" \notin mishaps'
  BY DEF Owned
<1>1. mishaps \intersect {"early", "clash", "race", "stolen", "reset", "empty"} = {}
  BY MishapsGrow
<1>2. /\ Unlike /\ NotEarly /\ NotYetTaken /\ Weighty /\ Owning /\ Distinct /\ Roomy
      /\ "full" \notin mishaps
  BY <1>1 DEF Owned
<1>3. "full" \notin mishaps'
  <2>1. CASE RegisterSlot
    <3>1. bus = "register"
      BY <2>1 DEF RegisterSlot
    <3>2. PICK slot \in Slots : slot >= busSlot
      BY <1>2, <3>1 DEF Roomy
    <3>3. busSlot \in Slots
      BY <3>2, Numbers, DownlinkAssumption DEF Slots, Types
    <3>. QED
      BY <1>2, <2>1, <3>3 DEF RegisterSlot
  <2>2. CASE ~RegisterSlot
    BY <1>2, <2>2, MishapKinds
  <2>. QED
    BY <2>1, <2>2
<1>4. Unlike' /\ NotEarly' /\ NotYetTaken' /\ Weighty'
  BY <1>2, UnlikeStays, NotEarlyStays, NotYetTakenStays, WeightyStays
<1>5. Owning' /\ Distinct'
  BY <1>2, OwningStays, DistinctStays
<1>6. Roomy'
  BY <1>1, <1>2, RoomyStays
<1>. QED
  BY <1>3, <1>4, <1>5, <1>6

(* An indication misses its entry only because of an early indication, a    *)
(* half filled entry, a full table or a shared pdu_id; and the table is     *)
(* full only after a loss, a race, a reset or an empty message.             *)
THEOREM EntryIsFound == Spec => []EntryFound
<1>1. Init => Registered /\ Owned
  <2>. SUFFICES ASSUME Init PROVE Registered /\ Owned
    OBVIOUS
  <2>1. Held = {} /\ InHand = {} /\ mishaps = {} /\ bus = "idle" /\ disp = "idle"
        /\ \A slot \in Slots : ~busy[slot]
    BY DEF Init, Held, InFlight, InHand, Range
  <2>2. Registered
    BY <2>1 DEF Registered, Unlike, NotEarly, Findable, Registering
  <2>3. Owned
    BY <2>1 DEF Owned, Unlike, NotEarly, NotYetTaken, Weighty, Owning, Distinct, Roomy,
                Registering
  <2>. QED
    BY <2>2, <2>3
<1>2. Accounts /\ Registered /\ Owned /\ [Next]_vars => Registered' /\ Owned'
  BY RegisteredStays, OwnedStays DEF Accounts
<1>3. Registered /\ Owned => EntryFound
  BY DEF Registered, Owned, EntryFound
<1>. QED
  BY <1>1, <1>2, <1>3, AccountsHold, PTL DEF Spec
=============================================================================
