------------------------- MODULE RequestLinkProofs --------------------------
(***************************************************************************)
(* For any number of exchanges, indications, lost and damaged frames: what *)
(* a caller is given, how often the node executes it, and what it hands to *)
(* the dispatcher.  The state between two steps is described by what is in *)
(* flight: of which call, how often, and in which order.                   *)
(***************************************************************************)
EXTENDS RequestLink, TLAPS

AsksFor(frame, c) == frame.type \in Kinds /\ frame.call = c
Denies(frame, c) == frame.type = "dummy" /\ frame.call = c

(* What the owner of the mutex knows of its exchange. *)
Phases ==
  /\ pc # "free" => call >= 1
  /\ pc \in {"send", "await"} => attempt < MaxConfirmAttempt
  /\ pc \in {"send", "await"} /\ kind = "poll" => quota >= 1
  /\ pc = "indication" => kind = "poll" /\ quota >= 1
  /\ pc = "hand" => kind = "poll" /\ hand # NoFrame
  /\ emitting => acked < MaxInds

(* Time that ran out with the watchdog enabled, or being enabled, did so in *)
(* silence, unless the library is not open yet.                             *)
SilenceCounts ==
  /\ overdue /\ (watched \/ setter = "enabling") => silence \/ setter = "opening"
  /\ silence => overdue
  /\ pc = "exited" => silence \/ setter = "opening" \/ ~watched

(* Nothing is in flight for a call that has not started, and a confirm in   *)
(* flight is of an executed call.                                           *)
InFlight ==
  /\ \A i \in DOMAIN toNode : toNode[i].type \in Kinds => toNode[i].call <= call
  /\ \A i \in DOMAIN toHost :
       /\ toHost[i].type = "confirm" => executed[toHost[i].call] > 0
       /\ toHost[i].type = "dummy" => toHost[i].call <= call

(* Nor is it executed or confirmed; and while it waits for its confirm, the *)
(* running call has none yet.                                               *)
Started ==
  /\ \A c \in Calls : executed[c] > 0 \/ accepted[c] # 0 => c <= call
  /\ pc \in {"send", "await"} => accepted[call] = 0

(* A call that was not misled is in one place: about to be sent, on its way *)
(* to the node, executed, or denied by a dummy confirm on its way back.     *)
Absent(c) ==
  /\ \A i \in DOMAIN toNode : ~AsksFor(toNode[i], c)
  /\ \A i \in DOMAIN toHost : ~Denies(toHost[i], c)
OnePlace(c) ==
  /\ executed[c] <= 1
  /\ \A i, j \in DOMAIN toNode : AsksFor(toNode[i], c) /\ AsksFor(toNode[j], c) => i = j
  /\ \A i, j \in DOMAIN toHost : Denies(toHost[i], c) /\ Denies(toHost[j], c) => i = j
  /\ \A i \in DOMAIN toNode, j \in DOMAIN toHost : ~(AsksFor(toNode[i], c) /\ Denies(toHost[j], c))
  /\ executed[c] > 0 => Absent(c)
  /\ pc = "send" /\ call = c => executed[c] = 0 /\ Absent(c)
OneTransmission == \A c \in Calls : c \notin misled => OnePlace(c)

(* What was handed over, and what is to be next because it was answered.    *)
Seen == IF pc = "hand" THEN Append(delivered, hand) ELSE delivered
Reading == pc \in {"indication", "hand"}

(* A response is written for what is handed over. *)
AnswersAreForHanded ==
  \A i \in DOMAIN toNode :
    toNode[i].type = "response" /\ toNode[i].ind > 0
      => \E j \in DOMAIN Seen : Seen[j] = Indication(toNode[i].ind)

Clean == misled = {} /\ \A c \in Calls : accepted[c] \in {0, c}

LastHanded == IF Seen = <<>> THEN 0 ELSE Seen[Len(Seen)].ind
Owed == IF emitting THEN 1 ELSE 0

(* The node has forgotten what was handed over, the last one perhaps not.   *)
NodeFollows ==
  /\ \A i \in DOMAIN Seen : Seen[i].type = "indication"
  /\ LastHanded - acked \in {0, 1}
  /\ \A i \in DOMAIN toNode : toNode[i].type = "response" => toNode[i].ind = LastHanded

(* The request of the running call is the last one on its way, and behind   *)
(* its confirm there is nothing but the indication it announced.            *)
NothingBehind ==
  pc = "await" =>
    /\ \A i \in DOMAIN toNode : AsksFor(toNode[i], call) => i = Len(toNode)
    /\ \A i \in DOMAIN toHost :
         toHost[i].type = "confirm" /\ toHost[i].call = call =>
           /\ Len(toNode) = 0
           /\ Len(toHost) + Owed <= i + 1
           /\ \A j \in i + 1 .. Len(toHost) : toHost[j] \in {Damaged, Indication(acked + 1)}

(* While indications are read, one frame at most is in flight or owed.      *)
OneByOne ==
  Reading =>
    /\ \A i \in DOMAIN toNode : toNode[i].type = "response"
    /\ Len(toNode) + Len(toHost) + Owed <= 1
    /\ \A i \in DOMAIN toHost : toHost[i] \in {Damaged, Indication(acked + 1)}

HandedInOrder ==
  \A i \in DOMAIN Seen :
    Seen[i].ind - (IF i = 1 THEN 0 ELSE Seen[i - 1].ind) \in {0, 1}

CleanOrder == Clean => NodeFollows /\ NothingBehind /\ OneByOne /\ HandedInOrder

-----------------------------------------------------------------------------
(* The frames.                                                              *)
NodeFrames == Requests \union Responses
HostFrames == Confirms \union Indications \union Dummies \union {Damaged}

LEMMA SentFrames ==
  /\ \A c \in Calls, k \in Kinds :
       /\ Request(c, k) \in Requests
       /\ Request(c, k).type = k /\ Request(c, k).call = c /\ Request(c, k).intact
  /\ \A n \in 0 .. MaxInds, b \in BOOLEAN :
       /\ Response(n, b) \in Responses
       /\ Response(n, b).type = "response" /\ Response(n, b).ind = n
  BY DEF Request, Response, Requests, Responses

LEMMA AnsweredFrames ==
  /\ \A c \in Calls, k \in Kinds, b \in BOOLEAN :
       /\ Confirm(c, k, b) \in Confirms
       /\ Confirm(c, k, b).type = "confirm" /\ Confirm(c, k, b).call = c
  /\ \A c \in Calls : Dummy(c) \in Dummies /\ Dummy(c).type = "dummy" /\ Dummy(c).call = c
  /\ \A n \in 1 .. MaxInds :
       /\ Indication(n) \in Indications
       /\ Indication(n).type = "indication" /\ Indication(n).ind = n
       /\ Indication(n).more \in BOOLEAN
  /\ Damaged.type = "damaged"
  BY LinkAssumption DEF Confirm, Dummy, Indication, Damaged, Confirms, Dummies, Indications

LEMMA NodeFrameKinds ==
  \A f \in NodeFrames :
    /\ f.type = "response" \/ f.type \in Kinds
    /\ f.type \in Kinds => f.type # "response" /\ f \in Requests /\ f.call \in Calls
    /\ f.type = "response" => f \in Responses /\ f.ind \in 0 .. MaxInds /\ f.again \in BOOLEAN
    /\ f.intact \in BOOLEAN
  BY DEF NodeFrames, Requests, Responses, Kinds

LEMMA DamagedNodeFrame ==
  \A f \in NodeFrames :
    LET g == [f EXCEPT !.intact = FALSE]
    IN  /\ g \in NodeFrames /\ g.type = f.type
        /\ f.type \in Kinds => g.call = f.call
        /\ f.type = "response" => g.ind = f.ind
<1>1. ASSUME NEW f \in Requests
      PROVE  LET g == [f EXCEPT !.intact = FALSE]
             IN  g \in Requests /\ g.type = f.type /\ g.call = f.call /\ f.type # "response"
  BY DEF Requests, Kinds
<1>2. ASSUME NEW f \in Responses
      PROVE  LET g == [f EXCEPT !.intact = FALSE]
             IN  g \in Responses /\ g.type = f.type /\ g.ind = f.ind /\ f.type \notin Kinds
  BY DEF Responses, Kinds
<1>3. QED
  BY <1>1, <1>2 DEF NodeFrames

LEMMA HostFrameKinds ==
  \A f \in HostFrames :
    /\ f.type \in {"confirm", "indication", "dummy", "damaged"}
    /\ f.type = "confirm" => f \in Confirms /\ f.call \in Calls /\ f.pending \in BOOLEAN
    /\ f.type = "indication" =>
         f \in Indications /\ f.ind \in 1 .. MaxInds /\ f = Indication(f.ind) /\ f.more \in BOOLEAN
    /\ f.type = "dummy" => f \in Dummies /\ f.call \in Calls
<1>1. \A f \in Confirms : f.type = "confirm" /\ f.call \in Calls /\ f.pending \in BOOLEAN
  BY DEF Confirms
<1>2. \A f \in Indications :
        /\ f.type = "indication" /\ f.ind \in 1 .. MaxInds
        /\ f = Indication(f.ind) /\ f.more \in BOOLEAN
  BY AnsweredFrames DEF Indications
<1>3. \A f \in Dummies : f.type = "dummy" /\ f.call \in Calls
  BY DEF Dummies, Dummy
<1>4. QED
  BY <1>1, <1>2, <1>3, AnsweredFrames DEF HostFrames

(* What taking a frame, adding one, losing the last ones and damaging the   *)
(* first one make of a line.                                                *)
LEMMA Taken ==
  ASSUME NEW S, NEW s \in Seq(S), s # <<>>
  PROVE  /\ Head(s) = s[1] /\ Head(s) \in S /\ Tail(s) \in Seq(S)
         /\ Len(s) \in Nat \ {0} /\ Len(Tail(s)) = Len(s) - 1
         /\ \A i \in 1 .. Len(Tail(s)) : Tail(s)[i] = s[i + 1]
  OBVIOUS

LEMMA Added ==
  ASSUME NEW S, NEW s \in Seq(S), NEW x \in S
  PROVE  /\ Append(s, x) \in Seq(S) /\ Len(s) \in Nat
         /\ Len(Append(s, x)) = Len(s) + 1
         /\ Append(s, x)[Len(s) + 1] = x
         /\ \A i \in 1 .. Len(s) : Append(s, x)[i] = s[i]
  OBVIOUS

LEMMA Cut ==
  ASSUME NEW S, NEW s \in Seq(S), NEW k \in 0 .. Len(s)
  PROVE  /\ SubSeq(s, 1, k) \in Seq(S) /\ Len(SubSeq(s, 1, k)) = k
         /\ \A i \in 1 .. k : SubSeq(s, 1, k)[i] = s[i]
  OBVIOUS

LEMMA FirstReplaced ==
  ASSUME NEW S, NEW s \in Seq(S), s # <<>>, NEW x \in S
  PROVE  LET t == <<x>> \o Tail(s)
         IN  /\ t \in Seq(S) /\ Len(t) = Len(s) /\ Len(s) \in Nat \ {0} /\ t[1] = x
             /\ \A i \in 2 .. Len(s) : t[i] = s[i]
<1>1. Tail(s) \in Seq(S) /\ <<x>> \in Seq(S) /\ Len(Tail(s)) = Len(s) - 1 /\ Len(<<x>>) = 1
      /\ Len(s) \in Nat \ {0}
  OBVIOUS
<1>2. \A i \in 2 .. Len(s) : Tail(s)[i - 1] = s[i]
  OBVIOUS
<1>3. QED
  BY <1>1, <1>2

LEMMA NoFrames == \A S : <<>> \in Seq(S) /\ Len(<<>>) = 0
  OBVIOUS
-----------------------------------------------------------------------------
(* The types, with the phases they depend on.                               *)
USE DEF vars, exchange, watchdog, line, node, outcome

LEMMA ReturnTypes ==
  ASSUME TypeOK, call >= 1, NEW what \in {"ok", "error"}, Return(what)
  PROVE  pc' = "free" /\ result' \in {"none", "ok", "error"}
  BY DEF TypeOK, OutcomeTypes, Return

LEMMA ReturnOrSuspectTypes ==
  ASSUME TypeOK, call >= 1, ReturnOrSuspect
  PROVE  pc' \in {"free", "suspect"} /\ result' \in {"none", "ok", "error"}
<1>1. CASE watched
  BY <1>1 DEF TypeOK, OutcomeTypes, ReturnOrSuspect
<1>2. CASE ~watched
  BY <1>2, ReturnTypes DEF ReturnOrSuspect
<1>3. QED
  BY <1>1, <1>2

LEMMA WrittenTypes ==
  ASSUME TypeOK, NEW frame \in NodeFrames, Written(frame)
  PROVE  /\ fd' \in {"open", "stale", "closed"} /\ toNode' \in Seq(NodeFrames)
         /\ UNCHANGED <<plugged, lineErrors, unplugs>>
  BY Added DEF TypeOK, LineTypes, Written, NodeFrames

LEMMA LineTaken ==
  ASSUME TypeOK, Readable
  PROVE  /\ Head(toHost) = toHost[1] /\ Head(toHost) \in HostFrames
         /\ Tail(toHost) \in Seq(HostFrames)
         /\ Len(toHost) \in Nat \ {0} /\ Len(Tail(toHost)) = Len(toHost) - 1
         /\ \A i \in 1 .. Len(Tail(toHost)) : Tail(toHost)[i] = toHost[i + 1]
<1>1. toHost \in Seq(HostFrames) /\ toHost # <<>>
  BY DEF TypeOK, LineTypes, HostFrames, Readable
<1>2. QED
  BY <1>1, Taken

LEMMA OutcomeFrame ==
  TypeOK /\ UNCHANGED <<watchdog, outcome, executed, delivered>> => OutcomeTypes'
  BY DEF TypeOK, OutcomeTypes

LEMMA LineFrame ==
  TypeOK /\ UNCHANGED <<line, emitting, acked>> => LineTypes'
  BY DEF TypeOK, LineTypes

LEMMA ExchangeFrame ==
  TypeOK /\ Phases /\ UNCHANGED <<exchange, emitting, acked>> => ExchangeTypes' /\ Phases'
  BY DEF TypeOK, ExchangeTypes, Phases

Typed == TypeOK /\ Phases

LEMMA InitTypes == Init => Typed
<1> SUFFICES ASSUME Init PROVE Typed
  OBVIOUS
<1>1. ExchangeTypes /\ Phases
  BY LinkAssumption DEF Init, ExchangeTypes, Phases, Kinds
<1>2. LineTypes
  <2>1. /\ toNode \in Seq(Requests \union Responses)
        /\ toHost \in Seq(Confirms \union Indications \union Dummies \union {Damaged})
    BY NoFrames DEF Init
  <2>2. plugged \in BOOLEAN /\ emitting \in BOOLEAN
    BY DEF Init
  <2>3. QED
    BY <2>1, <2>2, LinkAssumption DEF Init, LineTypes
<1>3. OutcomeTypes
  <2>1. delivered \in Seq(Confirms \union Indications)
    BY NoFrames DEF Init
  <2>2. watched \in BOOLEAN /\ overdue \in BOOLEAN /\ silence \in BOOLEAN
    BY DEF Init
  <2>3. executed \in [Calls -> Nat] /\ result \in {"none", "ok", "error"}
        /\ accepted \in [Calls -> 0 .. MaxCalls]
    BY LinkAssumption DEF Init
  <2>4. QED
    BY <2>1, <2>2, <2>3 DEF Init, OutcomeTypes
<1>4. QED
  BY <1>1, <1>2, <1>3 DEF Typed, TypeOK

LEMMA BeginTypes == Typed /\ Begin => Typed'
<1> SUFFICES ASSUME Typed, Begin PROVE Typed'
  OBVIOUS
<1> USE DEF Typed
<1>1. ExchangeTypes' /\ Phases'
  <2>1. quota' \in 0 .. MaxQuota
    <3>1. CASE kind' = "poll"
      BY <3>1 DEF Begin
    <3>2. CASE kind' # "poll"
      BY <3>2, LinkAssumption DEF Begin
    <3>3. QED
      BY <3>1, <3>2
  <2>2. QED
    BY <2>1, LinkAssumption DEF Begin, TypeOK, ExchangeTypes, Phases
<1>2. OutcomeTypes'
  BY DEF Begin, TypeOK, OutcomeTypes
<1>3. QED
  BY <1>1, <1>2, LineFrame DEF Begin, TypeOK

LEMMA SendTypes == Typed /\ Send => Typed'
<1> SUFFICES ASSUME Typed, Send PROVE Typed'
  OBVIOUS
<1> USE DEF Typed
<1>1. call \in Calls /\ kind \in Kinds /\ pc = "send"
  BY DEF Send, TypeOK, ExchangeTypes, Phases, Calls
<1>2. Request(call, kind) \in NodeFrames
  BY <1>1, SentFrames DEF NodeFrames
<1>3. LineTypes'
  BY <1>2, WrittenTypes DEF Send, TypeOK, LineTypes, NodeFrames
<1>4. pc' \in {"await", "free", "suspect"} /\ result' \in {"none", "ok", "error"}
  <2>1. CASE WriteSucceeds
    BY <2>1 DEF Send, TypeOK, OutcomeTypes
  <2>2. CASE ~WriteSucceeds
    BY <1>1, <2>2, ReturnOrSuspectTypes DEF Send, Calls
  <2>3. QED
    BY <2>1, <2>2
<1>5. ExchangeTypes' /\ Phases'
  BY <1>1, <1>4, LinkAssumption DEF Send, TypeOK, ExchangeTypes, Phases, Calls
<1>6. OutcomeTypes'
  BY <1>4 DEF Send, TypeOK, OutcomeTypes
<1>7. QED
  BY <1>3, <1>5, <1>6 DEF TypeOK

LEMMA EndTypes ==
  ASSUME Typed, call >= 1, pc' \in {"free", "suspect", "exited"},
         result' \in {"none", "ok", "error"},
         UNCHANGED <<call, kind, attempt, retries, quota, hand, watchdog, node, accepted, misled,
                     delivered>>
  PROVE  ExchangeTypes' /\ Phases' /\ OutcomeTypes'
  BY DEF Typed, TypeOK, ExchangeTypes, Phases, OutcomeTypes

LEMMA ConsumeTypes ==
  ASSUME TypeOK, Readable, Consume, UNCHANGED <<emitting, acked>>
  PROVE  LineTypes'
  BY LineTaken DEF Consume, TypeOK, LineTypes, HostFrames

LEMMA WaitTypes == Typed /\ (AwaitTimeout \/ Suspect) => Typed'
<1> SUFFICES ASSUME Typed, AwaitTimeout \/ Suspect PROVE Typed'
  OBVIOUS
<1>1. call >= 1
  BY DEF AwaitTimeout, Suspect, Typed, Phases
<1>2. pc' \in {"free", "suspect", "exited"} /\ result' \in {"none", "ok", "error"}
  <2>1. CASE AwaitTimeout
    BY <1>1, <2>1, ReturnOrSuspectTypes DEF AwaitTimeout, Typed
  <2>2. CASE Suspect
    BY <1>1, <2>2, ReturnTypes DEF Suspect, Typed, TypeOK, OutcomeTypes
  <2>3. QED
    BY <2>1, <2>2
<1>3. QED
  BY <1>1, <1>2, EndTypes, LineFrame DEF AwaitTimeout, Suspect, Typed, TypeOK

LEMMA FailTypes == Typed /\ IndicationFails => Typed'
<1> SUFFICES ASSUME Typed, IndicationFails PROVE Typed'
  OBVIOUS
<1>1. call >= 1
  BY DEF IndicationFails, Typed, Phases
<1>2. pc' = "free" /\ result' \in {"none", "ok", "error"}
  BY <1>1, ReturnTypes DEF IndicationFails, Typed
<1>3. LineTypes'
  <2>1. CASE Readable /\ Consume
    BY <2>1, ConsumeTypes DEF IndicationFails, Typed
  <2>2. CASE UNCHANGED line
    BY <2>2, LineFrame DEF IndicationFails, Typed
  <2>3. QED
    BY <2>1, <2>2 DEF IndicationFails
<1>4. QED
  BY <1>1, <1>2, <1>3, EndTypes DEF IndicationFails, Typed, TypeOK

LEMMA CrcTypes == Typed /\ AwaitCrcError => Typed'
<1> SUFFICES ASSUME Typed, AwaitCrcError PROVE Typed'
  OBVIOUS
<1> DEFINE frame == Head(toHost)
           resend == RetryOn(frame.type) /\ RetriesLeft
<1>1. call >= 1 /\ call \in Calls
  BY DEF AwaitCrcError, Typed, Phases, TypeOK, ExchangeTypes, Calls
<1>2. LineTypes'
  BY ConsumeTypes DEF AwaitCrcError, Typed
<1>3. CASE resend /\ pc' = "send" /\ retries' = retries + 1 /\ UNCHANGED result
           /\ misled' \in {misled, misled \union {call}}
  <2>1. misled' \subseteq Calls
    BY <1>1, <1>3 DEF Typed, TypeOK, OutcomeTypes
  <2>2. ExchangeTypes' /\ Phases'
    BY <1>1, <1>3, LinkAssumption DEF AwaitCrcError, RetriesLeft, Typed, Phases, TypeOK,
       ExchangeTypes
  <2>3. OutcomeTypes'
    BY <1>3, <2>1 DEF AwaitCrcError, Typed, TypeOK, OutcomeTypes
  <2>4. QED
    BY <1>2, <2>2, <2>3 DEF Typed, TypeOK
<1>4. CASE Return("error") /\ UNCHANGED <<retries, misled>>
  BY <1>1, <1>2, <1>4, ReturnTypes, EndTypes DEF AwaitCrcError, Typed, TypeOK
<1>5. QED
  BY <1>3, <1>4 DEF AwaitCrcError

LEMMA AwaitFrameTypes == Typed /\ AwaitFrame => Typed'
<1> SUFFICES ASSUME Typed, AwaitFrame PROVE Typed'
  OBVIOUS
<1> DEFINE frame == Head(toHost)
<1>1. call >= 1 /\ call \in Calls /\ pc = "await"
  BY DEF AwaitFrame, Typed, Phases, TypeOK, ExchangeTypes, Calls
<1>2. LineTypes'
  BY ConsumeTypes DEF AwaitFrame, Typed
<1>3. frame.type = "confirm" => frame.call \in 0 .. MaxCalls
  BY LineTaken, HostFrameKinds DEF AwaitFrame, Typed, Calls
<1>4. /\ pc' \in {"free", "await", "indication"}
      /\ pc' = "indication" => kind = "poll"
      /\ pc' = "await" => attempt' < MaxConfirmAttempt
      /\ attempt' \in 0 .. MaxConfirmAttempt
      /\ result' \in {"none", "ok", "error"}
      /\ accepted' \in [Calls -> 0 .. MaxCalls]
  <2>1. CASE /\ Matches(frame)
             /\ accepted' = [accepted EXCEPT ![call] = frame.call]
             /\ IF kind = "poll" /\ frame.pending
                  THEN pc' = "indication" /\ UNCHANGED result
                  ELSE Return("ok")
             /\ UNCHANGED attempt
    <3>1. accepted' \in [Calls -> 0 .. MaxCalls]
      BY <1>1, <1>3, <2>1 DEF Matches, Typed, TypeOK, OutcomeTypes
    <3>2. CASE kind = "poll" /\ frame.pending
      BY <2>1, <3>1, <3>2 DEF Typed, TypeOK, ExchangeTypes, OutcomeTypes
    <3>3. CASE ~(kind = "poll" /\ frame.pending)
      BY <1>1, <2>1, <3>1, <3>3, ReturnTypes DEF Typed, TypeOK, ExchangeTypes
    <3>4. QED
      BY <3>2, <3>3
  <2>2. CASE /\ ~Matches(frame)
             /\ attempt' = attempt + 1
             /\ IF attempt + 1 = MaxConfirmAttempt
                  THEN Return("error")
                  ELSE UNCHANGED <<pc, result>>
             /\ UNCHANGED accepted
    <3>1. attempt < MaxConfirmAttempt /\ attempt \in Nat /\ MaxConfirmAttempt \in Nat
      BY <1>1, LinkAssumption DEF Typed, Phases, TypeOK, ExchangeTypes
    <3>2. CASE attempt + 1 = MaxConfirmAttempt
      BY <1>1, <2>2, <3>1, <3>2, ReturnTypes DEF Typed, TypeOK, OutcomeTypes
    <3>3. CASE attempt + 1 # MaxConfirmAttempt
      BY <1>1, <2>2, <3>1, <3>3 DEF Typed, TypeOK, OutcomeTypes
    <3>4. QED
      BY <3>2, <3>3
  <2>3. QED
    BY <2>1, <2>2 DEF AwaitFrame
<1>5. ExchangeTypes' /\ Phases'
  BY <1>1, <1>4 DEF AwaitFrame, Typed, Phases, TypeOK, ExchangeTypes
<1>6. OutcomeTypes'
  BY <1>4 DEF AwaitFrame, Typed, TypeOK, OutcomeTypes
<1>7. QED
  BY <1>2, <1>5, <1>6 DEF Typed, TypeOK

LEMMA AnswerIndicationTypes == Typed /\ AnswerIndication => Typed'
<1> SUFFICES ASSUME Typed, AnswerIndication PROVE Typed'
  OBVIOUS
<1> DEFINE frame == Head(toHost)
           ind == IF frame.type = "indication" THEN frame.ind ELSE 0
<1>1. pc = "indication" /\ call >= 1 /\ quota \in 1 .. MaxQuota /\ kind = "poll"
  BY DEF AnswerIndication, Typed, Phases, TypeOK, ExchangeTypes
<1>2. frame \in HostFrames /\ Tail(toHost) \in Seq(HostFrames)
  BY LineTaken DEF AnswerIndication, Typed
<1>3. ind \in 0 .. MaxInds
  BY <1>2, HostFrameKinds, LinkAssumption
<1>4. PICK remaining \in IF frame.type = "indication" THEN {frame.more} ELSE BOOLEAN :
        /\ quota' = IF remaining THEN quota - 1 ELSE 0
        /\ Written(Response(ind, quota' > 0))
  BY DEF AnswerIndication
<1>5. quota' \in 0 .. MaxQuota
  BY <1>1, <1>4, LinkAssumption
<1>6. Response(ind, quota' > 0) \in NodeFrames
  <2> DEFINE again == quota' > 0
  <2>1. again \in BOOLEAN
    OBVIOUS
  <2> HIDE DEF again, ind
  <2>2. Response(ind, again) \in NodeFrames
    BY <1>3, <2>1, SentFrames DEF NodeFrames
  <2>3. QED
    BY <2>2 DEF again
<1> HIDE DEF ind
<1>7. LineTypes'
  BY <1>2, <1>4, <1>6, WrittenTypes DEF AnswerIndication, Typed, TypeOK, LineTypes, NodeFrames,
     HostFrames
<1>8. frame \in Confirms \union Indications /\ frame # NoFrame
  BY <1>2, HostFrameKinds DEF AnswerIndication, NoFrame
<1>9. ExchangeTypes' /\ Phases'
  BY <1>1, <1>5, <1>8 DEF AnswerIndication, Typed, Phases, TypeOK, ExchangeTypes
<1>10. OutcomeTypes'
  BY DEF AnswerIndication, Typed, TypeOK, OutcomeTypes
<1>11. QED
  BY <1>7, <1>9, <1>10 DEF Typed, TypeOK

LEMMA HandTypes == Typed /\ HandOver => Typed'
<1> SUFFICES ASSUME Typed, HandOver PROVE Typed'
  OBVIOUS
<1>1. pc = "hand" /\ call >= 1 /\ kind = "poll" /\ quota \in 0 .. MaxQuota
      /\ hand \in Confirms \union Indications
  BY DEF HandOver, Typed, Phases, TypeOK, ExchangeTypes
<1>2. /\ pc' \in {"free", "indication"} /\ result' \in {"none", "ok", "error"}
      /\ pc' = "indication" => quota >= 1
  <2>1. CASE quota > 0
    BY <1>1, <2>1 DEF HandOver, Typed, TypeOK, OutcomeTypes
  <2>2. CASE ~(quota > 0)
    BY <1>1, <2>2, ReturnTypes DEF HandOver, Typed
  <2>3. QED
    BY <2>1, <2>2
<1>3. delivered' \in Seq(Confirms \union Indications)
  BY <1>1, Added DEF HandOver, Handed, Typed, TypeOK, OutcomeTypes
<1>4. ExchangeTypes' /\ Phases'
  BY <1>1, <1>2 DEF HandOver, Typed, Phases, TypeOK, ExchangeTypes
<1>5. OutcomeTypes'
  BY <1>2, <1>3 DEF HandOver, Typed, TypeOK, OutcomeTypes
<1>6. QED
  BY <1>4, <1>5, LineFrame DEF HandOver, Typed, TypeOK

LEMMA TimeTypes == Typed /\ WatchdogStep => Typed'
<1> SUFFICES ASSUME Typed, WatchdogStep PROVE Typed'
  OBVIOUS
<1> USE DEF WatchdogStep, Opened, SetTimeout, StoreTimeout, Elapse, Restart
<1>1. watched' \in BOOLEAN /\ overdue' \in BOOLEAN /\ silence' \in BOOLEAN
      /\ setter' \in {"opening", "idle", "enabling", "disabling"}
  <2>1. watched \in BOOLEAN /\ overdue \in BOOLEAN /\ silence \in BOOLEAN
        /\ setter \in {"opening", "idle", "enabling", "disabling"}
    BY DEF Typed, TypeOK, OutcomeTypes
  <2>2. CASE Opened
    BY <2>1, <2>2
  <2>3. CASE SetTimeout
    <3>1. watched' = watched /\ overdue' \in {FALSE, overdue} /\ silence' \in {FALSE, silence}
          /\ setter' \in {"enabling", "disabling"}
      BY <2>3
    <3>2. QED
      BY <2>1, <3>1
  <2>4. CASE StoreTimeout
    BY <2>1, <2>4
  <2>5. CASE Elapse
    BY <2>1, <2>5
  <2>6. QED
    BY <2>2, <2>3, <2>4, <2>5
<1>2. UNCHANGED <<exchange, line, node, outcome, delivered>>
  OBVIOUS
<1>3. OutcomeTypes'
  BY <1>1, <1>2 DEF Typed, TypeOK, OutcomeTypes
<1>4. QED
  BY <1>2, <1>3, LineFrame, ExchangeFrame DEF Typed, TypeOK

LEMMA NodeTakes ==
  ASSUME TypeOK, toNode # <<>>
  PROVE  /\ Head(toNode) = toNode[1] /\ Head(toNode) \in NodeFrames
         /\ Tail(toNode) \in Seq(NodeFrames)
         /\ Len(toNode) \in Nat \ {0} /\ Len(Tail(toNode)) = Len(toNode) - 1
         /\ \A i \in 1 .. Len(Tail(toNode)) : Tail(toNode)[i] = toNode[i + 1]
<1>1. toNode \in Seq(NodeFrames)
  BY DEF TypeOK, LineTypes, NodeFrames
<1>2. QED
  BY <1>1, Taken

NodeDenies(frame) ==
  /\ ~frame.intact
  /\ toHost' = IF frame.type \in Kinds THEN Append(toHost, Dummy(frame.call)) ELSE toHost
  /\ UNCHANGED node
NodeExecutes(frame) ==
  /\ frame.intact /\ frame.type \in Kinds
  /\ executed' = [executed EXCEPT ![frame.call] = @ + 1]
  /\ emitting' = (frame.type = "poll" /\ acked < MaxInds)
  /\ toHost' = Append(toHost, Confirm(frame.call, frame.type, acked < MaxInds))
  /\ UNCHANGED acked
NodeForgets(frame) ==
  /\ frame.intact /\ frame.type = "response"
  /\ acked' = IF frame.ind = acked + 1 THEN frame.ind ELSE acked
  /\ emitting' = (frame.again /\ acked' < MaxInds)
  /\ UNCHANGED <<executed, toHost>>
NodeKeeps ==
  /\ toNode # <<>> /\ ~emitting /\ toNode' = Tail(toNode)
  /\ UNCHANGED <<exchange, watchdog, fd, plugged, lineErrors, unplugs, outcome, delivered>>

LEMMA NodeAnswers ==
  ASSUME NodeHandle
  PROVE  /\ NodeKeeps
         /\ \/ NodeDenies(Head(toNode)) \/ NodeExecutes(Head(toNode)) \/ NodeForgets(Head(toNode))
  BY DEF NodeHandle, NodeKeeps, NodeDenies, NodeExecutes, NodeForgets

LEMMA AnswerTypes ==
  ASSUME TypeOK, NEW frame \in HostFrames
  PROVE  Append(toHost, frame) \in Seq(HostFrames)
  BY Added DEF TypeOK, LineTypes, HostFrames

LEMMA NodeTypes == Typed /\ NodeHandle => Typed'
<1> SUFFICES ASSUME Typed, NodeHandle PROVE Typed'
  OBVIOUS
<1> DEFINE frame == Head(toNode)
<1>1. NodeKeeps /\ (NodeDenies(frame) \/ NodeExecutes(frame) \/ NodeForgets(frame))
  BY NodeAnswers
<1>2. frame \in NodeFrames /\ toNode' \in Seq(NodeFrames)
  BY <1>1, NodeTakes DEF NodeKeeps, Typed
<1>3. /\ toHost' \in Seq(HostFrames)
      /\ executed' \in [Calls -> Nat]
      /\ emitting' \in BOOLEAN /\ acked' \in 0 .. MaxInds
      /\ emitting' => acked' < MaxInds
  <2>1. CASE NodeDenies(frame)
    <3>1. frame.type \in Kinds => Dummy(frame.call) \in HostFrames
      BY <1>2, NodeFrameKinds, AnsweredFrames DEF HostFrames
    <3>2. toHost' \in Seq(HostFrames)
      BY <2>1, <3>1, AnswerTypes DEF NodeDenies, Typed, TypeOK, LineTypes, HostFrames
    <3>3. QED
      BY <2>1, <3>2 DEF NodeDenies, Typed, Phases, TypeOK, LineTypes, OutcomeTypes
  <2>2. CASE NodeExecutes(frame)
    <3>1. frame.call \in Calls /\ (acked < MaxInds) \in BOOLEAN
      BY <1>2, <2>2, NodeFrameKinds DEF NodeExecutes
    <3>2. Confirm(frame.call, frame.type, acked < MaxInds) \in HostFrames
      BY <2>2, <3>1, AnsweredFrames DEF NodeExecutes, HostFrames
    <3>3. toHost' \in Seq(HostFrames)
      BY <2>2, <3>2, AnswerTypes DEF NodeExecutes, Typed
    <3>4. emitting' \in BOOLEAN /\ (emitting' => acked' < MaxInds)
      BY <2>2 DEF NodeExecutes
    <3>5. QED
      BY <2>2, <3>1, <3>3, <3>4 DEF NodeExecutes, Typed, TypeOK, LineTypes, OutcomeTypes
  <2>3. CASE NodeForgets(frame)
    <3>1. frame.ind \in 0 .. MaxInds
      BY <1>2, <2>3, NodeFrameKinds DEF NodeForgets
    <3>2. emitting' \in BOOLEAN /\ (emitting' => acked' < MaxInds)
      BY <2>3, <1>2, NodeFrameKinds DEF NodeForgets
    <3>3. toHost' \in Seq(HostFrames)
      BY <2>3 DEF NodeForgets, Typed, TypeOK, LineTypes, HostFrames
    <3>4. QED
      BY <2>3, <3>1, <3>2, <3>3 DEF NodeForgets, Typed, TypeOK, LineTypes, OutcomeTypes
  <2>4. QED
    BY <1>1, <2>1, <2>2, <2>3
<1>4. LineTypes'
  BY <1>1, <1>2, <1>3 DEF NodeKeeps, Typed, TypeOK, LineTypes, HostFrames, NodeFrames
<1>5. ExchangeTypes' /\ Phases'
  BY <1>1, <1>3 DEF NodeKeeps, Typed, Phases, TypeOK, ExchangeTypes
<1>6. OutcomeTypes'
  BY <1>1, <1>3 DEF NodeKeeps, Typed, TypeOK, OutcomeTypes
<1>7. QED
  BY <1>4, <1>5, <1>6 DEF Typed, TypeOK

LEMMA EmitTypes == Typed /\ NodeEmit => Typed'
<1> SUFFICES ASSUME Typed, NodeEmit PROVE Typed'
  OBVIOUS
<1>1. acked + 1 \in 1 .. MaxInds
  BY LinkAssumption DEF NodeEmit, Typed, Phases, TypeOK, LineTypes
<1>2. toHost' \in Seq(HostFrames)
  BY <1>1, AnsweredFrames, AnswerTypes DEF NodeEmit, Typed, HostFrames
<1>3. LineTypes'
  BY <1>2 DEF NodeEmit, Typed, TypeOK, LineTypes, HostFrames
<1>4. ExchangeTypes' /\ Phases'
  BY DEF NodeEmit, Typed, Phases, TypeOK, ExchangeTypes
<1>5. QED
  BY <1>3, <1>4, OutcomeFrame DEF NodeEmit, Typed, TypeOK

(* The line loses the frame in front, or damages it. *)
LineLoses ==
  \/ toNode # <<>> /\ toNode' = Tail(toNode) /\ UNCHANGED toHost
  \/ toHost # <<>> /\ toHost' = Tail(toHost) /\ UNCHANGED toNode
LineDamages ==
  \/ /\ toNode # <<>>
     /\ toNode' = <<[Head(toNode) EXCEPT !.intact = FALSE]>> \o Tail(toNode)
     /\ UNCHANGED toHost
  \/ toHost # <<>> /\ toHost' = <<Damaged>> \o Tail(toHost) /\ UNCHANGED toNode

LEMMA LineErrorTypes == Typed /\ LineError => Typed'
<1> SUFFICES ASSUME Typed, LineError PROVE Typed'
  OBVIOUS
<1>1. toNode \in Seq(NodeFrames) /\ toHost \in Seq(HostFrames)
  BY DEF Typed, TypeOK, LineTypes, NodeFrames, HostFrames
<1>2. toNode' \in Seq(NodeFrames) /\ toHost' \in Seq(HostFrames)
  <2>1. CASE LineLoses
    BY <1>1, <2>1, Taken DEF LineLoses
  <2>2. CASE LineDamages
    <3>1. toNode # <<>> => [Head(toNode) EXCEPT !.intact = FALSE] \in NodeFrames
      BY <1>1, Taken, DamagedNodeFrame
    <3>2. Damaged \in HostFrames
      BY DEF HostFrames
    <3>3. QED
      BY <1>1, <2>2, <3>1, <3>2, FirstReplaced DEF LineDamages
  <2>3. QED
    BY <2>1, <2>2 DEF LineError, LineLoses, LineDamages
<1>3. LineTypes'
  BY <1>2, LinkAssumption DEF LineError, Typed, TypeOK, LineTypes, NodeFrames, HostFrames
<1>4. QED
  BY <1>3, OutcomeFrame, ExchangeFrame DEF LineError, Typed, TypeOK

LEMMA PlugTypes == Typed /\ (Unplug \/ Replug) => Typed'
<1> SUFFICES ASSUME Typed, Unplug \/ Replug PROVE Typed'
  OBVIOUS
<1>1. toHost \in Seq(HostFrames)
  BY DEF Typed, TypeOK, LineTypes, HostFrames
<1>2. CASE Unplug
  <2>1. toHost' \in Seq(HostFrames)
    BY <1>1, <1>2, Cut DEF Unplug
  <2>2. toNode' \in Seq(Requests \union Responses)
    BY <1>2, NoFrames DEF Unplug
  <2>3. plugged' \in BOOLEAN /\ emitting' \in BOOLEAN
    BY <1>2 DEF Unplug
  <2>4. LineTypes'
    BY <1>2, <2>1, <2>2, <2>3, LinkAssumption DEF Unplug, Typed, TypeOK, LineTypes, HostFrames
  <2>5. ExchangeTypes' /\ Phases'
    BY <1>2 DEF Unplug, Typed, Phases, TypeOK, ExchangeTypes
  <2>6. QED
    BY <1>2, <2>4, <2>5, OutcomeFrame DEF Unplug, Typed, TypeOK
<1>3. CASE Replug
  <2>1. LineTypes'
    BY <1>3 DEF Replug, Typed, TypeOK, LineTypes
  <2>2. QED
    BY <1>3, <2>1, OutcomeFrame, ExchangeFrame DEF Replug, Typed, TypeOK
<1>4. QED
  BY <1>2, <1>3

LEMMA TypedStep == Typed /\ [Next]_vars => Typed'
<1> SUFFICES ASSUME Typed, [Next]_vars PROVE Typed'
  OBVIOUS
<1>1. CASE HostStep
  BY <1>1, BeginTypes, SendTypes, WaitTypes, FailTypes, CrcTypes, AwaitFrameTypes,
     AnswerIndicationTypes, HandTypes DEF HostStep
<1>2. CASE NodeStep
  BY <1>2, NodeTypes, EmitTypes DEF NodeStep
<1>3. CASE WatchdogStep \/ LineError \/ Unplug \/ Replug
  BY <1>3, TimeTypes, LineErrorTypes, PlugTypes
<1>4. CASE UNCHANGED vars
  BY <1>4, LineFrame, OutcomeFrame, ExchangeFrame DEF Typed, TypeOK
<1>5. QED
  BY <1>1, <1>2, <1>3, <1>4 DEF Next

(* The variables of the link keep their types, its counters their bounds,   *)
(* and only frames that somebody sent or damage made are in flight: the     *)
(* host side of wpc_internal.c against the node and the line.               *)
THEOREM TypeCorrect == Spec => []TypeOK
<1>1. Typed => TypeOK
  BY DEF Typed
<1>2. QED
  BY <1>1, InitTypes, TypedStep, PTL DEF Spec

-----------------------------------------------------------------------------
(* The watchdog.                                                            *)

LEMMA SilenceStep == Typed /\ SilenceCounts /\ [Next]_vars => SilenceCounts'
<1> SUFFICES ASSUME Typed, SilenceCounts, [Next]_vars PROVE SilenceCounts'
  OBVIOUS
<1> USE DEF SilenceCounts
<1>1. CASE Suspect
  <2>1. UNCHANGED watchdog /\ (pc' = "exited" => overdue \/ ~watched)
    BY <1>1 DEF Suspect, Return
  <2>2. QED
    BY <2>1
<1>2. CASE \/ Begin \/ Send \/ AwaitTimeout \/ AwaitCrcError \/ IndicationFails
           \/ AnswerIndication \/ HandOver
  <2>1. UNCHANGED watchdog
    BY <1>2 DEF Begin, Send, AwaitTimeout, AwaitCrcError, IndicationFails, AnswerIndication,
       HandOver
  <2>2. pc' # "exited"
    BY <1>2 DEF Begin, Send, AwaitTimeout, AwaitCrcError, IndicationFails, AnswerIndication,
       HandOver, Return, ReturnOrSuspect
  <2>3. QED
    BY <2>1, <2>2
<1>3. CASE AwaitFrame
  <2>1. overdue' = FALSE /\ silence' = FALSE /\ pc' # "exited"
    BY <1>3 DEF AwaitFrame, Return
  <2>2. QED
    BY <2>1
<1>4. CASE Opened
  <2>1. overdue' = FALSE /\ silence' = FALSE /\ pc' # "exited"
    BY <1>4 DEF Opened, Restart
  <2>2. QED
    BY <2>1
<1>5. CASE SetTimeout
  <2>1. /\ pc' # "exited" /\ watched' = watched /\ setter = "idle"
        /\ \/ overdue' = FALSE /\ silence' = FALSE
           \/ UNCHANGED <<overdue, silence>> /\ setter' = "disabling"
    BY <1>5 DEF SetTimeout, Restart, Refreshed
  <2>2. QED
    BY <2>1
<1>6. CASE StoreTimeout
  <2>1. /\ pc' # "exited" /\ UNCHANGED overdue /\ setter' = "idle"
        /\ watched' = (setter = "enabling") /\ silence' = (watched' /\ silence)
    BY <1>6 DEF StoreTimeout
  <2>2. CASE setter = "enabling"
    <3>1. watched' /\ silence' = silence
      <4>1. watched' = TRUE
        BY <2>1, <2>2
      <4>2. silence' = (TRUE /\ silence) /\ silence \in BOOLEAN
        BY <2>1, <4>1 DEF Typed, TypeOK, OutcomeTypes
      <4>3. QED
        BY <4>1, <4>2
    <3>2. QED
      BY <2>1, <2>2, <3>1
  <2>3. CASE setter # "enabling"
    <3>1. ~watched' /\ ~silence'
      BY <2>1, <2>3
    <3>2. QED
      BY <2>1, <3>1
  <2>4. QED
    BY <2>2, <2>3
<1>7. CASE Elapse
  BY <1>7 DEF Elapse
<1>8. CASE NodeStep \/ LineError \/ Unplug \/ Replug \/ UNCHANGED vars
  <2>1. UNCHANGED <<watchdog, pc>>
    BY <1>8 DEF NodeStep, NodeHandle, NodeEmit, LineError, Unplug, Replug
  <2>2. QED
    BY <2>1
<1>9. QED
  BY <1>1, <1>2, <1>3, <1>4, <1>5, <1>6, <1>7, <1>8 DEF Next, HostStep, WatchdogStep

(* The process exits only after a silence of the whole duration, for the    *)
(* watchdog refreshes the time of the last answer before it stores the      *)
(* duration; but in the two windows the property names.                     *)
THEOREM ExitsOnlyAfterSilence == Spec => []ExitOnlyAfterSilence
<1>1. Init => SilenceCounts
  BY DEF Init, SilenceCounts
<1>2. SilenceCounts => ExitOnlyAfterSilence
  BY DEF SilenceCounts, ExitOnlyAfterSilence
<1>3. QED
  BY <1>1, <1>2, InitTypes, TypedStep, SilenceStep, PTL DEF Spec
-----------------------------------------------------------------------------
(* The steps, by what they do to the frames in flight.                      *)

(* Frames move up by d, some at the end are lost, one is perhaps damaged.   *)
HostShifts(d) ==
  /\ Len(toHost') + d <= Len(toHost)
  /\ \A i \in 1 .. Len(toHost') : toHost'[i] \in {toHost[i + d], Damaged}
NodeShifts(d) ==
  /\ Len(toNode') + d <= Len(toNode)
  /\ \A i \in 1 .. Len(toNode') :
       /\ toNode'[i].type = toNode[i + d].type
       /\ toNode'[i].type \in Kinds => toNode'[i].call = toNode[i + d].call
       /\ toNode'[i].type = "response" => toNode'[i].ind = toNode[i + d].ind
Fades == \E d, e \in {0, 1} : HostShifts(d) /\ NodeShifts(e)

HostGains(frame) ==
  /\ Len(toHost') = Len(toHost) + 1 /\ toHost'[Len(toHost) + 1] = frame
  /\ \A i \in 1 .. Len(toHost) : toHost'[i] = toHost[i]
NodeGains(frame) ==
  /\ Len(toNode') = Len(toNode) + 1 /\ toNode'[Len(toNode) + 1] = frame
  /\ \A i \in 1 .. Len(toNode) : toNode'[i] = toNode[i]

LEMMA Lines ==
  /\ TypeOK => /\ toNode \in Seq(NodeFrames) /\ toHost \in Seq(HostFrames)
               /\ DOMAIN toNode = 1 .. Len(toNode) /\ Len(toNode) \in Nat
               /\ DOMAIN toHost = 1 .. Len(toHost) /\ Len(toHost) \in Nat
  /\ TypeOK' => /\ toNode' \in Seq(NodeFrames) /\ toHost' \in Seq(HostFrames)
                /\ DOMAIN toNode' = 1 .. Len(toNode') /\ Len(toNode') \in Nat
                /\ DOMAIN toHost' = 1 .. Len(toHost') /\ Len(toHost') \in Nat
<1>1. TypeOK => toNode \in Seq(NodeFrames) /\ toHost \in Seq(HostFrames)
  BY DEF TypeOK, LineTypes, NodeFrames, HostFrames
<1>2. TypeOK' => toNode' \in Seq(NodeFrames) /\ toHost' \in Seq(HostFrames)
  BY DEF TypeOK, LineTypes, NodeFrames, HostFrames
<1>3. QED
  BY <1>1, <1>2

LEMMA Still ==
  TypeOK => /\ UNCHANGED toHost => HostShifts(0)
            /\ UNCHANGED toNode => NodeShifts(0)
  BY Lines DEF HostShifts, NodeShifts

LEMMA ConsumeShifts ==
  ASSUME TypeOK, Readable, Consume
  PROVE  HostShifts(1)
  BY LineTaken DEF Consume, HostShifts

LEMMA Fading ==
  ASSUME TypeOK,
         \/ UNCHANGED <<toNode, toHost>>
         \/ Readable /\ Consume
         \/ LineError
         \/ Unplug
  PROVE  Fades
<1>1. CASE UNCHANGED <<toNode, toHost>>
  <2>1. HostShifts(0) /\ NodeShifts(0)
    BY <1>1, Still
  <2>2. QED
    BY <2>1 DEF Fades
<1>2. CASE Readable /\ Consume
  <2>1. HostShifts(1)
    BY <1>2, ConsumeShifts
  <2>2. NodeShifts(0)
    BY <1>2, Still DEF Consume
  <2>3. QED
    BY <2>1, <2>2 DEF Fades
<1>3. CASE LineError
  <2>1. CASE toNode # <<>> /\ toNode' = Tail(toNode) /\ UNCHANGED toHost
    <3>1. HostShifts(0)
      BY <2>1, Still
    <3>2. /\ Len(toNode') = Len(toNode) - 1 /\ Len(toNode) \in Nat \ {0}
          /\ \A i \in 1 .. Len(toNode') : toNode'[i] = toNode[i + 1]
      BY <2>1, NodeTakes
    <3>3. NodeShifts(1)
      BY <3>2 DEF NodeShifts
    <3>4. QED
      BY <3>1, <3>3 DEF Fades
  <2>2. CASE toHost # <<>> /\ toHost' = Tail(toHost) /\ UNCHANGED toNode
    <3>1. /\ Len(toHost') = Len(toHost) - 1 /\ Len(toHost) \in Nat \ {0}
          /\ \A i \in 1 .. Len(toHost') : toHost'[i] = toHost[i + 1]
      BY <2>2, Lines, Taken
    <3>2. HostShifts(1)
      BY <3>1 DEF HostShifts
    <3>3. NodeShifts(0)
      BY <2>2, Still
    <3>4. QED
      BY <3>2, <3>3 DEF Fades
  <2>3. CASE /\ toNode # <<>>
             /\ toNode' = <<[Head(toNode) EXCEPT !.intact = FALSE]>> \o Tail(toNode)
             /\ UNCHANGED toHost
    <3> DEFINE damaged == [Head(toNode) EXCEPT !.intact = FALSE]
    <3>1. Head(toNode) = toNode[1] /\ Head(toNode) \in NodeFrames
      BY <2>3, NodeTakes
    <3>2. /\ damaged \in NodeFrames /\ damaged.type = toNode[1].type
          /\ damaged.type \in Kinds => damaged.call = toNode[1].call
          /\ damaged.type = "response" => damaged.ind = toNode[1].ind
      BY <3>1, DamagedNodeFrame
    <3>3. /\ Len(toNode') = Len(toNode) /\ toNode'[1] = damaged /\ Len(toNode) \in Nat \ {0}
          /\ \A i \in 2 .. Len(toNode) : toNode'[i] = toNode[i]
      BY <2>3, <3>2, Lines, FirstReplaced
    <3> HIDE DEF damaged
    <3>4. HostShifts(0)
      BY <2>3, Still
    <3>5. NodeShifts(0)
      <4>1. \A i \in 1 .. Len(toNode') : i = 1 \/ i \in 2 .. Len(toNode)
        BY <3>3
      <4>2. QED
        BY <3>2, <3>3, <4>1 DEF NodeShifts
    <3>6. QED
      BY <3>4, <3>5 DEF Fades
  <2>4. CASE toHost # <<>> /\ toHost' = <<Damaged>> \o Tail(toHost) /\ UNCHANGED toNode
    <3>1. Damaged \in HostFrames
      BY DEF HostFrames
    <3>2. /\ Len(toHost') = Len(toHost) /\ toHost'[1] = Damaged /\ Len(toHost) \in Nat \ {0}
          /\ \A i \in 2 .. Len(toHost) : toHost'[i] = toHost[i]
      BY <2>4, <3>1, Lines, FirstReplaced
    <3>3. HostShifts(0)
      BY <3>2 DEF HostShifts
    <3>4. NodeShifts(0)
      BY <2>4, Still
    <3>5. QED
      BY <3>3, <3>4 DEF Fades
  <2>5. QED
    BY <1>3, <2>1, <2>2, <2>3, <2>4 DEF LineError
<1>4. CASE Unplug
  <2>1. PICK kept \in 0 .. Len(toHost) : toHost' = SubSeq(toHost, 1, kept)
    BY <1>4 DEF Unplug
  <2>2. Len(toHost') = kept /\ \A i \in 1 .. kept : toHost'[i] = toHost[i]
    BY <2>1, Lines, Cut
  <2>3. HostShifts(0)
    BY <2>2, Lines DEF HostShifts
  <2>4. Len(toNode') = 0
    BY <1>4, NoFrames DEF Unplug
  <2>5. NodeShifts(0)
    BY <2>4, Lines DEF NodeShifts
  <2>6. QED
    BY <2>3, <2>5 DEF Fades
<1>5. QED
  BY <1>1, <1>2, <1>3, <1>4

LEMMA Gaining ==
  ASSUME TypeOK
  PROVE  /\ \A f \in HostFrames : toHost' = Append(toHost, f) => HostGains(f)
         /\ \A f \in NodeFrames : toNode' = Append(toNode, f) => NodeGains(f)
<1>1. ASSUME NEW f \in HostFrames, toHost' = Append(toHost, f) PROVE HostGains(f)
  BY <1>1, Lines, Added DEF HostGains
<1>2. ASSUME NEW f \in NodeFrames, toNode' = Append(toNode, f) PROVE NodeGains(f)
  BY <1>2, Lines, Added DEF NodeGains
<1>3. QED
  BY <1>1, <1>2

LEMMA Shifted ==
  ASSUME TypeOK, TypeOK', NEW d \in {0, 1}
  PROVE  /\ HostShifts(d) =>
              \A i \in DOMAIN toHost' :
                /\ i \in Nat /\ i + d \in DOMAIN toHost
                /\ toHost'[i] = toHost[i + d] \/ toHost'[i] = Damaged
         /\ NodeShifts(d) =>
              \A i \in DOMAIN toNode' :
                /\ i \in Nat /\ i + d \in DOMAIN toNode
                /\ toNode'[i].type = toNode[i + d].type
                /\ toNode'[i].type \in Kinds => toNode'[i].call = toNode[i + d].call
                /\ toNode'[i].type = "response" => toNode'[i].ind = toNode[i + d].ind
<1>1. CASE d = 0
  BY <1>1, Lines DEF HostShifts, NodeShifts
<1>2. CASE d = 1
  BY <1>2, Lines DEF HostShifts, NodeShifts
<1>3. QED
  BY <1>1, <1>2

LEMMA Gained ==
  ASSUME TypeOK, TypeOK'
  PROVE  /\ \A f : HostGains(f) =>
              \A i \in DOMAIN toHost' :
                \/ i \in DOMAIN toHost /\ toHost'[i] = toHost[i]
                \/ i = Len(toHost) + 1 /\ toHost'[i] = f
         /\ \A f : NodeGains(f) =>
              \A i \in DOMAIN toNode' :
                \/ i \in DOMAIN toNode /\ toNode'[i] = toNode[i]
                \/ i = Len(toNode) + 1 /\ toNode'[i] = f
<1>1. ASSUME NEW f, HostGains(f), NEW i \in DOMAIN toHost'
      PROVE  \/ i \in DOMAIN toHost /\ toHost'[i] = toHost[i]
             \/ i = Len(toHost) + 1 /\ toHost'[i] = f
  BY <1>1, Lines DEF HostGains
<1>2. ASSUME NEW f, NodeGains(f), NEW i \in DOMAIN toNode'
      PROVE  \/ i \in DOMAIN toNode /\ toNode'[i] = toNode[i]
             \/ i = Len(toNode) + 1 /\ toNode'[i] = f
  BY <1>2, Lines DEF NodeGains
<1>3. QED
  BY <1>1, <1>2

(* The steps that send nothing. *)
FadingStep ==
  \/ Begin \/ AwaitTimeout \/ Suspect \/ HandOver \/ IndicationFails \/ AwaitCrcError \/ AwaitFrame
  \/ WatchdogStep \/ LineError \/ Unplug \/ Replug \/ UNCHANGED vars

LEMMA WatchdogKeeps == WatchdogStep => UNCHANGED <<exchange, line, node, outcome, delivered>>
  BY DEF WatchdogStep, Opened, SetTimeout, StoreTimeout, Elapse, Restart

LEMMA SeenKept ==
  /\ UNCHANGED <<pc, hand, delivered>> => UNCHANGED Seen
  /\ pc # "hand" /\ pc' # "hand" /\ UNCHANGED delivered => UNCHANGED Seen
  BY DEF Seen

LEMMA SeenHanded ==
  ASSUME HandOver
  PROVE  UNCHANGED <<toNode, toHost, acked, executed, Seen, emitting, call>>
<1>1. pc = "hand" /\ pc' # "hand" /\ delivered' = Append(delivered, hand)
  BY DEF HandOver, Handed, Return
<1>2. QED
  BY <1>1 DEF HandOver, Seen

LEMMA FadingSteps ==
  ASSUME Typed, FadingStep
  PROVE  /\ Fades
         /\ UNCHANGED <<acked, executed, Seen>>
         /\ emitting' => emitting
         /\ call' \in {call, call + 1}
<1>1. CASE Begin \/ AwaitTimeout \/ Suspect \/ Replug \/ UNCHANGED vars \/ WatchdogStep \/ HandOver
  <2>1. CASE Begin \/ AwaitTimeout \/ Suspect
    <3>1. /\ UNCHANGED <<toNode, toHost, acked, executed, delivered, emitting>>
          /\ call' \in {call, call + 1} /\ pc # "hand" /\ pc' # "hand"
      BY <2>1 DEF Begin, AwaitTimeout, Suspect, Return, ReturnOrSuspect
    <3>2. QED
      BY <3>1, SeenKept, Fading DEF Typed
  <2>2. CASE Replug \/ UNCHANGED vars \/ WatchdogStep
    <3>1. UNCHANGED <<toNode, toHost, acked, executed, delivered, emitting, call, pc, hand>>
      BY <2>2, WatchdogKeeps DEF Replug
    <3>2. QED
      BY <3>1, SeenKept, Fading DEF Typed
  <2>3. CASE HandOver
    BY <2>3, SeenHanded, Fading DEF Typed
  <2>4. QED
    BY <1>1, <2>1, <2>2, <2>3
<1>2. CASE IndicationFails
  <2>1. UNCHANGED <<toNode, toHost>> \/ (Readable /\ Consume)
    BY <1>2 DEF IndicationFails
  <2>2. pc # "hand" /\ pc' # "hand" /\ UNCHANGED <<acked, executed, delivered, emitting, call>>
    BY <1>2 DEF IndicationFails, Return
  <2>3. QED
    BY <2>1, <2>2, SeenKept, Fading DEF Typed
<1>3. CASE AwaitCrcError \/ AwaitFrame
  <2>1. Readable /\ Consume
    BY <1>3 DEF AwaitCrcError, AwaitFrame
  <2>2. UNCHANGED <<acked, executed, delivered, emitting, call>> /\ pc # "hand" /\ pc' # "hand"
    BY <1>3 DEF AwaitCrcError, AwaitFrame, Return
  <2>3. QED
    BY <2>1, <2>2, SeenKept, Fading DEF Typed
<1>4. CASE LineError \/ Unplug
  <2>1. Fades
    BY <1>4, Fading DEF Typed
  <2>2. /\ UNCHANGED <<acked, executed, delivered, call, pc, hand>>
        /\ emitting' => emitting
    BY <1>4 DEF LineError, Unplug
  <2>3. QED
    BY <2>1, <2>2, SeenKept
<1>5. QED
  BY <1>1, <1>2, <1>3, <1>4 DEF FadingStep

LEMMA Sending ==
  ASSUME Typed, Send
  PROVE  /\ pc = "send" /\ call \in Calls /\ kind \in Kinds
         /\ Request(call, kind).type \in Kinds /\ Request(call, kind).call = call
         /\ UNCHANGED <<call, toHost, node, accepted, misled, Seen>>
         /\ \/ pc' = "await" /\ NodeGains(Request(call, kind))
            \/ pc' \in {"free", "suspect"} /\ UNCHANGED toNode
<1>1. pc = "send" /\ call \in Calls /\ kind \in Kinds
  BY DEF Send, Typed, Phases, TypeOK, ExchangeTypes, Calls
<1>2. Request(call, kind) \in NodeFrames
  BY <1>1, SentFrames DEF NodeFrames
<1>3. CASE WriteSucceeds
  <2>1. pc' = "await" /\ NodeGains(Request(call, kind)) /\ UNCHANGED <<call, toHost, node, accepted,
          misled, delivered>>
    BY <1>2, <1>3, Gaining DEF Send, Written, Typed
  <2>2. QED
    BY <1>1, <2>1, SeenKept, SentFrames
<1>4. CASE ~WriteSucceeds
  <2>1. pc' \in {"free", "suspect"} /\ UNCHANGED <<call, toNode, toHost, node, accepted, misled,
          delivered>>
    BY <1>4 DEF Send, Written, ReturnOrSuspect, Return
  <2>2. QED
    BY <1>1, <2>1, SeenKept, SentFrames
<1>5. QED
  BY <1>3, <1>4

LEMMA Handling ==
  ASSUME Typed, AnswerIndication
  PROVE  LET ind == IF toHost[1].type = "indication" THEN toHost[1].ind ELSE 0
         IN  /\ pc = "indication" /\ pc' = "hand"
             /\ toHost # <<>> /\ toHost[1] \in Confirms \union Indications
             /\ ind \in 0 .. MaxInds
             /\ HostShifts(1)
             /\ Seen' = Append(Seen, toHost[1])
             /\ UNCHANGED <<call, node, accepted, misled>>
             /\ \/ \E again \in BOOLEAN :
                     /\ NodeGains(Response(ind, again))
                     /\ Response(ind, again).type = "response" /\ Response(ind, again).ind = ind
                \/ UNCHANGED toNode
<1> DEFINE frame == Head(toHost)
           ind == IF frame.type = "indication" THEN frame.ind ELSE 0
<1>1. /\ frame = toHost[1] /\ frame \in HostFrames /\ toHost # <<>>
      /\ frame.type \in {"confirm", "indication"}
  BY LineTaken DEF AnswerIndication, Typed, Readable
<1>2. frame \in Confirms \union Indications
  BY <1>1, HostFrameKinds
<1>3. ind \in 0 .. MaxInds
  BY <1>1, HostFrameKinds, LinkAssumption
<1>4. HostShifts(1)
  BY LineTaken DEF AnswerIndication, Typed, HostShifts
<1>5. Written(Response(ind, quota' > 0))
  BY DEF AnswerIndication
<1>6. PICK again \in BOOLEAN : Written(Response(ind, again))
  <2>1. (quota' > 0) \in BOOLEAN
    OBVIOUS
  <2>2. QED
    BY <1>5, <2>1
<1>7. /\ Response(ind, again) \in NodeFrames
      /\ Response(ind, again).type = "response" /\ Response(ind, again).ind = ind
  BY <1>3, SentFrames DEF NodeFrames
<1>8. NodeGains(Response(ind, again)) \/ UNCHANGED toNode
  BY <1>6, <1>7, Gaining DEF Written, Typed
<1>9. Seen' = Append(Seen, frame) /\ UNCHANGED <<call, node, accepted, misled>>
      /\ pc = "indication" /\ pc' = "hand"
  BY DEF AnswerIndication, Seen
<1>10. QED
  BY <1>1, <1>2, <1>3, <1>4, <1>7, <1>8, <1>9

LEMMA SeenTypes == Typed => Seen \in Seq(Confirms \union Indications)
  BY Added DEF Typed, Phases, TypeOK, ExchangeTypes, OutcomeTypes, Seen

LEMMA Answering ==
  ASSUME Typed, NodeHandle
  PROVE  LET frame == toNode[1]
         IN  /\ toNode # <<>> /\ frame \in NodeFrames /\ ~emitting
             /\ NodeShifts(1) /\ Len(toNode') = Len(toNode) - 1
             /\ UNCHANGED <<pc, hand, call, kind, outcome, delivered, Seen>>
             /\ \/ /\ frame.type \in Kinds /\ frame.call \in Calls
                   /\ HostGains(Dummy(frame.call)) /\ UNCHANGED node
                \/ /\ frame.type \notin Kinds
                   /\ UNCHANGED <<toHost, node>>
                \/ /\ frame.type \in Kinds /\ frame.call \in Calls
                   /\ executed' = [executed EXCEPT ![frame.call] = @ + 1]
                   /\ HostGains(Confirm(frame.call, frame.type, acked < MaxInds))
                   /\ UNCHANGED acked
                \/ /\ frame.type = "response" /\ NodeForgets(frame)
<1> DEFINE frame == Head(toNode)
<1>1. NodeKeeps /\ (NodeDenies(frame) \/ NodeExecutes(frame) \/ NodeForgets(frame))
  BY NodeAnswers
<1>2. /\ frame = toNode[1] /\ frame \in NodeFrames /\ Len(toNode) \in Nat \ {0}
      /\ Len(toNode') = Len(toNode) - 1
      /\ \A i \in 1 .. Len(toNode') : toNode'[i] = toNode[i + 1]
  BY <1>1, NodeTakes DEF NodeKeeps, Typed
<1>3. NodeShifts(1) /\ UNCHANGED <<pc, hand, call, kind, outcome, delivered, Seen>>
  BY <1>1, <1>2, SeenKept DEF NodeShifts, NodeKeeps
<1>4. /\ frame.type \in Kinds => frame.call \in Calls
      /\ frame.type = "response" => frame.type \notin Kinds
  BY <1>2, NodeFrameKinds
<1>5. CASE NodeDenies(frame) /\ frame.type \in Kinds
  <2>1. Dummy(frame.call) \in HostFrames
    BY <1>4, <1>5, AnsweredFrames DEF HostFrames
  <2>2. HostGains(Dummy(frame.call))
    BY <1>5, <2>1, Gaining DEF NodeDenies, Typed
  <2>3. QED
    BY <1>1, <1>2, <1>3, <1>4, <1>5, <2>2 DEF NodeDenies, NodeKeeps
<1>6. CASE NodeDenies(frame) /\ frame.type \notin Kinds
  BY <1>1, <1>2, <1>3, <1>4, <1>6 DEF NodeDenies, NodeKeeps
<1>7. CASE NodeExecutes(frame)
  <2> DEFINE pending == acked < MaxInds
  <2>1. Confirm(frame.call, frame.type, pending) \in HostFrames
    <3>1. pending \in BOOLEAN /\ frame.type \in Kinds /\ frame.call \in Calls
      BY <1>4, <1>7 DEF NodeExecutes
    <3> HIDE DEF pending
    <3>2. QED
      BY <3>1, AnsweredFrames DEF HostFrames
  <2>2. HostGains(Confirm(frame.call, frame.type, acked < MaxInds))
    BY <1>7, <2>1, Gaining DEF NodeExecutes, Typed
  <2>3. QED
    BY <1>1, <1>2, <1>3, <1>4, <1>7, <2>2 DEF NodeExecutes, NodeKeeps
<1>8. CASE NodeForgets(frame)
  BY <1>1, <1>2, <1>3, <1>4, <1>8 DEF NodeForgets, NodeKeeps
<1>9. QED
  BY <1>1, <1>5, <1>6, <1>7, <1>8

LEMMA Emitting ==
  ASSUME Typed, NodeEmit
  PROVE  /\ emitting /\ emitting' = FALSE
         /\ acked + 1 \in 1 .. MaxInds /\ HostGains(Indication(acked + 1))
         /\ Indication(acked + 1).type = "indication"
         /\ UNCHANGED <<exchange, toNode, acked, executed, outcome, delivered, Seen>>
<1>1. acked + 1 \in 1 .. MaxInds
  BY LinkAssumption DEF NodeEmit, Typed, Phases, TypeOK, LineTypes
<1>2. Indication(acked + 1) \in HostFrames /\ Indication(acked + 1).type = "indication"
  BY <1>1, AnsweredFrames DEF HostFrames
<1>3. QED
  BY <1>1, <1>2, SeenKept, Gaining DEF NodeEmit, Typed

LEMMA StepKinds ==
  [Next]_vars => FadingStep \/ Send \/ AnswerIndication \/ NodeHandle \/ NodeEmit
  BY DEF Next, HostStep, NodeStep, FadingStep

(* Nobody is misled no more, and only AwaitFrame accepts. *)
LEMMA Histories ==
  [Next]_vars => misled \subseteq misled' /\ (UNCHANGED accepted \/ AwaitFrame)
<1> SUFFICES ASSUME [Next]_vars PROVE misled \subseteq misled' /\ (UNCHANGED accepted \/ AwaitFrame)
  OBVIOUS
<1>1. CASE HostStep
  BY <1>1 DEF HostStep, Begin, Send, AwaitTimeout, Suspect, HandOver, AwaitCrcError, AwaitFrame,
     IndicationFails, AnswerIndication
<1>2. CASE WatchdogStep
  BY <1>2, WatchdogKeeps
<1>3. CASE NodeStep \/ LineError \/ Unplug \/ Replug \/ UNCHANGED vars
  BY <1>3 DEF NodeStep, NodeHandle, NodeEmit, LineError, Unplug, Replug
<1>4. QED
  BY <1>1, <1>2, <1>3 DEF Next

-----------------------------------------------------------------------------
(* What is in flight is of a call that was started.                         *)

LEMMA InFlightFades ==
  ASSUME TypeOK, TypeOK', InFlight, Fades, call' \in {call, call + 1}, UNCHANGED executed
  PROVE  InFlight'
<1>1. PICK d \in {0, 1}, e \in {0, 1} : HostShifts(d) /\ NodeShifts(e)
  BY DEF Fades
<1>2. call \in Nat /\ call' \in Nat
  BY LinkAssumption DEF TypeOK, ExchangeTypes
<1>3. ASSUME NEW i \in DOMAIN toNode', toNode'[i].type \in Kinds
      PROVE  toNode'[i].call <= call'
  <2>1. i + e \in DOMAIN toNode /\ toNode[i + e].type \in Kinds
        /\ toNode'[i].call = toNode[i + e].call
    BY <1>1, <1>3, Shifted
  <2>2. toNode[i + e].call \in Calls
    BY <2>1, Lines, NodeFrameKinds
  <2>3. QED
    BY <1>2, <2>1, <2>2 DEF InFlight, Calls
<1>4. ASSUME NEW i \in DOMAIN toHost'
      PROVE  /\ toHost'[i].type = "confirm" => executed'[toHost'[i].call] > 0
             /\ toHost'[i].type = "dummy" => toHost'[i].call <= call'
  <2>1. i + d \in DOMAIN toHost /\ toHost'[i] \in {toHost[i + d], Damaged}
    BY <1>1, <1>4, Shifted
  <2>2. CASE toHost'[i] = Damaged
    BY <2>2, AnsweredFrames
  <2>3. CASE toHost'[i] = toHost[i + d]
    <3>1. toHost[i + d].type = "dummy" => toHost[i + d].call \in Calls
      BY <2>1, Lines, HostFrameKinds
    <3>2. QED
      BY <1>2, <2>1, <2>3, <3>1 DEF InFlight, Calls
  <2>4. QED
    BY <2>1, <2>2, <2>3
<1>5. QED
  BY <1>3, <1>4 DEF InFlight

LEMMA InFlightStep == Typed /\ Typed' /\ InFlight /\ [Next]_vars => InFlight'
<1> SUFFICES ASSUME Typed, Typed', InFlight, [Next]_vars PROVE InFlight'
  OBVIOUS
<1>0. TypeOK /\ TypeOK' /\ call \in Nat
  BY LinkAssumption DEF Typed, TypeOK, ExchangeTypes
<1>1. CASE FadingStep
  BY <1>0, <1>1, FadingSteps, InFlightFades
<1>2. CASE Send
  <2>1. \A i \in DOMAIN toNode' : toNode'[i].type \in Kinds => toNode'[i].call <= call'
    <3>1. CASE UNCHANGED toNode
      BY <1>0, <1>2, <3>1, Sending DEF InFlight
    <3>2. CASE NodeGains(Request(call, kind))
      <4>1. \A i \in DOMAIN toNode' : i \in DOMAIN toNode \/ i = Len(toNode) + 1
        BY <1>0, <3>2, Lines DEF NodeGains
      <4>2. QED
        BY <1>0, <1>2, <3>2, <4>1, Sending, Lines DEF NodeGains, InFlight
    <3>3. QED
      BY <1>2, <3>1, <3>2, Sending
  <2>2. QED
    BY <1>2, <2>1, Sending DEF InFlight
<1>3. CASE AnswerIndication
  <2> DEFINE ind == IF toHost[1].type = "indication" THEN toHost[1].ind ELSE 0
  <2>1. HostShifts(1) /\ UNCHANGED <<call, executed>>
    BY <1>3, Handling
  <2>2. CASE UNCHANGED toNode
    BY <1>0, <2>1, <2>2, Still, InFlightFades DEF Fades
  <2>3. ASSUME NEW again \in BOOLEAN, NodeGains(Response(ind, again)),
               Response(ind, again).type = "response"
        PROVE  InFlight'
    <3>1. \A i \in DOMAIN toNode' : i \in DOMAIN toNode \/ i = Len(toNode) + 1
      BY <1>0, <2>3, Lines DEF NodeGains
    <3>2. "response" \notin Kinds
      BY DEF Kinds
    <3>3. \A i \in DOMAIN toNode' : toNode'[i].type \in Kinds => toNode'[i].call <= call'
      BY <1>0, <2>1, <2>3, <3>1, <3>2, Lines DEF NodeGains, InFlight
    <3>4. \A i \in DOMAIN toHost' :
            i + 1 \in DOMAIN toHost /\ (toHost'[i] = toHost[i + 1] \/ toHost'[i] = Damaged)
      BY <1>0, <2>1, Lines DEF HostShifts
    <3>5. \A i \in DOMAIN toHost' :
            /\ toHost'[i].type = "confirm" => executed'[toHost'[i].call] > 0
            /\ toHost'[i].type = "dummy" => toHost'[i].call <= call'
      BY <2>1, <3>4, AnsweredFrames DEF InFlight
    <3>6. QED
      BY <3>3, <3>5 DEF InFlight
  <2>4. QED
    BY <1>3, <2>2, <2>3, Handling
<1>4. CASE NodeHandle
  <2>1. NodeShifts(1) /\ UNCHANGED call /\ toNode # <<>>
    BY <1>4, Answering
  <2>2. \A i \in DOMAIN toNode' : toNode'[i].type \in Kinds => toNode'[i].call <= call'
    <3>1. \A i \in DOMAIN toNode' :
            /\ i + 1 \in DOMAIN toNode
            /\ toNode'[i].type = toNode[i + 1].type
            /\ toNode'[i].type \in Kinds => toNode'[i].call = toNode[i + 1].call
      BY <1>0, <2>1, Lines DEF NodeShifts
    <3>2. QED
      BY <2>1, <3>1 DEF InFlight
  <2>3. toNode[1].type \in Kinds => toNode[1].call <= call
    <3>1. 1 \in DOMAIN toNode
      BY <1>0, <2>1, Lines
    <3>2. QED
      BY <3>1 DEF InFlight
  <2>4. CASE UNCHANGED <<toHost, executed>>
    BY <2>1, <2>2, <2>4 DEF InFlight
  <2>5. CASE toNode[1].type \in Kinds /\ HostGains(Dummy(toNode[1].call)) /\ UNCHANGED executed
             /\ toNode[1].call \in Calls
    <3>1. \A i \in DOMAIN toHost' : i \in DOMAIN toHost \/ i = Len(toHost) + 1
      BY <1>0, <2>5, Lines DEF HostGains
    <3>2. Dummy(toNode[1].call).type = "dummy" /\ Dummy(toNode[1].call).call = toNode[1].call
      BY <2>5, AnsweredFrames
    <3>3. \A i \in DOMAIN toHost' :
            /\ toHost'[i].type = "confirm" => executed'[toHost'[i].call] > 0
            /\ toHost'[i].type = "dummy" => toHost'[i].call <= call'
      BY <1>0, <2>1, <2>3, <2>5, <3>1, <3>2, Lines DEF HostGains, InFlight
    <3>4. QED
      BY <2>2, <3>3 DEF InFlight
  <2>6. CASE /\ toNode[1].type \in Kinds /\ toNode[1].call \in Calls
             /\ executed' = [executed EXCEPT ![toNode[1].call] = @ + 1]
             /\ HostGains(Confirm(toNode[1].call, toNode[1].type, acked < MaxInds))
    <3> DEFINE pending == acked < MaxInds
               confirm == Confirm(toNode[1].call, toNode[1].type, pending)
    <3>1. \A i \in DOMAIN toHost' : i \in DOMAIN toHost \/ i = Len(toHost) + 1
      BY <1>0, <2>6, Lines DEF HostGains
    <3>2. pending \in BOOLEAN
      OBVIOUS
    <3>3. confirm.type = "confirm" /\ confirm.call = toNode[1].call
      <4> HIDE DEF pending
      <4>1. QED
        BY <2>6, <3>2, AnsweredFrames
    <3>4. toHost'[Len(toHost) + 1] = confirm /\ \A i \in DOMAIN toHost : toHost'[i] = toHost[i]
      BY <1>0, <2>6, Lines DEF HostGains
    <3> HIDE DEF confirm
    <3>5. \A i \in DOMAIN toHost :
            toHost[i].type = "confirm" => toHost[i].call \in Calls
      BY <1>0, Lines, HostFrameKinds
    <3>6. /\ \A c \in Calls : executed[c] \in Nat /\ executed'[c] \in Nat
                                /\ executed'[c] >= executed[c]
          /\ executed'[toNode[1].call] > 0
      BY <1>0, <2>6 DEF TypeOK, OutcomeTypes
    <3>7. \A i \in DOMAIN toHost' :
            /\ toHost'[i].type = "confirm" => executed'[toHost'[i].call] > 0
            /\ toHost'[i].type = "dummy" => toHost'[i].call <= call'
      <4>1. ASSUME NEW i \in DOMAIN toHost
            PROVE  /\ toHost'[i].type = "confirm" => executed'[toHost'[i].call] > 0
                   /\ toHost'[i].type = "dummy" => toHost'[i].call <= call'
        <5>1. toHost[i].type = "confirm" => executed[toHost[i].call] > 0
          BY DEF InFlight
        <5>2. toHost[i].type = "dummy" => toHost[i].call <= call'
          BY <2>1 DEF InFlight
        <5>3. toHost'[i] = toHost[i]
          BY <3>4
        <5>4. toHost[i].type = "confirm" => executed'[toHost[i].call] > 0
          BY <3>5, <3>6, <5>1
        <5>5. QED
          BY <5>2, <5>3, <5>4
      <4>2. "confirm" # "dummy"
        OBVIOUS
      <4>3. QED
        BY <2>6, <3>1, <3>3, <3>4, <3>6, <4>1, <4>2
    <3>8. QED
      BY <2>2, <3>7 DEF InFlight
  <2>7. QED
    BY <1>4, <2>4, <2>5, <2>6, Answering DEF NodeForgets
<1>5. CASE NodeEmit
  <2>1. UNCHANGED <<toNode, call, executed>> /\ HostGains(Indication(acked + 1))
        /\ Indication(acked + 1).type = "indication"
    BY <1>5, Emitting
  <2>2. \A i \in DOMAIN toHost' : i \in DOMAIN toHost \/ i = Len(toHost) + 1
    BY <1>0, <2>1, Lines DEF HostGains
  <2>3. \A i \in DOMAIN toHost' :
          /\ toHost'[i].type = "confirm" => executed'[toHost'[i].call] > 0
          /\ toHost'[i].type = "dummy" => toHost'[i].call <= call'
    BY <1>0, <2>1, <2>2, Lines DEF HostGains, InFlight
  <2>4. QED
    BY <2>1, <2>3 DEF InFlight
<1>6. QED
  BY <1>1, <1>2, <1>3, <1>4, <1>5, StepKinds

LEMMA Numbers ==
  TypeOK => /\ call \in Nat /\ Calls \subseteq Nat /\ executed \in [Calls -> Nat]
            /\ call >= 1 => call \in Calls
  BY LinkAssumption DEF TypeOK, ExchangeTypes, OutcomeTypes, Calls

LEMMA StartedStep == Typed /\ InFlight /\ Started /\ [Next]_vars => Started'
<1> SUFFICES ASSUME Typed, InFlight, Started, [Next]_vars PROVE Started'
  OBVIOUS
<1>0. /\ call \in Nat /\ Calls \subseteq Nat
      /\ executed \in [Calls -> Nat] /\ accepted \in [Calls -> 0 .. MaxCalls]
      /\ call >= 1 => call \in Calls
  BY LinkAssumption DEF Typed, TypeOK, ExchangeTypes, OutcomeTypes, Calls
<1>1. CASE Begin
  <2>1. /\ call' = call + 1 /\ call' \in Calls /\ UNCHANGED <<executed, accepted>>
    BY <1>0, <1>1, LinkAssumption DEF Begin, Calls
  <2>2. accepted[call'] = 0
    BY <1>0, <2>1 DEF Started
  <2>3. \A c \in Calls : executed[c] > 0 \/ accepted[c] # 0 => c <= call'
    BY <1>0, <2>1 DEF Started
  <2>4. QED
    BY <2>1, <2>2, <2>3 DEF Started
<1>2. CASE Send \/ AwaitCrcError
  BY <1>2 DEF Send, AwaitCrcError, Started
<1>3. CASE AwaitFrame
  <2>1. pc = "await" /\ call \in Calls /\ UNCHANGED <<call, executed>>
    BY <1>0, <1>3 DEF AwaitFrame, Typed, Phases
  <2>2. CASE UNCHANGED accepted
    BY <2>1, <2>2 DEF Started
  <2>3. CASE /\ accepted' = [accepted EXCEPT ![call] = Head(toHost).call]
             /\ pc' \notin {"send", "await"}
    BY <1>0, <2>1, <2>3 DEF Started
  <2>4. QED
    BY <1>3, <2>2, <2>3 DEF AwaitFrame, Return
<1>4. CASE AwaitTimeout \/ Suspect \/ IndicationFails \/ HandOver
  BY <1>4 DEF AwaitTimeout, Suspect, IndicationFails, HandOver, Return, ReturnOrSuspect, Started
<1>5. CASE AnswerIndication
  BY <1>5, Handling DEF Started
<1>6. CASE NodeHandle
  <2>1. UNCHANGED <<pc, call, accepted>> /\ 1 \in DOMAIN toNode
    BY <1>6, Answering, Lines DEF Typed
  <2>2. CASE UNCHANGED executed
    BY <2>1, <2>2 DEF Started
  <2>3. CASE /\ toNode[1].type \in Kinds /\ toNode[1].call \in Calls
             /\ executed' = [executed EXCEPT ![toNode[1].call] = @ + 1]
    <3>1. toNode[1].call <= call
      BY <2>1, <2>3 DEF InFlight
    <3>2. \A c \in Calls : c = toNode[1].call \/ executed'[c] = executed[c]
      BY <1>0, <2>3
    <3>3. \A c \in Calls : executed'[c] > 0 \/ accepted'[c] # 0 => c <= call'
      BY <2>1, <3>1, <3>2 DEF Started
    <3>4. QED
      BY <2>1, <3>3 DEF Started
  <2>4. QED
    BY <1>6, <2>2, <2>3, Answering DEF NodeForgets
<1>7. CASE NodeEmit \/ WatchdogStep \/ LineError \/ Unplug \/ Replug \/ UNCHANGED vars
  BY <1>7, WatchdogKeeps DEF NodeEmit, LineError, Unplug, Replug, Started
<1>8. QED
  BY <1>1, <1>2, <1>3, <1>4, <1>5, <1>6, <1>7 DEF Next, HostStep, NodeStep

(* Two calls with the same frame identifier are the same one, or a full     *)
(* turn of the identifier apart.                                            *)
LEMMA SameFrameId ==
  \A a, b \in Nat : a <= b /\ FrameId(a) = FrameId(b) => a = b \/ b - a >= FrameIdRange
<1> SUFFICES ASSUME NEW a \in Nat, NEW b \in Nat, a < b, FrameId(a) = FrameId(b)
             PROVE  b - a >= FrameIdRange
  BY LinkAssumption
<1> DEFINE R == FrameIdRange
           q == (b \div R) - (a \div R)
<1>1. R \in Nat \ {0}
  BY LinkAssumption
<1>2. /\ a \div R \in Int /\ a = R * (a \div R) + (a % R)
      /\ b \div R \in Int /\ b = R * (b \div R) + (b % R)
  BY <1>1
<1>3. b - a = R * q /\ q \in Int
  BY <1>1, <1>2 DEF FrameId
<1>4. q >= 1
  BY <1>1, <1>3
<1>5. R * q >= R
  BY <1>1, <1>3, <1>4
<1>6. QED
  BY <1>3, <1>5

LEMMA ConfirmStep ==
  Typed /\ InFlight /\ Started /\ ConfirmIsOwn /\ [Next]_vars => ConfirmIsOwn'
<1> SUFFICES ASSUME Typed, InFlight, Started, ConfirmIsOwn, [Next]_vars PROVE ConfirmIsOwn'
  OBVIOUS
<1>0. /\ call \in Nat /\ Calls \subseteq Nat
      /\ executed \in [Calls -> Nat] /\ accepted \in [Calls -> 0 .. MaxCalls]
      /\ call >= 1 => call \in Calls
      /\ \A c \in Calls : accepted[c] # 0 => accepted[c] \in Calls
  <2>1. /\ call \in Nat /\ Calls \subseteq Nat
        /\ executed \in [Calls -> Nat] /\ accepted \in [Calls -> 0 .. MaxCalls]
        /\ call >= 1 => call \in Calls
    BY LinkAssumption DEF Typed, TypeOK, ExchangeTypes, OutcomeTypes, Calls
  <2>2. \A n \in 0 .. MaxCalls : n # 0 => n \in Calls
    BY LinkAssumption DEF Calls
  <2>3. QED
    BY <2>1, <2>2
<1>1. CASE AwaitFrame /\ accepted' # accepted
  <2> DEFINE frame == toHost[1]
  <2>1. /\ frame \in HostFrames /\ frame = Head(toHost)
        /\ accepted' = [accepted EXCEPT ![call] = frame.call]
        /\ frame.type = "confirm" /\ FrameId(frame.call) = FrameId(call)
    BY <1>1, LineTaken DEF AwaitFrame, Matches, Typed
  <2>2. call \in Calls /\ UNCHANGED <<call, executed>>
    BY <1>0, <1>1 DEF AwaitFrame, Typed, Phases
  <2>3. frame.call \in Calls /\ executed[frame.call] > 0
    <3>1. 1 \in DOMAIN toHost
      BY <1>1, Lines, LineTaken DEF AwaitFrame, Typed
    <3>2. QED
      BY <2>1, <3>1, HostFrameKinds DEF InFlight
  <2>4. frame.call = call \/ call - frame.call >= FrameIdRange
    <3>1. frame.call <= call
      BY <2>3 DEF Started
    <3>2. QED
      BY <1>0, <2>1, <2>3, <3>1, SameFrameId
  <2> HIDE DEF frame
  <2>5. ASSUME NEW c \in Calls, accepted'[c] # 0
        PROVE  /\ accepted'[c] = c \/ c - accepted'[c] >= FrameIdRange
               /\ executed'[accepted'[c]] > 0
    <3>1. CASE c = call
      BY <1>0, <2>1, <2>2, <2>3, <2>4, <3>1
    <3>2. CASE c # call
      BY <1>0, <2>1, <2>2, <2>5, <3>2 DEF ConfirmIsOwn
    <3>3. QED
      BY <3>1, <3>2
  <2>6. QED
    BY <2>5 DEF ConfirmIsOwn
<1>2. CASE UNCHANGED accepted
  <2>1. \A c \in Calls : executed[c] > 0 => executed'[c] > 0
    <3>1. CASE UNCHANGED executed
      BY <3>1
    <3>2. CASE NodeHandle
      BY <1>0, <3>2, Answering DEF NodeForgets
    <3>3. QED
      BY <3>1, <3>2, StepKinds, FadingSteps, Sending, Handling, Emitting
  <2>2. QED
    BY <1>0, <1>2, <2>1 DEF ConfirmIsOwn
<1>3. QED
  <2>1. UNCHANGED accepted \/ AwaitFrame
    BY Histories
  <2>2. QED
    BY <1>1, <1>2, <2>1

LEMMA InitFlight == Init => InFlight /\ Started /\ ConfirmIsOwn
<1> SUFFICES ASSUME Init PROVE InFlight /\ Started /\ ConfirmIsOwn
  OBVIOUS
<1>1. DOMAIN toNode = {} /\ DOMAIN toHost = {}
  BY DEF Init
<1>2. \A c \in Calls : executed[c] = 0 /\ accepted[c] = 0
  BY DEF Init
<1>3. pc = "free"
  BY DEF Init
<1>4. QED
  BY <1>1, <1>2, <1>3 DEF InFlight, Started, ConfirmIsOwn

(* A caller is given the confirm of its own request, or one that is a full  *)
(* turn of the 8-bit frame identifier old, and never one of a request the   *)
(* node did not execute: the matching of wait_for_response.                 *)
THEOREM ConfirmsAreOwn == Spec => []ConfirmIsOwn
<1>1. Typed /\ InFlight /\ Started /\ ConfirmIsOwn /\ [Next]_vars
        => (Typed /\ InFlight /\ Started /\ ConfirmIsOwn)'
  BY TypedStep, InFlightStep, StartedStep, ConfirmStep
<1>2. QED
  BY <1>1, InitTypes, InitFlight, PTL DEF Spec

-----------------------------------------------------------------------------
(* A call that is not misled is executed once.                              *)

(* What asks for the call, or denies it, did so before the step.            *)
NoNewPlace(c) ==
  \E d, e \in {0, 1} :
    /\ \A i \in DOMAIN toNode' :
         AsksFor(toNode'[i], c) => i + e \in DOMAIN toNode /\ AsksFor(toNode[i + e], c)
    /\ \A i \in DOMAIN toHost' :
         Denies(toHost'[i], c) => i + d \in DOMAIN toHost /\ Denies(toHost[i + d], c)

LEMMA ShiftedPlaces ==
  ASSUME TypeOK, TypeOK', NEW c
  PROVE  /\ \A d \in {0, 1} : HostShifts(d) =>
              \A i \in DOMAIN toHost' :
                Denies(toHost'[i], c) => i + d \in DOMAIN toHost /\ Denies(toHost[i + d], c)
         /\ \A e \in {0, 1} : NodeShifts(e) =>
              \A i \in DOMAIN toNode' :
                AsksFor(toNode'[i], c) => i + e \in DOMAIN toNode /\ AsksFor(toNode[i + e], c)
<1>1. ASSUME NEW d \in {0, 1}, HostShifts(d), NEW i \in DOMAIN toHost', Denies(toHost'[i], c)
      PROVE  i + d \in DOMAIN toHost /\ Denies(toHost[i + d], c)
  BY <1>1, Shifted, AnsweredFrames DEF Denies
<1>2. ASSUME NEW e \in {0, 1}, NodeShifts(e), NEW i \in DOMAIN toNode', AsksFor(toNode'[i], c)
      PROVE  i + e \in DOMAIN toNode /\ AsksFor(toNode[i + e], c)
  BY <1>2, Shifted DEF AsksFor
<1>3. QED
  BY <1>1, <1>2

LEMMA GainedPlaces ==
  ASSUME TypeOK, TypeOK', NEW c, NEW f
  PROVE  /\ HostGains(f) /\ ~Denies(f, c) =>
              \A i \in DOMAIN toHost' :
                Denies(toHost'[i], c) => i + 0 \in DOMAIN toHost /\ Denies(toHost[i + 0], c)
         /\ NodeGains(f) /\ ~AsksFor(f, c) =>
              \A i \in DOMAIN toNode' :
                AsksFor(toNode'[i], c) => i + 0 \in DOMAIN toNode /\ AsksFor(toNode[i + 0], c)
<1>1. /\ \A i \in DOMAIN toNode' : i + 0 = i
      /\ \A i \in DOMAIN toHost' : i + 0 = i
  BY Lines
<1>2. ASSUME HostGains(f), ~Denies(f, c), NEW i \in DOMAIN toHost', Denies(toHost'[i], c)
      PROVE  i \in DOMAIN toHost /\ Denies(toHost[i], c)
  BY <1>2, Gained
<1>3. ASSUME NodeGains(f), ~AsksFor(f, c), NEW i \in DOMAIN toNode', AsksFor(toNode'[i], c)
      PROVE  i \in DOMAIN toNode /\ AsksFor(toNode[i], c)
  BY <1>3, Gained
<1>4. QED
  BY <1>1, <1>2, <1>3

LEMMA AbsentKept ==
  ASSUME NEW c, NoNewPlace(c), Absent(c)
  PROVE  Absent(c)'
  BY DEF NoNewPlace, Absent

LEMMA OnePlaceKept ==
  ASSUME TypeOK, TypeOK', NEW c \in Calls, NoNewPlace(c), OnePlace(c), executed'[c] = executed[c],
         pc' = "send" /\ call' = c => executed[c] = 0 /\ Absent(c)'
  PROVE  OnePlace(c)'
<1>1. PICK d \in {0, 1}, e \in {0, 1} :
        /\ \A i \in DOMAIN toNode' :
             AsksFor(toNode'[i], c) => i + e \in DOMAIN toNode /\ AsksFor(toNode[i + e], c)
        /\ \A i \in DOMAIN toHost' :
             Denies(toHost'[i], c) => i + d \in DOMAIN toHost /\ Denies(toHost[i + d], c)
  BY DEF NoNewPlace
<1>2. ASSUME NEW i \in DOMAIN toNode', NEW j \in DOMAIN toNode',
             AsksFor(toNode'[i], c), AsksFor(toNode'[j], c)
      PROVE  i = j
  <2>1. i + e = j + e
    BY <1>1, <1>2 DEF OnePlace
  <2>2. QED
    BY <2>1, Lines
<1>3. ASSUME NEW i \in DOMAIN toHost', NEW j \in DOMAIN toHost',
             Denies(toHost'[i], c), Denies(toHost'[j], c)
      PROVE  i = j
  <2>1. i + d = j + d
    BY <1>1, <1>3 DEF OnePlace
  <2>2. QED
    BY <2>1, Lines
<1>4. ASSUME NEW i \in DOMAIN toNode', NEW j \in DOMAIN toHost',
             AsksFor(toNode'[i], c), Denies(toHost'[j], c)
      PROVE  FALSE
  BY <1>1, <1>4 DEF OnePlace
<1>5. executed'[c] <= 1 /\ (executed'[c] > 0 => Absent(c)')
  BY AbsentKept DEF OnePlace
<1>6. QED
  BY <1>2, <1>3, <1>4, <1>5 DEF OnePlace

LEMMA FadesPlaces ==
  ASSUME TypeOK, TypeOK', Fades, NEW c
  PROVE  NoNewPlace(c)
<1>1. PICK d \in {0, 1}, e \in {0, 1} : HostShifts(d) /\ NodeShifts(e)
  BY DEF Fades
<1>2. QED
  BY <1>1, ShiftedPlaces DEF NoNewPlace

LEMMA OneTransmissionStep ==
  Typed /\ Typed' /\ InFlight /\ Started /\ OneTransmission /\ [Next]_vars => OneTransmission'
<1> SUFFICES ASSUME Typed, Typed', InFlight, Started, OneTransmission, [Next]_vars,
                    NEW c \in Calls, c \notin misled'
             PROVE  OnePlace(c)'
  BY DEF OneTransmission
<1>0. /\ TypeOK /\ TypeOK' /\ call \in Nat /\ Calls \subseteq Nat
      /\ executed \in [Calls -> Nat] /\ executed[c] \in Nat
  <2>1. TypeOK /\ TypeOK'
    BY DEF Typed
  <2>2. call \in Nat /\ Calls \subseteq Nat /\ executed \in [Calls -> Nat]
    BY <2>1, Numbers
  <2>3. QED
    BY <2>1, <2>2
<1>1. c \notin misled
  <2>1. misled \subseteq misled'
    BY Histories
  <2>2. QED
    BY <2>1
<1>2. OnePlace(c)
  BY <1>1 DEF OneTransmission
<1>3. CASE FadingStep
  <2>1. NoNewPlace(c) /\ UNCHANGED executed
    BY <1>0, <1>3, FadingSteps, FadesPlaces
  <2>2. pc' = "send" /\ call' = c => executed[c] = 0 /\ Absent(c)'
    <3>1. CASE Begin
      <4>1. call' = call + 1
        BY <3>1 DEF Begin
      <4>2. ASSUME c = call + 1
            PROVE  executed[c] = 0 /\ Absent(c)
        <5>1. executed[c] = 0
          BY <1>0, <4>2 DEF Started
        <5>2. ~(c <= call)
          BY <1>0, <4>2
        <5>3. QED
          BY <5>1, <5>2 DEF Absent, AsksFor, Denies, InFlight
      <4>3. QED
        BY <2>1, <4>1, <4>2, AbsentKept
    <3>2. CASE AwaitCrcError /\ pc' = "send" /\ call = c
      <4>1. /\ toHost # <<>> /\ toHost[1].type = "dummy" /\ toHost[1].call = c
            /\ Consume /\ Readable
        BY <1>0, <3>2, LineTaken DEF AwaitCrcError, RetryOn, Return
      <4>2. 1 \in DOMAIN toHost /\ Denies(toHost[1], c)
        BY <1>0, <4>1, Lines, LineTaken DEF Denies
      <4>3. executed[c] = 0
        BY <1>0, <1>2, <4>2 DEF OnePlace, Absent
      <4>4. \A i \in DOMAIN toNode' : ~AsksFor(toNode'[i], c)
        BY <1>2, <4>1, <4>2 DEF OnePlace, Consume
      <4>5. ASSUME NEW i \in DOMAIN toHost', Denies(toHost'[i], c)
            PROVE  FALSE
        <5>1. HostShifts(1)
          BY <1>0, <4>1, ConsumeShifts
        <5>2. i + 1 \in DOMAIN toHost /\ Denies(toHost[i + 1], c) /\ i \in 1 .. Len(toHost')
          BY <1>0, <4>5, <5>1, ShiftedPlaces, Lines
        <5>3. i + 1 = 1
          BY <1>2, <4>2, <5>2 DEF OnePlace
        <5>4. QED
          BY <5>2, <5>3
      <4>6. QED
        BY <4>3, <4>4, <4>5 DEF Absent
    <3>3. CASE UNCHANGED <<pc, call>>
      BY <1>2, <2>1, <3>3, AbsentKept DEF OnePlace
    <3>4. CASE pc' # "send"
      BY <3>4
    <3>5. QED
      BY <1>3, <3>1, <3>2, <3>3, <3>4, WatchdogKeeps DEF FadingStep, AwaitTimeout, Suspect,
         HandOver, IndicationFails, AwaitCrcError, AwaitFrame, LineError, Unplug, Replug, Return,
         ReturnOrSuspect
  <2>3. QED
    BY <1>0, <1>2, <2>1, <2>2, OnePlaceKept
<1>4. CASE Send
  <2>1. /\ pc = "send" /\ pc' # "send" /\ call \in Calls
        /\ UNCHANGED <<call, toHost, executed>>
        /\ Request(call, kind).type \in Kinds /\ Request(call, kind).call = call
    BY <1>4, Sending
  <2>2. HostShifts(0)
    BY <1>0, <2>1, Still
  <2>3. CASE UNCHANGED toNode \/ (NodeGains(Request(call, kind)) /\ c # call)
    <3>1. NoNewPlace(c)
      <4>1. CASE UNCHANGED toNode
        BY <1>0, <2>2, <4>1, Still, FadesPlaces DEF Fades
      <4>2. CASE NodeGains(Request(call, kind)) /\ c # call
        <5>1. ~AsksFor(Request(call, kind), c)
          BY <2>1, <4>2 DEF AsksFor
        <5>2. QED
          BY <1>0, <2>2, <4>2, <5>1, ShiftedPlaces, GainedPlaces DEF NoNewPlace
      <4>3. QED
        BY <2>3, <4>1, <4>2
    <3>2. QED
      BY <1>0, <1>2, <2>1, <3>1, OnePlaceKept
  <2>4. CASE NodeGains(Request(call, kind)) /\ c = call
    <3>1. executed[c] = 0 /\ Absent(c)
      BY <1>2, <2>1, <2>4 DEF OnePlace
    <3>2. \A i \in DOMAIN toNode' : AsksFor(toNode'[i], c) => i = Len(toNode) + 1
      BY <1>0, <2>4, <3>1, Gained DEF Absent
    <3>3. \A i \in DOMAIN toHost' : ~Denies(toHost'[i], c)
      BY <2>1, <3>1 DEF Absent
    <3>4. executed'[c] = 0
      BY <2>1, <3>1
    <3>5. QED
      BY <2>1, <3>2, <3>3, <3>4 DEF OnePlace
  <2>5. QED
    BY <1>4, <2>3, <2>4, Sending
<1>5. CASE AnswerIndication
  <2> DEFINE ind == IF toHost[1].type = "indication" THEN toHost[1].ind ELSE 0
  <2>1. HostShifts(1) /\ UNCHANGED <<call, executed>> /\ pc' # "send"
    BY <1>5, Handling
  <2>2. NoNewPlace(c)
    <3>1. CASE UNCHANGED toNode
      BY <1>0, <2>1, <3>1, Still, FadesPlaces DEF Fades
    <3>2. ASSUME NEW again \in BOOLEAN, NodeGains(Response(ind, again)),
                 Response(ind, again).type = "response"
          PROVE  NoNewPlace(c)
      <4>1. ~AsksFor(Response(ind, again), c)
        BY <3>2 DEF AsksFor, Kinds
      <4>2. QED
        BY <1>0, <2>1, <3>2, <4>1, ShiftedPlaces, GainedPlaces DEF NoNewPlace
    <3>3. QED
      BY <1>5, <3>1, <3>2, Handling
  <2>3. QED
    BY <1>0, <1>2, <2>1, <2>2, OnePlaceKept
<1>6. CASE NodeHandle
  <2> DEFINE frame == toNode[1]
             pending == acked < MaxInds
             confirm == Confirm(frame.call, frame.type, pending)
  <2>1. NodeShifts(1) /\ UNCHANGED <<pc, call>> /\ 1 \in DOMAIN toNode
    BY <1>0, <1>6, Answering, Lines
  <2>2. CASE UNCHANGED <<toHost, executed>>
    <3>1. NoNewPlace(c)
      BY <1>0, <2>1, <2>2, Still, FadesPlaces DEF Fades
    <3>2. QED
      BY <1>0, <1>2, <2>1, <2>2, <3>1, AbsentKept, OnePlaceKept DEF OnePlace
  <2>3. CASE frame.type \in Kinds /\ frame.call \in Calls /\ HostGains(Dummy(frame.call))
             /\ UNCHANGED executed
    <3>1. Dummy(frame.call).type = "dummy" /\ Dummy(frame.call).call = frame.call
      BY <2>3, AnsweredFrames
    <3>2. CASE frame.call # c
      <4>1. ~Denies(Dummy(frame.call), c)
        BY <3>1, <3>2 DEF Denies
      <4>2. NoNewPlace(c)
        BY <1>0, <2>1, <2>3, <4>1, ShiftedPlaces, GainedPlaces DEF NoNewPlace
      <4>3. QED
        BY <1>0, <1>2, <2>1, <2>3, <4>2, AbsentKept, OnePlaceKept DEF OnePlace
    <3>3. CASE frame.call = c
      <4>1. AsksFor(frame, c)
        BY <2>3, <3>3 DEF AsksFor
      <4>2. executed[c] = 0 /\ ~(pc = "send" /\ call = c)
        BY <1>0, <1>2, <2>1, <4>1 DEF OnePlace, Absent
      <4>3. ASSUME NEW i \in DOMAIN toNode', AsksFor(toNode'[i], c)
            PROVE  FALSE
        <5>1. i + 1 \in DOMAIN toNode /\ AsksFor(toNode[i + 1], c) /\ i \in 1 .. Len(toNode')
          BY <1>0, <2>1, <4>3, ShiftedPlaces, Lines
        <5>2. i + 1 = 1
          BY <1>2, <2>1, <4>1, <5>1 DEF OnePlace
        <5>3. QED
          BY <5>1, <5>2
      <4>4. \A i \in DOMAIN toHost' : Denies(toHost'[i], c) => i = Len(toHost) + 1
        <5>1. \A i \in DOMAIN toHost : ~Denies(toHost[i], c)
          BY <1>2, <2>1, <4>1 DEF OnePlace
        <5>2. QED
          BY <1>0, <2>3, <5>1, Gained
      <4>5. executed'[c] = 0 /\ ~(pc' = "send" /\ call' = c)
        BY <2>1, <2>3, <4>2
      <4>6. QED
        BY <4>3, <4>4, <4>5 DEF OnePlace
    <3>4. QED
      BY <3>2, <3>3
  <2>4. CASE /\ frame.type \in Kinds /\ frame.call \in Calls
             /\ executed' = [executed EXCEPT ![frame.call] = @ + 1]
             /\ HostGains(confirm)
    <3>1. confirm.type = "confirm"
      <4>1. pending \in BOOLEAN
        OBVIOUS
      <4> HIDE DEF pending
      <4>2. QED
        BY <2>4, <4>1, AnsweredFrames
    <3>2. ~Denies(confirm, c)
      BY <3>1 DEF Denies
    <3> HIDE DEF confirm
    <3>3. NoNewPlace(c)
      BY <1>0, <2>1, <2>4, <3>2, ShiftedPlaces, GainedPlaces DEF NoNewPlace
    <3>4. CASE frame.call # c
      <4>1. executed'[c] = executed[c]
        BY <1>0, <2>4, <3>4
      <4>2. QED
        BY <1>0, <1>2, <2>1, <3>3, <4>1, AbsentKept, OnePlaceKept DEF OnePlace
    <3>5. CASE frame.call = c
      <4>1. AsksFor(frame, c)
        BY <2>4, <3>5 DEF AsksFor
      <4>2. executed[c] = 0 /\ ~(pc = "send" /\ call = c)
        BY <1>0, <1>2, <2>1, <4>1 DEF OnePlace, Absent
      <4>3. ASSUME NEW i \in DOMAIN toNode', AsksFor(toNode'[i], c)
            PROVE  FALSE
        <5>1. i + 1 \in DOMAIN toNode /\ AsksFor(toNode[i + 1], c) /\ i \in 1 .. Len(toNode')
          BY <1>0, <2>1, <4>3, ShiftedPlaces, Lines
        <5>2. i + 1 = 1
          BY <1>2, <2>1, <4>1, <5>1 DEF OnePlace
        <5>3. QED
          BY <5>1, <5>2
      <4>4. \A i \in DOMAIN toHost' : ~Denies(toHost'[i], c)
        <5>1. \A i \in DOMAIN toHost : ~Denies(toHost[i], c)
          BY <1>2, <2>1, <4>1 DEF OnePlace
        <5>2. QED
          BY <1>0, <2>4, <3>2, <5>1, Gained
      <4>5. executed'[c] = 1 /\ ~(pc' = "send" /\ call' = c)
        BY <1>0, <2>1, <2>4, <3>5, <4>2
      <4>6. QED
        BY <4>3, <4>4, <4>5 DEF OnePlace, Absent
    <3>6. QED
      BY <3>4, <3>5
  <2>5. QED
    BY <1>6, <2>2, <2>3, <2>4, Answering DEF NodeForgets
<1>7. CASE NodeEmit
  <2>1. /\ HostGains(Indication(acked + 1)) /\ Indication(acked + 1).type = "indication"
        /\ UNCHANGED <<pc, call, toNode, executed>>
    BY <1>7, Emitting
  <2>2. ~Denies(Indication(acked + 1), c)
    BY <2>1 DEF Denies
  <2>3. NoNewPlace(c)
    <3>1. NodeShifts(0)
      BY <1>0, <2>1, Still
    <3>2. QED
      BY <1>0, <2>1, <2>2, <3>1, ShiftedPlaces, GainedPlaces DEF NoNewPlace
  <2>4. QED
    BY <1>0, <1>2, <2>1, <2>3, AbsentKept, OnePlaceKept DEF OnePlace
<1>8. QED
  BY <1>3, <1>4, <1>5, <1>6, <1>7, StepKinds

(* The node executes a call twice only if it was resent for a dummy confirm *)
(* of another call, whatever the line loses: send_request_locked resends    *)
(* only what it was told did not arrive.                                    *)
THEOREM ExecutedTwiceOnlyWhenMisled == Spec => []TwiceOnlyWhenMisled
<1>1. Init => OneTransmission
  <2> SUFFICES ASSUME Init, NEW c \in Calls PROVE OnePlace(c)
    BY DEF OneTransmission
  <2>1. DOMAIN toNode = {} /\ DOMAIN toHost = {} /\ pc = "free" /\ executed[c] = 0
    BY DEF Init
  <2>2. QED
    BY <2>1 DEF OnePlace, Absent
<1>2. Typed /\ InFlight /\ Started /\ OneTransmission /\ [Next]_vars
        => (Typed /\ InFlight /\ Started /\ OneTransmission)'
  BY TypedStep, InFlightStep, StartedStep, OneTransmissionStep
<1>3. Typed /\ OneTransmission => TwiceOnlyWhenMisled
  BY DEF OneTransmission, OnePlace, TwiceOnlyWhenMisled, Typed, TypeOK, OutcomeTypes
<1>4. QED
  BY <1>1, <1>2, <1>3, InitTypes, InitFlight, PTL DEF Spec

-----------------------------------------------------------------------------
(* What the node forgets was handed over.                                   *)

AmongHanded(frame, handed) == \E j \in DOMAIN handed : handed[j] = frame

LEMMA HandedGrows ==
  ASSUME Typed, Typed', [Next]_vars
  PROVE  /\ Len(Seen) \in Nat /\ DOMAIN Seen = 1 .. Len(Seen)
         /\ \/ UNCHANGED Seen
            \/ /\ AnswerIndication
               /\ DOMAIN Seen' = 1 .. Len(Seen) + 1
               /\ Len(Seen') = Len(Seen) + 1
               /\ Seen'[Len(Seen) + 1] = toHost[1]
               /\ \A i \in DOMAIN Seen : Seen'[i] = Seen[i]
<1>1. Seen \in Seq(Confirms \union Indications)
  BY SeenTypes
<1>2. CASE AnswerIndication
  <2>1. toHost[1] \in Confirms \union Indications /\ Seen' = Append(Seen, toHost[1])
    BY <1>2, Handling
  <2>2. QED
    BY <1>1, <1>2, <2>1, Added
<1>3. CASE ~AnswerIndication
  <2>1. UNCHANGED Seen
    BY <1>3, StepKinds, FadingSteps, Sending, Answering, Emitting
  <2>2. QED
    BY <1>1, <2>1
<1>4. QED
  BY <1>2, <1>3

ForgottenIsSeen == \A n \in 1 .. acked : AmongHanded(Indication(n), Seen)

LEMMA HandedStep ==
  Typed /\ Typed' /\ AnswersAreForHanded /\ ForgottenIsSeen /\ [Next]_vars
    => AnswersAreForHanded' /\ ForgottenIsSeen'
<1> SUFFICES ASSUME Typed, Typed', AnswersAreForHanded, ForgottenIsSeen, [Next]_vars
             PROVE  AnswersAreForHanded' /\ ForgottenIsSeen'
  OBVIOUS
<1>0. TypeOK /\ TypeOK'
  BY DEF Typed
<1>1. \A f : AmongHanded(f, Seen) => AmongHanded(f, Seen')
  BY HandedGrows DEF AmongHanded
<1>2. /\ \A i \in DOMAIN toNode :
           toNode[i].type = "response" /\ toNode[i].ind > 0 => AmongHanded(Indication(toNode[i].ind), Seen')
      /\ \A n \in 1 .. acked : AmongHanded(Indication(n), Seen')
  BY <1>1 DEF AnswersAreForHanded, ForgottenIsSeen, AmongHanded
<1>3. ASSUME NEW e \in {0, 1}, NodeShifts(e)
      PROVE  AnswersAreForHanded'
  <2>1. ASSUME NEW i \in DOMAIN toNode', toNode'[i].type = "response", toNode'[i].ind > 0
        PROVE  AmongHanded(Indication(toNode'[i].ind), Seen')
    <3>1. /\ i + e \in DOMAIN toNode /\ toNode[i + e].type = "response"
          /\ toNode'[i].ind = toNode[i + e].ind
      BY <1>0, <1>3, <2>1, Shifted
    <3>2. QED
      BY <1>2, <2>1, <3>1
  <2>2. QED
    BY <2>1 DEF AnswersAreForHanded, AmongHanded
<1>4. CASE UNCHANGED acked
  <2>1. ForgottenIsSeen'
    BY <1>2, <1>4 DEF ForgottenIsSeen, AmongHanded
  <2>2. CASE FadingStep
    BY <1>3, <2>1, <2>2, FadingSteps DEF Fades
  <2>3. CASE Send
    <3>1. CASE UNCHANGED toNode
      BY <1>0, <1>3, <2>1, <3>1, Still
    <3>2. CASE NodeGains(Request(call, kind))
      <4>1. Request(call, kind).type # "response"
        BY <2>3, Sending DEF Kinds
      <4>2. \A i \in DOMAIN toNode' : toNode'[i].type = "response" =>
              i \in DOMAIN toNode /\ toNode'[i] = toNode[i]
        BY <1>0, <3>2, <4>1, Gained
      <4>3. QED
        BY <1>2, <2>1, <4>2 DEF AnswersAreForHanded, AmongHanded
    <3>3. QED
      BY <2>3, <3>1, <3>2, Sending
  <2>4. CASE AnswerIndication
    <3> DEFINE ind == IF toHost[1].type = "indication" THEN toHost[1].ind ELSE 0
    <3>1. CASE UNCHANGED toNode
      BY <1>0, <1>3, <2>1, <3>1, Still
    <3>2. ASSUME NEW again \in BOOLEAN, NodeGains(Response(ind, again)),
                 Response(ind, again).ind = ind
          PROVE  AnswersAreForHanded'
      <4>1. ind > 0 => AmongHanded(Indication(ind), Seen')
        <5>1. ind > 0 => toHost[1] = Indication(ind)
          <6>1. toHost[1] \in HostFrames
            BY <2>4, Handling DEF HostFrames
          <6>2. QED
            BY <6>1, HostFrameKinds
        <5>2. Len(Seen) + 1 \in DOMAIN Seen' /\ Seen'[Len(Seen) + 1] = toHost[1]
          <6>1. Seen' = Append(Seen, toHost[1]) /\ toHost[1] \in Confirms \union Indications
            BY <2>4, Handling
          <6>2. Seen \in Seq(Confirms \union Indications)
            BY SeenTypes
          <6>3. QED
            BY <6>1, <6>2, Added
        <5>3. QED
          BY <5>1, <5>2 DEF AmongHanded
      <4> HIDE DEF ind
      <4>2. ASSUME NEW i \in DOMAIN toNode', toNode'[i].type = "response", toNode'[i].ind > 0
            PROVE  AmongHanded(Indication(toNode'[i].ind), Seen')
        <5>1. CASE i \in DOMAIN toNode /\ toNode'[i] = toNode[i]
          BY <1>2, <4>2, <5>1
        <5>2. CASE toNode'[i] = Response(ind, again)
          BY <3>2, <4>1, <4>2, <5>2
        <5>3. QED
          BY <1>0, <3>2, <5>1, <5>2, Gained
      <4>3. QED
        BY <4>2 DEF AnswersAreForHanded, AmongHanded
    <3>3. QED
      BY <2>1, <2>4, <3>1, <3>2, Handling
  <2>5. CASE NodeHandle
    BY <1>3, <2>1, <2>5, Answering
  <2>6. CASE NodeEmit
    BY <1>0, <1>3, <2>1, <2>6, Still, Emitting
  <2>7. QED
    BY <2>2, <2>3, <2>4, <2>5, <2>6, StepKinds
<1>5. CASE ~UNCHANGED acked
  <2>1. NodeHandle
    BY <1>5, StepKinds, FadingSteps, Sending, Handling, Emitting
  <2>2. /\ toNode # <<>> /\ toNode[1].type = "response" /\ NodeShifts(1)
        /\ acked' = toNode[1].ind /\ toNode[1].ind = acked + 1
    BY <1>5, <2>1, Answering DEF NodeForgets
  <2>3. 1 \in DOMAIN toNode /\ acked \in Nat
    BY <1>0, <2>2, Lines, LinkAssumption DEF TypeOK, LineTypes
  <2>4. AmongHanded(Indication(acked'), Seen')
    BY <1>2, <2>2, <2>3
  <2>5. \A n \in 1 .. acked' : n \in 1 .. acked \/ n = acked'
    BY <2>2, <2>3
  <2>6. QED
    BY <1>2, <1>3, <2>2, <2>4, <2>5 DEF ForgottenIsSeen, AmongHanded
<1>6. QED
  BY <1>4, <1>5

(* The node forgets an indication only when it was handed over, or is in    *)
(* hand to be handed over next: each answer that handle_indication writes   *)
(* is for the frame it passes on.                                           *)
THEOREM ForgottenIsNotLost == Spec => []ForgottenIsKept
<1>1. Init => AnswersAreForHanded /\ ForgottenIsSeen
  <2> SUFFICES ASSUME Init PROVE AnswersAreForHanded /\ ForgottenIsSeen
    OBVIOUS
  <2>1. DOMAIN toNode = {} /\ acked = 0
    BY DEF Init
  <2>2. QED
    BY <2>1 DEF AnswersAreForHanded, ForgottenIsSeen
<1>2. Typed /\ AnswersAreForHanded /\ ForgottenIsSeen /\ [Next]_vars
        => (Typed /\ AnswersAreForHanded /\ ForgottenIsSeen)'
  BY TypedStep, HandedStep
<1>3. Typed /\ ForgottenIsSeen => ForgottenIsKept
  <2> SUFFICES ASSUME Typed, NEW n \in 1 .. acked, AmongHanded(Indication(n), Seen)
               PROVE  \/ pc = "hand" /\ hand = Indication(n)
                      \/ \E i \in DOMAIN delivered : delivered[i] = Indication(n)
    BY DEF ForgottenIsSeen, ForgottenIsKept
  <2>1. CASE pc = "hand"
    <3>1. PICK j \in DOMAIN Append(delivered, hand) : Append(delivered, hand)[j] = Indication(n)
      BY <2>1 DEF AmongHanded, Seen
    <3>2. delivered \in Seq(Confirms \union Indications) /\ hand \in Confirms \union Indications
      BY <2>1 DEF Typed, Phases, TypeOK, ExchangeTypes, OutcomeTypes
    <3>3. j \in DOMAIN delivered \/ j = Len(delivered) + 1
      BY <3>1, <3>2, Added
    <3>4. QED
      BY <2>1, <3>1, <3>2, <3>3, Added
  <2>2. CASE pc # "hand"
    BY <2>2 DEF AmongHanded, Seen
  <2>3. QED
    BY <2>1, <2>2
<1>4. QED
  BY <1>1, <1>2, <1>3, InitTypes, PTL DEF Spec

-----------------------------------------------------------------------------
(* Indications are handed over in their order.                              *)

LEMMA CleanBackwards ==
  Typed /\ Started /\ [Next]_vars /\ Clean' => Clean
<1> SUFFICES ASSUME Typed, Started, [Next]_vars, Clean' PROVE Clean
  OBVIOUS
<1>1. misled \subseteq misled'
  BY Histories
<1>2. CASE AwaitFrame
  <2>1. accepted[call] = 0
    BY <1>2 DEF AwaitFrame, Started
  <2>2. accepted \in [Calls -> 0 .. MaxCalls]
    BY DEF Typed, TypeOK, OutcomeTypes
  <2>3. \A c \in Calls : c = call \/ accepted'[c] = accepted[c]
    BY <1>2, <2>2 DEF AwaitFrame
  <2>4. QED
    BY <1>1, <2>1, <2>3 DEF Clean
<1>3. CASE ~AwaitFrame
  <2>1. UNCHANGED accepted
    BY <1>3, Histories
  <2>2. QED
    BY <1>1, <2>1 DEF Clean
<1>4. QED
  BY <1>2, <1>3

Ordered == NodeFollows /\ NothingBehind /\ OneByOne /\ HandedInOrder

(* Damage, loss and waiting keep the order. *)
LEMMA OrderFades ==
  ASSUME Typed, TypeOK', Ordered, UNCHANGED <<acked, Seen>>, emitting' => emitting,
         NEW d \in {0, 1}, NEW e \in {0, 1}, HostShifts(d), NodeShifts(e)
  PROVE  /\ NodeFollows' /\ HandedInOrder'
         /\ pc = "await" /\ call' = call => NothingBehind'
         /\ Reading => OneByOne'
<1>0. TypeOK /\ TypeOK' /\ Owed \in {0, 1} /\ Owed' \in {0, 1} /\ Owed' <= Owed
  BY DEF Typed, Owed
<1>1. /\ Len(toHost) \in Nat /\ Len(toHost') \in Nat /\ Len(toHost') + d <= Len(toHost)
      /\ Len(toNode) \in Nat /\ Len(toNode') \in Nat /\ Len(toNode') + e <= Len(toNode)
  BY <1>0, Lines DEF HostShifts, NodeShifts
<1>2. NodeFollows' /\ HandedInOrder'
  <2>1. LastHanded' = LastHanded
    BY DEF LastHanded
  <2>2. \A i \in DOMAIN toNode' : toNode'[i].type = "response" => toNode'[i].ind = LastHanded
    BY <1>0, Shifted DEF Ordered, NodeFollows
  <2>3. QED
    BY <2>1, <2>2 DEF Ordered, NodeFollows, HandedInOrder
<1>3. ASSUME pc = "await", call' = call
      PROVE  NothingBehind'
  <2>1. ASSUME NEW i \in DOMAIN toNode', AsksFor(toNode'[i], call)
        PROVE  i = Len(toNode')
    <3>1. i + e \in DOMAIN toNode /\ AsksFor(toNode[i + e], call) /\ i \in 1 .. Len(toNode')
      BY <1>0, <2>1, ShiftedPlaces, Lines
    <3>2. i + e = Len(toNode)
      BY <1>3, <3>1 DEF Ordered, NothingBehind
    <3>3. QED
      BY <1>1, <3>1, <3>2
  <2>2. ASSUME NEW i \in DOMAIN toHost', toHost'[i].type = "confirm", toHost'[i].call = call
        PROVE  /\ Len(toNode') = 0
               /\ Len(toHost') + Owed' <= i + 1
               /\ \A j \in i + 1 .. Len(toHost') : toHost'[j] \in {Damaged, Indication(acked + 1)}
    <3>1. /\ i \in Nat /\ i + d \in DOMAIN toHost /\ i \in 1 .. Len(toHost')
          /\ toHost[i + d].type = "confirm" /\ toHost[i + d].call = call
      BY <1>0, <2>2, Shifted, AnsweredFrames, Lines
    <3>2. /\ Len(toNode) = 0 /\ Len(toHost) + Owed <= (i + d) + 1
          /\ \A j \in (i + d) + 1 .. Len(toHost) : toHost[j] \in {Damaged, Indication(acked + 1)}
      BY <1>3, <3>1 DEF Ordered, NothingBehind
    <3>3. Len(toNode') = 0 /\ Len(toHost') + Owed' <= i + 1
      BY <1>0, <1>1, <3>1, <3>2
    <3>4. ASSUME NEW j \in i + 1 .. Len(toHost')
          PROVE  toHost'[j] \in {Damaged, Indication(acked + 1)}
      <4>1. j \in DOMAIN toHost' /\ j + d \in (i + d) + 1 .. Len(toHost)
        BY <1>0, <1>1, <3>1, Lines
      <4>2. QED
        BY <1>0, <3>2, <4>1, Shifted
    <3>5. QED
      BY <3>3, <3>4
  <2>3. QED
    BY <1>3, <2>1, <2>2 DEF NothingBehind
<1>4. ASSUME Reading
      PROVE  OneByOne'
  <2>1. /\ \A i \in DOMAIN toNode : toNode[i].type = "response"
        /\ Len(toNode) + Len(toHost) + Owed <= 1
        /\ \A i \in DOMAIN toHost : toHost[i] \in {Damaged, Indication(acked + 1)}
    BY <1>4 DEF Ordered, OneByOne
  <2>2. \A i \in DOMAIN toNode' : toNode'[i].type = "response"
    BY <1>0, <2>1, Shifted
  <2>3. Len(toNode') + Len(toHost') + Owed' <= 1
    BY <1>0, <1>1, <2>1
  <2>4. \A i \in DOMAIN toHost' : toHost'[i] \in {Damaged, Indication(acked + 1)}
    BY <1>0, <2>1, Shifted
  <2>5. QED
    BY <2>2, <2>3, <2>4 DEF OneByOne
<1>5. QED
  BY <1>2, <1>3, <1>4

LEMMA OrderFadingStep ==
  ASSUME Typed, Typed', Started, Ordered, Clean', FadingStep
  PROVE  Ordered'
<1>0. TypeOK /\ TypeOK'
  BY DEF Typed
<1>1. /\ Fades /\ UNCHANGED <<acked, Seen>> /\ (emitting' => emitting)
  BY FadingSteps
<1>2. PICK d \in {0, 1}, e \in {0, 1} : HostShifts(d) /\ NodeShifts(e)
  BY <1>1 DEF Fades
<1>3. /\ NodeFollows' /\ HandedInOrder'
      /\ pc = "await" /\ call' = call => NothingBehind'
      /\ Reading => OneByOne'
  BY <1>0, <1>1, <1>2, OrderFades
<1>4. pc' = "await" => pc = "await" /\ call' = call
  BY WatchdogKeeps DEF FadingStep, Begin, AwaitTimeout, Suspect, HandOver, IndicationFails,
     AwaitCrcError, AwaitFrame, LineError, Unplug, Replug, Return, ReturnOrSuspect
<1>5. NothingBehind'
  BY <1>3, <1>4 DEF NothingBehind
<1>6. CASE AwaitFrame /\ pc' = "indication"
  <2> DEFINE frame == toHost[1]
  <2>1. /\ pc = "await" /\ call \in Calls /\ frame = Head(toHost) /\ frame \in HostFrames
        /\ 1 \in DOMAIN toHost /\ frame.type = "confirm"
        /\ accepted' = [accepted EXCEPT ![call] = frame.call]
        /\ Consume /\ Readable /\ UNCHANGED <<emitting, acked, toNode>>
    <3>1. pc = "await" /\ call \in Calls /\ Consume /\ Readable
          /\ UNCHANGED <<emitting, acked, toNode>>
      BY <1>0, <1>6, Numbers DEF AwaitFrame, Consume, Typed, Phases
    <3>2. frame = Head(toHost) /\ frame \in HostFrames /\ 1 \in DOMAIN toHost
      BY <1>0, <3>1, LineTaken, Lines
    <3>3. frame.type = "confirm" /\ accepted' = [accepted EXCEPT ![call] = frame.call]
      BY <1>6, <3>1, <3>2 DEF AwaitFrame, Matches, Return
    <3>4. QED
      BY <3>1, <3>2, <3>3
  <2>2. frame.call = call
    <3>1. frame.call \in Calls /\ frame.call # 0
      BY <2>1, HostFrameKinds DEF Calls
    <3>2. accepted'[call] = frame.call
      BY <1>0, <2>1 DEF TypeOK, OutcomeTypes
    <3>3. QED
      BY <2>1, <3>1, <3>2 DEF Clean
  <2>3. /\ Len(toNode) = 0 /\ Len(toHost) + Owed <= 2
        /\ \A j \in 2 .. Len(toHost) : toHost[j] \in {Damaged, Indication(acked + 1)}
    BY <2>1, <2>2 DEF Ordered, NothingBehind
  <2>4. Len(toHost') = Len(toHost) - 1 /\ Len(toHost) \in Nat
        /\ \A i \in 1 .. Len(toHost') : toHost'[i] = toHost[i + 1]
    BY <1>0, <2>1, LineTaken DEF Consume
  <2>5. Owed' = Owed /\ Owed \in {0, 1}
    BY <2>1 DEF Owed
  <2>6. \A i \in DOMAIN toNode' : toNode'[i].type = "response"
    BY <1>0, <2>1, <2>3, Lines
  <2>7. Len(toNode') + Len(toHost') + Owed' <= 1
    BY <2>1, <2>3, <2>4, <2>5
  <2>8. \A i \in DOMAIN toHost' : toHost'[i] \in {Damaged, Indication(acked' + 1)}
    <3>1. \A i \in DOMAIN toHost' : i \in 1 .. Len(toHost') /\ i + 1 \in 2 .. Len(toHost)
      BY <1>0, <2>4, Lines
    <3>2. QED
      BY <2>1, <2>3, <2>4, <3>1
  <2>9. OneByOne'
    BY <2>6, <2>7, <2>8 DEF OneByOne
  <2>10. QED
    BY <1>3, <1>5, <2>9 DEF Ordered
<1>7. CASE ~Reading' \/ Reading
  <2>1. OneByOne'
    BY <1>3, <1>7 DEF OneByOne
  <2>2. QED
    BY <1>3, <1>5, <2>1 DEF Ordered
<1>8. CASE AwaitFrame
  <2>1. pc' \in {"indication", "free", "await"}
    BY <1>8 DEF AwaitFrame, Return
  <2>2. QED
    BY <1>6, <1>7, <1>8, <2>1 DEF Reading
<1>9. CASE Begin \/ AwaitTimeout \/ Suspect \/ IndicationFails \/ AwaitCrcError
  <2>1. pc' \notin {"indication", "hand"}
    BY <1>9 DEF Begin, AwaitTimeout, Suspect, IndicationFails, AwaitCrcError, Return,
       ReturnOrSuspect
  <2>2. QED
    BY <1>7, <2>1 DEF Reading
<1>10. CASE HandOver \/ WatchdogStep \/ LineError \/ Unplug \/ Replug \/ UNCHANGED vars
  <2>1. pc = "hand" \/ UNCHANGED pc
    BY <1>10, WatchdogKeeps DEF HandOver, LineError, Unplug, Replug
  <2>2. QED
    BY <1>7, <2>1 DEF Reading
<1>11. QED
  BY <1>8, <1>9, <1>10 DEF FadingStep

LEMMA OrderSend ==
  ASSUME Typed, Typed', InFlight, OneTransmission, Ordered, Clean, Send
  PROVE  Ordered'
<1>0. TypeOK /\ TypeOK'
  BY DEF Typed
<1>1. /\ pc = "send" /\ call \in Calls /\ kind \in Kinds /\ ~Reading'
      /\ UNCHANGED <<call, toHost, node, Seen>>
      /\ Request(call, kind).type \in Kinds /\ Request(call, kind).call = call
  BY Sending DEF Reading
<1>2. OneByOne'
  BY <1>1 DEF OneByOne
<1>3. CASE pc' = "await" /\ NodeGains(Request(call, kind))
  <2>1. executed[call] = 0 /\ Absent(call)
    BY <1>1 DEF OneTransmission, OnePlace, Clean
  <2>2. Request(call, kind).type # "response"
    BY <1>1 DEF Kinds
  <2>3. \A i \in DOMAIN toNode' :
          \/ i \in DOMAIN toNode /\ toNode'[i] = toNode[i]
          \/ i = Len(toNode') /\ toNode'[i] = Request(call, kind)
    <3>1. Len(toNode') = Len(toNode) + 1
      BY <1>3 DEF NodeGains
    <3>2. QED
      BY <1>0, <1>3, <3>1, Gained
  <2>4. NodeFollows'
    <3>1. LastHanded' = LastHanded
      BY <1>1 DEF LastHanded
    <3>2. QED
      BY <1>1, <2>2, <2>3, <3>1 DEF Ordered, NodeFollows
  <2>5. NothingBehind'
    <3>1. \A i \in DOMAIN toNode' : AsksFor(toNode'[i], call) => i = Len(toNode')
      BY <2>1, <2>3 DEF Absent
    <3>2. \A i \in DOMAIN toHost' : ~(toHost'[i].type = "confirm" /\ toHost'[i].call = call)
      BY <1>0, <1>1, <2>1 DEF InFlight
    <3>3. QED
      BY <1>1, <3>1, <3>2 DEF NothingBehind
  <2>6. HandedInOrder'
    BY <1>1 DEF Ordered, HandedInOrder
  <2>7. QED
    BY <1>2, <2>4, <2>5, <2>6 DEF Ordered
<1>4. CASE pc' \in {"free", "suspect"} /\ UNCHANGED toNode
  <2>1. NodeFollows' /\ HandedInOrder'
    BY <1>1, <1>4 DEF Ordered, NodeFollows, HandedInOrder, LastHanded
  <2>2. NothingBehind'
    BY <1>4 DEF NothingBehind
  <2>3. QED
    BY <1>2, <2>1, <2>2 DEF Ordered
<1>5. QED
  BY <1>3, <1>4, Sending

LEMMA OneLeft ==
  \A a, b, o \in Nat : b # 0 /\ a + b + o <= 1 => a = 0 /\ b = 1 /\ o = 0
  OBVIOUS

LEMMA OrderHandle ==
  ASSUME Typed, Typed', Ordered, [Next]_vars, AnswerIndication
  PROVE  Ordered'
<1> DEFINE ind == IF toHost[1].type = "indication" THEN toHost[1].ind ELSE 0
           last == Len(Seen) + 1
<1>0. TypeOK /\ TypeOK' /\ Owed \in {0, 1} /\ acked \in Nat
  BY LinkAssumption DEF Typed, TypeOK, LineTypes, Owed
<1>1. /\ Reading /\ pc' = "hand"
      /\ toHost # <<>> /\ toHost[1] \in Confirms \union Indications
      /\ HostShifts(1) /\ UNCHANGED <<call, node>>
      /\ Seen' = Append(Seen, toHost[1])
  BY Handling DEF Reading
<1>2. Len(toNode) = 0 /\ Len(toHost) = 1 /\ Owed = 0 /\ 1 \in DOMAIN toHost
  <2>1. Len(toHost) \in Nat \ {0} /\ Len(toNode) \in Nat /\ 1 \in DOMAIN toHost
    BY <1>0, <1>1, Lines
  <2>2. Len(toNode) + Len(toHost) + Owed <= 1
    BY <1>1 DEF Ordered, OneByOne
  <2>3. Owed \in Nat /\ Len(toHost) # 0
    BY <1>0, <2>1
  <2>4. QED
    BY <2>1, <2>2, <2>3, OneLeft
<1>3. toHost[1].type = "indication" /\ ind = acked + 1
  <2>1. toHost[1] \in {Damaged, Indication(acked + 1)}
    BY <1>1, <1>2 DEF Ordered, OneByOne
  <2>2. toHost[1].type \in {"confirm", "indication"}
    BY <1>1, HostFrameKinds DEF Confirms, Indications, Indication
  <2>3. toHost[1] = Indication(acked + 1)
    BY <2>1, <2>2, AnsweredFrames
  <2>4. toHost[1].type = "indication" /\ toHost[1].ind = acked + 1
    BY <2>3 DEF Indication
  <2>5. QED
    BY <2>4
<1>4. Len(toHost') = 0
  BY <1>0, <1>1, <1>2, Lines DEF HostShifts
<1>5. UNCHANGED <<acked, emitting>>
  BY <1>1
<1>6. /\ Len(Seen) \in Nat /\ DOMAIN Seen = 1 .. Len(Seen)
      /\ Len(Seen') = last /\ DOMAIN Seen' = 1 .. last
      /\ Seen'[last] = toHost[1]
      /\ \A i \in DOMAIN Seen : Seen'[i] = Seen[i]
  <2>1. Seen \in Seq(Confirms \union Indications)
    BY SeenTypes
  <2>2. QED
    BY <1>1, <2>1, Added
<1>7. LastHanded' = ind
  <2>1. Seen' # <<>>
    BY <1>6
  <2>2. QED
    BY <1>3, <1>6, <2>1 DEF LastHanded
<1>8. HandedInOrder' /\ \A i \in DOMAIN Seen' : Seen'[i].type = "indication"
  <2>1. ASSUME NEW i \in DOMAIN Seen'
        PROVE  /\ Seen'[i].type = "indication"
               /\ Seen'[i].ind - (IF i = 1 THEN 0 ELSE Seen'[i - 1].ind) \in {0, 1}
    <3>1. CASE i \in DOMAIN Seen
      <4>1. i = 1 \/ i - 1 \in DOMAIN Seen
        BY <1>6, <3>1
      <4>2. QED
        BY <1>6, <3>1, <4>1 DEF Ordered, NodeFollows, HandedInOrder
    <3>2. CASE i = last
      <4>1. Seen'[i].type = "indication" /\ Seen'[i].ind = acked + 1
        BY <1>3, <1>6, <3>2
      <4>2. LastHanded = IF i = 1 THEN 0 ELSE Seen'[i - 1].ind
        <5>1. CASE Seen = <<>>
          BY <1>6, <3>2, <5>1 DEF LastHanded
        <5>2. CASE Seen # <<>>
          <6>1. Len(Seen) # 0 /\ i - 1 = Len(Seen) /\ Len(Seen) \in DOMAIN Seen
            <7>1. Seen \in Seq(Confirms \union Indications)
              BY SeenTypes
            <7>2. QED
              BY <1>6, <3>2, <5>2, <7>1
          <6>2. QED
            BY <1>6, <3>2, <5>2, <6>1 DEF LastHanded
        <5>3. QED
          BY <5>1, <5>2
      <4>3. LastHanded - acked \in {0, 1} /\ LastHanded \in Int
        <5>1. LastHanded - acked \in {0, 1}
          BY DEF Ordered, NodeFollows
        <5>2. LastHanded \in Int
          <6>1. CASE Seen = <<>>
            BY <6>1 DEF LastHanded
          <6>2. CASE Seen # <<>>
            <7>1. Seen \in Seq(Confirms \union Indications) /\ Len(Seen) \in DOMAIN Seen
              BY <1>6, <6>2, SeenTypes
            <7>2. Seen[Len(Seen)] \in HostFrames
              BY <7>1 DEF HostFrames
            <7>3. Seen[Len(Seen)].type = "indication"
              BY <7>1 DEF Ordered, NodeFollows
            <7>4. QED
              BY <6>2, <7>2, <7>3, HostFrameKinds, LinkAssumption DEF LastHanded
          <6>3. QED
            BY <6>1, <6>2
        <5>3. QED
          BY <5>1, <5>2
      <4>4. (acked + 1) - LastHanded \in {0, 1}
        BY <1>0, <4>3
      <4>5. QED
        BY <4>1, <4>2, <4>4
    <3>3. QED
      BY <1>6, <3>1, <3>2
  <2>2. QED
    BY <2>1 DEF HandedInOrder
<1>9. /\ \A i \in DOMAIN toNode' : toNode'[i].type = "response" /\ toNode'[i].ind = ind
      /\ Len(toNode') \in {0, 1}
  <2>1. CASE UNCHANGED toNode
    BY <1>0, <1>2, <2>1, Lines
  <2>2. ASSUME NEW again \in BOOLEAN, NodeGains(Response(ind, again)),
               Response(ind, again).type = "response", Response(ind, again).ind = ind
        PROVE  <1>9!:
    <3> HIDE DEF ind
    <3>1. DOMAIN toNode = {}
      BY <1>0, <1>2, Lines
    <3>2. QED
      BY <1>0, <1>2, <2>2, <3>1, Gained DEF NodeGains
  <2>3. QED
    BY <2>1, <2>2, Handling
<1> HIDE DEF ind, last
<1>10. NodeFollows'
  BY <1>0, <1>3, <1>5, <1>7, <1>8, <1>9 DEF NodeFollows
<1>11. NothingBehind'
  BY <1>1 DEF NothingBehind
<1>12. OneByOne'
  <2>1. Owed' = 0 /\ DOMAIN toHost' = {}
    BY <1>0, <1>2, <1>4, <1>5, Lines DEF Owed
  <2>2. Len(toNode') + Len(toHost') + Owed' <= 1
    <3>1. CASE Len(toNode') = 0
      BY <1>4, <2>1, <3>1
    <3>2. CASE Len(toNode') = 1
      BY <1>4, <2>1, <3>2
    <3>3. QED
      BY <1>9, <3>1, <3>2
  <2>3. QED
    BY <1>9, <2>1, <2>2 DEF OneByOne
<1>13. QED
  BY <1>8, <1>10, <1>11, <1>12 DEF Ordered

LEMMA OrderNode ==
  ASSUME Typed, Typed', OneTransmission, Ordered, Clean, NodeHandle
  PROVE  Ordered'
<1> DEFINE frame == toNode[1]
           pending == acked < MaxInds
           confirm == Confirm(frame.call, frame.type, pending)
<1>0. TypeOK /\ TypeOK' /\ Owed \in {0, 1} /\ Owed' \in {0, 1}
  BY DEF Typed, Owed
<1>1. /\ toNode # <<>> /\ frame \in NodeFrames /\ Owed = 0 /\ 1 \in DOMAIN toNode
      /\ Len(toNode) \in Nat \ {0} /\ Len(toNode') = Len(toNode) - 1
      /\ NodeShifts(1) /\ UNCHANGED <<pc, call, Seen, Reading>>
  BY <1>0, Answering, Lines DEF Owed, Reading
<1>2. LastHanded' = LastHanded /\ HandedInOrder'
  BY <1>1 DEF LastHanded, Ordered, HandedInOrder
<1>3. \A i \in DOMAIN toNode' :
        /\ toNode'[i].type = "response" => toNode'[i].ind = LastHanded
        /\ pc = "await" /\ AsksFor(toNode'[i], call) => i = Len(toNode')
        /\ Reading => toNode'[i].type = "response"
  <2> SUFFICES ASSUME NEW i \in DOMAIN toNode'
               PROVE  /\ toNode'[i].type = "response" => toNode'[i].ind = LastHanded
                      /\ pc = "await" /\ AsksFor(toNode'[i], call) => i = Len(toNode')
                      /\ Reading => toNode'[i].type = "response"
    OBVIOUS
  <2>1. /\ i \in Nat /\ i + 1 \in DOMAIN toNode
        /\ toNode'[i].type = toNode[i + 1].type
        /\ toNode'[i].type \in Kinds => toNode'[i].call = toNode[i + 1].call
        /\ toNode'[i].type = "response" => toNode'[i].ind = toNode[i + 1].ind
    BY <1>0, <1>1, Shifted
  <2>2. toNode'[i].type = "response" => toNode'[i].ind = LastHanded
    BY <2>1 DEF Ordered, NodeFollows
  <2>3. pc = "await" /\ AsksFor(toNode'[i], call) => i = Len(toNode')
    <3>1. pc = "await" /\ AsksFor(toNode'[i], call) => i + 1 = Len(toNode)
      BY <2>1 DEF AsksFor, Ordered, NothingBehind
    <3>2. QED
      BY <1>1, <2>1, <3>1
  <2>4. Reading => toNode'[i].type = "response"
    BY <2>1 DEF Ordered, OneByOne
  <2>5. QED
    BY <2>2, <2>3, <2>4
<1>4. pc = "await" => \A i \in DOMAIN toHost : ~(toHost[i].type = "confirm" /\ toHost[i].call = call)
  BY <1>1 DEF Ordered, NothingBehind
<1>5. Reading => Len(toNode) = 1 /\ Len(toHost) = 0 /\ frame.type = "response"
  <2>1. ASSUME Reading
        PROVE  Len(toNode) = 1 /\ Len(toHost) = 0 /\ frame.type = "response"
    <3>1. Len(toHost) + Len(toNode) + Owed <= 1 /\ Len(toHost) \in Nat /\ Owed \in Nat
      BY <1>0, <1>1, <2>1, Lines DEF Ordered, OneByOne
    <3>2. frame.type = "response"
      BY <1>1, <2>1 DEF Ordered, OneByOne
    <3>3. QED
      BY <1>1, <3>1, <3>2, OneLeft
  <2>2. QED
    BY <2>1
<1>6. ASSUME UNCHANGED toHost, acked' \in Nat, LastHanded - acked' \in {0, 1}
      PROVE  Ordered'
  <2>1. NodeFollows'
    BY <1>1, <1>2, <1>3, <1>6 DEF Ordered, NodeFollows
  <2>2. NothingBehind'
    BY <1>1, <1>3, <1>4, <1>6 DEF NothingBehind
  <2>3. OneByOne'
    <3>1. ASSUME Reading
          PROVE  Len(toNode') = 0 /\ Len(toHost') = 0 /\ DOMAIN toHost' = {}
      BY <1>0, <1>1, <1>5, <1>6, <3>1, Lines
    <3>2. Reading => Len(toNode') + Len(toHost') + Owed' <= 1
      <4>1. CASE Owed' = 0
        BY <3>1, <4>1
      <4>2. CASE Owed' = 1
        BY <3>1, <4>2
      <4>3. QED
        BY <1>0, <4>1, <4>2
    <3>3. QED
      BY <1>1, <1>3, <3>1, <3>2 DEF OneByOne
  <2>4. QED
    BY <1>2, <2>1, <2>2, <2>3 DEF Ordered
<1>7. acked \in Nat /\ LastHanded - acked \in {0, 1}
  BY <1>0, LinkAssumption DEF TypeOK, LineTypes, Ordered, NodeFollows
<1>8. CASE UNCHANGED <<toHost, node>>
  BY <1>6, <1>7, <1>8
<1>9. CASE frame.type = "response" /\ NodeForgets(frame)
  <2>1. frame.ind = LastHanded
    BY <1>1, <1>9 DEF Ordered, NodeFollows
  <2>2. LastHanded \in Int
    BY <1>1, <1>9, <2>1, NodeFrameKinds, LinkAssumption
  <2>3. acked' \in Nat /\ LastHanded - acked' \in {0, 1}
    <3>1. CASE frame.ind = acked + 1
      BY <1>7, <1>9, <2>1, <2>2, <3>1 DEF NodeForgets
    <3>2. CASE frame.ind # acked + 1
      BY <1>7, <1>9, <2>1, <2>2, <3>2 DEF NodeForgets
    <3>3. QED
      BY <3>1, <3>2
  <2>4. QED
    BY <1>6, <1>9, <2>3 DEF NodeForgets
<1>10. CASE /\ frame.type \in Kinds /\ frame.call \in Calls
            /\ HostGains(Dummy(frame.call)) /\ UNCHANGED node
  <2>1. ~Reading
    BY <1>5, <1>10 DEF Kinds
  <2>2. Dummy(frame.call).type = "dummy"
    BY <1>10, AnsweredFrames
  <2>3. pc = "await" =>
          \A i \in DOMAIN toHost' : ~(toHost'[i].type = "confirm" /\ toHost'[i].call = call)
    BY <1>0, <1>4, <1>10, <2>2, Gained
  <2>4. NodeFollows'
    BY <1>1, <1>2, <1>3, <1>7, <1>10 DEF Ordered, NodeFollows
  <2>5. NothingBehind'
    BY <1>1, <1>3, <2>3 DEF NothingBehind
  <2>6. OneByOne'
    BY <1>1, <2>1 DEF OneByOne
  <2>7. QED
    BY <1>2, <2>4, <2>5, <2>6 DEF Ordered
<1>11. CASE /\ frame.type \in Kinds /\ frame.call \in Calls
            /\ HostGains(confirm) /\ UNCHANGED acked
  <2>1. ~Reading
    BY <1>5, <1>11 DEF Kinds
  <2>2. confirm.type = "confirm" /\ confirm.call = frame.call
    <3>1. pending \in BOOLEAN
      OBVIOUS
    <3> HIDE DEF pending
    <3>2. QED
      BY <1>11, <3>1, AnsweredFrames
  <2> HIDE DEF confirm
  <2>3. ASSUME pc = "await", NEW i \in DOMAIN toHost', toHost'[i].type = "confirm",
               toHost'[i].call = call
        PROVE  /\ Len(toNode') = 0
               /\ Len(toHost') + Owed' <= i + 1
               /\ \A j \in i + 1 .. Len(toHost') : toHost'[j] \in {Damaged, Indication(acked' + 1)}
    <3>1. i = Len(toHost) + 1 /\ toHost'[i] = confirm
      BY <1>0, <1>4, <1>11, <2>3, Gained
    <3>2. AsksFor(frame, call)
      BY <1>11, <2>2, <2>3, <3>1 DEF AsksFor
    <3>3. 1 = Len(toNode)
      BY <1>1, <2>3, <3>2 DEF Ordered, NothingBehind
    <3>4. Len(toHost') = i /\ Len(toHost) \in Nat
      BY <1>0, <1>11, <3>1, Lines DEF HostGains
    <3>5. Len(toHost') + Owed' <= i + 1
      <4>1. CASE Owed' = 0
        BY <3>1, <3>4, <4>1
      <4>2. CASE Owed' = 1
        BY <3>1, <3>4, <4>2
      <4>3. QED
        BY <1>0, <4>1, <4>2
    <3>6. i + 1 .. Len(toHost') = {}
      BY <3>1, <3>4
    <3>7. Len(toNode') = 0
      <4>1. Len(toNode') = Len(toNode) - 1
        BY <1>1
      <4>2. QED
        BY <3>3, <4>1
    <3>8. QED
      BY <3>5, <3>6, <3>7
  <2>4. NodeFollows'
    BY <1>1, <1>2, <1>3, <1>7, <1>11 DEF Ordered, NodeFollows
  <2>5. NothingBehind'
    BY <1>1, <1>3, <2>3 DEF NothingBehind
  <2>6. OneByOne'
    BY <1>1, <2>1 DEF OneByOne
  <2>7. QED
    BY <1>2, <2>4, <2>5, <2>6 DEF Ordered
<1>12. QED
  BY <1>8, <1>9, <1>10, <1>11, Answering

LEMMA OrderEmit ==
  ASSUME Typed, Typed', Ordered, NodeEmit
  PROVE  Ordered'
<1> DEFINE new == Indication(acked + 1)
<1>0. TypeOK /\ TypeOK'
  BY DEF Typed
<1>1. /\ HostGains(new) /\ new.type = "indication"
      /\ UNCHANGED <<pc, call, toNode, acked, Seen, Reading>>
      /\ Owed = 1 /\ Owed' = 0
  BY Emitting DEF Owed, Reading
<1>2. Len(toHost) \in Nat /\ Len(toHost') = Len(toHost) + 1
      /\ DOMAIN toHost = 1 .. Len(toHost) /\ Len(toNode) \in Nat
  BY <1>0, <1>1, Lines DEF HostGains
<1> HIDE DEF new
<1>3. NodeFollows' /\ HandedInOrder'
  BY <1>1 DEF Ordered, NodeFollows, HandedInOrder, LastHanded
<1>4. NothingBehind'
  <2>1. ASSUME pc = "await", NEW i \in DOMAIN toHost', toHost'[i].type = "confirm",
               toHost'[i].call = call
        PROVE  /\ Len(toNode') = 0
               /\ Len(toHost') + Owed' <= i + 1
               /\ \A j \in i + 1 .. Len(toHost') : toHost'[j] \in {Damaged, Indication(acked + 1)}
    <3>1. i \in DOMAIN toHost /\ toHost'[i] = toHost[i]
      BY <1>0, <1>1, <2>1, Gained
    <3>2. /\ Len(toNode) = 0 /\ Len(toHost) + Owed <= i + 1
          /\ \A j \in i + 1 .. Len(toHost) : toHost[j] \in {Damaged, Indication(acked + 1)}
      BY <2>1, <3>1 DEF Ordered, NothingBehind
    <3>3. Len(toHost') + Owed' <= i + 1
      BY <1>1, <1>2, <3>1, <3>2
    <3>4. \A j \in i + 1 .. Len(toHost') : toHost'[j] \in {Damaged, Indication(acked + 1)}
      <4>1. ASSUME NEW j \in i + 1 .. Len(toHost')
            PROVE  toHost'[j] \in {Damaged, Indication(acked + 1)}
        <5>1. j \in i + 1 .. Len(toHost) \/ j = Len(toHost) + 1
          BY <1>2, <3>1
        <5>2. j \in i + 1 .. Len(toHost) => toHost'[j] = toHost[j]
          BY <1>1, <1>2, <3>1 DEF HostGains
        <5>3. j = Len(toHost) + 1 => toHost'[j] = new
          BY <1>1 DEF HostGains
        <5>4. QED
          BY <3>2, <5>1, <5>2, <5>3 DEF new
      <4>2. QED
        BY <4>1
    <3>5. QED
      BY <1>1, <3>2, <3>3, <3>4
  <2>2. QED
    BY <1>1, <2>1 DEF Ordered, NothingBehind
<1>5. OneByOne'
  <2>1. ASSUME Reading
        PROVE  /\ Len(toNode') + Len(toHost') + Owed' <= 1
               /\ \A i \in DOMAIN toHost' : toHost'[i] \in {Damaged, Indication(acked' + 1)}
               /\ \A i \in DOMAIN toNode' : toNode'[i].type = "response"
    <3>1. Len(toNode) + Len(toHost) + Owed <= 1
          /\ \A i \in DOMAIN toNode : toNode[i].type = "response"
      BY <2>1 DEF Ordered, OneByOne
    <3>2. Len(toNode) = 0 /\ Len(toHost) = 0
      BY <1>1, <1>2, <3>1
    <3>3. Len(toNode') + Len(toHost') + Owed' <= 1
      BY <1>1, <1>2, <3>2
    <3>4. \A i \in DOMAIN toHost' : toHost'[i] = new
      BY <1>0, <1>1, <1>2, <3>2, Gained
    <3>5. QED
      BY <1>1, <3>1, <3>3, <3>4 DEF new
  <2>2. QED
    BY <1>1, <2>1 DEF OneByOne
<1>6. QED
  BY <1>3, <1>4, <1>5 DEF Ordered

LEMMA CleanOrderStep ==
  Typed /\ Typed' /\ InFlight /\ Started /\ OneTransmission /\ CleanOrder /\ [Next]_vars
    => CleanOrder'
<1> SUFFICES ASSUME Typed, Typed', InFlight, Started, OneTransmission, CleanOrder, [Next]_vars,
                    Clean'
             PROVE  Ordered'
  BY DEF CleanOrder, Ordered
<1>1. Clean /\ Ordered
  BY CleanBackwards DEF CleanOrder, Ordered
<1>2. QED
  BY <1>1, StepKinds, OrderFadingStep, OrderSend, OrderHandle, OrderNode, OrderEmit

(* As long as every caller was given its own confirm and none was misled,   *)
(* indications reach the queue in the node's order, without a gap; one may  *)
(* come again when its answer was lost.                                     *)
THEOREM IndicationsInOrder == Spec => []DeliveredInOrder
<1>1. Init => OneTransmission /\ CleanOrder
  <2> SUFFICES ASSUME Init PROVE OneTransmission /\ CleanOrder
    OBVIOUS
  <2>1. /\ DOMAIN toNode = {} /\ DOMAIN toHost = {} /\ DOMAIN Seen = {} /\ ~Reading
        /\ pc = "free" /\ acked = 0 /\ Seen = <<>> /\ \A c \in Calls : executed[c] = 0
    BY DEF Init, Seen, Reading
  <2>2. OneTransmission
    BY <2>1 DEF OneTransmission, OnePlace, Absent
  <2>3. CleanOrder
    BY <2>1 DEF CleanOrder, NodeFollows, NothingBehind, OneByOne, HandedInOrder, LastHanded
  <2>4. QED
    BY <2>2, <2>3
<1>2. Typed /\ InFlight /\ Started /\ OneTransmission /\ CleanOrder /\ [Next]_vars
        => (Typed /\ InFlight /\ Started /\ OneTransmission /\ CleanOrder)'
  BY TypedStep, InFlightStep, StartedStep, OneTransmissionStep, CleanOrderStep
<1>3. Typed /\ CleanOrder => DeliveredInOrder
  <2> SUFFICES ASSUME Typed, NodeFollows, HandedInOrder, NEW i \in DOMAIN delivered
               PROVE  /\ delivered[i].type = "indication"
                      /\ delivered[i].ind - (IF i = 1 THEN 0 ELSE delivered[i - 1].ind) \in {0, 1}
    BY DEF CleanOrder, Clean, DeliveredInOrder
  <2>1. i \in DOMAIN Seen /\ Seen[i] = delivered[i] /\ (i # 1 => Seen[i - 1] = delivered[i - 1])
    <3>1. /\ delivered \in Seq(Confirms \union Indications)
          /\ pc = "hand" => hand \in Confirms \union Indications
      BY DEF Typed, Phases, TypeOK, ExchangeTypes, OutcomeTypes
    <3>2. i # 1 => i - 1 \in DOMAIN delivered
      BY <3>1
    <3>3. QED
      BY <3>1, <3>2, Added DEF Seen
  <2>2. QED
    BY <2>1 DEF NodeFollows, HandedInOrder
<1>4. QED
  BY <1>1, <1>2, <1>3, InitTypes, InitFlight, PTL DEF Spec
=============================================================================
