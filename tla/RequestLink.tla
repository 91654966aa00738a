---------------------------- MODULE RequestLink -----------------------------
(***************************************************************************)
(* The exchange between c-mesh-api and its node over the serial line       *)
(* (lib/wpc/wpc_internal.c): a request and its confirm, the retry after a  *)
(* CRC error, the poll that reads and acknowledges indications, and the    *)
(* watchdog that ends the process when the node stays silent.  Whoever     *)
(* runs it owns the sending mutex, so one exchange runs at a time; what    *)
(* interleaves is the node, which answers late, the line, which loses and  *)
(* corrupts frames, and the plug.                                          *)
(*                                                                         *)
(* The node is outside the repository: it handles what it receives in      *)
(* order, answers a damaged request with a dummy confirm, and keeps an     *)
(* indication until it is acknowledged.                                    *)
(***************************************************************************)
EXTENDS Integers, Sequences

CONSTANTS
  FrameIdRange,       \* 256: frame_id is a uint8_t
  MaxConfirmAttempt,  \* MAX_CONFIRM_ATTEMPT, 50
  MaxCrcRetries,      \* MAX_CRC_REQUEST_ERROR_RETRIES, 3
  MaxQuota,           \* max_ind a poll may be given, at most 30
  MaxCalls,           \* bound: exchanges started
  MaxInds,            \* bound: indications the node has to deliver
  MaxLineErrors,      \* bound: frames lost or damaged
  MaxUnplugs          \* bound: times the line is unplugged

ASSUME LinkAssumption ==
  /\ {FrameIdRange, MaxConfirmAttempt, MaxQuota} \subseteq Nat \ {0}
  /\ {MaxCrcRetries, MaxCalls, MaxInds, MaxLineErrors, MaxUnplugs} \subseteq Nat

Kinds == {"request", "poll"}  \* the primitive: the poll, or any other request
Calls == 1 .. MaxCalls

VARIABLES
  pc,         \* where the owner of the sending mutex is; "free" when nobody is
  call, kind, \* number of the last exchange, and its primitive
  attempt,    \* frames that did not match, while waiting for the confirm
  retries,    \* crc_request_retries
  quota,      \* indications the poll is still to read, if there are as many
  hand,       \* frame: what handle_indication has answered and not yet handed over
  fd,         \* serial.c: "open", "stale" (its device was unplugged), "closed" (-1)
  plugged,    \* the device is there
  setter,     \* whoever sets the watchdog: "opening" the library, "enabling", ...
  watched,    \* m_timeout_no_answer_ms > 0
  overdue,    \* more than that has passed since m_last_successful_answer_ts
  toNode, toHost, \* frames in flight
  acked,      \* indications the node was told to forget
  emitting,   \* the node owes an indication for its last confirm or response
  lineErrors, unplugs, \* so far
  \* history
  result,     \* what the last exchange returned, "none" until it ends
  executed,   \* how often the node executed each call
  accepted,   \* the call whose confirm each successful call was given
  misled,     \* calls that were resent because of another call's dummy confirm
  delivered,  \* frames handed to the indication queue, in order
  silence     \* time ran out while the watchdog was enabled

exchange == <<pc, call, kind, attempt, retries, quota, hand>>
watchdog == <<setter, watched, overdue, silence>>
line == <<fd, plugged, toNode, toHost, lineErrors, unplugs>>
node == <<acked, emitting, executed>>
outcome == <<result, accepted, misled>>
vars == <<exchange, watchdog, line, node, outcome, delivered>>

Request(c, k) == [type |-> k, call |-> c, intact |-> TRUE]
Response(ind, again) == [type |-> "response", ind |-> ind, again |-> again, intact |-> TRUE]
Confirm(c, k, pending) == [type |-> "confirm", call |-> c, kind |-> k, pending |-> pending]
Dummy(c) == [type |-> "dummy", call |-> c]   \* its CRC is 0xFFFF
Indication(n) == [type |-> "indication", ind |-> n, more |-> n < MaxInds]
Damaged == [type |-> "damaged"]              \* WPC_INT_WRONG_CRC

NoFrame == [type |-> "none"]

FrameId(c) == c % FrameIdRange

(* WPC_Int_initialize starts the poller before it sets the time of the last  *)
(* answer, which is zero, or that of an earlier life, until then.            *)
Init ==
  /\ pc = "free" /\ call = 0 /\ kind = "poll" /\ attempt = 0 /\ retries = 0 /\ quota = 0
  /\ hand = NoFrame
  /\ fd = "open" /\ plugged = TRUE /\ toNode = <<>> /\ toHost = <<>>
  /\ lineErrors = 0 /\ unplugs = 0
  /\ setter = "opening" /\ watched = TRUE /\ overdue = TRUE /\ silence = FALSE
  /\ acked = 0 /\ emitting = FALSE /\ executed = [c \in Calls |-> 0]
  /\ result = "none" /\ accepted = [c \in Calls |-> 0]
  /\ misled = {} /\ delivered = <<>>
-----------------------------------------------------------------------------
(* serial.c: a write reopens a closed line first; one that fails closes it. *)
WriteSucceeds == fd = "open" \/ (fd = "closed" /\ plugged)
Written(frame) ==
  /\ fd' = IF WriteSucceeds THEN "open" ELSE "closed"
  /\ toNode' = IF WriteSucceeds THEN Append(toNode, frame) ELSE toNode
  /\ UNCHANGED <<plugged, lineErrors, unplugs>>

(* Slip_get_buffer returns a frame, or a timeout when none comes.  With the *)
(* line closed it does neither: Serial_read fails and it reads again.       *)
Readable == fd # "closed" /\ toHost # <<>>
NeverTimesOut == FALSE
TimesOut == fd # "closed" /\ toHost = <<>>
Consume == /\ toHost' = Tail(toHost)
           /\ UNCHANGED <<fd, plugged, toNode, lineErrors, unplugs>>

(* The end of send_request_locked or get_indication_locked, and the release *)
(* of the sending mutex.                                                    *)
Return(what) ==
  /\ pc' = "free"
  /\ result' = what

(* check_if_timeout_reached_locked looks whether there is a duration, and   *)
(* then whether it has passed (Suspect).                                    *)
ReturnOrSuspect ==
  IF watched THEN pc' = "suspect" /\ UNCHANGED result ELSE Return("error")

(* WPC_Int_send_request_timeout, or get_indication.  A poll for no          *)
(* indication at all is refused at once, with nothing changed.              *)
Begin ==
  /\ pc = "free"
  /\ call < MaxCalls
  /\ call' = call + 1
  /\ kind' \in Kinds
  /\ quota' \in IF kind' = "poll" THEN 1 .. MaxQuota ELSE {0}
  /\ attempt' = 0 /\ retries' = 0
  /\ pc' = "send"
  /\ result' = "none"
  /\ UNCHANGED <<hand, watchdog, line, node, accepted, misled, delivered>>

Send ==  \* the first transmission, or one after WPC_INT_WRONG_CRC_FROM_HOST
  /\ pc = "send"
  /\ Written(Request(call, kind))
  /\ IF WriteSucceeds THEN pc' = "await" /\ UNCHANGED result ELSE ReturnOrSuspect
  /\ UNCHANGED <<call, kind, attempt, retries, quota, hand, watchdog, toHost, node, accepted,
                 misled, delivered>>

AwaitTimeout ==
  /\ pc = "await"
  /\ TimesOut
  /\ ReturnOrSuspect
  /\ UNCHANGED <<call, kind, attempt, retries, quota, hand, watchdog, line, node, accepted,
                 misled, delivered>>

(* The duration is read again for the comparison; any time is longer than   *)
(* one that has become zero.                                                *)
Suspect ==
  /\ pc = "suspect"
  /\ \/ (overdue \/ ~watched) /\ pc' = "exited" /\ UNCHANGED result
     \/ ~overdue /\ Return("error")
  /\ UNCHANGED <<call, kind, attempt, retries, quota, hand, watchdog, line, node, accepted,
                 misled, delivered>>

RetryOnAnyCrc(type) == type \in {"dummy", "damaged"}
RetryOn(type) == type = "dummy"
OneRetryTooMany == retries <= MaxCrcRetries
RetriesLeft == retries < MaxCrcRetries

(* A frame that does not decode: resend what the node could not read. *)
AwaitCrcError ==
  /\ pc = "await"
  /\ Readable
  /\ LET frame == Head(toHost)
         resend == RetryOn(frame.type) /\ RetriesLeft
     IN  /\ frame.type \in {"dummy", "damaged"}
         /\ \/ /\ resend
               /\ retries' = retries + 1
               /\ pc' = "send"
               /\ misled' = IF frame.type = "dummy" /\ frame.call # call
                              THEN misled \union {call} ELSE misled
               /\ UNCHANGED result
            \/ ~resend /\ Return("error") /\ UNCHANGED <<retries, misled>>
  /\ Consume
  /\ UNCHANGED <<call, kind, attempt, quota, hand, watchdog, node, accepted, delivered>>

MatchesPrimitiveOnly(frame) == frame.type = "confirm" /\ frame.kind = kind
Matches(frame) ==
  /\ frame.type = "confirm"
  /\ frame.kind = kind                      \* primitive_id
  /\ FrameId(frame.call) = FrameId(call)

(* A frame that decodes: the node is alive. *)
AwaitFrame ==
  /\ pc = "await"
  /\ Readable
  /\ LET frame == Head(toHost)
     IN  /\ frame.type \in {"confirm", "indication"}
         /\ \/ /\ Matches(frame)
               /\ accepted' = [accepted EXCEPT ![call] = frame.call]
               /\ IF kind = "poll" /\ frame.pending
                    THEN pc' = "indication" /\ UNCHANGED result
                    ELSE Return("ok")
               /\ UNCHANGED attempt
            \/ /\ ~Matches(frame)
               /\ attempt' = attempt + 1
               /\ IF attempt + 1 = MaxConfirmAttempt
                    THEN Return("error")
                    ELSE UNCHANGED <<pc, result>>
               /\ UNCHANGED accepted
  /\ overdue' = FALSE /\ silence' = FALSE
  /\ Consume
  /\ UNCHANGED <<call, kind, retries, quota, hand, setter, watched, node, misled, delivered>>
-----------------------------------------------------------------------------
(* handle_indication, and the loop of get_indication_locked around it.      *)

IndicationFails ==  \* no frame, or one that does not decode
  /\ pc = "indication"
  /\ \/ TimesOut /\ UNCHANGED line
     \/ Readable /\ Head(toHost).type \in {"dummy", "damaged"} /\ Consume
  /\ Return("error")
  /\ UNCHANGED <<call, kind, attempt, retries, quota, hand, watchdog, node, accepted, misled,
                 delivered>>

(* Whatever frame comes is taken for an indication and answered; whether    *)
(* the answer could be written is not looked at.                            *)
AnswerIndication ==
  /\ pc = "indication"
  /\ Readable
  /\ LET frame == Head(toHost)
     IN  /\ frame.type \in {"confirm", "indication"}
         /\ \E remaining \in IF frame.type = "indication" THEN {frame.more} ELSE BOOLEAN :
              LET ind == IF frame.type = "indication" THEN frame.ind ELSE 0
              IN  /\ quota' = IF remaining THEN quota - 1 ELSE 0
                  /\ Written(Response(ind, quota' > 0))
         /\ hand' = frame
  /\ toHost' = Tail(toHost)
  /\ pc' = "hand"
  /\ UNCHANGED <<call, kind, attempt, retries, watchdog, node, outcome, delivered>>

HandedOnlyLast == IF quota = 0 THEN Append(delivered, hand) ELSE delivered
Handed == Append(delivered, hand)

(* cb_locked, after the answer: by now the node may have forgotten it. *)
HandOver ==
  /\ pc = "hand"
  /\ delivered' = Handed
  /\ hand' = NoFrame
  /\ IF quota > 0 THEN pc' = "indication" /\ UNCHANGED result ELSE Return("ok")
  /\ UNCHANGED <<call, kind, attempt, retries, quota, watchdog, line, node, accepted, misled>>
-----------------------------------------------------------------------------
(* The watchdog is set without any lock, by the thread that opened the      *)
(* library: two stores, the time of the last answer before the duration.    *)
Restart == overdue' = FALSE /\ silence' = FALSE

Opened ==
  /\ pc # "exited"
  /\ setter = "opening"
  /\ setter' = "idle"
  /\ Restart
  /\ UNCHANGED <<watched, exchange, line, node, outcome, delivered>>

NeverRefreshed(on) == FALSE
Refreshed(on) == ~watched /\ on
SetTimeout ==
  /\ pc # "exited"
  /\ setter = "idle"
  /\ \E on \in BOOLEAN \ {watched} :  \* or nothing changes
       /\ setter' = IF on THEN "enabling" ELSE "disabling"
       /\ IF Refreshed(on) THEN Restart ELSE UNCHANGED <<overdue, silence>>
  /\ UNCHANGED <<watched, exchange, line, node, outcome, delivered>>

StoreTimeout ==
  /\ pc # "exited"
  /\ setter \in {"enabling", "disabling"}
  /\ setter' = "idle"
  /\ watched' = (setter = "enabling")
  /\ silence' = (watched' /\ silence)
  /\ UNCHANGED <<overdue, exchange, line, node, outcome, delivered>>

Elapse ==
  /\ ~overdue
  /\ overdue' = TRUE
  /\ silence' = (watched \/ setter = "enabling")
  /\ UNCHANGED <<setter, watched, exchange, line, node, outcome, delivered>>

(* The node. *)
NodeHandle ==
  /\ toNode # <<>>
  /\ ~emitting
  /\ LET frame == Head(toNode)
         Answer(f) == toHost' = Append(toHost, f)
     IN  \/ /\ ~frame.intact
            /\ IF frame.type \in Kinds THEN Answer(Dummy(frame.call)) ELSE UNCHANGED toHost
            /\ UNCHANGED node
         \/ /\ frame.intact /\ frame.type \in Kinds
            /\ executed' = [executed EXCEPT ![frame.call] = @ + 1]
            /\ emitting' = (frame.type = "poll" /\ acked < MaxInds)
            /\ Answer(Confirm(frame.call, frame.type, acked < MaxInds))
            /\ UNCHANGED acked
         \/ /\ frame.intact /\ frame.type = "response"
            /\ acked' = IF frame.ind = acked + 1 THEN frame.ind ELSE acked
            /\ emitting' = (frame.again /\ acked' < MaxInds)
            /\ UNCHANGED <<executed, toHost>>
  /\ toNode' = Tail(toNode)
  /\ UNCHANGED <<exchange, watchdog, fd, plugged, lineErrors, unplugs, outcome, delivered>>

NodeEmit ==
  /\ emitting
  /\ emitting' = FALSE
  /\ toHost' = Append(toHost, Indication(acked + 1))
  /\ UNCHANGED <<exchange, watchdog, fd, plugged, toNode, lineErrors, unplugs, acked,
                 executed, outcome, delivered>>

(* The line loses or damages the frame at its end. *)
LineError ==
  /\ lineErrors < MaxLineErrors
  /\ lineErrors' = lineErrors + 1
  /\ \/ toNode # <<>> /\ toNode' = Tail(toNode) /\ UNCHANGED toHost
     \/ /\ toNode # <<>> /\ Head(toNode).intact
        /\ toNode' = <<[Head(toNode) EXCEPT !.intact = FALSE]>> \o Tail(toNode)
        /\ UNCHANGED toHost
     \/ toHost # <<>> /\ toHost' = Tail(toHost) /\ UNCHANGED toNode
     \/ /\ toHost # <<>> /\ Head(toHost) # Damaged
        /\ toHost' = <<Damaged>> \o Tail(toHost)
        /\ UNCHANGED toNode
  /\ UNCHANGED <<exchange, watchdog, fd, plugged, unplugs, node, outcome, delivered>>

(* What was read into m_buffer of serial.c, or waits in the driver, survives. *)
Unplug ==
  /\ plugged
  /\ unplugs < MaxUnplugs
  /\ unplugs' = unplugs + 1
  /\ plugged' = FALSE
  /\ fd' = IF fd = "open" THEN "stale" ELSE fd
  /\ \E kept \in 0 .. Len(toHost) : toHost' = SubSeq(toHost, 1, kept)
  /\ toNode' = <<>> /\ emitting' = FALSE
  /\ UNCHANGED <<exchange, watchdog, lineErrors, acked, executed, outcome, delivered>>

Replug ==
  /\ ~plugged
  /\ plugged' = TRUE
  /\ UNCHANGED <<exchange, watchdog, fd, toNode, toHost, lineErrors, unplugs, node, outcome,
                 delivered>>
-----------------------------------------------------------------------------
HostStep == \/ Begin \/ Send \/ AwaitTimeout \/ Suspect \/ AwaitCrcError \/ AwaitFrame
            \/ IndicationFails \/ AnswerIndication \/ HandOver

WatchdogStep == Opened \/ SetTimeout \/ StoreTimeout \/ Elapse

NodeStep == NodeHandle \/ NodeEmit

Next == HostStep \/ NodeStep \/ WatchdogStep \/ LineError \/ Unplug \/ Replug

Spec == Init /\ [][Next]_vars
(* The thread that owns the sending mutex keeps running. *)
FairSpec == Spec /\ WF_vars(HostStep)
-----------------------------------------------------------------------------
(* Every variable keeps its type, the counters their bounds, and the line   *)
(* carries only frames that somebody sent, or what damage made of them.     *)
Requests == [type : Kinds, call : Calls, intact : BOOLEAN]
Responses == [type : {"response"}, ind : 0 .. MaxInds, again : BOOLEAN, intact : BOOLEAN]
Confirms == [type : {"confirm"}, call : Calls, kind : Kinds, pending : BOOLEAN]
Indications == {Indication(n) : n \in 1 .. MaxInds}
Dummies == {Dummy(c) : c \in Calls}

ExchangeTypes ==
  /\ pc \in {"free", "send", "await", "suspect", "indication", "hand", "exited"}
  /\ call \in 0 .. MaxCalls /\ kind \in Kinds
  /\ attempt \in 0 .. MaxConfirmAttempt
  /\ retries \in 0 .. MaxCrcRetries
  /\ quota \in 0 .. MaxQuota
  /\ hand \in Confirms \union Indications \union {NoFrame}

LineTypes ==
  /\ fd \in {"open", "stale", "closed"}
  /\ {plugged, emitting} \subseteq BOOLEAN /\ acked \in 0 .. MaxInds
  /\ toNode \in Seq(Requests \union Responses)
  /\ toHost \in Seq(Confirms \union Indications \union Dummies \union {Damaged})
  /\ lineErrors \in 0 .. MaxLineErrors /\ unplugs \in 0 .. MaxUnplugs

OutcomeTypes ==
  /\ setter \in {"opening", "idle", "enabling", "disabling"}
  /\ {watched, overdue, silence} \subseteq BOOLEAN
  /\ result \in {"none", "ok", "error"}
  /\ executed \in [Calls -> Nat]
  /\ accepted \in [Calls -> 0 .. MaxCalls]
  /\ misled \subseteq Calls
  /\ delivered \in Seq(Confirms \union Indications)

TypeOK == ExchangeTypes /\ LineTypes /\ OutcomeTypes

(* A caller that succeeds was given the confirm of its own request; a       *)
(* confirm of another call slips through only when the node is FrameIdRange *)
(* exchanges late.                                                          *)
ConfirmIsOwn ==
  \A c \in Calls : accepted[c] # 0 =>
    /\ accepted[c] = c \/ c - accepted[c] >= FrameIdRange
    /\ executed[accepted[c]] > 0

(* The node executes a call more than once only if the call was resent      *)
(* because of a dummy confirm that another call provoked.                   *)
TwiceOnlyWhenMisled == \A c \in Calls : executed[c] > 1 => c \in misled

(* The code answers an indication before it hands it over.  No indication   *)
(* that the node has forgotten for its answer is lost all the same: each    *)
(* was handed over, or is the one the poll has in hand and hands over next. *)
ForgottenIsKept ==
  \A n \in 1 .. acked :
    \/ pc = "hand" /\ hand = Indication(n)
    \/ \E i \in DOMAIN delivered : delivered[i] = Indication(n)

(* As long as no call was misled and the node is less than FrameIdRange     *)
(* exchanges late, what is handed to the dispatcher are indications, each   *)
(* one in its order, and one comes again only after the same one.           *)
DeliveredInOrder ==
  (misled = {} /\ \A c \in Calls : accepted[c] \in {0, c}) =>
    \A i \in DOMAIN delivered :
      /\ delivered[i].type = "indication"
      /\ delivered[i].ind - (IF i = 1 THEN 0 ELSE delivered[i - 1].ind) \in {0, 1}

(* The process is ended only when the node was silent for the whole         *)
(* duration with the watchdog enabled, or being enabled; but also by a      *)
(* failure before the library is open (setter), or if the watchdog is       *)
(* disabled between its two reads of the duration (~watched).               *)
ExitOnlyAfterSilence == pc = "exited" => silence \/ setter = "opening" \/ ~watched

(* An exchange ends, unless the line was closed under it.                   *)
CallEndsWhileOpen == pc # "free" ~> pc \in {"free", "exited"} \/ fd = "closed"

(* "It is safe to resend": a request is executed at most once.              *)
ExecutedAtMostOnce == \A c \in Calls : executed[c] <= 1

(* An exchange ends: "The timeout in millisecond to wait for data".         *)
CallEnds == pc # "free" ~> pc \in {"free", "exited"}
=============================================================================
