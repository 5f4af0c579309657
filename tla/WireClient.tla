------------------------------ MODULE WireClient ------------------------------
(***************************************************************************)
(* The AI bridge's end of a connection (ai-bridge/src/wire.rs): one call   *)
(* at a time on a stream that carries replies and pushed events.  A call   *)
(* writes its request and waits for the answer; the deadline covers the    *)
(* waiting alone.                                                          *)
(*                                                                         *)
(* The server's end is what Connection establishes: frames are taken in    *)
(* order, each is answered once or not at all (RepliesInOrder), and the    *)
(* push task writes events between the replies.                            *)
(*                                                                         *)
(* Calls are numbered; a frame says which call it answers (0 for an event) *)
(* and whether it carries the request_id of that call.  The three calls    *)
(* with a request_id (query_by_type, get_object, invoke) are one kind,     *)
(* "Call"; a query the server refuses is "BadQuery", because QueryError    *)
(* carries none; a Subscribe to a malformed target is "BadSubscribe".      *)
(*                                                                         *)
(* Both directions hold so many frames: a write awaits room.  down is what *)
(* the server wrote and the client has not consumed, the socket and the    *)
(* accum buffer together; the server's read loop takes the next request    *)
(* when the answer to the last is written.                                 *)
(***************************************************************************)
EXTENDS Naturals, Sequences, Functions

CONSTANTS MaxCalls,   \* bound on the calls of a behaviour
          MaxEvents,  \* bound on the events pushed
          UpCap,      \* requests the sockets hold on the way to the server
          DownCap,    \* frames they hold on the way to the client
          Null

CallIds   == 1 .. MaxCalls
WithRid   == {"Call", "BadQuery"}
CallKinds == WithRid \cup {"Mount", "Subscribe", "BadSubscribe"}
Requests  == [n : CallIds, kind : CallKinds \cup {"Unsubscribe"}]
Outcomes  == {"ok", "server error", "unexpected", "timeout", "closed"}

(* A subscription is named by the call that asked for it.                   *)
Answers ==
  [kind : {"Result", "Error", "QueryError", "MountAck", "MountReject", "SubscribeAck"},
   answers : CallIds, sub : {0}, pos : {0}]
Frames ==
  Answers \cup [kind : {"Event"}, answers : {0}, sub : CallIds, pos : 1 .. MaxEvents]

Drains == [sub : CallIds, due : Nat, before : Seq(CallIds), events : Seq(1 .. MaxEvents)]

ASSUME WireAssumption ==
  /\ MaxCalls \in Nat /\ MaxEvents \in Nat /\ Null \notin Nat \cup Drains
  /\ UpCap \in Nat \ {0} /\ DownCap \in Nat \ {0}

VARIABLES
  up,       \* requests written and not yet taken by the server
  down,     \* frames written by the server and not yet consumed
  hand,     \* the answer the server's read loop has yet to write, or Null
  open,     \* the server's subscriptions
  pushed,   \* events pushed so far; history: the subscription of each
  gone,     \* the server has closed the connection
  call,     \* the call in progress and its stage, or Null
  drain,    \* the drain in progress, or Null
  results,  \* history: per finished call its outcome and the frame it took
  handed,   \* history: the events drain has returned
  skipped   \* history: the events calls and failed drains have consumed

clientVars == <<call, drain, results, handed, skipped>>
serverVars == <<hand, open, pushed, gone>>
vars == <<up, down, serverVars, clientVars>>

Idle  == call = Null /\ drain = Null
Calls == {n \in CallIds : results[n] # Null}
Used  == Calls \cup (IF call = Null THEN {} ELSE {call.n})

Answer(kind, n) == [kind |-> kind, answers |-> n, sub |-> 0, pos |-> 0]
Pushed(s, pos)  == [kind |-> "Event", answers |-> 0, sub |-> s, pos |-> pos]
HasRid(frame)   == frame.kind \in {"Result", "Error"}

-----------------------------------------------------------------------------
(* Calls: request() writes the frame and waits.                             *)

Begin(n, kind) ==
  /\ Idle
  /\ call' = [n |-> n, kind |-> kind, stage |-> "writing"]
  /\ UNCHANGED <<up, down, serverVars, drain, results, handed, skipped>>

Start(kind) ==
  \E n \in CallIds \ Used : (\A m \in CallIds \ Used : n <= m) /\ Begin(n, kind)

StartUnsubscribe(s) ==
  /\ results[s] # Null /\ results[s].kind = "Subscribe" /\ results[s].outcome = "ok"
  /\ Begin(s, "Unsubscribe")

Writing == call # Null /\ call.stage = "writing"
Waiting == call # Null /\ call.stage = "waiting"

(* write_all: without room in the socket the call stays here.  unsubscribe  *)
(* returns when its frame is written.                                       *)
Write ==
  /\ Writing /\ Len(up) < UpCap
  /\ up' = Append(up, [n |-> call.n, kind |-> call.kind])
  /\ call' = IF call.kind = "Unsubscribe" THEN Null ELSE [call EXCEPT !.stage = "waiting"]
  /\ UNCHANGED <<down, serverVars, drain, results, handed, skipped>>

Finish(outcome, from) ==
  /\ results' = [results EXCEPT ![call.n] =
                   [kind |-> call.kind, outcome |-> outcome, from |-> from]]
  /\ call' = Null
  /\ UNCHANGED <<drain, handed>>

(* What the callers of request make of the frame it returns: subscribe      *)
(* parses it as a SubscribeAck, which any frame with a subscription_id is.  *)
OutcomeOf(kind, frame) ==
  CASE kind \in WithRid -> IF frame.kind = "Result" THEN "ok" ELSE "server error"
    [] kind = "Mount"   -> CASE frame.kind = "MountAck"    -> "ok"
                             [] frame.kind = "MountReject" -> "server error"
                             [] OTHER                      -> "unexpected"
    [] OTHER            -> IF frame.kind \in {"SubscribeAck", "Event"} THEN "ok" ELSE "unexpected"

Consume(frame) ==
  /\ down' = Tail(down)
  /\ skipped' = IF frame.kind = "Event" THEN skipped \cup {frame.pos} ELSE skipped

(* A write on a connection the server has closed fails in the end.          *)
WriteFails ==
  /\ Writing /\ gone
  /\ IF call.kind = "Unsubscribe" THEN call' = Null /\ UNCHANGED <<results, drain, handed>>
                                  ELSE Finish("closed", 0)
  /\ UNCHANGED <<up, down, serverVars, skipped>>

(* Mutant: the first frame is the answer, whatever request_id it carries.   *)
ReadFirst ==
  /\ Waiting /\ down # << >>
  /\ LET frame == Head(down) IN
       /\ Consume(frame)
       /\ Finish(OutcomeOf(call.kind, frame), frame.answers)
  /\ UNCHANGED <<up, serverVars>>

(* A call with a request_id passes over every frame that does not carry it; *)
(* one without takes the first frame there is.                              *)
ReadReply ==
  /\ Waiting /\ down # << >>
  /\ LET frame == Head(down)
         mine  == \/ call.kind \notin WithRid
                  \/ HasRid(frame) /\ frame.answers = call.n
     IN /\ Consume(frame)
        /\ IF mine THEN Finish(OutcomeOf(call.kind, frame), frame.answers)
                   ELSE UNCHANGED <<call, drain, results, handed>>
  /\ UNCHANGED <<up, serverVars>>

(* Mutant: the deadline covers only the calls that look for a request_id.   *)
TimeoutWithRid ==
  /\ Waiting /\ call.kind \in WithRid
  /\ Finish("timeout", 0)
  /\ UNCHANGED <<up, down, serverVars, skipped>>

(* The deadline passes while the call waits; a late answer stays in the     *)
(* stream or is yet to come.                                                *)
Timeout ==
  /\ Waiting
  /\ Finish("timeout", 0)
  /\ UNCHANGED <<up, down, serverVars, skipped>>

ReadEnd ==
  /\ Waiting /\ down = << >> /\ gone
  /\ Finish("closed", 0)
  /\ UNCHANGED <<up, down, serverVars, skipped>>

-----------------------------------------------------------------------------
(* drain: for about 150 ms, every frame is consumed and the events among    *)
(* them are returned, those of any subscription.  The time is taken to be   *)
(* enough for what had arrived when it began (due).                         *)

StartDrain(s) ==
  /\ Idle
  /\ results[s] # Null /\ results[s].outcome = "ok"
  /\ results[s].kind \in {"Subscribe", "BadSubscribe"}
  /\ drain' = [sub |-> s, due |-> Len(down), before |-> pushed, events |-> << >>]
  /\ UNCHANGED <<up, down, serverVars, call, results, handed, skipped>>

Took(events) ==
  drain' = [drain EXCEPT !.due = IF @ = 0 THEN 0 ELSE @ - 1, !.events = events]

(* Mutant: events of other subscriptions are dropped.                       *)
DrainReadOwn ==
  /\ drain # Null /\ down # << >>
  /\ down' = Tail(down)
  /\ Took(IF Head(down).kind = "Event" /\ Head(down).sub = drain.sub
          THEN Append(drain.events, Head(down).pos) ELSE drain.events)
  /\ UNCHANGED <<up, serverVars, call, results, handed, skipped>>

DrainRead ==
  /\ drain # Null /\ down # << >>
  /\ down' = Tail(down)
  /\ Took(IF Head(down).kind = "Event"
          THEN Append(drain.events, Head(down).pos) ELSE drain.events)
  /\ UNCHANGED <<up, serverVars, call, results, handed, skipped>>

DrainEnd ==
  /\ drain # Null /\ drain.due = 0
  /\ handed' = handed \o drain.events
  /\ drain' = Null
  /\ UNCHANGED <<up, down, serverVars, call, results, skipped>>

(* The connection ends: Err(Closed), and what was collected goes with it.   *)
DrainFails ==
  /\ drain # Null /\ down = << >> /\ gone
  /\ skipped' = skipped \cup Range(drain.events)
  /\ drain' = Null
  /\ UNCHANGED <<up, down, serverVars, call, results, handed>>

-----------------------------------------------------------------------------
(* The server's end.                                                        *)

Replies(kind) ==
  CASE kind = "Call"      -> {"Result", "Error"}
    [] kind = "BadQuery"  -> {"QueryError"}
    [] kind = "Mount"     -> {"MountAck", "MountReject"}
    [] kind = "Subscribe" -> {"SubscribeAck"}
    [] OTHER              -> {}     \* Unsubscribe and BadSubscribe get none

Opened(f) ==
  open' = CASE f.kind = "Subscribe"   -> open \cup {f.n}
            [] f.kind = "Unsubscribe" -> open \ {f.n}
            [] OTHER                  -> open

(* The read loop: dispatch_one, which ends in writing the response.         *)
Serve ==
  /\ ~gone /\ hand = Null /\ up # << >>
  /\ LET f == Head(up) IN
       /\ Opened(f)
       /\ IF Replies(f.kind) = {} THEN UNCHANGED hand
          ELSE \E k \in Replies(f.kind) : hand' = Answer(k, f.n)
  /\ up' = Tail(up)
  /\ UNCHANGED <<down, pushed, gone, clientVars>>

Respond ==
  /\ ~gone /\ hand # Null /\ Len(down) < DownCap
  /\ down' = Append(down, hand)
  /\ hand' = Null
  /\ UNCHANGED <<up, open, pushed, gone, clientVars>>

PushEvent(s) ==
  /\ ~gone /\ s \in open
  /\ Len(pushed) < MaxEvents /\ Len(down) < DownCap
  /\ pushed' = Append(pushed, s)
  /\ down' = Append(down, Pushed(s, Len(pushed) + 1))
  /\ UNCHANGED <<up, hand, open, gone, clientVars>>

Close ==
  /\ ~gone
  /\ gone' = TRUE
  /\ UNCHANGED <<up, down, hand, open, pushed, clientVars>>

-----------------------------------------------------------------------------
(* Just after connect_as_ai has had its HelloAck.                           *)
Init ==
  /\ up = << >> /\ down = << >> /\ hand = Null
  /\ open = {} /\ pushed = << >> /\ gone = FALSE
  /\ call = Null /\ drain = Null
  /\ results = [n \in CallIds |-> Null]
  /\ handed = << >> /\ skipped = {}

Next ==
  \/ \E kind \in CallKinds : Start(kind)
  \/ \E s \in CallIds : StartUnsubscribe(s) \/ StartDrain(s) \/ PushEvent(s)
  \/ Write \/ WriteFails
  \/ ReadReply \/ Timeout \/ ReadEnd
  \/ DrainRead \/ DrainEnd \/ DrainFails
  \/ Serve \/ Respond \/ Close

Spec == Init /\ [][Next]_vars

(* The runtime resumes a write that has room, fires its timer and runs the  *)
(* server's read loop; nothing is assumed of the push task, and nothing of  *)
(* the client's reading, which the deadline may overtake every time.        *)
FairSpec ==
  Spec /\ WF_vars(Write) /\ WF_vars(WriteFails) /\ WF_vars(Timeout)
       /\ WF_vars(Serve) /\ WF_vars(Respond)

-----------------------------------------------------------------------------
(* Properties.                                                              *)

TypeOK ==
  /\ up \in Seq(Requests) /\ Len(up) <= UpCap
  /\ down \in Seq(Frames) /\ Len(down) <= DownCap
  /\ hand \in Answers \cup {Null}
  /\ open \subseteq CallIds /\ pushed \in Seq(CallIds) /\ gone \in BOOLEAN
  /\ call \in [n : CallIds, kind : CallKinds \cup {"Unsubscribe"},
               stage : {"writing", "waiting"}] \cup {Null}
  /\ call # Null /\ call.kind = "Unsubscribe" => call.stage = "writing"
  /\ drain \in Drains \cup {Null}
  /\ drain # Null => drain.due <= Len(down)
  /\ results \in [CallIds -> [kind : CallKinds, outcome : Outcomes, from : Nat] \cup {Null}]
  /\ handed \in Seq(Nat) /\ skipped \subseteq 1 .. MaxEvents

InStream == {down[i].pos : i \in {j \in DOMAIN down : down[j].kind = "Event"}}

(* request_id (wire.rs:99-102): a query, get or invoke never takes the       *)
(* answer of another call for its own, whatever events, late answers of      *)
(* timed-out calls and replies without an id the stream holds.               *)
OwnAnswer ==
  /\ TypeOK
  /\ \A n \in Calls : results[n].kind \in WithRid /\ results[n].outcome \in {"ok", "server error"}
                        => results[n].from = n

InDrain == IF drain = Null THEN << >> ELSE drain.events

(* Each event pushed to the client is in one place: still in the stream,     *)
(* collected by a drain, or passed over by a call; drains return events in   *)
(* the order they were pushed and no event twice.                            *)
EventsAccounted ==
  LET collected == handed \o InDrain IN
    /\ DOMAIN pushed = InStream \cup Range(collected) \cup skipped
    /\ InStream \cap Range(collected) = {}
    /\ skipped \cap (InStream \cup Range(collected)) = {}
    /\ \A i, j \in DOMAIN collected : i < j => collected[i] < collected[j]

(* The server stands before a full stream with an answer that nobody waits  *)
(* for any more, and the client writes, so nobody reads.                    *)
MutualWait ==
  /\ Writing /\ Len(up) = UpCap /\ Len(down) = DownCap
  /\ hand # Null /\ results[hand.answers] # Null

(* KI-032 (wire.rs:109): a call returns, also when the server never answers  *)
(* it or closes the connection.  The deadline does not cover write_all       *)
(* (wire.rs:106), so there is one exception: a client and a server that      *)
(* write to each other, which takes an earlier call that ended without its   *)
(* answer (it timed out, or took an event for its acknowledgement).          *)
EveryCallReturns == []<>(call = Null) \/ <>[]MutualWait
=============================================================================
