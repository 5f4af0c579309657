------------------------------ MODULE Connection ------------------------------
(***************************************************************************)
(* One client connection of the server host                                *)
(* (server-host/src/connection.rs): the handshake, the read loop that      *)
(* dispatches one frame at a time, the push task that drains the           *)
(* connection's subscriptions and writes Event frames, and the teardown.   *)
(*                                                                         *)
(* The object server behind the connection is an EventFeed, which          *)
(* ObjectServer implements: the commands a frame causes are its actions,   *)
(* each run alone by the server's actor task.  The other connections are   *)
(* the environment that publishes events.  Between two awaits of the read  *)
(* loop or of the push task any other step may happen.                     *)
(*                                                                         *)
(* A frame of the client is a record [kind, arg, of]; the frames without   *)
(* an effect and a reply (malformed bodies, unknown kinds, the desktop      *)
(* shell's GrantUpdate) are one kind, "Mute"; the frames answered without   *)
(* an effect (Query, Get, Glscript, anyone else's GrantUpdate) are another, *)
(* "Ask".                                                                  *)
(***************************************************************************)
EXTENDS Naturals, Sequences, Functions, FiniteSets

CONSTANTS Subs,      \* subscription ids of the server, in the order it assigns them
          Names,     \* subscription ids the client chooses
          Mine,      \* objects the client mounts
          Others,    \* objects of other clients
          Requests,  \* the sets of events a subscription may ask for
          MaxLog,    \* bound on the changes published
          MaxFrames, \* bound on the frames the client sends
          Null

Events == [kind : {"Created", "Destroyed", "Changed"}, id : Mine \cup Others]
Made(o)    == [kind |-> "Created", id |-> o]
Gone(o)    == [kind |-> "Destroyed", id |-> o]
Changed(o) == [kind |-> "Changed", id |-> o]

Phases == {"greeting", "serving", "closing", "closed", "left", "rejected"}

Calls == {"Hello", "Subscribe", "Mount", "Act", "Ask"}   \* kinds that call for a reply

(* What the read loop can have in hand.                                      *)
Dispatched ==
       [do : {"map"}, name : Names, sub : Subs]
  \cup [do : {"end"}, sub : Subs]
  \cup [do : {"reply"}, frame : [reply : Calls \cup {"Reject"}, name : Names \cup {Null},
                                sub : Subs \cup {Null}, pos : Nat]]

ASSUME ConnectionAssumption ==
  /\ Subs = 1 .. Cardinality(Subs)
  /\ Mine \cap Others = {}
  /\ Requests \subseteq SUBSET Events
  /\ MaxLog \in Nat /\ MaxFrames \in Nat
  /\ Null \notin Subs \cup [name : Names, of : Requests]
                      \cup [name : Names, sub : Subs, events : Seq(Nat)] \cup Dispatched

VARIABLES
  log, status, ask, cursor, got,  \* the server behind, an EventFeed
  phase,     \* of handle_connection; "left" is its return on TooLarge
  inbox,     \* frames the client sent and the read loop has not taken
  sent,      \* how many it sent
  eof,       \* the client has closed the connection
  handling,  \* what the read loop does next with the frame it took, or Null
  subMap,    \* sub_map: client id -> server id or Null
  pusher,    \* the push task: "off", "on", "aborting" or "dead"
  round,     \* the push task's snapshot of sub_map, less what it has served
  batch,     \* the events it drained and has not written, or Null
  wire,      \* every frame written to the client
  live,      \* which of Mine are mounted and not destroyed
  opened,    \* history: per server id, the client id and the events asked for
  asked      \* history: the kinds of the frames sent that call for a reply

feedVars == <<log, status, ask, cursor, got>>
readVars == <<phase, inbox, handling, subMap, live, opened>>
pushVars == <<pusher, round, batch>>
sendVars == <<sent, eof, asked>>
vars == <<feedVars, readVars, sendVars, pushVars, wire>>

Feed == INSTANCE EventFeed

Unopened == {s \in Subs : status[s] = "unopened"}

Frames ==
       [kind : {"Hello"}, arg : BOOLEAN, of : {{}}]
  \cup [kind : {"Subscribe"}, arg : Names, of : Requests]
  \cup [kind : {"Unsubscribe"}, arg : Names, of : {{}}]
  \cup [kind : {"Mount"}, arg : Mine, of : {{}}]
  \cup [kind : {"Act"}, arg : Mine \cup Others, of : {{}}]
  \cup [kind : {"Ask", "Mute", "Huge"}, arg : {Null}, of : {{}}]

(* What the server writes: a reply names the kind of frame it answers.      *)
Answer(kind, name) == [reply |-> kind, name |-> name, sub |-> Null, pos |-> 0]
Push(name, s, pos) == [reply |-> "Event", name |-> name, sub |-> s, pos |-> pos]

-----------------------------------------------------------------------------
(* The client: Hello first, or a frame that is none, and nothing more until *)
(* it has the ack.                                                          *)

Allowed(f) ==
  IF sent = 0 THEN f.kind \in {"Hello", "Mute"}
  ELSE /\ wire # << >> /\ wire[1] = Answer("Hello", Null)
       /\ f.kind # "Hello"
       /\ f.kind = "Subscribe" =>   \* bounded by Subs
            Len(SelectSeq(inbox, LAMBDA g : g.kind = "Subscribe")) < Cardinality(Unopened)

Send(f) ==
  /\ ~eof
  /\ sent < MaxFrames
  /\ Allowed(f)
  /\ sent' = sent + 1
  /\ inbox' = Append(inbox, f)
  /\ asked' = IF f.kind \in Calls THEN Append(asked, f.kind) ELSE asked
  /\ UNCHANGED <<feedVars, phase, handling, subMap, live, opened, eof, pushVars, wire>>

Close ==
  /\ ~eof
  /\ eof' = TRUE
  /\ UNCHANGED <<feedVars, readVars, sent, asked, pushVars, wire>>

(* A write reaches a client that is there; one that has gone may miss it.   *)
Written(frame) ==
  \/ wire' = Append(wire, frame)
  \/ eof /\ UNCHANGED wire

-----------------------------------------------------------------------------
(* The handshake.                                                           *)

Greet ==
  /\ phase = "greeting"
  /\ inbox # << >> /\ Head(inbox).kind = "Hello"
  /\ inbox' = Tail(inbox)
  /\ \/ /\ Head(inbox).arg
        /\ Written(Answer("Hello", Null))
        /\ phase' = "serving"
        /\ pusher' = "on"
     \/ /\ Head(inbox).arg => eof   \* a HelloAck that cannot be written ends it too
        /\ Written(Answer("Reject", Null))
        /\ phase' = "rejected"
        /\ UNCHANGED pusher
  /\ UNCHANGED <<feedVars, handling, subMap, live, opened, sendVars, round, batch>>

(* No Hello comes, or something that does not parse as one.                 *)
LeaveEarly ==
  /\ phase = "greeting"
  /\ IF inbox = << >> THEN eof ELSE Head(inbox).kind # "Hello"
  /\ phase' = "rejected"
  /\ UNCHANGED <<feedVars, inbox, handling, subMap, live, opened, sendVars, pushVars, wire>>

-----------------------------------------------------------------------------
(* The read loop.                                                           *)

Take(kind) ==
  /\ phase = "serving"
  /\ handling = Null
  /\ inbox # << >>
  /\ Head(inbox).kind = kind
  /\ inbox' = Tail(inbox)

ThenReply(kind, name) == handling' = [do |-> "reply", frame |-> Answer(kind, name)]

(* Mutant: the frame's filters are dropped.                                 *)
TakeSubscribeUnfiltered ==
  /\ Take("Subscribe")
  /\ \E s \in Unopened : LET f == Head(inbox) IN
       /\ \A t \in Unopened : s <= t
       /\ Feed!Begin(s, Events)
       /\ opened' = [opened EXCEPT ![s] = [name |-> f.arg, of |-> f.of]]
       /\ handling' = [do |-> "map", name |-> f.arg, sub |-> s]
  /\ UNCHANGED <<phase, subMap, live, sendVars, pushVars, wire>>

(* handle.subscribe, or subscribe_by_type: the server assigns the next id.  *)
TakeSubscribe ==
  /\ Take("Subscribe")
  /\ \E s \in Unopened : LET f == Head(inbox) IN
       /\ \A t \in Unopened : s <= t
       /\ Feed!Begin(s, f.of)
       /\ opened' = [opened EXCEPT ![s] = [name |-> f.arg, of |-> f.of]]
       /\ handling' = [do |-> "map", name |-> f.arg, sub |-> s]
  /\ UNCHANGED <<phase, subMap, live, sendVars, pushVars, wire>>

(* sub_map.insert: a client id used again replaces the entry and leaves the *)
(* subscription it named open.                                              *)
MapSubscription ==
  /\ handling # Null /\ handling.do = "map"
  /\ subMap' = [subMap EXCEPT ![handling.name] = handling.sub]
  /\ ThenReply("Subscribe", handling.name)
  /\ UNCHANGED <<feedVars, phase, inbox, live, opened, sendVars, pushVars, wire>>

(* Mutant: the server's subscription is ended and the map keeps its entry.  *)
TakeUnsubscribeKeepingEntry ==
  /\ Take("Unsubscribe")
  /\ LET s == subMap[Head(inbox).arg] IN
       handling' = IF s = Null THEN Null ELSE [do |-> "end", sub |-> s]
  /\ UNCHANGED <<feedVars, phase, subMap, live, opened, sendVars, pushVars, wire>>

TakeUnsubscribe ==
  /\ Take("Unsubscribe")
  /\ LET s == subMap[Head(inbox).arg] IN
       handling' = IF s = Null THEN Null ELSE [do |-> "end", sub |-> s]
  /\ subMap' = [subMap EXCEPT ![Head(inbox).arg] = Null]
  /\ UNCHANGED <<feedVars, phase, live, opened, sendVars, pushVars, wire>>

EndSubscription ==
  /\ handling # Null /\ handling.do = "end"
  /\ Feed!End(handling.sub)
  /\ handling' = Null
  /\ UNCHANGED <<phase, inbox, subMap, live, opened, sendVars, pushVars, wire>>

(* Mount, Invoke and StateSet either publish an event or are refused; the   *)
(* client gets a reply either way.                                          *)
TakeMount ==
  /\ Take("Mount")
  /\ LET o == Head(inbox).arg IN
       IF \E i \in DOMAIN log : log[i] = Made(o)
       THEN UNCHANGED <<feedVars, live>>
       ELSE Feed!Publish(Made(o)) /\ live' = live \cup {o}
  /\ ThenReply("Mount", Null)
  /\ UNCHANGED <<phase, subMap, opened, sendVars, pushVars, wire>>

(* Mutant: an operation the server refuses is not answered.                 *)
TakeActRefusedSilently ==
  /\ Take("Act")
  /\ \/ UNCHANGED <<feedVars, handling>>
     \/ /\ Head(inbox).arg \in Others \cup live
        /\ Len(log) < MaxLog
        /\ Feed!Publish(Changed(Head(inbox).arg))
        /\ ThenReply("Act", Null)
  /\ UNCHANGED <<phase, subMap, live, opened, sendVars, pushVars, wire>>

TakeAct ==
  /\ Take("Act")
  /\ \/ UNCHANGED feedVars
     \/ /\ Head(inbox).arg \in Others \cup live
        /\ Len(log) < MaxLog
        /\ Feed!Publish(Changed(Head(inbox).arg))
  /\ ThenReply("Act", Null)
  /\ UNCHANGED <<phase, subMap, live, opened, sendVars, pushVars, wire>>

TakeAsk ==
  /\ Take("Ask")
  /\ ThenReply("Ask", Null)
  /\ UNCHANGED <<feedVars, phase, subMap, live, opened, sendVars, pushVars, wire>>

(* Mutant: a malformed body is not taken out of the buffer.                  *)
TakeMuteKeeping ==
  /\ phase = "serving" /\ handling = Null
  /\ inbox # << >> /\ Head(inbox).kind = "Mute"
  /\ UNCHANGED vars

TakeMute ==
  /\ Take("Mute")
  /\ UNCHANGED <<feedVars, phase, handling, subMap, live, opened, sendVars, pushVars, wire>>

Reply ==
  /\ handling # Null /\ handling.do = "reply"
  /\ Written(handling.frame)
  /\ handling' = Null
  /\ UNCHANGED <<feedVars, phase, inbox, subMap, live, opened, sendVars, pushVars>>

(* DecodeError::TooLarge returns at once: no abort, no disconnect_actor.    *)
Leave ==
  /\ Take("Huge")
  /\ phase' = "left"
  /\ UNCHANGED <<feedVars, handling, subMap, live, opened, sendVars, pushVars, wire>>

(* Mutant: the loop ends without disconnect_actor.                          *)
HangUpOnly ==
  /\ phase = "serving" /\ handling = Null
  /\ eof
  /\ phase' = "closed"
  /\ pusher' = IF pusher = "on" THEN "aborting" ELSE pusher
  /\ UNCHANGED <<feedVars, inbox, handling, subMap, live, opened, sendVars, round, batch, wire>>

(* The read ends, or fails with frames unread; push_task.abort() follows.   *)
HangUp ==
  /\ phase = "serving" /\ handling = Null
  /\ eof
  /\ phase' = "closing"
  /\ pusher' = IF pusher = "on" THEN "aborting" ELSE pusher
  /\ UNCHANGED <<feedVars, inbox, handling, subMap, live, opened, sendVars, round, batch, wire>>

(* DisconnectActor, event by event.                                         *)
Disconnect ==
  /\ phase = "closing"
  /\ IF live = {}
     THEN phase' = "closed" /\ UNCHANGED <<feedVars, live>>
     ELSE /\ \E o \in live : Feed!Publish(Gone(o)) /\ live' = live \ {o}
          /\ UNCHANGED phase
  /\ UNCHANGED <<inbox, handling, subMap, opened, sendVars, pushVars, wire>>

-----------------------------------------------------------------------------
(* The push task.                                                           *)

Pushing == pusher \in {"on", "aborting"}

Wake ==
  /\ Pushing
  /\ round = {} /\ batch = Null
  /\ round' = {<<n, subMap[n]>> : n \in {m \in Names : subMap[m] # Null}}
  /\ UNCHANGED <<feedVars, readVars, sendVars, pusher, batch, wire>>

(* Mutant: the task ends at the first subscription that has nothing new.    *)
DrainOrQuit(n, s) ==
  /\ Pushing
  /\ batch = Null
  /\ <<n, s>> \in round
  /\ round' = round \ {<<n, s>>}
  /\ IF status[s] = "open" /\ Feed!Pending(s) # {}
     THEN /\ Feed!Deliver(s)
          /\ batch' = [name |-> n, sub |-> s,
                       events |-> SubSeq(got'[s], Len(got[s]) + 1, Len(got'[s]))]
          /\ UNCHANGED pusher
     ELSE pusher' = "dead" /\ UNCHANGED <<feedVars, batch>>
  /\ UNCHANGED <<readVars, sendVars, wire>>

(* Draining a subscription that has been ended meanwhile yields nothing.    *)
DrainOne(n, s) ==
  /\ Pushing
  /\ batch = Null
  /\ <<n, s>> \in round
  /\ round' = round \ {<<n, s>>}
  /\ IF status[s] = "open"
     THEN /\ Feed!Deliver(s)
          /\ LET fresh == SubSeq(got'[s], Len(got[s]) + 1, Len(got'[s])) IN
               batch' = IF fresh = << >> THEN Null
                        ELSE [name |-> n, sub |-> s, events |-> fresh]
     ELSE UNCHANGED <<feedVars, batch>>
  /\ UNCHANGED <<readVars, sendVars, pusher, wire>>

(* Mutant: only the newest event of a drain is written.                     *)
WriteLast ==
  /\ Pushing
  /\ batch # Null
  /\ wire' = Append(wire, Push(batch.name, batch.sub, batch.events[Len(batch.events)]))
  /\ batch' = Null
  /\ UNCHANGED <<feedVars, readVars, sendVars, pusher, round>>

WriteOne ==
  /\ Pushing
  /\ batch # Null
  /\ wire' = Append(wire, Push(batch.name, batch.sub, Head(batch.events)))
  /\ batch' = IF Len(batch.events) = 1 THEN Null
              ELSE [batch EXCEPT !.events = Tail(@)]
  /\ UNCHANGED <<feedVars, readVars, sendVars, pusher, round>>

(* A failed write ends the task, and what it had drained with it.           *)
WriteFails ==
  /\ Pushing
  /\ batch # Null
  /\ eof
  /\ pusher' = "dead"
  /\ UNCHANGED <<feedVars, readVars, sendVars, round, batch, wire>>

Abort ==
  /\ pusher = "aborting"
  /\ pusher' = "dead"
  /\ UNCHANGED <<feedVars, readVars, sendVars, round, batch, wire>>

-----------------------------------------------------------------------------
(* The other connections.  DisconnectActor is one command, so nothing else  *)
(* is published while this connection's objects go.                         *)
Elsewhere(e) ==
  /\ phase # "closing"
  /\ Len(log) < MaxLog
  /\ Feed!Publish(e)
  /\ UNCHANGED <<readVars, sendVars, pushVars, wire>>

Init ==
  /\ Feed!Init
  /\ phase = "greeting" /\ inbox = << >> /\ sent = 0 /\ eof = FALSE /\ handling = Null
  /\ subMap = [n \in Names |-> Null]
  /\ pusher = "off" /\ round = {} /\ batch = Null
  /\ wire = << >> /\ live = {}
  /\ opened = [s \in Subs |-> Null]
  /\ asked = << >>

Read ==
  \/ Greet \/ LeaveEarly
  \/ TakeSubscribe \/ MapSubscription \/ TakeUnsubscribe \/ EndSubscription
  \/ TakeMount \/ TakeAct \/ TakeAsk \/ TakeMute \/ Reply
  \/ Leave \/ HangUp \/ Disconnect

PushStep ==
  \/ Wake
  \/ \E n \in Names, s \in Subs : DrainOne(n, s)
  \/ WriteOne \/ WriteFails

Next ==
  \/ \E f \in Frames : Send(f)
  \/ Close
  \/ Read
  \/ PushStep
  \/ Abort
  \/ \E o \in Others : Elsewhere(Changed(o))

Spec == Init /\ [][Next]_vars

(* The runtime polls every task that is ready; the client owes nothing.     *)
FairSpec == Spec /\ WF_vars(Read) /\ WF_vars(PushStep) /\ WF_vars(Abort)

-----------------------------------------------------------------------------
(* Properties.                                                              *)

TypeOK ==
  /\ log \in Seq(Events)
  /\ phase \in Phases /\ inbox \in Seq(Frames) /\ sent \in 0 .. MaxFrames
  /\ eof \in BOOLEAN /\ live \subseteq Mine
  /\ subMap \in [Names -> Subs \cup {Null}]
  /\ pusher \in {"off", "on", "aborting", "dead"}
  /\ round \subseteq Names \X Subs
  /\ handling \in Dispatched \cup {Null}
  /\ batch # Null => batch.sub \in Subs /\ batch.events \in Seq(Nat) \ {<< >>}
  /\ opened \in [Subs -> [name : Names, of : Requests] \cup {Null}]
  /\ \A i \in DOMAIN wire : wire[i].sub \in Subs \cup {Null}

IsPush(f, s) == f.reply = "Event" /\ f.sub = s
Pushes(s)  == {i \in DOMAIN wire : IsPush(wire[i], s)}
InBatch(s) == IF batch # Null /\ batch.sub = s THEN batch.events ELSE << >>

(* Nothing is lost, doubled or reordered between the drain and the socket,   *)
(* whatever replies, unsubscribes and other drains come between: while the   *)
(* push task runs, what a subscription was handed is what was written for it *)
(* and, after that, what waits in the task's hands; and it is written once,  *)
(* in log order.                                                             *)
PushedExactly ==
  \A s \in Subs : pusher # "dead" =>
    /\ Range(got[s]) = {wire[i].pos : i \in Pushes(s)} \cup Range(InBatch(s))
    /\ \A i \in Pushes(s) :
         /\ \A j \in Pushes(s) : i < j => wire[i].pos < wire[j].pos
         /\ \A pos \in Range(InBatch(s)) : wire[i].pos < pos
    /\ Feed!Ascending(got[s]) /\ Feed!Ascending(InBatch(s))

(* sub_map and the server agree: a client id maps to a subscription that is  *)
(* open and was opened for it, and no two ids share one.                     *)
MappedIsOpen ==
  /\ TypeOK
  /\ \A n \in Names : subMap[n] # Null =>
       /\ status[subMap[n]] = "open"
       /\ opened[subMap[n]].name = n
       /\ \A m \in Names : m # n => subMap[m] # subMap[n]

(* An event written under a client id is one that a subscription of that id  *)
(* asked for, even when it is written after the id was unsubscribed or taken *)
(* for another subscription.                                                 *)
NamedRightly ==
  \A i \in DOMAIN wire : LET f == wire[i] IN
    f.reply = "Event" =>
      \E s \in Subs : /\ opened[s] # Null /\ opened[s].name = f.name
                      /\ log[f.pos] \in opened[s].of

(* The n-th reply the client reads answers the n-th frame it sent that calls *)
(* for one, whatever events the push task writes in between: a frame is      *)
(* answered once, even when the server refuses what it asks for.  What the   *)
(* client has asked is, in its order, what was answered, what the read loop   *)
(* is about to answer, and what waits in the buffer.                          *)
Replies(frames) == {i \in DOMAIN frames : frames[i].reply # "Event"}
Waiting(frames) == {i \in DOMAIN frames : frames[i].kind \in Calls}
ReplyTo(f)      == IF f.reply = "Reject" THEN "Hello" ELSE f.reply
Place(set, i)   == Cardinality({j \in set : j <= i})

Owed(h) ==   \* the answers in what the read loop has in hand
  IF h = Null THEN {}
  ELSE {k \in Calls : \/ h.do = "map" /\ k = "Subscribe"
                      \/ h.do = "reply" /\ k = ReplyTo(h.frame)}
InHand == Owed(handling)

RepliesInOrder ==
  LET due == Cardinality(Replies(wire)) + Cardinality(InHand)
  IN  ~eof /\ phase # "left" =>
        /\ Len(asked) = due + Cardinality(Waiting(inbox))
        /\ \A i \in Replies(wire) : asked[Place(Replies(wire), i)] = ReplyTo(wire[i])
        /\ \A k \in InHand : asked[due] = k
        /\ \A i \in Waiting(inbox) : asked[due + Place(Waiting(inbox), i)] = inbox[i].kind

(* Neither task stalls the other: an event a mapped subscription asked for   *)
(* reaches the wire, unless the client unsubscribes, takes the id for another *)
(* subscription or goes; and as long as the client is there and sends no      *)
(* frame over MAX_FRAME_SIZE, all it sent is taken and answered.              *)
EventuallyServed ==
  /\ \A n \in Names, s \in Subs, i \in 1 .. MaxLog :
       (subMap[n] = s /\ i \in Feed!Pending(s)) ~>
         (subMap[n] # s \/ eof \/ \E j \in DOMAIN wire : IsPush(wire[j], s) /\ wire[j].pos = i)
  /\ \A k \in 1 .. MaxFrames :
       (Len(asked) = k) ~> \/ eof \/ phase = "left"
                           \/ Cardinality(Replies(wire)) >= k

Destroyed(o) == o \notin live /\ \E i \in DOMAIN log : log[i] = Gone(o)

(* A client that goes takes its objects with it, wherever its last frames    *)
(* and the push task's last events are, unless it sent a frame too large.    *)
DisconnectDestroys ==
  \A o \in Mine : (eof /\ o \in live) ~> (Destroyed(o) \/ phase = "left")
=============================================================================
