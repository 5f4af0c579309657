-------------------------- MODULE Connection_proofs --------------------------
(***************************************************************************)
(* Proofs about Connection, for any number of subscriptions, any names and *)
(* objects, and any bounds: what the push task writes under which id, and  *)
(* that replies come in the order of what was asked.                       *)
(***************************************************************************)
EXTENDS Connection, FiniteSetTheorems, TLAPS

-----------------------------------------------------------------------------
(* Types.                                                                    *)

WireFrames == [reply : Calls \cup {"Reject", "Event"}, name : Names \cup {Null},
               sub : Subs \cup {Null}, pos : Nat]
Answers    == {f \in WireFrames : f.reply # "Event"}

ToMap   == [do : {"map"}, name : Names, sub : Subs]
ToEnd   == [do : {"end"}, sub : Subs]
ToReply == [do : {"reply"}, frame : Answers]
Batches == [name : Names, sub : Subs, events : Seq(Nat) \ {<< >>}]

LEMMA BatchesNull == Null \notin Batches
BY ConnectionAssumption DEF Batches

LEMMA DispatchedTypes ==
  ToMap \cup ToEnd \cup ToReply \subseteq Dispatched /\ Null \notin Dispatched
<1>1. \A f \in Answers : f \in [reply : Calls \cup {"Reject"}, name : Names \cup {Null},
                                sub : Subs \cup {Null}, pos : Nat]
  BY DEF Answers, WireFrames
<1>2. ToReply \subseteq Dispatched
  BY <1>1 DEF ToReply, Dispatched
<1>3. ToMap \cup ToEnd \subseteq Dispatched
  BY DEF ToMap, ToEnd, Dispatched
<1>4. QED
  BY <1>2, <1>3, ConnectionAssumption

FeedTyped ==
  /\ log \in Seq(Events)
  /\ status \in [Subs -> {"unopened", "open", "closed"}]
  /\ ask \in [Subs -> SUBSET Events]
  /\ cursor \in [Subs -> Nat]
  /\ got \in [Subs -> Seq(Nat)]

HandsTyped ==
  /\ handling \in {Null} \cup ToMap \cup ToEnd \cup ToReply
  /\ inbox \in Seq(Frames)
  /\ subMap \in [Names -> Subs \cup {Null}]
  /\ opened \in [Subs -> [name : Names, of : Requests] \cup {Null}]
  /\ round \subseteq Names \X Subs
  /\ batch \in {Null} \cup Batches
  /\ wire \in Seq(WireFrames)
  /\ live \subseteq Mine

RestTyped ==
  /\ phase \in Phases /\ sent \in 0 .. MaxFrames /\ eof \in BOOLEAN
  /\ pusher \in {"off", "on", "aborting", "dead"}
  /\ phase = "greeting" => pusher = "off"

Typed == FeedTyped /\ HandsTyped /\ RestTyped

LEMMA TypedTypeOK == Typed => TypeOK
<1> SUFFICES ASSUME Typed PROVE TypeOK
  OBVIOUS
<1>1. handling \in Dispatched \cup {Null}
  BY DispatchedTypes DEF Typed, HandsTyped
<1>2. batch # Null => batch.sub \in Subs /\ batch.events \in Seq(Nat) \ {<< >>}
  BY DEF Typed, HandsTyped, Batches
<1>3. \A i \in DOMAIN wire : wire[i].sub \in Subs \cup {Null}
  <2>1. \A i \in DOMAIN wire : wire[i] \in WireFrames
    BY DEF Typed, HandsTyped
  <2>2. QED
    BY <2>1 DEF WireFrames
<1>4. QED
  BY <1>1, <1>2, <1>3 DEF Typed, FeedTyped, HandsTyped, RestTyped, TypeOK

LEMMA EventTypes ==
  ASSUME NEW o \in Mine \cup Others
  PROVE  Made(o) \in Events /\ Gone(o) \in Events /\ Changed(o) \in Events
BY DEF Made, Gone, Changed, Events

LEMMA FrameTypes ==
  ASSUME NEW f \in Frames
  PROVE  /\ f.kind = "Subscribe" => f.arg \in Names /\ f.of \in Requests
         /\ f.kind = "Unsubscribe" => f.arg \in Names
         /\ f.kind = "Mount" => f.arg \in Mine
BY DEF Frames

LEMMA AnswerTypes ==
  ASSUME NEW kind \in Calls \cup {"Reject"}, NEW name \in Names \cup {Null}
  PROVE  Answer(kind, name) \in Answers
BY DEF Answer, Answers, WireFrames, Calls

(* Taking a frame leaves a queue of frames, and the frame is one.            *)
LEMMA TakeTypes ==
  ASSUME HandsTyped, NEW kind, Take(kind)
  PROVE  /\ Head(inbox) \in Frames /\ Head(inbox).kind = kind
         /\ inbox' \in Seq(Frames)
         /\ phase = "serving" /\ handling = Null
BY DEF HandsTyped, Take

-----------------------------------------------------------------------------
(* The server's steps.                                                       *)
LEMMA PublishTypes ==
  ASSUME FeedTyped, NEW e \in Events, Feed!Publish(e)
  PROVE  FeedTyped' /\ log' = Append(log, e) /\ UNCHANGED <<status, ask, cursor, got>>
BY DEF FeedTyped, Feed!Publish

LEMMA BeginTypes ==
  ASSUME FeedTyped, NEW s \in Subs, NEW wanted \in Requests, Feed!Begin(s, wanted)
  PROVE  /\ FeedTyped' /\ UNCHANGED <<log, got>>
         /\ status[s] = "unopened" /\ status'[s] = "open" /\ ask'[s] = wanted
         /\ cursor'[s] = Len(log)
         /\ \A t \in Subs \ {s} :
              status'[t] = status[t] /\ ask'[t] = ask[t] /\ cursor'[t] = cursor[t]
<1>1. wanted \in SUBSET Events /\ Len(log) \in Nat
  BY ConnectionAssumption DEF FeedTyped
<1>2. QED
  BY <1>1 DEF FeedTyped, Feed!Begin

LEMMA EndTypes ==
  ASSUME FeedTyped, NEW s \in Subs, Feed!End(s)
  PROVE  /\ FeedTyped' /\ UNCHANGED <<log, cursor, got>>
         /\ status[s] = "open" /\ status'[s] = "closed"
         /\ \A t \in Subs \ {s} : status'[t] = status[t] /\ ask'[t] = ask[t]
BY DEF FeedTyped, Feed!End

LEMMA SameSeq ==
  ASSUME NEW S, NEW p \in Seq(S), NEW q \in Seq(S), Len(p) = Len(q),
         \A i \in 1 .. Len(q) : p[i] = q[i]
  PROVE  p = q
OBVIOUS

(* A delivery hands over the pending events, in order, after all before.     *)
LEMMA DeliverTypes ==
  ASSUME FeedTyped, NEW s \in Subs, Feed!Deliver(s)
  PROVE  \E fresh \in Seq(Nat) :
           /\ FeedTyped' /\ UNCHANGED <<log, status, ask>>
           /\ status[s] = "open"
           /\ Feed!Ascending(fresh) /\ Range(fresh) = Feed!Pending(s)
           /\ got'[s] = got[s] \o fresh /\ cursor'[s] = Len(log)
           /\ SubSeq(got'[s], Len(got[s]) + 1, Len(got'[s])) = fresh
           /\ \A t \in Subs \ {s} : got'[t] = got[t] /\ cursor'[t] = cursor[t]
<1>1. PICK n \in 0 .. Len(log) : \E fresh \in [1 .. n -> Feed!Pending(s)] :
         /\ Feed!Ascending(fresh) /\ Feed!Range(fresh) = Feed!Pending(s)
         /\ got' = [got EXCEPT ![s] = @ \o fresh]
  BY DEF Feed!Deliver
<1>2. PICK fresh \in [1 .. n -> Feed!Pending(s)] :
         /\ Feed!Ascending(fresh) /\ Feed!Range(fresh) = Feed!Pending(s)
         /\ got' = [got EXCEPT ![s] = @ \o fresh]
  BY <1>1
<1>3. Feed!Pending(s) \subseteq Nat /\ Len(log) \in Nat
  BY DEF FeedTyped, Feed!Pending
<1>4. fresh \in Seq(Nat) /\ got[s] \in Seq(Nat) /\ Len(fresh) \in Nat /\ Len(got[s]) \in Nat
  BY <1>3 DEF FeedTyped
<1>5. got[s] \o fresh \in Seq(Nat) /\ Len(got[s] \o fresh) = Len(got[s]) + Len(fresh)
  BY <1>4
<1>6. got'[s] = got[s] \o fresh /\ \A t \in Subs \ {s} : got'[t] = got[t]
  BY <1>2 DEF FeedTyped
<1>7. got' \in [Subs -> Seq(Nat)]
  BY <1>2, <1>5 DEF FeedTyped
<1>8. SubSeq(got[s] \o fresh, Len(got[s]) + 1, Len(got[s]) + Len(fresh)) = fresh
  <2> DEFINE tail == SubSeq(got[s] \o fresh, Len(got[s]) + 1, Len(got[s]) + Len(fresh))
  <2>1. tail \in Seq(Nat) /\ Len(tail) = Len(fresh)
    BY <1>4, <1>5
  <2>2. \A i \in 1 .. Len(fresh) : tail[i] = (got[s] \o fresh)[Len(got[s]) + i]
    BY <1>4, <1>5
  <2>3. \A i \in 1 .. Len(fresh) : (got[s] \o fresh)[Len(got[s]) + i] = fresh[i]
    BY <1>4
  <2> HIDE DEF tail
  <2>4. tail = fresh
    <3>1. \A i \in 1 .. Len(fresh) : tail[i] = fresh[i]
      BY <2>2, <2>3
    <3>2. QED
      BY <1>4, <2>1, <3>1, SameSeq
  <2>5. QED
    BY <2>4 DEF tail
<1>9. Range(fresh) = Feed!Pending(s)
  BY <1>2 DEF Feed!Range, Range
<1>10. cursor'[s] = Len(log) /\ (\A t \in Subs \ {s} : cursor'[t] = cursor[t])
       /\ cursor' \in [Subs -> Nat] /\ UNCHANGED <<log, status, ask>> /\ status[s] = "open"
  BY <1>3 DEF FeedTyped, Feed!Deliver
<1>11. FeedTyped'
  BY <1>7, <1>10 DEF FeedTyped
<1>12. QED
  BY <1>2, <1>4, <1>5, <1>6, <1>8, <1>9, <1>10, <1>11

-----------------------------------------------------------------------------
(* The steps the invariants cannot tell apart: whatever becomes of the        *)
(* client's frames, no subscription and nothing on its way to the wire        *)
(* changes; at most one event is published and one answer written.           *)
Dull ==
  /\ UNCHANGED <<status, ask, cursor, got, opened, subMap, round, batch>>
  /\ log' = log \/ \E e \in Events : log' = Append(log, e)
  /\ wire' = wire \/ \E f \in Answers : wire' = Append(wire, f)
  /\ handling' = handling \/ handling' \in {Null} \cup ToReply
  /\ pusher' # "dead" => pusher # "dead"

LEMMA DullTypes ==
  ASSUME FeedTyped, HandsTyped, Dull, inbox' \in Seq(Frames), live' \subseteq Mine
  PROVE  FeedTyped' /\ HandsTyped'
<1>1. ASSUME NEW S, NEW seq \in Seq(S), NEW x \in S PROVE Append(seq, x) \in Seq(S)
  OBVIOUS
<1>2. log' \in Seq(Events)
  BY <1>1 DEF FeedTyped, Dull
<1>3. FeedTyped'
  BY <1>2 DEF FeedTyped, Dull
<1>4. wire' \in Seq(WireFrames)
  <2>1. \A f \in Answers : f \in WireFrames
    BY DEF Answers
  <2>2. QED
    BY <1>1, <2>1 DEF HandsTyped, Dull
<1>5. handling' \in {Null} \cup ToMap \cup ToEnd \cup ToReply
  BY DEF HandsTyped, Dull
<1>6. HandsTyped'
  BY <1>4, <1>5 DEF HandsTyped, Dull
<1>7. QED
  BY <1>3, <1>6

(* The server's commands a frame causes, besides those on subscriptions.     *)
LEMMA PublishDull ==
  ASSUME FeedTyped, NEW e \in Events, Feed!Publish(e)
  PROVE  log' = Append(log, e) /\ UNCHANGED <<status, ask, cursor, got>>
BY DEF Feed!Publish

LEMMA StepKinds ==
  ASSUME Typed, [Next]_vars
  PROVE  \/ Dull /\ inbox' \in Seq(Frames) /\ live' \subseteq Mine /\ RestTyped'
         \/ TakeSubscribe \/ MapSubscription \/ TakeUnsubscribe \/ EndSubscription
         \/ Wake \/ WriteOne
         \/ \E n \in Names, s \in Subs : DrainOne(n, s)
<1> DEFINE Goal == Dull /\ inbox' \in Seq(Frames) /\ live' \subseteq Mine /\ RestTyped'
<1>0. FeedTyped /\ HandsTyped /\ RestTyped
  BY DEF Typed
<1>1. CASE UNCHANGED vars
  <2>1. Goal
    BY <1>0, <1>1 DEF vars, feedVars, readVars, sendVars, pushVars, Dull, HandsTyped, RestTyped
  <2>2. QED
    BY <2>1
<1>2. ASSUME NEW f \in Frames, Send(f) PROVE Goal
  BY <1>0, <1>2, ConnectionAssumption DEF Send, feedVars, pushVars, Dull, HandsTyped, RestTyped
<1>3. CASE Close
  <2>1. Goal
    BY <1>0, <1>3 DEF Close, feedVars, readVars, pushVars, Dull, HandsTyped, RestTyped
  <2>2. QED
    BY <2>1
<1>4. CASE Greet
  <2>1. Answer("Hello", Null) \in Answers /\ Answer("Reject", Null) \in Answers
    BY AnswerTypes DEF Calls
  <2>2. inbox' \in Seq(Frames) /\ UNCHANGED <<live, sent, eof>>
    BY <1>0, <1>4 DEF Greet, HandsTyped, sendVars
  <2>3. Dull
    BY <1>0, <1>4, <2>1 DEF Greet, Written, feedVars, Dull, RestTyped
  <2>4. RestTyped'
    BY <1>0, <1>4, <2>2 DEF Greet, RestTyped, Phases
  <2>5. QED
    BY <1>0, <2>2, <2>3, <2>4 DEF HandsTyped
<1>5. CASE LeaveEarly
  <2>1. Goal
    BY <1>0, <1>5 DEF LeaveEarly, feedVars, sendVars, pushVars, Dull, HandsTyped, RestTyped, Phases
  <2>2. QED
    BY <2>1
<1>6. CASE TakeMount
  <2> DEFINE o == Head(inbox).arg
  <2>1. /\ o \in Mine /\ inbox' \in Seq(Frames) /\ phase = "serving"
    BY <1>0, <1>6, TakeTypes, FrameTypes DEF TakeMount
  <2>2. Made(o) \in Events
    BY <2>1, EventTypes
  <2>3. UNCHANGED <<feedVars, live>> \/ (Feed!Publish(Made(o)) /\ live' = live \cup {o})
    BY <1>6 DEF TakeMount
  <2>4. UNCHANGED <<phase, subMap, opened, sendVars, pushVars, wire>>
    BY <1>6 DEF TakeMount
  <2>5. handling' \in ToReply
    BY <1>6, AnswerTypes DEF TakeMount, ThenReply, ToReply, Calls
  <2> HIDE DEF o
  <2>6. Dull
    BY <1>0, <2>2, <2>3, <2>4, <2>5, PublishDull DEF Dull, feedVars, pushVars
  <2>7. live' \subseteq Mine
    BY <1>0, <2>1, <2>3 DEF HandsTyped
  <2>8. RestTyped'
    BY <1>0, <2>4 DEF RestTyped, sendVars, pushVars
  <2>9. QED
    BY <2>1, <2>6, <2>7, <2>8
<1>7. CASE TakeAct
  <2> DEFINE o == Head(inbox).arg
  <2>1. inbox' \in Seq(Frames)
    BY <1>0, <1>7, TakeTypes DEF TakeAct
  <2>2. UNCHANGED feedVars \/ (o \in Others \cup live /\ Feed!Publish(Changed(o)))
    BY <1>7 DEF TakeAct
  <2>3. o \in Others \cup live => Changed(o) \in Events
    BY <1>0, EventTypes DEF HandsTyped
  <2>4. UNCHANGED <<phase, subMap, live, opened, sendVars, pushVars, wire>>
    BY <1>7 DEF TakeAct
  <2>5. handling' \in ToReply
    BY <1>7, AnswerTypes DEF TakeAct, ThenReply, ToReply, Calls
  <2> HIDE DEF o
  <2>6. Dull
    BY <1>0, <2>2, <2>3, <2>4, <2>5, PublishDull DEF Dull, feedVars, pushVars
  <2>7. RestTyped' /\ live' \subseteq Mine
    BY <1>0, <2>4 DEF RestTyped, HandsTyped, sendVars, pushVars
  <2>8. QED
    BY <2>1, <2>6, <2>7
<1>8. CASE TakeAsk
  <2>1. inbox' \in Seq(Frames)
    BY <1>0, <1>8, TakeTypes DEF TakeAsk
  <2>2. handling' \in ToReply
    BY <1>8, AnswerTypes DEF TakeAsk, ThenReply, ToReply, Calls
  <2>3. Goal
    BY <1>0, <1>8, <2>1, <2>2
       DEF TakeAsk, feedVars, sendVars, pushVars, Dull, HandsTyped, RestTyped
  <2>4. QED
    BY <2>3
<1>9. CASE TakeMute
  <2>1. inbox' \in Seq(Frames)
    BY <1>0, <1>9, TakeTypes DEF TakeMute
  <2>2. Goal
    BY <1>0, <1>9, <2>1 DEF TakeMute, feedVars, sendVars, pushVars, Dull, HandsTyped, RestTyped
  <2>3. QED
    BY <2>2
<1>10. CASE Reply
  <2>1. handling \in ToReply
    BY <1>0, <1>10 DEF Reply, HandsTyped, ToMap, ToEnd
  <2>2. handling.frame \in Answers
    BY <2>1 DEF ToReply
  <2>3. Goal
    BY <1>0, <1>10, <2>2
       DEF Reply, Written, feedVars, sendVars, pushVars, Dull, HandsTyped, RestTyped
  <2>4. QED
    BY <2>3
<1>11. CASE Leave
  <2>1. inbox' \in Seq(Frames)
    BY <1>0, <1>11, TakeTypes DEF Leave
  <2>2. Goal
    BY <1>0, <1>11, <2>1
       DEF Leave, feedVars, sendVars, pushVars, Dull, HandsTyped, RestTyped, Phases
  <2>3. QED
    BY <2>2
<1>12. CASE HangUp
  <2>1. Goal
    BY <1>0, <1>12 DEF HangUp, feedVars, sendVars, Dull, HandsTyped, RestTyped, Phases
  <2>2. QED
    BY <2>1
<1>13. CASE Disconnect
  <2>1. UNCHANGED <<feedVars, live>> \/
        \E o \in live : Feed!Publish(Gone(o)) /\ live' = live \ {o}
    BY <1>13 DEF Disconnect
  <2>2. \A o \in live : Gone(o) \in Events
    BY <1>0, EventTypes DEF HandsTyped
  <2>3. UNCHANGED <<inbox, handling, subMap, opened, sendVars, pushVars, wire>>
        /\ phase' \in {phase, "closed"}
    BY <1>13 DEF Disconnect
  <2>4. Dull
    BY <1>0, <2>1, <2>2, <2>3, PublishDull DEF Dull, feedVars, pushVars
  <2>5. RestTyped' /\ live' \subseteq Mine /\ inbox' \in Seq(Frames)
    BY <1>0, <2>1, <2>3 DEF RestTyped, HandsTyped, sendVars, pushVars, Phases
  <2>6. QED
    BY <2>4, <2>5
<1>14. CASE WriteFails
  <2>1. Goal
    BY <1>0, <1>14 DEF WriteFails, feedVars, readVars, sendVars, Dull, HandsTyped, RestTyped, Pushing
  <2>2. QED
    BY <2>1
<1>15. CASE Abort
  <2>1. Goal
    BY <1>0, <1>15 DEF Abort, feedVars, readVars, sendVars, Dull, HandsTyped, RestTyped
  <2>2. QED
    BY <2>1
<1>16. ASSUME NEW o \in Others, Elsewhere(Changed(o)) PROVE Goal
  <2>1. Changed(o) \in Events /\ Feed!Publish(Changed(o))
    BY <1>16, EventTypes DEF Elsewhere
  <2>2. UNCHANGED <<readVars, sendVars, pushVars, wire>>
    BY <1>16 DEF Elsewhere
  <2>3. Dull
    BY <1>0, <2>1, <2>2, PublishDull DEF Dull, readVars, pushVars
  <2>4. RestTyped' /\ live' \subseteq Mine /\ inbox' \in Seq(Frames)
    BY <1>0, <2>2 DEF RestTyped, HandsTyped, readVars, sendVars, pushVars
  <2>5. QED
    BY <2>3, <2>4
<1>17. QED
  BY <1>1, <1>2, <1>3, <1>4, <1>5, <1>6, <1>7, <1>8, <1>9, <1>10, <1>11, <1>12, <1>13,
     <1>14, <1>15, <1>16 DEF Next, Read, PushStep

-----------------------------------------------------------------------------
(* The other steps, one lemma each: what they change, and that types stay.   *)
LEMMA SubscribeStep ==
  ASSUME Typed, TakeSubscribe
  PROVE  \E s \in Subs, name \in Names, of \in Requests :
           /\ Typed'
           /\ status[s] = "unopened" /\ status'[s] = "open" /\ ask'[s] = of
           /\ cursor'[s] = Len(log)
           /\ opened'[s] = [name |-> name, of |-> of] /\ opened'[s] # Null
           /\ handling' = [do |-> "map", name |-> name, sub |-> s]
           /\ \A t \in Subs \ {s} : /\ status'[t] = status[t] /\ ask'[t] = ask[t]
                                    /\ cursor'[t] = cursor[t] /\ opened'[t] = opened[t]
           /\ UNCHANGED <<log, got, subMap, round, batch, wire, pusher>>
<1>0. FeedTyped /\ HandsTyped /\ RestTyped
  BY DEF Typed
<1> DEFINE f == Head(inbox)
<1>1. PICK s \in Subs : /\ Feed!Begin(s, f.of)
                        /\ opened' = [opened EXCEPT ![s] = [name |-> f.arg, of |-> f.of]]
                        /\ handling' = [do |-> "map", name |-> f.arg, sub |-> s]
  BY DEF TakeSubscribe, Unopened
<1>2. f.arg \in Names /\ f.of \in Requests /\ inbox' \in Seq(Frames)
  BY <1>0, TakeTypes, FrameTypes DEF TakeSubscribe
<1>3. UNCHANGED <<phase, subMap, live, sent, eof, asked, pusher, round, batch, wire>>
  BY DEF TakeSubscribe, sendVars, pushVars
<1> HIDE DEF f
<1>4. /\ FeedTyped' /\ UNCHANGED <<log, got>>
      /\ status[s] = "unopened" /\ status'[s] = "open" /\ ask'[s] = f.of
      /\ cursor'[s] = Len(log)
      /\ \A t \in Subs \ {s} :
           status'[t] = status[t] /\ ask'[t] = ask[t] /\ cursor'[t] = cursor[t]
  BY <1>0, <1>1, <1>2, BeginTypes
<1>5. [name |-> f.arg, of |-> f.of] \in [name : Names, of : Requests]
  BY <1>2
<1>6. /\ opened' \in [Subs -> [name : Names, of : Requests] \cup {Null}]
      /\ opened'[s] = [name |-> f.arg, of |-> f.of] /\ opened'[s] # Null
      /\ \A t \in Subs \ {s} : opened'[t] = opened[t]
  BY <1>0, <1>1, <1>5, ConnectionAssumption DEF HandsTyped
<1>7. handling' \in ToMap
  BY <1>1, <1>2 DEF ToMap
<1>8. HandsTyped'
  BY <1>0, <1>2, <1>3, <1>6, <1>7 DEF HandsTyped
<1>9. RestTyped'
  BY <1>0, <1>3 DEF RestTyped
<1>10. QED
  BY <1>1, <1>2, <1>3, <1>4, <1>6, <1>8, <1>9 DEF Typed

LEMMA MapStep ==
  ASSUME Typed, MapSubscription
  PROVE  /\ Typed'
         /\ handling \in ToMap /\ handling' \in ToReply
         /\ subMap'[handling.name] = handling.sub
         /\ \A n \in Names \ {handling.name} : subMap'[n] = subMap[n]
         /\ UNCHANGED <<log, status, ask, cursor, got, opened, round, batch, wire, pusher>>
<1>0. FeedTyped /\ HandsTyped /\ RestTyped
  BY DEF Typed
<1>1. handling \in ToMap
  BY <1>0 DEF MapSubscription, HandsTyped, ToEnd, ToReply
<1>2. handling.name \in Names /\ handling.sub \in Subs
  BY <1>1 DEF ToMap
<1>3. handling' \in ToReply
  BY <1>2, AnswerTypes DEF MapSubscription, ThenReply, ToReply, Calls
<1>4. /\ subMap' = [subMap EXCEPT ![handling.name] = handling.sub]
      /\ UNCHANGED <<log, status, ask, cursor, got, phase, inbox, live, opened,
                     sent, eof, asked, pusher, round, batch, wire>>
  BY DEF MapSubscription, feedVars, sendVars, pushVars
<1>5. HandsTyped'
  BY <1>0, <1>2, <1>3, <1>4 DEF HandsTyped
<1>6. FeedTyped' /\ RestTyped'
  BY <1>0, <1>4 DEF FeedTyped, RestTyped
<1>7. QED
  BY <1>0, <1>1, <1>2, <1>3, <1>4, <1>5, <1>6 DEF Typed, HandsTyped

LEMMA UnsubscribeStep ==
  ASSUME Typed, TakeUnsubscribe
  PROVE  \E name \in Names :
           /\ Typed'
           /\ handling' = IF subMap[name] = Null THEN Null
                          ELSE [do |-> "end", sub |-> subMap[name]]
           /\ subMap'[name] = Null /\ \A n \in Names \ {name} : subMap'[n] = subMap[n]
           /\ UNCHANGED <<log, status, ask, cursor, got, opened, round, batch, wire, pusher>>
<1>0. FeedTyped /\ HandsTyped /\ RestTyped
  BY DEF Typed
<1> DEFINE name == Head(inbox).arg
<1>1. name \in Names /\ inbox' \in Seq(Frames)
  BY <1>0, TakeTypes, FrameTypes DEF TakeUnsubscribe
<1>2. /\ handling' = IF subMap[name] = Null THEN Null
                     ELSE [do |-> "end", sub |-> subMap[name]]
      /\ subMap' = [subMap EXCEPT ![name] = Null]
      /\ UNCHANGED <<log, status, ask, cursor, got, phase, live, opened,
                     sent, eof, asked, pusher, round, batch, wire>>
  BY DEF TakeUnsubscribe, feedVars, sendVars, pushVars
<1> HIDE DEF name
<1>3. handling' \in {Null} \cup ToEnd
  BY <1>0, <1>1, <1>2 DEF HandsTyped, ToEnd
<1>4. HandsTyped'
  BY <1>0, <1>1, <1>2, <1>3 DEF HandsTyped
<1>5. FeedTyped' /\ RestTyped'
  BY <1>0, <1>2 DEF FeedTyped, RestTyped
<1>6. QED
  BY <1>0, <1>1, <1>2, <1>4, <1>5 DEF Typed, HandsTyped

LEMMA EndStep ==
  ASSUME Typed, EndSubscription
  PROVE  /\ Typed'
         /\ handling \in ToEnd /\ handling' = Null
         /\ status[handling.sub] = "open" /\ status'[handling.sub] = "closed"
         /\ \A t \in Subs \ {handling.sub} : status'[t] = status[t] /\ ask'[t] = ask[t]
         /\ UNCHANGED <<log, cursor, got, subMap, opened, round, batch, wire, pusher>>
<1>0. FeedTyped /\ HandsTyped /\ RestTyped
  BY DEF Typed
<1>1. handling \in ToEnd
  BY <1>0 DEF EndSubscription, HandsTyped, ToMap, ToReply
<1>2. handling.sub \in Subs
  BY <1>1 DEF ToEnd
<1>3. /\ FeedTyped' /\ UNCHANGED <<log, cursor, got>>
      /\ status[handling.sub] = "open" /\ status'[handling.sub] = "closed"
      /\ \A t \in Subs \ {handling.sub} : status'[t] = status[t] /\ ask'[t] = ask[t]
  BY <1>0, <1>2, EndTypes DEF EndSubscription
<1>4. handling' = Null /\ UNCHANGED <<phase, inbox, subMap, live, opened, sent, eof, asked,
                                      pusher, round, batch, wire>>
  BY DEF EndSubscription, sendVars, pushVars
<1>5. HandsTyped' /\ RestTyped'
  BY <1>0, <1>4 DEF HandsTyped, RestTyped
<1>6. QED
  BY <1>1, <1>3, <1>4, <1>5 DEF Typed

LEMMA WakeStep ==
  ASSUME Typed, Wake
  PROVE  /\ Typed'
         /\ \A n \in Names, s \in Subs : <<n, s>> \in round' => subMap[n] = s /\ subMap[n] # Null
         /\ UNCHANGED <<log, status, ask, cursor, got, subMap, opened, handling, batch, wire, pusher>>
<1>0. FeedTyped /\ HandsTyped /\ RestTyped
  BY DEF Typed
<1>1. round' = {<<n, subMap[n]>> : n \in {m \in Names : subMap[m] # Null}}
  BY DEF Wake
<1>2. UNCHANGED <<log, status, ask, cursor, got, phase, inbox, handling, subMap, live, opened,
                  sent, eof, asked, pusher, batch, wire>>
  BY DEF Wake, feedVars, readVars, sendVars
<1>3. \A n \in {m \in Names : subMap[m] # Null} : subMap[n] \in Subs
  BY <1>0 DEF HandsTyped
<1>4. round' \subseteq Names \X Subs
  BY <1>1, <1>3
<1>5. HandsTyped' /\ FeedTyped' /\ RestTyped'
  BY <1>0, <1>2, <1>4 DEF HandsTyped, FeedTyped, RestTyped
<1>6. ASSUME NEW n \in Names, NEW s \in Subs, <<n, s>> \in round'
      PROVE  subMap[n] = s /\ subMap[n] # Null
  BY <1>1, <1>6
<1>7. QED
  BY <1>2, <1>5, <1>6 DEF Typed

LEMMA WriteStep ==
  ASSUME Typed, WriteOne
  PROVE  /\ Typed'
         /\ batch \in Batches
         /\ wire' = Append(wire, Push(batch.name, batch.sub, Head(batch.events)))
         /\ \/ batch' = Null /\ Len(batch.events) = 1
            \/ /\ batch' \in Batches /\ batch'.name = batch.name /\ batch'.sub = batch.sub
               /\ batch'.events = Tail(batch.events)
         /\ UNCHANGED <<log, status, ask, cursor, got, subMap, opened, handling, round, pusher>>
<1>0. FeedTyped /\ HandsTyped /\ RestTyped
  BY DEF Typed
<1>1. batch \in Batches
  BY <1>0 DEF WriteOne, HandsTyped
<1>2. /\ batch.name \in Names /\ batch.sub \in Subs
      /\ batch.events \in Seq(Nat) /\ batch.events # << >> /\ Head(batch.events) \in Nat
  BY <1>1 DEF Batches
<1>3. Push(batch.name, batch.sub, Head(batch.events)) \in WireFrames
  BY <1>2 DEF Push, WireFrames
<1>4. /\ wire' = Append(wire, Push(batch.name, batch.sub, Head(batch.events)))
      /\ batch' = IF Len(batch.events) = 1 THEN Null ELSE [batch EXCEPT !.events = Tail(@)]
      /\ UNCHANGED <<log, status, ask, cursor, got, phase, inbox, handling, subMap, live, opened,
                     sent, eof, asked, pusher, round>>
  BY DEF WriteOne, feedVars, readVars, sendVars
<1>5. \/ batch' = Null /\ Len(batch.events) = 1
      \/ /\ batch' \in Batches /\ batch'.name = batch.name /\ batch'.sub = batch.sub
         /\ batch'.events = Tail(batch.events)
  <2>1. CASE Len(batch.events) = 1
    BY <1>4, <2>1
  <2>2. CASE Len(batch.events) # 1
    <3>1. Tail(batch.events) \in Seq(Nat) /\ Tail(batch.events) # << >>
      <4>1. Len(batch.events) \in Nat /\ Len(batch.events) # 0
        BY <1>2
      <4>2. Tail(batch.events) \in Seq(Nat) /\ Len(Tail(batch.events)) = Len(batch.events) - 1
        BY <1>2
      <4>3. Len(Tail(batch.events)) # 0
        BY <2>2, <4>1, <4>2
      <4>4. Tail(batch.events) # << >>
        <5> SUFFICES ASSUME Tail(batch.events) = << >> PROVE FALSE
          OBVIOUS
        <5>1. Len(<< >>) = 0
          OBVIOUS
        <5>2. QED
          BY <4>3, <5>1
      <4>5. QED
        BY <4>2, <4>4
    <3>2. batch' = [batch EXCEPT !.events = Tail(batch.events)]
      BY <1>4, <2>2
    <3>3. QED
      BY <1>1, <3>1, <3>2 DEF Batches
  <2>3. QED
    BY <2>1, <2>2
<1>6. HandsTyped'
  BY <1>0, <1>3, <1>4, <1>5 DEF HandsTyped
<1>7. FeedTyped' /\ RestTyped'
  BY <1>0, <1>4 DEF FeedTyped, RestTyped
<1>8. QED
  BY <1>1, <1>4, <1>5, <1>6, <1>7 DEF Typed

LEMMA DrainStep ==
  ASSUME Typed, NEW n \in Names, NEW s \in Subs, DrainOne(n, s)
  PROVE  /\ Typed'
         /\ batch = Null /\ <<n, s>> \in round /\ round' \subseteq round
         /\ UNCHANGED <<log, status, ask, subMap, opened, handling, wire, pusher>>
         /\ \/ UNCHANGED <<cursor, got, batch>>
            \/ \E fresh \in Seq(Nat) :
                 /\ status[s] = "open"
                 /\ Feed!Ascending(fresh) /\ Range(fresh) = Feed!Pending(s)
                 /\ got'[s] = got[s] \o fresh /\ cursor'[s] = Len(log)
                 /\ \A t \in Subs \ {s} : got'[t] = got[t] /\ cursor'[t] = cursor[t]
                 /\ \/ batch' = Null /\ fresh = << >>
                    \/ batch' = [name |-> n, sub |-> s, events |-> fresh] /\ batch' \in Batches
<1>0. FeedTyped /\ HandsTyped /\ RestTyped
  BY DEF Typed
<1>1. /\ batch = Null /\ <<n, s>> \in round /\ round' = round \ {<<n, s>>}
      /\ UNCHANGED <<phase, inbox, handling, subMap, live, opened, sent, eof, asked, pusher, wire>>
  BY DEF DrainOne, readVars, sendVars
<1>2. CASE status[s] # "open"
  <2>1. UNCHANGED <<log, status, ask, cursor, got, batch>>
    BY <1>2 DEF DrainOne, feedVars
  <2>2. Typed'
    BY <1>0, <1>1, <2>1 DEF Typed, FeedTyped, HandsTyped, RestTyped
  <2>3. QED
    BY <1>1, <2>1, <2>2
<1>3. CASE status[s] = "open"
  <2>1. PICK fresh \in Seq(Nat) :
           /\ FeedTyped' /\ UNCHANGED <<log, status, ask>>
           /\ status[s] = "open"
           /\ Feed!Ascending(fresh) /\ Range(fresh) = Feed!Pending(s)
           /\ got'[s] = got[s] \o fresh /\ cursor'[s] = Len(log)
           /\ SubSeq(got'[s], Len(got[s]) + 1, Len(got'[s])) = fresh
           /\ \A t \in Subs \ {s} : got'[t] = got[t] /\ cursor'[t] = cursor[t]
    BY <1>0, <1>3, DeliverTypes DEF DrainOne
  <2>2. batch' = IF fresh = << >> THEN Null ELSE [name |-> n, sub |-> s, events |-> fresh]
    BY <1>3, <2>1 DEF DrainOne
  <2>3. fresh # << >> => [name |-> n, sub |-> s, events |-> fresh] \in Batches
    BY DEF Batches
  <2>4. Typed'
    BY <1>0, <1>1, <2>1, <2>2, <2>3 DEF Typed, HandsTyped, RestTyped
  <2>5. QED
    BY <1>1, <2>1, <2>2, <2>3, <2>4
<1>4. QED
  BY <1>2, <1>3

LEMMA TypedStep == Typed /\ [Next]_vars => Typed'
<1> SUFFICES ASSUME Typed, [Next]_vars PROVE Typed'
  OBVIOUS
<1>1. CASE Dull /\ inbox' \in Seq(Frames) /\ live' \subseteq Mine /\ RestTyped'
  BY <1>1, DullTypes DEF Typed
<1>2. CASE TakeSubscribe
  BY <1>2, SubscribeStep
<1>3. CASE MapSubscription
  BY <1>3, MapStep
<1>4. CASE TakeUnsubscribe
  BY <1>4, UnsubscribeStep
<1>5. CASE EndSubscription
  BY <1>5, EndStep
<1>6. CASE Wake
  BY <1>6, WakeStep
<1>7. CASE WriteOne
  BY <1>7, WriteStep
<1>8. CASE \E n \in Names, s \in Subs : DrainOne(n, s)
  BY <1>8, DrainStep
<1>9. QED
  BY <1>1, <1>2, <1>3, <1>4, <1>5, <1>6, <1>7, <1>8, StepKinds

-----------------------------------------------------------------------------
(* sub_map, what the read loop has in hand and the server's books agree.     *)
Mapping == handling # Null /\ handling.do = "map"
Ending  == handling # Null /\ handling.do = "end"

OpenedOK == \A s \in Subs :
  /\ status[s] = "unopened" <=> opened[s] = Null
  /\ status[s] = "open" => ask[s] = opened[s].of

MapOK ==
  /\ \A n \in Names : subMap[n] # Null =>
       status[subMap[n]] = "open" /\ opened[subMap[n]].name = n
  /\ Mapping => status[handling.sub] = "open" /\ opened[handling.sub].name = handling.name
  /\ Ending => status[handling.sub] = "open" /\ \A n \in Names : subMap[n] # handling.sub

Books == Typed /\ OpenedOK /\ MapOK

LEMMA BooksStep == Books /\ [Next]_vars => OpenedOK' /\ MapOK'
<1> SUFFICES ASSUME Books, [Next]_vars PROVE OpenedOK' /\ MapOK'
  OBVIOUS
<1>0. Typed /\ OpenedOK /\ MapOK /\ \A n \in Names : subMap[n] \in Subs \cup {Null}
  BY DEF Books, Typed, HandsTyped
<1>1. CASE Dull
  <2>1. ~Mapping' \/ handling' = handling
    BY <1>1 DEF Dull, Mapping, ToReply
  <2>2. ~Ending' \/ handling' = handling
    BY <1>1 DEF Dull, Ending, ToReply
  <2>3. OpenedOK'
    BY <1>0, <1>1 DEF Dull, OpenedOK
  <2>4. MapOK'
    BY <1>0, <1>1, <2>1, <2>2 DEF Dull, MapOK, Mapping, Ending
  <2>5. QED
    BY <2>3, <2>4
<1>2. CASE TakeSubscribe
  <2>1. PICK s \in Subs, name \in Names, of \in Requests :
           /\ status[s] = "unopened" /\ status'[s] = "open" /\ ask'[s] = of
           /\ opened'[s] = [name |-> name, of |-> of] /\ opened'[s] # Null
           /\ handling' = [do |-> "map", name |-> name, sub |-> s]
           /\ \A t \in Subs \ {s} : /\ status'[t] = status[t] /\ ask'[t] = ask[t]
                                    /\ opened'[t] = opened[t]
           /\ UNCHANGED subMap
    BY <1>0, <1>2, SubscribeStep
  <2>2. OpenedOK'
    BY <1>0, <2>1 DEF OpenedOK
  <2>3. \A n \in Names : subMap[n] # Null => subMap[n] \in Subs \ {s}
    BY <1>0, <2>1 DEF MapOK
  <2>4. MapOK'
    BY <1>0, <2>1, <2>3 DEF MapOK, Mapping, Ending
  <2>5. QED
    BY <2>2, <2>4
<1>3. CASE MapSubscription
  <2>1. /\ handling \in ToMap /\ handling' \in ToReply
        /\ subMap'[handling.name] = handling.sub
        /\ \A n \in Names \ {handling.name} : subMap'[n] = subMap[n]
        /\ UNCHANGED <<status, ask, opened>>
    BY <1>0, <1>3, MapStep
  <2>2. OpenedOK'
    BY <1>0, <2>1 DEF OpenedOK
  <2>3. status[handling.sub] = "open" /\ opened[handling.sub].name = handling.name
    BY <1>0, <1>3 DEF MapOK, Mapping, MapSubscription
  <2>4. ~Mapping' /\ ~Ending'
    BY <2>1 DEF ToReply, Mapping, Ending
  <2>5. MapOK'
    BY <1>0, <2>1, <2>3, <2>4 DEF MapOK
  <2>6. QED
    BY <2>2, <2>5
<1>4. CASE TakeUnsubscribe
  <2>1. PICK name \in Names :
           /\ handling' = IF subMap[name] = Null THEN Null
                          ELSE [do |-> "end", sub |-> subMap[name]]
           /\ subMap'[name] = Null /\ \A n \in Names \ {name} : subMap'[n] = subMap[n]
           /\ UNCHANGED <<status, ask, opened>>
    BY <1>0, <1>4, UnsubscribeStep
  <2>2. OpenedOK'
    BY <1>0, <2>1 DEF OpenedOK
  <2>3. ~Mapping'
    BY <2>1 DEF Mapping
  <2>4. Ending' => /\ handling'.sub = subMap[name] /\ subMap[name] # Null
    BY <2>1 DEF Ending
  <2>5. \A n \in Names : subMap'[n] # Null => n # name /\ subMap'[n] = subMap[n]
    BY <2>1
  <2>6. Ending' => status[handling'.sub] = "open" /\ opened[handling'.sub].name = name
    BY <1>0, <2>4 DEF MapOK
  <2>7. Ending' => \A n \in Names : subMap'[n] # handling'.sub
    BY <1>0, <2>1, <2>4, <2>5, <2>6 DEF MapOK
  <2>8. MapOK'
    BY <1>0, <2>1, <2>3, <2>5, <2>6, <2>7 DEF MapOK
  <2>9. QED
    BY <2>2, <2>8
<1>5. CASE EndSubscription
  <2>1. /\ handling \in ToEnd /\ handling' = Null
        /\ status[handling.sub] = "open" /\ status'[handling.sub] = "closed"
        /\ \A t \in Subs \ {handling.sub} : status'[t] = status[t] /\ ask'[t] = ask[t]
        /\ UNCHANGED <<subMap, opened>>
    BY <1>0, <1>5, EndStep
  <2>2. handling.sub \in Subs
    BY <2>1 DEF ToEnd
  <2>3. OpenedOK'
    BY <1>0, <2>1, <2>2 DEF OpenedOK
  <2>4. \A n \in Names : subMap[n] # handling.sub
    BY <1>0, <1>5 DEF MapOK, Ending, EndSubscription
  <2>5. MapOK'
    BY <1>0, <2>1, <2>4 DEF MapOK, Mapping, Ending
  <2>6. QED
    BY <2>3, <2>5
<1>6. CASE UNCHANGED <<status, ask, subMap, opened, handling>>
  BY <1>0, <1>6 DEF OpenedOK, MapOK, Mapping, Ending
<1>7. CASE Wake
  BY <1>0, <1>6, <1>7, WakeStep
<1>8. CASE WriteOne
  BY <1>0, <1>6, <1>8, WriteStep
<1>9. ASSUME NEW n \in Names, NEW s \in Subs, DrainOne(n, s) PROVE OpenedOK' /\ MapOK'
  BY <1>0, <1>6, <1>9, DrainStep
<1>10. QED
  BY <1>0, <1>1, <1>2, <1>3, <1>4, <1>5, <1>7, <1>8, <1>9, StepKinds

LEMMA BooksInit == Init => Books
<1> SUFFICES ASSUME Init PROVE Books
  OBVIOUS
<1>1. /\ log = << >>
      /\ status = [s \in Subs |-> "unopened"] /\ ask = [s \in Subs |-> {}]
      /\ cursor = [s \in Subs |-> 0] /\ got = [s \in Subs |-> << >>]
  BY DEF Init, Feed!Init
<1>2. FeedTyped
  BY <1>1 DEF FeedTyped
<1>3. HandsTyped /\ RestTyped
  <2>1. /\ phase = "greeting" /\ inbox = << >> /\ sent = 0 /\ eof = FALSE /\ handling = Null
        /\ subMap = [n \in Names |-> Null]
        /\ pusher = "off" /\ round = {} /\ batch = Null
        /\ wire = << >> /\ live = {}
        /\ opened = [s \in Subs |-> Null]
    BY DEF Init
  <2>2. MaxFrames \in Nat
    BY ConnectionAssumption
  <2>3. inbox \in Seq(Frames) /\ wire \in Seq(WireFrames)
    BY <2>1
  <2>4. phase \in Phases
    BY <2>1 DEF Phases
  <2>5. subMap \in [Names -> Subs \cup {Null}]
        /\ opened \in [Subs -> [name : Names, of : Requests] \cup {Null}]
    BY <2>1
  <2>6. HandsTyped
    BY <2>1, <2>3, <2>5 DEF HandsTyped
  <2>7. sent \in 0 .. MaxFrames
    BY <2>1, <2>2
  <2>8. eof \in BOOLEAN
    BY <2>1, Zenon
  <2>9. QED
    BY <2>1, <2>4, <2>6, <2>7, <2>8 DEF RestTyped
<1>4. OpenedOK /\ MapOK
  BY <1>1 DEF Init, OpenedOK, MapOK, Mapping, Ending
<1>5. QED
  BY <1>2, <1>3, <1>4 DEF Books, Typed

LEMMA BooksInvariant == Books /\ [Next]_vars => Books'
BY TypedStep, BooksStep DEF Books

(* A client id always maps to a subscription that is open at the server and   *)
(* was opened for that id, and no two ids share one, whatever the read loop   *)
(* and the push task are in the middle of.                                    *)
THEOREM MappedCorrect == Spec => []MappedIsOpen
<1>1. Books => MappedIsOpen
  BY TypedTypeOK DEF Books, MapOK, MappedIsOpen
<1>2. QED
  BY BooksInit, BooksInvariant, <1>1, PTL DEF Spec

-----------------------------------------------------------------------------
(* What a step keeps: the log's past, what a subscription was opened for and *)
(* what it was handed.                                                       *)
Keeps ==
  /\ \A p \in DOMAIN log : p \in DOMAIN log' /\ log'[p] = log[p]
  /\ \A s \in Subs : /\ opened[s] # Null => opened'[s] = opened[s]
                     /\ Range(got[s]) \subseteq Range(got'[s])

LEMMA AppendFacts ==
  ASSUME NEW S, NEW seq \in Seq(S), NEW x \in S
  PROVE  /\ DOMAIN seq = 1 .. Len(seq) /\ Len(seq) \in Nat
         /\ DOMAIN Append(seq, x) = 1 .. Len(seq) + 1
         /\ Append(seq, x)[Len(seq) + 1] = x
         /\ \A i \in DOMAIN seq : /\ i \in DOMAIN Append(seq, x) /\ i # Len(seq) + 1
                                 /\ Append(seq, x)[i] = seq[i]
         /\ \A i \in DOMAIN Append(seq, x) : i = Len(seq) + 1 \/ i \in DOMAIN seq
OBVIOUS

LEMMA ConcatFacts ==
  ASSUME NEW a \in Seq(Nat), NEW b \in Seq(Nat)
  PROVE  /\ Range(a \o b) = Range(a) \cup Range(b)
         /\ Feed!Ascending(a) /\ Feed!Ascending(b)
              /\ (\A x \in Range(a), y \in Range(b) : x < y) => Feed!Ascending(a \o b)
<1>1. /\ Len(a) \in Nat /\ Len(b) \in Nat
      /\ DOMAIN a = 1 .. Len(a) /\ DOMAIN b = 1 .. Len(b)
      /\ DOMAIN (a \o b) = 1 .. Len(a) + Len(b)
      /\ \A i \in DOMAIN a : a[i] \in Nat
      /\ \A i \in DOMAIN b : b[i] \in Nat
  OBVIOUS
<1>2. \A i \in DOMAIN a : i \in DOMAIN (a \o b) /\ (a \o b)[i] = a[i]
  BY <1>1
<1>3. \A i \in DOMAIN b : Len(a) + i \in DOMAIN (a \o b) /\ (a \o b)[Len(a) + i] = b[i]
  BY <1>1
<1>4. \A i \in DOMAIN (a \o b) : \/ i \in DOMAIN a /\ (a \o b)[i] = a[i]
                                \/ /\ i > Len(a) /\ i - Len(a) \in DOMAIN b
                                   /\ (a \o b)[i] = b[i - Len(a)]
  BY <1>1
<1>5. Range(a \o b) = Range(a) \cup Range(b)
  <2>1. Range(a \o b) \subseteq Range(a) \cup Range(b)
    BY <1>4 DEF Range
  <2>2. Range(a) \subseteq Range(a \o b)
    BY <1>2 DEF Range
  <2>3. Range(b) \subseteq Range(a \o b)
    BY <1>3 DEF Range
  <2>4. QED
    BY <2>1, <2>2, <2>3
<1>6. ASSUME Feed!Ascending(a), Feed!Ascending(b), \A x \in Range(a), y \in Range(b) : x < y
      PROVE  Feed!Ascending(a \o b)
  <2> SUFFICES ASSUME NEW i \in DOMAIN (a \o b), NEW j \in DOMAIN (a \o b), i < j
               PROVE  (a \o b)[i] < (a \o b)[j]
    BY DEF Feed!Ascending
  <2>1. CASE i \in DOMAIN a /\ j \in DOMAIN a
    BY <1>2, <1>6, <2>1 DEF Feed!Ascending
  <2>2. CASE i \in DOMAIN a /\ j \notin DOMAIN a
    <3>1. a[i] \in Range(a)
      BY <2>2 DEF Range
    <3>2. j - Len(a) \in DOMAIN b /\ (a \o b)[j] = b[j - Len(a)]
      BY <1>4, <2>2
    <3>3. b[j - Len(a)] \in Range(b)
      BY <3>2 DEF Range
    <3>4. QED
      BY <1>2, <1>6, <2>2, <3>1, <3>2, <3>3
  <2>3. CASE i \notin DOMAIN a
    <3>1. i > Len(a) /\ j \notin DOMAIN a
      BY <1>1, <1>4, <2>3
    <3>2. /\ i - Len(a) \in DOMAIN b /\ (a \o b)[i] = b[i - Len(a)]
          /\ j - Len(a) \in DOMAIN b /\ (a \o b)[j] = b[j - Len(a)]
      BY <1>4, <2>3, <3>1
    <3>3. i - Len(a) < j - Len(a)
      BY <1>1
    <3>4. QED
      BY <1>6, <3>2, <3>3 DEF Feed!Ascending
  <2>4. QED
    BY <2>1, <2>2, <2>3
<1>7. QED
  BY <1>5, <1>6

LEMMA HeadTail ==
  ASSUME NEW seq \in Seq(Nat), seq # << >>
  PROVE  /\ Head(seq) \in Nat /\ Tail(seq) \in Seq(Nat)
         /\ Range(seq) = {Head(seq)} \cup Range(Tail(seq))
         /\ Head(seq) \in Range(seq) /\ Range(Tail(seq)) \subseteq Range(seq)
         /\ Len(seq) = 1 => Range(seq) = {Head(seq)}
         /\ Feed!Ascending(seq) => /\ Feed!Ascending(Tail(seq))
                                  /\ \A x \in Range(Tail(seq)) : Head(seq) < x
<1>1. /\ Len(seq) \in Nat /\ Len(seq) # 0 /\ DOMAIN seq = 1 .. Len(seq)
      /\ \A i \in 1 .. Len(seq) : seq[i] \in Nat
  OBVIOUS
<1>2. /\ Tail(seq) \in Seq(Nat) /\ DOMAIN Tail(seq) = 1 .. Len(seq) - 1
      /\ \A i \in 1 .. Len(seq) - 1 : Tail(seq)[i] = seq[i + 1]
  BY <1>1
<1>3. Head(seq) = seq[1] /\ 1 \in DOMAIN seq
  BY <1>1
<1>4. ASSUME NEW i \in DOMAIN seq, i # 1
      PROVE  i - 1 \in DOMAIN Tail(seq) /\ seq[i] = Tail(seq)[i - 1]
  <2>1. i \in 1 .. Len(seq)
    BY <1>1, <1>4
  <2>2. i - 1 \in 1 .. Len(seq) - 1 /\ (i - 1) + 1 = i
    BY <1>1, <1>4, <2>1
  <2>3. QED
    BY <1>2, <2>2
<1>5. \A i \in DOMAIN Tail(seq) : i + 1 \in DOMAIN seq /\ i \in Nat /\ i # 0
  BY <1>1, <1>2
<1>6. Range(seq) = {Head(seq)} \cup Range(Tail(seq))
  <2>1. Range(seq) \subseteq {Head(seq)} \cup Range(Tail(seq))
    BY <1>3, <1>4 DEF Range
  <2>2. Head(seq) \in Range(seq)
    BY <1>3 DEF Range
  <2>3. \A i \in DOMAIN Tail(seq) : Tail(seq)[i] = seq[i + 1]
    BY <1>2
  <2>4. Range(Tail(seq)) \subseteq Range(seq)
    BY <1>5, <2>3 DEF Range
  <2>5. QED
    BY <2>1, <2>2, <2>4
<1>7. Len(seq) = 1 => Range(seq) = {Head(seq)}
  BY <1>1, <1>3 DEF Range
<1>8. ASSUME Feed!Ascending(seq)
      PROVE  Feed!Ascending(Tail(seq)) /\ \A x \in Range(Tail(seq)) : Head(seq) < x
  <2>1. Feed!Ascending(Tail(seq))
    BY <1>2, <1>5, <1>8 DEF Feed!Ascending
  <2>2. \A i \in DOMAIN Tail(seq) : seq[1] < Tail(seq)[i]
    BY <1>2, <1>3, <1>5, <1>8 DEF Feed!Ascending
  <2>3. QED
    BY <1>3, <2>1, <2>2 DEF Range
<1>9. QED
  BY <1>1, <1>2, <1>3, <1>6, <1>7, <1>8

LEMMA KeepsStep == Books /\ [Next]_vars => Keeps
<1> SUFFICES ASSUME Books, [Next]_vars PROVE Keeps
  OBVIOUS
<1>0. Typed /\ OpenedOK /\ log \in Seq(Events) /\ got \in [Subs -> Seq(Nat)]
  BY DEF Books, Typed, FeedTyped
<1>1. CASE Dull
  <2>1. \A p \in DOMAIN log : p \in DOMAIN log' /\ log'[p] = log[p]
    BY <1>0, <1>1, AppendFacts DEF Dull
  <2>2. QED
    BY <1>1, <2>1 DEF Dull, Keeps
<1>2. CASE TakeSubscribe
  <2>1. PICK s \in Subs, name \in Names, of \in Requests :
          /\ status[s] = "unopened"
          /\ \A t \in Subs \ {s} : opened'[t] = opened[t]
          /\ UNCHANGED <<log, got>>
    BY <1>0, <1>2, SubscribeStep
  <2>2. opened[s] = Null
    BY <1>0, <2>1 DEF OpenedOK
  <2>3. QED
    BY <2>1, <2>2 DEF Keeps
<1>3. CASE UNCHANGED <<log, got, opened>>
  BY <1>3 DEF Keeps
<1>4. ASSUME NEW n \in Names, NEW s \in Subs, DrainOne(n, s) PROVE Keeps
  <2>1. UNCHANGED <<log, opened>>
    BY <1>0, <1>4, DrainStep
  <2>2. UNCHANGED got \/ \E fresh \in Seq(Nat) :
          got'[s] = got[s] \o fresh /\ \A t \in Subs \ {s} : got'[t] = got[t]
    BY <1>0, <1>4, DrainStep
  <2>3. \A t \in Subs : Range(got[t]) \subseteq Range(got'[t])
    BY <1>0, <2>2, ConcatFacts
  <2>4. QED
    BY <2>1, <2>3 DEF Keeps
<1>5. CASE MapSubscription
  BY <1>0, <1>3, <1>5, MapStep
<1>6. CASE TakeUnsubscribe
  BY <1>0, <1>3, <1>6, UnsubscribeStep
<1>7. CASE EndSubscription
  BY <1>0, <1>3, <1>7, EndStep
<1>8. CASE Wake
  BY <1>0, <1>3, <1>8, WakeStep
<1>9. CASE WriteOne
  BY <1>0, <1>3, <1>9, WriteStep
<1>10. QED
  BY <1>0, <1>1, <1>2, <1>4, <1>5, <1>6, <1>7, <1>8, <1>9, StepKinds

-----------------------------------------------------------------------------
(* Every event on its way to the client, in the round, in the push task's    *)
(* hands or on the wire, is one its subscription was handed, under the id it *)
(* was opened for.                                                           *)
HandedAsked == \A s \in Subs : \A p \in Range(got[s]) :
  p \in DOMAIN log /\ opened[s] # Null /\ log[p] \in opened[s].of

RoundNamed == \A n \in Names, s \in Subs :
  <<n, s>> \in round => opened[s] # Null /\ opened[s].name = n

BatchNamed == batch # Null =>
  /\ opened[batch.sub] # Null /\ opened[batch.sub].name = batch.name
  /\ Range(batch.events) \subseteq Range(got[batch.sub])

WireNamed == \A i \in DOMAIN wire : wire[i].reply = "Event" =>
  /\ wire[i].sub \in Subs
  /\ opened[wire[i].sub] # Null /\ opened[wire[i].sub].name = wire[i].name
  /\ wire[i].pos \in Range(got[wire[i].sub])

Named == Books /\ HandedAsked /\ RoundNamed /\ BatchNamed /\ WireNamed

LEMMA HandedStep == Named /\ [Next]_vars => HandedAsked'
<1> SUFFICES ASSUME Named, [Next]_vars PROVE HandedAsked'
  OBVIOUS
<1>0. Books /\ HandedAsked /\ Keeps /\ Typed /\ OpenedOK /\ got \in [Subs -> Seq(Nat)]
  BY KeepsStep DEF Named, Books, Typed, FeedTyped
<1>1. CASE UNCHANGED got
  BY <1>0, <1>1 DEF HandedAsked, Keeps
<1>2. ASSUME NEW n \in Names, NEW s \in Subs, DrainOne(n, s) PROVE HandedAsked'
  <2>1. UNCHANGED <<log, opened>>
    BY <1>0, <1>2, DrainStep
  <2>2. UNCHANGED got \/ \E fresh \in Seq(Nat) :
          /\ status[s] = "open" /\ Range(fresh) = Feed!Pending(s)
          /\ got'[s] = got[s] \o fresh /\ \A t \in Subs \ {s} : got'[t] = got[t]
    BY <1>0, <1>2, DrainStep
  <2>3. CASE UNCHANGED got
    BY <1>1, <2>3
  <2>4. ASSUME NEW fresh \in Seq(Nat),
               status[s] = "open", Range(fresh) = Feed!Pending(s),
               got'[s] = got[s] \o fresh, \A t \in Subs \ {s} : got'[t] = got[t]
        PROVE  HandedAsked'
    <3>1. opened[s] # Null /\ ask[s] = opened[s].of
      BY <1>0, <2>4 DEF OpenedOK
    <3>2. \A p \in Feed!Pending(s) : p \in DOMAIN log /\ log[p] \in opened[s].of
      BY <3>1 DEF Feed!Pending
    <3>3. Range(got'[s]) = Range(got[s]) \cup Feed!Pending(s)
      BY <1>0, <2>4, ConcatFacts
    <3>4. QED
      BY <1>0, <2>1, <2>4, <3>1, <3>2, <3>3 DEF HandedAsked
  <2>5. QED
    BY <2>2, <2>3, <2>4
<1>3. QED
  BY <1>0, <1>1, <1>2, StepKinds, SubscribeStep, MapStep, UnsubscribeStep, EndStep, WakeStep,
     WriteStep DEF Dull

LEMMA NamesStep == Named /\ [Next]_vars => RoundNamed' /\ BatchNamed' /\ WireNamed'
<1> SUFFICES ASSUME Named, [Next]_vars PROVE RoundNamed' /\ BatchNamed' /\ WireNamed'
  OBVIOUS
<1>0. /\ Books /\ Keeps /\ Typed /\ OpenedOK /\ MapOK /\ RoundNamed /\ BatchNamed /\ WireNamed
      /\ wire \in Seq(WireFrames) /\ got \in [Subs -> Seq(Nat)]
      /\ batch \in {Null} \cup Batches /\ round \subseteq Names \X Subs
  BY KeepsStep DEF Named, Books, Typed, FeedTyped, HandsTyped
<1>1. round' \subseteq round => RoundNamed'
  BY <1>0 DEF RoundNamed, Keeps
<1>2. UNCHANGED batch => BatchNamed'
  <2> SUFFICES ASSUME UNCHANGED batch, batch # Null PROVE BatchNamed'
    BY DEF BatchNamed
  <2>1. batch.sub \in Subs
    BY <1>0 DEF Batches
  <2>2. QED
    BY <1>0, <2>1 DEF BatchNamed, Keeps
<1>3. UNCHANGED wire => WireNamed'
  BY <1>0 DEF WireNamed, Keeps
<1>4. ASSUME NEW f \in WireFrames, wire' = Append(wire, f),
             f.reply = "Event" => /\ f.sub \in Subs
                                  /\ opened'[f.sub] # Null /\ opened'[f.sub].name = f.name
                                  /\ f.pos \in Range(got'[f.sub])
      PROVE  WireNamed'
  <2> SUFFICES ASSUME NEW i \in DOMAIN wire', wire'[i].reply = "Event"
               PROVE  /\ wire'[i].sub \in Subs
                      /\ opened'[wire'[i].sub] # Null
                      /\ opened'[wire'[i].sub].name = wire'[i].name
                      /\ wire'[i].pos \in Range(got'[wire'[i].sub])
    BY DEF WireNamed
  <2>1. \/ wire'[i] = f
        \/ i \in DOMAIN wire /\ wire'[i] = wire[i]
    BY <1>0, <1>4, AppendFacts
  <2>2. QED
    BY <1>0, <1>4, <2>1 DEF WireNamed, Keeps
<1>5. CASE Dull
  <2>1. RoundNamed' /\ BatchNamed'
    BY <1>1, <1>2, <1>5 DEF Dull
  <2>2. WireNamed'
    <3>1. \A f \in Answers : f \in WireFrames /\ f.reply # "Event"
      BY DEF Answers
    <3>2. QED
      BY <1>3, <1>4, <1>5, <3>1 DEF Dull
  <2>3. QED
    BY <2>1, <2>2
<1>6. CASE UNCHANGED <<round, batch, wire>>
  BY <1>1, <1>2, <1>3, <1>6
<1>7. CASE Wake
  <2>1. /\ \A n \in Names, s \in Subs : <<n, s>> \in round' => subMap[n] = s /\ subMap[n] # Null
        /\ UNCHANGED <<opened, batch, wire>>
    BY <1>0, <1>7, WakeStep
  <2>2. RoundNamed'
    BY <1>0, <2>1 DEF RoundNamed, MapOK, OpenedOK
  <2>3. QED
    BY <1>2, <1>3, <2>1, <2>2
<1>8. CASE WriteOne
  <2>1. /\ batch \in Batches
        /\ wire' = Append(wire, Push(batch.name, batch.sub, Head(batch.events)))
        /\ \/ batch' = Null
           \/ /\ batch' \in Batches /\ batch'.name = batch.name /\ batch'.sub = batch.sub
              /\ batch'.events = Tail(batch.events)
        /\ UNCHANGED <<round, opened, got>>
    BY <1>0, <1>8, WriteStep
  <2>2. /\ batch # Null /\ batch.sub \in Subs /\ batch.name \in Names
        /\ batch.events \in Seq(Nat) /\ batch.events # << >>
    BY <2>1, <1>8 DEF Batches, WriteOne
  <2>3. /\ Head(batch.events) \in Range(batch.events) /\ Head(batch.events) \in Nat
        /\ Range(Tail(batch.events)) \subseteq Range(batch.events)
    BY <2>2, HeadTail
  <2>4. Push(batch.name, batch.sub, Head(batch.events)) \in WireFrames
    BY <2>2, <2>3 DEF Push, WireFrames
  <2>5. WireNamed'
    BY <1>0, <1>4, <2>1, <2>2, <2>3, <2>4 DEF BatchNamed, Push
  <2>6. BatchNamed'
    BY <1>0, <2>1, <2>2, <2>3 DEF BatchNamed
  <2>7. QED
    BY <1>1, <2>1, <2>5, <2>6
<1>9. ASSUME NEW n \in Names, NEW s \in Subs, DrainOne(n, s)
      PROVE  RoundNamed' /\ BatchNamed' /\ WireNamed'
  <2>1. /\ <<n, s>> \in round /\ round' \subseteq round
        /\ UNCHANGED <<opened, wire>>
    BY <1>0, <1>9, DrainStep
  <2>2. opened[s] # Null /\ opened[s].name = n
    BY <1>0, <2>1 DEF RoundNamed
  <2>3. \/ UNCHANGED batch
        \/ batch' = Null
        \/ \E fresh \in Seq(Nat) : /\ got'[s] = got[s] \o fresh
                                   /\ batch' = [name |-> n, sub |-> s, events |-> fresh]
    BY <1>0, <1>9, DrainStep
  <2>4. ASSUME NEW fresh \in Seq(Nat), got'[s] = got[s] \o fresh,
               batch' = [name |-> n, sub |-> s, events |-> fresh]
        PROVE  BatchNamed'
    <3>1. batch'.sub = s /\ batch'.name = n /\ batch'.events = fresh
      BY <2>4
    <3>2. Range(fresh) \subseteq Range(got'[s])
      BY <1>0, <2>4, ConcatFacts
    <3>3. QED
      BY <2>1, <2>2, <3>1, <3>2 DEF BatchNamed
  <2>5. BatchNamed'
    BY <1>2, <2>3, <2>4 DEF BatchNamed
  <2>6. QED
    BY <1>1, <1>3, <2>1, <2>5
<1>10. QED
  BY <1>0, <1>5, <1>6, <1>7, <1>8, <1>9, StepKinds, SubscribeStep, MapStep, UnsubscribeStep,
     EndStep

LEMMA NamedInit == Init => Named
<1> SUFFICES ASSUME Init PROVE Named
  OBVIOUS
<1>1. /\ got = [s \in Subs |-> << >>] /\ round = {} /\ batch = Null /\ wire = << >>
  BY DEF Init, Feed!Init
<1>2. \A s \in Subs : Range(got[s]) = {}
  BY <1>1 DEF Range
<1>3. QED
  BY <1>1, <1>2, BooksInit DEF Named, HandedAsked, RoundNamed, BatchNamed, WireNamed

LEMMA NamedInvariant == Named /\ [Next]_vars => Named'
BY BooksInvariant, HandedStep, NamesStep DEF Named

(* An event written under a client id is one that a subscription of that id  *)
(* asked for, even when the id was unsubscribed or reused in between.        *)
THEOREM NamedCorrect == Spec => []NamedRightly
<1>1. Named => NamedRightly
  <2> SUFFICES ASSUME Named, NEW i \in DOMAIN wire, wire[i].reply = "Event"
               PROVE  \E s \in Subs : /\ opened[s] # Null /\ opened[s].name = wire[i].name
                                     /\ log[wire[i].pos] \in opened[s].of
    BY DEF NamedRightly
  <2>1. /\ wire[i].sub \in Subs
        /\ opened[wire[i].sub] # Null /\ opened[wire[i].sub].name = wire[i].name
        /\ wire[i].pos \in Range(got[wire[i].sub])
    BY DEF Named, WireNamed
  <2>2. log[wire[i].pos] \in opened[wire[i].sub].of
    BY <2>1 DEF Named, HandedAsked
  <2>3. QED
    BY <2>1, <2>2
<1>2. QED
  BY NamedInit, NamedInvariant, <1>1, PTL DEF Spec

-----------------------------------------------------------------------------
(* While the push task runs, what a subscription was handed is on the wire   *)
(* or in the task's hands, in log order and once.  A drain hands over only    *)
(* positions after the cursor, and the cursor is past all handed before.     *)
Behind == \A s \in Subs :
  cursor[s] <= Len(log) /\ \A p \in Range(got[s]) : p <= cursor[s]

Exact(s) ==
  /\ Range(got[s]) = {wire[i].pos : i \in Pushes(s)} \cup Range(InBatch(s))
  /\ \A i \in Pushes(s) :
       /\ \A j \in Pushes(s) : i < j => wire[i].pos < wire[j].pos
       /\ \A pos \in Range(InBatch(s)) : wire[i].pos < pos
  /\ Feed!Ascending(got[s]) /\ Feed!Ascending(InBatch(s))

AllExact == pusher # "dead" => \A s \in Subs : Exact(s)

PushInv == Books /\ Behind /\ AllExact

LEMMA BehindStep == PushInv /\ [Next]_vars => Behind'
<1> SUFFICES ASSUME PushInv, [Next]_vars PROVE Behind'
  OBVIOUS
<1>0. /\ Books /\ Behind /\ Typed
      /\ log \in Seq(Events) /\ got \in [Subs -> Seq(Nat)] /\ cursor \in [Subs -> Nat]
  BY DEF PushInv, Books, Typed, FeedTyped
<1>1. \A s \in Subs : Range(got[s]) \subseteq Nat
  BY <1>0 DEF Range
<1>2. CASE Dull
  <2>1. Len(log') \in Nat /\ Len(log) \in Nat /\ Len(log') >= Len(log)
    BY <1>0, <1>2 DEF Dull
  <2>2. UNCHANGED <<got, cursor>>
    BY <1>2 DEF Dull
  <2>3. QED
    BY <1>0, <2>1, <2>2 DEF Behind
<1>3. CASE UNCHANGED <<log, got, cursor>>
  BY <1>0, <1>3 DEF Behind
<1>4. CASE TakeSubscribe
  <2>1. PICK s \in Subs, name \in Names, of \in Requests :
          /\ cursor'[s] = Len(log) /\ \A t \in Subs \ {s} : cursor'[t] = cursor[t]
          /\ UNCHANGED <<log, got>>
    BY <1>0, <1>4, SubscribeStep
  <2>2. \A p \in Range(got[s]) : p <= Len(log)
    <3>1. Len(log) \in Nat /\ cursor[s] \in Nat /\ cursor[s] <= Len(log)
      BY <1>0 DEF Behind
    <3>2. QED
      BY <1>0, <1>1, <3>1 DEF Behind
  <2>3. \A t \in Subs : cursor'[t] <= Len(log) /\ \A p \in Range(got[t]) : p <= cursor'[t]
    <3> SUFFICES ASSUME NEW t \in Subs
                 PROVE  cursor'[t] <= Len(log) /\ \A p \in Range(got[t]) : p <= cursor'[t]
      OBVIOUS
    <3>1. CASE t = s
      <4>1. Len(log) \in Nat /\ cursor'[t] = Len(log)
        BY <1>0, <2>1, <3>1
      <4>2. QED
        BY <2>2, <3>1, <4>1
    <3>2. CASE t # s
      BY <1>0, <2>1, <3>2 DEF Behind
    <3>3. QED
      BY <3>1, <3>2
  <2>4. QED
    BY <2>1, <2>3 DEF Behind
<1>5. ASSUME NEW n \in Names, NEW s \in Subs, DrainOne(n, s) PROVE Behind'
  <2>1. UNCHANGED log
    BY <1>0, <1>5, DrainStep
  <2>2. UNCHANGED <<cursor, got>> \/ \E fresh \in Seq(Nat) :
          /\ Range(fresh) = Feed!Pending(s)
          /\ got'[s] = got[s] \o fresh /\ cursor'[s] = Len(log)
          /\ \A t \in Subs \ {s} : got'[t] = got[t] /\ cursor'[t] = cursor[t]
    BY <1>0, <1>5, DrainStep
  <2>3. ASSUME NEW fresh \in Seq(Nat), Range(fresh) = Feed!Pending(s),
               got'[s] = got[s] \o fresh, cursor'[s] = Len(log),
               \A t \in Subs \ {s} : got'[t] = got[t] /\ cursor'[t] = cursor[t]
        PROVE  Behind'
    <3>1. Len(log) \in Nat /\ cursor[s] \in Nat /\ cursor[s] <= Len(log)
      BY <1>0 DEF Behind
    <3>2. \A p \in Feed!Pending(s) : p <= Len(log)
      BY <1>0 DEF Feed!Pending
    <3>3. \A p \in Range(got[s]) : p <= Len(log)
      BY <1>0, <1>1, <3>1 DEF Behind
    <3>4. Range(got'[s]) = Range(got[s]) \cup Feed!Pending(s)
      BY <1>0, <2>3, ConcatFacts
    <3>5. ASSUME NEW t \in Subs
          PROVE  cursor'[t] <= Len(log') /\ \A p \in Range(got'[t]) : p <= cursor'[t]
      <4>1. CASE t = s
        <5>1. cursor'[t] = Len(log) /\ Len(log') = Len(log)
          BY <2>1, <2>3, <4>1
        <5>2. \A p \in Range(got'[t]) : p <= Len(log)
          BY <3>2, <3>3, <3>4, <4>1
        <5>3. QED
          BY <3>1, <5>1, <5>2
      <4>2. CASE t # s
        BY <1>0, <2>1, <2>3, <4>2 DEF Behind
      <4>3. QED
        BY <4>1, <4>2
    <3>6. QED
      BY <3>5 DEF Behind
  <2>4. QED
    BY <1>3, <2>1, <2>2, <2>3
<1>6. QED
  BY <1>0, <1>2, <1>3, <1>4, <1>5, StepKinds, MapStep, UnsubscribeStep, EndStep, WakeStep, WriteStep

(* An answer on the wire is no event.                                        *)
LEMMA AnswerKeeps ==
  ASSUME wire \in Seq(WireFrames), NEW f \in Answers, wire' = Append(wire, f), NEW s \in Subs
  PROVE  Pushes(s)' = Pushes(s) /\ \A i \in Pushes(s) : wire'[i] = wire[i]
<1>1. f \in WireFrames /\ f.reply # "Event"
  BY DEF Answers
<1>2. /\ DOMAIN wire' = 1 .. Len(wire) + 1 /\ wire'[Len(wire) + 1] = f
      /\ \A i \in DOMAIN wire : i \in DOMAIN wire' /\ wire'[i] = wire[i]
      /\ \A i \in DOMAIN wire' : i = Len(wire) + 1 \/ i \in DOMAIN wire
  BY <1>1, AppendFacts
<1>3. Pushes(s)' \subseteq Pushes(s)
  BY <1>1, <1>2 DEF Pushes, IsPush
<1>4. Pushes(s) \subseteq Pushes(s)'
  BY <1>2 DEF Pushes, IsPush
<1>5. QED
  BY <1>2, <1>3, <1>4 DEF Pushes

LEMMA PushKeeps ==
  ASSUME wire \in Seq(WireFrames), NEW b \in Subs, NEW name, NEW pos \in Nat,
         Push(name, b, pos) \in WireFrames,
         wire' = Append(wire, Push(name, b, pos)), NEW s \in Subs
  PROVE  /\ \A i \in Pushes(s) : /\ wire'[i] = wire[i] /\ wire[i].pos \in Nat
                                 /\ i \in Nat /\ i < Len(wire) + 1
         /\ s # b => Pushes(s)' = Pushes(s)
         /\ s = b => /\ Pushes(s)' = Pushes(s) \cup {Len(wire) + 1}
                     /\ wire'[Len(wire) + 1].pos = pos
<1>1. /\ DOMAIN wire = 1 .. Len(wire) /\ Len(wire) \in Nat
      /\ DOMAIN wire' = 1 .. Len(wire) + 1 /\ wire'[Len(wire) + 1] = Push(name, b, pos)
      /\ \A i \in DOMAIN wire : i \in DOMAIN wire' /\ i # Len(wire) + 1 /\ wire'[i] = wire[i]
      /\ \A i \in DOMAIN wire' : i = Len(wire) + 1 \/ i \in DOMAIN wire
  BY AppendFacts
<1>2. \A i \in DOMAIN wire : wire[i] \in WireFrames /\ wire[i].pos \in Nat
  <2>1. \A i \in DOMAIN wire : wire[i] \in WireFrames
    OBVIOUS
  <2>2. QED
    BY <2>1 DEF WireFrames
<1>3. \A i \in Pushes(s) : i \in DOMAIN wire
  BY DEF Pushes
<1>4. Pushes(s) \subseteq Pushes(s)'
  BY <1>1 DEF Pushes, IsPush
<1>5. Pushes(s)' \subseteq Pushes(s) \cup {Len(wire) + 1}
  BY <1>1 DEF Pushes, IsPush
<1>6. IsPush(wire'[Len(wire) + 1], s) <=> s = b
  BY <1>1 DEF IsPush, Push
<1>7. Len(wire) + 1 \in Pushes(s)' <=> s = b
  BY <1>1, <1>6 DEF Pushes, IsPush
<1>8. wire'[Len(wire) + 1].pos = pos
  BY <1>1 DEF Push
<1>9. \A i \in Pushes(s) : /\ wire'[i] = wire[i] /\ wire[i].pos \in Nat
                          /\ i \in Nat /\ i < Len(wire) + 1
  BY <1>1, <1>2, <1>3
<1>10. s # b => Pushes(s)' = Pushes(s)
  BY <1>4, <1>5, <1>7
<1>11. s = b => Pushes(s)' = Pushes(s) \cup {Len(wire) + 1}
  BY <1>4, <1>5, <1>7
<1>12. QED
  BY <1>8, <1>9, <1>10, <1>11

(* A step that moves nothing between the server, the task and the wire.      *)
LEMMA ExactKept ==
  ASSUME NEW s \in Subs, Exact(s), got'[s] = got[s], InBatch(s)' = InBatch(s),
         Pushes(s)' = Pushes(s), \A i \in Pushes(s) : wire'[i] = wire[i]
  PROVE  Exact(s)'
<1>1. {wire'[i].pos : i \in Pushes(s)'} = {wire[i].pos : i \in Pushes(s)}
  OBVIOUS
<1>2. \A i \in Pushes(s)' :
        /\ \A j \in Pushes(s)' : i < j => wire'[i].pos < wire'[j].pos
        /\ \A pos \in Range(InBatch(s)') : wire'[i].pos < pos
  BY DEF Exact
<1>3. Range(got'[s]) = {wire'[i].pos : i \in Pushes(s)'} \cup Range(InBatch(s)')
  BY <1>1 DEF Exact
<1>4. Feed!Ascending(got'[s]) /\ Feed!Ascending(InBatch(s)')
  BY DEF Exact
<1>5. QED
  BY <1>2, <1>3, <1>4 DEF Exact

LEMMA WriteExact ==
  ASSUME PushInv, WriteOne, NEW s \in Subs, Exact(s)
  PROVE  Exact(s)'
<1>0. Typed /\ wire \in Seq(WireFrames)
  BY DEF PushInv, Books, Typed, HandsTyped
<1>1. /\ batch \in Batches
      /\ wire' = Append(wire, Push(batch.name, batch.sub, Head(batch.events)))
      /\ \/ batch' = Null /\ Len(batch.events) = 1
         \/ /\ batch' \in Batches /\ batch'.name = batch.name /\ batch'.sub = batch.sub
            /\ batch'.events = Tail(batch.events)
      /\ UNCHANGED got
  BY <1>0, WriteStep
<1>2. /\ batch # Null /\ batch.sub \in Subs /\ batch.name \in Names
      /\ batch.events \in Seq(Nat) /\ batch.events # << >>
  BY <1>1 DEF Batches, WriteOne
<1> DEFINE first == Head(batch.events)  last == Len(wire) + 1
<1>3. /\ first \in Nat /\ Range(batch.events) = {first} \cup Range(Tail(batch.events))
      /\ Len(batch.events) = 1 => Range(batch.events) = {first}
      /\ Feed!Ascending(batch.events) => /\ Feed!Ascending(Tail(batch.events))
                                        /\ \A x \in Range(Tail(batch.events)) : first < x
  BY <1>2, HeadTail
<1>4. Push(batch.name, batch.sub, first) \in WireFrames
  BY <1>2, <1>3 DEF Push, WireFrames
<1>5. /\ \A i \in Pushes(s) : /\ wire'[i] = wire[i] /\ wire[i].pos \in Nat
                              /\ i \in Nat /\ i < last
      /\ s # batch.sub => Pushes(s)' = Pushes(s)
      /\ s = batch.sub => /\ Pushes(s)' = Pushes(s) \cup {last}
                          /\ wire'[last].pos = first
  <2>1. wire' = Append(wire, Push(batch.name, batch.sub, first))
    BY <1>1
  <2>2. first \in Nat
    BY <1>3
  <2> HIDE DEF first
  <2>3. QED
    BY <1>0, <1>2, <1>4, <2>1, <2>2, PushKeeps
<1>6. CASE s # batch.sub
  <2>1. InBatch(s) = << >>
    BY <1>6 DEF InBatch
  <2>2. InBatch(s)' = << >>
    BY <1>1, <1>6 DEF InBatch
  <2>3. QED
    BY <1>1, <1>5, <1>6, <2>1, <2>2, ExactKept
<1>7. CASE s = batch.sub
  <2> DEFINE rest == InBatch(s)'
  <2>1. InBatch(s) = batch.events
    BY <1>2, <1>7 DEF InBatch
  <2>2. \/ rest = << >> /\ Len(batch.events) = 1
        \/ rest = Tail(batch.events)
    <3>1. CASE batch' = Null /\ Len(batch.events) = 1
      BY <3>1 DEF InBatch
    <3>2. CASE /\ batch' \in Batches /\ batch'.sub = batch.sub
               /\ batch'.events = Tail(batch.events)
      BY <1>7, <3>2, BatchesNull DEF InBatch
    <3>3. QED
      BY <1>1, <3>1, <3>2
  <2>3. /\ Range(batch.events) = {first} \cup Range(rest)
        /\ Feed!Ascending(rest) /\ \A x \in Range(rest) : first < x
    <3>1. Feed!Ascending(batch.events)
      BY <2>1 DEF Exact
    <3>2. CASE rest = << >> /\ Len(batch.events) = 1
      <4>1. Range(<< >>) = {} /\ Feed!Ascending(<< >>)
        BY DEF Range, Feed!Ascending
      <4>2. QED
        BY <1>3, <3>2, <4>1
    <3>3. CASE rest = Tail(batch.events)
      BY <1>3, <3>1, <3>3
    <3>4. QED
      BY <2>2, <3>2, <3>3
  <2> HIDE DEF first, last, rest
  <2>4. /\ Pushes(s)' = Pushes(s) \cup {last} /\ wire'[last].pos = first
        /\ \A i \in Pushes(s) : wire'[i] = wire[i] /\ i \in Nat /\ i < last
    BY <1>5, <1>7
  <2>5. \A i \in Pushes(s) : wire[i].pos < first /\ \A x \in Range(rest) : wire[i].pos < x
    BY <2>1, <2>3 DEF Exact
  <2>6. Range(got'[s]) = {wire'[i].pos : i \in Pushes(s)'} \cup Range(rest)
    <3>1. {wire'[i].pos : i \in Pushes(s)'} = {wire[i].pos : i \in Pushes(s)} \cup {first}
      BY <2>4
    <3>2. QED
      BY <1>1, <2>1, <2>3, <3>1 DEF Exact
  <2>7. ASSUME NEW i \in Pushes(s)'
        PROVE  /\ \A j \in Pushes(s)' : i < j => wire'[i].pos < wire'[j].pos
               /\ \A pos \in Range(rest) : wire'[i].pos < pos
    <3>1. CASE i = last
      <4>1. \A j \in Pushes(s)' : ~(i < j)
        <5>1. last \in Nat
          BY <1>0 DEF last
        <5>2. QED
          BY <2>4, <3>1, <5>1
      <4>2. QED
        BY <2>3, <2>4, <3>1, <4>1
    <3>2. CASE i \in Pushes(s)
      BY <2>4, <2>5, <3>2 DEF Exact
    <3>3. QED
      BY <2>4, <3>1, <3>2
  <2>8. Feed!Ascending(got'[s]) /\ Feed!Ascending(rest)
    BY <1>1, <2>3 DEF Exact
  <2>9. QED
    BY <2>6, <2>7, <2>8 DEF Exact, rest
<1>8. QED
  BY <1>6, <1>7

LEMMA DrainExact ==
  ASSUME PushInv, NEW n \in Names, NEW d \in Subs, DrainOne(n, d), NEW s \in Subs, Exact(s)
  PROVE  Exact(s)'
<1>0. /\ Typed /\ Behind /\ log \in Seq(Events) /\ got \in [Subs -> Seq(Nat)]
      /\ cursor \in [Subs -> Nat]
  BY DEF PushInv, Books, Typed, FeedTyped
<1>1. batch = Null /\ UNCHANGED wire
  BY <1>0, DrainStep
<1>2. /\ Pushes(s)' = Pushes(s) /\ \A i \in Pushes(s) : wire'[i] = wire[i]
      /\ InBatch(s) = << >>
  BY <1>1 DEF Pushes, InBatch
<1>3. \/ UNCHANGED <<got, batch>>
      \/ \E fresh \in Seq(Nat) :
           /\ Feed!Ascending(fresh) /\ Range(fresh) = Feed!Pending(d)
           /\ got'[d] = got[d] \o fresh
           /\ \A t \in Subs \ {d} : got'[t] = got[t]
           /\ \/ batch' = Null /\ fresh = << >>
              \/ /\ batch' = [name |-> n, sub |-> d, events |-> fresh]
                 /\ batch' \in Batches
  BY <1>0, DrainStep
<1>4. CASE UNCHANGED <<got, batch>>
  BY <1>1, <1>2, <1>4, ExactKept DEF InBatch
<1>5. ASSUME NEW fresh \in Seq(Nat),
             Feed!Ascending(fresh), Range(fresh) = Feed!Pending(d),
             got'[d] = got[d] \o fresh,
             \A t \in Subs \ {d} : got'[t] = got[t],
             \/ batch' = Null /\ fresh = << >>
             \/ /\ batch' = [name |-> n, sub |-> d, events |-> fresh]
                /\ batch' \in Batches
      PROVE  Exact(s)'
  <2>1. CASE s # d
    <3>1. InBatch(s)' = << >>
      BY <1>5, <2>1 DEF InBatch
    <3>2. QED
      BY <1>2, <1>5, <2>1, <3>1, ExactKept
  <2>2. CASE s = d
    <3>1. InBatch(s)' = fresh
      <4>1. CASE batch' = Null /\ fresh = << >>
        BY <4>1 DEF InBatch
      <4>2. CASE /\ batch' = [name |-> n, sub |-> d, events |-> fresh]
                 /\ batch' \in Batches
        BY <2>2, <4>2, BatchesNull DEF InBatch
      <4>3. QED
        BY <1>5, <4>1, <4>2
    <3>2. Range(got[s]) = {wire[i].pos : i \in Pushes(s)} /\ Feed!Ascending(got[s])
      <4>1. Range(<< >>) = {}
        BY DEF Range
      <4>2. QED
        BY <1>2, <4>1 DEF Exact
    <3>3. \A x \in Range(got[s]), y \in Feed!Pending(d) : x < y
      <4>1. \A x \in Range(got[s]) : x \in Nat /\ x <= cursor[s]
        BY <1>0 DEF Range, Behind
      <4>2. \A y \in Feed!Pending(d) : y \in Nat /\ cursor[d] < y
        BY <1>0 DEF Feed!Pending
      <4>3. cursor[s] \in Nat
        BY <1>0
      <4>4. QED
        BY <2>2, <4>1, <4>2, <4>3
    <3>4. /\ Range(got'[s]) = Range(got[s]) \cup Range(fresh)
          /\ Feed!Ascending(got'[s])
      <4>1. got[s] \in Seq(Nat) /\ got'[s] = got[s] \o fresh
        BY <1>0, <1>5, <2>2
      <4>2. \A x \in Range(got[s]), y \in Range(fresh) : x < y
        BY <1>5, <3>3
      <4>3. Feed!Ascending(got[s] \o fresh)
        BY <1>5, <3>2, <4>1, <4>2, ConcatFacts
      <4>4. QED
        BY <4>1, <4>3, ConcatFacts
    <3>5. Range(got'[s]) = {wire'[i].pos : i \in Pushes(s)'} \cup Range(InBatch(s)')
      BY <1>2, <3>1, <3>2, <3>4
    <3>6. \A i \in Pushes(s)' :
            /\ \A j \in Pushes(s)' : i < j => wire'[i].pos < wire'[j].pos
            /\ \A pos \in Range(InBatch(s)') : wire'[i].pos < pos
      <4>1. \A i \in Pushes(s) : wire[i].pos \in Range(got[s])
        BY <3>2
      <4>2. QED
        BY <1>2, <1>5, <3>1, <3>3, <4>1 DEF Exact
    <3>7. QED
      BY <1>5, <3>1, <3>4, <3>5, <3>6 DEF Exact
  <2>3. QED
    BY <2>1, <2>2
<1>6. QED
  BY <1>3, <1>4, <1>5

LEMMA AllExactStep == PushInv /\ [Next]_vars => AllExact'
<1> SUFFICES ASSUME PushInv, [Next]_vars, pusher' # "dead", NEW s \in Subs PROVE Exact(s)'
  BY DEF AllExact
<1>0. Typed /\ wire \in Seq(WireFrames)
  BY DEF PushInv, Books, Typed, HandsTyped
<1>1. pusher # "dead" => Exact(s)
  BY DEF PushInv, AllExact
<1>2. CASE Dull
  <2>1. Exact(s) /\ got' = got /\ InBatch(s)' = InBatch(s)
    BY <1>1, <1>2 DEF Dull, InBatch
  <2>2. CASE wire' = wire
    BY <2>1, <2>2, ExactKept DEF Pushes
  <2>3. ASSUME NEW f \in Answers, wire' = Append(wire, f) PROVE Exact(s)'
    BY <1>0, <2>1, <2>3, AnswerKeeps, ExactKept
  <2>4. QED
    BY <1>2, <2>2, <2>3 DEF Dull
<1>3. CASE UNCHANGED <<got, wire, batch, pusher>>
  BY <1>1, <1>3, ExactKept DEF Pushes, InBatch
<1>4. CASE WriteOne
  BY <1>0, <1>1, <1>4, WriteStep, WriteExact
<1>5. ASSUME NEW n \in Names, NEW d \in Subs, DrainOne(n, d) PROVE Exact(s)'
  BY <1>0, <1>1, <1>5, DrainStep, DrainExact
<1>6. QED
  BY <1>0, <1>2, <1>3, <1>4, <1>5, StepKinds, SubscribeStep, MapStep, UnsubscribeStep, EndStep,
     WakeStep

LEMMA PushInit == Init => PushInv
<1> SUFFICES ASSUME Init PROVE PushInv
  OBVIOUS
<1>1. /\ log = << >> /\ cursor = [s \in Subs |-> 0] /\ got = [s \in Subs |-> << >>]
      /\ batch = Null /\ wire = << >>
  BY DEF Init, Feed!Init
<1>2. Range(<< >>) = {} /\ Feed!Ascending(<< >>) /\ Len(<< >>) = 0
  BY DEF Range, Feed!Ascending
<1>3. Behind
  BY <1>1, <1>2 DEF Behind
<1>4. \A s \in Subs : Pushes(s) = {} /\ InBatch(s) = << >>
  BY <1>1 DEF Pushes, InBatch
<1>5. AllExact
  BY <1>1, <1>2, <1>4 DEF AllExact, Exact
<1>6. QED
  BY <1>3, <1>5, BooksInit DEF PushInv

LEMMA PushInvariant == PushInv /\ [Next]_vars => PushInv'
BY BooksInvariant, BehindStep, AllExactStep DEF PushInv

(* While the push task runs, the events a subscription was handed are those  *)
(* written for it and then those in the task's hands, each once and in log   *)
(* order, whatever replies and other subscriptions' events come between.     *)
THEOREM PushedCorrect == Spec => []PushedExactly
<1>1. PushInv => PushedExactly
  BY DEF PushInv, AllExact, Exact, PushedExactly
<1>2. QED
  BY PushInit, PushInvariant, <1>1, PTL DEF Spec
-----------------------------------------------------------------------------
(* Counting.  A set of positions of a sequence, and an element's place in it. *)
LEMMA Counted ==
  ASSUME NEW n \in Nat, NEW S, S \subseteq 1 .. n
  PROVE  /\ IsFiniteSet(S) /\ Cardinality(S) \in Nat
         /\ \A i \in S : Place(S, i) \in 1 .. Cardinality(S)
<1>1. ASSUME NEW T, T \subseteq S PROVE IsFiniteSet(T) /\ Cardinality(T) \in Nat
  <2>1. IsFiniteSet(1 .. n)
    BY FS_Interval
  <2>2. IsFiniteSet(T)
    BY <1>1, <2>1, FS_Subset
  <2>3. QED
    BY <2>2, FS_CardinalityType
<1>2. IsFiniteSet(S) /\ Cardinality(S) \in Nat
  BY <1>1
<1>3. ASSUME NEW i \in S PROVE Place(S, i) \in 1 .. Cardinality(S)
  <2> DEFINE B == {j \in S : j <= i}
  <2>1. B \subseteq S /\ i \in B
    OBVIOUS
  <2>2. IsFiniteSet(B) /\ Cardinality(B) \in Nat
    BY <1>1, <2>1
  <2>3. Cardinality(B) <= Cardinality(S)
    BY <1>2, <2>1, FS_Subset
  <2>4. Cardinality(B) # 0
    BY <2>1, <2>2, FS_EmptySet
  <2>5. QED
    BY <1>2, <2>2, <2>3, <2>4 DEF Place
<1>4. QED
  BY <1>2, <1>3

(* The position after the last is added.                                     *)
LEMMA PlaceAdded ==
  ASSUME NEW n \in Nat, NEW S, S \subseteq 1 .. n
  PROVE  /\ Cardinality(S \cup {n + 1}) = Cardinality(S) + 1
         /\ \A i \in S : Place(S \cup {n + 1}, i) = Place(S, i)
         /\ Place(S \cup {n + 1}, n + 1) = Cardinality(S) + 1
<1>0. \A i \in S : i \in Nat /\ i <= n
  OBVIOUS
<1>1. n + 1 \notin S /\ IsFiniteSet(S)
  <2>1. n + 1 \notin S
    BY <1>0
  <2>2. IsFiniteSet(S)
    BY Counted
  <2>3. QED
    BY <2>1, <2>2
<1>2. Cardinality(S \cup {n + 1}) = Cardinality(S) + 1
  BY <1>1, FS_AddElement
<1>3. ASSUME NEW i \in S PROVE Place(S \cup {n + 1}, i) = Place(S, i)
  <2>1. i \in Nat /\ i <= n
    BY <1>0
  <2>2. {j \in S \cup {n + 1} : j <= i} = {j \in S : j <= i}
    BY <2>1
  <2>3. QED
    BY <2>2 DEF Place
<1>4. {j \in S \cup {n + 1} : j <= n + 1} = S \cup {n + 1}
  <2>1. \A j \in S \cup {n + 1} : j <= n + 1
    BY <1>0
  <2>2. QED
    BY <2>1
<1>5. QED
  BY <1>2, <1>3, <1>4 DEF Place

Down(S, n) == {i \in 1 .. n : i + 1 \in S}
First(S)   == IF 1 \in S THEN 1 ELSE 0

(* Moved down by one, a set counts what it did, but for position 1.          *)
LEMMA Shifted ==
  ASSUME NEW n \in Nat, NEW S, S \subseteq 2 .. n + 1
  PROVE  Cardinality(Down(S, n)) = Cardinality(S)
<1> DEFINE T == Down(S, n)
           f == [i \in T |-> i + 1]
<1>0. T = {i \in 1 .. n : i + 1 \in S}
  BY DEF Down
<1> HIDE DEF T
<1>1. IsFiniteSet(T)
  <2>1. T \subseteq 1 .. n
    BY <1>0
  <2>2. QED
    BY <2>1, Counted
<1>2. f \in [T -> S] /\ (\A i, j \in T : f[i] = f[j] => i = j)
  BY <1>0
<1>3. \A j \in S : \E i \in T : f[i] = j
  <2> SUFFICES ASSUME NEW j \in S PROVE \E i \in T : f[i] = j
    OBVIOUS
  <2>1. j - 1 \in T /\ f[j - 1] = j
    BY <1>0
  <2>2. QED
    BY <2>1
<1> HIDE DEF f
<1>4. f \in Bijection(T, S)
  BY <1>2, <1>3 DEF Bijection, Injection, Surjection, IsInjective
<1>5. ExistsBijection(T, S)
  BY <1>4 DEF ExistsBijection
<1>6. QED
  BY <1>1, <1>5, FS_Bijection DEF T

LEMMA Within ==
  ASSUME NEW x \in Nat, NEW y \in Nat, NEW z \in 1 .. y
  PROVE  x + z \in 1 .. x + y
OBVIOUS

LEMMA PlaceShifted ==
  ASSUME NEW n \in Nat, NEW S, S \subseteq 1 .. n + 1
  PROVE  /\ Cardinality(S) = Cardinality(Down(S, n)) + First(S)
         /\ \A i \in Down(S, n) : Place(S, i + 1) = Place(Down(S, n), i) + First(S)
<1>1. ASSUME NEW A, A \subseteq S, 1 \in A <=> 1 \in S
      PROVE  Cardinality(A) = Cardinality(Down(A, n)) + First(S)
  <2>1. A \ {1} \subseteq 2 .. n + 1 /\ Down(A, n) = Down(A \ {1}, n)
    BY <1>1 DEF Down
  <2>2. Cardinality(Down(A, n)) = Cardinality(A \ {1})
    BY <2>1, Shifted
  <2>3. IsFiniteSet(A) /\ Cardinality(A) \in Nat
    <3>1. A \subseteq 1 .. n + 1 /\ n + 1 \in Nat
      BY <1>1
    <3>2. QED
      BY <3>1, Counted
  <2>4. Cardinality(A \ {1}) = IF 1 \in A THEN Cardinality(A) - 1 ELSE Cardinality(A)
    BY <2>3, FS_RemoveElement
  <2>5. QED
    BY <1>1, <2>2, <2>3, <2>4 DEF First
<1>2. ASSUME NEW i \in Down(S, n)
      PROVE  Place(S, i + 1) = Place(Down(S, n), i) + First(S)
  <2> DEFINE A == {j \in S : j <= i + 1}  B == {j \in Down(S, n) : j <= i}
  <2>1. A \subseteq S /\ B = Down(A, n) /\ (1 \in A <=> 1 \in S)
    BY DEF Down
  <2> HIDE DEF A, B
  <2>2. Cardinality(A) = Cardinality(B) + First(S)
    BY <1>1, <2>1
  <2>3. QED
    BY <2>2 DEF Place, A, B
<1>3. QED
  BY <1>1, <1>2

-----------------------------------------------------------------------------
(* The conversation: what the client asked, what was written, what the read  *)
(* loop holds and what waits, as values.                                     *)
Conversation(a, w, h, q) ==
  LET due == Cardinality(Replies(w)) + Cardinality(h)
  IN  /\ Len(a) = due + Cardinality(Waiting(q))
      /\ \A i \in Replies(w) : a[Place(Replies(w), i)] = ReplyTo(w[i])
      /\ \A k \in h : a[due] = k
      /\ \A i \in Waiting(q) : a[due + Place(Waiting(q), i)] = q[i].kind

Hands == {{}} \cup {{k} : k \in Calls}

LEMMA HandsCount == \A h \in Hands : Cardinality(h) \in {0, 1}
BY FS_EmptySet, FS_Singleton DEF Hands

LEMMA CountedReplies ==
  ASSUME NEW w \in Seq(WireFrames)
  PROVE  /\ Cardinality(Replies(w)) \in Nat
         /\ \A i \in Replies(w) : Place(Replies(w), i) \in 1 .. Cardinality(Replies(w))
<1>1. Replies(w) \subseteq 1 .. Len(w) /\ Len(w) \in Nat
  BY DEF Replies
<1>2. QED
  BY <1>1, Counted

LEMMA CountedWaiting ==
  ASSUME NEW q \in Seq(Frames)
  PROVE  /\ Cardinality(Waiting(q)) \in Nat
         /\ \A i \in Waiting(q) : Place(Waiting(q), i) \in 1 .. Cardinality(Waiting(q))
<1>1. Waiting(q) \subseteq 1 .. Len(q) /\ Len(q) \in Nat
  BY DEF Waiting
<1>2. QED
  BY <1>1, Counted

(* The client sends a frame: it waits behind the others.                      *)
LEMMA Sends ==
  ASSUME NEW a \in Seq(Calls), NEW w \in Seq(WireFrames), NEW h \in Hands, NEW q \in Seq(Frames),
         NEW f \in Frames, Conversation(a, w, h, q),
         NEW b, b = IF f.kind \in Calls THEN Append(a, f.kind) ELSE a
  PROVE  b \in Seq(Calls) /\ Conversation(b, w, h, Append(q, f))
<1> DEFINE r == Append(q, f)
           n == Len(q)
           due == Cardinality(Replies(w)) + Cardinality(h)
<1>1. /\ n \in Nat /\ DOMAIN q = 1 .. n /\ DOMAIN r = 1 .. n + 1
      /\ r[n + 1] = f /\ \A i \in 1 .. n : r[i] = q[i]
  OBVIOUS
<1>2. /\ Cardinality(Replies(w)) \in Nat /\ Cardinality(h) \in Nat /\ Cardinality(Waiting(q)) \in Nat
      /\ Len(a) = due + Cardinality(Waiting(q))
      /\ \A i \in Replies(w) : Place(Replies(w), i) \in 1 .. Cardinality(Replies(w))
      /\ \A i \in Waiting(q) : Place(Waiting(q), i) \in 1 .. Cardinality(Waiting(q))
      /\ h # {} => Cardinality(h) = 1
  <2>1. h # {} => Cardinality(h) = 1
    BY FS_Singleton DEF Hands
  <2>2. QED
    BY <2>1, HandsCount, CountedReplies, CountedWaiting DEF Conversation
<1>3. CASE f.kind \notin Calls
  <2>1. Waiting(r) = Waiting(q) /\ \A i \in Waiting(q) : r[i] = q[i]
    BY <1>1, <1>3 DEF Waiting
  <2>2. b = a
    BY <1>3
  <2> HIDE DEF r
  <2>3. QED
    BY <2>1, <2>2 DEF Conversation, r
<1>4. CASE f.kind \in Calls
  <2>1. /\ Waiting(q) \subseteq 1 .. n /\ Waiting(r) = Waiting(q) \cup {n + 1}
        /\ \A i \in Waiting(q) : r[i] = q[i]
    BY <1>1, <1>4 DEF Waiting
  <2>2. /\ Cardinality(Waiting(r)) = Cardinality(Waiting(q)) + 1
        /\ \A i \in Waiting(q) : Place(Waiting(r), i) = Place(Waiting(q), i)
        /\ Place(Waiting(r), n + 1) = Cardinality(Waiting(q)) + 1
    <3> PICK S, T : S = Waiting(q) /\ T = Waiting(r)
      OBVIOUS
    <3> PICK m : m = n
      OBVIOUS
    <3>1. m \in Nat /\ S \subseteq 1 .. m /\ T = S \cup {m + 1}
      BY <1>1, <2>1
    <3>2. /\ Cardinality(S \cup {m + 1}) = Cardinality(S) + 1
          /\ \A i \in S : Place(S \cup {m + 1}, i) = Place(S, i)
          /\ Place(S \cup {m + 1}, m + 1) = Cardinality(S) + 1
      BY <3>1, PlaceAdded, Zenon
    <3>3. QED
      BY <3>1, <3>2
  <2>3. /\ b \in Seq(Calls) /\ Len(b) = Len(a) + 1 /\ b[Len(a) + 1] = f.kind
        /\ \A i \in 1 .. Len(a) : b[i] = a[i]
    BY <1>4
  <2> HIDE DEF r
  <2>4. Len(b) = due + Cardinality(Waiting(r))
    BY <1>2, <2>2, <2>3
  <2>5. \A i \in Replies(w) : b[Place(Replies(w), i)] = ReplyTo(w[i])
    <3>1. \A i \in Replies(w) : Place(Replies(w), i) \in 1 .. Len(a)
      BY <1>2
    <3>2. QED
      BY <2>3, <3>1 DEF Conversation
  <2>6. ASSUME NEW k \in h PROVE b[due] = k
    <3>1. Cardinality(h) = 1
      BY <1>2
    <3>2. due \in 1 .. Len(a)
      <4>1. due + Cardinality(Waiting(q)) \in Nat /\ 1 <= due /\ due \in Nat
        BY <1>2, <3>1
      <4>2. due <= due + Cardinality(Waiting(q))
        BY <1>2, <4>1
      <4>3. QED
        BY <1>2, <4>1, <4>2
    <3>3. a[due] = k
      BY DEF Conversation
    <3>4. QED
      BY <2>3, <3>2, <3>3
  <2>7. ASSUME NEW i \in Waiting(r) PROVE b[due + Place(Waiting(r), i)] = r[i].kind
    <3>1. CASE i \in Waiting(q)
      <4>1. Place(Waiting(q), i) \in 1 .. Cardinality(Waiting(q))
        BY <1>2, <3>1
      <4>2. due + Place(Waiting(q), i) \in 1 .. Len(a)
        <5>1. Len(a) = due + Cardinality(Waiting(q))
          BY <1>2
        <5>2. due \in Nat /\ Cardinality(Waiting(q)) \in Nat
          BY CountedReplies, CountedWaiting, HandsCount
        <5> HIDE DEF due
        <5>3. due + Place(Waiting(q), i) \in 1 .. due + Cardinality(Waiting(q))
          BY <4>1, <5>2, Within, Zenon
        <5>4. QED
          BY <5>1, <5>3, Zenon
      <4>3. a[due + Place(Waiting(q), i)] = q[i].kind
        BY <3>1 DEF Conversation
      <4>4. Place(Waiting(r), i) = Place(Waiting(q), i) /\ r[i] = q[i]
        BY <2>1, <2>2, <3>1
      <4>5. QED
        BY <2>3, <4>2, <4>3, <4>4
    <3>2. CASE i = n + 1
      <4>1. due + Place(Waiting(r), i) = Len(a) + 1
        <5>1. Place(Waiting(r), i) = Cardinality(Waiting(q)) + 1
          BY <2>2, <3>2
        <5>2. QED
          BY <1>2, <5>1
      <4>2. QED
        BY <1>1, <2>3, <3>2, <4>1 DEF r
    <3>3. QED
      BY <2>1, <3>1, <3>2
  <2>8. QED
    BY <2>3, <2>4, <2>5, <2>6, <2>7 DEF Conversation, r
<1>5. QED
  BY <1>3, <1>4

(* The read loop takes a frame, and answers it later if it calls for it.      *)
LEMMA Takes ==
  ASSUME NEW a \in Seq(Calls), NEW w \in Seq(WireFrames), NEW q \in Seq(Frames), q # << >>,
         Conversation(a, w, {}, q),
         NEW h, h = IF Head(q).kind \in Calls THEN {Head(q).kind} ELSE {}
  PROVE  Conversation(a, w, h, Tail(q))
<1> DEFINE r == Tail(q)
<1>1. PICK n \in Nat : n + 1 = Len(q)
  <2>1. Len(q) \in Nat /\ Len(q) # 0
    OBVIOUS
  <2>2. PICK l \in Nat : l = Len(q) /\ l # 0
    BY <2>1
  <2>3. l - 1 \in Nat /\ (l - 1) + 1 = l
    BY <2>2
  <2>4. QED
    BY <2>2, <2>3
<1>2. /\ DOMAIN q = 1 .. n + 1 /\ DOMAIN r = 1 .. n /\ Head(q) = q[1]
      /\ \A i \in 1 .. n : r[i] = q[i + 1]
  BY <1>1
<1> HIDE DEF r
<1>3. Waiting(q) \subseteq 1 .. n + 1 /\ Waiting(r) = Down(Waiting(q), n)
  BY <1>2 DEF Waiting, Down
<1>4. 1 \in Waiting(q) <=> Head(q).kind \in Calls
  BY <1>2 DEF Waiting
<1>5. Cardinality(h) = First(Waiting(q)) /\ Cardinality(h) = IF 1 \in Waiting(q) THEN 1 ELSE 0
  BY <1>4, FS_EmptySet, FS_Singleton DEF First
<1>6. /\ Cardinality(Waiting(q)) = Cardinality(Waiting(r)) + Cardinality(h)
      /\ \A i \in Waiting(r) : Place(Waiting(q), i + 1) = Place(Waiting(r), i) + Cardinality(h)
  <2> PICK S : S = Waiting(q)
    OBVIOUS
  <2>1. S \subseteq 1 .. n + 1
    BY <1>3
  <2>2. /\ Cardinality(S) = Cardinality(Down(S, n)) + First(S)
        /\ \A i \in Down(S, n) : Place(S, i + 1) = Place(Down(S, n), i) + First(S)
    BY <2>1, PlaceShifted, Zenon
  <2>3. QED
    BY <1>3, <1>5, <2>2
<1>7. /\ Cardinality({}) = 0 /\ Cardinality(Replies(w)) \in Nat /\ Cardinality(Waiting(r)) \in Nat
      /\ Cardinality(h) \in Nat /\ \A i \in Waiting(r) : Place(Waiting(r), i) \in Nat
  <2>1. Waiting(r) \subseteq 1 .. n
    BY <1>3 DEF Down
  <2>2. /\ Cardinality(Waiting(r)) \in Nat
        /\ \A i \in Waiting(r) : Place(Waiting(r), i) \in 1 .. Cardinality(Waiting(r))
    BY <2>1, Counted, Zenon
  <2>3. QED
    BY <1>5, <2>2, CountedReplies, FS_EmptySet
<1> DEFINE due == Cardinality(Replies(w)) + Cardinality(h)
<1>8. Len(a) = due + Cardinality(Waiting(r))
  BY <1>6, <1>7 DEF Conversation
<1>9. ASSUME NEW k \in h PROVE a[due] = k
  <2>1. 1 \in Waiting(q) /\ k = q[1].kind /\ Cardinality(h) = 1
    BY <1>2, <1>4, <1>5, <1>9
  <2>2. Place(Waiting(q), 1) = 1
    <3>1. {j \in Waiting(q) : j <= 1} = {1}
      BY <1>3, <2>1
    <3>2. QED
      BY <3>1, FS_Singleton DEF Place
  <2>3. a[Cardinality(Replies(w)) + 0 + 1] = q[1].kind
    BY <1>7, <2>1, <2>2 DEF Conversation
  <2>4. QED
    BY <1>7, <2>1, <2>3
<1>10. ASSUME NEW i \in Waiting(r) PROVE a[due + Place(Waiting(r), i)] = r[i].kind
  <2>1. i \in 1 .. n /\ i + 1 \in Waiting(q)
    BY <1>3 DEF Down
  <2>2. a[Cardinality(Replies(w)) + Cardinality({}) + Place(Waiting(q), i + 1)] = q[i + 1].kind
    BY <2>1 DEF Conversation
  <2>3. Cardinality(Replies(w)) + Cardinality({}) + Place(Waiting(q), i + 1)
          = due + Place(Waiting(r), i)
    <3>1. Place(Waiting(q), i + 1) = Place(Waiting(r), i) + Cardinality(h)
      BY <1>6
    <3>2. Place(Waiting(r), i) \in Nat /\ Cardinality(Replies(w)) \in Nat /\ Cardinality(h) \in Nat
          /\ Cardinality({}) = 0
      BY <1>7
    <3>3. QED
      BY <3>1, <3>2
  <2>4. QED
    BY <1>2, <2>1, <2>2, <2>3
<1>11. \A i \in Replies(w) : a[Place(Replies(w), i)] = ReplyTo(w[i])
  BY DEF Conversation
<1>12. QED
  BY <1>8, <1>9, <1>10, <1>11 DEF Conversation, r

(* What the read loop had in hand is written.                                *)
LEMMA Answered ==
  ASSUME NEW a \in Seq(Calls), NEW w \in Seq(WireFrames), NEW k \in Calls, NEW q \in Seq(Frames),
         NEW f \in Answers, ReplyTo(f) = k, Conversation(a, w, {k}, q)
  PROVE  Conversation(a, Append(w, f), {}, q)
<1> DEFINE v == Append(w, f)
           n == Len(w)
<1>1. f \in WireFrames /\ f.reply # "Event"
  BY DEF Answers
<1>2. /\ n \in Nat /\ DOMAIN w = 1 .. n /\ DOMAIN v = 1 .. n + 1
      /\ v[n + 1] = f /\ \A i \in 1 .. n : v[i] = w[i]
  BY <1>1
<1> HIDE DEF v
<1>3. /\ Replies(w) \subseteq 1 .. n /\ Replies(v) = Replies(w) \cup {n + 1}
      /\ \A i \in Replies(w) : v[i] = w[i]
  BY <1>1, <1>2 DEF Replies
<1>4. /\ Cardinality(Replies(v)) = Cardinality(Replies(w)) + 1
      /\ \A i \in Replies(w) : Place(Replies(v), i) = Place(Replies(w), i)
      /\ Place(Replies(v), n + 1) = Cardinality(Replies(w)) + 1
  <2> PICK S, T : S = Replies(w) /\ T = Replies(v)
    OBVIOUS
  <2> PICK m : m = n
    OBVIOUS
  <2>1. m \in Nat /\ S \subseteq 1 .. m /\ T = S \cup {m + 1}
    BY <1>2, <1>3
  <2>2. /\ Cardinality(S \cup {m + 1}) = Cardinality(S) + 1
        /\ \A i \in S : Place(S \cup {m + 1}, i) = Place(S, i)
        /\ Place(S \cup {m + 1}, m + 1) = Cardinality(S) + 1
    BY <2>1, PlaceAdded, Zenon
  <2>3. QED
    BY <2>1, <2>2
<1>5. /\ Cardinality({k}) = 1 /\ Cardinality({}) = 0 /\ Cardinality(Replies(w)) \in Nat
      /\ Cardinality(Replies(v)) + Cardinality({}) = Cardinality(Replies(w)) + Cardinality({k})
  <2>1. Cardinality({k}) = 1 /\ Cardinality({}) = 0
    BY FS_EmptySet, FS_Singleton
  <2>2. Cardinality(Replies(w)) \in Nat
    BY CountedReplies
  <2>3. QED
    BY <1>4, <2>1, <2>2
<1>6. ASSUME NEW i \in Replies(v) PROVE a[Place(Replies(v), i)] = ReplyTo(v[i])
  <2>1. CASE i \in Replies(w)
    BY <1>3, <1>4, <2>1 DEF Conversation
  <2>2. CASE i = n + 1
    <3>1. a[Cardinality(Replies(w)) + Cardinality({k})] = k
      BY DEF Conversation
    <3>2. QED
      BY <1>2, <1>4, <1>5, <2>2, <3>1
  <2>3. QED
    BY <1>3, <2>1, <2>2
<1>7. QED
  BY <1>5, <1>6 DEF Conversation, v

(* An event the push task writes answers nothing.                            *)
LEMMA PushAnswersNothing ==
  ASSUME NEW a \in Seq(Calls), NEW w \in Seq(WireFrames), NEW h \in Hands, NEW q \in Seq(Frames),
         NEW f, f.reply = "Event", Conversation(a, w, h, q)
  PROVE  Conversation(a, Append(w, f), h, q)
<1> DEFINE v == Append(w, f)
<1>1. Replies(v) = Replies(w) /\ \A i \in Replies(w) : v[i] = w[i]
  <2>1. PICK n \in Nat : n = Len(w) /\ DOMAIN w = 1 .. n
    OBVIOUS
  <2>2. DOMAIN v = 1 .. n + 1 /\ v[n + 1] = f /\ \A i \in 1 .. n : v[i] = w[i]
    BY <2>1
  <2> HIDE DEF v
  <2>3. QED
    BY <2>1, <2>2 DEF Replies
<1> HIDE DEF v
<1>2. Conversation(a, v, h, q)
  BY <1>1 DEF Conversation
<1>3. QED
  BY <1>2 DEF v
(* What the read loop holds owes the client this answer, or none.            *)
LEMMA AnswersKinds == \A f \in Answers : ReplyTo(f) \in Calls /\ f \in WireFrames
<1> SUFFICES ASSUME NEW f \in Answers PROVE ReplyTo(f) \in Calls /\ f \in WireFrames
  OBVIOUS
<1>1. f \in WireFrames /\ f.reply # "Event"
  BY DEF Answers
<1>2. f.reply \in Calls \cup {"Reject", "Event"}
  BY <1>1 DEF WireFrames
<1>3. QED
  BY <1>1, <1>2 DEF ReplyTo, Calls

LEMMA OwedFacts ==
  ASSUME NEW h
  PROVE  /\ h = Null => Owed(h) = {}
         /\ h \in ToMap => Owed(h) = {"Subscribe"}
         /\ h \in ToEnd => Owed(h) = {}
         /\ h \in ToReply => Owed(h) = {ReplyTo(h.frame)}
<1>1. Null \notin ToMap \cup ToEnd \cup ToReply
  BY DispatchedTypes
<1>2. h = Null => Owed(h) = {}
  BY DEF Owed
<1>3. ASSUME h \in ToMap PROVE Owed(h) = {"Subscribe"}
  BY <1>1, <1>3 DEF Owed, ToMap, Calls
<1>4. ASSUME h \in ToEnd PROVE Owed(h) = {}
  BY <1>1, <1>4 DEF Owed, ToEnd
<1>5. ASSUME h \in ToReply PROVE Owed(h) = {ReplyTo(h.frame)}
  <2>1. h.do = "reply" /\ h.frame \in Answers
    BY <1>5 DEF ToReply
  <2>2. ReplyTo(h.frame) \in Calls
    BY <2>1, AnswersKinds
  <2>3. QED
    BY <1>1, <1>5, <2>1, <2>2 DEF Owed
<1>6. QED
  BY <1>2, <1>3, <1>4, <1>5

LEMMA Holds ==
  /\ handling = Null => InHand = {}
  /\ handling \in ToMap => InHand = {"Subscribe"}
  /\ handling \in ToEnd => InHand = {}
  /\ handling \in ToReply => InHand = {ReplyTo(handling.frame)}
BY OwedFacts DEF InHand

(* The steps as the conversation sees them, while the client listens.        *)
Listening == ~eof /\ phase # "left"

Talking ==
  /\ Typed /\ asked \in Seq(Calls)
  /\ phase = "greeting" => handling = Null
  /\ Listening => Conversation(asked, wire, InHand, inbox)

QuietTurn ==
  /\ UNCHANGED <<asked, inbox, InHand>>
  /\ wire' = wire \/ \E f : f.reply = "Event" /\ wire' = Append(wire, f)
SendTurn ==
  /\ UNCHANGED <<wire, InHand>>
  /\ \E f \in Frames : /\ inbox' = Append(inbox, f)
                       /\ asked' = IF f.kind \in Calls THEN Append(asked, f.kind) ELSE asked
TakeTurn ==
  /\ UNCHANGED <<asked, wire>> /\ inbox # << >> /\ inbox' = Tail(inbox) /\ InHand = {}
  /\ InHand' = IF Head(inbox).kind \in Calls THEN {Head(inbox).kind} ELSE {}
ReplyTurn ==
  /\ UNCHANGED <<asked, inbox>> /\ InHand' = {}
  /\ \E f \in Answers : InHand = {ReplyTo(f)} /\ wire' = Append(wire, f)
GreetTurn ==
  /\ UNCHANGED asked /\ inbox # << >> /\ inbox' = Tail(inbox) /\ InHand = {} /\ InHand' = {}
  /\ Head(inbox).kind = "Hello"
  /\ \E f \in Answers : ReplyTo(f) = "Hello" /\ wire' = Append(wire, f)

LEMMA Turns ==
  ASSUME Talking, [Next]_vars, Listening'
  PROVE  /\ Listening
         /\ QuietTurn \/ SendTurn \/ TakeTurn \/ ReplyTurn \/ GreetTurn
<1>0. /\ FeedTyped /\ HandsTyped /\ RestTyped /\ Typed' /\ HandsTyped'
      /\ phase = "greeting" => handling = Null
  BY TypedStep DEF Talking, Typed
<1>h. /\ handling \in {Null} \cup ToMap \cup ToEnd \cup ToReply
      /\ handling' \in {Null} \cup ToMap \cup ToEnd \cup ToReply
      /\ handling' = Null => InHand' = {}
      /\ handling' \in ToMap => InHand' = {"Subscribe"}
      /\ handling' \in ToEnd => InHand' = {}
      /\ handling' \in ToReply => InHand' = {ReplyTo(handling'.frame)}
      /\ handling' = handling => InHand' = InHand
      /\ ~eof' /\ phase' # "left"
  <2>1. HandsTyped /\ HandsTyped' /\ Listening'
    BY <1>0
  <2>2. /\ handling' = Null => InHand' = {}
        /\ handling' \in ToMap => InHand' = {"Subscribe"}
        /\ handling' \in ToEnd => InHand' = {}
        /\ handling' \in ToReply => InHand' = {ReplyTo(handling'.frame)}
    BY OwedFacts DEF InHand
  <2>3. handling' = handling => InHand' = InHand
    BY DEF InHand
  <2>4. QED
    BY <2>1, <2>2, <2>3 DEF HandsTyped, Listening
<1>a. ASSUME NEW kind \in Calls, NEW name \in Names \cup {Null}, ThenReply(kind, name)
      PROVE  InHand' = {kind}
  <2>1. Answer(kind, name) \in Answers
    BY <1>a, AnswerTypes
  <2>2. handling' \in ToReply /\ handling'.frame = Answer(kind, name)
    BY <1>a, <2>1 DEF ThenReply, ToReply
  <2>3. ReplyTo(Answer(kind, name)) = kind
    BY <1>a DEF ReplyTo, Answer, Calls
  <2>4. QED
    BY <1>h, <2>2, <2>3
<1>t. ASSUME NEW kind, Take(kind)
      PROVE  inbox # << >> /\ inbox' = Tail(inbox) /\ InHand = {} /\ Head(inbox).kind = kind
             /\ phase = "serving" /\ handling = Null
  BY <1>t, Holds DEF Take
<1>1. CASE UNCHANGED vars
  <2>1. UNCHANGED <<asked, inbox, handling, wire, eof, phase>>
    BY <1>1 DEF vars, readVars, sendVars
  <2>2. QED
    BY <1>h, <2>1 DEF QuietTurn, Listening
<1>2. ASSUME NEW f \in Frames, Send(f) PROVE Listening /\ SendTurn
  <2>1. UNCHANGED <<handling, wire, phase, eof>>
    BY <1>2 DEF Send
  <2>2. QED
    BY <1>2, <1>h, <2>1 DEF Send, SendTurn, Listening
<1>3. CASE Close
  BY <1>3, <1>h DEF Close
<1>4. CASE Greet
  <2>1. ~eof /\ phase = "greeting" /\ UNCHANGED <<handling, eof, asked>> /\ handling = Null
    BY <1>0, <1>4, <1>h DEF Greet, sendVars
  <2>2. InHand = {} /\ InHand' = {}
    BY <1>h, <2>1, Holds
  <2>3. \E f \in Answers : ReplyTo(f) = "Hello" /\ wire' = Append(wire, f)
    <3>1. Answer("Hello", Null) \in Answers /\ Answer("Reject", Null) \in Answers
      BY AnswerTypes DEF Calls
    <3>2. ReplyTo(Answer("Hello", Null)) = "Hello" /\ ReplyTo(Answer("Reject", Null)) = "Hello"
      BY DEF ReplyTo, Answer
    <3>3. \/ wire' = Append(wire, Answer("Hello", Null))
          \/ wire' = Append(wire, Answer("Reject", Null))
      BY <1>4, <2>1 DEF Greet, Written
    <3>4. QED
      BY <3>1, <3>2, <3>3
  <2>4. inbox # << >> /\ inbox' = Tail(inbox) /\ Head(inbox).kind = "Hello"
    BY <1>4 DEF Greet
  <2>5. QED
    BY <2>1, <2>2, <2>3, <2>4 DEF GreetTurn, Listening
<1>5. CASE LeaveEarly
  <2>1. phase # "left" /\ UNCHANGED <<asked, inbox, handling, wire, eof>>
    BY <1>5 DEF LeaveEarly, sendVars
  <2>2. QED
    BY <1>h, <2>1 DEF QuietTurn, Listening
<1>6. CASE TakeSubscribe
  <2>1. Take("Subscribe") /\ UNCHANGED <<asked, eof, wire, phase>>
    BY <1>6 DEF TakeSubscribe, sendVars
  <2>2. handling' \in ToMap
    <3>1. PICK s \in Subs, name \in Names, of \in Requests :
             handling' = [do |-> "map", name |-> name, sub |-> s]
      BY <1>0, <1>6, SubscribeStep DEF Typed
    <3>2. QED
      BY <3>1 DEF ToMap
  <2>3. InHand' = {"Subscribe"} /\ Head(inbox).kind = "Subscribe" /\ "Subscribe" \in Calls
    BY <1>h, <1>t, <2>1, <2>2 DEF Calls
  <2>4. QED
    BY <1>h, <1>t, <2>1, <2>3 DEF TakeTurn, Listening
<1>7. CASE MapSubscription
  <2>1. handling \in ToMap /\ handling.name \in Names
    BY <1>0, <1>7, MapStep DEF Typed, ToMap
  <2>2. UNCHANGED <<asked, inbox, wire, eof, phase>> /\ ThenReply("Subscribe", handling.name)
    BY <1>7 DEF MapSubscription, sendVars
  <2>3. InHand = {"Subscribe"} /\ InHand' = {"Subscribe"}
    BY <1>a, <2>1, <2>2, Holds DEF Calls
  <2>4. QED
    BY <1>h, <2>2, <2>3 DEF QuietTurn, Listening
<1>8. CASE TakeUnsubscribe
  <2>1. Take("Unsubscribe") /\ UNCHANGED <<asked, eof, wire, phase>>
    BY <1>8 DEF TakeUnsubscribe, sendVars
  <2>2. handling' = Null \/ handling' \in ToEnd
    <3>1. PICK name \in Names : handling' = IF subMap[name] = Null THEN Null
                                            ELSE [do |-> "end", sub |-> subMap[name]]
      BY <1>0, <1>8, UnsubscribeStep DEF Typed
    <3>2. subMap[name] \in Subs \cup {Null}
      BY <1>0 DEF HandsTyped
    <3>3. QED
      BY <3>1, <3>2 DEF ToEnd
  <2>3. InHand' = {} /\ Head(inbox).kind = "Unsubscribe" /\ "Unsubscribe" \notin Calls
    BY <1>h, <1>t, <2>1, <2>2 DEF Calls
  <2>4. QED
    BY <1>h, <1>t, <2>1, <2>3 DEF TakeTurn, Listening
<1>9. CASE EndSubscription
  <2>1. handling \in ToEnd /\ handling' = Null
    BY <1>0, <1>9, EndStep DEF Typed
  <2>2. UNCHANGED <<asked, inbox, wire, eof, phase>>
    BY <1>9 DEF EndSubscription, sendVars
  <2>3. InHand = {} /\ InHand' = {}
    BY <1>h, <2>1, Holds
  <2>4. QED
    BY <1>h, <2>2, <2>3 DEF QuietTurn, Listening
<1>10. ASSUME NEW kind \in Calls, NEW name \in Names \cup {Null}, Take(kind),
              ThenReply(kind, name), UNCHANGED <<phase, asked, eof, wire>>
       PROVE  Listening /\ TakeTurn
  BY <1>10, <1>a, <1>h, <1>t DEF TakeTurn, Listening
<1>11. CASE TakeMount
  BY <1>10, <1>11 DEF TakeMount, sendVars, Calls
<1>12. CASE TakeAct
  BY <1>10, <1>12 DEF TakeAct, sendVars, Calls
<1>13. CASE TakeAsk
  BY <1>10, <1>13 DEF TakeAsk, sendVars, Calls
<1>14. CASE TakeMute
  <2>1. Take("Mute") /\ UNCHANGED <<asked, eof, wire, phase, handling>>
    BY <1>14 DEF TakeMute, sendVars
  <2>2. InHand' = {} /\ Head(inbox).kind = "Mute" /\ "Mute" \notin Calls
    BY <1>h, <1>t, <2>1 DEF Calls
  <2>3. QED
    BY <1>h, <1>t, <2>1, <2>2 DEF TakeTurn, Listening
<1>15. CASE Reply
  <2>1. UNCHANGED <<asked, inbox, phase, eof>> /\ handling' = Null
    BY <1>15 DEF Reply, sendVars
  <2>2. handling \in ToReply /\ handling.frame \in Answers
    BY <1>h, <1>15 DEF Reply, ToMap, ToEnd, ToReply
  <2>3. wire' = Append(wire, handling.frame)
    BY <1>h, <1>15, <2>1 DEF Reply, Written
  <2>4. InHand = {ReplyTo(handling.frame)} /\ InHand' = {}
    BY <1>h, <2>1, <2>2, Holds
  <2>5. QED
    BY <1>h, <2>1, <2>2, <2>3, <2>4 DEF ReplyTurn, Listening
<1>16. CASE Leave
  BY <1>16, <1>h DEF Leave
<1>17. CASE HangUp
  BY <1>17, <1>h DEF HangUp, sendVars
<1>18. CASE Disconnect
  <2>1. phase # "left" /\ UNCHANGED <<asked, inbox, handling, wire, eof>>
    BY <1>18 DEF Disconnect, sendVars
  <2>2. QED
    BY <1>h, <2>1 DEF QuietTurn, Listening
<1>19. CASE WriteOne
  <2>1. UNCHANGED <<asked, inbox, handling, eof, phase>>
        /\ wire' = Append(wire, Push(batch.name, batch.sub, Head(batch.events)))
    BY <1>19 DEF WriteOne, readVars, sendVars
  <2>2. Push(batch.name, batch.sub, Head(batch.events)).reply = "Event"
    BY DEF Push
  <2>3. QED
    BY <1>h, <2>1, <2>2 DEF QuietTurn, Listening
<1>20. CASE UNCHANGED <<readVars, sendVars, wire>>
  <2>1. UNCHANGED <<asked, inbox, handling, wire, eof, phase>>
    BY <1>20 DEF readVars, sendVars
  <2>2. QED
    BY <1>h, <2>1 DEF QuietTurn, Listening
<1>21. CASE Wake \/ WriteFails \/ Abort
  BY <1>20, <1>21 DEF Wake, WriteFails, Abort
<1>22. ASSUME NEW n \in Names, NEW s \in Subs, DrainOne(n, s)
       PROVE  UNCHANGED <<readVars, sendVars, wire>>
  BY <1>22 DEF DrainOne
<1>23. ASSUME NEW o \in Others, Elsewhere(Changed(o))
       PROVE  UNCHANGED <<readVars, sendVars, wire>>
  BY <1>23 DEF Elsewhere
<1>24. QED
  BY <1>1, <1>2, <1>3, <1>4, <1>5, <1>6, <1>7, <1>8, <1>9, <1>11, <1>12, <1>13, <1>14, <1>15,
     <1>16, <1>17, <1>18, <1>19, <1>20, <1>21, <1>22, <1>23 DEF Next, Read, PushStep

(* Whether the client listens or not: a greeting has nothing in hand.        *)
LEMMA GreetsFirst ==
  ASSUME Talking, [Next]_vars
  PROVE  Typed' /\ asked' \in Seq(Calls) /\ (phase' = "greeting" => handling' = Null)
<1>1. Typed' /\ asked \in Seq(Calls) /\ (phase = "greeting" => handling = Null)
  BY TypedStep DEF Talking
<1>2. asked' = asked \/ \E f \in Frames : f.kind \in Calls /\ asked' = Append(asked, f.kind)
  BY DEF Next, Read, PushStep, vars, readVars, sendVars, Send, Close, Greet, LeaveEarly,
         TakeSubscribe, MapSubscription, TakeUnsubscribe, EndSubscription, TakeMount, TakeAct,
         TakeAsk, TakeMute, Reply, Leave, HangUp, Disconnect, Wake, DrainOne, WriteOne,
         WriteFails, Abort, Elsewhere
<1>3. asked' \in Seq(Calls)
  BY <1>1, <1>2
<1>4. phase' = "greeting" => phase = "greeting" /\ (handling # Null \/ handling' = handling)
  BY DEF Next, Read, PushStep, vars, readVars, sendVars, Send, Close, Greet, LeaveEarly,
         TakeSubscribe, MapSubscription, TakeUnsubscribe, EndSubscription, TakeMount, TakeAct,
         TakeAsk, TakeMute, Reply, Leave, HangUp, Disconnect, Wake, DrainOne, WriteOne,
         WriteFails, Abort, Elsewhere, Take
<1>5. QED
  BY <1>1, <1>3, <1>4

LEMMA TalkingStep == Talking /\ [Next]_vars => Talking'
<1> SUFFICES ASSUME Talking, [Next]_vars, Listening'
             PROVE  Conversation(asked', wire', InHand', inbox')
  BY GreetsFirst DEF Talking
<1>0. /\ Listening /\ Conversation(asked, wire, InHand, inbox)
      /\ asked \in Seq(Calls) /\ wire \in Seq(WireFrames) /\ inbox \in Seq(Frames)
      /\ handling \in {Null} \cup ToMap \cup ToEnd \cup ToReply
  BY Turns DEF Talking, Typed, HandsTyped
<1>h. InHand \in Hands
  <2>1. ASSUME NEW k \in Calls PROVE {k} \in Hands
    BY DEF Hands
  <2>2. {} \in Hands /\ {"Subscribe"} \in Hands
    BY DEF Hands, Calls
  <2>3. handling \in ToReply => ReplyTo(handling.frame) \in Calls
    BY AnswersKinds DEF ToReply
  <2>4. QED
    BY <1>0, <2>1, <2>2, <2>3, Holds
<1>1. CASE QuietTurn
  <2>1. CASE wire' = wire
    BY <1>0, <1>1, <2>1 DEF QuietTurn
  <2>2. ASSUME NEW f, f.reply = "Event", wire' = Append(wire, f)
        PROVE  Conversation(asked', wire', InHand', inbox')
    <3>1. Conversation(asked, Append(wire, f), InHand, inbox)
      BY <1>0, <1>h, <2>2, PushAnswersNothing
    <3>2. QED
      BY <1>1, <2>2, <3>1 DEF QuietTurn
  <2>3. QED
    BY <1>1, <2>1, <2>2 DEF QuietTurn
<1>2. CASE SendTurn
  <2>1. PICK f \in Frames :
          /\ inbox' = Append(inbox, f)
          /\ asked' = IF f.kind \in Calls THEN Append(asked, f.kind) ELSE asked
    BY <1>2 DEF SendTurn
  <2>2. PICK b : b = asked' /\ b = IF f.kind \in Calls THEN Append(asked, f.kind) ELSE asked
    BY <2>1
  <2>3. Conversation(b, wire, InHand, Append(inbox, f))
    BY <1>0, <1>h, <2>2, Sends
  <2>4. QED
    BY <1>2, <2>1, <2>2, <2>3 DEF SendTurn
<1>3. CASE TakeTurn
  <2>1. PICK h : h = InHand' /\ h = IF Head(inbox).kind \in Calls THEN {Head(inbox).kind} ELSE {}
    BY <1>3 DEF TakeTurn
  <2>2. Conversation(asked, wire, {}, inbox) /\ inbox # << >>
    BY <1>0, <1>3 DEF TakeTurn
  <2>3. Conversation(asked, wire, h, Tail(inbox))
    BY <1>0, <2>1, <2>2, Takes
  <2>4. QED
    BY <1>3, <2>1, <2>3 DEF TakeTurn
<1>4. CASE ReplyTurn
  <2>1. PICK f \in Answers : InHand = {ReplyTo(f)} /\ wire' = Append(wire, f)
    BY <1>4 DEF ReplyTurn
  <2>2. PICK k \in Calls : k = ReplyTo(f)
    BY AnswersKinds
  <2>3. Conversation(asked, wire, {k}, inbox)
    BY <1>0, <2>1, <2>2
  <2>4. Conversation(asked, Append(wire, f), {}, inbox)
    BY <1>0, <2>2, <2>3, Answered
  <2>5. QED
    BY <1>4, <2>1, <2>4 DEF ReplyTurn
<1>5. CASE GreetTurn
  <2>1. PICK f \in Answers : ReplyTo(f) = "Hello" /\ wire' = Append(wire, f)
    BY <1>5 DEF GreetTurn
  <2>2. /\ "Hello" \in Calls /\ Head(inbox).kind = "Hello" /\ inbox # << >>
        /\ Conversation(asked, wire, {}, inbox) /\ Tail(inbox) \in Seq(Frames)
    BY <1>0, <1>5 DEF GreetTurn, Calls
  <2>k. PICK k \in Calls : k = "Hello"
    BY <2>2
  <2>3. PICK h : k = "Hello" /\ h = {k}
    BY <2>k
  <2>4. h = IF Head(inbox).kind \in Calls THEN {Head(inbox).kind} ELSE {}
    BY <2>2, <2>3
  <2>5. Conversation(asked, wire, h, Tail(inbox))
    BY <1>0, <2>2, <2>4, Takes
  <2>6. Conversation(asked, Append(wire, f), {}, Tail(inbox))
    BY <1>0, <2>1, <2>2, <2>3, <2>5, Answered
  <2>7. QED
    BY <1>5, <2>1, <2>6 DEF GreetTurn
<1>6. QED
  BY <1>1, <1>2, <1>3, <1>4, <1>5, Turns

LEMMA TalkingInit == Init => Talking
<1> SUFFICES ASSUME Init PROVE Talking
  OBVIOUS
<1>1. /\ Typed /\ asked = << >> /\ inbox = << >> /\ wire = << >> /\ handling = Null
  BY BooksInit DEF Init, Books
<1>2. InHand = {} /\ Cardinality({}) = 0
  BY <1>1, Holds, FS_EmptySet
<1>3. Replies(<< >>) = {} /\ Waiting(<< >>) = {} /\ Len(<< >>) = 0
  BY DEF Replies, Waiting
<1>4. Conversation(<< >>, << >>, {}, << >>)
  <2>1. Cardinality({}) + Cardinality({}) + Cardinality({}) = 0
    BY <1>2
  <2>2. Len(<< >>) = Cardinality(Replies(<< >>)) + Cardinality({}) + Cardinality(Waiting(<< >>))
    BY <1>3, <2>1
  <2> PICK s : s = << >>
    OBVIOUS
  <2>3. /\ Len(s) = Cardinality(Replies(s)) + Cardinality({}) + Cardinality(Waiting(s))
        /\ Replies(s) = {} /\ Waiting(s) = {}
    BY <1>3, <2>2
  <2>4. Conversation(s, s, {}, s)
    BY <2>3 DEF Conversation
  <2>5. QED
    BY <2>4
<1>5. asked \in Seq(Calls)
  BY <1>1
<1>6. QED
  BY <1>1, <1>2, <1>4, <1>5 DEF Talking

(* While the client listens, the n-th reply answers the n-th frame it sent    *)
(* that calls for one, whatever the push task writes in between.             *)
THEOREM RepliesCorrect == Spec => []RepliesInOrder
<1>1. Talking => RepliesInOrder
  BY DEF Talking, Listening, Conversation, RepliesInOrder
<1>2. QED
  BY TalkingInit, TalkingStep, <1>1, PTL DEF Spec
=============================================================================
