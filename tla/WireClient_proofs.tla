-------------------------- MODULE WireClient_proofs --------------------------
(***************************************************************************)
(* Proofs about WireClient, for any number of calls and events: whose      *)
(* answer a call takes, and where the pushed events are.                   *)
(***************************************************************************)
EXTENDS WireClient, TLAPS

-----------------------------------------------------------------------------
(* Sequences.                                                                *)
Ascending(seq) == \A i, j \in DOMAIN seq : i < j => seq[i] < seq[j]

LEMMA AppendFacts ==
  ASSUME NEW S, NEW seq \in Seq(S), NEW x \in S
  PROVE  /\ Append(seq, x) \in Seq(S)
         /\ DOMAIN seq = 1 .. Len(seq) /\ Len(seq) \in Nat
         /\ Len(Append(seq, x)) = Len(seq) + 1
         /\ DOMAIN Append(seq, x) = 1 .. Len(seq) + 1
         /\ Append(seq, x)[Len(seq) + 1] = x
         /\ \A i \in DOMAIN seq : /\ i \in DOMAIN Append(seq, x) /\ i # Len(seq) + 1
                                 /\ Append(seq, x)[i] = seq[i]
         /\ \A i \in DOMAIN Append(seq, x) : i = Len(seq) + 1 \/ i \in DOMAIN seq
OBVIOUS

LEMMA SeqFacts ==
  ASSUME NEW S, NEW T, S \subseteq T, NEW seq \in Seq(S)
  PROVE  seq \in Seq(T) /\ Range(seq) \subseteq S
<1>1. \A i \in DOMAIN seq : seq[i] \in S
  OBVIOUS
<1>2. seq \in Seq(T)
  OBVIOUS
<1>3. QED
  BY <1>1, <1>2 DEF Range

LEMMA AppendRange ==
  ASSUME NEW seq \in Seq(Nat), NEW x \in Nat
  PROVE  /\ Range(Append(seq, x)) = Range(seq) \cup {x}
         /\ Ascending(seq) /\ (\A y \in Range(seq) : y < x) => Ascending(Append(seq, x))
<1>1. /\ DOMAIN seq = 1 .. Len(seq) /\ Len(seq) \in Nat
      /\ DOMAIN Append(seq, x) = 1 .. Len(seq) + 1
      /\ Append(seq, x)[Len(seq) + 1] = x
      /\ \A i \in DOMAIN seq : /\ i \in DOMAIN Append(seq, x) /\ i # Len(seq) + 1
                              /\ Append(seq, x)[i] = seq[i]
      /\ \A i \in DOMAIN Append(seq, x) : i = Len(seq) + 1 \/ i \in DOMAIN seq
  BY AppendFacts
<1>2. Range(Append(seq, x)) \subseteq Range(seq) \cup {x}
  BY <1>1 DEF Range
<1>3. Range(seq) \subseteq Range(Append(seq, x))
  BY <1>1 DEF Range
<1>4. x \in Range(Append(seq, x))
  BY <1>1 DEF Range
<1>5. ASSUME Ascending(seq), \A y \in Range(seq) : y < x,
             NEW i \in DOMAIN Append(seq, x), NEW j \in DOMAIN Append(seq, x), i < j
      PROVE  Append(seq, x)[i] < Append(seq, x)[j]
  <2>1. i \in DOMAIN seq
    BY <1>1, <1>5
  <2>2. CASE j \in DOMAIN seq
    BY <1>1, <1>5, <2>1, <2>2 DEF Ascending
  <2>3. CASE j = Len(seq) + 1
    BY <1>1, <1>5, <2>1, <2>3 DEF Range
  <2>4. QED
    BY <1>1, <2>2, <2>3
<1>6. QED
  BY <1>2, <1>3, <1>4, <1>5 DEF Ascending

LEMMA ConcatFacts ==
  ASSUME NEW a \in Seq(Nat), NEW b \in Seq(Nat)
  PROVE  /\ Range(a \o b) = Range(a) \cup Range(b)
         /\ Ascending(a) /\ Ascending(b)
              /\ (\A x \in Range(a), y \in Range(b) : x < y) => Ascending(a \o b)
<1>1. /\ Len(a) \in Nat /\ Len(b) \in Nat
      /\ DOMAIN a = 1 .. Len(a) /\ DOMAIN b = 1 .. Len(b)
      /\ DOMAIN (a \o b) = 1 .. Len(a) + Len(b)
      /\ \A i \in DOMAIN a : a[i] \in Nat
      /\ \A i \in DOMAIN b : b[i] \in Nat
  OBVIOUS
<1>2. \A i \in DOMAIN a : i \in DOMAIN (a \o b) /\ (a \o b)[i] = a[i]
  BY <1>1
<1>3. \A i \in DOMAIN b : Len(a) + i \in DOMAIN (a \o b) /\ (a \o b)[Len(a) + i] = b[i]
  BY <1>1
<1>4. \A i \in DOMAIN (a \o b) : \/ i \in DOMAIN a /\ (a \o b)[i] = a[i]
                                \/ /\ i > Len(a) /\ i - Len(a) \in DOMAIN b
                                   /\ (a \o b)[i] = b[i - Len(a)]
  BY <1>1
<1>5. Range(a \o b) = Range(a) \cup Range(b)
  <2>1. Range(a \o b) \subseteq Range(a) \cup Range(b)
    BY <1>4 DEF Range
  <2>2. Range(a) \subseteq Range(a \o b)
    BY <1>2 DEF Range
  <2>3. Range(b) \subseteq Range(a \o b)
    BY <1>3 DEF Range
  <2>4. QED
    BY <2>1, <2>2, <2>3
<1>6. ASSUME Ascending(a), Ascending(b), \A x \in Range(a), y \in Range(b) : x < y
      PROVE  Ascending(a \o b)
  <2> SUFFICES ASSUME NEW i \in DOMAIN (a \o b), NEW j \in DOMAIN (a \o b), i < j
               PROVE  (a \o b)[i] < (a \o b)[j]
    BY DEF Ascending
  <2>1. CASE i \in DOMAIN a /\ j \in DOMAIN a
    BY <1>2, <1>6, <2>1 DEF Ascending
  <2>2. CASE i \in DOMAIN a /\ j \notin DOMAIN a
    <3>1. a[i] \in Range(a)
      BY <2>2 DEF Range
    <3>2. j - Len(a) \in DOMAIN b /\ (a \o b)[j] = b[j - Len(a)]
      BY <1>4, <2>2
    <3>3. b[j - Len(a)] \in Range(b)
      BY <3>2 DEF Range
    <3>4. QED
      BY <1>2, <1>6, <2>2, <3>1, <3>2, <3>3
  <2>3. CASE i \notin DOMAIN a
    <3>1. i > Len(a) /\ j \notin DOMAIN a
      BY <1>1, <1>4, <2>3
    <3>2. /\ i - Len(a) \in DOMAIN b /\ (a \o b)[i] = b[i - Len(a)]
          /\ j - Len(a) \in DOMAIN b /\ (a \o b)[j] = b[j - Len(a)]
      BY <1>4, <2>3, <3>1
    <3>3. i - Len(a) < j - Len(a)
      BY <1>1
    <3>4. QED
      BY <1>6, <3>2, <3>3 DEF Ascending
  <2>4. QED
    BY <2>1, <2>2, <2>3
<1>7. QED
  BY <1>5, <1>6

LEMMA EmptyFacts == Range(<< >>) = {} /\ Ascending(<< >>)
BY DEF Range, Ascending

-----------------------------------------------------------------------------
(* Types; and a client in a call is in no drain.                             *)
Typed == TypeOK /\ (call = Null \/ drain = Null)

LEMMA FinishTypes ==
  ASSUME TypeOK, call # Null, call.kind \in CallKinds,
         NEW outcome \in Outcomes, NEW from \in Nat, Finish(outcome, from)
  PROVE  /\ results' \in [CallIds -> [kind : CallKinds, outcome : Outcomes, from : Nat] \cup {Null}]
         /\ results'[call.n] = [kind |-> call.kind, outcome |-> outcome, from |-> from]
         /\ \A n \in CallIds \ {call.n} : results'[n] = results[n]
         /\ call' = Null /\ UNCHANGED <<drain, handed>>
<1>1. call.n \in CallIds /\ call.kind \in CallKinds
  BY DEF TypeOK
<1>2. [kind |-> call.kind, outcome |-> outcome, from |-> from]
        \in [kind : CallKinds, outcome : Outcomes, from : Nat]
  BY <1>1
<1>3. QED
  BY <1>1, <1>2 DEF TypeOK, Finish

LEMMA FrameFacts ==
  ASSUME NEW f \in Frames
  PROVE  /\ f.answers \in Nat
         /\ f.kind = "Event" => f.pos \in 1 .. MaxEvents /\ f.sub \in CallIds
         /\ HasRid(f) => f.kind # "Event"
BY WireAssumption DEF Frames, Answers, CallIds, HasRid

LEMMA OutcomeTypes ==
  ASSUME NEW kind \in CallKinds, NEW f \in Frames
  PROVE  OutcomeOf(kind, f) \in Outcomes
BY DEF OutcomeOf, Outcomes

LEMMA DownTypes ==
  ASSUME down \in Seq(Frames), down # << >>
  PROVE  /\ Head(down) \in Frames /\ Tail(down) \in Seq(Frames)
         /\ Len(down) \in Nat /\ Len(down) # 0 /\ Len(Tail(down)) = Len(down) - 1
OBVIOUS

LEMMA WaitingFacts ==
  ASSUME Typed, Waiting
  PROVE  call # Null /\ call.n \in CallIds /\ call.kind \in CallKinds /\ drain = Null
BY DEF Typed, TypeOK, Waiting

LEMMA CapTypes ==
  ASSUME TypeOK
  PROVE  /\ up \in Seq(Requests) /\ Len(up) \in Nat /\ Len(up) <= UpCap
         /\ down \in Seq(Frames) /\ Len(down) \in Nat /\ Len(down) <= DownCap
         /\ UpCap \in Nat /\ DownCap \in Nat
BY WireAssumption DEF TypeOK

(* The reader's steps, one lemma each.                                       *)
LEMMA ReadReplyStep ==
  ASSUME Typed, ReadReply
  PROVE  /\ Typed' /\ down # << >> /\ Head(down) \in Frames /\ down' = Tail(down)
         /\ skipped' = IF Head(down).kind = "Event" THEN skipped \cup {Head(down).pos} ELSE skipped
         /\ UNCHANGED <<pushed, drain, handed>>
         /\ \/ UNCHANGED results
            \/ /\ call.n \in CallIds /\ \A n \in CallIds \ {call.n} : results'[n] = results[n]
               /\ call.kind \in WithRid => Head(down).answers = call.n
               /\ results'[call.n].kind = call.kind
               /\ results'[call.n].from = Head(down).answers
<1> DEFINE frame == Head(down)
           mine  == call.kind \notin WithRid \/ (HasRid(frame) /\ frame.answers = call.n)
<1>1. /\ Waiting /\ down # << >> /\ Consume(frame)
      /\ IF mine THEN Finish(OutcomeOf(call.kind, frame), frame.answers)
                 ELSE UNCHANGED <<call, drain, results, handed>>
      /\ UNCHANGED <<up, hand, open, pushed, gone>>
  BY DEF ReadReply, serverVars
<1>2. /\ frame \in Frames /\ Tail(down) \in Seq(Frames) /\ down' = Tail(down)
      /\ Len(down') <= DownCap
  <2>1. /\ frame \in Frames /\ Tail(down) \in Seq(Frames)
        /\ Len(down) \in Nat /\ Len(Tail(down)) = Len(down) - 1 /\ down' = Tail(down)
    BY <1>1, DownTypes DEF Typed, TypeOK, Consume
  <2>2. QED
    BY <2>1, CapTypes DEF Typed
<1>3. call # Null /\ call.n \in CallIds /\ call.kind \in CallKinds /\ drain = Null
  BY <1>1, WaitingFacts
<1>4. frame.answers \in Nat /\ (frame.kind = "Event" => frame.pos \in 1 .. MaxEvents)
      /\ OutcomeOf(call.kind, frame) \in Outcomes
  BY <1>2, <1>3, FrameFacts, OutcomeTypes
<1> HIDE DEF frame
<1>5. /\ results' \in [CallIds -> [kind : CallKinds, outcome : Outcomes, from : Nat] \cup {Null}]
      /\ call' \in {call, Null} /\ UNCHANGED <<drain, handed>>
      /\ \/ UNCHANGED results
         \/ /\ \A n \in CallIds \ {call.n} : results'[n] = results[n]
            /\ call.kind \in WithRid => frame.answers = call.n
            /\ results'[call.n].kind = call.kind /\ results'[call.n].from = frame.answers
  <2>1. CASE mine
    <3>1. Finish(OutcomeOf(call.kind, frame), frame.answers) /\ TypeOK /\ call # Null
      BY <1>1, <1>3, <2>1 DEF Typed
    <3>2. /\ results' \in [CallIds -> [kind : CallKinds, outcome : Outcomes, from : Nat] \cup {Null}]
          /\ results'[call.n] = [kind |-> call.kind, outcome |-> OutcomeOf(call.kind, frame),
                                 from |-> frame.answers]
          /\ \A n \in CallIds \ {call.n} : results'[n] = results[n]
          /\ call' = Null /\ UNCHANGED <<drain, handed>>
      BY <1>3, <1>4, <3>1, FinishTypes
    <3>3. QED
      BY <2>1, <3>2
  <2>2. CASE ~mine
    BY <1>1, <2>2 DEF Typed, TypeOK
  <2>3. QED
    BY <2>1, <2>2
<1>6. skipped' = IF frame.kind = "Event" THEN skipped \cup {frame.pos} ELSE skipped
  BY <1>1 DEF Consume
<1>7. Typed'
  <2>1. skipped' \subseteq 1 .. MaxEvents
    BY <1>4, <1>6 DEF Typed, TypeOK
  <2>2. drain' = Null
    BY <1>3, <1>5
  <2>3. QED
    BY <1>1, <1>2, <1>5, <2>1, <2>2 DEF Typed, TypeOK
<1>8. QED
  BY <1>1, <1>2, <1>3, <1>5, <1>6, <1>7 DEF frame

(* The ways a call ends without a frame.                                     *)
LEMMA GiveUpStep ==
  ASSUME Typed, Timeout \/ ReadEnd \/ (WriteFails /\ call.kind # "Unsubscribe")
  PROVE  /\ Typed' /\ UNCHANGED <<down, pushed, drain, handed, skipped>>
         /\ call.n \in CallIds /\ \A n \in CallIds \ {call.n} : results'[n] = results[n]
         /\ results'[call.n].outcome \in {"timeout", "closed"}
<1>1. /\ call # Null /\ call.n \in CallIds /\ call.kind \in CallKinds
      /\ Finish("timeout", 0) \/ Finish("closed", 0)
      /\ UNCHANGED <<up, down, hand, open, pushed, gone, skipped>>
  <2>1. CASE Timeout \/ ReadEnd
    <3>1. /\ Waiting
          /\ Finish("timeout", 0) \/ Finish("closed", 0)
          /\ UNCHANGED <<up, down, hand, open, pushed, gone, skipped>>
      BY <2>1 DEF Timeout, ReadEnd, serverVars
    <3>2. QED
      BY <3>1, WaitingFacts
  <2>2. CASE WriteFails /\ call.kind # "Unsubscribe"
    <3>1. /\ call # Null /\ Finish("closed", 0)
          /\ UNCHANGED <<up, down, hand, open, pushed, gone, skipped>>
      BY <2>2 DEF WriteFails, Writing, serverVars
    <3>2. call.n \in CallIds /\ call.kind \in CallKinds
      BY <2>2, <3>1 DEF Typed, TypeOK
    <3>3. QED
      BY <3>1, <3>2
  <2>3. QED
    BY <2>1, <2>2
<1>2. {"timeout", "closed"} \subseteq Outcomes /\ 0 \in Nat
  BY DEF Outcomes
<1>3. /\ results' \in [CallIds -> [kind : CallKinds, outcome : Outcomes, from : Nat] \cup {Null}]
      /\ results'[call.n].outcome \in {"timeout", "closed"}
      /\ \A n \in CallIds \ {call.n} : results'[n] = results[n]
      /\ call' = Null /\ UNCHANGED <<drain, handed>>
  <2>1. PICK outcome \in {"timeout", "closed"} : Finish(outcome, 0)
    BY <1>1
  <2>2. outcome \in Outcomes /\ TypeOK
    BY <1>2, <2>1 DEF Typed
  <2>3. /\ results' \in [CallIds -> [kind : CallKinds, outcome : Outcomes, from : Nat] \cup {Null}]
        /\ results'[call.n] = [kind |-> call.kind, outcome |-> outcome, from |-> 0]
        /\ \A n \in CallIds \ {call.n} : results'[n] = results[n]
        /\ call' = Null /\ UNCHANGED <<drain, handed>>
    BY <1>1, <1>2, <2>1, <2>2, FinishTypes
  <2>4. results'[call.n].outcome = outcome
    BY <2>3
  <2>5. QED
    BY <2>1, <2>3, <2>4
<1>4. Typed'
  BY <1>1, <1>3 DEF Typed, TypeOK
<1>5. QED
  BY <1>1, <1>3, <1>4

LEMMA DrainReadStep ==
  ASSUME Typed, DrainRead
  PROVE  /\ Typed' /\ down # << >> /\ Head(down) \in Frames /\ down' = Tail(down)
         /\ InDrain' = IF Head(down).kind = "Event" THEN Append(InDrain, Head(down).pos) ELSE InDrain
         /\ UNCHANGED <<pushed, results, handed, skipped>>
<1> DEFINE frame  == Head(down)
           events == IF frame.kind = "Event" THEN Append(drain.events, frame.pos) ELSE drain.events
<1>1. /\ drain # Null /\ down # << >> /\ down' = Tail(down)
      /\ drain' = [drain EXCEPT !.due = IF @ = 0 THEN 0 ELSE @ - 1, !.events = events]
      /\ UNCHANGED <<up, hand, open, pushed, gone, call, results, handed, skipped>>
  BY DEF DrainRead, Took, serverVars
<1>2. /\ frame \in Frames /\ Tail(down) \in Seq(Frames)
      /\ Len(down) \in Nat /\ Len(down) # 0 /\ Len(Tail(down)) = Len(down) - 1
  BY <1>1, DownTypes DEF Typed, TypeOK
<1>3. drain \in Drains /\ drain.due <= Len(down) /\ call = Null
  BY <1>1 DEF Typed, TypeOK
<1>4. drain.events \in Seq(1 .. MaxEvents) /\ drain.due \in Nat
  BY <1>3 DEF Drains
<1>5. events \in Seq(1 .. MaxEvents)
  BY <1>2, <1>4, FrameFacts, AppendFacts
<1> HIDE DEF events
<1>6. /\ drain' \in Drains /\ drain'.events = events
      /\ drain'.due = IF drain.due = 0 THEN 0 ELSE drain.due - 1
  <2>1. (IF drain.due = 0 THEN 0 ELSE drain.due - 1) \in Nat
    BY <1>4
  <2>2. drain' = [drain EXCEPT !.due = IF drain.due = 0 THEN 0 ELSE drain.due - 1,
                               !.events = events]
    BY <1>1
  <2>3. QED
    BY <1>3, <1>5, <2>1, <2>2 DEF Drains
<1>7. drain' # Null
  BY <1>6, WireAssumption
<1>8. drain'.due <= Len(down') /\ Len(down') <= DownCap
  <2>1. Len(down) <= DownCap /\ DownCap \in Nat
    BY CapTypes DEF Typed
  <2>2. QED
    BY <1>1, <1>2, <1>3, <1>4, <1>6, <2>1
<1>9. Typed'
  BY <1>1, <1>2, <1>3, <1>6, <1>8 DEF Typed, TypeOK
<1>10. InDrain = drain.events /\ InDrain' = events
  BY <1>1, <1>6, <1>7 DEF InDrain
<1>11. QED
  BY <1>1, <1>2, <1>9, <1>10 DEF events

(* A drain that ends hands its events over, or drops them.                   *)
LEMMA DrainStopStep ==
  ASSUME Typed, DrainEnd \/ DrainFails
  PROVE  /\ Typed' /\ UNCHANGED <<down, pushed, results>> /\ InDrain' = << >>
         /\ \/ handed' = handed \o InDrain /\ UNCHANGED skipped
            \/ skipped' = skipped \cup Range(InDrain) /\ UNCHANGED handed
<1>1. /\ drain # Null /\ drain' = Null
      /\ UNCHANGED <<up, down, hand, open, pushed, gone, call, results>>
      /\ \/ handed' = handed \o drain.events /\ UNCHANGED skipped
         \/ skipped' = skipped \cup Range(drain.events) /\ UNCHANGED handed
  BY DEF DrainEnd, DrainFails, serverVars
<1>2. drain.events \in Seq(1 .. MaxEvents) /\ 1 .. MaxEvents \subseteq Nat
  BY <1>1, WireAssumption DEF Typed, TypeOK, Drains
<1>3. Range(drain.events) \subseteq 1 .. MaxEvents /\ drain.events \in Seq(Nat)
  BY <1>2, SeqFacts
<1>4. handed \in Seq(Nat) /\ skipped \subseteq 1 .. MaxEvents
  BY DEF Typed, TypeOK
<1>5. handed' \in Seq(Nat) /\ skipped' \subseteq 1 .. MaxEvents
  <2>1. handed \o drain.events \in Seq(Nat)
    BY <1>3, <1>4
  <2>2. QED
    BY <1>1, <1>3, <1>4, <2>1
<1>6. Typed'
  BY <1>1, <1>5 DEF Typed, TypeOK
<1>7. InDrain = drain.events /\ InDrain' = << >>
  BY <1>1 DEF InDrain
<1>8. QED
  BY <1>1, <1>6, <1>7

(* The other steps: the server's, and the client's that read no frame.       *)
Quiet ==
  /\ UNCHANGED <<pushed, InDrain, results, handed, skipped>>
  /\ \/ UNCHANGED down
     \/ \E f \in Frames : f.kind # "Event" /\ down' = Append(down, f)

Pushing ==
  /\ UNCHANGED <<InDrain, results, handed, skipped>>
  /\ \E s \in CallIds : /\ pushed' = Append(pushed, s)
                       /\ Pushed(s, Len(pushed) + 1) \in Frames
                       /\ down' = Append(down, Pushed(s, Len(pushed) + 1))

LEMMA StepKinds ==
  ASSUME Typed, [Next]_vars
  PROVE  \/ Typed' /\ (Quiet \/ Pushing)
         \/ ReadReply \/ DrainRead \/ DrainEnd \/ DrainFails
         \/ Timeout \/ ReadEnd \/ (WriteFails /\ call.kind # "Unsubscribe")
<1>0. TypeOK
  BY DEF Typed
<1>1. CASE UNCHANGED vars
  <2>1. UNCHANGED InDrain
    BY <1>1 DEF vars, clientVars, InDrain
  <2>2. Typed' /\ Quiet
    BY <1>0, <1>1, <2>1 DEF vars, serverVars, clientVars, Typed, TypeOK, Quiet
  <2>3. QED
    BY <2>2
<1>2. ASSUME NEW n \in CallIds, NEW kind \in CallKinds \cup {"Unsubscribe"}, Begin(n, kind)
      PROVE  Typed' /\ Quiet
  <2>1. /\ call' = [n |-> n, kind |-> kind, stage |-> "writing"] /\ drain = Null
        /\ UNCHANGED <<up, down, hand, open, pushed, gone, drain, results, handed, skipped>>
    BY <1>2 DEF Begin, Idle, serverVars
  <2>2. /\ call' \in [n : CallIds, kind : CallKinds \cup {"Unsubscribe"},
                     stage : {"writing", "waiting"}]
        /\ call'.stage = "writing"
    BY <2>1
  <2>3. UNCHANGED InDrain
    BY <2>1 DEF InDrain
  <2>4. QED
    BY <1>0, <2>1, <2>2, <2>3 DEF Typed, TypeOK, Quiet
<1>3. ASSUME Write PROVE Typed' /\ Quiet
  <2>1. /\ call # Null /\ Len(up) < UpCap
        /\ up' = Append(up, [n |-> call.n, kind |-> call.kind])
        /\ call' = IF call.kind = "Unsubscribe" THEN Null ELSE [call EXCEPT !.stage = "waiting"]
        /\ UNCHANGED <<down, hand, open, pushed, gone, drain, results, handed, skipped>>
    BY <1>3 DEF Write, Writing, serverVars
  <2>2. /\ call \in [n : CallIds, kind : CallKinds \cup {"Unsubscribe"},
                    stage : {"writing", "waiting"}]
        /\ drain = Null
    BY <2>1 DEF Typed, TypeOK
  <2>3. [n |-> call.n, kind |-> call.kind] \in Requests
    BY <2>2 DEF Requests
  <2>4. up' \in Seq(Requests) /\ Len(up') <= UpCap
    <3>1. up' \in Seq(Requests) /\ Len(up') = Len(up) + 1
      BY <1>0, <2>1, <2>3, CapTypes, AppendFacts
    <3>2. QED
      BY <1>0, <2>1, <3>1, CapTypes
  <2>5. /\ call' \in [n : CallIds, kind : CallKinds \cup {"Unsubscribe"},
                     stage : {"writing", "waiting"}] \cup {Null}
        /\ call' # Null /\ call'.kind = "Unsubscribe" => call'.stage = "writing"
    <3>1. CASE call.kind = "Unsubscribe"
      BY <2>1, <3>1
    <3>2. CASE call.kind # "Unsubscribe"
      BY <2>1, <2>2, <3>2
    <3>3. QED
      BY <3>1, <3>2
  <2>6. UNCHANGED InDrain
    BY <2>1 DEF InDrain
  <2>7. QED
    BY <1>0, <2>1, <2>2, <2>4, <2>5, <2>6 DEF Typed, TypeOK, Quiet
<1>9. ASSUME WriteFails, call.kind = "Unsubscribe" PROVE Typed' /\ Quiet
  <2>1. /\ call' = Null
        /\ UNCHANGED <<up, down, hand, open, pushed, gone, drain, results, handed, skipped>>
    BY <1>9 DEF WriteFails, serverVars
  <2>2. UNCHANGED InDrain
    BY <2>1 DEF InDrain
  <2>3. QED
    BY <1>0, <2>1, <2>2 DEF Typed, TypeOK, Quiet
<1>4. ASSUME NEW s \in CallIds, StartDrain(s) PROVE Typed' /\ Quiet
  <2>1. /\ call = Null /\ drain = Null
        /\ drain' = [sub |-> s, due |-> Len(down), before |-> pushed, events |-> << >>]
        /\ UNCHANGED <<up, down, hand, open, pushed, gone, call, results, handed, skipped>>
    BY <1>4 DEF StartDrain, Idle, serverVars
  <2>2. Len(down) \in Nat /\ pushed \in Seq(CallIds) /\ << >> \in Seq(1 .. MaxEvents)
    BY <1>0 DEF TypeOK
  <2>3. drain' \in Drains /\ drain'.due = Len(down) /\ drain'.events = << >>
    BY <2>1, <2>2 DEF Drains
  <2>4. UNCHANGED InDrain
    BY <2>1, <2>3 DEF InDrain
  <2>5. drain'.due <= Len(down')
    BY <2>1, <2>2, <2>3
  <2>6. QED
    BY <1>0, <2>1, <2>3, <2>4, <2>5 DEF Typed, TypeOK, Quiet
<1>5. ASSUME NEW f \in Frames, down' = Append(down, f), Len(down) < DownCap
      PROVE  /\ down' \in Seq(Frames) /\ Len(down') <= DownCap
             /\ drain # Null => drain.due <= Len(down')
  <2>1. down' \in Seq(Frames) /\ Len(down') = Len(down) + 1 /\ Len(down) \in Nat
    BY <1>0, <1>5, AppendFacts DEF TypeOK
  <2>2. ASSUME drain # Null PROVE drain.due <= Len(down')
    <3>1. drain.due \in Nat /\ drain.due <= Len(down)
      BY <1>0, <2>2 DEF TypeOK, Drains
    <3>2. QED
      BY <2>1, <3>1
  <2>3. Len(down') <= DownCap
    BY <1>0, <1>5, <2>1, CapTypes
  <2>4. QED
    BY <2>1, <2>2, <2>3
<1>6. CASE Serve
  <2> DEFINE f == Head(up)
  <2>1. f \in Requests /\ up' \in Seq(Requests) /\ Len(up') <= UpCap
    <3>1. up \in Seq(Requests) /\ up # << >> /\ up' = Tail(up)
      BY <1>0, <1>6 DEF Serve, TypeOK
    <3>2. /\ Head(up) \in Requests /\ Tail(up) \in Seq(Requests)
          /\ Len(Tail(up)) = Len(up) - 1 /\ Len(up) \in Nat
      BY <3>1
    <3>3. QED
      BY <1>0, <3>1, <3>2, CapTypes
  <2>2. /\ Opened(f)
        /\ \/ UNCHANGED hand
           \/ \E k \in Replies(f.kind) : hand' = Answer(k, f.n)
        /\ UNCHANGED <<down, pushed, gone, call, drain, results, handed, skipped>>
    BY <1>6 DEF Serve, clientVars
  <2>3. f.n \in CallIds /\ open' \subseteq CallIds
    BY <1>0, <2>1, <2>2 DEF Opened, Requests, TypeOK
  <2>4. \A k \in Replies(f.kind) : Answer(k, f.n) \in Answers
    <3>1. \A k \in Replies(f.kind) :
            k \in {"Result", "Error", "QueryError", "MountAck", "MountReject", "SubscribeAck"}
      BY DEF Replies
    <3>2. QED
      BY <2>3, <3>1 DEF Answer, Answers
  <2> HIDE DEF f
  <2>5. UNCHANGED InDrain
    BY <2>2 DEF InDrain
  <2>6. hand' \in Answers \cup {Null}
    BY <1>0, <2>2, <2>4 DEF TypeOK
  <2>7. Quiet
    BY <2>2, <2>5 DEF Quiet
  <2>8. Typed'
    BY <1>0, <2>1, <2>2, <2>3, <2>6 DEF Typed, TypeOK
  <2>9. QED
    BY <2>7, <2>8
<1>10. CASE Respond
  <2>1. /\ hand # Null /\ hand' = Null /\ down' = Append(down, hand) /\ Len(down) < DownCap
        /\ UNCHANGED <<up, open, pushed, gone, call, drain, results, handed, skipped>>
    BY <1>10 DEF Respond, clientVars
  <2>2. hand \in Frames /\ hand.kind # "Event"
    BY <1>0, <2>1 DEF TypeOK, Answers, Frames
  <2>3. UNCHANGED InDrain
    BY <2>1 DEF InDrain
  <2>4. /\ down' \in Seq(Frames) /\ Len(down') <= DownCap
        /\ drain # Null => drain.due <= Len(down')
    BY <1>5, <2>1, <2>2
  <2>5. Quiet
    BY <2>1, <2>2, <2>3 DEF Quiet
  <2>6. Typed'
    BY <1>0, <2>1, <2>4 DEF Typed, TypeOK
  <2>7. QED
    BY <2>5, <2>6
<1>7. ASSUME NEW s \in CallIds, PushEvent(s) PROVE Typed' /\ Pushing
  <2>1. /\ Len(pushed) < MaxEvents /\ Len(down) < DownCap /\ pushed' = Append(pushed, s)
        /\ down' = Append(down, Pushed(s, Len(pushed) + 1))
        /\ UNCHANGED <<up, hand, open, gone, call, drain, results, handed, skipped>>
    BY <1>7 DEF PushEvent, clientVars
  <2>2. Len(pushed) + 1 \in 1 .. MaxEvents /\ pushed' \in Seq(CallIds)
    BY <1>0, <2>1, WireAssumption DEF TypeOK
  <2>3. Pushed(s, Len(pushed) + 1) \in Frames
    BY <2>2 DEF Pushed, Frames
  <2>4. UNCHANGED InDrain
    BY <2>1 DEF InDrain
  <2>5. Pushing
    BY <2>1, <2>3, <2>4 DEF Pushing
  <2>6. Typed'
    BY <1>0, <1>5, <2>1, <2>2, <2>3 DEF Typed, TypeOK
  <2>7. QED
    BY <2>5, <2>6
<1>8. CASE Close
  <2>1. UNCHANGED InDrain
    BY <1>8 DEF Close, clientVars, InDrain
  <2>2. Typed' /\ Quiet
    BY <1>0, <1>8, <2>1 DEF Close, clientVars, Typed, TypeOK, Quiet
  <2>3. QED
    BY <2>2
<1>11. ASSUME NEW kind \in CallKinds, Start(kind) PROVE Typed' /\ Quiet
  <2>1. PICK n \in CallIds : Begin(n, kind)
    BY <1>11 DEF Start
  <2>2. QED
    BY <1>2, <2>1
<1>12. ASSUME NEW s \in CallIds, StartUnsubscribe(s) PROVE Typed' /\ Quiet
  BY <1>2, <1>12 DEF StartUnsubscribe
<1>13. QED
  BY <1>1, <1>3, <1>4, <1>6, <1>7, <1>8, <1>9, <1>10, <1>11, <1>12 DEF Next

LEMMA TypedStep == Typed /\ [Next]_vars => Typed'
BY StepKinds, ReadReplyStep, GiveUpStep, DrainReadStep, DrainStopStep

-----------------------------------------------------------------------------
(* A call with a request_id ends with a frame only when the frame carries it. *)
OwnInv == Typed /\ OwnAnswer

LEMMA OwnStep == OwnInv /\ [Next]_vars => OwnInv'
<1> SUFFICES ASSUME OwnInv, [Next]_vars PROVE OwnInv'
  OBVIOUS
<1>0. Typed /\ Typed' /\ OwnAnswer
  BY TypedStep DEF OwnInv
<1>1. TypeOK'
  BY <1>0 DEF Typed
<1> DEFINE Own(n) == results[n].kind \in WithRid /\ results[n].outcome \in {"ok", "server error"}
                       => results[n].from = n
<1>2. \A n \in CallIds : results[n] # Null => Own(n)
  BY <1>0 DEF OwnAnswer, Calls
<1>3. \A n \in CallIds : results'[n] # Null => Own(n)'
  <2>1. CASE UNCHANGED results
    BY <1>2, <2>1
  <2>2. CASE ReadReply
    <3>1. \/ UNCHANGED results
          \/ /\ call.n \in CallIds /\ \A n \in CallIds \ {call.n} : results'[n] = results[n]
             /\ call.kind \in WithRid => Head(down).answers = call.n
             /\ results'[call.n].kind = call.kind
             /\ results'[call.n].from = Head(down).answers
      BY <1>0, <2>2, ReadReplyStep
    <3>2. QED
      BY <1>2, <2>1, <3>1
  <2>3. CASE Timeout \/ ReadEnd \/ (WriteFails /\ call.kind # "Unsubscribe")
    <3>1. /\ \A n \in CallIds \ {call.n} : results'[n] = results[n]
          /\ results'[call.n].outcome \in {"timeout", "closed"}
      BY <1>0, <2>3, GiveUpStep
    <3>2. QED
      BY <1>2, <3>1
  <2>4. QED
    BY <1>0, <2>1, <2>2, <2>3, StepKinds, DrainReadStep, DrainStopStep DEF Quiet, Pushing
<1>4. QED
  BY <1>0, <1>1, <1>3 DEF OwnInv, OwnAnswer, Calls

LEMMA TypedInit == Init => Typed
<1> SUFFICES ASSUME Init PROVE Typed
  OBVIOUS
<1>1. /\ up = << >> /\ down = << >> /\ hand = Null /\ open = {} /\ pushed = << >> /\ gone = FALSE
      /\ call = Null /\ drain = Null /\ results = [n \in CallIds |-> Null]
      /\ handed = << >> /\ skipped = {}
  BY DEF Init
<1>2. /\ up \in Seq(Requests) /\ Len(up) <= UpCap /\ down \in Seq(Frames) /\ Len(down) <= DownCap
      /\ pushed \in Seq(CallIds) /\ handed \in Seq(Nat)
  BY <1>1, WireAssumption
<1>3. gone \in BOOLEAN
  BY <1>1, Zenon
<1>4. results \in [CallIds -> [kind : CallKinds, outcome : Outcomes, from : Nat] \cup {Null}]
  BY <1>1
<1>5. QED
  BY <1>1, <1>2, <1>3, <1>4 DEF Typed, TypeOK

(* A query, get or invoke never takes the answer of another call for its     *)
(* own, whatever the stream holds when it waits.                             *)
THEOREM OwnAnswerCorrect == Spec => []OwnAnswer
<1>1. Init => OwnInv
  BY TypedInit DEF Init, OwnInv, Typed, OwnAnswer, Calls
<1>2. OwnInv => OwnAnswer
  BY DEF OwnInv
<1>3. QED
  BY <1>1, OwnStep, <1>2, PTL DEF Spec

-----------------------------------------------------------------------------
(* The events: what calls passed over and drains collected was pushed before *)
(* all that is still in the stream, and no event is in two places.           *)
IsEvent(i) == i \in DOMAIN down /\ down[i].kind = "Event"
InOrder == \A i, j \in DOMAIN down :
             IsEvent(i) /\ IsEvent(j) /\ i < j => down[i].pos < down[j].pos

Taken == Range(handed) \cup Range(InDrain) \cup skipped

Accounts ==
  /\ DOMAIN pushed = InStream \cup Taken
  /\ InOrder
  /\ \A p \in Taken, q \in InStream : p < q
  /\ skipped \cap (Range(handed) \cup Range(InDrain)) = {}
  /\ Ascending(handed) /\ Ascending(InDrain)
  /\ \A p \in Range(handed), q \in Range(InDrain) : p < q

EventInv == Typed /\ Accounts

LEMMA EventTypes ==
  ASSUME Typed
  PROVE  /\ down \in Seq(Frames) /\ handed \in Seq(Nat) /\ InDrain \in Seq(Nat)
         /\ InStream \subseteq Nat /\ Taken \subseteq Nat /\ skipped \subseteq Nat
         /\ pushed \in Seq(CallIds)
         /\ InStream = {down[i].pos : i \in {j \in DOMAIN down : IsEvent(j)}}
<1>1. 1 .. MaxEvents \subseteq Nat
  BY WireAssumption
<1>2. down \in Seq(Frames) /\ handed \in Seq(Nat) /\ skipped \subseteq Nat /\ pushed \in Seq(CallIds)
  BY <1>1 DEF Typed, TypeOK
<1>3. InDrain \in Seq(Nat)
  <2>1. CASE drain = Null
    BY <2>1 DEF InDrain
  <2>2. CASE drain # Null
    <3>1. drain.events \in Seq(1 .. MaxEvents)
      BY <2>2 DEF Typed, TypeOK, Drains
    <3>2. QED
      BY <1>1, <2>2, <3>1, SeqFacts DEF InDrain
  <2>3. QED
    BY <2>1, <2>2
<1>4. Range(handed) \subseteq Nat /\ Range(InDrain) \subseteq Nat
  BY <1>2, <1>3, SeqFacts
<1>5. InStream \subseteq Nat
  <2>1. \A i \in DOMAIN down : down[i] \in Frames
    BY <1>2
  <2>2. QED
    BY <1>1, <2>1, FrameFacts DEF InStream
<1>6. InStream = {down[i].pos : i \in {j \in DOMAIN down : IsEvent(j)}}
  BY DEF InStream, IsEvent
<1>7. QED
  BY <1>2, <1>3, <1>4, <1>5, <1>6 DEF Taken

(* The stream when a frame is written: at its end, after all the others.     *)
LEMMA Arrives ==
  ASSUME Typed, InOrder, NEW f \in Frames, down' = Append(down, f),
         f.kind = "Event" => \A q \in InStream : q < f.pos
  PROVE  /\ InOrder'
         /\ InStream' = IF f.kind = "Event" THEN InStream \cup {f.pos} ELSE InStream
<1>0. down \in Seq(Frames)
  BY EventTypes
<1>1. /\ DOMAIN down = 1 .. Len(down) /\ Len(down) \in Nat
      /\ DOMAIN down' = 1 .. Len(down) + 1 /\ down'[Len(down) + 1] = f
      /\ \A i \in DOMAIN down : i \in DOMAIN down' /\ i # Len(down) + 1 /\ down'[i] = down[i]
      /\ \A i \in DOMAIN down' : i = Len(down) + 1 \/ i \in DOMAIN down
  BY <1>0, AppendFacts
<1>2. \A i \in DOMAIN down : IsEvent(i)' <=> IsEvent(i)
  BY <1>1 DEF IsEvent
<1>3. PICK n \in Nat : n = Len(down) + 1 /\ (IsEvent(n)' <=> f.kind = "Event")
  BY <1>1 DEF IsEvent
<1>4. ASSUME NEW i \in DOMAIN down', NEW j \in DOMAIN down', IsEvent(i)', IsEvent(j)', i < j
      PROVE  down'[i].pos < down'[j].pos
  <2>1. i \in DOMAIN down
    BY <1>1, <1>4
  <2>2. CASE j \in DOMAIN down
    BY <1>1, <1>2, <1>4, <2>1, <2>2 DEF InOrder
  <2>3. CASE j = Len(down) + 1
    <3>1. down[i].pos \in InStream
      BY <1>2, <1>4, <2>1 DEF InStream, IsEvent
    <3>2. f.kind = "Event"
      BY <1>3, <1>4, <2>3
    <3>3. QED
      BY <1>1, <2>1, <2>3, <3>1, <3>2
  <2>4. QED
    BY <1>1, <2>2, <2>3
<1>5. InOrder'
  BY <1>4 DEF InOrder
<1>6. InStream \subseteq InStream'
  BY <1>1 DEF InStream
<1>7. InStream' \subseteq IF f.kind = "Event" THEN InStream \cup {f.pos} ELSE InStream
  BY <1>1 DEF InStream
<1>8. f.kind = "Event" => f.pos \in InStream'
  BY <1>1 DEF InStream
<1>9. QED
  BY <1>5, <1>6, <1>7, <1>8

(* The stream when its first frame is taken: an event that was in it is      *)
(* before those that stay.                                                   *)
LEMMA Leaves ==
  ASSUME Typed, InOrder, down # << >>, down' = Tail(down)
  PROVE  /\ InOrder'
         /\ IF Head(down).kind = "Event"
            THEN /\ InStream = {Head(down).pos} \cup InStream'
                 /\ \A q \in InStream' : Head(down).pos < q
            ELSE InStream' = InStream
<1>1. down \in Seq(Frames)
  BY EventTypes
<1>2. /\ Len(down) \in Nat /\ DOMAIN down = 1 .. Len(down) /\ 1 \in DOMAIN down
      /\ Head(down) = down[1]
      /\ DOMAIN down' = 1 .. Len(down) - 1
      /\ \A i \in 1 .. Len(down) - 1 : down'[i] = down[i + 1]
  BY <1>1
<1>3. \A i \in DOMAIN down' : /\ i \in Nat /\ i + 1 \in DOMAIN down /\ 1 < i + 1
                            /\ down'[i] = down[i + 1]
                            /\ IsEvent(i)' <=> IsEvent(i + 1)
  BY <1>2 DEF IsEvent
<1>4. ASSUME NEW i \in DOMAIN down, i # 1
      PROVE  i - 1 \in DOMAIN down' /\ down[i] = down'[i - 1]
  <2>1. i \in 1 .. Len(down)
    BY <1>2, <1>4
  <2>2. i - 1 \in 1 .. Len(down) - 1 /\ (i - 1) + 1 = i
    BY <1>2, <1>4, <2>1
  <2>3. QED
    BY <1>2, <2>2
<1>5. InOrder'
  BY <1>3 DEF InOrder
<1>6. InStream' \subseteq InStream
  BY <1>3 DEF InStream
<1>7. InStream \subseteq InStream' \cup (IF Head(down).kind = "Event" THEN {Head(down).pos} ELSE {})
  <2> SUFFICES ASSUME NEW i \in DOMAIN down, down[i].kind = "Event",
                      i = 1 => Head(down).kind # "Event"
               PROVE  down[i].pos \in InStream'
    BY <1>2 DEF InStream
  <2>1. i # 1
    BY <1>2
  <2>2. i - 1 \in DOMAIN down' /\ down[i] = down'[i - 1]
    BY <1>4, <2>1
  <2>3. QED
    BY <2>2 DEF InStream
<1>8. Head(down).kind = "Event" => /\ Head(down).pos \in InStream
                                  /\ \A q \in InStream' : Head(down).pos < q
  <2> SUFFICES ASSUME Head(down).kind = "Event"
               PROVE  Head(down).pos \in InStream /\ \A q \in InStream' : Head(down).pos < q
    OBVIOUS
  <2>1. IsEvent(1) /\ Head(down).pos \in InStream
    BY <1>2 DEF IsEvent, InStream
  <2>2. \A i \in DOMAIN down' : IsEvent(i)' => Head(down).pos < down'[i].pos
    BY <1>2, <1>3, <2>1 DEF InOrder
  <2>3. QED
    BY <2>1, <2>2 DEF InStream, IsEvent
<1>9. QED
  BY <1>5, <1>6, <1>7, <1>8

LEMMA EventStep == EventInv /\ [Next]_vars => EventInv'
<1> SUFFICES ASSUME EventInv, [Next]_vars PROVE Accounts'
  BY TypedStep DEF EventInv
<1>0. /\ Typed /\ Accounts /\ InOrder
      /\ handed \in Seq(Nat) /\ InDrain \in Seq(Nat) /\ pushed \in Seq(CallIds)
      /\ InStream \subseteq Nat /\ Taken \subseteq Nat
  BY EventTypes DEF EventInv, Accounts
<1>1. CASE Quiet
  <2>1. InOrder' /\ InStream' = InStream
    <3>1. CASE UNCHANGED down
      BY <1>0, <3>1 DEF InOrder, IsEvent, InStream
    <3>2. CASE \E f \in Frames : f.kind # "Event" /\ down' = Append(down, f)
      BY <1>0, <3>2, Arrives
    <3>3. QED
      BY <1>1, <3>1, <3>2 DEF Quiet
  <2>2. UNCHANGED <<pushed, InDrain, handed, skipped>>
    BY <1>1 DEF Quiet
  <2>3. QED
    BY <1>0, <2>1, <2>2 DEF Accounts, Taken
<1>2. CASE Pushing
  <2>1. PICK s \in CallIds : /\ pushed' = Append(pushed, s)
                             /\ Pushed(s, Len(pushed) + 1) \in Frames
                             /\ down' = Append(down, Pushed(s, Len(pushed) + 1))
    BY <1>2 DEF Pushing
  <2>2. PICK n \in Nat : n = Len(pushed) + 1 /\ DOMAIN pushed' = DOMAIN pushed \cup {n}
                         /\ \A p \in DOMAIN pushed : p < n
    <3>1. /\ Len(pushed) \in Nat /\ DOMAIN pushed = 1 .. Len(pushed)
          /\ DOMAIN pushed' = 1 .. Len(pushed) + 1
      BY <1>0, <2>1, AppendFacts
    <3>2. QED
      BY <3>1
  <2>3. InOrder' /\ InStream' = InStream \cup {n}
    <3>1. Pushed(s, n).kind = "Event" /\ Pushed(s, n).pos = n
      BY DEF Pushed
    <3>2. \A q \in InStream : q < n
      BY <1>0, <2>2 DEF Accounts
    <3>3. QED
      BY <1>0, <2>1, <2>2, <3>1, <3>2, Arrives
  <2>4. UNCHANGED <<InDrain, handed, skipped>> /\ Taken' = Taken
    BY <1>2 DEF Pushing, Taken
  <2>5. \A p \in Taken : p < n
    BY <1>0, <2>2 DEF Accounts
  <2>6. DOMAIN pushed' = InStream' \cup Taken'
    BY <1>0, <2>2, <2>3, <2>4 DEF Accounts
  <2>7. \A p \in Taken', q \in InStream' : p < q
    BY <1>0, <2>3, <2>4, <2>5 DEF Accounts
  <2>8. QED
    BY <1>0, <2>3, <2>4, <2>6, <2>7 DEF Accounts
<1>3. CASE ReadReply
  <2>1. /\ down # << >> /\ down' = Tail(down)
        /\ skipped' = IF Head(down).kind = "Event" THEN skipped \cup {Head(down).pos} ELSE skipped
        /\ UNCHANGED <<pushed, handed, drain>>
    BY <1>0, <1>3, ReadReplyStep
  <2>2. UNCHANGED InDrain
    BY <2>1 DEF InDrain
  <2>3. /\ InOrder'
        /\ IF Head(down).kind = "Event"
           THEN /\ InStream = {Head(down).pos} \cup InStream'
                /\ \A q \in InStream' : Head(down).pos < q
           ELSE InStream' = InStream
    BY <1>0, <2>1, Leaves
  <2>4. CASE Head(down).kind # "Event"
    BY <1>0, <2>1, <2>2, <2>3, <2>4 DEF Accounts, Taken
  <2>5. CASE Head(down).kind = "Event"
    <3>1. Taken' = Taken \cup {Head(down).pos} /\ Head(down).pos \in InStream
      BY <2>1, <2>2, <2>3, <2>5 DEF Taken
    <3>2. Head(down).pos \notin Range(handed) \cup Range(InDrain)
      BY <1>0, <3>1 DEF Accounts, Taken
    <3>3. DOMAIN pushed' = InStream' \cup Taken'
      BY <1>0, <2>1, <2>3, <2>5, <3>1 DEF Accounts
    <3>4. \A p \in Taken', q \in InStream' : p < q
      BY <1>0, <2>3, <2>5, <3>1 DEF Accounts
    <3>5. skipped' \cap (Range(handed') \cup Range(InDrain')) = {}
      BY <1>0, <2>1, <2>2, <3>2 DEF Accounts
    <3>6. QED
      BY <1>0, <2>1, <2>2, <2>3, <3>3, <3>4, <3>5 DEF Accounts
  <2>6. QED
    BY <2>4, <2>5
<1>4. CASE DrainRead
  <2>1. /\ down # << >> /\ down' = Tail(down) /\ Head(down) \in Frames
        /\ InDrain' = IF Head(down).kind = "Event" THEN Append(InDrain, Head(down).pos) ELSE InDrain
        /\ UNCHANGED <<pushed, handed, skipped>>
    BY <1>0, <1>4, DrainReadStep
  <2>2. /\ InOrder'
        /\ IF Head(down).kind = "Event"
           THEN /\ InStream = {Head(down).pos} \cup InStream'
                /\ \A q \in InStream' : Head(down).pos < q
           ELSE InStream' = InStream
    BY <1>0, <2>1, Leaves
  <2>3. CASE Head(down).kind # "Event"
    BY <1>0, <2>1, <2>2, <2>3 DEF Accounts, Taken
  <2>4. CASE Head(down).kind = "Event"
    <3>1. PICK pos \in Nat : pos = Head(down).pos /\ pos \in InStream
      BY <1>0, <2>2, <2>4
    <3>2. \A p \in Taken : p < pos
      BY <1>0, <3>1 DEF Accounts
    <3>3. /\ Range(InDrain') = Range(InDrain) \cup {pos}
          /\ Ascending(InDrain')
      BY <1>0, <2>1, <2>4, <3>1, <3>2, AppendRange DEF Accounts, Taken
    <3>4. Taken' = Taken \cup {pos}
      BY <2>1, <3>3 DEF Taken
    <3>5. DOMAIN pushed' = InStream' \cup Taken'
      BY <1>0, <2>1, <2>2, <2>4, <3>1, <3>4 DEF Accounts
    <3>6. \A p \in Taken', q \in InStream' : p < q
      BY <1>0, <2>2, <2>4, <3>1, <3>4 DEF Accounts
    <3>7. pos \notin skipped
      BY <1>0, <3>2 DEF Taken
    <3>8. skipped' \cap (Range(handed') \cup Range(InDrain')) = {}
      BY <1>0, <2>1, <3>3, <3>7 DEF Accounts
    <3>9. \A p \in Range(handed'), q \in Range(InDrain') : p < q
      BY <1>0, <2>1, <3>2, <3>3 DEF Accounts, Taken
    <3>10. QED
      BY <1>0, <2>1, <2>2, <3>3, <3>5, <3>6, <3>8, <3>9 DEF Accounts
  <2>5. QED
    BY <2>3, <2>4
<1>5. CASE DrainEnd \/ DrainFails
  <2>1. /\ UNCHANGED <<down, pushed>> /\ InDrain' = << >>
        /\ \/ handed' = handed \o InDrain /\ UNCHANGED skipped
           \/ skipped' = skipped \cup Range(InDrain) /\ UNCHANGED handed
    BY <1>0, <1>5, DrainStopStep
  <2>2. InOrder' /\ InStream' = InStream
    BY <1>0, <2>1 DEF InOrder, IsEvent, InStream
  <2>3. Range(InDrain') = {} /\ Ascending(InDrain')
    BY <2>1, EmptyFacts
  <2>4. CASE handed' = handed \o InDrain /\ UNCHANGED skipped
    <3>1. Range(handed') = Range(handed) \cup Range(InDrain) /\ Ascending(handed')
      BY <1>0, <2>4, ConcatFacts DEF Accounts
    <3>2. Taken' = Taken
      BY <2>3, <2>4, <3>1 DEF Taken
    <3>3. QED
      BY <1>0, <2>1, <2>2, <2>3, <2>4, <3>1, <3>2 DEF Accounts
  <2>5. CASE skipped' = skipped \cup Range(InDrain) /\ UNCHANGED handed
    <3>1. Taken' = Taken
      BY <2>3, <2>5 DEF Taken
    <3>2. Range(handed) \cap Range(InDrain) = {}
      <4>1. Range(handed) \subseteq Nat
        BY <1>0 DEF Taken
      <4>2. QED
        BY <1>0, <4>1 DEF Accounts
    <3>3. skipped' \cap (Range(handed') \cup Range(InDrain')) = {}
      BY <1>0, <2>3, <2>5, <3>2 DEF Accounts
    <3>4. QED
      BY <1>0, <2>1, <2>2, <2>3, <2>5, <3>1, <3>3 DEF Accounts
  <2>6. QED
    BY <2>1, <2>4, <2>5
<1>6. CASE Timeout \/ ReadEnd \/ (WriteFails /\ call.kind # "Unsubscribe")
  <2>1. UNCHANGED <<down, pushed, drain, handed, skipped>>
    BY <1>0, <1>6, GiveUpStep
  <2>2. UNCHANGED <<InDrain, InStream, InOrder>>
    BY <2>1 DEF InDrain, InStream, InOrder, IsEvent
  <2>3. QED
    BY <1>0, <2>1, <2>2 DEF Accounts, Taken
<1>7. QED
  BY <1>0, <1>1, <1>2, <1>3, <1>4, <1>5, <1>6, StepKinds

LEMMA EventInit == Init => EventInv
<1> SUFFICES ASSUME Init PROVE EventInv
  OBVIOUS
<1>1. /\ down = << >> /\ pushed = << >> /\ drain = Null /\ handed = << >> /\ skipped = {}
  BY DEF Init
<1>2. InStream = {} /\ InDrain = << >> /\ InOrder
  BY <1>1 DEF InStream, InDrain, InOrder
<1>3. Taken = {}
  BY <1>1, <1>2, EmptyFacts DEF Taken
<1>4. DOMAIN pushed = {}
  BY <1>1
<1>5. QED
  BY <1>1, <1>2, <1>3, <1>4, EmptyFacts, TypedInit DEF EventInv, Accounts

(* Every event pushed is still in the stream, collected by a drain or passed *)
(* over by a call, and in one of the three only; drains return the events in *)
(* the order they were pushed and none twice.                                *)
THEOREM EventsCorrect == Spec => []EventsAccounted
<1>1. EventInv => EventsAccounted
  <2> SUFFICES ASSUME EventInv PROVE EventsAccounted
    OBVIOUS
  <2> DEFINE collected == handed \o InDrain
  <2>1. /\ Accounts /\ InStream \subseteq Nat /\ Taken \subseteq Nat
        /\ handed \in Seq(Nat) /\ InDrain \in Seq(Nat)
    BY EventTypes DEF EventInv
  <2>2. Range(collected) = Range(handed) \cup Range(InDrain) /\ Ascending(collected)
    BY <2>1, ConcatFacts DEF Accounts
  <2>3. InStream \cap Taken = {}
    BY <2>1 DEF Accounts
  <2>4. \A i, j \in DOMAIN collected : i < j => collected[i] < collected[j]
    BY <2>2 DEF Ascending
  <2> HIDE DEF collected
  <2>5. /\ DOMAIN pushed = InStream \cup Range(collected) \cup skipped
        /\ InStream \cap Range(collected) = {}
        /\ skipped \cap (InStream \cup Range(collected)) = {}
    BY <2>1, <2>2, <2>3 DEF Accounts, Taken
  <2>6. QED
    BY <2>4, <2>5 DEF EventsAccounted, collected
<1>2. QED
  BY EventInit, EventStep, <1>1, PTL DEF Spec
=============================================================================
