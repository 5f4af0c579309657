-------------------------- MODULE Processes_proofs --------------------------
(***************************************************************************)
(* Proofs about Processes: a running process stays within reach            *)
(* (Killable), and a console leaves no line out (NoGap).                   *)
(***************************************************************************)
EXTENDS Processes, TLAPS

Procs    == [state : {"none", "running", "ended"}, entry : BOOLEAN,
             pending : Seq(Written), read : [Kinds -> 0..MaxLines]]
Children == [state : {"none", "running", "exited", "ended"}, left : 0..MaxOut, pipe : 0..PipeCap,
             heir : BOOLEAN]
Pollers  == [pc : {"off", "due", "sending", "leaving"},
             todo : Seq(ConsoleEvents), then : {"off", "due", "leaving"}]
Consoles == [state : {"none", "asked", "starting", "open", "closed", "failed"},
             status : {"running", "exited", "error"},
             lines : Seq(Written), line_count : Nat]
Runnings == {"none", "asked", "refused", "calling", "exited", "failed", "sent", "shown"}
Wires    == [holder : Callers \cup {None},
             stage : {"idle", "sent", "executing", "answered"}, answer : Answers]
Requests == [op : {"run"}, of : Runs] \cup [op : {"stream", "terminate"}, of : Streams]
Results  == [of : Runs, exit : {"exited", "failed"}]

-----------------------------------------------------------------------------
(* The library's facts about sequences that the proofs use.                  *)

LEMMA AppendFacts ==
  ASSUME NEW S, NEW q \in Seq(S), NEW x \in S
  PROVE  /\ Append(q, x) \in Seq(S) /\ Len(Append(q, x)) = Len(q) + 1
         /\ DOMAIN Append(q, x) = 1 .. Len(q) + 1 /\ Append(q, x)[Len(q) + 1] = x
         /\ \A i \in 1 .. Len(q) : Append(q, x)[i] = q[i]
         /\ Append(q, x) # <<>>
OBVIOUS

LEMMA EmptyFacts ==
  ASSUME NEW S, NEW q \in Seq(S)
  PROVE  q = <<>> <=> Len(q) = 0
OBVIOUS

LEMMA TailFacts ==
  ASSUME NEW S, NEW q \in Seq(S), q # <<>>
  PROVE  /\ Head(q) \in S /\ Head(q) = q[1] /\ Tail(q) \in Seq(S)
         /\ Len(q) \in Nat /\ Len(q) >= 1 /\ Len(Tail(q)) = Len(q) - 1
         /\ DOMAIN q = 1 .. Len(q) /\ DOMAIN Tail(q) = 1 .. Len(q) - 1
         /\ \A i \in 1 .. Len(q) - 1 : Tail(q)[i] = q[i + 1]
OBVIOUS

-----------------------------------------------------------------------------
(* Types.                                                                    *)

LEMMA ChildAts ==
  ASSUME NEW state \in {"none", "running", "exited", "ended"}
  PROVE  ChildAt(state) \in Children
BY BoundsAssumption DEF ChildAt, Children

LEMMA InitTyped ==
  ASSUME Init
  PROVE  TypeOK
<1>1. Bad \in Answers
  BY DEF Bad, Answers
<1>2. wire \in Wires
  BY <1>1 DEF Init, Idle, Wires
<1>3. proc \in [Streams -> Procs] /\ child \in [Runs -> Children]
  BY BoundsAssumption, ChildAts DEF Init, Procs
<1>4. poller \in [Streams -> Pollers] /\ consoles \in [Streams -> Consoles]
  BY DEF Init, Pollers, Consoles
<1>5. /\ busy = None /\ runs \in [Runs -> Runnings] /\ streamMap = {} /\ lost = {} /\ dialogs = {}
      /\ channel = <<>> /\ results = <<>> /\ faults = 0
  BY DEF Init, Runnings
<1> QED BY <1>2, <1>3, <1>4, <1>5, BoundsAssumption
    DEF TypeOK, Wires, Procs, Children, Pollers, Consoles, Runnings

(* Changes of one entry of a function.                                       *)
LEMMA Becoming ==
  ASSUME TypeOK, NEW s \in Streams,
         NEW st \in {"none", "asked", "starting", "open", "closed", "failed"}, Becomes(s, st)
  PROVE  /\ consoles' \in [Streams -> Consoles] /\ consoles'[s].state = st
         /\ consoles'[s].lines = consoles[s].lines
         /\ consoles'[s].line_count = consoles[s].line_count
         /\ \A t \in Streams \ {s} : consoles'[t] = consoles[t]
<1>1. consoles \in [Streams -> Consoles]
  BY DEF TypeOK, Consoles
<1> PICK c : c = [consoles[s] EXCEPT !.state = st]
  OBVIOUS
<1>2. /\ c \in Consoles /\ c.state = st /\ c.lines = consoles[s].lines
      /\ c.line_count = consoles[s].line_count
  BY <1>1 DEF Consoles
<1>3. consoles' = [consoles EXCEPT ![s] = c]
  BY DEF Becomes
<1> QED BY <1>1, <1>2, <1>3

LEMMA Removing ==
  ASSUME TypeOK, NEW s \in Streams, Removed(s)
  PROVE  /\ consoles' \in [Streams -> Consoles] /\ consoles'[s].state = "closed"
         /\ consoles'[s].lines = <<>> /\ consoles'[s].line_count = 0
         /\ \A t \in Streams \ {s} : consoles'[t] = consoles[t]
<1>1. consoles \in [Streams -> Consoles]
  BY DEF TypeOK, Consoles
<1> PICK c : c = [consoles[s] EXCEPT !.state = "closed", !.lines = <<>>, !.line_count = 0]
  OBVIOUS
<1>2. c \in Consoles /\ c.state = "closed" /\ c.lines = <<>> /\ c.line_count = 0
  <2>1. <<>> \in Seq(Written) /\ consoles[s] \in Consoles
    BY <1>1
  <2> QED BY <2>1 DEF Consoles
<1>3. consoles' = [consoles EXCEPT ![s] = c]
  BY DEF Removed
<1> QED BY <1>1, <1>2, <1>3

LEMMA Answering ==
  ASSUME TypeOK, NEW a \in Answers, Answered(a)
  PROVE  /\ wire' \in Wires /\ wire'.stage = "answered" /\ wire'.answer = a
         /\ wire'.holder = wire.holder
BY DEF TypeOK, Answered, Wires

LEMMA AnswersOK ==
  Bad \in Answers /\ Good \in Answers /\ Bad.ok = FALSE /\ Good.ok = TRUE /\ Good.ended = FALSE
<1>1. Bad \in Answers /\ Bad.ok = FALSE /\ Bad.ended = FALSE
  BY DEF Bad, Answers
<1>2. Good = [Bad EXCEPT !.ok = TRUE]
  BY DEF Good
<1> QED BY <1>1, <1>2 DEF Answers

LEMMA Sendings ==
  ASSUME NEW todo \in Seq(ConsoleEvents), NEW then \in {"off", "due", "leaving"}
  PROVE  /\ Sending(todo, then) \in Pollers
         /\ Sending(todo, then).todo = todo /\ Sending(todo, then).then = then
         /\ Sending(todo, then).pc = IF todo = <<>> THEN then ELSE "sending"
BY DEF Sending, Pollers

LEMMA Events ==
  ASSUME NEW s \in Streams
  PROVE  /\ \A l \in Written : Line(s, l) \in ConsoleEvents
         /\ Exit(s, "exited") \in ConsoleEvents /\ Exit(s, "error") \in ConsoleEvents
         /\ <<"notice", 0>> \in Written
BY DEF Line, Exit, ConsoleEvents, Written

LinesOf(s, lines) == [i \in DOMAIN lines |-> Line(s, lines[i])]

LEMMA LinesOfTyped ==
  ASSUME NEW s \in Streams, NEW lines \in Seq(Written)
  PROVE  LinesOf(s, lines) \in Seq(ConsoleEvents) /\ Len(LinesOf(s, lines)) = Len(lines)
<1>1. DOMAIN lines = 1 .. Len(lines) /\ Len(lines) \in Nat
  OBVIOUS
<1>2. \A i \in 1 .. Len(lines) : Line(s, lines[i]) \in ConsoleEvents
  <2> TAKE i \in 1 .. Len(lines)
  <2>1. lines[i] \in Written
    OBVIOUS
  <2> QED BY <2>1, Events
<1>3. LinesOf(s, lines) \in [1 .. Len(lines) -> ConsoleEvents]
  BY <1>1, <1>2 DEF LinesOf
<1> QED BY <1>1, <1>3

LEMMA AfterTyped ==
  ASSUME NEW s \in Streams, NEW a \in Answers
  PROVE  AfterPoll(s, a) \in Pollers /\ AfterError(s) \in Pollers
<1>1. a.lines \in Seq(Written)
  BY DEF Answers
<1>2. PICK q \in Seq(ConsoleEvents) : q = LinesOf(s, a.lines)
  BY <1>1, LinesOfTyped
<1>3. Append(q, Exit(s, "exited")) \in Seq(ConsoleEvents)
  BY Events
<1>4. AfterPoll(s, a) = IF a.ended THEN Sending(Append(q, Exit(s, "exited")), "leaving")
                                   ELSE Sending(q, "due")
  BY <1>2 DEF AfterPoll, LinesOf
<1>5. AfterPoll(s, a) \in Pollers
  <2>1. Sending(q, "due") \in Pollers
    BY Sendings
  <2>2. Sending(Append(q, Exit(s, "exited")), "leaving") \in Pollers
    BY <1>3, Sendings
  <2> QED BY <1>4, <2>1, <2>2
<1>6. <<Line(s, <<"notice", 0>>), Exit(s, "error")>> \in Seq(ConsoleEvents)
  BY Events
<1> QED BY <1>5, <1>6, Sendings DEF AfterError

-----------------------------------------------------------------------------
(* The call on the connection is one that its caller waits for; a run whose  *)
(* answer is awaited has no result yet, and none is asked about twice.       *)

OnLoop(s) == busy # None /\ busy.of = s

WireOK ==
  /\ wire.holder = None <=> wire.stage = "idle"
  /\ wire.holder = Loop => busy # None
  /\ wire.holder \in Streams => poller[wire.holder].pc = "due"
  /\ wire.holder \in Runs => runs[wire.holder] = "calling"
  /\ wire.stage = "executing" => wire.holder \in Runs

RunOK ==
  /\ \A r \in Runs : [op |-> "run", of |-> r] \in dialogs => runs[r] = "asked"
  /\ \A i \in DOMAIN results : runs[results[i].of] \in {"sent", "shown"}

(* What a stream still owes to Killable: Live is a process that must be      *)
(* within reach.  Its console, the call the loop makes for it, its polling   *)
(* task and the answer under way to it know when it was started and when it  *)
(* has ended.                                                                *)
Live(s) == proc[s].state = "running" /\ s \notin lost

Served == wire.holder = Loop /\ wire.stage = "answered"

HostOK(s) ==
  /\ proc[s].entry => proc[s].state # "none"
  /\ Live(s) => proc[s].entry /\ (s \in streamMap \/ OnLoop(s))

ConsoleOK(s) ==
  /\ s \in streamMap => consoles[s].state = "open"
  /\ consoles[s].state \in {"none", "asked", "starting"} => poller[s].pc = "off"
  /\ consoles[s].state \in {"none", "asked"} => proc[s].state = "none" /\ ~OnLoop(s)
  /\ [op |-> "stream", of |-> s] \in dialogs => consoles[s].state = "asked"

CallOK(s) == OnLoop(s) =>
  /\ busy.op = "start" => /\ consoles[s].state = "starting"
                          /\ ~(Served /\ wire.answer.ok) => proc[s].state = "none"
  /\ busy.op # "start" => /\ s \notin streamMap /\ consoles[s].state = "open"
                          /\ Served => ~Live(s)

PollerOK(s) ==
  /\ poller[s].pc = "leaving" \/ (poller[s].pc = "sending" /\ poller[s].then = "leaving") => ~Live(s)
  /\ wire.holder = s /\ wire.stage = "answered" /\ wire.answer.ok /\ wire.answer.ended => ~Live(s)
  /\ poller[s].pc = "sending" => poller[s].todo # <<>>

StreamOK(s) == HostOK(s) /\ ConsoleOK(s) /\ CallOK(s) /\ PollerOK(s)

ReachInv == TypeOK /\ WireOK /\ RunOK /\ \A s \in Streams : StreamOK(s)

LEMMA Parts ==
  ASSUME TypeOK
  PROVE  /\ proc \in [Streams -> Procs] /\ child \in [Runs -> Children] /\ wire \in Wires
         /\ poller \in [Streams -> Pollers] /\ consoles \in [Streams -> Consoles]
         /\ runs \in [Runs -> Runnings] /\ dialogs \subseteq Requests
         /\ results \in Seq(Results) /\ busy \in Calls \cup {None}
         /\ wire.holder \in Callers \cup {None} /\ wire.answer \in Answers
BY DEF TypeOK, Procs, Children, Wires, Pollers, Consoles, Runnings, Requests, Results

Typed ==
  /\ proc \in [Streams -> Procs] /\ child \in [Runs -> Children] /\ wire \in Wires
  /\ poller \in [Streams -> Pollers] /\ consoles \in [Streams -> Consoles]
  /\ runs \in [Runs -> Runnings] /\ dialogs \subseteq Requests
  /\ results \in Seq(Results) /\ busy \in Calls \cup {None}
  /\ streamMap \subseteq Streams /\ lost \subseteq Streams /\ faults \in 0..MaxFaults
  /\ channel \in Seq(ConsoleEvents) /\ Len(channel) <= ConsoleCap
  /\ Len(results) <= ResultCap

LEMMA Whole == TypeOK <=> Typed
BY DEF Typed, TypeOK, Procs, Children, Wires, Pollers, Consoles, Runnings, Requests, Results

LEMMA WholeNext == TypeOK' <=> Typed'
BY Whole, PTL

LEMMA InitReach ==
  ASSUME Init
  PROVE  ReachInv
<1>1. TypeOK
  BY InitTyped
<1>2. WireOK
  BY CallersAssumption DEF Init, Idle, WireOK
<1>3. RunOK
  BY DEF Init, RunOK
<1>4. ASSUME NEW s \in Streams PROVE StreamOK(s)
  <2>1. /\ proc[s].state = "none" /\ proc[s].entry = FALSE /\ busy = None /\ streamMap = {}
        /\ consoles[s].state = "none" /\ poller[s].pc = "off" /\ dialogs = {}
        /\ wire.holder = None
    BY DEF Init, Idle
  <2> QED BY <2>1, CallersAssumption
      DEF StreamOK, HostOK, ConsoleOK, CallOK, PollerOK, Live, Served, OnLoop
<1> QED BY <1>1, <1>2, <1>3, <1>4 DEF ReachInv

-----------------------------------------------------------------------------
(* What the callers make of an answer, caller by caller.                     *)

Hands == wire' = Idle /\ UNCHANGED <<dialogs, queues>>

LoopGets(s, a) ==
  /\ wire.holder = Loop /\ busy \in Calls /\ busy.of = s /\ busy' = None
  /\ Hands /\ UNCHANGED runs
  /\ \/ /\ busy.op = "start" /\ a.ok /\ Becomes(s, "open")
        /\ streamMap' = streamMap \cup {s} /\ poller' = [poller EXCEPT ![s].pc = "due"]
     \/ busy.op = "start" /\ ~a.ok /\ Becomes(s, "failed") /\ UNCHANGED <<streamMap, poller>>
     \/ busy.op = "close" /\ Removed(s) /\ UNCHANGED <<streamMap, poller>>
     \/ busy.op = "kill" /\ UNCHANGED <<consoles, streamMap, poller>>

PollGets(s, a) ==
  /\ wire.holder = s /\ poller[s].pc = "due"
  /\ Hands /\ UNCHANGED <<busy, runs, consoles, streamMap>>
  /\ poller' = [poller EXCEPT ![s] = IF a.ok THEN AfterPoll(s, a) ELSE AfterError(s)]

ExecGets(r, a) ==
  /\ wire.holder = r /\ runs[r] = "calling"
  /\ Hands /\ UNCHANGED <<busy, poller, consoles, streamMap>>
  /\ runs' = [runs EXCEPT ![r] = IF a.ok THEN "exited" ELSE "failed"]

LEMMA GivesKinds ==
  ASSUME TypeOK, WireOK, NEW a, wire.holder # None, Gives(wire.holder, a)
  PROVE  \/ \E s \in Streams : LoopGets(s, a)
         \/ \E s \in Streams : PollGets(s, a)
         \/ \E r \in Runs : ExecGets(r, a)
<1>1. wire.holder \in {Loop} \cup Streams \cup Runs
  BY Parts DEF Callers
<1>2. CASE wire.holder = Loop
  <2>1. busy \in Calls
    BY <1>2, Parts DEF WireOK
  <2>2. busy.of \in Streams /\ busy.op \in {"start", "kill", "close"}
    BY <2>1 DEF Calls
  <2>3. LoopGets(busy.of, a)
    BY <1>2, <2>1, <2>2 DEF Gives, Request, StartReturns, KillReturns, LoopGets, Hands, tasks
  <2> QED BY <2>2, <2>3
<1>3. CASE wire.holder \in Streams
  <2>1. wire.holder # Loop /\ poller[wire.holder].pc = "due"
    BY <1>3, CallersAssumption DEF WireOK
  <2> PICK q : q = [op |-> "poll", of |-> wire.holder]
    OBVIOUS
  <2>2. Request(wire.holder) = q /\ q.op = "poll" /\ q.of = wire.holder
    BY <1>3, <2>1 DEF Request
  <2>3. PollGets(wire.holder, a)
    BY <2>1, <2>2 DEF Gives, PollReturns, PollGets, Hands
  <2> QED BY <1>3, <2>3
<1>4. CASE wire.holder \in Runs
  <2>1. wire.holder # Loop /\ wire.holder \notin Streams /\ runs[wire.holder] = "calling"
    BY <1>4, CallersAssumption DEF WireOK
  <2> PICK q : q = [op |-> "exec", of |-> wire.holder]
    OBVIOUS
  <2>2. Request(wire.holder) = q /\ q.op = "exec" /\ q.of = wire.holder
    BY <1>4, <2>1 DEF Request
  <2>3. ExecGets(wire.holder, a)
    BY <2>1, <2>2 DEF Gives, ExecReturns, ExecGets, Hands
  <2> QED BY <1>4, <2>3
<1> QED BY <1>1, <1>2, <1>3, <1>4

(* No process is started, and those that live and are not lost keep their    *)
(* entries.                                                                  *)
ProcCalm ==
  /\ proc' \in [Streams -> Procs] /\ lost \subseteq lost'
  /\ \A t \in Streams :
       /\ proc'[t].state = "running" => /\ proc[t].state = "running"
                                        /\ proc'[t].entry = proc[t].entry \/ t \in lost'
       /\ proc[t].state = "none" => proc'[t].state = "none"
       /\ proc'[t].entry => proc'[t] = proc[t]

LEMMA Calmly ==
  ASSUME ProcCalm, NEW t \in Streams
  PROVE  /\ Live(t)' => Live(t) /\ proc'[t].entry = proc[t].entry
         /\ proc[t].state = "none" => proc'[t].state = "none"
         /\ HostOK(t) /\ proc'[t].entry => proc'[t].state # "none"
BY DEF ProcCalm, Live, HostOK

(* The answer is the one the bridge gave, or the call broke.                 *)
Delivered(a) ==
  \/ wire.stage = "answered" /\ a = wire.answer
  \/ a = Bad /\ (wire.holder = Loop => busy.of \in lost')

LEMMA IdleWire ==
  /\ Idle \in Wires /\ Idle.holder = None /\ Idle.stage = "idle"
BY AnswersOK DEF Idle, Wires

LEMMA LoopGetsOK ==
  ASSUME ReachInv, ProcCalm, NEW s \in Streams, NEW a, LoopGets(s, a), Delivered(a)
  PROVE  /\ WireOK' /\ RunOK' /\ \A t \in Streams : StreamOK(t)'
         /\ poller' \in [Streams -> Pollers] /\ consoles' \in [Streams -> Consoles]
         /\ streamMap' \subseteq Streams
<1>0. TypeOK /\ WireOK /\ RunOK /\ \A t \in Streams : StreamOK(t)
  BY DEF ReachInv
<1>1. /\ proc \in [Streams -> Procs] /\ poller \in [Streams -> Pollers]
      /\ consoles \in [Streams -> Consoles] /\ streamMap \subseteq Streams
  BY <1>0, Parts DEF TypeOK
<1>2. /\ wire'.holder = None /\ wire'.stage = "idle" /\ busy' = None
      /\ UNCHANGED <<dialogs, runs, results>>
  BY IdleWire DEF LoopGets, Hands, queues
<1>3. WireOK' /\ RunOK'
  BY <1>0, <1>2, CallersAssumption DEF WireOK, RunOK
<1>4. busy # None /\ busy.of = s /\ wire.holder = Loop
  BY CallersAssumption DEF LoopGets
<1>5. /\ \A t \in Streams \ {s} : ~OnLoop(t)
      /\ OnLoop(s)
      /\ \A t \in Streams : ~OnLoop(t)'
  BY <1>2, <1>4 DEF OnLoop
<1>6. ASSUME NEW t \in Streams \ {s},
             consoles'[t].state = consoles[t].state, poller'[t] = poller[t],
             t \in streamMap' <=> t \in streamMap
      PROVE  StreamOK(t)'
  <2>1. wire'.holder # t
    BY <1>2, CallersAssumption
  <2> QED BY <2>1, <1>0, <1>2, <1>5, <1>6, Calmly
      DEF StreamOK, HostOK, ConsoleOK, CallOK, PollerOK
<1>7. wire'.holder # s
  BY <1>2, CallersAssumption
<1>8. CASE /\ busy.op = "start" /\ a.ok /\ Becomes(s, "open")
           /\ streamMap' = streamMap \cup {s} /\ poller' = [poller EXCEPT ![s].pc = "due"]
  <2>1. /\ consoles' \in [Streams -> Consoles] /\ consoles'[s].state = "open"
        /\ \A t \in Streams \ {s} : consoles'[t] = consoles[t]
    BY <1>0, <1>8, Becoming
  <2>2. /\ poller' \in [Streams -> Pollers] /\ poller'[s].pc = "due"
        /\ \A t \in Streams \ {s} : poller'[t] = poller[t]
    BY <1>1, <1>8 DEF Pollers
  <2>3. [op |-> "stream", of |-> s] \notin dialogs
    <3>1. consoles[s].state = "starting"
      BY <1>0, <1>5, <1>8 DEF StreamOK, CallOK
    <3> QED BY <1>0, <3>1 DEF StreamOK, ConsoleOK
  <2>4. StreamOK(s)'
    BY <2>1, <2>2, <2>3, <1>0, <1>2, <1>5, <1>7, <1>8, Calmly
    DEF StreamOK, HostOK, ConsoleOK, CallOK, PollerOK
  <2> QED BY <2>1, <2>2, <2>4, <1>1, <1>3, <1>6, <1>8
<1>9. CASE busy.op = "start" /\ ~a.ok /\ Becomes(s, "failed") /\ UNCHANGED <<streamMap, poller>>
  <2>1. /\ consoles' \in [Streams -> Consoles] /\ consoles'[s].state = "failed"
        /\ \A t \in Streams \ {s} : consoles'[t] = consoles[t]
    BY <1>0, <1>9, Becoming
  <2>2. /\ consoles[s].state = "starting"
        /\ ~(Served /\ wire.answer.ok) => proc[s].state = "none"
    BY <1>0, <1>5, <1>9 DEF StreamOK, CallOK
  <2>3. ~Live(s)'
    <3>1. CASE s \in lost'
      BY <3>1 DEF Live
    <3>2. CASE wire.stage = "answered" /\ a = wire.answer
      <4>1. proc[s].state = "none"
        BY <2>2, <3>2, <1>9
      <4> QED BY <4>1, Calmly DEF Live
    <3> QED BY <3>1, <3>2, <1>4 DEF Delivered
  <2>4. [op |-> "stream", of |-> s] \notin dialogs /\ s \notin streamMap
    BY <1>0, <2>2 DEF StreamOK, ConsoleOK
  <2>5. StreamOK(s)'
    BY <2>1, <2>3, <2>4, <1>0, <1>2, <1>5, <1>7, <1>9, Calmly
    DEF StreamOK, HostOK, ConsoleOK, CallOK, PollerOK
  <2> QED BY <2>1, <2>5, <1>1, <1>3, <1>6, <1>9
<1>10. CASE busy.op \in {"kill", "close"} /\ UNCHANGED <<streamMap, poller>>
  <2>1. /\ consoles' \in [Streams -> Consoles] /\ consoles'[s].state \in {"open", "closed"}
        /\ \A t \in Streams \ {s} : consoles'[t] = consoles[t]
    <3>1. consoles[s].state = "open"
      BY <1>0, <1>5, <1>10 DEF StreamOK, CallOK
    <3> QED BY <1>0, <1>1, <1>10, <3>1, Removing DEF LoopGets
  <2>2. s \notin streamMap /\ (Served => ~Live(s)) /\ consoles[s].state = "open"
    BY <1>0, <1>5, <1>10 DEF StreamOK, CallOK
  <2>3. ~Live(s)'
    <3>1. CASE s \in lost'
      BY <3>1 DEF Live
    <3>2. CASE wire.stage = "answered"
      <4>1. ~Live(s)
        BY <2>2, <3>2, <1>4 DEF Served
      <4> QED BY <4>1, Calmly
    <3> QED BY <3>1, <3>2, <1>4 DEF Delivered
  <2>4. [op |-> "stream", of |-> s] \notin dialogs
    BY <1>0, <2>2 DEF StreamOK, ConsoleOK
  <2>5. StreamOK(s)'
    BY <2>1, <2>2, <2>3, <2>4, <1>0, <1>2, <1>5, <1>7, <1>10, Calmly
    DEF StreamOK, HostOK, ConsoleOK, CallOK, PollerOK
  <2> QED BY <2>1, <2>5, <1>1, <1>3, <1>6, <1>10
<1> QED BY <1>8, <1>9, <1>10 DEF LoopGets

LEMMA AfterFacts ==
  ASSUME NEW s \in Streams, NEW a \in Answers
  PROVE  /\ AfterError(s).pc = "sending" /\ AfterError(s).then = "off"
         /\ ~a.ended => AfterPoll(s, a).then = "due" /\ AfterPoll(s, a).pc \in {"due", "sending"}
         /\ a.ended => AfterPoll(s, a).then = "leaving" /\ AfterPoll(s, a).pc = "sending"
         /\ AfterPoll(s, a).pc = "sending" => AfterPoll(s, a).todo # <<>>
         /\ AfterError(s).todo # <<>>
<1>1. a.lines \in Seq(Written)
  BY DEF Answers
<1>2. PICK q \in Seq(ConsoleEvents) : q = LinesOf(s, a.lines)
  BY <1>1, LinesOfTyped
<1>3. AfterPoll(s, a) = IF a.ended THEN Sending(Append(q, Exit(s, "exited")), "leaving")
                                   ELSE Sending(q, "due")
  BY <1>2 DEF AfterPoll, LinesOf
<1>4. Append(q, Exit(s, "exited")) # <<>>
  <2> PICK x \in ConsoleEvents : x = Exit(s, "exited")
    BY Events
  <2> QED BY <1>2, AppendFacts
<1>5. <<Line(s, <<"notice", 0>>), Exit(s, "error")>> # <<>>
  OBVIOUS
<1> QED BY <1>3, <1>4, <1>5 DEF AfterError, Sending

LEMMA PollGetsOK ==
  ASSUME ReachInv, ProcCalm, NEW s \in Streams, NEW a, PollGets(s, a), Delivered(a)
  PROVE  /\ WireOK' /\ RunOK' /\ \A t \in Streams : StreamOK(t)'
         /\ poller' \in [Streams -> Pollers]
<1>0. TypeOK /\ WireOK /\ RunOK /\ \A t \in Streams : StreamOK(t)
  BY DEF ReachInv
<1>1. poller \in [Streams -> Pollers] /\ a \in Answers
  BY <1>0, Parts, AnswersOK DEF Delivered
<1>2. /\ wire'.holder = None /\ wire'.stage = "idle" /\ wire.holder = s /\ s # Loop /\ s # None
      /\ UNCHANGED <<busy, dialogs, runs, results, consoles, streamMap>>
  BY IdleWire, CallersAssumption DEF PollGets, Hands, queues
<1>3. WireOK' /\ RunOK'
  BY <1>0, <1>2, CallersAssumption DEF WireOK, RunOK
<1>4. \A t \in Streams : wire'.holder # t
  BY <1>2, CallersAssumption
<1>5. ~Served /\ ~Served'
  BY <1>2, CallersAssumption DEF Served
<1>6. \A t \in Streams : OnLoop(t)' <=> OnLoop(t)
  BY <1>2 DEF OnLoop
<1>7. PICK p : /\ poller' = [poller EXCEPT ![s] = p] /\ p \in Pollers
               /\ p = IF a.ok THEN AfterPoll(s, a) ELSE AfterError(s)
  BY <1>1, AfterTyped DEF PollGets
<1>8. /\ poller' \in [Streams -> Pollers] /\ poller'[s] = p
      /\ \A t \in Streams \ {s} : poller'[t] = poller[t]
  BY <1>1, <1>7
<1>9. ASSUME NEW t \in Streams \ {s} PROVE StreamOK(t)'
  BY <1>0, <1>2, <1>4, <1>5, <1>6, <1>8, Calmly
  DEF StreamOK, HostOK, ConsoleOK, CallOK, PollerOK
<1>10. consoles[s].state \notin {"none", "asked", "starting"}
  BY <1>0 DEF PollGets, StreamOK, ConsoleOK
<1>11. p.pc = "leaving" \/ (p.pc = "sending" /\ p.then = "leaving") => ~Live(s)'
  <2>1. CASE a.ok /\ a.ended
    <3>1. wire.stage = "answered" /\ a = wire.answer
      BY <2>1, AnswersOK DEF Delivered
    <3>2. ~Live(s)
      BY <2>1, <3>1, <1>0, <1>2 DEF StreamOK, PollerOK
    <3> QED BY <3>2, Calmly
  <2>2. CASE ~(a.ok /\ a.ended)
    BY <2>2, <1>1, <1>7, AfterFacts
  <2> QED BY <2>1, <2>2
<1>13. p.pc = "sending" => p.todo # <<>>
  BY <1>1, <1>7, AfterFacts
<1>12. StreamOK(s)'
  BY <1>0, <1>2, <1>4, <1>5, <1>6, <1>8, <1>10, <1>11, <1>13, Calmly
  DEF StreamOK, HostOK, ConsoleOK, CallOK, PollerOK
<1> QED BY <1>3, <1>8, <1>9, <1>12

LEMMA ExecGetsOK ==
  ASSUME ReachInv, ProcCalm, NEW r \in Runs, NEW a, ExecGets(r, a)
  PROVE  /\ WireOK' /\ RunOK' /\ \A t \in Streams : StreamOK(t)'
         /\ runs' \in [Runs -> Runnings]
<1>0. TypeOK /\ WireOK /\ RunOK /\ \A t \in Streams : StreamOK(t)
  BY DEF ReachInv
<1>1. runs \in [Runs -> Runnings] /\ results \in Seq(Results)
  BY <1>0, Parts
<1>2. /\ wire'.holder = None /\ wire'.stage = "idle" /\ wire.holder = r /\ r # Loop /\ r # None
      /\ UNCHANGED <<busy, dialogs, results, poller, consoles, streamMap>>
  BY IdleWire, CallersAssumption DEF ExecGets, Hands, queues
<1>3. WireOK'
  BY <1>2, CallersAssumption DEF WireOK
<1>4. \A t \in Streams : wire'.holder # t
  BY <1>2, CallersAssumption
<1>5. ~Served /\ ~Served'
  BY <1>2, CallersAssumption DEF Served
<1>6. \A t \in Streams : OnLoop(t)' <=> OnLoop(t)
  BY <1>2 DEF OnLoop
<1>7. ASSUME NEW t \in Streams PROVE StreamOK(t)'
  BY <1>0, <1>2, <1>4, <1>5, <1>6, Calmly
  DEF StreamOK, HostOK, ConsoleOK, CallOK, PollerOK
<1>8. /\ runs' \in [Runs -> Runnings] /\ \A x \in Runs \ {r} : runs'[x] = runs[x]
      /\ runs[r] = "calling"
  BY <1>1 DEF ExecGets, Runnings
<1>9. RunOK'
  <2>1. ASSUME NEW i \in DOMAIN results PROVE runs'[results[i].of] \in {"sent", "shown"}
    <3>1. results[i] \in Results
      BY <1>1
    <3>2. results[i].of \in Runs /\ runs[results[i].of] \in {"sent", "shown"}
      BY <3>1, <1>0 DEF Results, RunOK
    <3> QED BY <3>2, <1>8
  <2> QED BY <2>1, <1>0, <1>2, <1>8 DEF RunOK
<1> QED BY <1>3, <1>7, <1>8, <1>9

LEMMA GivesOK ==
  ASSUME ReachInv, ProcCalm, NEW a, wire.holder # None, Gives(wire.holder, a), Delivered(a),
         child' = child, lost' \subseteq Streams, faults' \in 0..MaxFaults
  PROVE  ReachInv'
<1>1. TypeOK /\ WireOK
  BY DEF ReachInv
<1>2. /\ child' \in [Runs -> Children] /\ wire' \in Wires /\ dialogs' \subseteq Requests
      /\ UNCHANGED <<dialogs, channel, results>>
  BY <1>1, Parts, IdleWire DEF Gives, queues
<1>3. /\ channel' \in Seq(ConsoleEvents) /\ Len(channel') <= ConsoleCap
      /\ results' \in Seq(Results) /\ Len(results') <= ResultCap
  BY <1>1, <1>2, Parts DEF TypeOK
<1>4. proc' \in [Streams -> Procs]
  BY DEF ProcCalm
<1>5. CASE \E s \in Streams : LoopGets(s, a)
  <2> PICK s \in Streams : LoopGets(s, a)
    BY <1>5
  <2>1. /\ WireOK' /\ RunOK' /\ \A t \in Streams : StreamOK(t)'
        /\ poller' \in [Streams -> Pollers] /\ consoles' \in [Streams -> Consoles]
        /\ streamMap' \subseteq Streams
    BY LoopGetsOK
  <2>2. busy' \in Calls \cup {None} /\ runs' \in [Runs -> Runnings]
    BY <1>1, Parts DEF LoopGets
  <2>3. TypeOK'
    BY <1>2, <1>3, <1>4, <2>1, <2>2, WholeNext DEF Typed
  <2> QED BY <2>1, <2>3 DEF ReachInv
<1>6. CASE \E s \in Streams : PollGets(s, a)
  <2> PICK s \in Streams : PollGets(s, a)
    BY <1>6
  <2>1. /\ WireOK' /\ RunOK' /\ \A t \in Streams : StreamOK(t)'
        /\ poller' \in [Streams -> Pollers]
    BY PollGetsOK
  <2>2. /\ busy' \in Calls \cup {None} /\ runs' \in [Runs -> Runnings]
        /\ consoles' \in [Streams -> Consoles] /\ streamMap' \subseteq Streams
    BY <1>1, Parts DEF PollGets, TypeOK
  <2>3. TypeOK'
    BY <1>2, <1>3, <1>4, <2>1, <2>2, WholeNext DEF Typed
  <2> QED BY <2>1, <2>3 DEF ReachInv
<1>7. CASE \E r \in Runs : ExecGets(r, a)
  <2> PICK r \in Runs : ExecGets(r, a)
    BY <1>7
  <2>1. /\ WireOK' /\ RunOK' /\ \A t \in Streams : StreamOK(t)'
        /\ runs' \in [Runs -> Runnings]
    BY ExecGetsOK
  <2>2. /\ busy' \in Calls \cup {None} /\ poller' \in [Streams -> Pollers]
        /\ consoles' \in [Streams -> Consoles] /\ streamMap' \subseteq Streams
    BY <1>1, Parts DEF ExecGets, TypeOK
  <2>3. TypeOK'
    BY <1>2, <1>3, <1>4, <2>1, <2>2, WholeNext DEF Typed
  <2> QED BY <2>1, <2>3 DEF ReachInv
<1> QED BY <1>1, <1>5, <1>6, <1>7, GivesKinds

-----------------------------------------------------------------------------
(* The steps between calls.  For a stream they do not touch, nothing that    *)
(* its invariant looks at changes.                                           *)
Touched(t) == ~ /\ consoles'[t].state = consoles[t].state
                /\ poller'[t] = poller[t]
                /\ t \in streamMap' <=> t \in streamMap
                /\ OnLoop(t)' <=> OnLoop(t)
                /\ [op |-> "stream", of |-> t] \in dialogs' =>
                     [op |-> "stream", of |-> t] \in dialogs

LEMMA Untouched ==
  ASSUME NEW t \in Streams, StreamOK(t), ProcCalm, wire' = wire, ~Touched(t),
         OnLoop(t) => busy' = busy
  PROVE  StreamOK(t)'
BY Calmly DEF Touched, Served, StreamOK, HostOK, ConsoleOK, CallOK, PollerOK

LEMMA StillCalm ==
  ASSUME TypeOK, UNCHANGED <<proc, lost>>
  PROVE  ProcCalm
BY Parts DEF ProcCalm

LEMMA RequestFacts ==
  ASSUME TypeOK, NEW d \in dialogs
  PROVE  /\ d = [op |-> d.op, of |-> d.of] /\ d.op \in {"run", "stream", "terminate"}
         /\ d.op = "run" => d.of \in Runs
         /\ d.op # "run" => d.of \in Streams
BY Parts DEF Requests

LEMMA RunReach ==
  ASSUME ReachInv, NEW r \in Runs, Run(r)
  PROVE  ReachInv'
<1>0. Typed /\ TypeOK /\ WireOK /\ RunOK /\ \A t \in Streams : StreamOK(t)
  BY Whole DEF ReachInv
<1>1. /\ UNCHANGED <<proc, child, wire, poller, streamMap, consoles, channel, results, faults, lost, busy>>
      /\ runs[r] = "none"
      /\ \/ runs' = [runs EXCEPT ![r] = "refused"] /\ dialogs' = dialogs
         \/ /\ runs' = [runs EXCEPT ![r] = "asked"]
            /\ dialogs' = dialogs \cup {[op |-> "run", of |-> r]}
         \/ runs' = [runs EXCEPT ![r] = "calling"] /\ dialogs' = dialogs
  BY DEF Run, Refusal, Spawned, host, queues
<1>2. /\ runs' \in [Runs -> Runnings] /\ \A x \in Runs \ {r} : runs'[x] = runs[x]
      /\ runs'[r] \in {"refused", "asked", "calling"}
  BY <1>0, <1>1 DEF Typed, Runnings
<1>3. Typed'
  <2>1. dialogs' \subseteq Requests
    BY <1>0, <1>1 DEF Typed, Requests
  <2> QED BY <2>1, <1>0, <1>1, <1>2 DEF Typed
<1>4. WireOK'
  BY <1>0, <1>1, <1>2 DEF WireOK
<1>5. RunOK'
  <2>1. [op |-> "run", of |-> r] \in dialogs' => runs'[r] = "asked"
    BY <1>0, <1>1, <1>2 DEF RunOK, Typed
  <2>2. ASSUME NEW x \in Runs \ {r}, [op |-> "run", of |-> x] \in dialogs' PROVE runs'[x] = "asked"
    <3>1. [op |-> "run", of |-> x] \in dialogs
      <4>1. [op |-> "run", of |-> x] # [op |-> "run", of |-> r]
        OBVIOUS
      <4> QED BY <1>1, <2>2, <4>1
    <3> QED BY <3>1, <1>0, <1>2 DEF RunOK
  <2>3. ASSUME NEW i \in DOMAIN results PROVE runs'[results[i].of] \in {"sent", "shown"}
    <3>1. results[i] \in Results
      BY <1>0 DEF Typed
    <3>2. results[i].of \in Runs /\ runs[results[i].of] \in {"sent", "shown"}
      BY <3>1, <1>0 DEF Results, RunOK
    <3> QED BY <3>2, <1>1, <1>2
  <2> QED BY <2>1, <2>2, <2>3, <1>1 DEF RunOK
<1>6. ASSUME NEW t \in Streams PROVE StreamOK(t)'
  <2>1. [op |-> "stream", of |-> t] # [op |-> "run", of |-> r]
    OBVIOUS
  <2>2. ~Touched(t)
    BY <1>1, <2>1 DEF Touched, OnLoop
  <2> QED BY <2>2, <1>0, <1>1, Untouched, StillCalm
<1> QED BY <1>3, <1>4, <1>5, <1>6, WholeNext DEF ReachInv

LEMMA RunStreamedReach ==
  ASSUME ReachInv, NEW s \in Streams, RunStreamed(s)
  PROVE  ReachInv'
<1>0. Typed /\ TypeOK /\ WireOK /\ RunOK /\ \A t \in Streams : StreamOK(t)
  BY Whole DEF ReachInv
<1> PICK st \in {"failed", "asked", "starting"} :
      /\ Becomes(s, st)
      /\ st # "starting" => busy' = busy
      /\ st = "starting" => busy' = [op |-> "start", of |-> s, by |-> "user"]
      /\ st # "asked" => dialogs' = dialogs
      /\ st = "asked" => dialogs' = dialogs \cup {[op |-> "stream", of |-> s]}
  BY DEF RunStreamed, Awaits
<1>1. /\ UNCHANGED <<proc, child, wire, poller, runs, streamMap, channel, results, faults, lost>>
      /\ busy = None /\ consoles[s].state = "none"
  BY DEF RunStreamed, Free, host, tasks, queues
<1>2. /\ consoles' \in [Streams -> Consoles] /\ consoles'[s].state = st
      /\ \A t \in Streams \ {s} : consoles'[t] = consoles[t]
  BY <1>0, Becoming
<1>3. busy' \in Calls \cup {None} /\ dialogs' \subseteq Requests
  BY <1>0, <1>1 DEF Typed, Calls, Requests
<1>4. Typed'
  BY <1>0, <1>1, <1>2, <1>3 DEF Typed
<1>5. WireOK'
  BY <1>0, <1>1 DEF WireOK
<1>6. RunOK'
  <2>1. \A r \in Runs : [op |-> "run", of |-> r] # [op |-> "stream", of |-> s]
    OBVIOUS
  <2> QED BY <2>1, <1>0, <1>1 DEF RunOK
<1>7. /\ \A t \in Streams \ {s} : OnLoop(t)' <=> OnLoop(t)
      /\ ~Served /\ busy = None
      /\ \A t \in Streams : ~OnLoop(t)
  BY <1>0, <1>1 DEF OnLoop, Served, WireOK
<1>8. ASSUME NEW t \in Streams \ {s} PROVE StreamOK(t)'
  <2>1. [op |-> "stream", of |-> t] # [op |-> "stream", of |-> s]
    OBVIOUS
  <2>2. ~Touched(t)
    BY <1>1, <1>2, <1>7, <2>1 DEF Touched
  <2> QED BY <2>2, <1>0, <1>1, <1>7, Untouched, StillCalm
<1>9. StreamOK(s)'
  <2>1. /\ proc[s].state = "none" /\ poller[s].pc = "off" /\ s \notin streamMap
        /\ proc[s].entry = FALSE
    BY <1>0, <1>1 DEF StreamOK, ConsoleOK, HostOK, Typed, Procs
  <2>2. [op |-> "stream", of |-> s] \in dialogs' => st = "asked"
    BY <1>0, <1>1 DEF StreamOK, ConsoleOK
  <2>3. st # "starting" => ~OnLoop(s)'
    BY <1>1 DEF OnLoop
  <2>4. st = "starting" => busy'.op = "start"
    OBVIOUS
  <2> QED BY <2>1, <2>2, <2>3, <2>4, <1>0, <1>1, <1>2
      DEF StreamOK, HostOK, ConsoleOK, CallOK, PollerOK, Live, Served
<1> QED BY <1>4, <1>5, <1>6, <1>8, <1>9, WholeNext DEF ReachInv

(* A kill of a mapped stream, as far as the streams can tell.                *)
LEMMA KillStreams ==
  ASSUME ReachInv, NEW s \in Streams, NEW op \in {"kill", "close"}, Kill(s, op), busy = None,
         UNCHANGED <<proc, lost, wire, poller, consoles>>, 
         \A t \in Streams : [op |-> "stream", of |-> t] \in dialogs' =>
                              [op |-> "stream", of |-> t] \in dialogs
  PROVE  /\ \A t \in Streams : StreamOK(t)'
         /\ busy' \in Calls \cup {None} /\ streamMap' \subseteq Streams
<1>0. Typed /\ TypeOK /\ WireOK /\ RunOK /\ \A t \in Streams : StreamOK(t)
  BY Whole DEF ReachInv
<1>1. /\ s \in streamMap /\ streamMap' = streamMap \ {s}
      /\ busy' = [op |-> op, of |-> s, by |-> "user"]
  BY DEF Kill, Awaits
<1>2. busy' \in Calls /\ streamMap' \subseteq Streams /\ ~Served
  BY <1>0, <1>1 DEF Calls, Typed, Served, WireOK
<1>3. ASSUME NEW t \in Streams \ {s} PROVE StreamOK(t)'
  <2>1. ~Touched(t) /\ ~OnLoop(t)
    BY <1>1 DEF Touched, OnLoop
  <2> QED BY <2>1, <1>0, Untouched, StillCalm
<1>4. StreamOK(s)'
  <2>1. consoles[s].state = "open" /\ [op |-> "stream", of |-> s] \notin dialogs
    BY <1>0, <1>1 DEF StreamOK, ConsoleOK
  <2>2. OnLoop(s)' /\ busy'.op # "start" /\ ~Served' /\ s \notin streamMap'
    BY <1>1, <1>2, CallersAssumption DEF OnLoop, Served
  <2> QED BY <2>1, <2>2, <1>0, <1>1
      DEF StreamOK, HostOK, ConsoleOK, CallOK, PollerOK, Live
<1> QED BY <1>2, <1>3, <1>4

LEMMA TerminateReach ==
  ASSUME ReachInv, NEW s \in Streams, Terminate(s)
  PROVE  ReachInv'
<1>0. Typed /\ TypeOK /\ WireOK /\ RunOK /\ \A t \in Streams : StreamOK(t)
  BY Whole DEF ReachInv
<1>1. /\ UNCHANGED <<proc, child, wire, poller, runs, consoles, channel, results, faults, lost>>
      /\ busy = None
  BY DEF Terminate, Free, host, tasks, queues
<1>2. CASE dialogs' = dialogs \cup {[op |-> "terminate", of |-> s]} /\ UNCHANGED <<busy, streamMap>>
  <2>1. dialogs' \subseteq Requests
    BY <1>0, <1>2 DEF Typed, Requests
  <2>2. Typed'
    BY <2>1, <1>0, <1>1, <1>2 DEF Typed
  <2>3. /\ \A r \in Runs : [op |-> "run", of |-> r] # [op |-> "terminate", of |-> s]
        /\ \A t \in Streams : [op |-> "stream", of |-> t] # [op |-> "terminate", of |-> s]
    OBVIOUS
  <2>4. WireOK' /\ RunOK'
    BY <2>3, <1>0, <1>1, <1>2 DEF WireOK, RunOK
  <2>5. ASSUME NEW t \in Streams PROVE StreamOK(t)'
    <3>1. ~Touched(t)
      BY <2>3, <1>1, <1>2 DEF Touched, OnLoop
    <3> QED BY <3>1, <1>0, <1>1, <1>2, Untouched, StillCalm
  <2> QED BY <2>2, <2>4, <2>5, WholeNext DEF ReachInv
<1>3. CASE Kill(s, "kill") /\ UNCHANGED dialogs
  <2>1. /\ \A t \in Streams : StreamOK(t)'
        /\ busy' \in Calls \cup {None} /\ streamMap' \subseteq Streams
    BY <1>1, <1>3, KillStreams
  <2>2. Typed'
    BY <2>1, <1>0, <1>1, <1>3 DEF Typed
  <2>3. WireOK' /\ RunOK'
    BY <1>0, <1>1, <1>3 DEF WireOK, RunOK
  <2> QED BY <2>1, <2>2, <2>3, WholeNext DEF ReachInv
<1> QED BY <1>2, <1>3 DEF Terminate

LEMMA CloseReach ==
  ASSUME ReachInv, NEW s \in Streams, Close(s)
  PROVE  ReachInv'
<1>0. Typed /\ TypeOK /\ WireOK /\ RunOK /\ \A t \in Streams : StreamOK(t)
  BY Whole DEF ReachInv
<1>1. /\ UNCHANGED <<proc, child, wire, poller, runs, dialogs, channel, results, faults, lost>>
      /\ busy = None /\ consoles[s].state = "open"
  BY DEF Close, Free, host, tasks, queues
<1>2. WireOK' /\ RunOK'
  BY <1>0, <1>1 DEF WireOK, RunOK
<1>3. CASE Kill(s, "close") /\ UNCHANGED consoles
  <2>1. /\ \A t \in Streams : StreamOK(t)'
        /\ busy' \in Calls \cup {None} /\ streamMap' \subseteq Streams
    BY <1>1, <1>3, KillStreams
  <2>2. Typed'
    BY <2>1, <1>0, <1>1, <1>3 DEF Typed
  <2> QED BY <2>1, <2>2, <1>2, WholeNext DEF ReachInv
<1>4. CASE s \notin streamMap /\ Removed(s) /\ UNCHANGED <<busy, streamMap>>
  <2>1. /\ consoles' \in [Streams -> Consoles] /\ consoles'[s].state = "closed"
        /\ \A t \in Streams \ {s} : consoles'[t] = consoles[t]
    BY <1>0, <1>4, Removing
  <2>2. Typed'
    BY <2>1, <1>0, <1>1, <1>4 DEF Typed
  <2>3. ASSUME NEW t \in Streams \ {s} PROVE StreamOK(t)'
    <3>1. ~Touched(t)
      BY <2>1, <1>1, <1>4 DEF Touched, OnLoop
    <3> QED BY <3>1, <1>0, <1>1, <1>4, Untouched, StillCalm
  <2>4. StreamOK(s)'
    <3>1. ~OnLoop(s)' /\ ~OnLoop(s) /\ [op |-> "stream", of |-> s] \notin dialogs
      BY <1>0, <1>1, <1>4 DEF OnLoop, StreamOK, ConsoleOK
    <3> QED BY <2>1, <3>1, <1>0, <1>1, <1>4
        DEF StreamOK, HostOK, ConsoleOK, CallOK, PollerOK, Live
  <2> QED BY <2>2, <2>3, <2>4, <1>2, WholeNext DEF ReachInv
<1> QED BY <1>3, <1>4 DEF Close

LEMMA RespondReach ==
  ASSUME ReachInv, NEW d \in dialogs, Respond(d)
  PROVE  ReachInv'
<1>0. Typed /\ TypeOK /\ WireOK /\ RunOK /\ \A t \in Streams : StreamOK(t)
  BY Whole DEF ReachInv
<1>1. /\ UNCHANGED <<proc, child, wire, poller, channel, results, faults, lost>>
      /\ busy = None /\ dialogs' = dialogs \ {d}
  BY DEF Respond, Free, host, queues
<1>2. /\ d = [op |-> d.op, of |-> d.of] /\ d.op \in {"run", "stream", "terminate"}
      /\ d.op = "run" => d.of \in Runs
      /\ d.op # "run" => d.of \in Streams
  BY <1>0, RequestFacts
<1>3. /\ dialogs' \subseteq Requests
      /\ \A t \in Streams : [op |-> "stream", of |-> t] \in dialogs' =>
                              [op |-> "stream", of |-> t] \in dialogs
      /\ \A r \in Runs : [op |-> "run", of |-> r] \in dialogs' =>
                              [op |-> "run", of |-> r] \in dialogs
  BY <1>0, <1>1 DEF Typed
<1>4. CASE d.op = "run"
  <2> PICK r \in Runs : r = d.of
    BY <1>2, <1>4
  <2>1. /\ runs' = [runs EXCEPT ![r] = "calling"] \/ runs' = [runs EXCEPT ![r] = "refused"]
        /\ UNCHANGED <<busy, streamMap, consoles>>
    BY <1>4 DEF Respond, Spawned
  <2>2. [op |-> "run", of |-> r] = d
    BY <1>2, <1>4
  <2>3. /\ runs' \in [Runs -> Runnings] /\ \A x \in Runs \ {r} : runs'[x] = runs[x]
        /\ runs[r] = "asked"
    BY <2>1, <2>2, <1>0 DEF RunOK, Typed, Runnings
  <2>4. Typed'
    BY <2>1, <2>3, <1>0, <1>1, <1>3 DEF Typed
  <2>5. WireOK'
    BY <2>1, <2>3, <1>0, <1>1 DEF WireOK
  <2>6. RunOK'
    <3>1. ASSUME NEW x \in Runs, [op |-> "run", of |-> x] \in dialogs' PROVE runs'[x] = "asked"
      <4>1. x # r
        BY <2>2, <3>1, <1>1
      <4> QED BY <4>1, <3>1, <2>3, <1>0, <1>3 DEF RunOK
    <3>2. ASSUME NEW i \in DOMAIN results PROVE runs'[results[i].of] \in {"sent", "shown"}
      <4>1. results[i] \in Results
        BY <1>0 DEF Typed
      <4>2. results[i].of \in Runs /\ runs[results[i].of] \in {"sent", "shown"}
        BY <4>1, <1>0 DEF Results, RunOK
      <4> QED BY <4>2, <2>3
    <3> QED BY <3>1, <3>2, <1>1 DEF RunOK
  <2>7. ASSUME NEW t \in Streams PROVE StreamOK(t)'
    <3>1. ~Touched(t)
      BY <2>1, <1>1, <1>3 DEF Touched, OnLoop
    <3> QED BY <3>1, <2>1, <1>0, <1>1, Untouched, StillCalm
  <2> QED BY <2>4, <2>5, <2>6, <2>7, WholeNext DEF ReachInv
<1>5. CASE d.op # "run"
  <2> PICK s \in Streams : s = d.of
    BY <1>2, <1>5
  <2>1. runs' = runs /\ WireOK' /\ RunOK'
    <3>1. runs' = runs
      BY <1>5 DEF Respond
    <3>2. WireOK'
      BY <3>1, <1>0, <1>1 DEF WireOK
    <3>3. RunOK'
      BY <3>1, <1>0, <1>1, <1>3 DEF RunOK
    <3> QED BY <3>1, <3>2, <3>3
  <2>2. CASE d.op = "stream"
    <3>0. PICK st \in {"starting", "failed"} :
            /\ Becomes(s, st) /\ UNCHANGED streamMap
            /\ st = "starting" => busy' = [op |-> "start", of |-> s, by |-> "ai"]
            /\ st # "starting" => busy' = busy
      BY <2>2 DEF Respond, Awaits
    <3>1. /\ consoles' \in [Streams -> Consoles] /\ consoles'[s].state = st
          /\ \A t \in Streams \ {s} : consoles'[t] = consoles[t]
      BY <3>0, <1>0, Becoming
    <3>2. busy' \in Calls \cup {None}
      BY <3>0, <1>0 DEF Typed, Calls
    <3>3. Typed'
      BY <3>0, <3>1, <3>2, <2>1, <1>0, <1>1, <1>3 DEF Typed
    <3>4. [op |-> "stream", of |-> s] = d /\ consoles[s].state = "asked"
      BY <1>0, <1>2, <2>2 DEF StreamOK, ConsoleOK
    <3>5. ASSUME NEW t \in Streams \ {s} PROVE StreamOK(t)'
      <4>1. ~Touched(t) /\ ~OnLoop(t)
        BY <3>0, <3>1, <1>1, <1>3 DEF Touched, OnLoop
      <4> QED BY <4>1, <1>0, <1>1, Untouched, StillCalm
    <3>6. StreamOK(s)'
      <4>1. /\ proc[s].state = "none" /\ poller[s].pc = "off" /\ s \notin streamMap
            /\ proc[s].entry = FALSE
        BY <1>0, <3>4 DEF StreamOK, ConsoleOK, HostOK, Typed, Procs
      <4>2. [op |-> "stream", of |-> s] \notin dialogs'
        BY <3>4, <1>1
      <4>3. st # "starting" => ~OnLoop(s)'
        BY <3>0, <1>1 DEF OnLoop
      <4>4. st = "starting" => busy'.op = "start"
        BY <3>0
      <4> QED BY <4>1, <4>2, <4>3, <4>4, <3>0, <3>1, <1>0, <1>1
          DEF StreamOK, HostOK, ConsoleOK, CallOK, PollerOK, Live, Served
    <3> QED BY <3>3, <3>5, <3>6, <2>1, WholeNext DEF ReachInv
  <2>3. CASE d.op = "terminate"
    <3>1. CASE Kill(s, "kill") /\ UNCHANGED consoles
      <4>1. /\ \A t \in Streams : StreamOK(t)'
            /\ busy' \in Calls \cup {None} /\ streamMap' \subseteq Streams
        BY <3>1, <1>1, <1>3, KillStreams
      <4>2. Typed'
        BY <4>1, <3>1, <2>1, <1>0, <1>1, <1>3 DEF Typed
      <4> QED BY <4>1, <4>2, <2>1, WholeNext DEF ReachInv
    <3>2. CASE UNCHANGED <<busy, streamMap, consoles>>
      <4>1. Typed'
        BY <3>2, <2>1, <1>0, <1>1, <1>3 DEF Typed
      <4>2. ASSUME NEW t \in Streams PROVE StreamOK(t)'
        <5>1. ~Touched(t)
          BY <3>2, <1>1, <1>3 DEF Touched, OnLoop
        <5> QED BY <5>1, <3>2, <1>0, <1>1, Untouched, StillCalm
      <4> QED BY <4>1, <4>2, <2>1, WholeNext DEF ReachInv
    <3> QED BY <3>1, <3>2, <2>3 DEF Respond
  <2> QED BY <2>2, <2>3, <1>2, <1>5
<1> QED BY <1>4, <1>5

LEMMA TakeReach ==
  ASSUME ReachInv, NEW c \in Callers, Take(c)
  PROVE  ReachInv'
<1>0. Typed /\ TypeOK /\ WireOK /\ RunOK /\ \A t \in Streams : StreamOK(t)
  BY Whole DEF ReachInv
<1>1. /\ UNCHANGED <<proc, child, busy, poller, runs, streamMap, consoles, dialogs, channel, results,
                     faults, lost>>
      /\ wire.holder = None /\ Request(c) # None
      /\ wire' = [holder |-> c, stage |-> "sent", answer |-> Bad]
  BY DEF Take, host, tasks, shell, queues
<1>2. wire' \in Wires
  BY <1>1, AnswersOK DEF Wires
<1>3. Typed'
  BY <1>0, <1>1, <1>2 DEF Typed
<1>4. /\ c # None
      /\ c = Loop => busy # None
      /\ c \in Streams => poller[c].pc = "due"
      /\ c \in Runs => runs[c] = "calling"
  BY <1>1, CallersAssumption DEF Request, Callers
<1>5. WireOK'
  BY <1>1, <1>4 DEF WireOK
<1>6. RunOK'
  BY <1>0, <1>1 DEF RunOK
<1>7. ASSUME NEW t \in Streams PROVE StreamOK(t)'
  <2>1. ~Served /\ ~Served' /\ wire'.stage # "answered"
    BY <1>1, CallersAssumption DEF Served
  <2>2. OnLoop(t)' <=> OnLoop(t)
    BY <1>1 DEF OnLoop
  <2> QED BY <2>1, <2>2, <1>0, <1>1 DEF StreamOK, HostOK, ConsoleOK, CallOK, PollerOK, Live
<1> QED BY <1>3, <1>5, <1>6, <1>7, WholeNext DEF ReachInv

(* The bridge starts, polls or kills a stream.                               *)
LEMMA ServeStreams ==
  ASSUME ReachInv, NEW s \in Streams, wire.stage = "sent",
         \/ HostStart(s) /\ wire.holder = Loop /\ busy.of = s /\ busy.op = "start"
         \/ HostKill(s) /\ wire.holder = Loop /\ busy.of = s /\ busy.op # "start"
         \/ HostPoll(s) /\ wire.holder = s,
         UNCHANGED <<busy, poller, streamMap, consoles, dialogs>>
  PROVE  /\ \A t \in Streams : StreamOK(t)'
         /\ proc' \in [Streams -> Procs] /\ lost' \subseteq Streams /\ faults' \in 0..MaxFaults
         /\ \E a \in Answers : Answered(a)
<1>0. Typed /\ TypeOK /\ WireOK /\ RunOK /\ \A t \in Streams : StreamOK(t)
  BY Whole DEF ReachInv
<1>1. proc \in [Streams -> Procs] /\ proc[s] \in Procs /\ lost \subseteq Streams /\ faults \in 0..MaxFaults
  BY <1>0 DEF Typed
<1>2. \A t \in Streams : OnLoop(t)' <=> OnLoop(t)
  BY DEF OnLoop
<1>3. ~Served
  BY DEF Served
<1>4. ASSUME NEW a \in Answers, Answered(a), NEW p \in Procs,
             proc' = [proc EXCEPT ![s] = p], lost' = lost \/ lost' = lost \cup {s},
             p.entry => p.state # "none",
             p.state = "running" /\ s \notin lost' => p.entry /\ (OnLoop(s) \/ s \in streamMap),
             consoles[s].state \in {"none", "asked"} => p.state = "none",
             OnLoop(s) /\ busy.op = "start" /\ ~a.ok => p.state = "none",
             OnLoop(s) /\ busy.op # "start" /\ wire.holder = Loop => ~(p.state = "running" /\ s \notin lost'),
             p.state = "running" /\ s \notin lost' /\ consoles[s].state # "starting" => Live(s),
             wire.holder = s /\ a.ok /\ a.ended => ~(p.state = "running" /\ s \notin lost'),
             OnLoop(s) /\ busy.op = "start" /\ wire.holder # Loop => p = proc[s],
             wire.holder \in Streams => wire.holder = s,
             wire.holder = Loop => OnLoop(s)
      PROVE  /\ \A t \in Streams : StreamOK(t)'
             /\ proc' \in [Streams -> Procs] /\ lost' \subseteq Streams
  <2>1. /\ wire'.holder = wire.holder /\ wire'.stage = "answered" /\ wire'.answer = a
    BY <1>0, <1>4, Answering
  <2>2. /\ proc' \in [Streams -> Procs] /\ proc'[s] = p
        /\ \A t \in Streams \ {s} : proc'[t] = proc[t]
        /\ lost' \subseteq Streams
    BY <1>1, <1>4
  <2>3. ASSUME NEW t \in Streams \ {s} PROVE StreamOK(t)'
    <3>1. Live(t)' <=> Live(t)
      BY <2>2, <1>4 DEF Live
    <3>2. Served' => ~OnLoop(t)
      BY <2>1, <1>4 DEF Served, OnLoop
    <3>3. wire'.holder # t
      BY <2>1, <1>4
    <3> QED BY <3>1, <3>2, <3>3, <2>2, <1>0, <1>2, <1>3
        DEF StreamOK, HostOK, ConsoleOK, CallOK, PollerOK
  <2>4. StreamOK(s)'
    <3>1. Live(s)' <=> p.state = "running" /\ s \notin lost'
      BY <2>2 DEF Live
    <3>2. Served' <=> wire.holder = Loop
      BY <2>1 DEF Served
    <3>3. HostOK(s)'
      BY <3>1, <2>2, <1>2, <1>4 DEF HostOK
    <3>4. ConsoleOK(s)'
      BY <2>2, <1>0, <1>2, <1>4 DEF ConsoleOK, StreamOK
    <3>5. CallOK(s)'
      <4>1. OnLoop(s) /\ busy.op = "start" => consoles[s].state = "starting"
        BY <1>0 DEF StreamOK, CallOK
      <4>2. OnLoop(s) /\ busy.op = "start" /\ wire.holder # Loop => proc[s].state = "none"
        BY <1>0, <1>3 DEF StreamOK, CallOK
      <4>3. OnLoop(s) /\ busy.op = "start" /\ ~(Served' /\ a.ok) => p.state = "none"
        BY <3>2, <4>2, <1>4
      <4>4. OnLoop(s) /\ busy.op # "start" => s \notin streamMap /\ consoles[s].state = "open"
        BY <1>0 DEF StreamOK, CallOK
      <4>5. OnLoop(s) /\ busy.op # "start" /\ Served' => ~Live(s)'
        BY <3>1, <3>2, <1>4
      <4> QED BY <4>1, <4>3, <4>4, <4>5, <2>1, <2>2, <1>2 DEF CallOK
    <3>6. PollerOK(s)'
      <4>1. poller[s].pc = "leaving" \/ (poller[s].pc = "sending" /\ poller[s].then = "leaving")
              => consoles[s].state # "starting"
        BY <1>0 DEF StreamOK, ConsoleOK
      <4>2. poller[s].pc = "leaving" \/ (poller[s].pc = "sending" /\ poller[s].then = "leaving")
              => ~Live(s)'
        BY <4>1, <3>1, <1>0, <1>4 DEF StreamOK, PollerOK
      <4>3. poller[s].pc = "sending" => poller[s].todo # <<>>
        BY <1>0 DEF StreamOK, PollerOK
      <4> QED BY <4>2, <4>3, <2>1, <3>1, <1>4 DEF PollerOK
    <3> QED BY <3>3, <3>4, <3>5, <3>6 DEF StreamOK
  <2> QED BY <2>2, <2>3, <2>4
<1>5. CASE HostStart(s) /\ wire.holder = Loop /\ busy.of = s /\ busy.op = "start"
  <2>1. OnLoop(s) /\ consoles[s].state = "starting" /\ proc[s].state = "none" /\ s \notin Runs
        /\ wire.holder \notin Streams
    BY <1>0, <1>3, <1>5, CallersAssumption DEF OnLoop, WireOK, StreamOK, CallOK
  <2>2. lost' = lost /\ faults' = faults
    BY <1>5 DEF HostStart
  <2>3. CASE Answered(Bad) /\ UNCHANGED proc
    <3>1. PICK p \in Procs : p = proc[s]
      BY <1>1
    <3>2. proc' = [proc EXCEPT ![s] = p]
      BY <2>3, <3>1, <1>1
    <3>3. p.entry => p.state # "none"
      BY <3>1, <1>0 DEF StreamOK, HostOK
    <3>4. p.state = "none" /\ Bad \in Answers /\ ~Bad.ok
      BY <3>1, <2>1, AnswersOK
    <3>5. /\ \A t \in Streams : StreamOK(t)'
          /\ proc' \in [Streams -> Procs] /\ lost' \subseteq Streams
      BY <1>4, <2>1, <2>2, <2>3, <3>2, <3>3, <3>4, <1>5
    <3> QED BY <3>4, <3>5, <2>2, <2>3, <1>1
  <2>4. CASE Answered(Good) /\ proc' = [proc EXCEPT ![s].state = "running", ![s].entry = TRUE]
    <3>1. PICK p : p = [proc[s] EXCEPT !.state = "running", !.entry = TRUE]
      OBVIOUS
    <3>2. p \in Procs /\ p.state = "running" /\ p.entry = TRUE
      BY <3>1, <1>1 DEF Procs
    <3>3. proc' = [proc EXCEPT ![s] = p]
      BY <2>4, <3>1
    <3>4. Good \in Answers /\ Good.ok /\ ~Good.ended
      BY AnswersOK
    <3>5. /\ \A t \in Streams : StreamOK(t)'
          /\ proc' \in [Streams -> Procs] /\ lost' \subseteq Streams
      BY <1>4, <2>1, <2>2, <2>4, <3>2, <3>3, <3>4, <1>5
    <3> QED BY <3>4, <3>5, <2>2, <2>4, <1>1
  <2> QED BY <2>3, <2>4, <1>5 DEF HostStart
<1>6. CASE HostKill(s) /\ wire.holder = Loop /\ busy.of = s /\ busy.op # "start"
  <2>1. OnLoop(s) /\ consoles[s].state = "open" /\ wire.holder \notin Streams
    BY <1>0, <1>6, CallersAssumption DEF OnLoop, WireOK, StreamOK, CallOK
  <2>2. PICK a \in {Good, Bad} : Answered(a)
    BY <1>6 DEF HostKill
  <2>3. a \in Answers /\ (wire.holder # s)
    BY <2>1, AnswersOK, <2>2
  <2>4. CASE proc[s].entry
    <3>0. <<>> \in Seq(Written)
      OBVIOUS
    <3>1. PICK p : /\ proc' = [proc EXCEPT ![s] = p]
                   /\ p \in Procs /\ p.entry = FALSE
                   /\ \/ p.state = "ended" /\ lost' = lost /\ faults' = faults
                      \/ /\ p.state = "running" /\ lost' = lost \cup {s}
                         /\ faults' = faults + 1 /\ faults < MaxFaults
      <4>1. CASE /\ proc' = [proc EXCEPT ![s].entry = FALSE, ![s].pending = <<>>, ![s].state = "ended"]
                 /\ UNCHANGED <<faults, lost>>
        <5> PICK p : p = [proc[s] EXCEPT !.entry = FALSE, !.pending = <<>>, !.state = "ended"]
          OBVIOUS
        <5>1. p \in Procs /\ p.entry = FALSE /\ p.state = "ended"
          BY <1>1, <3>0 DEF Procs
        <5>2. proc' = [proc EXCEPT ![s] = p]
          BY <4>1, <1>1
        <5> QED BY <4>1, <5>1, <5>2
      <4>2. CASE /\ proc[s].state = "running" /\ faults < MaxFaults
                 /\ proc' = [proc EXCEPT ![s].entry = FALSE, ![s].pending = <<>>]
                 /\ faults' = faults + 1 /\ lost' = lost \cup {s}
        <5> PICK p : p = [proc[s] EXCEPT !.entry = FALSE, !.pending = <<>>]
          OBVIOUS
        <5>1. p \in Procs /\ p.entry = FALSE /\ p.state = "running"
          BY <1>1, <3>0, <4>2 DEF Procs
        <5>2. proc' = [proc EXCEPT ![s] = p]
          BY <4>2, <1>1
        <5> QED BY <4>2, <5>1, <5>2
      <4> QED BY <1>6, <2>4, <4>1, <4>2 DEF HostKill
    <3>2. /\ p.state # "running" \/ s \in lost'
          /\ lost' = lost \/ lost' = lost \cup {s}
      BY <3>1
    <3>3. /\ \A t \in Streams : StreamOK(t)'
          /\ proc' \in [Streams -> Procs] /\ lost' \subseteq Streams
      <4>1. p \in Procs /\ ~p.entry /\ proc' = [proc EXCEPT ![s] = p]
        BY <3>1
      <4> QED BY <1>4, <2>1, <2>2, <2>3, <3>2, <4>1, <1>6
    <3>4. faults' \in 0..MaxFaults
      BY <3>1, <1>1, BoundsAssumption
    <3> QED BY <3>3, <3>4, <2>2, <2>3
  <2>5. CASE ~proc[s].entry
    <3>1. /\ UNCHANGED <<proc, faults, lost>> /\ ~Live(s)
      BY <2>5, <1>0, <1>6 DEF HostKill, StreamOK, HostOK
    <3>2. PICK p \in Procs : p = proc[s]
      BY <1>1
    <3>3. proc' = [proc EXCEPT ![s] = p]
      BY <3>1, <3>2, <1>1
    <3>4. ~(p.state = "running" /\ s \notin lost') /\ ~p.entry
      BY <3>1, <3>2, <2>5 DEF Live
    <3>5. /\ \A t \in Streams : StreamOK(t)'
          /\ proc' \in [Streams -> Procs] /\ lost' \subseteq Streams
      BY <1>4, <2>1, <2>2, <2>3, <3>1, <3>3, <3>4, <1>6
    <3> QED BY <3>1, <3>5, <2>2, <2>3, <1>1
  <2> QED BY <2>4, <2>5
<1>7. CASE HostPoll(s) /\ wire.holder = s
  <2>1. /\ s # Loop /\ poller[s].pc = "due" /\ wire.holder \in Streams
        /\ lost' = lost /\ faults' = faults
    BY <1>0, <1>7, CallersAssumption DEF WireOK, HostPoll
  <2>2. consoles[s].state \notin {"none", "asked", "starting"} /\ ~(OnLoop(s) /\ busy.op = "start")
    BY <2>1, <1>0 DEF StreamOK, ConsoleOK, CallOK
  <2>3. CASE proc[s].entry
    <3>1. PICK a : /\ a = [ok |-> TRUE, lines |-> proc[s].pending, ended |-> proc[s].state # "running"]
                   /\ Answered(a)
      BY <2>3, <1>7 DEF HostPoll
    <3>2. a \in Answers /\ (a.ended <=> proc[s].state # "running")
      BY <3>1, <1>1 DEF Answers, Procs
    <3>3. PICK p : p = [proc[s] EXCEPT !.pending = <<>>] /\ proc' = [proc EXCEPT ![s] = p]
      BY <2>3, <1>7 DEF HostPoll
    <3>4. p \in Procs /\ p.entry = proc[s].entry /\ p.state = proc[s].state
      <4>1. <<>> \in Seq(Written)
        OBVIOUS
      <4> QED BY <3>3, <4>1, <1>1 DEF Procs
    <3>5. /\ p.entry => p.state # "none"
          /\ p.state = "running" /\ s \notin lost' => p.entry /\ (OnLoop(s) \/ s \in streamMap)
          /\ p.state = "running" /\ s \notin lost' => Live(s)
      BY <3>4, <2>1, <1>0 DEF StreamOK, HostOK, Live
    <3>6. /\ \A t \in Streams : StreamOK(t)'
          /\ proc' \in [Streams -> Procs] /\ lost' \subseteq Streams
      BY <1>4, <2>1, <2>2, <3>1, <3>2, <3>3, <3>4, <3>5, <1>7
    <3> QED BY <3>1, <3>2, <3>6, <2>1, <1>1
  <2>4. CASE ~proc[s].entry
    <3>1. Answered(Bad) /\ UNCHANGED proc
      BY <2>4, <1>7 DEF HostPoll
    <3>2. PICK p \in Procs : p = proc[s]
      BY <1>1
    <3>3. proc' = [proc EXCEPT ![s] = p]
      BY <3>1, <3>2, <1>1
    <3>4. Bad \in Answers /\ ~Bad.ok
      BY AnswersOK
    <3>5. /\ p.entry => p.state # "none"
          /\ p.state = "running" /\ s \notin lost' => p.entry /\ (OnLoop(s) \/ s \in streamMap)
          /\ p.state = "running" /\ s \notin lost' => Live(s)
      BY <3>2, <2>1, <1>0 DEF StreamOK, HostOK, Live
    <3>6. /\ \A t \in Streams : StreamOK(t)'
          /\ proc' \in [Streams -> Procs] /\ lost' \subseteq Streams
      BY <1>4, <2>1, <2>2, <3>1, <3>2, <3>3, <3>4, <3>5, <1>7
    <3> QED BY <3>1, <3>4, <3>6, <2>1, <1>1
  <2> QED BY <2>3, <2>4
<1> QED BY <1>5, <1>6, <1>7

(* A request is the one its caller waits for.                                *)
ServesStream(s) ==
  /\ child' = child
  /\ \/ HostStart(s) /\ wire.holder = Loop /\ busy.of = s /\ busy.op = "start"
     \/ HostKill(s) /\ wire.holder = Loop /\ busy.of = s /\ busy.op # "start"
     \/ HostPoll(s) /\ wire.holder = s

ServesRun(r) == HostExec(r) /\ UNCHANGED <<proc, faults, lost>>

LEMMA ServeKinds ==
  ASSUME TypeOK, WireOK, Serve
  PROVE  (\E s \in Streams : ServesStream(s)) \/ (wire.holder \in Runs /\ ServesRun(wire.holder))
<1>0. wire.holder \in {Loop} \cup Streams \cup Runs
  BY Parts DEF Callers, WireOK, Serve
<1>1. CASE wire.holder = Loop
  <2>1. busy \in Calls
    BY <1>1, Parts DEF WireOK
  <2>2. busy.of \in Streams /\ busy.op \in {"start", "kill", "close"}
    BY <2>1 DEF Calls
  <2>3. Request(wire.holder) = busy
    BY <1>1 DEF Request
  <2>4. ServesStream(busy.of)
    BY <1>1, <2>2, <2>3 DEF Serve, ServesStream
  <2> QED BY <2>2, <2>4
<1>2. CASE wire.holder \in Streams
  <2>1. wire.holder # Loop /\ poller[wire.holder].pc = "due"
    BY <1>2, CallersAssumption DEF WireOK
  <2> PICK q : q = [op |-> "poll", of |-> wire.holder]
    OBVIOUS
  <2>2. Request(wire.holder) = q /\ q.op = "poll" /\ q.of = wire.holder
    BY <1>2, <2>1 DEF Request
  <2>3. ServesStream(wire.holder)
    BY <2>2 DEF Serve, ServesStream
  <2> QED BY <2>3, <1>2
<1>3. CASE wire.holder \in Runs
  <2>1. wire.holder # Loop /\ wire.holder \notin Streams /\ runs[wire.holder] = "calling"
    BY <1>3, CallersAssumption DEF WireOK
  <2> PICK q : q = [op |-> "exec", of |-> wire.holder]
    OBVIOUS
  <2>2. Request(wire.holder) = q /\ q.op = "exec" /\ q.of = wire.holder
    BY <1>3, <2>1 DEF Request
  <2>3. ServesRun(wire.holder)
    BY <2>2 DEF Serve, ServesRun
  <2> QED BY <2>3, <1>3
<1> QED BY <1>0, <1>1, <1>2, <1>3

LEMMA ServeReach ==
  ASSUME ReachInv, Serve
  PROVE  ReachInv'
<1>0. Typed /\ TypeOK /\ WireOK /\ RunOK /\ \A t \in Streams : StreamOK(t)
  BY Whole DEF ReachInv
<1>1. /\ UNCHANGED <<busy, poller, runs, streamMap, consoles, dialogs, channel, results>>
      /\ wire.stage = "sent" /\ wire.holder \in Callers
  BY <1>0 DEF Serve, tasks, shell, queues, WireOK, Typed, Wires
<1>2. RunOK'
  BY <1>0, <1>1 DEF RunOK
<1>3. ASSUME NEW a \in Answers, Answered(a) PROVE wire' \in Wires /\ WireOK'
  <2>1. wire' \in Wires /\ wire'.stage = "answered" /\ wire'.holder = wire.holder
    BY <1>0, <1>3, Answering
  <2> QED BY <2>1, <1>0, <1>1 DEF WireOK
<1>4. ASSUME NEW s \in Streams, child' = child,
             \/ HostStart(s) /\ wire.holder = Loop /\ busy.of = s /\ busy.op = "start"
             \/ HostKill(s) /\ wire.holder = Loop /\ busy.of = s /\ busy.op # "start"
             \/ HostPoll(s) /\ wire.holder = s
      PROVE  ReachInv'
  <2>1. /\ \A t \in Streams : StreamOK(t)'
        /\ proc' \in [Streams -> Procs] /\ lost' \subseteq Streams /\ faults' \in 0..MaxFaults
        /\ \E a \in Answers : Answered(a)
    BY <1>1, <1>4, ServeStreams
  <2>2. wire' \in Wires /\ WireOK'
    BY <2>1, <1>3
  <2>3. Typed'
    BY <2>1, <2>2, <1>0, <1>1, <1>4 DEF Typed
  <2> QED BY <2>1, <2>2, <2>3, <1>2, WholeNext DEF ReachInv
<1>5. CASE \E s \in Streams : ServesStream(s)
  <2> PICK s \in Streams : ServesStream(s)
    BY <1>5
  <2> QED BY <1>4 DEF ServesStream
<1>6. CASE wire.holder \in Runs /\ ServesRun(wire.holder)
  <2>1. wire.holder # Loop /\ wire.holder \notin Streams /\ runs[wire.holder] = "calling"
    BY <1>0, <1>6, CallersAssumption DEF WireOK
  <2>2. HostExec(wire.holder) /\ UNCHANGED <<proc, faults, lost>>
    BY <1>6 DEF ServesRun
  <2>3. wire' \in Wires /\ WireOK' /\ child' \in [Runs -> Children] /\ wire'.holder = wire.holder
    <3>1. CASE Answered(Bad) /\ UNCHANGED child
      <4>1. wire' \in Wires /\ WireOK'
        BY <3>1, <1>3, AnswersOK
      <4>2. wire'.holder = wire.holder
        BY <3>1, <1>0, AnswersOK, Answering
      <4> QED BY <3>1, <4>1, <4>2, <1>0 DEF Typed
    <3>2. ASSUME NEW n \in {0, MaxOut},
                 child' = [child EXCEPT ![wire.holder] = [ChildAt("running") EXCEPT !.left = n]],
                 wire' = [wire EXCEPT !.stage = "executing"]
          PROVE  wire' \in Wires /\ WireOK' /\ child' \in [Runs -> Children] /\ wire'.holder = wire.holder
      <4>1. [ChildAt("running") EXCEPT !.left = n] \in Children
        <5>1. ChildAt("running") \in Children /\ n \in 0..MaxOut
          BY BoundsAssumption, ChildAts
        <5> QED BY <5>1 DEF Children
      <4>2. child' \in [Runs -> Children]
        BY <3>2, <4>1, <1>0 DEF Typed
      <4>3. wire' \in Wires /\ wire'.holder = wire.holder /\ wire'.stage = "executing"
        BY <3>2, <1>0 DEF Typed, Wires
      <4> QED BY <4>2, <4>3, <1>0, <1>1, <1>6, <2>1 DEF WireOK
    <3> QED BY <2>2, <3>1, <3>2 DEF HostExec
  <2>4. Typed'
    BY <2>2, <2>3, <1>0, <1>1 DEF Typed
  <2>5. ASSUME NEW t \in Streams PROVE StreamOK(t)'
    <3>1. ~Served /\ ~Served' /\ wire'.holder # t
      BY <2>1, <2>3, <1>6, CallersAssumption DEF Served
    <3>2. OnLoop(t)' <=> OnLoop(t)
      BY <1>1 DEF OnLoop
    <3> QED BY <3>1, <3>2, <2>2, <1>0, <1>1
        DEF StreamOK, HostOK, ConsoleOK, CallOK, PollerOK, Live
  <2> QED BY <2>3, <2>4, <2>5, <1>2, WholeNext DEF ReachInv
<1> QED BY <1>0, <1>5, <1>6, ServeKinds

(* The steps of a one-shot child: they change it, and its thread may answer. *)
ChildSteps(r) == ChildWrites(r) \/ ChildEnds(r) \/ ChildRead(r) \/ HeirEnds(r)

LEMMA ChildReach ==
  ASSUME ReachInv, NEW r \in Runs, ChildSteps(r)
  PROVE  ReachInv'
<1>0. Typed /\ TypeOK /\ WireOK /\ RunOK /\ \A t \in Streams : StreamOK(t)
  BY Whole DEF ReachInv
<1>1. /\ UNCHANGED <<proc, busy, poller, runs, streamMap, consoles, dialogs, channel, results,
                     faults, lost>>
      /\ \/ wire' = wire
         \/ wire.holder = r /\ wire.stage = "executing" /\ \E a \in {Good, Bad} : Answered(a)
  BY DEF ChildSteps, ChildWrites, ChildEnds, ChildExits, ChildKilled, ChildRead, HeirEnds, Reports,
         tasks, shell, queues
<1>2. child' \in [Runs -> Children]
  <2>1. child \in [Runs -> Children] /\ child[r] \in Children
    BY <1>0 DEF Typed
  <2>2. CASE ChildWrites(r)
    <3> PICK l, p : l = child[r].left - 1 /\ p = child[r].pipe + 1
      OBVIOUS
    <3>1. l \in 0..MaxOut /\ p \in 0..PipeCap
      BY <2>1, <2>2, BoundsAssumption DEF ChildWrites, Children
    <3> PICK c : c = [child[r] EXCEPT !.left = l, !.pipe = p]
      OBVIOUS
    <3>2. c \in Children
      BY <2>1, <3>1 DEF Children
    <3>3. child' = [child EXCEPT ![r] = c]
      BY <2>1, <2>2 DEF ChildWrites
    <3> QED BY <2>1, <3>2, <3>3
  <2>3. CASE ChildExits(r)
    <3>1. PICK heir \in BOOLEAN : child' = [child EXCEPT ![r].state = "exited", ![r].heir = heir]
      BY <2>3 DEF ChildExits
    <3> PICK c : c = [child[r] EXCEPT !.state = "exited", !.heir = heir]
      OBVIOUS
    <3>2. c \in Children
      BY <2>1 DEF Children
    <3>3. child' = [child EXCEPT ![r] = c]
      BY <2>1, <3>1
    <3> QED BY <2>1, <3>2, <3>3
  <2>4. CASE ChildKilled(r) \/ ChildRead(r)
    <3>1. child' = [child EXCEPT ![r] = ChildAt("ended")]
      BY <2>4 DEF ChildKilled, ChildRead
    <3> QED BY <2>1, <3>1, ChildAts
  <2>5. CASE HeirEnds(r)
    <3> PICK c : c = [child[r] EXCEPT !.heir = FALSE]
      OBVIOUS
    <3>1. c \in Children
      BY <2>1 DEF Children
    <3>2. child' = [child EXCEPT ![r] = c]
      BY <2>5 DEF HeirEnds
    <3> QED BY <2>1, <3>1, <3>2
  <2> QED BY <2>2, <2>3, <2>4, <2>5 DEF ChildSteps, ChildEnds
<1>3. /\ wire' \in Wires /\ wire'.holder = wire.holder
      /\ wire' = wire \/ (wire'.stage = "answered" /\ wire.holder = r)
  BY <1>0, <1>1, Answering, AnswersOK DEF Typed
<1>4. WireOK'
  <2>1. CASE wire' = wire
    BY <2>1, <1>0, <1>1 DEF WireOK
  <2>2. CASE wire'.stage = "answered" /\ wire.holder = r
    BY <2>2, <1>0, <1>1, <1>3, CallersAssumption DEF WireOK
  <2> QED BY <2>1, <2>2, <1>3
<1>5. RunOK'
  BY <1>0, <1>1 DEF RunOK
<1>6. Typed'
  BY <1>0, <1>1, <1>2, <1>3 DEF Typed
<1>7. ASSUME NEW t \in Streams PROVE StreamOK(t)'
  <2>1. OnLoop(t)' <=> OnLoop(t)
    BY <1>1 DEF OnLoop
  <2>2. CASE wire' = wire
    BY <2>1, <2>2, <1>0, <1>1
    DEF StreamOK, HostOK, ConsoleOK, CallOK, PollerOK, Live, Served
  <2>3. CASE wire.holder = r
    <3>1. ~Served /\ ~Served' /\ wire'.holder # t
      BY <2>3, <1>3, CallersAssumption DEF Served
    <3> QED BY <3>1, <2>1, <1>0, <1>1
        DEF StreamOK, HostOK, ConsoleOK, CallOK, PollerOK, Live
  <2> QED BY <2>2, <2>3, <1>3
<1> QED BY <1>4, <1>5, <1>6, <1>7, WholeNext DEF ReachInv

LEMMA EndsReach ==
  ASSUME ReachInv, NEW s \in Streams, Ends(s)
  PROVE  ReachInv'
<1>0. Typed /\ TypeOK /\ WireOK /\ RunOK /\ \A t \in Streams : StreamOK(t)
  BY Whole DEF ReachInv
<1>1. /\ UNCHANGED <<child, wire, busy, poller, runs, streamMap, consoles, dialogs, channel, results,
                     faults, lost>>
      /\ proc[s].state = "running" /\ proc' = [proc EXCEPT ![s].state = "ended"]
  BY DEF Ends, tasks, shell, queues
<1>2. /\ proc' \in [Streams -> Procs] /\ proc'[s].state = "ended"
      /\ \A t \in Streams \ {s} : proc'[t] = proc[t]
  <2>1. proc[s] \in Procs
    BY <1>0 DEF Typed
  <2> PICK p : p = [proc[s] EXCEPT !.state = "ended"]
    OBVIOUS
  <2>2. p \in Procs /\ p.state = "ended"
    BY <2>1 DEF Procs
  <2>3. proc' = [proc EXCEPT ![s] = p]
    BY <1>1
  <2> QED BY <2>2, <2>3, <1>0 DEF Typed
<1>3. Typed' /\ WireOK' /\ RunOK'
  BY <1>0, <1>1, <1>2 DEF Typed, WireOK, RunOK
<1>4. ASSUME NEW t \in Streams PROVE StreamOK(t)'
  <2>1. /\ OnLoop(t)' <=> OnLoop(t)
        /\ Live(t)' => Live(t) /\ proc'[t] = proc[t]
        /\ proc'[t].state = "none" <=> proc[t].state = "none"
        /\ proc'[t].entry => proc'[t].state # "none"
    <3>1. CASE t = s
      BY <3>1, <1>1, <1>2 DEF OnLoop, Live
    <3>2. CASE t # s
      BY <3>2, <1>0, <1>1, <1>2 DEF OnLoop, Live, StreamOK, HostOK
    <3> QED BY <3>1, <3>2
  <2> QED BY <2>1, <1>0, <1>1 DEF StreamOK, HostOK, ConsoleOK, CallOK, PollerOK, Served
<1> QED BY <1>3, <1>4, WholeNext DEF ReachInv

ReadLine(s, k) == <<k, proc[s].read[k] + 1>>

LEMMA ReadDoes ==
  ASSUME TypeOK, NEW s \in Streams, NEW k \in Kinds, Reads(s, k)
  PROVE  /\ proc' \in [Streams -> Procs]
         /\ \A t \in Streams \ {s} : proc'[t] = proc[t]
         /\ proc'[s].state = proc[s].state /\ proc'[s].entry = proc[s].entry
         /\ proc'[s].pending = Append(proc[s].pending, ReadLine(s, k))
         /\ proc'[s].read[k] = proc[s].read[k] + 1
         /\ \A j \in Kinds \ {k} : proc'[s].read[j] = proc[s].read[j]
         /\ ReadLine(s, k) \in Written /\ proc[s].read[k] \in Nat
<1>1. proc \in [Streams -> Procs] /\ proc[s] \in Procs
  BY Parts
<1>2. proc[s].read \in [Kinds -> 0..MaxLines] /\ proc[s].pending \in Seq(Written)
  BY <1>1 DEF Procs
<1> PICK n : n = proc[s].read[k] + 1
  OBVIOUS
<1>3. n \in 1..MaxLines /\ proc[s].read[k] \in Nat
  <2>1. proc[s].read[k] \in 0..MaxLines /\ proc[s].read[k] < MaxLines /\ MaxLines \in Nat
    BY <1>2, BoundsAssumption DEF Reads
  <2> QED BY <2>1
<1> PICK l : l = <<k, n>>
  OBVIOUS
<1>4. l \in Written /\ l = ReadLine(s, k)
  BY <1>3 DEF Written, ReadLine
<1> PICK q : q = Append(proc[s].pending, l)
  OBVIOUS
<1> PICK f : f = [proc[s].read EXCEPT ![k] = n]
  OBVIOUS
<1>5. q \in Seq(Written) /\ f \in [Kinds -> 0..MaxLines] /\ f[k] = n
      /\ \A j \in Kinds \ {k} : f[j] = proc[s].read[j]
  BY <1>2, <1>3, <1>4
<1> PICK p : p = [proc[s] EXCEPT !.read = f, !.pending = q]
  OBVIOUS
<1>6. /\ p \in Procs /\ p.state = proc[s].state /\ p.entry = proc[s].entry
      /\ p.pending = q /\ p.read = f
  BY <1>1, <1>5 DEF Procs
<1>7. proc' = [proc EXCEPT ![s] = p]
  <2>1. proc' = [proc EXCEPT ![s].read[k] = n, ![s].pending = q]
    BY DEF Reads
  <2> QED BY <2>1, <1>1
<1>8. proc' \in [Streams -> Procs] /\ proc'[s] = p /\ \A t \in Streams \ {s} : proc'[t] = proc[t]
  BY <1>1, <1>6, <1>7
<1> QED BY <1>3, <1>4, <1>5, <1>6, <1>8

LEMMA ReadsReach ==
  ASSUME ReachInv, NEW s \in Streams, NEW k \in Kinds, Reads(s, k)
  PROVE  ReachInv'
<1>0. Typed /\ TypeOK /\ WireOK /\ RunOK /\ \A t \in Streams : StreamOK(t)
  BY Whole DEF ReachInv
<1>1. UNCHANGED <<child, wire, busy, poller, runs, streamMap, consoles, dialogs, channel, results,
                  faults, lost>>
  BY DEF Reads, tasks, shell, queues
<1>2. /\ proc' \in [Streams -> Procs]
      /\ \A t \in Streams : proc'[t].state = proc[t].state /\ proc'[t].entry = proc[t].entry
  BY <1>0, ReadDoes
<1>3. Typed' /\ WireOK' /\ RunOK'
  BY <1>0, <1>1, <1>2 DEF Typed, WireOK, RunOK
<1>4. ASSUME NEW t \in Streams PROVE StreamOK(t)'
  BY <1>0, <1>1, <1>2
  DEF StreamOK, HostOK, ConsoleOK, CallOK, PollerOK, Live, Served, OnLoop
<1> QED BY <1>3, <1>4, WholeNext DEF ReachInv

(* The polling task sends its next event, and knows then what follows.       *)
LEMMA PollSendDoes ==
  ASSUME TypeOK, NEW s \in Streams, poller[s].todo # <<>>, PollSends(s)
  PROVE  /\ poller' \in [Streams -> Pollers]
         /\ \A t \in Streams \ {s} : poller'[t] = poller[t]
         /\ poller'[s].then = poller[s].then
         /\ poller'[s].todo = Tail(poller[s].todo)
         /\ poller'[s].pc = IF Tail(poller[s].todo) = <<>> THEN poller[s].then ELSE "sending"
         /\ channel' = Append(channel, Head(poller[s].todo))
         /\ Head(poller[s].todo) \in ConsoleEvents
         /\ channel' \in Seq(ConsoleEvents) /\ Len(channel') <= ConsoleCap
<1>1. /\ poller \in [Streams -> Pollers] /\ poller[s] \in Pollers /\ channel \in Seq(ConsoleEvents)
      /\ ConsoleCap \in Nat
  BY Parts, BoundsAssumption DEF TypeOK
<1> PICK todo \in Seq(ConsoleEvents) : todo = poller[s].todo
  BY <1>1 DEF Pollers
<1>2. /\ Tail(todo) \in Seq(ConsoleEvents) /\ Head(todo) \in ConsoleEvents
      /\ Len(todo) = 1 <=> Tail(todo) = <<>>
  <2>1. /\ todo # <<>> /\ Tail(todo) \in Seq(ConsoleEvents) /\ Head(todo) \in ConsoleEvents
        /\ Len(todo) \in Nat /\ Len(Tail(todo)) = Len(todo) - 1
    BY TailFacts
  <2>2. Tail(todo) = <<>> <=> Len(Tail(todo)) = 0
    BY <2>1, EmptyFacts
  <2> QED BY <2>1, <2>2
<1>3. /\ Append(channel, Head(todo)) \in Seq(ConsoleEvents)
      /\ Len(Append(channel, Head(todo))) <= ConsoleCap /\ channel' = Append(channel, Head(todo))
  BY <1>1, <1>2, AppendFacts DEF PollSends
<1> PICK p : /\ poller' = [poller EXCEPT ![s] = p]
             /\ p = IF Len(todo) = 1 THEN [poller[s] EXCEPT !.pc = poller[s].then, !.todo = <<>>]
                                     ELSE [poller[s] EXCEPT !.todo = Tail(todo)]
  BY DEF PollSends
<1>4. poller[s].pc = "sending" /\ poller[s].then \in {"off", "due", "leaving"}
  BY <1>1 DEF PollSends, Pollers
<1>5. /\ p \in Pollers /\ p.then = poller[s].then /\ p.todo = Tail(todo)
      /\ p.pc = IF Tail(todo) = <<>> THEN poller[s].then ELSE "sending"
  <2>1. CASE Len(todo) = 1
    <3>1. p = [poller[s] EXCEPT !.pc = poller[s].then, !.todo = <<>>] /\ Tail(todo) = <<>>
      BY <2>1, <1>2
    <3>2. <<>> \in Seq(ConsoleEvents)
      OBVIOUS
    <3> PICK th \in {"off", "due", "leaving"} : th = poller[s].then
      BY <1>4
    <3>3. p = [poller[s] EXCEPT !.pc = th, !.todo = <<>>]
      BY <3>1
    <3>4. p \in Pollers /\ p.then = th /\ p.todo = <<>> /\ p.pc = th
      BY <3>2, <3>3, <1>1 DEF Pollers
    <3> QED BY <3>1, <3>4
  <2>2. CASE Len(todo) # 1
    <3>1. p = [poller[s] EXCEPT !.todo = Tail(todo)] /\ Tail(todo) # <<>>
      BY <2>2, <1>2
    <3> QED BY <3>1, <1>1, <1>2, <1>4 DEF Pollers
  <2> QED BY <2>1, <2>2
<1>6. /\ poller' \in [Streams -> Pollers] /\ poller'[s] = p
      /\ \A t \in Streams \ {s} : poller'[t] = poller[t]
  BY <1>1, <1>5
<1> QED BY <1>2, <1>3, <1>5, <1>6

LEMMA PollReach ==
  ASSUME ReachInv, NEW s \in Streams, Poller(s)
  PROVE  ReachInv'
<1>0. Typed /\ TypeOK /\ WireOK /\ RunOK /\ \A t \in Streams : StreamOK(t)
  BY Whole DEF ReachInv
<1>1. UNCHANGED <<proc, child, wire, busy, runs, consoles, dialogs, results, faults, lost>>
  BY DEF Poller, PollSends, PollLeaves, host, shell, queues
<1>2. /\ RunOK' /\ \A t \in Streams : OnLoop(t)' <=> OnLoop(t)
      /\ Served' <=> Served
  BY <1>0, <1>1 DEF RunOK, OnLoop, Served
<1>3. CASE PollSends(s)
  <2>1. poller[s].pc = "sending" /\ poller[s].todo # <<>> /\ streamMap' = streamMap
    BY <1>0, <1>3 DEF PollSends, StreamOK, PollerOK, shell
  <2>2. /\ poller' \in [Streams -> Pollers]
        /\ \A t \in Streams \ {s} : poller'[t] = poller[t]
        /\ poller'[s].then = poller[s].then
        /\ poller'[s].todo = Tail(poller[s].todo)
        /\ poller'[s].pc = IF Tail(poller[s].todo) = <<>> THEN poller[s].then ELSE "sending"
        /\ channel' \in Seq(ConsoleEvents) /\ Len(channel') <= ConsoleCap
    BY <1>0, <1>3, <2>1, PollSendDoes
  <2>3. Typed'
    BY <2>1, <2>2, <1>0, <1>1 DEF Typed
  <2>4. WireOK'
    <3>1. wire.holder # s
      BY <2>1, <1>0 DEF WireOK
    <3> QED BY <3>1, <2>2, <1>0, <1>1 DEF WireOK
  <2>5. ASSUME NEW t \in Streams \ {s} PROVE StreamOK(t)'
    <3>1. poller'[t] = poller[t]
      BY <2>2
    <3> QED BY <3>1, <2>1, <1>0, <1>1, <1>2
        DEF StreamOK, HostOK, ConsoleOK, CallOK, PollerOK, Live
  <2>6. StreamOK(s)'
    <3>1. consoles[s].state \notin {"none", "asked", "starting"}
      BY <2>1, <1>0 DEF StreamOK, ConsoleOK
    <3>2. poller'[s].pc = "sending" => poller'[s].todo # <<>>
      BY <2>1, <2>2, <1>0 DEF Typed, Pollers
    <3> QED BY <3>1, <3>2, <2>1, <2>2, <1>0, <1>1, <1>2
        DEF StreamOK, HostOK, ConsoleOK, CallOK, PollerOK, Live
  <2> QED BY <2>3, <2>4, <2>5, <2>6, <1>2, WholeNext DEF ReachInv
<1>4. CASE PollLeaves(s)
  <2>1. /\ poller[s].pc = "leaving" /\ streamMap' = streamMap \ {s} /\ channel' = channel
        /\ ~Live(s)
    BY <1>0, <1>4 DEF PollLeaves, StreamOK, PollerOK, queues
  <2>2. /\ poller' \in [Streams -> Pollers] /\ poller'[s].pc = "off"
        /\ \A t \in Streams \ {s} : poller'[t] = poller[t]
    BY <1>0, <1>4 DEF PollLeaves, Typed, Pollers
  <2>3. Typed'
    BY <2>1, <2>2, <1>0, <1>1 DEF Typed
  <2>4. WireOK'
    <3>1. wire.holder # s
      BY <2>1, <1>0 DEF WireOK
    <3> QED BY <3>1, <2>2, <1>0, <1>1 DEF WireOK
  <2>5. ASSUME NEW t \in Streams \ {s} PROVE StreamOK(t)'
    <3>1. poller'[t] = poller[t] /\ (t \in streamMap' <=> t \in streamMap)
      BY <2>1, <2>2
    <3> QED BY <3>1, <1>0, <1>1, <1>2
        DEF StreamOK, HostOK, ConsoleOK, CallOK, PollerOK, Live
  <2>6. StreamOK(s)'
    BY <2>1, <2>2, <1>0, <1>1, <1>2
    DEF StreamOK, HostOK, ConsoleOK, CallOK, PollerOK, Live
  <2> QED BY <2>3, <2>4, <2>5, <2>6, <1>2, WholeNext DEF ReachInv
<1> QED BY <1>3, <1>4 DEF Poller

LEMMA RunSendsReach ==
  ASSUME ReachInv, NEW r \in Runs, RunSends(r)
  PROVE  ReachInv'
<1>0. Typed /\ TypeOK /\ WireOK /\ RunOK /\ \A t \in Streams : StreamOK(t)
  BY Whole DEF ReachInv
<1>1. UNCHANGED <<proc, child, wire, busy, poller, streamMap, consoles, dialogs, channel,
                  faults, lost>>
  BY DEF RunSends, host, shell
<1> PICK x : x = [of |-> r, exit |-> runs[r]]
  OBVIOUS
<1>2. x \in Results /\ x.of = r
  BY DEF RunSends, Results
<1>3. results \in Seq(Results) /\ ResultCap \in Nat
  BY <1>0, BoundsAssumption DEF Typed
<1>4. /\ results' \in Seq(Results) /\ Len(results') <= ResultCap
      /\ DOMAIN results' = 1 .. Len(results) + 1 /\ results'[Len(results) + 1] = x
      /\ \A i \in 1 .. Len(results) : results'[i] = results[i]
  BY <1>2, <1>3, AppendFacts DEF RunSends
<1>5. /\ runs' \in [Runs -> Runnings] /\ runs'[r] = "sent"
      /\ \A t \in Runs \ {r} : runs'[t] = runs[t]
  BY <1>0 DEF RunSends, Typed, Runnings
<1>6. runs[r] \in {"exited", "failed"}
  BY DEF RunSends
<1>7. Typed' /\ WireOK'
  BY <1>0, <1>1, <1>4, <1>5, <1>6 DEF Typed, WireOK
<1>8. RunOK'
  <2>1. ASSUME NEW t \in Runs, [op |-> "run", of |-> t] \in dialogs' PROVE runs'[t] = "asked"
    BY <2>1, <1>0, <1>1, <1>5, <1>6 DEF RunOK
  <2>2. ASSUME NEW i \in 1 .. Len(results) + 1 PROVE runs'[results'[i].of] \in {"sent", "shown"}
    <3>1. CASE i = Len(results) + 1
      BY <3>1, <1>2, <1>4, <1>5
    <3>2. CASE i # Len(results) + 1
      <4>1. i \in 1 .. Len(results) /\ DOMAIN results = 1 .. Len(results)
        BY <3>2, <1>3
      <4>2. results[i] \in Results
        BY <4>1, <1>3
      <4>3. results[i].of \in Runs /\ runs[results[i].of] \in {"sent", "shown"}
        BY <4>1, <4>2, <1>0 DEF RunOK, Results
      <4> QED BY <4>1, <4>3, <1>4, <1>5
    <3> QED BY <3>1, <3>2
  <2> QED BY <2>1, <2>2, <1>4 DEF RunOK
<1>9. ASSUME NEW t \in Streams PROVE StreamOK(t)'
  BY <1>0, <1>1 DEF StreamOK, HostOK, ConsoleOK, CallOK, PollerOK, Live, Served, OnLoop
<1> QED BY <1>7, <1>8, <1>9, WholeNext DEF ReachInv

LEMMA HandleResultReach ==
  ASSUME ReachInv, HandleResult
  PROVE  ReachInv'
<1>0. Typed /\ TypeOK /\ WireOK /\ RunOK /\ \A t \in Streams : StreamOK(t)
  BY Whole DEF ReachInv
<1>1. UNCHANGED <<proc, child, wire, busy, poller, streamMap, consoles, dialogs, channel,
                  faults, lost>>
  BY DEF HandleResult, host
<1>2. results \in Seq(Results) /\ results # <<>> /\ ResultCap \in Nat /\ results' = Tail(results)
      /\ Len(results) <= ResultCap
  BY <1>0, BoundsAssumption DEF Typed, HandleResult
<1>3. /\ Head(results) \in Results /\ Head(results) = results[1]
      /\ results' \in Seq(Results) /\ Len(results) \in Nat /\ Len(results) >= 1
      /\ Len(results') = Len(results) - 1
      /\ DOMAIN results = 1 .. Len(results) /\ DOMAIN results' = 1 .. Len(results) - 1
      /\ \A i \in 1 .. Len(results) - 1 : results'[i] = results[i + 1]
  BY <1>2, TailFacts
<1> PICK r \in Runs : r = results[1].of
  BY <1>3 DEF Results
<1>4. runs[r] \in {"sent", "shown"}
  BY <1>0, <1>3 DEF RunOK
<1>5. /\ runs' \in [Runs -> Runnings] /\ runs'[r] = "shown"
      /\ \A t \in Runs \ {r} : runs'[t] = runs[t]
  BY <1>0, <1>3 DEF HandleResult, Typed, Runnings
<1>6. Len(results') <= ResultCap
  BY <1>2, <1>3
<1>7. Typed' /\ WireOK'
  BY <1>0, <1>1, <1>3, <1>4, <1>5, <1>6 DEF Typed, WireOK
<1>8. RunOK'
  <2>1. ASSUME NEW t \in Runs, [op |-> "run", of |-> t] \in dialogs' PROVE runs'[t] = "asked"
    BY <2>1, <1>0, <1>1, <1>4, <1>5 DEF RunOK
  <2>2. ASSUME NEW i \in 1 .. Len(results) - 1 PROVE runs'[results'[i].of] \in {"sent", "shown"}
    <3>1. i + 1 \in DOMAIN results /\ results'[i] = results[i + 1]
      BY <1>3
    <3>2. results[i + 1] \in Results
      BY <3>1, <1>2
    <3>3. results[i + 1].of \in Runs /\ runs[results[i + 1].of] \in {"sent", "shown"}
      BY <3>1, <3>2, <1>0 DEF RunOK, Results
    <3> QED BY <3>1, <3>3, <1>5
  <2> QED BY <2>1, <2>2, <1>3 DEF RunOK
<1>9. ASSUME NEW t \in Streams PROVE StreamOK(t)'
  BY <1>0, <1>1 DEF StreamOK, HostOK, ConsoleOK, CallOK, PollerOK, Live, Served, OnLoop
<1> QED BY <1>7, <1>8, <1>9, WholeNext DEF ReachInv

(* What an event does to its console: the lines grow at their end, and lose  *)
(* at most the oldest.                                                       *)
LEMMA Applying ==
  ASSUME NEW con \in Consoles, NEW e \in ConsoleEvents
  PROVE  Apply(con, e) \in Consoles /\ Apply(con, e).state = con.state
<1>1. CASE con.state # "open"
  BY <1>1 DEF Apply
<1>2. CASE con.state = "open" /\ e.type = "line"
  <2>1. e.line \in Written /\ con.lines \in Seq(Written) /\ con.line_count \in Nat
    BY <1>2 DEF ConsoleEvents, Consoles
  <2> PICK q \in Seq(Written) : q = Append(con.lines, e.line)
    BY <2>1, AppendFacts
  <2>2. Newest(q) \in Seq(Written)
    <3>1. q # <<>>
      BY <2>1, AppendFacts
    <3>2. Tail(q) \in Seq(Written)
      BY <3>1, TailFacts
    <3> QED BY <3>2 DEF Newest
  <2> PICK n \in Nat : n = con.line_count + 1
    BY <2>1
  <2> PICK kept \in Seq(Written) : kept = Newest(q)
    BY <2>2
  <2>3. Apply(con, e) = [con EXCEPT !.lines = kept, !.line_count = n]
    BY <1>2 DEF Apply
  <2> QED BY <2>3 DEF Consoles
<1>3. CASE con.state = "open" /\ e.type # "line"
  <2>1. e.status \in {"exited", "error"}
    BY <1>3 DEF ConsoleEvents
  <2>2. Apply(con, e) = [con EXCEPT !.status = e.status]
    BY <1>3 DEF Apply
  <2> QED BY <2>1, <2>2 DEF Consoles
<1> QED BY <1>1, <1>2, <1>3

LEMMA HandleConsoleReach ==
  ASSUME ReachInv, HandleConsole
  PROVE  ReachInv'
<1>0. Typed /\ TypeOK /\ WireOK /\ RunOK /\ \A t \in Streams : StreamOK(t)
  BY Whole DEF ReachInv
<1>1. UNCHANGED <<proc, child, wire, busy, poller, runs, streamMap, dialogs, results, faults, lost>>
  BY DEF HandleConsole, host, tasks
<1>2. channel \in Seq(ConsoleEvents) /\ channel # <<>> /\ channel' = Tail(channel)
      /\ Len(channel) <= ConsoleCap /\ ConsoleCap \in Nat /\ consoles \in [Streams -> Consoles]
  BY <1>0, BoundsAssumption DEF Typed, HandleConsole
<1>3. /\ Head(channel) \in ConsoleEvents /\ channel' \in Seq(ConsoleEvents)
      /\ Len(channel) \in Nat /\ Len(channel') = Len(channel) - 1
  BY <1>2, TailFacts
<1> PICK s \in Streams : s = Head(channel).of
  BY <1>3 DEF ConsoleEvents
<1> PICK con \in Consoles : con = Apply(consoles[s], Head(channel))
  BY <1>2, <1>3, Applying
<1>4. con.state = consoles[s].state
  BY <1>2, <1>3, Applying
<1>5. consoles' = [consoles EXCEPT ![s] = con]
  BY DEF HandleConsole
<1>6. /\ consoles' \in [Streams -> Consoles]
      /\ \A t \in Streams : consoles'[t].state = consoles[t].state
  BY <1>2, <1>4, <1>5
<1>7. Len(channel') <= ConsoleCap
  BY <1>2, <1>3
<1>8. Typed' /\ WireOK' /\ RunOK'
  BY <1>0, <1>1, <1>3, <1>6, <1>7 DEF Typed, WireOK, RunOK
<1>9. ASSUME NEW t \in Streams PROVE StreamOK(t)'
  BY <1>0, <1>1, <1>6 DEF StreamOK, HostOK, ConsoleOK, CallOK, PollerOK, Live, Served, OnLoop
<1> QED BY <1>8, <1>9, WholeNext DEF ReachInv

-----------------------------------------------------------------------------
(* The answers that arrive, and the connections and bridges that break.      *)

LEMMA ReturnReach ==
  ASSUME ReachInv, Return
  PROVE  ReachInv'
<1>0. Typed /\ TypeOK /\ WireOK
  BY Whole DEF ReachInv
<1>1. UNCHANGED <<proc, child, faults, lost>> /\ wire.stage = "answered"
  BY DEF Return, host
<1>2. ProcCalm
  BY <1>0, <1>1, StillCalm
<1>3. wire.holder # None
  BY <1>0, <1>1 DEF WireOK
<1>4. Gives(wire.holder, wire.answer) /\ Delivered(wire.answer)
  BY <1>1 DEF Return, Delivered
<1>5. lost' \subseteq Streams /\ faults' \in 0..MaxFaults /\ child' = child
  BY <1>0, <1>1 DEF Typed
<1> QED BY <1>2, <1>3, <1>4, <1>5, GivesOK

(* A caller that gets nothing has its stream among the lost.                 *)
LEMMA ForgetFacts ==
  ASSUME TypeOK, WireOK, Forget(wire.holder)
  PROVE  /\ lost \subseteq lost' /\ lost' \subseteq Streams
         /\ wire.holder = Loop => busy.of \in lost'
<1>1. lost \subseteq Streams
  BY DEF TypeOK
<1>2. wire.holder = Loop => busy \in Calls
  BY Parts DEF WireOK
<1> QED BY <1>1, <1>2 DEF Forget, Calls

LEMMA OneFaultMore ==
  ASSUME TypeOK, faults < MaxFaults, faults' = faults + 1
  PROVE  faults' \in 0..MaxFaults
BY BoundsAssumption DEF TypeOK

LEMMA BreakReach ==
  ASSUME ReachInv, Break
  PROVE  ReachInv'
<1>0. TypeOK /\ WireOK
  BY DEF ReachInv
<1>1. /\ UNCHANGED <<proc, child>> /\ wire.holder # None
      /\ Forget(wire.holder) /\ Gives(wire.holder, Bad)
  BY DEF Break, host
<1>2. /\ lost \subseteq lost' /\ lost' \subseteq Streams
      /\ wire.holder = Loop => busy.of \in lost'
  BY <1>0, <1>1, ForgetFacts
<1>3. ProcCalm
  BY <1>0, <1>1, <1>2, Parts DEF ProcCalm
<1>4. faults' \in 0..MaxFaults
  BY <1>0, OneFaultMore DEF Break
<1> QED BY <1>1, <1>2, <1>3, <1>4, GivesOK DEF Delivered

(* A restart leaves every stream without an entry; one that still runs is    *)
(* among the lost.                                                           *)
Uprooted(t) ==
  /\ proc'[t].entry = FALSE
  /\ \/ proc'[t] = proc[t]
     \/ proc[t].entry /\ proc'[t].state = "ended"
     \/ proc[t].entry /\ proc[t].state = "running" /\ proc'[t].state = "running" /\ t \in lost'

LEMMA RestartDoes ==
  ASSUME TypeOK, WireOK, BridgeRestarts
  PROVE  /\ proc' \in [Streams -> Procs]
         /\ lost \subseteq lost' /\ lost' \subseteq Streams
         /\ wire.holder = Loop => busy.of \in lost'
         /\ \A t \in Streams : Uprooted(t)
<1>1. proc \in [Streams -> Procs]
  BY Parts
<1>2. PICK kept \in SUBSET Registered :
        /\ proc' = [s \in Streams |-> Swept(proc[s], s \in kept)]
        /\ lost' = lost \cup kept \cup (IF wire.holder = Loop THEN {busy.of} ELSE {})
  BY DEF BridgeRestarts
<1>3. /\ lost \subseteq lost' /\ lost' \subseteq Streams
      /\ wire.holder = Loop => busy.of \in lost'
  <2>1. lost \subseteq Streams /\ kept \subseteq Streams
    BY <1>2 DEF TypeOK, Registered
  <2>2. wire.holder = Loop => busy.of \in Streams
    BY Parts DEF WireOK, Calls
  <2> QED BY <1>2, <2>1, <2>2
<1>4. ASSUME NEW t \in Streams PROVE proc'[t] \in Procs /\ Uprooted(t)
  <2>1. proc[t] \in Procs /\ <<>> \in Seq(Written)
    BY <1>1
  <2>2. proc'[t] = Swept(proc[t], t \in kept)
    BY <1>2
  <2>3. CASE proc[t].entry /\ t \in kept
    <3> PICK p : p = [proc[t] EXCEPT !.entry = FALSE, !.pending = <<>>, !.state = proc[t].state]
      OBVIOUS
    <3>1. p \in Procs /\ p.state = proc[t].state /\ p.entry = FALSE
      BY <2>1 DEF Procs
    <3>2. proc'[t] = p
      BY <2>3, <2>2 DEF Swept
    <3>3. proc[t].state = "running" /\ t \in lost'
      BY <1>2, <2>3 DEF Registered
    <3> QED BY <3>1, <3>2, <3>3, <2>3 DEF Uprooted
  <2>4. CASE proc[t].entry /\ t \notin kept
    <3> PICK p : p = [proc[t] EXCEPT !.entry = FALSE, !.pending = <<>>, !.state = "ended"]
      OBVIOUS
    <3>1. p \in Procs /\ p.state = "ended" /\ p.entry = FALSE
      BY <2>1 DEF Procs
    <3>2. proc'[t] = p
      BY <2>4, <2>2 DEF Swept
    <3> QED BY <3>1, <3>2, <2>4 DEF Uprooted
  <2>5. CASE ~proc[t].entry
    <3>1. proc'[t] = proc[t]
      BY <2>5, <2>2 DEF Swept
    <3>2. proc[t].entry \in BOOLEAN
      BY <2>1 DEF Procs
    <3> QED BY <3>1, <3>2, <2>1, <2>5 DEF Uprooted
  <2> QED BY <2>3, <2>4, <2>5
<1>5. /\ DOMAIN proc' = Streams
      /\ proc' = [t \in DOMAIN proc' |-> proc'[t]]
  BY <1>2
<1> QED BY <1>3, <1>4, <1>5

LEMMA RestartReach ==
  ASSUME ReachInv, BridgeRestarts
  PROVE  ReachInv'
<1>0. Typed /\ TypeOK /\ WireOK /\ RunOK /\ \A t \in Streams : StreamOK(t)
  BY Whole DEF ReachInv
<1>1. /\ proc' \in [Streams -> Procs]
      /\ lost \subseteq lost' /\ lost' \subseteq Streams
      /\ wire.holder = Loop => busy.of \in lost'
      /\ \A t \in Streams : Uprooted(t)
  BY <1>0, RestartDoes
<1>2. ProcCalm
  <2>1. ASSUME NEW t \in Streams PROVE proc[t].entry => proc[t].state # "none"
    BY <1>0 DEF StreamOK, HostOK
  <2> QED BY <2>1, <1>1 DEF ProcCalm, Uprooted
<1>3. child' = child /\ faults' \in 0..MaxFaults
  BY <1>0, OneFaultMore DEF BridgeRestarts
<1>4. CASE wire.holder = None
  <2>1. UNCHANGED <<wire, busy, poller, runs, streamMap, consoles, dialogs, channel, results>>
    BY <1>4 DEF BridgeRestarts, tasks, shell, queues
  <2>2. Typed' /\ WireOK' /\ RunOK'
    BY <1>0, <1>1, <1>3, <2>1 DEF Typed, WireOK, RunOK
  <2>3. ASSUME NEW t \in Streams PROVE StreamOK(t)'
    <3>1. ~Touched(t)
      BY <2>1 DEF Touched, OnLoop
    <3> QED BY <3>1, <1>0, <1>2, <2>1, Untouched
  <2> QED BY <2>2, <2>3, WholeNext DEF ReachInv
<1>5. CASE wire.holder # None
  <2>1. Gives(wire.holder, Bad)
    BY <1>5 DEF BridgeRestarts
  <2> QED BY <1>1, <1>2, <1>3, <1>5, <2>1, GivesOK DEF Delivered
<1> QED BY <1>4, <1>5

LEMMA ReachStep ==
  ASSUME ReachInv, [Next]_vars
  PROVE  ReachInv'
<1>1. CASE UNCHANGED vars
  <2>1. UNCHANGED <<proc, child, wire, busy, poller, runs, streamMap, consoles, runner, dialogs,
                    channel, results, faults, lost>>
    BY <1>1 DEF vars, host, tasks, shell, queues
  <2>2. Typed /\ WireOK /\ RunOK /\ \A t \in Streams : StreamOK(t)
    BY Whole DEF ReachInv
  <2>3. Typed' /\ WireOK' /\ RunOK'
    BY <2>1, <2>2 DEF Typed, WireOK, RunOK
  <2>4. ASSUME NEW t \in Streams PROVE StreamOK(t)'
    BY <2>1, <2>2 DEF StreamOK, HostOK, ConsoleOK, CallOK, PollerOK, Live, Served, OnLoop
  <2> QED BY <2>3, <2>4, WholeNext DEF ReachInv
<1>2. ASSUME NEW r \in Runs, Run(r) \/ ChildSteps(r) \/ RunSends(r)
      PROVE  ReachInv'
  BY <1>2, RunReach, ChildReach, RunSendsReach
<1>3. ASSUME NEW s \in Streams,
             RunStreamed(s) \/ Terminate(s) \/ Close(s) \/ Ends(s) \/ Poller(s)
      PROVE  ReachInv'
  BY <1>3, RunStreamedReach, TerminateReach, CloseReach, EndsReach, PollReach
<1>4. ASSUME NEW s \in Streams, NEW k \in Kinds, Reads(s, k) PROVE ReachInv'
  BY <1>4, ReadsReach
<1>5. ASSUME NEW d \in dialogs, Respond(d) PROVE ReachInv'
  BY <1>5, RespondReach
<1>6. ASSUME NEW c \in Callers, Take(c) PROVE ReachInv'
  BY <1>6, TakeReach
<1>7. CASE Serve \/ Return \/ Break \/ BridgeRestarts \/ HandleResult \/ HandleConsole
  BY <1>7, ServeReach, ReturnReach, BreakReach, RestartReach, HandleResultReach, HandleConsoleReach
<1> QED BY <1>1, <1>2, <1>3, <1>4, <1>5, <1>6, <1>7 DEF Next, ChildSteps

LEMMA ReachKillable ==
  ASSUME ReachInv
  PROVE  Killable
<1>1. TypeOK
  BY DEF ReachInv
<1>2. ASSUME NEW s \in Streams, proc[s].state = "running"
      PROVE  \/ s \in streamMap /\ consoles[s].state = "open" /\ proc[s].entry
             \/ ~Free /\ busy.of = s
             \/ s \in lost
  BY <1>2 DEF ReachInv, StreamOK, HostOK, ConsoleOK, Live, OnLoop, Free
<1> QED BY <1>1, <1>2 DEF Killable

\* Whatever number of streams and runs there is and however large the channels
\* are, a process that runs on the host can be stopped from its console, or
\* the loop is starting or stopping it, or its own start or kill went wrong.
\* (STREAM_MAP against REGISTRY: the polling task, kill_console_stream,
\* handle_close)
THEOREM KillableCorrect == Spec => []Killable
<1>1. Init => ReachInv
  BY InitReach
<1>2. ReachInv /\ [Next]_vars => ReachInv'
  BY ReachStep
<1>3. ReachInv => Killable
  BY ReachKillable
<1> QED BY <1>1, <1>2, <1>3, PTL DEF Spec

-----------------------------------------------------------------------------
(* The way of the lines of the stream s on the pipe k, from the bridge to    *)
(* the console: pending, answer, todo, channel, console.  NumOf is the       *)
(* number of such a line, and 0 for whatever is none.                        *)

LineNum(l, k) == IF l[1] = k THEN l[2] ELSE 0
NumOf(e, s, k) == IF e.of = s /\ e.type = "line" THEN LineNum(e.line, k) ELSE 0
LineNums(q, k) == [i \in DOMAIN q |-> LineNum(q[i], k)]
Nums(q, s, k) == [i \in DOMAIN q |-> NumOf(q[i], s, k)]

\* But for zeros, f counts from a + 1 to b.
Upto(f, a, b) ==
    /\ a <= b
    /\ \A i \in DOMAIN f : f[i] # 0 =>
          /\ f[i] \in (a + 1)..b
          /\ \A j \in DOMAIN f : i < j /\ f[j] # 0 => f[i] < f[j]
    /\ \A n \in (a + 1)..b : \E i \in DOMAIN f : f[i] = n

\* What the console shows, and what is on its way, joins up: the channel ends
\* at c, the task's events start there, and so on.
Shown(con, k, b) ==
    \E a \in 0..MaxLines :
        Upto(LineNums(con.lines, k), a, b) /\ (con.line_count <= RingMax => a = 0)
Front(con, chan, s, k, c) ==
    \E b \in 0..MaxLines :
        Upto(Nums(chan, s, k), b, c) /\ (con.state # "closed" => Shown(con, k, b))
\* The bridge still has the rest, if its task will ask again and the stream
\* has an entry.
Back(on, ans, reg, p, k, d) ==
    on => \E b \in 0..MaxLines :
        Upto(LineNums(ans, k), d, b) /\ (reg => Upto(LineNums(p.pending, k), b, p.read[k]))

Asks(s) ==
    \/ poller[s].pc = "due" \/ (poller[s].pc = "sending" /\ poller[s].then = "due")
    \/ consoles[s].state = "starting"
Ans(s) == IF wire.holder = s /\ wire.stage = "answered" THEN wire.answer.lines ELSE <<>>

FlowOK(s, k) ==
    \E c, d \in 0..MaxLines :
        /\ Front(consoles[s], channel, s, k, c)
        /\ Upto(Nums(poller[s].todo, s, k), c, d)
        /\ Back(Asks(s), Ans(s), proc[s].entry, proc[s], k, d)
        /\ consoles[s].state \notin {"open", "closed"} => d = 0

Tidy(s) ==
    /\ proc[s].state = "none" => proc[s].pending = <<>> /\ \A k \in Kinds : proc[s].read[k] = 0
    /\ consoles[s].state # "open" => consoles[s].lines = <<>> /\ consoles[s].line_count = 0
    /\ Len(consoles[s].lines) <= consoles[s].line_count
    /\ poller[s].pc # "sending" => poller[s].todo = <<>>
    /\ \A i \in DOMAIN poller[s].todo : poller[s].todo[i].of = s
    /\ consoles[s].state = "failed" => poller[s].pc = "off"

GapInv == ReachInv /\ \A s \in Streams : Tidy(s) /\ \A k \in Kinds : FlowOK(s, k)

LEMMA Zeros ==
  ASSUME NEW f, NEW a \in Nat, NEW b \in Nat, \A i \in DOMAIN f : f[i] = 0
  PROVE  Upto(f, a, a) /\ (Upto(f, a, b) => a = b)
<1>1. Upto(f, a, a)
  BY DEF Upto
<1>2. ASSUME Upto(f, a, b), a # b PROVE FALSE
  <2>1. a + 1 \in (a + 1)..b
    BY <1>2 DEF Upto
  <2>2. \E i \in DOMAIN f : f[i] = a + 1
    BY <2>1, <1>2 DEF Upto
  <2> QED BY <2>2
<1> QED BY <1>1, <1>2

LEMMA UptoGrows ==
  ASSUME NEW f, NEW g, NEW m \in Nat, NEW a \in Nat, NEW b \in Nat, Upto(f, a, b),
         DOMAIN f = 1..m, DOMAIN g = 1..(m + 1), \A i \in 1..m : g[i] = f[i]
  PROVE  /\ g[m + 1] = 0 => Upto(g, a, b)
         /\ g[m + 1] = b + 1 => Upto(g, a, b + 1)
<1>1. /\ a <= b
      /\ \A i \in 1..m : f[i] # 0 =>
           /\ f[i] \in (a + 1)..b
           /\ \A j \in 1..m : i < j /\ f[j] # 0 => f[i] < f[j]
      /\ \A n \in (a + 1)..b : \E i \in 1..m : f[i] = n
  BY DEF Upto
<1>2. ASSUME g[m + 1] = 0 PROVE Upto(g, a, b)
  <2>1. ASSUME NEW i \in 1..(m + 1), g[i] # 0
        PROVE  /\ g[i] \in (a + 1)..b
               /\ \A j \in 1..(m + 1) : i < j /\ g[j] # 0 => g[i] < g[j]
    <3>1. i \in 1..m /\ f[i] # 0
      BY <2>1, <1>2
    <3>2. ASSUME NEW j \in 1..(m + 1), i < j, g[j] # 0 PROVE g[i] < g[j]
      <4>1. j \in 1..m /\ f[j] # 0
        BY <3>2, <1>2
      <4> QED BY <4>1, <3>1, <3>2, <1>1
    <3> QED BY <3>1, <3>2, <1>1
  <2>2. ASSUME NEW n \in (a + 1)..b PROVE \E i \in 1..(m + 1) : g[i] = n
    <3>1. PICK i \in 1..m : f[i] = n
      BY <1>1
    <3>2. i \in 1..(m + 1) /\ g[i] = n
      BY <3>1
    <3> QED BY <3>2
  <2> QED BY <2>1, <2>2, <1>1 DEF Upto
<1>3. ASSUME g[m + 1] = b + 1 PROVE Upto(g, a, b + 1)
  <2>1. ASSUME NEW i \in 1..(m + 1), g[i] # 0
        PROVE  /\ g[i] \in (a + 1)..(b + 1)
               /\ \A j \in 1..(m + 1) : i < j /\ g[j] # 0 => g[i] < g[j]
    <3>1. CASE i = m + 1
      BY <3>1, <1>1, <1>3
    <3>2. CASE i # m + 1
      <4>1. i \in 1..m /\ f[i] # 0 /\ g[i] = f[i]
        BY <3>2, <2>1
      <4>2. f[i] \in (a + 1)..b
        BY <4>1, <1>1
      <4>3. ASSUME NEW j \in 1..(m + 1), i < j, g[j] # 0 PROVE g[i] < g[j]
        <5>1. CASE j = m + 1
          BY <5>1, <4>1, <4>2, <1>3
        <5>2. CASE j # m + 1
          <6>1. j \in 1..m /\ f[j] # 0 /\ g[j] = f[j]
            BY <5>2, <4>3
          <6> QED BY <6>1, <4>1, <4>3, <1>1
        <5> QED BY <5>1, <5>2
      <4> QED BY <4>1, <4>2, <4>3
    <3> QED BY <3>1, <3>2
  <2>2. ASSUME NEW n \in (a + 1)..(b + 1) PROVE \E i \in 1..(m + 1) : g[i] = n
    <3>1. CASE n = b + 1
      <4>1. m + 1 \in 1..(m + 1)
        OBVIOUS
      <4> QED BY <3>1, <4>1, <1>3
    <3>2. CASE n # b + 1
      <4>1. n \in (a + 1)..b
        BY <3>2
      <4>2. PICK i \in 1..m : f[i] = n
        BY <4>1, <1>1
      <4>3. i \in 1..(m + 1) /\ g[i] = n
        BY <4>2
      <4> QED BY <4>3
    <3> QED BY <3>1, <3>2
  <2>3. a <= b + 1
    BY <1>1
  <2> QED BY <2>1, <2>2, <2>3 DEF Upto
<1> QED BY <1>2, <1>3

LEMMA UptoShrinks ==
  ASSUME NEW f, NEW g, NEW m \in Nat, NEW a \in Nat, NEW b \in Nat, Upto(f, a, b), m >= 1,
         DOMAIN f = 1..m, DOMAIN g = 1..(m - 1), \A i \in 1..(m - 1) : g[i] = f[i + 1]
  PROVE  /\ f[1] = 0 => Upto(g, a, b)
         /\ f[1] # 0 => f[1] = a + 1 /\ a + 1 <= b /\ Upto(g, a + 1, b)
<1>1. /\ a <= b
      /\ \A i \in 1..m : f[i] # 0 =>
           /\ f[i] \in (a + 1)..b
           /\ \A j \in 1..m : i < j /\ f[j] # 0 => f[i] < f[j]
      /\ \A n \in (a + 1)..b : \E i \in 1..m : f[i] = n
  BY DEF Upto
<1>2. ASSUME NEW i \in 1..(m - 1) PROVE i + 1 \in 1..m /\ g[i] = f[i + 1]
  OBVIOUS
<1>3. ASSUME NEW i \in 1..(m - 1), g[i] # 0
      PROVE  /\ g[i] \in (a + 1)..b
             /\ \A j \in 1..(m - 1) : i < j /\ g[j] # 0 => g[i] < g[j]
  <2>1. ASSUME NEW j \in 1..(m - 1), i < j, g[j] # 0 PROVE g[i] < g[j]
    <3>1. i + 1 < j + 1
      BY <2>1
    <3> QED BY <3>1, <2>1, <1>1, <1>2, <1>3
  <2> QED BY <2>1, <1>1, <1>2, <1>3
<1>4. ASSUME f[1] = 0 PROVE Upto(g, a, b)
  <2>1. ASSUME NEW n \in (a + 1)..b PROVE \E i \in 1..(m - 1) : g[i] = n
    <3>1. PICK i \in 1..m : f[i] = n
      BY <1>1
    <3>2. i # 1
      BY <3>1, <1>4
    <3>3. i - 1 \in 1..(m - 1) /\ (i - 1) + 1 = i
      BY <3>2
    <3>4. g[i - 1] = n
      BY <3>1, <3>3, <1>2
    <3> QED BY <3>3, <3>4
  <2> QED BY <2>1, <1>1, <1>3 DEF Upto
<1>5. ASSUME f[1] # 0 PROVE f[1] = a + 1 /\ a + 1 <= b /\ Upto(g, a + 1, b)
  <2>1. 1 \in 1..m /\ f[1] \in (a + 1)..b
    BY <1>1, <1>5
  <2>2. f[1] = a + 1
    <3>1. a + 1 \in (a + 1)..b
      BY <2>1
    <3>2. PICK i \in 1..m : f[i] = a + 1
      BY <3>1, <1>1
    <3>3. CASE i = 1
      BY <3>2, <3>3
    <3>4. CASE i # 1
      <4>1. 1 < i /\ f[i] # 0
        BY <3>2, <3>4
      <4>2. f[1] < f[i]
        BY <4>1, <2>1, <1>1, <1>5
      <4> QED BY <4>2, <3>2, <2>1
    <3> QED BY <3>3, <3>4
  <2>3. ASSUME NEW i \in 1..(m - 1), g[i] # 0 PROVE g[i] \in (a + 2)..b
    <3>1. f[1] < f[i + 1]
      <4>1. 1 < i + 1 /\ i + 1 \in 1..m /\ f[i + 1] # 0
        BY <2>3, <1>2
      <4> QED BY <4>1, <2>1, <1>1, <1>5
    <3> QED BY <3>1, <2>2, <2>3, <1>2, <1>3
  <2>4. ASSUME NEW n \in (a + 2)..b PROVE \E i \in 1..(m - 1) : g[i] = n
    <3>1. n \in (a + 1)..b
      OBVIOUS
    <3>2. PICK i \in 1..m : f[i] = n
      BY <3>1, <1>1
    <3>3. i # 1
      BY <3>2, <2>2
    <3>4. i - 1 \in 1..(m - 1) /\ (i - 1) + 1 = i
      BY <3>3
    <3>5. g[i - 1] = n
      BY <3>2, <3>4, <1>2
    <3> QED BY <3>4, <3>5
  <2>5. a + 1 <= b /\ (a + 1) + 1 = a + 2
    BY <2>1
  <2>6. Upto(g, a + 1, b)
    BY <2>3, <2>4, <2>5, <1>3 DEF Upto
  <2> QED BY <2>2, <2>5, <2>6
<1> QED BY <1>4, <1>5

LEMMA Numbers ==
  ASSUME NEW k \in Kinds, NEW l \in Written
  PROVE  /\ LineNum(l, k) \in 0..MaxLines
         /\ l = <<"notice", 0>> => LineNum(l, k) = 0
<1>1. CASE l \in Kinds \X (1..MaxLines)
  <2>1. l[1] \in Kinds /\ l[2] \in 1..MaxLines
    BY <1>1
  <2>2. LineNum(l, k) \in 0..MaxLines
    BY <2>1, BoundsAssumption DEF LineNum
  <2>3. l # <<"notice", 0>>
    BY <2>1, KindsAssumption
  <2> QED BY <2>2, <2>3
<1>2. CASE l = <<"notice", 0>>
  <2>1. l[1] # k
    BY <1>2, KindsAssumption
  <2> QED BY <2>1, BoundsAssumption DEF LineNum
<1> QED BY <1>1, <1>2 DEF Written

LEMMA LinesGrow ==
  ASSUME NEW k \in Kinds, NEW q \in Seq(Written), NEW l \in Written, NEW a \in Nat, NEW b \in Nat,
         Upto(LineNums(q, k), a, b)
  PROVE  /\ LineNum(l, k) = 0 => Upto(LineNums(Append(q, l), k), a, b)
         /\ LineNum(l, k) = b + 1 => Upto(LineNums(Append(q, l), k), a, b + 1)
<1> PICK r \in Seq(Written) : r = Append(q, l)
  BY AppendFacts
<1>1. /\ DOMAIN r = 1..(Len(q) + 1) /\ r[Len(q) + 1] = l /\ Len(q) \in Nat
      /\ \A i \in 1..Len(q) : r[i] = q[i]
      /\ DOMAIN q = 1..Len(q)
  BY AppendFacts
<1> DEFINE f == LineNums(q, k)
<1> DEFINE g == LineNums(r, k)
<1>2. /\ DOMAIN f = 1..Len(q) /\ DOMAIN g = 1..(Len(q) + 1) /\ g[Len(q) + 1] = LineNum(l, k)
      /\ \A i \in 1..Len(q) : g[i] = f[i]
  BY <1>1 DEF LineNums
<1> HIDE DEF f, g
<1>3. Upto(f, a, b)
  BY DEF f
<1>4. (g[Len(q) + 1] = 0 => Upto(g, a, b)) /\ (g[Len(q) + 1] = b + 1 => Upto(g, a, b + 1))
  BY <1>1, <1>2, <1>3, UptoGrows
<1> QED BY <1>2, <1>4 DEF g

LEMMA LinesShrink ==
  ASSUME NEW k \in Kinds, NEW q \in Seq(Written), q # <<>>, NEW a \in Nat, NEW b \in Nat,
         Upto(LineNums(q, k), a, b)
  PROVE  \/ Upto(LineNums(Tail(q), k), a, b)
         \/ a + 1 <= b /\ Upto(LineNums(Tail(q), k), a + 1, b)
<1> PICK r \in Seq(Written) : r = Tail(q)
  BY TailFacts
<1>1. /\ DOMAIN q = 1..Len(q) /\ DOMAIN r = 1..(Len(q) - 1) /\ Len(q) \in Nat /\ Len(q) >= 1
      /\ \A i \in 1..(Len(q) - 1) : r[i] = q[i + 1]
  BY TailFacts
<1> DEFINE f == LineNums(q, k)
<1> DEFINE g == LineNums(r, k)
<1>2. /\ DOMAIN f = 1..Len(q) /\ DOMAIN g = 1..(Len(q) - 1)
      /\ \A i \in 1..(Len(q) - 1) : g[i] = f[i + 1]
  BY <1>1 DEF LineNums
<1> HIDE DEF f, g
<1>3. Upto(f, a, b)
  BY DEF f
<1>4. /\ f[1] = 0 => Upto(g, a, b)
      /\ f[1] # 0 => f[1] = a + 1 /\ a + 1 <= b /\ Upto(g, a + 1, b)
  BY <1>1, <1>2, <1>3, UptoShrinks
<1> QED BY <1>4 DEF g

LEMMA EventsGrow ==
  ASSUME NEW s \in Streams, NEW k \in Kinds, NEW q \in Seq(ConsoleEvents), NEW e \in ConsoleEvents,
         NEW a \in Nat, NEW b \in Nat, Upto(Nums(q, s, k), a, b)
  PROVE  /\ NumOf(e, s, k) = 0 => Upto(Nums(Append(q, e), s, k), a, b)
         /\ NumOf(e, s, k) = b + 1 => Upto(Nums(Append(q, e), s, k), a, b + 1)
<1> PICK r \in Seq(ConsoleEvents) : r = Append(q, e)
  BY AppendFacts
<1>1. /\ DOMAIN r = 1..(Len(q) + 1) /\ r[Len(q) + 1] = e /\ Len(q) \in Nat
      /\ \A i \in 1..Len(q) : r[i] = q[i]
      /\ DOMAIN q = 1..Len(q)
  BY AppendFacts
<1> DEFINE f == Nums(q, s, k)
<1> DEFINE g == Nums(r, s, k)
<1>2. /\ DOMAIN f = 1..Len(q) /\ DOMAIN g = 1..(Len(q) + 1) /\ g[Len(q) + 1] = NumOf(e, s, k)
      /\ \A i \in 1..Len(q) : g[i] = f[i]
  BY <1>1 DEF Nums
<1> HIDE DEF f, g
<1>3. Upto(f, a, b)
  BY DEF f
<1>4. (g[Len(q) + 1] = 0 => Upto(g, a, b)) /\ (g[Len(q) + 1] = b + 1 => Upto(g, a, b + 1))
  BY <1>1, <1>2, <1>3, UptoGrows
<1> QED BY <1>2, <1>4 DEF g

LEMMA EventsShrink ==
  ASSUME NEW s \in Streams, NEW k \in Kinds, NEW q \in Seq(ConsoleEvents), q # <<>>,
         NEW a \in Nat, NEW b \in Nat, Upto(Nums(q, s, k), a, b)
  PROVE  /\ NumOf(Head(q), s, k) = 0 => Upto(Nums(Tail(q), s, k), a, b)
         /\ NumOf(Head(q), s, k) # 0 => /\ NumOf(Head(q), s, k) = a + 1 /\ a + 1 <= b
                                        /\ Upto(Nums(Tail(q), s, k), a + 1, b)
<1> PICK r \in Seq(ConsoleEvents) : r = Tail(q)
  BY TailFacts
<1> PICK e \in ConsoleEvents : e = Head(q)
  BY TailFacts
<1>1. /\ DOMAIN q = 1..Len(q) /\ DOMAIN r = 1..(Len(q) - 1) /\ Len(q) \in Nat /\ Len(q) >= 1
      /\ \A i \in 1..(Len(q) - 1) : r[i] = q[i + 1]
      /\ e = q[1]
  BY TailFacts
<1> DEFINE f == Nums(q, s, k)
<1> DEFINE g == Nums(r, s, k)
<1>2. /\ DOMAIN f = 1..Len(q) /\ DOMAIN g = 1..(Len(q) - 1) /\ f[1] = NumOf(e, s, k)
      /\ \A i \in 1..(Len(q) - 1) : g[i] = f[i + 1]
  BY <1>1 DEF Nums
<1> HIDE DEF f, g
<1>3. Upto(f, a, b)
  BY DEF f
<1>4. /\ f[1] = 0 => Upto(g, a, b)
      /\ f[1] # 0 => f[1] = a + 1 /\ a + 1 <= b /\ Upto(g, a + 1, b)
  BY <1>1, <1>2, <1>3, UptoShrinks
<1> QED BY <1>2, <1>4 DEF g

LEMMA NoLines ==
  ASSUME NEW k, NEW a \in Nat
  PROVE  /\ Upto(LineNums(<<>>, k), a, a)
         /\ \A b \in Nat : Upto(LineNums(<<>>, k), a, b) => a = b
<1>1. \A i \in DOMAIN LineNums(<<>>, k) : LineNums(<<>>, k)[i] = 0
  BY DEF LineNums
<1> QED BY <1>1, Zeros

LEMMA NoEvents ==
  ASSUME NEW s, NEW k, NEW a \in Nat
  PROVE  /\ Upto(Nums(<<>>, s, k), a, a)
         /\ \A b \in Nat : Upto(Nums(<<>>, s, k), a, b) => a = b
<1>1. \A i \in DOMAIN Nums(<<>>, s, k) : Nums(<<>>, s, k)[i] = 0
  BY DEF Nums
<1> QED BY <1>1, Zeros

(* Events of other streams, exits and notices are no lines of s on k.        *)
LEMMA EventNumbers ==
  ASSUME NEW s \in Streams, NEW k \in Kinds
  PROVE  /\ \A l : NumOf(Line(s, l), s, k) = LineNum(l, k)
         /\ \A x : NumOf(Exit(s, x), s, k) = 0
         /\ \A e : e.of # s => NumOf(e, s, k) = 0
         /\ NumOf(Line(s, <<"notice", 0>>), s, k) = 0
<1>1. LineNum(<<"notice", 0>>, k) = 0
  BY KindsAssumption DEF LineNum
<1> QED BY <1>1 DEF NumOf, Line, Exit

LEMMA EventsOfLines ==
  ASSUME NEW s \in Streams, NEW k \in Kinds, NEW lines \in Seq(Written), NEW a \in Nat, NEW b \in Nat,
         Upto(LineNums(lines, k), a, b)
  PROVE  Upto(Nums(LinesOf(s, lines), s, k), a, b)
<1> DEFINE f == LineNums(lines, k)
<1> DEFINE g == Nums(LinesOf(s, lines), s, k)
<1>1. DOMAIN g = DOMAIN f /\ \A i \in DOMAIN f : g[i] = f[i]
  BY EventNumbers DEF LineNums, Nums, LinesOf
<1> HIDE DEF f, g
<1>2. Upto(f, a, b)
  BY DEF f
<1>3. Upto(g, a, b)
  BY <1>1, <1>2 DEF Upto
<1> QED BY <1>3 DEF g

-----------------------------------------------------------------------------
(* Where nothing is added for s, what joined up goes on joining up.          *)
Still(s) ==
  /\ channel' = channel /\ poller'[s].todo = poller[s].todo
  /\ \/ consoles'[s].state = "closed"
     \/ /\ consoles[s].state # "closed"
        /\ consoles'[s].lines = consoles[s].lines
        /\ consoles'[s].line_count = consoles[s].line_count
  /\ consoles'[s].state \notin {"open", "closed"} => consoles[s].state \notin {"open", "closed"}
  /\ Asks(s)' =>
       /\ Asks(s) /\ Ans(s)' = Ans(s)
       /\ proc'[s].entry => /\ proc[s].entry /\ proc'[s].pending = proc[s].pending
                            /\ proc'[s].read = proc[s].read

LEMMA FrontStill ==
  ASSUME NEW x, NEW y, NEW chan, NEW s, NEW k, NEW c, Front(x, chan, s, k, c),
         \/ y.state = "closed"
         \/ x.state # "closed" /\ y.lines = x.lines /\ y.line_count = x.line_count
  PROVE  Front(y, chan, s, k, c)
BY DEF Front, Shown

LEMMA FlowStill ==
  ASSUME NEW s \in Streams, NEW k \in Kinds, FlowOK(s, k), Still(s)
  PROVE  FlowOK(s, k)'
<1>1. PICK c \in 0..MaxLines, d \in 0..MaxLines :
         /\ Front(consoles[s], channel, s, k, c)
         /\ Upto(Nums(poller[s].todo, s, k), c, d)
         /\ Back(Asks(s), Ans(s), proc[s].entry, proc[s], k, d)
         /\ consoles[s].state \notin {"open", "closed"} => d = 0
  BY DEF FlowOK
<1>2. Front(consoles'[s], channel', s, k, c)
  BY <1>1, FrontStill DEF Still
<1>3. Upto(Nums(poller'[s].todo, s, k), c, d)
  BY <1>1 DEF Still
<1>4. Back(Asks(s)', Ans(s)', proc'[s].entry, proc'[s], k, d)
  BY <1>1 DEF Still, Back
<1>5. consoles'[s].state \notin {"open", "closed"} => d = 0
  BY <1>1 DEF Still
<1> QED BY <1>2, <1>3, <1>4, <1>5 DEF FlowOK

(* Of a stream that nothing happens to.                                      *)
LEMMA FlowQuiet ==
  ASSUME GapInv, NEW t \in Streams, channel' = channel, proc'[t] = proc[t], poller'[t] = poller[t],
         consoles'[t] = consoles[t], Asks(t)' => Ans(t)' = Ans(t)
  PROVE  Tidy(t)' /\ \A k \in Kinds : FlowOK(t, k)'
<1>1. Tidy(t) /\ \A k \in Kinds : FlowOK(t, k)
  BY DEF GapInv
<1>2. Tidy(t)'
  BY <1>1 DEF Tidy
<1>3. ASSUME NEW k \in Kinds PROVE FlowOK(t, k)'
  <2>1. Asks(t)' <=> Asks(t)
    BY DEF Asks
  <2>2. CASE consoles[t].state # "closed"
    <3>1. Still(t)
      BY <2>1, <2>2 DEF Still
    <3> QED BY <3>1, <1>1, FlowStill
  <2>3. CASE consoles[t].state = "closed"
    <3>1. Still(t)
      BY <2>1, <2>3 DEF Still
    <3> QED BY <3>1, <1>1, FlowStill
  <2> QED BY <2>2, <2>3
<1> QED BY <1>2, <1>3

LEMMA FlowsQuiet ==
  ASSUME GapInv, UNCHANGED <<channel, proc, poller, consoles>>,
         \A t \in Streams : Ans(t)' = Ans(t)
  PROVE  \A t \in Streams : Tidy(t)' /\ \A k \in Kinds : FlowOK(t, k)'
BY FlowQuiet

(* The call on the connection concerns the answer of at most one stream.     *)
LEMMA OtherAnswers ==
  ASSUME NEW t \in Streams, wire.holder # t \/ wire.stage # "answered",
         wire'.holder # t \/ wire'.stage # "answered"
  PROVE  Ans(t) = <<>> /\ Ans(t)' = <<>>
BY DEF Ans

(* The handlers of the main loop: windows appear and go.                     *)
LEMMA FlowWindows ==
  ASSUME GapInv, NEW s \in Streams, UNCHANGED <<channel, proc, poller, wire>>,
         \A t \in Streams \ {s} : consoles'[t] = consoles[t],
         \/ consoles'[s] = consoles[s]
         \/ /\ consoles[s].state \in {"none", "asked"}
            /\ consoles'[s].state \in {"asked", "starting", "failed"}
            /\ consoles'[s].lines = consoles[s].lines
            /\ consoles'[s].line_count = consoles[s].line_count
         \/ /\ consoles[s].state = "open" /\ consoles'[s].state = "closed"
            /\ consoles'[s].lines = <<>> /\ consoles'[s].line_count = 0
  PROVE  \A t \in Streams : Tidy(t)' /\ \A k \in Kinds : FlowOK(t, k)'
<1>0. TypeOK /\ WireOK /\ StreamOK(s) /\ Tidy(s) /\ \A k \in Kinds : FlowOK(s, k)
  BY DEF GapInv, ReachInv
<1>1. ASSUME NEW t \in Streams \ {s} PROVE Tidy(t)' /\ \A k \in Kinds : FlowOK(t, k)'
  <2>1. Ans(t)' = Ans(t) /\ consoles'[t] = consoles[t]
    BY DEF Ans
  <2> QED BY <2>1, FlowQuiet
<1>2. CASE consoles'[s] = consoles[s]
  <2>1. Ans(s)' = Ans(s)
    BY DEF Ans
  <2> QED BY <2>1, <1>1, <1>2, FlowQuiet
<1>3. CASE /\ consoles[s].state \in {"none", "asked"}
           /\ consoles'[s].state \in {"asked", "starting", "failed"}
           /\ consoles'[s].lines = consoles[s].lines
           /\ consoles'[s].line_count = consoles[s].line_count
  <2>1. poller[s].pc = "off" /\ proc[s].state = "none" /\ ~proc[s].entry
    BY <1>0, <1>3 DEF StreamOK, ConsoleOK, HostOK
  <2>2. Ans(s)' = <<>>
    <3>1. wire.holder # s
      BY <1>0, <2>1 DEF WireOK
    <3> QED BY <3>1 DEF Ans
  <2>3. Tidy(s)'
    <3>1. consoles[s].lines = <<>> /\ consoles[s].line_count = 0
      BY <1>0, <1>3 DEF Tidy
    <3> QED BY <3>1, <1>0, <1>3, <2>1 DEF Tidy
  <2>4. ASSUME NEW k \in Kinds PROVE FlowOK(s, k)'
    <3>1. PICK c \in 0..MaxLines, d \in 0..MaxLines :
             /\ Front(consoles[s], channel, s, k, c)
             /\ Upto(Nums(poller[s].todo, s, k), c, d)
             /\ d = 0
      BY <1>0, <1>3 DEF FlowOK
    <3>2. Front(consoles'[s], channel', s, k, c)
      BY <3>1, <1>3, FrontStill
    <3>3. Back(Asks(s)', Ans(s)', proc'[s].entry, proc'[s], k, d)
      <4>1. Upto(LineNums(<<>>, k), 0, 0)
        BY NoLines
      <4>2. 0 \in 0..MaxLines
        BY BoundsAssumption
      <4> QED BY <4>1, <4>2, <3>1, <2>1, <2>2 DEF Back
    <3> QED BY <3>1, <3>2, <3>3, <1>3 DEF FlowOK
  <2> QED BY <1>1, <2>3, <2>4
<1>4. CASE /\ consoles[s].state = "open" /\ consoles'[s].state = "closed"
           /\ consoles'[s].lines = <<>> /\ consoles'[s].line_count = 0
  <2>1. Still(s)
    <3>1. (Asks(s)' <=> Asks(s)) /\ Ans(s)' = Ans(s)
      BY <1>4 DEF Asks, Ans
    <3> QED BY <3>1, <1>4 DEF Still
  <2>2. Tidy(s)'
    BY <1>0, <1>4 DEF Tidy
  <2> QED BY <1>0, <1>1, <2>1, <2>2, FlowStill
<1> QED BY <1>2, <1>3, <1>4

(* The bridge hands over what it has of a stream, and has nothing then.      *)
LEMMA FlowPolled ==
  ASSUME GapInv, NEW s \in Streams, HostPoll(s), wire.holder = s, wire.stage = "sent",
         UNCHANGED <<channel, poller, consoles>>
  PROVE  Tidy(s)' /\ \A k \in Kinds : FlowOK(s, k)'
<1>0. TypeOK /\ WireOK /\ Tidy(s) /\ \A k \in Kinds : FlowOK(s, k)
  BY DEF GapInv, ReachInv
<1>1. Ans(s) = <<>> /\ (Asks(s)' <=> Asks(s))
  BY DEF Ans, Asks
<1>2. CASE ~proc[s].entry
  <2>1. proc' = proc /\ Answered(Bad)
    BY <1>2 DEF HostPoll
  <2>2. Ans(s)' = <<>>
    <3>1. wire'.answer = Bad
      BY <2>1, <1>0, AnswersOK, Answering
    <3> QED BY <3>1 DEF Ans, Bad
  <2> QED BY <2>1, <2>2, <1>1, FlowQuiet
<1>3. CASE proc[s].entry
  <2>1. proc \in [Streams -> Procs] /\ proc[s] \in Procs /\ proc[s].pending \in Seq(Written)
    BY <1>0, Parts DEF Procs
  <2> PICK p : p = [proc[s] EXCEPT !.pending = <<>>]
    OBVIOUS
  <2>2. /\ p.pending = <<>> /\ p.read = proc[s].read /\ p.entry = proc[s].entry
        /\ p.state = proc[s].state
    BY <2>1 DEF Procs
  <2>3. proc'[s] = p
    BY <1>3, <2>1 DEF HostPoll
  <2>4. PICK a : a = [ok |-> TRUE, lines |-> proc[s].pending, ended |-> proc[s].state # "running"]
                 /\ Answered(a)
    BY <1>3 DEF HostPoll
  <2>5. a \in Answers /\ a.lines = proc[s].pending
    BY <2>1, <2>4 DEF Answers
  <2>6. Ans(s)' = proc[s].pending
    <3>1. wire'.holder = s /\ wire'.stage = "answered" /\ wire'.answer = a
      BY <2>4, <2>5, <1>0, Answering
    <3> QED BY <3>1, <2>5 DEF Ans
  <2>7. Tidy(s)'
    BY <1>0, <2>2, <2>3 DEF Tidy
  <2>8. ASSUME NEW k \in Kinds PROVE FlowOK(s, k)'
    <3>1. PICK c \in 0..MaxLines, d \in 0..MaxLines :
             /\ Front(consoles[s], channel, s, k, c)
             /\ Upto(Nums(poller[s].todo, s, k), c, d)
             /\ Back(Asks(s), Ans(s), proc[s].entry, proc[s], k, d)
             /\ consoles[s].state \notin {"open", "closed"} => d = 0
      BY <1>0 DEF FlowOK
    <3>2. Back(Asks(s)', Ans(s)', proc'[s].entry, proc'[s], k, d)
      <4> SUFFICES ASSUME Asks(s)
                   PROVE  \E b \in 0..MaxLines :
                            /\ Upto(LineNums(Ans(s)', k), d, b)
                            /\ Upto(LineNums(proc'[s].pending, k), b, proc'[s].read[k])
        BY <1>1 DEF Back
      <4>1. PICK b \in 0..MaxLines :
               /\ Upto(LineNums(<<>>, k), d, b)
               /\ Upto(LineNums(proc[s].pending, k), b, proc[s].read[k])
        BY <3>1, <1>1, <1>3 DEF Back
      <4>2. proc[s].read[k] \in 0..MaxLines /\ proc[s].read[k] \in Nat
        BY <2>1, BoundsAssumption DEF Procs
      <4>3. b \in Nat /\ d \in Nat
        BY BoundsAssumption
      <4>4. b = d
        BY <4>1, <4>3, NoLines
      <4>5. Upto(LineNums(<<>>, k), proc[s].read[k], proc[s].read[k])
        <5> PICK n \in Nat : n = proc[s].read[k]
          BY <4>2
        <5>1. Upto(LineNums(<<>>, k), n, n)
          BY NoLines
        <5> QED BY <5>1
      <4> QED BY <4>1, <4>2, <4>4, <4>5, <2>2, <2>3, <2>6
    <3> QED BY <3>1, <3>2 DEF FlowOK
  <2> QED BY <2>7, <2>8
<1> QED BY <1>2, <1>3

(* A stream starts with nothing read; one that is killed is not asked again. *)
LEMMA FlowStarted ==
  ASSUME GapInv, NEW s \in Streams, HostStart(s), wire.holder = Loop, wire.stage = "sent",
         busy.of = s, busy.op = "start", UNCHANGED <<channel, poller, consoles>>
  PROVE  Tidy(s)' /\ \A k \in Kinds : FlowOK(s, k)'
<1>0. TypeOK /\ WireOK /\ StreamOK(s) /\ Tidy(s) /\ \A k \in Kinds : FlowOK(s, k)
  BY DEF GapInv, ReachInv
<1>1. Ans(s) = <<>> /\ Ans(s)' = <<>>
  <2>1. wire'.holder = Loop
    BY <1>0, AnswersOK, Answering DEF HostStart
  <2> QED BY <2>1, CallersAssumption DEF Ans
<1>2. consoles[s].state = "starting" /\ proc[s].state = "none"
  BY <1>0, CallersAssumption DEF WireOK, StreamOK, CallOK, OnLoop, Served
<1>3. CASE proc' = proc
  BY <1>1, <1>3, FlowQuiet
<1>4. CASE proc' = [proc EXCEPT ![s].state = "running", ![s].entry = TRUE]
  <2>1. proc \in [Streams -> Procs] /\ proc[s] \in Procs
    BY <1>0, Parts
  <2> PICK p : p = [proc[s] EXCEPT !.state = "running", !.entry = TRUE]
    OBVIOUS
  <2>2. p.pending = proc[s].pending /\ p.read = proc[s].read /\ p.state = "running"
    BY <2>1 DEF Procs
  <2>3. proc'[s] = p
    BY <1>4, <2>1
  <2>4. proc[s].pending = <<>> /\ \A k \in Kinds : proc[s].read[k] = 0
    BY <1>0, <1>2 DEF Tidy
  <2>5. Tidy(s)'
    BY <1>0, <2>2, <2>3 DEF Tidy
  <2>6. ASSUME NEW k \in Kinds PROVE FlowOK(s, k)'
    <3>1. PICK c \in 0..MaxLines, d \in 0..MaxLines :
             /\ Front(consoles[s], channel, s, k, c)
             /\ Upto(Nums(poller[s].todo, s, k), c, d)
             /\ d = 0
      BY <1>0, <1>2 DEF FlowOK
    <3>2. Upto(LineNums(<<>>, k), 0, 0)
      BY NoLines
    <3>3. 0 \in 0..MaxLines
      BY BoundsAssumption
    <3>4. Back(Asks(s)', Ans(s)', proc'[s].entry, proc'[s], k, d)
      BY <3>1, <3>2, <3>3, <2>2, <2>3, <2>4, <1>1 DEF Back
    <3> QED BY <3>1, <3>4 DEF FlowOK
  <2> QED BY <2>5, <2>6
<1> QED BY <1>3, <1>4 DEF HostStart

\* The process of s goes on, or its entry is gone.
Kept(s) == proc'[s] = proc[s] \/ (proc'[s].entry = FALSE /\ proc'[s].state # "none")

LEMMA FlowKilled ==
  ASSUME GapInv, NEW s \in Streams, Kept(s), Asks(s)' => Ans(s)' = Ans(s),
         channel' = channel, poller'[s] = poller[s], consoles'[s] = consoles[s]
  PROVE  Tidy(s)' /\ \A k \in Kinds : FlowOK(s, k)'
<1>0. Tidy(s) /\ \A k \in Kinds : FlowOK(s, k)
  BY DEF GapInv
<1>1. Tidy(s)'
  BY <1>0 DEF Tidy, Kept
<1>2. Asks(s)' <=> Asks(s)
  BY DEF Asks
<1>3. Still(s)
  BY <1>2 DEF Still, Kept
<1> QED BY <1>0, <1>1, <1>3, FlowStill

LEMMA FlowServe ==
  ASSUME GapInv, Serve
  PROVE  \A t \in Streams : Tidy(t)' /\ \A k \in Kinds : FlowOK(t, k)'
<1>0. TypeOK /\ WireOK /\ \A t \in Streams : StreamOK(t)
  BY DEF GapInv, ReachInv
<1>1. wire.stage = "sent" /\ UNCHANGED <<channel, poller, consoles>>
  BY DEF Serve, tasks, shell, queues
<1>2. CASE wire.holder \in Runs /\ ServesRun(wire.holder)
  <2>1. proc' = proc
    BY <1>2 DEF ServesRun
  <2>2. wire'.holder = wire.holder
    BY <1>0, <1>2, AnswersOK, Answering, Parts DEF ServesRun, HostExec, Wires
  <2>3. \A t \in Streams : Ans(t)' = Ans(t)
    BY <1>2, <2>2, OtherAnswers, CallersAssumption
  <2> QED BY <1>1, <2>1, <2>3, FlowsQuiet
<1>3. ASSUME NEW s \in Streams, ServesStream(s)
      PROVE  \A t \in Streams : Tidy(t)' /\ \A k \in Kinds : FlowOK(t, k)'
  <2>1. /\ wire'.holder = wire.holder /\ wire'.stage = "answered"
        /\ \A t \in Streams \ {s} : proc'[t] = proc[t]
    <3>1. \E a \in Answers : Answered(a)
      BY <1>0, <1>1, <1>3, ServeStreams DEF GapInv, ServesStream, Serve, tasks, shell
    <3>2. \A t \in Streams \ {s} : proc'[t] = proc[t]
      <4>1. proc \in [Streams -> Procs]
        BY <1>0, Parts
      <4> QED BY <4>1, <1>3 DEF ServesStream, HostStart, HostPoll, HostKill
    <3> QED BY <3>1, <3>2, <1>0, Answering
  <2>2. ASSUME NEW t \in Streams \ {s} PROVE Tidy(t)' /\ \A k \in Kinds : FlowOK(t, k)'
    <3>1. Ans(t)' = Ans(t)
      BY <1>3, <2>1, OtherAnswers, CallersAssumption DEF ServesStream
    <3> QED BY <3>1, <2>1, <1>1, FlowQuiet
  <2>3. CASE HostPoll(s) /\ wire.holder = s
    BY <2>2, <2>3, <1>1, FlowPolled
  <2>4. CASE HostStart(s) /\ wire.holder = Loop /\ busy.of = s /\ busy.op = "start"
    BY <2>2, <2>4, <1>1, FlowStarted
  <2>5. CASE HostKill(s) /\ wire.holder = Loop
    <3>1. proc[s] \in Procs /\ proc \in [Streams -> Procs]
      BY <1>0, Parts
    <3>2. proc[s].entry => proc[s].state # "none"
      BY <1>0 DEF StreamOK, HostOK
    <3>3. CASE proc' = proc
      BY <3>3, <2>1, <2>2, <2>5, <1>1, OtherAnswers, CallersAssumption, FlowQuiet
    <3>4. ASSUME NEW p \in Procs, proc' = [proc EXCEPT ![s] = p], p.entry = FALSE, p.state # "none"
          PROVE  Tidy(s)' /\ \A k \in Kinds : FlowOK(s, k)'
      <4>1. proc'[s] = p
        BY <3>1, <3>4
      <4>2. Ans(s)' = Ans(s)
        BY <2>1, <2>5, OtherAnswers, CallersAssumption
      <4> QED BY <4>1, <4>2, <3>4, <1>1, FlowKilled DEF Kept
    <3>5. CASE proc[s].entry /\ proc' = [proc EXCEPT ![s].entry = FALSE, ![s].pending = <<>>,
                                                     ![s].state = "ended"]
      <4> PICK p : p = [proc[s] EXCEPT !.entry = FALSE, !.pending = <<>>, !.state = "ended"]
        OBVIOUS
      <4>1. p \in Procs /\ p.entry = FALSE /\ p.state # "none"
        <5>1. <<>> \in Seq(Written)
          OBVIOUS
        <5> QED BY <5>1, <3>1 DEF Procs
      <4>2. proc' = [proc EXCEPT ![s] = p]
        BY <3>5
      <4> QED BY <4>1, <4>2, <3>4, <2>2
    <3>6. CASE proc[s].entry /\ proc' = [proc EXCEPT ![s].entry = FALSE, ![s].pending = <<>>]
      <4> PICK p : p = [proc[s] EXCEPT !.entry = FALSE, !.pending = <<>>]
        OBVIOUS
      <4>1. p \in Procs /\ p.entry = FALSE /\ p.state # "none"
        <5>1. <<>> \in Seq(Written)
          OBVIOUS
        <5> QED BY <5>1, <3>1, <3>2, <3>6 DEF Procs
      <4>2. proc' = [proc EXCEPT ![s] = p]
        BY <3>6
      <4> QED BY <4>1, <4>2, <3>4, <2>2
    <3> QED BY <2>5, <3>3, <3>5, <3>6 DEF HostKill
  <2> QED BY <1>3, <2>3, <2>4, <2>5 DEF ServesStream
<1> QED BY <1>0, <1>2, <1>3, ServeKinds

(* What an answer adds to the events of the polling task.                    *)
LEMMA AfterPollFlow ==
  ASSUME NEW s \in Streams, NEW k \in Kinds, NEW a \in Answers, NEW c \in Nat, NEW b \in Nat,
         Upto(LineNums(a.lines, k), c, b)
  PROVE  Upto(Nums(AfterPoll(s, a).todo, s, k), c, b)
<1>1. a.lines \in Seq(Written)
  BY DEF Answers
<1>2. PICK q \in Seq(ConsoleEvents) : q = LinesOf(s, a.lines)
  BY <1>1, LinesOfTyped
<1>3. AfterPoll(s, a) = IF a.ended THEN Sending(Append(q, Exit(s, "exited")), "leaving")
                                   ELSE Sending(q, "due")
  BY <1>2 DEF AfterPoll, LinesOf
<1>4. Upto(Nums(q, s, k), c, b)
  BY <1>1, <1>2, EventsOfLines
<1>5. Upto(Nums(Append(q, Exit(s, "exited")), s, k), c, b)
  <2> PICK x \in ConsoleEvents : x = Exit(s, "exited")
    BY Events
  <2>1. NumOf(x, s, k) = 0
    BY EventNumbers
  <2> QED BY <2>1, <1>4, EventsGrow
<1> QED BY <1>3, <1>4, <1>5 DEF Sending

LEMMA AfterErrorFlow ==
  ASSUME NEW s \in Streams, NEW k \in Kinds, NEW c \in Nat
  PROVE  Upto(Nums(AfterError(s).todo, s, k), c, c)
<1> PICK x \in ConsoleEvents : x = Line(s, <<"notice", 0>>)
  BY Events
<1> PICK y \in ConsoleEvents : y = Exit(s, "error")
  BY Events
<1>1. NumOf(x, s, k) = 0 /\ NumOf(y, s, k) = 0
  BY EventNumbers
<1>2. AfterError(s).todo = <<x, y>>
  BY DEF AfterError, Sending
<1> DEFINE f == Nums(<<x, y>>, s, k)
<1>3. DOMAIN f = 1..2 /\ f[1] = 0 /\ f[2] = 0
  BY <1>1 DEF Nums
<1> HIDE DEF f
<1>4. \A i \in DOMAIN f : f[i] = 0
  <2>1. \A i \in 1..2 : i = 1 \/ i = 2
    OBVIOUS
  <2> QED BY <2>1, <1>3
<1>5. Upto(f, c, c)
  BY <1>4, Zeros
<1> QED BY <1>2, <1>5 DEF f

LEMMA AfterOwn ==
  ASSUME NEW s \in Streams, NEW a \in Answers
  PROVE  /\ \A i \in DOMAIN AfterPoll(s, a).todo : AfterPoll(s, a).todo[i].of = s
         /\ \A i \in DOMAIN AfterError(s).todo : AfterError(s).todo[i].of = s
<1>1. a.lines \in Seq(Written)
  BY DEF Answers
<1>2. PICK q \in Seq(ConsoleEvents) : q = LinesOf(s, a.lines)
  BY <1>1, LinesOfTyped
<1>3. AfterPoll(s, a) = IF a.ended THEN Sending(Append(q, Exit(s, "exited")), "leaving")
                                   ELSE Sending(q, "due")
  BY <1>2 DEF AfterPoll, LinesOf
<1>4. \A i \in DOMAIN q : q[i].of = s
  BY <1>2 DEF LinesOf, Line
<1>5. \A i \in DOMAIN Append(q, Exit(s, "exited")) : Append(q, Exit(s, "exited"))[i].of = s
  <2> PICK x \in ConsoleEvents : x = Exit(s, "exited")
    BY Events
  <2>1. x.of = s
    BY DEF Exit
  <2> PICK r \in Seq(ConsoleEvents) : r = Append(q, x)
    BY AppendFacts
  <2>2. /\ DOMAIN r = 1 .. Len(q) + 1 /\ r[Len(q) + 1] = x /\ Len(q) \in Nat
        /\ \A i \in 1 .. Len(q) : r[i] = q[i]
        /\ DOMAIN q = 1 .. Len(q)
    BY AppendFacts
  <2>3. ASSUME NEW i \in 1 .. Len(q) + 1 PROVE r[i].of = s
    <3>1. i = Len(q) + 1 \/ i \in 1 .. Len(q)
      BY <2>2
    <3> QED BY <3>1, <2>1, <2>2, <1>4
  <2> QED BY <2>2, <2>3
<1>6. \A i \in DOMAIN AfterPoll(s, a).todo : AfterPoll(s, a).todo[i].of = s
  BY <1>3, <1>4, <1>5 DEF Sending
<1>7. \A i \in DOMAIN AfterError(s).todo : AfterError(s).todo[i].of = s
  <2> PICK x : x = Line(s, <<"notice", 0>>)
    OBVIOUS
  <2> PICK y : y = Exit(s, "error")
    OBVIOUS
  <2>1. x.of = s /\ y.of = s
    BY DEF Line, Exit
  <2>2. AfterError(s).todo = <<x, y>>
    BY DEF AfterError, Sending
  <2>3. \A i \in 1 .. 2 : <<x, y>>[i].of = s
    <3> TAKE i \in 1 .. 2
    <3>1. i = 1 \/ i = 2
      OBVIOUS
    <3> QED BY <3>1, <2>1
  <2> QED BY <2>2, <2>3
<1> QED BY <1>6, <1>7

(* A start, a kill or the close of a window is answered.                     *)
LEMMA FlowLoopGets ==
  ASSUME GapInv, NEW s \in Streams, NEW a, LoopGets(s, a), channel' = channel, Kept(s),
         \A t \in Streams : Ans(t) = <<>> /\ Ans(t)' = <<>>
  PROVE  Tidy(s)' /\ \A k \in Kinds : FlowOK(s, k)'
<1>0. TypeOK /\ StreamOK(s) /\ Tidy(s) /\ \A k \in Kinds : FlowOK(s, k)
  BY DEF GapInv, ReachInv
<1>1. OnLoop(s)
  BY CallersAssumption DEF OnLoop, LoopGets
<1>2. poller \in [Streams -> Pollers] /\ consoles \in [Streams -> Consoles]
  BY <1>0, Parts
<1>3. CASE busy.op = "start" /\ a.ok /\ Becomes(s, "open")
           /\ poller' = [poller EXCEPT ![s].pc = "due"]
  <2>1. consoles[s].state = "starting" /\ poller[s].pc = "off" /\ poller[s].todo = <<>>
    BY <1>0, <1>1, <1>3 DEF StreamOK, CallOK, ConsoleOK, Tidy
  <2>2. /\ consoles'[s].state = "open" /\ consoles'[s].lines = consoles[s].lines
        /\ consoles'[s].line_count = consoles[s].line_count
    BY <1>0, <1>3, Becoming
  <2>3. poller'[s].pc = "due" /\ poller'[s].todo = <<>>
    BY <2>1, <1>2, <1>3 DEF Pollers
  <2>4. Tidy(s)'
    BY <2>1, <2>2, <2>3, <1>0 DEF Tidy, Kept
  <2>5. Still(s)
    BY <2>1, <2>2, <2>3 DEF Still, Asks, Kept
  <2> QED BY <2>4, <2>5, <1>0, FlowStill
<1>4. CASE busy.op = "start" /\ Becomes(s, "failed") /\ UNCHANGED poller
  <2>1. consoles[s].state = "starting" /\ poller[s].pc = "off" /\ poller[s].todo = <<>>
    BY <1>0, <1>1, <1>4 DEF StreamOK, CallOK, ConsoleOK, Tidy
  <2>2. /\ consoles'[s].state = "failed" /\ consoles'[s].lines = consoles[s].lines
        /\ consoles'[s].line_count = consoles[s].line_count
    BY <1>0, <1>4, Becoming
  <2>3. Tidy(s)'
    BY <2>1, <2>2, <1>0, <1>4 DEF Tidy, Kept
  <2>4. Still(s)
    BY <2>1, <2>2, <1>4 DEF Still, Asks
  <2> QED BY <2>3, <2>4, <1>0, FlowStill
<1>5. CASE busy.op = "close" /\ Removed(s) /\ UNCHANGED poller
  <2>1. consoles[s].state = "open"
    BY <1>0, <1>1, <1>5 DEF StreamOK, CallOK
  <2>2. consoles'[s].state = "closed" /\ consoles'[s].lines = <<>> /\ consoles'[s].line_count = 0
    BY <1>0, <1>5, Removing
  <2>3. Tidy(s)'
    BY <2>2, <1>0, <1>5 DEF Tidy, Kept
  <2>4. Still(s)
    BY <2>1, <2>2, <1>5 DEF Still, Asks, Kept
  <2> QED BY <2>3, <2>4, <1>0, FlowStill
<1>6. CASE UNCHANGED <<consoles, poller>>
  BY <1>6, FlowKilled
<1> QED BY <1>3, <1>4, <1>5, <1>6 DEF LoopGets

(* A poll is answered, or breaks and is the last.                            *)
LEMMA FlowPollGets ==
  ASSUME GapInv, NEW s \in Streams, NEW a \in Answers, PollGets(s, a), channel' = channel, Kept(s),
         a.ok => Ans(s) = a.lines, Ans(s)' = <<>>
  PROVE  Tidy(s)' /\ \A k \in Kinds : FlowOK(s, k)'
<1>0. TypeOK /\ StreamOK(s) /\ Tidy(s) /\ \A k \in Kinds : FlowOK(s, k)
  BY DEF GapInv, ReachInv
<1>1. poller[s].pc = "due" /\ poller[s].todo = <<>> /\ consoles[s].state \in {"open", "closed"}
  <2>1. consoles[s].state \in {"none", "asked", "starting", "open", "closed", "failed"}
    BY <1>0, Parts DEF Consoles
  <2> QED BY <2>1, <1>0 DEF PollGets, Tidy, StreamOK, ConsoleOK
<1>2. poller \in [Streams -> Pollers] /\ consoles' = consoles
  BY <1>0, Parts DEF PollGets
<1> PICK p \in Pollers : p = IF a.ok THEN AfterPoll(s, a) ELSE AfterError(s)
  BY AfterTyped
<1>3. poller'[s] = p
  BY <1>2 DEF PollGets
<1>4. Tidy(s)'
  <2>1. p.pc # "sending" => p.todo = <<>>
    BY DEF AfterPoll, AfterError, Sending
  <2>2. \A i \in DOMAIN p.todo : p.todo[i].of = s
    BY AfterOwn
  <2> QED BY <2>1, <2>2, <1>0, <1>1, <1>2, <1>3 DEF Tidy, Kept
<1>5. ASSUME NEW k \in Kinds PROVE FlowOK(s, k)'
  <2>1. PICK c \in 0..MaxLines, d \in 0..MaxLines :
           /\ Front(consoles[s], channel, s, k, c)
           /\ Upto(Nums(<<>>, s, k), c, d)
           /\ Back(Asks(s), Ans(s), proc[s].entry, proc[s], k, d)
    BY <1>0, <1>1 DEF FlowOK
  <2>2. c \in Nat /\ d \in Nat
    BY BoundsAssumption
  <2>3. c = d
    BY <2>1, <2>2, NoEvents
  <2>4. CASE a.ok
    <3>1. PICK b \in 0..MaxLines :
             /\ Upto(LineNums(a.lines, k), d, b)
             /\ proc[s].entry => Upto(LineNums(proc[s].pending, k), b, proc[s].read[k])
      BY <2>1, <2>4, <1>1 DEF Back, Asks
    <3>2. b \in Nat
      BY BoundsAssumption
    <3>3. Upto(Nums(p.todo, s, k), c, b)
      BY <3>1, <3>2, <2>2, <2>3, <2>4, AfterPollFlow
    <3>4. Upto(LineNums(<<>>, k), b, b)
      BY <3>2, NoLines
    <3>5. Back(Asks(s)', Ans(s)', proc'[s].entry, proc'[s], k, b)
      BY <3>1, <3>4 DEF Back, Kept
    <3> QED BY <2>1, <3>3, <3>5, <1>1, <1>2, <1>3 DEF FlowOK
  <2>5. CASE ~a.ok
    <3>1. Upto(Nums(p.todo, s, k), c, c)
      BY <2>2, <2>5, AfterErrorFlow
    <3>2. ~Asks(s)'
      <4>1. p.pc = "sending" /\ p.then = "off"
        BY <2>5, AfterFacts
      <4> QED BY <4>1, <1>1, <1>2, <1>3 DEF Asks
    <3>3. Back(Asks(s)', Ans(s)', proc'[s].entry, proc'[s], k, c)
      BY <3>2 DEF Back
    <3> QED BY <2>1, <3>1, <3>3, <1>1, <1>2, <1>3 DEF FlowOK
  <2> QED BY <2>4, <2>5
<1> QED BY <1>4, <1>5

LEMMA FlowGives ==
  ASSUME GapInv, NEW a, wire.holder # None, Gives(wire.holder, a),
         a = Bad \/ (a = wire.answer /\ wire.stage = "answered"),
         \A t \in Streams : Kept(t)
  PROVE  \A t \in Streams : Tidy(t)' /\ \A k \in Kinds : FlowOK(t, k)'
<1>0. TypeOK /\ WireOK
  BY DEF GapInv, ReachInv
<1>1. channel' = channel /\ a \in Answers
  BY <1>0, Parts, AnswersOK DEF Gives, queues
<1>2. \A t \in Streams : Ans(t)' = <<>>
  <2>1. wire' = Idle
    BY DEF Gives
  <2> QED BY <2>1, IdleWire DEF Ans
<1>3. ASSUME NEW t \in Streams, wire.holder # t, poller'[t] = poller[t], consoles'[t] = consoles[t]
      PROVE  Tidy(t)' /\ \A k \in Kinds : FlowOK(t, k)'
  <2>1. Ans(t) = <<>>
    BY <1>3 DEF Ans
  <2> QED BY <2>1, <1>1, <1>2, <1>3, FlowKilled
<1>4. ASSUME NEW s \in Streams, LoopGets(s, a)
      PROVE  \A t \in Streams : Tidy(t)' /\ \A k \in Kinds : FlowOK(t, k)'
  <2>1. wire.holder = Loop /\ \A t \in Streams : wire.holder # t
    BY <1>4, CallersAssumption DEF LoopGets
  <2>2. ASSUME NEW t \in Streams PROVE Ans(t) = <<>>
    <3>1. wire.holder # t
      BY <2>1
    <3> QED BY <3>1 DEF Ans
  <2>3. Tidy(s)' /\ \A k \in Kinds : FlowOK(s, k)'
    BY <2>2, <1>1, <1>2, <1>4, FlowLoopGets
  <2>4. \A t \in Streams \ {s} : poller'[t] = poller[t] /\ consoles'[t] = consoles[t]
    <3>1. poller \in [Streams -> Pollers] /\ consoles \in [Streams -> Consoles]
      BY <1>0, Parts
    <3> QED BY <3>1, <1>4 DEF LoopGets, Becomes, Removed
  <2> QED BY <2>1, <2>3, <2>4, <1>3
<1>5. ASSUME NEW s \in Streams, PollGets(s, a)
      PROVE  \A t \in Streams : Tidy(t)' /\ \A k \in Kinds : FlowOK(t, k)'
  <2>1. wire.holder = s
    BY <1>5 DEF PollGets
  <2>2. a.ok => Ans(s) = a.lines
    BY <2>1, AnswersOK DEF Ans
  <2>3. Tidy(s)' /\ \A k \in Kinds : FlowOK(s, k)'
    BY <2>2, <1>1, <1>2, <1>5, FlowPollGets
  <2>4. \A t \in Streams \ {s} : poller'[t] = poller[t] /\ consoles'[t] = consoles[t]
    <3>1. poller \in [Streams -> Pollers]
      BY <1>0, Parts
    <3> QED BY <3>1, <1>5 DEF PollGets
  <2> QED BY <2>1, <2>3, <2>4, <1>3
<1>6. ASSUME NEW r \in Runs, ExecGets(r, a)
      PROVE  \A t \in Streams : Tidy(t)' /\ \A k \in Kinds : FlowOK(t, k)'
  <2>1. \A t \in Streams : wire.holder # t
    BY <1>6, CallersAssumption DEF ExecGets
  <2> QED BY <2>1, <1>3, <1>6 DEF ExecGets
<1> QED BY <1>0, <1>4, <1>5, <1>6, GivesKinds

(* A reader thread adds a line to what the bridge still has.                 *)
LEMMA FlowReads ==
  ASSUME GapInv, NEW s \in Streams, NEW k \in Kinds, Reads(s, k)
  PROVE  \A t \in Streams : Tidy(t)' /\ \A j \in Kinds : FlowOK(t, j)'
<1>0. TypeOK /\ StreamOK(s) /\ Tidy(s) /\ \A j \in Kinds : FlowOK(s, j)
  BY DEF GapInv, ReachInv
<1>1. /\ \A t \in Streams \ {s} : proc'[t] = proc[t]
      /\ proc'[s].state = proc[s].state /\ proc'[s].entry = proc[s].entry
      /\ proc'[s].pending = Append(proc[s].pending, ReadLine(s, k))
      /\ proc'[s].read[k] = proc[s].read[k] + 1
      /\ \A j \in Kinds \ {k} : proc'[s].read[j] = proc[s].read[j]
      /\ ReadLine(s, k) \in Written /\ proc[s].read[k] \in Nat
  BY <1>0, ReadDoes
<1>2. UNCHANGED <<wire, poller, consoles, channel>>
  BY DEF Reads, tasks, shell, queues
<1>3. \A t \in Streams : Ans(t)' = Ans(t) /\ (Asks(t)' <=> Asks(t))
  BY <1>2 DEF Ans, Asks
<1>4. proc[s].entry /\ proc[s].state # "none" /\ proc[s].pending \in Seq(Written)
  BY <1>0, Parts DEF Reads, StreamOK, HostOK, Procs
<1>5. Tidy(s)'
  BY <1>0, <1>1, <1>2, <1>4 DEF Tidy
<1>6. ASSUME NEW j \in Kinds PROVE FlowOK(s, j)'
  <2>1. PICK c \in 0..MaxLines, d \in 0..MaxLines :
           /\ Front(consoles[s], channel, s, j, c)
           /\ Upto(Nums(poller[s].todo, s, j), c, d)
           /\ Back(Asks(s), Ans(s), proc[s].entry, proc[s], j, d)
           /\ consoles[s].state \notin {"open", "closed"} => d = 0
    BY <1>0 DEF FlowOK
  <2>2. Back(Asks(s)', Ans(s)', proc'[s].entry, proc'[s], j, d)
    <3> SUFFICES ASSUME Asks(s)
                 PROVE  \E b \in 0..MaxLines :
                          /\ Upto(LineNums(Ans(s)', j), d, b)
                          /\ Upto(LineNums(proc'[s].pending, j), b, proc'[s].read[j])
      BY <1>3 DEF Back
    <3>1. PICK b \in 0..MaxLines :
             /\ Upto(LineNums(Ans(s), j), d, b)
             /\ Upto(LineNums(proc[s].pending, j), b, proc[s].read[j])
      BY <2>1, <1>4 DEF Back
    <3>2. b \in Nat /\ proc[s].read[j] \in Nat
      <4>1. proc[s] \in Procs
        BY <1>0, Parts
      <4>2. proc[s].read[j] \in 0..MaxLines
        BY <4>1 DEF Procs
      <4> QED BY <4>2, BoundsAssumption
    <3> PICK n \in Nat : n = proc[s].read[j]
      BY <3>2
    <3>3. Upto(LineNums(Append(proc[s].pending, ReadLine(s, k)), j), b, proc'[s].read[j])
      <4>1. CASE j = k
        <5>1. LineNum(ReadLine(s, k), j) = n + 1
          BY <4>1 DEF LineNum, ReadLine
        <5>2. Upto(LineNums(Append(proc[s].pending, ReadLine(s, k)), j), b, n + 1)
          BY <5>1, <3>1, <3>2, <1>1, <1>4, LinesGrow
        <5> QED BY <5>2, <4>1, <1>1
      <4>2. CASE j # k
        <5>1. LineNum(ReadLine(s, k), j) = 0
          BY <4>2 DEF LineNum, ReadLine
        <5>2. Upto(LineNums(Append(proc[s].pending, ReadLine(s, k)), j), b, n)
          BY <5>1, <3>1, <3>2, <1>1, <1>4, LinesGrow
        <5> QED BY <5>2, <4>2, <1>1
      <4> QED BY <4>1, <4>2
    <3> QED BY <3>1, <3>3, <1>1, <1>3
  <2> QED BY <2>1, <2>2, <1>2 DEF FlowOK
<1>7. ASSUME NEW t \in Streams \ {s} PROVE Tidy(t)' /\ \A j \in Kinds : FlowOK(t, j)'
  BY <1>1, <1>2, <1>3, FlowQuiet
<1> QED BY <1>5, <1>6, <1>7

(* What the channel takes and gives.                                         *)
LEMMA FrontGrows ==
  ASSUME NEW s \in Streams, NEW k \in Kinds, NEW con, NEW chan \in Seq(ConsoleEvents),
         NEW e \in ConsoleEvents, NEW c \in Nat, Front(con, chan, s, k, c)
  PROVE  /\ NumOf(e, s, k) = 0 => Front(con, Append(chan, e), s, k, c)
         /\ NumOf(e, s, k) = c + 1 => Front(con, Append(chan, e), s, k, c + 1)
<1>1. PICK b \in 0..MaxLines :
         Upto(Nums(chan, s, k), b, c) /\ (con.state # "closed" => Shown(con, k, b))
  BY DEF Front
<1>2. b \in Nat
  BY BoundsAssumption
<1>3. /\ NumOf(e, s, k) = 0 => Upto(Nums(Append(chan, e), s, k), b, c)
      /\ NumOf(e, s, k) = c + 1 => Upto(Nums(Append(chan, e), s, k), b, c + 1)
  BY <1>1, <1>2, EventsGrow
<1> QED BY <1>1, <1>3 DEF Front

LEMMA FlowPolls ==
  ASSUME GapInv, NEW s \in Streams, Poller(s)
  PROVE  \A t \in Streams : Tidy(t)' /\ \A k \in Kinds : FlowOK(t, k)'
<1>0. TypeOK /\ StreamOK(s) /\ \A t \in Streams : Tidy(t) /\ \A k \in Kinds : FlowOK(t, k)
  BY DEF GapInv, ReachInv
<1>1. UNCHANGED <<proc, wire, consoles>>
  BY DEF Poller, PollSends, PollLeaves, host, shell
<1>2. \A t \in Streams : Ans(t)' = Ans(t)
  BY <1>1 DEF Ans
<1>3. CASE PollSends(s)
  <2>1. poller[s].pc = "sending" /\ poller[s].todo # <<>>
    BY <1>0, <1>3 DEF PollSends, StreamOK, PollerOK
  <2> PICK e \in ConsoleEvents : e = Head(poller[s].todo)
    BY <1>0, <1>3, <2>1, PollSendDoes
  <2>2. /\ \A t \in Streams \ {s} : poller'[t] = poller[t]
        /\ poller'[s].then = poller[s].then
        /\ poller'[s].todo = Tail(poller[s].todo)
        /\ poller'[s].pc = IF Tail(poller[s].todo) = <<>> THEN poller[s].then ELSE "sending"
        /\ channel' = Append(channel, e)
    BY <1>0, <1>3, <2>1, PollSendDoes
  <2>3. poller[s].todo \in Seq(ConsoleEvents) /\ channel \in Seq(ConsoleEvents)
        /\ poller[s].then \in {"off", "due", "leaving"}
    BY <1>0, Parts DEF Pollers, TypeOK
  <2>4. /\ e = poller[s].todo[1] /\ Len(poller[s].todo) \in Nat /\ Len(poller[s].todo) >= 1
        /\ DOMAIN poller[s].todo = 1 .. Len(poller[s].todo)
        /\ DOMAIN Tail(poller[s].todo) = 1 .. Len(poller[s].todo) - 1
        /\ \A i \in 1 .. Len(poller[s].todo) - 1 : Tail(poller[s].todo)[i] = poller[s].todo[i + 1]
    BY <2>1, <2>3, TailFacts
  <2>5. e.of = s
    BY <2>4, <1>0 DEF Tidy
  <2>6. ASSUME NEW t \in Streams \ {s} PROVE Tidy(t)' /\ \A k \in Kinds : FlowOK(t, k)'
    <3>1. Tidy(t)'
      <4>1. Tidy(t) /\ poller'[t] = poller[t]
        BY <1>0, <2>2
      <4> QED BY <4>1, <1>1 DEF Tidy
    <3>2. ASSUME NEW k \in Kinds PROVE FlowOK(t, k)'
      <4>1. PICK c \in 0..MaxLines, d \in 0..MaxLines :
               /\ Front(consoles[t], channel, t, k, c)
               /\ Upto(Nums(poller[t].todo, t, k), c, d)
               /\ Back(Asks(t), Ans(t), proc[t].entry, proc[t], k, d)
               /\ consoles[t].state \notin {"open", "closed"} => d = 0
        BY <1>0 DEF FlowOK
      <4>2. NumOf(e, t, k) = 0 /\ c \in Nat
        BY <2>5, EventNumbers, BoundsAssumption
      <4>3. Front(consoles'[t], channel', t, k, c)
        BY <4>1, <4>2, <2>2, <2>3, <1>1, FrontGrows
      <4>4. Asks(t)' <=> Asks(t)
        BY <2>2, <1>1 DEF Asks
      <4> QED BY <4>1, <4>3, <4>4, <2>2, <1>1, <1>2 DEF FlowOK, Back
    <3> QED BY <3>1, <3>2
  <2>7. Tidy(s)'
    <3>1. \A i \in DOMAIN poller'[s].todo : poller'[s].todo[i].of = s
      <4>1. ASSUME NEW i \in 1 .. Len(poller[s].todo) - 1 PROVE poller[s].todo[i + 1].of = s
        <5>1. i + 1 \in DOMAIN poller[s].todo
          BY <2>4
        <5> QED BY <5>1, <1>0 DEF Tidy
      <4>2. ASSUME NEW i \in 1 .. Len(poller[s].todo) - 1 PROVE Tail(poller[s].todo)[i].of = s
        <5>1. Tail(poller[s].todo)[i] = poller[s].todo[i + 1]
          BY <2>4
        <5> QED BY <5>1, <4>1
      <4>3. \A i \in DOMAIN Tail(poller[s].todo) : Tail(poller[s].todo)[i].of = s
        BY <4>2, <2>4
      <4> QED BY <4>3, <2>2
    <3> QED BY <3>1, <2>1, <2>2, <2>3, <1>0, <1>1 DEF Tidy
  <2>8. ASSUME NEW k \in Kinds PROVE FlowOK(s, k)'
    <3>1. PICK c \in 0..MaxLines, d \in 0..MaxLines :
             /\ Front(consoles[s], channel, s, k, c)
             /\ Upto(Nums(poller[s].todo, s, k), c, d)
             /\ Back(Asks(s), Ans(s), proc[s].entry, proc[s], k, d)
             /\ consoles[s].state \notin {"open", "closed"} => d = 0
      BY <1>0 DEF FlowOK
    <3>2. c \in Nat /\ d \in Nat /\ MaxLines \in Nat /\ d <= MaxLines
      BY BoundsAssumption
    <3>3. /\ NumOf(e, s, k) = 0 => Upto(Nums(Tail(poller[s].todo), s, k), c, d)
          /\ NumOf(e, s, k) # 0 => /\ NumOf(e, s, k) = c + 1 /\ c + 1 <= d
                                   /\ Upto(Nums(Tail(poller[s].todo), s, k), c + 1, d)
      BY <3>1, <3>2, <2>1, <2>3, EventsShrink
    <3>4. Asks(s)' => Asks(s)
      BY <2>1, <2>2, <1>1 DEF Asks
    <3>5. Back(Asks(s)', Ans(s)', proc'[s].entry, proc'[s], k, d)
      BY <3>1, <3>4, <1>1, <1>2 DEF Back
    <3>6. CASE NumOf(e, s, k) = 0
      <4>1. Front(consoles'[s], channel', s, k, c)
        BY <3>1, <3>2, <3>6, <2>2, <2>3, <1>1, FrontGrows
      <4> QED BY <4>1, <3>1, <3>3, <3>5, <3>6, <2>2, <1>1 DEF FlowOK
    <3>7. CASE NumOf(e, s, k) # 0
      <4>1. Front(consoles'[s], channel', s, k, c + 1)
        BY <3>1, <3>2, <3>3, <3>7, <2>2, <2>3, <1>1, FrontGrows
      <4>2. c + 1 \in 0..MaxLines
        BY <3>2, <3>3, <3>7
      <4>3. Upto(Nums(poller'[s].todo, s, k), c + 1, d)
        BY <3>3, <3>7, <2>2
      <4> QED BY <4>1, <4>2, <4>3, <3>1, <3>5, <1>1 DEF FlowOK
    <3> QED BY <3>6, <3>7
  <2> QED BY <2>6, <2>7, <2>8
<1>4. CASE PollLeaves(s)
  <2>1. channel' = channel /\ poller[s].pc = "leaving" /\ poller \in [Streams -> Pollers]
    BY <1>0, <1>4, Parts DEF PollLeaves, queues
  <2>2. /\ poller'[s].pc = "off" /\ poller'[s].todo = poller[s].todo
        /\ \A t \in Streams \ {s} : poller'[t] = poller[t]
    BY <1>4, <2>1 DEF PollLeaves, Pollers
  <2>3. ASSUME NEW t \in Streams \ {s} PROVE Tidy(t)' /\ \A k \in Kinds : FlowOK(t, k)'
    BY <2>1, <2>2, <1>1, <1>2, FlowQuiet
  <2>4. Tidy(s)'
    BY <2>1, <2>2, <1>0, <1>1 DEF Tidy
  <2>5. consoles[s].state # "starting"
    BY <2>1, <1>0 DEF StreamOK, ConsoleOK
  <2>6. ASSUME NEW k \in Kinds PROVE FlowOK(s, k)'
    <3>1. ~Asks(s)'
      BY <2>2, <2>5, <1>1 DEF Asks
    <3>2. Still(s)
      BY <3>1, <2>1, <2>2, <1>1 DEF Still
    <3> QED BY <3>2, <1>0, FlowStill
  <2> QED BY <2>3, <2>4, <2>6
<1> QED BY <1>3, <1>4 DEF Poller

(* What an open console makes of an event of its stream: the next line, or   *)
(* nothing of the pipe.                                                      *)
LEMMA ShownApply ==
  ASSUME NEW s \in Streams, NEW k \in Kinds, NEW con \in Consoles, NEW e \in ConsoleEvents,
         con.state = "open", e.of = s, Len(con.lines) <= con.line_count,
         NEW b \in 0..MaxLines, Shown(con, k, b)
  PROVE  /\ NumOf(e, s, k) = 0 => Shown(Apply(con, e), k, b)
         /\ NumOf(e, s, k) = b + 1 /\ b + 1 <= MaxLines => Shown(Apply(con, e), k, b + 1)
<1>1. PICK a \in 0..MaxLines :
         Upto(LineNums(con.lines, k), a, b) /\ (con.line_count <= RingMax => a = 0)
  BY DEF Shown
<1>2. a \in Nat /\ b \in Nat /\ MaxLines \in Nat /\ RingMax \in Nat
  BY BoundsAssumption
<1>3. con.lines \in Seq(Written) /\ con.line_count \in Nat
  BY DEF Consoles
<1>4. CASE e.type = "line"
  <2>1. e.line \in Written /\ NumOf(e, s, k) = LineNum(e.line, k)
    BY <1>4 DEF ConsoleEvents, NumOf
  <2> PICK q \in Seq(Written) : q = Append(con.lines, e.line)
    BY <1>3, <2>1, AppendFacts
  <2>2. q # <<>> /\ Len(q) = Len(con.lines) + 1 /\ Len(con.lines) \in Nat
    BY <1>3, <2>1, AppendFacts
  <2> PICK n \in Nat : n = con.line_count + 1
    BY <1>3
  <2>3. Apply(con, e) = [con EXCEPT !.lines = Newest(q), !.line_count = n]
    BY <1>4 DEF Apply
  <2> PICK new : new = Apply(con, e)
    OBVIOUS
  <2>4. new.lines = Newest(q) /\ new.line_count = n
    BY <2>3 DEF Consoles
  <2>5. Len(q) > RingMax => n > RingMax
    BY <2>2, <1>2, <1>3
  \* Nothing was dropped while the count is within the ring.
  <2>6. ASSUME NEW m \in 0..MaxLines, Upto(LineNums(q, k), a, m) PROVE Shown(new, k, m)
    <3>1. m \in Nat
      BY BoundsAssumption
    <3>2. CASE Len(q) > RingMax
      <4>1. new.lines = Tail(q) /\ n > RingMax
        BY <3>2, <2>4, <2>5 DEF Newest
      <4>2. \/ Upto(LineNums(Tail(q), k), a, m)
            \/ a + 1 <= m /\ Upto(LineNums(Tail(q), k), a + 1, m)
        BY <2>2, <2>6, <3>1, <1>2, LinesShrink
      <4>3. a + 1 <= m => a + 1 \in 0..MaxLines
        BY <1>2, <3>1
      <4>4. ~(n <= RingMax)
        BY <4>1, <1>2
      <4> QED BY <4>1, <4>2, <4>3, <4>4, <2>4 DEF Shown
    <3>3. CASE ~(Len(q) > RingMax)
      <4>1. new.lines = q
        BY <3>3, <2>4 DEF Newest
      <4>2. n <= RingMax => a = 0
        <5>1. n <= RingMax => con.line_count <= RingMax
          BY <1>2, <1>3
        <5> QED BY <5>1, <1>1
      <4> QED BY <4>1, <4>2, <2>4, <2>6 DEF Shown
    <3> QED BY <3>2, <3>3
  <2>7. ASSUME NumOf(e, s, k) = 0 PROVE Shown(new, k, b)
    <3>1. Upto(LineNums(q, k), a, b)
      BY <2>1, <2>7, <1>1, <1>2, <1>3, LinesGrow
    <3> QED BY <3>1, <2>6
  <2>8. ASSUME NumOf(e, s, k) = b + 1, b + 1 <= MaxLines PROVE Shown(new, k, b + 1)
    <3>1. Upto(LineNums(q, k), a, b + 1)
      BY <2>1, <2>8, <1>1, <1>2, <1>3, LinesGrow
    <3>2. b + 1 \in 0..MaxLines
      BY <2>8, <1>2
    <3> QED BY <3>1, <3>2, <2>6
  <2> QED BY <2>7, <2>8
<1>5. CASE e.type # "line"
  <2>1. Apply(con, e) = [con EXCEPT !.status = e.status]
    BY <1>5 DEF Apply
  <2>2. NumOf(e, s, k) = 0
    BY <1>5 DEF NumOf
  <2> PICK new : new = Apply(con, e)
    OBVIOUS
  <2>3. new.lines = con.lines /\ new.line_count = con.line_count
    BY <2>1 DEF Consoles
  <2>4. Shown(new, k, b)
    BY <2>3, <1>1 DEF Shown
  <2> QED BY <2>2, <2>4, <1>2
<1> QED BY <1>4, <1>5

LEMMA ApplyTidy ==
  ASSUME NEW con \in Consoles, NEW e \in ConsoleEvents, Len(con.lines) <= con.line_count
  PROVE  /\ Len(Apply(con, e).lines) <= Apply(con, e).line_count
         /\ con.state # "open" => Apply(con, e) = con
<1>1. con.lines \in Seq(Written) /\ con.line_count \in Nat
  BY DEF Consoles
<1>2. CASE con.state # "open"
  BY <1>2 DEF Apply
<1>3. CASE con.state = "open" /\ e.type = "line"
  <2>1. e.line \in Written
    BY <1>3 DEF ConsoleEvents
  <2> PICK q \in Seq(Written) : q = Append(con.lines, e.line)
    BY <1>1, <2>1, AppendFacts
  <2>2. q # <<>> /\ Len(q) = Len(con.lines) + 1 /\ Len(con.lines) \in Nat
    BY <1>1, <2>1, AppendFacts
  <2>3. Len(Newest(q)) <= Len(q)
    BY <2>2, TailFacts DEF Newest
  <2> PICK n \in Nat : n = con.line_count + 1
    BY <1>1
  <2> PICK kept : kept = Newest(q)
    OBVIOUS
  <2>4. Len(kept) <= n
    <3>1. Len(q) <= n
      BY <2>2, <1>1
    <3>2. Len(kept) \in Nat
      BY <2>2, TailFacts DEF Newest
    <3> QED BY <3>1, <3>2, <2>2, <2>3
  <2>5. Apply(con, e) = [con EXCEPT !.lines = kept, !.line_count = n]
    BY <1>3 DEF Apply
  <2>6. Apply(con, e).lines = kept /\ Apply(con, e).line_count = n
    BY <2>5 DEF Consoles
  <2> QED BY <2>4, <2>6, <1>3
<1>4. CASE con.state = "open" /\ e.type # "line"
  <2>1. Apply(con, e) = [con EXCEPT !.status = e.status]
    BY <1>4 DEF Apply
  <2>2. Apply(con, e).lines = con.lines /\ Apply(con, e).line_count = con.line_count
    BY <2>1 DEF Consoles
  <2> QED BY <2>2, <1>4
<1> QED BY <1>2, <1>3, <1>4

LEMMA FlowConsole ==
  ASSUME GapInv, HandleConsole
  PROVE  \A t \in Streams : Tidy(t)' /\ \A k \in Kinds : FlowOK(t, k)'
<1>0. TypeOK /\ \A t \in Streams : Tidy(t) /\ \A k \in Kinds : FlowOK(t, k)
  BY DEF GapInv, ReachInv
<1>1. UNCHANGED <<proc, wire, poller>>
  BY DEF HandleConsole, host, tasks
<1>2. channel \in Seq(ConsoleEvents) /\ channel # <<>> /\ channel' = Tail(channel)
      /\ consoles \in [Streams -> Consoles]
  BY <1>0, Parts DEF TypeOK, HandleConsole
<1> PICK e \in ConsoleEvents : e = Head(channel)
  BY <1>2, TailFacts
<1> PICK s \in Streams : s = e.of
  BY DEF ConsoleEvents
<1> PICK con : con = Apply(consoles[s], e)
  OBVIOUS
<1>3. con \in Consoles /\ con.state = consoles[s].state
  BY <1>2, Applying
<1>4. consoles'[s] = con /\ \A t \in Streams \ {s} : consoles'[t] = consoles[t]
  BY <1>2 DEF HandleConsole
<1>5. \A t \in Streams : Ans(t)' = Ans(t)
  BY <1>1 DEF Ans
<1>6. \A t \in Streams : Asks(t)' <=> Asks(t)
  BY <1>1, <1>3, <1>4 DEF Asks
<1>7. MaxLines \in Nat
  BY BoundsAssumption
<1>8. ASSUME NEW t \in Streams \ {s} PROVE Tidy(t)' /\ \A k \in Kinds : FlowOK(t, k)'
  <2>1. Tidy(t)'
    <3>1. Tidy(t) /\ consoles'[t] = consoles[t]
      BY <1>0, <1>4
    <3> QED BY <3>1, <1>1 DEF Tidy
  <2>2. ASSUME NEW k \in Kinds PROVE FlowOK(t, k)'
    <3>1. PICK c \in 0..MaxLines, d \in 0..MaxLines :
             /\ Front(consoles[t], channel, t, k, c)
             /\ Upto(Nums(poller[t].todo, t, k), c, d)
             /\ Back(Asks(t), Ans(t), proc[t].entry, proc[t], k, d)
             /\ consoles[t].state \notin {"open", "closed"} => d = 0
      BY <1>0 DEF FlowOK
    <3>2. PICK b \in 0..MaxLines :
             /\ Upto(Nums(channel, t, k), b, c)
             /\ consoles[t].state # "closed" => Shown(consoles[t], k, b)
      BY <3>1 DEF Front
    <3>3. NumOf(e, t, k) = 0 /\ b \in Nat /\ c \in Nat
      BY EventNumbers, <1>7
    <3>4. Upto(Nums(channel', t, k), b, c)
      BY <3>2, <3>3, <1>2, EventsShrink
    <3>5. Front(consoles'[t], channel', t, k, c)
      BY <3>2, <3>4, <1>4 DEF Front
    <3> QED BY <3>1, <3>5, <1>1, <1>4, <1>5, <1>6 DEF FlowOK, Back
  <2> QED BY <2>1, <2>2
<1>9. Tidy(s)'
  <2>1. Tidy(s) /\ Len(con.lines) <= con.line_count
        /\ (consoles[s].state # "open" => con = consoles[s])
    <3>1. Tidy(s) /\ consoles[s] \in Consoles
      BY <1>0, <1>2
    <3> QED BY <3>1, ApplyTidy DEF Tidy
  <2> QED BY <2>1, <1>1, <1>3, <1>4 DEF Tidy
<1>10. ASSUME NEW k \in Kinds PROVE FlowOK(s, k)'
  <2>1. PICK c \in 0..MaxLines, d \in 0..MaxLines :
           /\ Front(consoles[s], channel, s, k, c)
           /\ Upto(Nums(poller[s].todo, s, k), c, d)
           /\ Back(Asks(s), Ans(s), proc[s].entry, proc[s], k, d)
           /\ consoles[s].state \notin {"open", "closed"} => d = 0
    BY <1>0 DEF FlowOK
  <2>2. PICK b \in 0..MaxLines :
           /\ Upto(Nums(channel, s, k), b, c)
           /\ consoles[s].state # "closed" => Shown(consoles[s], k, b)
    BY <2>1 DEF Front
  <2>3. b \in Nat /\ c \in Nat /\ c <= d /\ b <= c
    BY <2>1, <2>2, <1>7 DEF Upto
  <2>4. /\ NumOf(e, s, k) = 0 => Upto(Nums(channel', s, k), b, c)
        /\ NumOf(e, s, k) # 0 => /\ NumOf(e, s, k) = b + 1 /\ b + 1 <= c
                                 /\ Upto(Nums(channel', s, k), b + 1, c)
    BY <2>2, <2>3, <1>2, EventsShrink
  <2>5. b + 1 <= c => b + 1 \in 0..MaxLines /\ b + 1 <= MaxLines
    BY <2>3, <1>7
  <2>6. Front(con, channel', s, k, c)
    <3>1. CASE consoles[s].state = "open"
      <4>1. consoles[s] \in Consoles /\ Len(consoles[s].lines) <= consoles[s].line_count
        BY <1>0, <1>2 DEF Tidy
      <4>2. /\ NumOf(e, s, k) = 0 => Shown(con, k, b)
            /\ NumOf(e, s, k) = b + 1 /\ b + 1 <= MaxLines => Shown(con, k, b + 1)
        BY <4>1, <3>1, <2>2, ShownApply
      <4>3. CASE NumOf(e, s, k) = 0
        BY <4>2, <4>3, <2>4 DEF Front
      <4>4. CASE NumOf(e, s, k) # 0
        BY <4>2, <4>4, <2>4, <2>5 DEF Front
      <4> QED BY <4>3, <4>4
    <3>2. CASE consoles[s].state = "closed"
      <4>1. con.state = "closed"
        BY <3>2, <1>3
      <4>2. CASE NumOf(e, s, k) = 0
        BY <4>1, <4>2, <2>4 DEF Front
      <4>3. CASE NumOf(e, s, k) # 0
        BY <4>1, <4>3, <2>4, <2>5 DEF Front
      <4> QED BY <4>2, <4>3
    <3>3. CASE consoles[s].state \notin {"open", "closed"}
      <4>1. con = consoles[s]
        BY <3>3 DEF Apply
      <4>2. NumOf(e, s, k) = 0
        <5>1. d = 0
          BY <3>3, <2>1
        <5> QED BY <5>1, <2>3, <2>4
      <4> QED BY <4>1, <4>2, <2>2, <2>4 DEF Front
    <3> QED BY <3>1, <3>2, <3>3
  <2> QED BY <2>1, <2>6, <1>1, <1>3, <1>4, <1>5, <1>6 DEF FlowOK, Back
<1> QED BY <1>8, <1>9, <1>10

(* The steps that leave the way of the lines alone, or end a part of it.     *)
LEMMA FlowTasks ==
  ASSUME GapInv, NEW r \in Runs, Run(r) \/ ChildSteps(r) \/ RunSends(r)
  PROVE  \A t \in Streams : Tidy(t)' /\ \A k \in Kinds : FlowOK(t, k)'
<1>1. /\ UNCHANGED <<channel, proc, poller, consoles>>
      /\ \/ wire' = wire
         \/ wire.holder = r /\ \E a \in {Good, Bad} : Answered(a)
  <2>1. CASE ChildSteps(r)
    BY <2>1 DEF ChildSteps, ChildWrites, ChildEnds, ChildExits, ChildKilled, ChildRead, HeirEnds,
                Reports, tasks, shell, queues
  <2>2. CASE Run(r) \/ RunSends(r)
    BY <2>2 DEF Run, RunSends, host, tasks, shell, queues
  <2> QED BY <2>1, <2>2
<1>2. TypeOK
  BY DEF GapInv, ReachInv
<1>3. ASSUME NEW t \in Streams PROVE Ans(t)' = Ans(t)
  <2>1. CASE wire' = wire
    BY <2>1 DEF Ans
  <2>2. CASE wire.holder = r /\ \E a \in {Good, Bad} : Answered(a)
    <3>1. wire'.holder = r
      BY <2>2, <1>2, AnswersOK, Answering
    <3>2. r # t
      BY CallersAssumption
    <3> QED BY <3>1, <3>2, <2>2, OtherAnswers
  <2> QED BY <2>1, <2>2, <1>1
<1> QED BY <1>1, <1>3, FlowsQuiet

LEMMA FlowInvokes ==
  ASSUME GapInv, NEW s \in Streams, RunStreamed(s) \/ Terminate(s) \/ Close(s)
  PROVE  \A t \in Streams : Tidy(t)' /\ \A k \in Kinds : FlowOK(t, k)'
<1>1. TypeOK /\ consoles \in [Streams -> Consoles]
  BY Parts DEF GapInv, ReachInv
<1>2. UNCHANGED <<channel, proc, poller, wire>>
  BY DEF RunStreamed, Terminate, Close, host, tasks, queues
<1>3. CASE RunStreamed(s)
  <2>1. \E st \in {"failed", "asked", "starting"} : Becomes(s, st)
    BY <1>3 DEF RunStreamed
  <2>2. PICK st \in {"failed", "asked", "starting"} : Becomes(s, st)
    BY <2>1
  <2>3. /\ consoles'[s].state = st
        /\ consoles'[s].lines = consoles[s].lines
        /\ consoles'[s].line_count = consoles[s].line_count
        /\ \A t \in Streams \ {s} : consoles'[t] = consoles[t]
    BY <1>1, <2>2, Becoming
  <2> QED BY <2>3, <1>2, <1>3, FlowWindows DEF RunStreamed
<1>4. CASE consoles' = consoles
  BY <1>2, <1>4, FlowWindows
<1>5. CASE consoles[s].state = "open" /\ Removed(s)
  <2>1. /\ consoles'[s].state = "closed"
        /\ consoles'[s].lines = <<>> /\ consoles'[s].line_count = 0
        /\ \A t \in Streams \ {s} : consoles'[t] = consoles[t]
    BY <1>1, <1>5, Removing
  <2> QED BY <2>1, <1>2, <1>5, FlowWindows
<1> QED BY <1>3, <1>4, <1>5 DEF Terminate, Close

LEMMA FlowRespond ==
  ASSUME GapInv, NEW d \in dialogs, Respond(d)
  PROVE  \A t \in Streams : Tidy(t)' /\ \A k \in Kinds : FlowOK(t, k)'
<1>1. TypeOK /\ consoles \in [Streams -> Consoles] /\ \A t \in Streams : StreamOK(t)
  BY Parts DEF GapInv, ReachInv
<1>2. UNCHANGED <<channel, proc, poller, wire>>
  BY DEF Respond, host, queues
<1>3. CASE consoles' = consoles
  <2>1. \A t \in Streams : Ans(t)' = Ans(t)
    BY <1>2 DEF Ans
  <2> QED BY <2>1, <1>2, <1>3, FlowsQuiet
<1>4. CASE d.op = "stream" /\ \E st \in {"starting", "failed"} : Becomes(d.of, st)
  <2>1. d = [op |-> "stream", of |-> d.of] /\ d.of \in Streams
    BY <1>1, <1>4, RequestFacts
  <2> PICK s \in Streams : s = d.of
    BY <2>1
  <2>2. consoles[s].state = "asked"
    BY <2>1, <1>1 DEF StreamOK, ConsoleOK
  <2>3. PICK st \in {"starting", "failed"} : Becomes(s, st)
    BY <1>4
  <2>4. /\ consoles'[s].state = st
        /\ consoles'[s].lines = consoles[s].lines
        /\ consoles'[s].line_count = consoles[s].line_count
        /\ \A t \in Streams \ {s} : consoles'[t] = consoles[t]
    BY <1>1, <2>3, Becoming
  <2> QED BY <2>2, <2>4, <1>2, FlowWindows
<1> QED BY <1>3, <1>4 DEF Respond

LEMMA FlowEnds ==
  ASSUME GapInv, NEW s \in Streams, Ends(s)
  PROVE  \A t \in Streams : Tidy(t)' /\ \A k \in Kinds : FlowOK(t, k)'
<1>1. TypeOK /\ proc \in [Streams -> Procs] /\ Tidy(s) /\ \A k \in Kinds : FlowOK(s, k)
  BY Parts DEF GapInv, ReachInv
<1>2. UNCHANGED <<channel, wire, poller, consoles>>
  BY DEF Ends, tasks, shell, queues
<1>3. \A t \in Streams : Ans(t)' = Ans(t) /\ (Asks(t)' <=> Asks(t))
  BY <1>2 DEF Ans, Asks
<1> PICK p : p = [proc[s] EXCEPT !.state = "ended"]
  OBVIOUS
<1>4. /\ p.state = "ended" /\ p.entry = proc[s].entry /\ p.pending = proc[s].pending
      /\ p.read = proc[s].read
  BY <1>1 DEF Procs
<1>5. proc' = [proc EXCEPT ![s] = p]
  BY DEF Ends
<1>6. proc'[s] = p /\ \A t \in Streams \ {s} : proc'[t] = proc[t]
  BY <1>1, <1>5
<1>7. Tidy(s)'
  BY <1>1, <1>2, <1>4, <1>6 DEF Tidy
<1>8. Still(s)
  BY <1>2, <1>3, <1>4, <1>6 DEF Still
<1> QED BY <1>1, <1>2, <1>3, <1>6, <1>7, <1>8, FlowStill, FlowQuiet

LEMMA FlowReturns ==
  ASSUME GapInv, Return \/ Break \/ BridgeRestarts
  PROVE  \A t \in Streams : Tidy(t)' /\ \A k \in Kinds : FlowOK(t, k)'
<1>0. TypeOK /\ WireOK /\ \A t \in Streams : StreamOK(t)
  BY DEF GapInv, ReachInv
<1>1. \A t \in Streams : Kept(t)
  <2>1. CASE proc' = proc
    BY <2>1 DEF Kept
  <2>2. CASE BridgeRestarts
    <3>1. \A t \in Streams : Uprooted(t)
      BY <1>0, <2>2, RestartDoes
    <3> QED BY <3>1 DEF Kept, Uprooted
  <2> QED BY <2>1, <2>2 DEF Return, Break, host
<1>2. CASE wire.holder # None /\ Gives(wire.holder, Bad)
  BY <1>1, <1>2, FlowGives
<1>3. CASE Return
  <2>1. wire.holder # None
    BY <1>0, <1>3 DEF Return, WireOK
  <2> QED BY <2>1, <1>1, <1>3, FlowGives DEF Return
<1>4. CASE BridgeRestarts /\ wire.holder = None
  <2>1. UNCHANGED <<wire, channel, poller, consoles>>
    BY <1>4 DEF BridgeRestarts, tasks, shell, queues
  <2>2. ASSUME NEW t \in Streams PROVE Ans(t)' = Ans(t)
    BY <2>1 DEF Ans
  <2> QED BY <2>1, <2>2, <1>1, FlowKilled
<1>5. CASE BridgeRestarts /\ wire.holder # None
  BY <1>2, <1>5 DEF BridgeRestarts
<1> QED BY <1>2, <1>3, <1>4, <1>5 DEF Break

LEMMA GapInit ==
  ASSUME Init
  PROVE  GapInv
<1>1. ReachInv
  BY InitReach
<1>2. ASSUME NEW s \in Streams PROVE Tidy(s) /\ \A k \in Kinds : FlowOK(s, k)
  <2>1. /\ proc[s].state = "none" /\ proc[s].entry = FALSE /\ proc[s].pending = <<>>
        /\ \A k \in Kinds : proc[s].read[k] = 0
    BY DEF Init
  <2>2. /\ consoles[s].state = "none" /\ consoles[s].lines = <<>> /\ consoles[s].line_count = 0
        /\ poller[s].pc = "off" /\ poller[s].todo = <<>> /\ channel = <<>>
    BY DEF Init
  <2>3. Tidy(s)
    BY <2>1, <2>2 DEF Tidy
  <2>4. ASSUME NEW k \in Kinds PROVE FlowOK(s, k)
    <3>1. Upto(LineNums(<<>>, k), 0, 0) /\ Upto(Nums(<<>>, s, k), 0, 0)
      BY NoLines, NoEvents
    <3>2. 0 \in 0..MaxLines
      BY BoundsAssumption
    <3>3. Front(consoles[s], channel, s, k, 0)
      BY <2>2, <3>1, <3>2 DEF Front, Shown
    <3>4. Back(Asks(s), Ans(s), proc[s].entry, proc[s], k, 0)
      BY <2>1, <2>2 DEF Back, Asks
    <3> QED BY <2>2, <3>1, <3>2, <3>3, <3>4 DEF FlowOK
  <2> QED BY <2>3, <2>4
<1> QED BY <1>1, <1>2 DEF GapInv

LEMMA GapStep ==
  ASSUME GapInv, [Next]_vars
  PROVE  GapInv'
<1> DEFINE Flows == \A t \in Streams : Tidy(t)' /\ \A k \in Kinds : FlowOK(t, k)'
<1>1. ReachInv'
  BY ReachStep DEF GapInv
<1>2. CASE UNCHANGED <<channel, proc, poller, consoles, wire>>
  <2>1. \A t \in Streams : Ans(t)' = Ans(t)
    BY <1>2 DEF Ans
  <2> QED BY <1>2, <2>1, FlowsQuiet, <1>1 DEF GapInv
<1>3. ASSUME NEW r \in Runs, Run(r) \/ ChildSteps(r) \/ RunSends(r)
      PROVE  Flows
  BY <1>3, FlowTasks
<1>4. ASSUME NEW s \in Streams,
             RunStreamed(s) \/ Terminate(s) \/ Close(s) \/ Ends(s) \/ Poller(s)
      PROVE  Flows
  <2>1. CASE RunStreamed(s) \/ Terminate(s) \/ Close(s)
    BY <2>1, FlowInvokes
  <2>2. CASE Ends(s)
    BY <2>2, FlowEnds
  <2>3. CASE Poller(s)
    BY <2>3, FlowPolls
  <2> QED BY <1>4, <2>1, <2>2, <2>3
<1>5. ASSUME NEW s \in Streams, NEW k \in Kinds, Reads(s, k) PROVE Flows
  BY <1>5, FlowReads
<1>6. ASSUME NEW d \in dialogs, Respond(d) PROVE Flows
  BY <1>6, FlowRespond
<1>7. ASSUME NEW c \in Callers, Take(c) PROVE Flows
  <2>1. UNCHANGED <<channel, proc, poller, consoles>>
    BY <1>7 DEF Take, host, tasks, shell, queues
  <2>2. ASSUME NEW t \in Streams PROVE Ans(t)' = Ans(t)
    <3>1. wire.holder # t
      BY <1>7, CallersAssumption DEF Take
    <3>2. wire'.stage # "answered"
      BY <1>7 DEF Take
    <3> QED BY <3>1, <3>2, OtherAnswers
  <2> QED BY <2>1, <2>2, FlowsQuiet
<1>8. CASE Serve \/ Return \/ Break \/ BridgeRestarts \/ HandleConsole
  <2>1. Flows
    BY <1>8, FlowServe, FlowReturns, FlowConsole
  <2> QED BY <2>1, <1>1 DEF GapInv
<1>9. CASE HandleResult \/ UNCHANGED vars
  BY <1>2, <1>9 DEF HandleResult, vars, host, tasks, shell, queues
<1>10. Flows => GapInv'
  BY <1>1 DEF GapInv
<1> HIDE DEF Flows
<1> QED BY <1>3, <1>4, <1>5, <1>6, <1>7, <1>8, <1>9, <1>10 DEF Next, ChildSteps

LEMMA GapNoGap ==
  ASSUME GapInv
  PROVE  NoGap
<1>1. ASSUME NEW s \in Streams, NEW k \in Kinds
      PROVE  \E a, b \in 0..MaxLines :
                /\ Spans(consoles[s].lines, k, a, b)
                /\ consoles[s].line_count <= RingMax => a = 0
  <2>1. Tidy(s) /\ FlowOK(s, k)
    BY DEF GapInv
  <2>2. consoles[s] \in Consoles
    BY Parts DEF GapInv, ReachInv
  <2>3. consoles[s].lines \in Seq(Written)
    BY <2>2 DEF Consoles
  <2>4. CASE consoles[s].state = "closed"
    <3>1. consoles[s].lines = <<>>
      BY <2>1, <2>4 DEF Tidy
    <3>2. Spans(<<>>, k, 0, 0)
      BY DEF Spans
    <3>3. 0 \in 0..MaxLines
      BY BoundsAssumption
    <3> QED BY <3>1, <3>2, <3>3
  <2>5. CASE consoles[s].state # "closed"
    <3>1. PICK b \in 0..MaxLines : Shown(consoles[s], k, b)
      BY <2>1, <2>5 DEF FlowOK, Front
    <3>2. PICK a \in 0..MaxLines :
             /\ Upto(LineNums(consoles[s].lines, k), a, b)
             /\ consoles[s].line_count <= RingMax => a = 0
      BY <3>1 DEF Shown
    <3> PICK lines \in Seq(Written) : lines = consoles[s].lines
      BY <2>3
    <3>3. \A i \in DOMAIN lines : /\ lines[i][1] = k => lines[i][2] # 0
                                  /\ LineNum(lines[i], k) # 0 => lines[i] = <<k, LineNum(lines[i], k)>>
      <4> TAKE i \in DOMAIN lines
      <4>1. lines[i] \in Written
        OBVIOUS
      <4> PICK l \in Written : l = lines[i]
        BY <4>1
      <4>2. CASE l \in Kinds \X (1..MaxLines)
        <5>1. PICK m \in Kinds, n \in 1..MaxLines : l = <<m, n>>
          BY <4>2
        <5>2. n # 0 /\ l[1] = m /\ l[2] = n
          BY <5>1
        <5> QED BY <5>1, <5>2 DEF LineNum
      <4>3. CASE l = <<"notice", 0>>
        BY <4>3, KindsAssumption DEF LineNum
      <4> QED BY <4>2, <4>3 DEF Written
    <3>4. \A i \in DOMAIN lines : lines[i][1] = k => LineNum(lines[i], k) = lines[i][2]
      BY DEF LineNum
    <3>5. /\ \A i \in DOMAIN lines : LineNum(lines[i], k) # 0 =>
               /\ LineNum(lines[i], k) \in (a + 1)..b
               /\ \A j \in DOMAIN lines :
                    i < j /\ LineNum(lines[j], k) # 0 => LineNum(lines[i], k) < LineNum(lines[j], k)
          /\ \A n \in (a + 1)..b : \E i \in DOMAIN lines : LineNum(lines[i], k) = n
      BY <3>2 DEF Upto, LineNums
    <3>6. ASSUME NEW i \in DOMAIN lines, lines[i][1] = k
          PROVE  /\ lines[i][2] \in (a + 1)..b
                 /\ \A j \in DOMAIN lines : i < j /\ lines[j][1] = k => lines[i][2] < lines[j][2]
      BY <3>3, <3>4, <3>5, <3>6
    <3>7. ASSUME NEW n \in (a + 1)..b PROVE \E i \in DOMAIN lines : lines[i] = <<k, n>>
      <4>1. PICK i \in DOMAIN lines : LineNum(lines[i], k) = n
        BY <3>5
      <4>2. n # 0
        <5>1. a \in Nat
          BY BoundsAssumption
        <5> QED BY <5>1
      <4> QED BY <4>1, <4>2, <3>3
    <3>8. Spans(lines, k, a, b)
      BY <3>6, <3>7 DEF Spans
    <3> QED BY <3>2, <3>8
  <2> QED BY <2>4, <2>5
<1> QED BY <1>1 DEF NoGap

\* Whatever number of streams and pipes there is, a console shows the lines of
\* its process in order, none left out and none twice, but for the oldest that
\* its ring dropped; through broken connections, kills and restarts.
\* (exec_stream_poll, the polling task, apply_console_line)
THEOREM NoGapCorrect == Spec => []NoGap
<1>1. Init => GapInv
  BY GapInit
<1>2. GapInv /\ [Next]_vars => GapInv'
  BY GapStep
<1>3. GapInv => NoGap
  BY GapNoGap
<1> QED BY <1>1, <1>2, <1>3, PTL DEF Spec
=============================================================================
