---------------------------- MODULE AiStream_proofs ----------------------------
(***************************************************************************)
(* Proofs about AiStream, for any sessions, any number of messages, pieces *)
(* of text, turns and inputs, and any capacity of the channel: what is     *)
(* kept is a conversation, the answer is shown once, in order and whole,   *)
(* and the main loop's view agrees with the session.                       *)
(***************************************************************************)
EXTENDS AiStream, TLAPS

-----------------------------------------------------------------------------
(* Types.                                                                    *)

Tasks == [stage : Stages, history : Seq(Messages), out : Seq(Events), turn : Nat,
          pieces : Nat, tools : BOOLEAN, told : BOOLEAN]

CliTyped ==
  /\ cli \in [mode : Modes, session_name : Names \cup {Null},
              pending_action : Pending \cup {Null}, streaming_active : BOOLEAN]
  /\ cli.mode = "awaiting_api_key" <=> cli.pending_action # Null

ChatTyped ==
  /\ CliTyped
  /\ files \in [Names -> Seq(Messages) \cup {Null}]
  /\ chat_session \in Sessions \cup {Null}
  /\ order \in Orders \cup {Null}
  /\ order # Null => cli.mode # "awaiting_api_key"

FlowTyped ==
  /\ ai_cancel \in Sends \cup {Null} /\ stream_target \in BOOLEAN
  /\ stream_accum \in Seq(Pieces) /\ shown \in Seq(Pieces)
  /\ stream \in Seq(Events) /\ ai_response \in Seq(Sends)
  /\ overlapped \subseteq Sends

TaskTyped == task \in [Sends -> Tasks]

(* The lock of the chat session: who holds it works on an answer, who waits  *)
(* waits once, and the session stays while a message that has one works.     *)
Held == {"posted", "streaming", "tools", "sent", "failed"}

LockOK ==
  /\ holder \in Sends \cup {Null} /\ waiting \in Seq(Sends \cup {Main})
  /\ \A i, j \in DOMAIN waiting : waiting[i] = waiting[j] => i = j
  /\ \A i \in DOMAIN waiting : IF waiting[i] = Main THEN order # Null
                               ELSE task[waiting[i]].stage = "queued"
  /\ \A s \in Sends : task[s].stage \in Held <=> holder = s
  /\ \A s \in Sends : task[s].stage \in Held \ {"failed"} => chat_session # Null

(* Messages are sent in order, and one that is not at work has nothing to    *)
(* tell.                                                                     *)
TaskOK ==
  /\ \A s \in Sends : task[s].stage = "unsent" => task[s].pieces = 0 /\ task[s].told = FALSE
  /\ \A s \in Sends : task[s].stage \in {"unsent", "spawned", "queued", "ended"} => task[s].out = <<>>
  /\ \A r, s \in Sends : r < s /\ task[r].stage = "unsent" => task[s].stage = "unsent"

Base == ChatTyped /\ FlowTyped /\ TaskTyped /\ LockOK /\ TaskOK

LEMMA Nulls ==
  /\ Null \notin Names /\ Null \notin Pieces /\ Null \notin Sends /\ Main \notin Sends
  /\ Sends \subseteq Nat /\ Null \notin Sessions /\ Null \notin Orders
  /\ Null \notin Seq(Messages) /\ Null \notin Pending
BY ChatAssumption DEF Sends, Main

-----------------------------------------------------------------------------
(* Sequences.                                                                *)

LEMMA AppendFacts ==
  ASSUME NEW T, NEW q \in Seq(T), NEW e \in T
  PROVE  /\ Append(q, e) \in Seq(T) /\ Len(Append(q, e)) = Len(q) + 1
         /\ DOMAIN q = 1 .. Len(q) /\ Len(q) \in Nat
         /\ DOMAIN Append(q, e) = 1 .. Len(q) + 1
         /\ \A i \in 1 .. Len(q) : Append(q, e)[i] = q[i]
         /\ Append(q, e)[Len(q) + 1] = e
  OBVIOUS

LEMMA TailFacts ==
  ASSUME NEW T, NEW q \in Seq(T), q # <<>>
  PROVE  /\ Head(q) \in T /\ Head(q) = q[1] /\ Tail(q) \in Seq(T)
         /\ Len(q) \in Nat \ {0} /\ DOMAIN q = 1 .. Len(q)
         /\ Len(Tail(q)) = Len(q) - 1 /\ DOMAIN Tail(q) = 1 .. Len(q) - 1
         /\ \A i \in 1 .. Len(q) - 1 : Tail(q)[i] = q[i + 1]
  OBVIOUS

LEMMA ConcatFacts ==
  ASSUME NEW T, NEW p \in Seq(T), NEW q \in Seq(T)
  PROVE  /\ p \o q \in Seq(T) /\ Len(p) \in Nat /\ Len(q) \in Nat
         /\ DOMAIN (p \o q) = 1 .. Len(p) + Len(q) /\ Len(p \o q) = Len(p) + Len(q)
         /\ \A i \in 1 .. Len(p) : (p \o q)[i] = p[i]
         /\ \A i \in 1 .. Len(q) : (p \o q)[Len(p) + i] = q[i]
         /\ \A i \in Len(p) + 1 .. Len(p) + Len(q) : (p \o q)[i] = q[i - Len(p)]
  OBVIOUS

LEMMA ElementFacts ==
  ASSUME NEW T, NEW q \in Seq(T)
  PROVE  /\ Len(q) \in Nat /\ DOMAIN q = 1 .. Len(q) /\ \A i \in 1 .. Len(q) : q[i] \in T
         /\ q = <<>> <=> Len(q) = 0
  OBVIOUS

LEMMA Singleton ==
  ASSUME NEW T, NEW e \in T
  PROVE  <<e>> \in Seq(T) /\ Len(<<e>>) = 1 /\ <<e>>[1] = e /\ DOMAIN <<e>> = {1}
         /\ <<e>> # <<>> /\ <<>> \in Seq(T)
  OBVIOUS

-----------------------------------------------------------------------------
(* Events.                                                                   *)

Ends3 == {"Done", "Cancelled", "Error"}
IsEnd(e) == e.kind \in Ends3
Text(e)  == e.kind = "TextDelta"

LEMMA EventFacts ==
  /\ \A k \in Ends3 \cup {"ToolStart"} : Signal(k) \in Events
  /\ \A k : Signal(k).kind = k
  /\ \A p \in Pieces : TextDelta(p) \in Events /\ Text(TextDelta(p)) /\ ~IsEnd(TextDelta(p))
  /\ \A p : TextDelta(p).piece = p /\ TextDelta(p).kind = "TextDelta"
  /\ \A e \in Events : e.kind \in Ends3 \cup {"ToolStart", "TextDelta"}
  /\ \A e \in Events : Text(e) => e.piece \in Pieces /\ e = TextDelta(e.piece)
<1>1. \A k \in Ends3 \cup {"ToolStart"} : Signal(k) \in Events
  BY DEF Signal, Events, Ends3
<1>2. \A k : Signal(k).kind = k
  BY DEF Signal
<1>3. \A p \in Pieces : TextDelta(p) \in Events /\ Text(TextDelta(p)) /\ ~IsEnd(TextDelta(p))
  BY DEF TextDelta, Events, Text, IsEnd, Ends3
<1>4. \A p : TextDelta(p).piece = p /\ TextDelta(p).kind = "TextDelta"
  BY DEF TextDelta
<1>5. \A e \in Events : e.kind \in Ends3 \cup {"ToolStart", "TextDelta"}
  BY DEF Events, Ends3
<1>6. \A e \in Events : Text(e) => e.piece \in Pieces /\ e = TextDelta(e.piece)
  BY DEF Events, Text, TextDelta
<1> QED BY <1>1, <1>2, <1>3, <1>4, <1>5, <1>6

-----------------------------------------------------------------------------
(* What the steps do to the tasks.                                           *)

Others(s) == \A r \in Sends \ {s} : task'[r] = task[r]

(* The task of s comes to a stage with a history and events to send; what it *)
(* has told stays.                                                           *)
Took(s, stage, history, out) ==
  /\ TaskTyped' /\ Others(s)
  /\ task'[s].stage = stage /\ task'[s].history = history /\ task'[s].out = out
  /\ task'[s].pieces = task[s].pieces /\ task'[s].told = task[s].told

LEMMA TaskFields ==
  ASSUME TaskTyped, NEW s \in Sends
  PROVE  /\ task[s] \in Tasks /\ task[s].stage \in Stages /\ task[s].history \in Seq(Messages)
         /\ task[s].out \in Seq(Events) /\ task[s].turn \in Nat /\ task[s].pieces \in Nat
         /\ task[s].tools \in BOOLEAN /\ task[s].told \in BOOLEAN
BY DEF TaskTyped, Tasks

LEMMA BecomesTakes ==
  ASSUME TaskTyped, NEW s \in Sends, NEW stage \in Stages, NEW history \in Seq(Messages),
         NEW out \in Seq(Events), Becomes(s, stage, history, out)
  PROVE  Took(s, stage, history, out)
<1>1. task[s] \in Tasks
  BY TaskFields
<1>2. task' = [task EXCEPT ![s] = [@ EXCEPT !.stage = stage, !.history = history, !.out = out]]
  BY DEF Becomes
<1> DEFINE new == [task[s] EXCEPT !.stage = stage, !.history = history, !.out = out]
<1>3. /\ new \in Tasks /\ new.stage = stage /\ new.history = history /\ new.out = out
      /\ new.pieces = task[s].pieces /\ new.told = task[s].told
  BY <1>1 DEF Tasks
<1>4. task' = [task EXCEPT ![s] = new]
  BY <1>2
<1> HIDE DEF new
<1>5. task'[s] = new /\ Others(s) /\ TaskTyped'
  BY <1>3, <1>4 DEF TaskTyped, Others
<1> QED BY <1>3, <1>5 DEF Took

LEMMA StageTakes ==
  ASSUME TaskTyped, NEW s \in Sends, NEW stage \in Stages,
         \/ task' = [task EXCEPT ![s].stage = stage]
         \/ task' = [task EXCEPT ![s].stage = stage, ![s].tools = FALSE]
  PROVE  Took(s, stage, task[s].history, task[s].out)
<1>1. task[s] \in Tasks
  BY TaskFields
<1> PICK new : /\ task' = [task EXCEPT ![s] = new]
               /\ \/ new = [task[s] EXCEPT !.stage = stage]
                  \/ new = [task[s] EXCEPT !.stage = stage, !.tools = FALSE]
  OBVIOUS
<1>2. /\ new \in Tasks /\ new.stage = stage /\ new.history = task[s].history
      /\ new.out = task[s].out /\ new.pieces = task[s].pieces /\ new.told = task[s].told
  BY <1>1 DEF Tasks
<1>3. task'[s] = new /\ Others(s) /\ TaskTyped'
  BY <1>2 DEF TaskTyped, Others
<1> QED BY <1>2, <1>3 DEF Took

LEMMA TurnTakes ==
  ASSUME TaskTyped, NEW s \in Sends, NEW history \in Seq(Messages),
         task' = [task EXCEPT ![s].stage = "posted", ![s].history = history, ![s].turn = @ + 1]
  PROVE  Took(s, "posted", history, task[s].out)
<1>1. task[s] \in Tasks
  BY TaskFields
<1> DEFINE new == [task[s] EXCEPT !.stage = "posted", !.history = history, !.turn = @ + 1]
<1>2. /\ new \in Tasks /\ new.stage = "posted" /\ new.history = history
      /\ new.out = task[s].out /\ new.pieces = task[s].pieces /\ new.told = task[s].told
  <2>1. PICK n : n = task[s].turn + 1
    OBVIOUS
  <2>2. n \in Nat /\ "posted" \in Stages
    BY <1>1, <2>1 DEF Tasks, Stages
  <2>3. new = [task[s] EXCEPT !.stage = "posted", !.history = history, !.turn = n]
    BY <2>1
  <2> QED BY <2>2, <2>3, <1>1 DEF Tasks
<1>3. task' = [task EXCEPT ![s] = new]
  OBVIOUS
<1> HIDE DEF new
<1>4. task'[s] = new /\ \A r \in Sends \ {s} : task'[r] = task[r]
  BY <1>3 DEF TaskTyped
<1>5. task' \in [Sends -> Tasks]
  BY <1>2, <1>3 DEF TaskTyped
<1> QED BY <1>2, <1>4, <1>5 DEF Took, Others, TaskTyped

LEMMA EndsTakes ==
  ASSUME TaskTyped, NEW s \in Sends, Ends(s)
  PROVE  Took(s, "ended", <<>>, <<>>) /\ holder' = Null
<1>1. task[s].pieces \in Nat /\ task[s].told \in BOOLEAN
  BY TaskFields
<1> DEFINE new == [Fresh EXCEPT !.stage = "ended", !.pieces = task[s].pieces, !.told = task[s].told]
<1>2. /\ new \in Tasks /\ new.stage = "ended" /\ new.history = <<>>
      /\ new.out = <<>> /\ new.pieces = task[s].pieces /\ new.told = task[s].told
  <2>1. Fresh \in Tasks /\ Fresh.history = <<>> /\ Fresh.out = <<>> /\ "ended" \in Stages
    BY DEF Fresh, Tasks, Stages
  <2> QED BY <2>1, <1>1 DEF Tasks
<1>3. task' = [task EXCEPT ![s] = new] /\ holder' = Null
  BY DEF Ends
<1> HIDE DEF new
<1>4. task'[s] = new /\ Others(s) /\ TaskTyped'
  BY <1>2, <1>3 DEF TaskTyped, Others
<1> QED BY <1>2, <1>3, <1>4 DEF Took

(* A chunk: pieces with the next numbers, then the mark of a tool.           *)
Chunk(s, texts, out) ==
  /\ TaskTyped' /\ Others(s)
  /\ task'[s].stage = task[s].stage /\ task'[s].history = task[s].history
  /\ task'[s].told = task[s].told
  /\ task'[s].pieces = task[s].pieces + texts /\ task'[s].out = out
  /\ Len(out) \in {texts, texts + 1} /\ out \in Seq(Events)
  /\ \A i \in 1 .. texts : out[i] = TextDelta(<<s, task[s].pieces + i>>)
  /\ \A i \in 1 .. Len(out) : i > texts => out[i] = Signal("ToolStart")

LEMMA ReceiveDoes ==
  ASSUME TaskTyped, NEW s \in Sends, Receive(s)
  PROVE  \E texts \in Nat : \E out : Chunk(s, texts, out)
<1>1. task[s] \in Tasks /\ task[s].pieces \in Nat /\ task[s].tools \in BOOLEAN
  BY TaskFields
<1>2. PICK texts \in 0 .. MaxPieces, tool \in BOOLEAN :
        task' = [task EXCEPT
            ![s].pieces = @ + texts,
            ![s].tools = @ \/ tool,
            ![s].out = [i \in 1 .. texts |-> TextDelta(<<s, task[s].pieces + i>>)]
                         \o IF tool THEN <<Signal("ToolStart")>> ELSE <<>>]
  BY DEF Receive
<1>3. texts \in Nat
  BY <1>2, ChatAssumption
<1> DEFINE said == [i \in 1 .. texts |-> TextDelta(<<s, task[s].pieces + i>>)]
           mark == IF tool THEN <<Signal("ToolStart")>> ELSE <<>>
           out  == said \o mark
           new  == [task[s] EXCEPT !.pieces = @ + texts, !.tools = @ \/ tool, !.out = out]
<1>4. said \in Seq(Events) /\ Len(said) = texts
      /\ \A i \in 1 .. texts : said[i] = TextDelta(<<s, task[s].pieces + i>>)
  <2>1. \A i \in 1 .. texts : TextDelta(<<s, task[s].pieces + i>>) \in Events
    BY <1>1, <1>3, EventFacts DEF Pieces
  <2> QED BY <2>1, <1>3
<1>5. mark \in Seq(Events) /\ Len(mark) \in {0, 1}
      /\ \A i \in 1 .. Len(mark) : mark[i] = Signal("ToolStart")
  BY EventFacts, Singleton
<1>6. task' = [task EXCEPT ![s] = new]
  BY <1>2
<1> HIDE DEF said, mark
<1>7. /\ out \in Seq(Events) /\ Len(out) = texts + Len(mark)
      /\ \A i \in 1 .. texts : out[i] = said[i]
      /\ \A i \in texts + 1 .. texts + Len(mark) : out[i] = mark[i - texts]
  BY <1>4, <1>5, ConcatFacts
<1> HIDE DEF out
<1>8. /\ new \in Tasks /\ new.stage = task[s].stage /\ new.history = task[s].history
      /\ new.out = out /\ new.pieces = task[s].pieces + texts /\ new.told = task[s].told
  <2>1. (task[s].tools \/ tool) \in BOOLEAN
    OBVIOUS
  <2>2. task[s].pieces + texts \in Nat
    BY <1>1, <1>3
  <2> QED BY <2>1, <2>2, <1>1, <1>7 DEF Tasks
<1> HIDE DEF new
<1>9. task'[s] = new /\ Others(s) /\ TaskTyped'
  BY <1>8, <1>6 DEF TaskTyped, Others
<1>10. Len(out) \in {texts, texts + 1}
  BY <1>7, <1>5, <1>3
<1>11. \A i \in 1 .. Len(out) : i > texts => out[i] = Signal("ToolStart")
  BY <1>7, <1>5, <1>3
<1>12. Chunk(s, texts, out)
  BY <1>4, <1>7, <1>8, <1>9, <1>10, <1>11 DEF Chunk
<1> QED BY <1>12, <1>3

(* An event goes into the channel.                                           *)
Sent(s, e) ==
  /\ TaskTyped' /\ Others(s)
  /\ task[s].out # <<>> /\ e = task[s].out[1] /\ e \in Events
  /\ task'[s].stage = task[s].stage /\ task'[s].history = task[s].history
  /\ task'[s].pieces = task[s].pieces /\ task'[s].out = Tail(task[s].out)
  /\ task'[s].told = (task[s].told \/ IsEnd(e))
  /\ stream' = Append(stream, e)

LEMMA EmitDoes ==
  ASSUME TaskTyped, NEW s \in Sends, Emit(s)
  PROVE  \E e : Sent(s, e)
<1>1. task[s] \in Tasks /\ task[s].out \in Seq(Events) /\ task[s].told \in BOOLEAN
  BY TaskFields
<1>2. task[s].out # <<>>
  BY DEF Emit
<1> DEFINE e   == Head(task[s].out)
           new == [task[s] EXCEPT !.out = Tail(@), !.told = @ \/ IsEnd(e)]
<1>3. e \in Events /\ e = task[s].out[1] /\ Tail(task[s].out) \in Seq(Events)
  BY <1>1, <1>2, TailFacts
<1>4. task' = [task EXCEPT ![s] = new] /\ stream' = Append(stream, e)
  BY DEF Emit, IsEnd, Ends3
<1> HIDE DEF e
<1>5. (task[s].told \/ IsEnd(e)) \in BOOLEAN
  BY <1>1 DEF IsEnd
<1>6. /\ new \in Tasks /\ new.stage = task[s].stage /\ new.history = task[s].history
      /\ new.out = Tail(task[s].out) /\ new.pieces = task[s].pieces
      /\ new.told = (task[s].told \/ IsEnd(e))
  BY <1>1, <1>3, <1>5 DEF Tasks
<1> HIDE DEF new
<1>7. task'[s] = new /\ Others(s) /\ TaskTyped'
  BY <1>4, <1>6 DEF TaskTyped, Others
<1>8. Sent(s, e)
  BY <1>2, <1>3, <1>4, <1>6, <1>7 DEF Sent
<1> QED BY <1>8

-----------------------------------------------------------------------------
(* Histories.                                                                *)

(* A history whose last message calls tools that have no answer yet.         *)
Opened(h) ==
  /\ h # <<>> /\ h[Len(h)].role = "assistant"
  /\ \A i \in 1 .. Len(h) :
       /\ i = 1 => h[i].role = "user"
       /\ h[i].role = "results" => h[i - 1].role = "assistant"
       /\ h[i].tools => i = Len(h) \/ h[i + 1].role = "results"

HistOK ==
  /\ chat_session # Null => Conversation(chat_session.history)
  /\ \A n \in Names : files[n] # Null => Conversation(files[n])
  /\ order # Null /\ order.what \in Assigning => Conversation(order.session.history)
  /\ \A s \in Sends :
       /\ task[s].stage \in {"posted", "streaming"} =>
            task[s].history # <<>> /\ Conversation(task[s].history)
       /\ task[s].stage = "tools" => Opened(task[s].history)

LEMMA MessageFacts ==
  ASSUME NEW s \in Sends
  PROVE  /\ UserSays(s) \in Messages /\ UserSays(s).role = "user" /\ UserSays(s).tools = FALSE
         /\ ToolResults(s) \in Messages /\ ToolResults(s).role = "results"
         /\ ToolResults(s).tools = FALSE
         /\ \A t \in BOOLEAN : /\ AssistantSays(s, t) \in Messages
                               /\ AssistantSays(s, t).role = "assistant"
                               /\ AssistantSays(s, t).tools = t
BY DEF UserSays, ToolResults, AssistantSays, Messages

LEMMA Longer ==
  ASSUME NEW h \in Seq(Messages), NEW m \in Messages, NEW q, q = Append(h, m)
  PROVE  /\ q \in Seq(Messages) /\ Len(q) = Len(h) + 1 /\ Len(h) \in Nat
         /\ \A i \in 1 .. Len(h) : q[i] = h[i]
         /\ q[Len(h) + 1] = m /\ (h # <<>> => Len(h) # 0)
OBVIOUS

LEMMA AddUser ==
  ASSUME NEW s \in Sends, NEW h \in Seq(Messages), Conversation(h)
  PROVE  /\ Append(h, UserSays(s)) \in Seq(Messages) /\ Append(h, UserSays(s)) # <<>>
         /\ Conversation(Append(h, UserSays(s)))
<1> PICK m : m = UserSays(s)
  OBVIOUS
<1> PICK q : q = Append(h, m)
  OBVIOUS
<1>m. m \in Messages /\ m.role = "user" /\ m.tools = FALSE
  BY MessageFacts
<1>1. /\ q \in Seq(Messages) /\ Len(q) = Len(h) + 1 /\ Len(h) \in Nat
      /\ \A i \in 1 .. Len(h) : q[i] = h[i]
      /\ q[Len(h) + 1].role = "user" /\ q[Len(h) + 1].tools = FALSE
  BY <1>m, Longer
<1>2. Conversation(q)
  BY <1>1 DEF Conversation
<1>3. q # <<>>
  BY <1>1
<1> QED BY <1>1, <1>2, <1>3

LEMMA AddUncalled ==
  ASSUME NEW h \in Seq(Messages), Conversation(h), h # <<>>,
         NEW m \in Messages, m.role = "assistant", m.tools = FALSE
  PROVE  Append(h, m) \in Seq(Messages) /\ Conversation(Append(h, m))
<1> PICK q : q = Append(h, m)
  OBVIOUS
<1>1. /\ q \in Seq(Messages) /\ Len(q) = Len(h) + 1 /\ Len(h) \in Nat \ {0}
      /\ \A i \in 1 .. Len(h) : q[i] = h[i]
      /\ q[Len(h) + 1].role = "assistant" /\ q[Len(h) + 1].tools = FALSE
  BY Longer
<1>2. Conversation(q)
  BY <1>1 DEF Conversation
<1> QED BY <1>1, <1>2

LEMMA AddPartial ==
  ASSUME NEW s \in Sends, NEW h \in Seq(Messages), Conversation(h), h # <<>>
  PROVE  /\ Append(h, AssistantSays(s, FALSE)) \in Seq(Messages)
         /\ Conversation(Append(h, AssistantSays(s, FALSE)))
<1>1. /\ AssistantSays(s, FALSE) \in Messages /\ AssistantSays(s, FALSE).role = "assistant"
      /\ AssistantSays(s, FALSE).tools = FALSE
  BY DEF AssistantSays, Messages
<1> QED BY <1>1, AddUncalled

LEMMA AddAnswer ==
  ASSUME NEW s \in Sends, NEW t \in BOOLEAN, NEW h \in Seq(Messages), Conversation(h), h # <<>>
  PROVE  /\ Append(h, AssistantSays(s, t)) \in Seq(Messages)
         /\ Opened(Append(h, AssistantSays(s, t)))
<1> PICK m : m = AssistantSays(s, t)
  OBVIOUS
<1> PICK q : q = Append(h, m)
  OBVIOUS
<1>m. m \in Messages /\ m.role = "assistant"
  BY MessageFacts
<1>1. /\ q \in Seq(Messages) /\ Len(q) = Len(h) + 1 /\ Len(h) \in Nat \ {0}
      /\ \A i \in 1 .. Len(h) : q[i] = h[i]
      /\ q[Len(h) + 1].role = "assistant"
  BY <1>m, Longer
<1>2. Opened(q)
  BY <1>1 DEF Conversation, Opened
<1> QED BY <1>1, <1>2

LEMMA AddResults ==
  ASSUME NEW s \in Sends, NEW h \in Seq(Messages), Opened(h)
  PROVE  /\ Append(h, ToolResults(s)) \in Seq(Messages) /\ Append(h, ToolResults(s)) # <<>>
         /\ Conversation(Append(h, ToolResults(s)))
<1> PICK m : m = ToolResults(s)
  OBVIOUS
<1> PICK q : q = Append(h, m)
  OBVIOUS
<1>m. m \in Messages /\ m.role = "results" /\ m.tools = FALSE
  BY MessageFacts
<1>0. h # <<>> /\ Len(h) \in Nat \ {0}
  BY ElementFacts DEF Opened
<1>1. /\ q \in Seq(Messages) /\ Len(q) = Len(h) + 1 /\ Len(h) \in Nat \ {0}
      /\ \A i \in 1 .. Len(h) : q[i] = h[i]
      /\ q[Len(h) + 1].role = "results" /\ q[Len(h) + 1].tools = FALSE
  BY <1>0, <1>m, Longer
<1>2. Conversation(q)
  BY <1>1 DEF Conversation, Opened
<1>3. q # <<>>
  BY <1>1
<1> QED BY <1>1, <1>2, <1>3

-----------------------------------------------------------------------------
(* What the steps of the main loop do.                                       *)

Flow == <<loopVars, stream, shown, overlapped>>

(* A command of the user: it may have to wait for the lock.                  *)
Sits ==
  /\ UNCHANGED <<files, chat_session, holder, task, Flow>>
  /\ CliTyped' /\ (cli'.mode = "ai" => cli.mode = "ai")
  /\ order' # Null => cli'.mode # "awaiting_api_key"
  /\ cli'.streaming_active = cli.streaming_active
  /\ ai_response' \in Seq(Sends)
  /\ \/ UNCHANGED <<waiting, order>>
     \/ /\ order = Null /\ order' \in Orders /\ waiting' = Append(waiting, Main)
        /\ order'.what \in Assigning => Conversation(order'.session.history)

LEMMA ToShellFacts ==
  ASSUME CliTyped
  PROVE  /\ ToShell.mode = "shell" /\ ToShell.streaming_active = cli.streaming_active
         /\ ToShell.pending_action = Null
         /\ ToShell \in [mode : Modes, session_name : Names \cup {Null},
                         pending_action : Pending \cup {Null}, streaming_active : BOOLEAN]
BY DEF CliTyped, ToShell, Modes

LEMMA MadeFacts ==
  ASSUME ChatTyped, HistOK, NEW start \in BOOLEAN, NEW name \in Names, NEW o \in Made(start, name)
  PROVE  /\ o = Order("assign", name, o.session) /\ o.session \in Sessions
         /\ Conversation(o.session.history)
<1>1. CASE start
  <2>1. o = Order("assign", name, Session(name, <<>>))
    BY <1>1 DEF Made
  <2>2. o.session = Session(name, <<>>)
    BY <2>1 DEF Order
  <2>3. Session(name, <<>>) \in Sessions /\ Conversation(Session(name, <<>>).history)
    BY DEF Session, Sessions, Conversation
  <2> QED BY <2>1, <2>2, <2>3
<1>2. CASE ~start
  <2>1. o = Order("assign", name, Session(name, files[name])) /\ files[name] # Null
    BY <1>2 DEF Made
  <2>2. o.session = Session(name, files[name])
    BY <2>1 DEF Order
  <2>3. files[name] \in Seq(Messages) /\ Conversation(files[name])
    BY <2>1 DEF ChatTyped, HistOK
  <2>4. Session(name, files[name]) \in Sessions /\ Session(name, files[name]).history = files[name]
    BY <2>3 DEF Session, Sessions
  <2> QED BY <2>1, <2>2, <2>3, <2>4
<1> QED BY <1>1, <1>2

LEMMA OrderFacts ==
  ASSUME NEW name \in Names, NEW session \in Sessions
  PROVE  /\ \A what \in Assigning : /\ Order(what, name, session) \in Orders
                                    /\ Order(what, name, session).what \in Assigning
                                    /\ Order(what, name, session).session = session
         /\ Order("check", name, Null) \in Orders /\ Order("check", name, Null).what = "check"
         /\ Order("exit", Null, Null) \in Orders /\ Order("exit", Null, Null).what = "exit"
BY DEF Order, Orders

LEMMA CommandSits ==
  ASSUME ChatTyped, FlowTyped, HistOK,
         \/ \E start \in BOOLEAN, name \in Names : StartOrLoad(start, name) \/ AskForKey(start, name)
         \/ GiveUpKey \/ RefuseKey \/ AcceptKey \/ Exit
  PROVE  Sits
<1>0. /\ UNCHANGED <<files, task, Flow>> /\ ai_response' \in Seq(Sends) /\ LoopIsFree
  BY DEF FlowTyped, StartOrLoad, AskForKey, GiveUpKey, RefuseKey, AcceptKey, Exit, Unstreamed, Flow,
         loopVars, taskVars, Command
<1> DEFINE NoWait == UNCHANGED <<chat_session, holder, waiting, order>>
           Waits  == /\ UNCHANGED <<chat_session, holder>>
                     /\ order' \in Orders /\ waiting' = Append(waiting, Main)
                     /\ order'.what \in Assigning => Conversation(order'.session.history)
           CliSits == /\ CliTyped' /\ (cli'.mode = "ai" => cli.mode = "ai")
                      /\ cli'.streaming_active = cli.streaming_active
<1>1. ASSUME cli' = cli PROVE CliSits
  BY <1>1 DEF ChatTyped, CliTyped
<1>2. ASSUME cli' = ToShell PROVE CliSits
  BY <1>2, ToShellFacts DEF ChatTyped, CliTyped
<1>k. order' # Null => cli'.mode # "awaiting_api_key"
  BY <1>0, ToShellFacts DEF StartOrLoad, AskForKey, GiveUpKey, RefuseKey, AcceptKey, Exit, WaitFor,
       lockVars, LoopIsFree, ChatTyped
<1>3. ASSUME NEW start \in BOOLEAN, NEW name \in Names, StartOrLoad(start, name)
      PROVE  Sits
  <2>1. CASE \E o \in Made(start, name) : WaitFor(o)
    <3>1. PICK o \in Made(start, name) : WaitFor(o)
      BY <2>1
    <3>2. /\ o = Order("assign", name, o.session) /\ o.session \in Sessions
          /\ Conversation(o.session.history)
      BY MadeFacts
    <3>3. o \in Orders
      BY <3>2, OrderFacts DEF Assigning
    <3> QED BY <3>1, <3>2, <3>3, <1>0, <1>k, <1>1, <1>3 DEF Sits, WaitFor, StartOrLoad, LoopIsFree
  <2>2. CASE WaitFor(Order("check", name, Null))
    <3>1. Order("check", name, Null) \in Orders /\ Order("check", name, Null).what = "check"
      BY DEF Order, Orders
    <3> QED BY <3>1, <2>2, <1>0, <1>k, <1>1, <1>3 DEF Sits, WaitFor, StartOrLoad, LoopIsFree, Assigning
  <2> QED BY <2>1, <2>2, <1>3 DEF StartOrLoad
<1>4. ASSUME NEW start \in BOOLEAN, NEW name \in Names, AskForKey(start, name)
      PROVE  Sits
  <2>1. cli' = [cli EXCEPT !.mode = "awaiting_api_key",
                           !.pending_action = [start |-> start, name |-> name]]
    BY <1>4 DEF AskForKey
  <2>2. [start |-> start, name |-> name] \in Pending /\ "awaiting_api_key" \in Modes
    BY DEF Pending, Modes
  <2>3. [start |-> start, name |-> name] # Null
    BY <2>2, Nulls
  <2>4. CliSits
    BY <2>1, <2>2, <2>3 DEF ChatTyped, CliTyped
  <2> QED BY <2>4, <1>4, <1>0, <1>k DEF Sits, AskForKey, lockVars
<1>5. CASE GiveUpKey
  BY <1>5, <1>0, <1>k, <1>2 DEF Sits, GiveUpKey, lockVars
<1>6. CASE RefuseKey
  BY <1>6, <1>0, <1>k, <1>1 DEF Sits, RefuseKey, lockVars
<1>7. CASE AcceptKey
  <2>1. CliSits
    BY <1>7, <1>2 DEF AcceptKey
  <2>2. CASE UNCHANGED lockVars
    BY <2>1, <2>2, <1>0, <1>k DEF Sits, lockVars
  <2>3. CASE \E o \in Made(cli.pending_action.start, cli.pending_action.name) :
               WaitFor(Order("assign with key", cli.pending_action.name, o.session))
    <3>1. cli.pending_action \in Pending
      BY <1>7, Nulls DEF AcceptKey, Command, ChatTyped, CliTyped
    <3>2. cli.pending_action.start \in BOOLEAN /\ cli.pending_action.name \in Names
      BY <3>1 DEF Pending
    <3>3. PICK o \in Made(cli.pending_action.start, cli.pending_action.name) :
               WaitFor(Order("assign with key", cli.pending_action.name, o.session))
      BY <2>3
    <3>4. /\ o = Order("assign", cli.pending_action.name, o.session) /\ o.session \in Sessions
          /\ Conversation(o.session.history)
      BY <3>2, MadeFacts
    <3>5. PICK session : session = o.session
      OBVIOUS
    <3>6. session \in Sessions /\ Conversation(session.history)
      BY <3>4, <3>5
    <3>8. order' = Order("assign with key", cli.pending_action.name, session)
      BY <3>3, <3>5 DEF WaitFor
    <3>9. order' \in Orders /\ order'.session = session
      BY <3>8, <3>6, <3>2, OrderFacts DEF Assigning
    <3> QED BY <3>3, <3>6, <3>9, <2>1, <1>0, <1>k DEF Sits, WaitFor, LoopIsFree
  <2> QED BY <2>2, <2>3, <1>7 DEF AcceptKey
<1>8. CASE Exit
  <2>1. Order("exit", Null, Null) \in Orders /\ Order("exit", Null, Null).what = "exit"
    BY DEF Order, Orders
  <2> QED BY <2>1, <1>8, <1>0, <1>k, <1>1 DEF Sits, WaitFor, Exit, LoopIsFree, Assigning
<1> QED BY <1>3, <1>4, <1>5, <1>6, <1>7, <1>8

(* The main loop is granted the lock: it has put a session there and queues  *)
(* again, or its command is done.                                            *)
Grants ==
  /\ UNCHANGED <<files, holder, task, ai_response, Flow>>
  /\ holder = Null /\ waiting # <<>> /\ waiting[1] = Main /\ order # Null
  /\ CliTyped' /\ cli'.streaming_active = cli.streaming_active
  /\ \/ /\ chat_session' \in Sessions /\ Conversation(chat_session'.history)
        /\ order' \in Orders /\ order'.what = "check"
        /\ waiting' = Append(Tail(waiting), Main) /\ cli' = cli
     \/ /\ order' = Null /\ waiting' = Tail(waiting)
        /\ \/ chat_session' = chat_session /\ (cli' = cli \/ chat_session # Null)
           \/ chat_session' = Null /\ cli'.mode = "shell"

LEMMA GrantMainGrants ==
  ASSUME ChatTyped, FlowTyped, LockOK, HistOK, GrantMain
  PROVE  Grants
<1>1. /\ UNCHANGED <<files, holder, task, ai_response, Flow>>
      /\ holder = Null /\ waiting # <<>> /\ Head(waiting) = Main
  BY DEF GrantMain, Flow, loopVars, taskVars
<1>2. waiting[1] = Main /\ 1 \in DOMAIN waiting
  BY <1>1, TailFacts DEF LockOK
<1>3. order \in Orders /\ order # Null
  BY <1>2 DEF LockOK, ChatTyped
<1>4. CASE order.what \in Assigning
  <2>1. order.name \in Names /\ order.session \in Sessions
    BY <1>3, <1>4 DEF Orders, Assigning
  <2>2. Conversation(order.session.history)
    BY <1>3, <1>4 DEF HistOK
  <2>3. /\ chat_session' = order.session /\ order' = Order("check", order.name, Null)
        /\ waiting' = Append(Tail(waiting), Main) /\ cli' = cli
    BY <1>4 DEF GrantMain, Assigning
  <2>4. order' \in Orders /\ order'.what = "check"
    BY <2>1, <2>3 DEF Order, Orders
  <2>5. CliTyped'
    BY <2>3 DEF ChatTyped, CliTyped
  <2> QED BY <1>1, <1>2, <1>3, <2>1, <2>2, <2>3, <2>4, <2>5 DEF Grants
<1>5. CASE order.what = "check"
  <2>1. /\ order' = Null /\ waiting' = Tail(waiting) /\ chat_session' = chat_session
        /\ cli' = IF chat_session = Null THEN cli
                  ELSE [cli EXCEPT !.mode = "ai", !.session_name = order.name]
    BY <1>5 DEF GrantMain, Assigning
  <2>2. order.name \in Names /\ "ai" \in Modes
    BY <1>3, <1>5 DEF Orders, Modes, Assigning
  <2>3. CliTyped' /\ cli'.streaming_active = cli.streaming_active
    <3>1. CASE chat_session = Null
      BY <2>1, <3>1 DEF ChatTyped, CliTyped
    <3>2. CASE chat_session # Null
      <4>1. cli.mode # "awaiting_api_key"
        BY <1>3 DEF ChatTyped
      <4> QED BY <2>1, <2>2, <3>2, <4>1 DEF ChatTyped, CliTyped
    <3> QED BY <3>1, <3>2
  <2> QED BY <1>1, <1>2, <1>3, <2>1, <2>3 DEF Grants
<1>6. CASE order.what = "exit"
  <2>1. /\ order' = Null /\ waiting' = Tail(waiting) /\ chat_session' = Null /\ cli' = ToShell
    BY <1>6 DEF GrantMain, Assigning
  <2>2. CliTyped' /\ cli'.streaming_active = cli.streaming_active /\ cli'.mode = "shell"
    BY <2>1, ToShellFacts DEF ChatTyped, CliTyped
  <2> QED BY <1>1, <1>2, <1>3, <2>1, <2>2 DEF Grants
<1> QED BY <1>3, <1>4, <1>5, <1>6 DEF Orders, Assigning

(* A message is sent: the locals of the main loop are its own.               *)
Speaks(s) ==
  /\ Took(s, "spawned", task[s].history, task[s].out)
  /\ task[s].stage = "unsent" /\ \A r \in Sends : r < s => task[r].stage # "unsent"
  /\ ai_cancel' = s /\ stream_target' = TRUE /\ stream_accum' = <<>>
  /\ overlapped' = IF stream = <<>> /\ \A r \in Sends : Idle(r) THEN overlapped
                   ELSE overlapped \cup 1 .. s
  /\ UNCHANGED <<cli, files, lockVars, stream, ai_response, shown>>

LEMMA AiSendSpeaks ==
  ASSUME TaskTyped, NEW s \in Sends, AiSend(s)
  PROVE  Speaks(s)
<1>1. Took(s, "spawned", task[s].history, task[s].out)
  BY StageTakes DEF AiSend, Stages
<1>2. \A r \in Sends : r < s => task[r].stage # "unsent"
  BY ChatAssumption DEF AiSend, Sends
<1> QED BY <1>1, <1>2 DEF AiSend, Speaks, cliVars

(* An event is handled: its text is kept for the screen, or what has come    *)
(* together goes to lines, if the message still has a place.                 *)
Handles(e) ==
  /\ UNCHANGED <<files, lockVars, ai_response, task, overlapped>>
  /\ stream # <<>> /\ stream' = Tail(stream) /\ e = stream[1] /\ e \in Events
  /\ CliTyped' /\ cli'.mode = cli.mode
  /\ \/ /\ Text(e) /\ stream_accum' = Append(stream_accum, e.piece)
        /\ UNCHANGED <<shown, ai_cancel, stream_target>>
        /\ cli'.streaming_active => cli.streaming_active \/ stream_target
     \/ /\ ~Text(e) /\ stream_accum' = <<>>
        /\ shown' = IF stream_target THEN shown \o stream_accum ELSE shown
        /\ \/ /\ ~IsEnd(e) /\ UNCHANGED <<ai_cancel, stream_target>>
              /\ cli'.streaming_active => cli.streaming_active \/ stream_target
           \/ /\ IsEnd(e) /\ stream_target' = FALSE /\ ai_cancel' = Null
              /\ cli'.streaming_active => cli.streaming_active /\ ~stream_target

LEMMA HandleEventHandles ==
  ASSUME ChatTyped, FlowTyped, HandleEvent
  PROVE  \E e : Handles(e)
<1> PICK e : e = Head(stream)
  OBVIOUS
<1>1. /\ UNCHANGED <<files, lockVars, ai_response, task, overlapped>>
      /\ stream # <<>> /\ stream' = Tail(stream)
  BY DEF HandleEvent, taskVars
<1>2. e = stream[1] /\ e \in Events
  BY <1>1, TailFacts DEF FlowTyped
<1>3. e.kind \in Ends3 \cup {"ToolStart", "TextDelta"}
  BY <1>2, EventFacts
<1>4. /\ e.kind = "TextDelta" => HandleText(e.piece)
      /\ e.kind = "ToolStart" => HandleToolStart
      /\ e.kind \in Ends3 => HandleEnd
  BY <1>3 DEF HandleEvent, Ends3
<1>5. ASSUME cli' = cli \/ (\E a \in BOOLEAN : SetStreaming(a))
      PROVE  CliTyped' /\ cli'.mode = cli.mode
  <2>1. CASE cli' = cli
    BY <2>1 DEF ChatTyped, CliTyped
  <2>2. CASE \E a \in BOOLEAN : SetStreaming(a)
    <3> PICK a \in BOOLEAN : cli' = [cli EXCEPT !.streaming_active = a]
      BY <2>2 DEF SetStreaming
    <3> QED BY DEF ChatTyped, CliTyped
  <2> QED BY <1>5, <2>1, <2>2
<1>6. CASE Text(e)
  <2>1. HandleText(e.piece)
    BY <1>6, <1>4 DEF Text
  <2>2. CliTyped' /\ cli'.mode = cli.mode
    BY <2>1, <1>5 DEF HandleText
  <2>3. cli'.streaming_active => cli.streaming_active \/ stream_target
    BY <2>1 DEF HandleText
  <2> QED BY <1>1, <1>2, <1>6, <2>1, <2>2, <2>3 DEF HandleText, Handles
<1>7. CASE e.kind = "ToolStart"
  <2>1. HandleToolStart /\ ~Text(e) /\ ~IsEnd(e)
    BY <1>7, <1>4 DEF Text, IsEnd, Ends3
  <2>2. CliTyped' /\ cli'.mode = cli.mode
    BY <2>1, <1>5 DEF HandleToolStart, CommitLines
  <2>3. cli'.streaming_active => cli.streaming_active \/ stream_target
    BY <2>1 DEF HandleToolStart
  <2>4. shown' = IF stream_target THEN shown \o stream_accum ELSE shown
    BY <2>1 DEF HandleToolStart, CommitLines
  <2> QED BY <1>1, <1>2, <2>1, <2>2, <2>3, <2>4 DEF HandleToolStart, Handles
<1>8. CASE e.kind \in Ends3
  <2>1. HandleEnd /\ ~Text(e) /\ IsEnd(e)
    BY <1>8, <1>4 DEF Text, IsEnd, Ends3
  <2>2. CliTyped' /\ cli'.mode = cli.mode
    BY <2>1, <1>5 DEF HandleEnd, CommitLines
  <2>3. cli'.streaming_active => cli.streaming_active /\ ~stream_target
    <3>1. CASE stream_target
      <4>1. cli' = [cli EXCEPT !.streaming_active = FALSE]
        BY <2>1, <3>1 DEF HandleEnd, CommitLines, SetStreaming
      <4> QED BY <4>1 DEF ChatTyped, CliTyped
    <3>2. CASE ~stream_target
      BY <2>1, <3>2 DEF HandleEnd
    <3> QED BY <3>1, <3>2
  <2>4. shown' = IF stream_target THEN shown \o stream_accum ELSE shown
    BY <2>1 DEF HandleEnd, CommitLines
  <2> QED BY <1>1, <1>2, <2>1, <2>2, <2>3, <2>4 DEF HandleEnd, Handles
<1>9. Text(e) \/ e.kind = "ToolStart" \/ e.kind \in Ends3
  BY <1>3 DEF Text
<1> QED BY <1>6, <1>7, <1>8, <1>9

-----------------------------------------------------------------------------
(* What the steps of the tasks do.                                           *)

Queues(s) ==
  /\ Took(s, "queued", <<>>, <<>>) /\ task[s].stage = "spawned" /\ task[s].out = <<>>
  /\ waiting' = Append(waiting, s)
  /\ UNCHANGED <<cli, files, chat_session, holder, order, ai_response, Flow>>

LEMMA EnqueueQueues ==
  ASSUME TaskTyped, NEW s \in Sends, Enqueue(s)
  PROVE  Queues(s)
<1>1. Took(s, "queued", <<>>, <<>>)
  <2>1. "queued" \in Stages /\ <<>> \in Seq(Messages) /\ <<>> \in Seq(Events)
    BY DEF Stages
  <2> QED BY <2>1, BecomesTakes DEF Enqueue
<1> QED BY <1>1 DEF Enqueue, Queues, At, Unlocked, cliVars, Flow

(* The message whose task holds the lock goes on: it can send only the event *)
(* that ends it, and what it leaves in the session is a conversation.        *)
Advances(s, stage, history, out) ==
  /\ Took(s, stage, history, out) /\ stage \in Held
  /\ stage # "failed" => chat_session # Null
  /\ \/ chat_session' = chat_session
     \/ /\ chat_session # Null /\ chat_session' \in Sessions
        /\ Conversation(chat_session'.history)
  /\ stage \in {"posted", "streaming"} => history # <<>> /\ Conversation(history)
  /\ stage = "tools" => Opened(history)
  /\ \/ out = <<>>
     \/ stage \in {"sent", "failed"} /\ \E k \in Ends3 : out = <<Signal(k)>>

Works(s) ==
  /\ task[s].out = <<>> /\ holder' = s
  /\ \E stage, history, out : Advances(s, stage, history, out)
  /\ \/ /\ holder = Null /\ waiting # <<>> /\ waiting[1] = s
        /\ waiting' = Tail(waiting) /\ task[s].stage = "queued"
     \/ holder = s /\ waiting' = waiting /\ task[s].stage \in {"posted", "streaming", "tools"}
  /\ UNCHANGED <<cli, files, order, ai_response, Flow>>

LEMMA EndSignal ==
  ASSUME NEW k \in Ends3
  PROVE  <<Signal(k)>> \in Seq(Events)
BY EventFacts

LEMMA PutBackAdvances ==
  ASSUME TaskTyped, ChatTyped, chat_session # Null, NEW s \in Sends, NEW k \in Ends3,
         NEW history \in Seq(Messages), Conversation(history), PutBack(s, history, k)
  PROVE  \E stage, out : Advances(s, stage, history, out)
<1>1. Took(s, "sent", history, <<Signal(k)>>)
  BY BecomesTakes, EndSignal DEF PutBack, Stages
<1>2. chat_session' \in Sessions /\ chat_session'.history = history
  BY DEF PutBack, ChatTyped, Sessions
<1>3. Advances(s, "sent", history, <<Signal(k)>>)
  BY <1>1, <1>2 DEF Advances, Held
<1> QED BY <1>3

LEMMA NextTurnAdvances ==
  ASSUME TaskTyped, ChatTyped, chat_session # Null, NEW s \in Sends, task[s].out = <<>>,
         NEW history \in Seq(Messages), Conversation(history), history # <<>>, NextTurn(s, history)
  PROVE  \E stage, out : Advances(s, stage, history, out)
<1>1. CASE task[s].turn = MaxTurns
  BY <1>1, PutBackAdvances DEF NextTurn, Complete, Ends3
<1>2. CASE task[s].turn # MaxTurns /\ s \in cancelled
  <2>1. Becomes(s, "sent", history, <<Signal("Cancelled")>>) /\ chat_session' = chat_session
    BY <1>2 DEF NextTurn
  <2>2. Took(s, "sent", history, <<Signal("Cancelled")>>)
    BY <2>1, BecomesTakes, EndSignal DEF Stages, Ends3
  <2>3. Advances(s, "sent", history, <<Signal("Cancelled")>>)
    BY <2>1, <2>2 DEF Advances, Held, Ends3
  <2> QED BY <2>3
<1>3. CASE task[s].turn # MaxTurns /\ s \notin cancelled
  <2>1. /\ task' = [task EXCEPT ![s].stage = "posted", ![s].history = history, ![s].turn = @ + 1]
        /\ chat_session' = chat_session
    BY <1>3 DEF NextTurn
  <2>2. Took(s, "posted", history, <<>>)
    BY <2>1, TurnTakes
  <2>3. Advances(s, "posted", history, <<>>)
    BY <2>1, <2>2 DEF Advances, Held
  <2> QED BY <2>3
<1> QED BY <1>1, <1>2, <1>3

LEMMA GrantTaskWorks ==
  ASSUME TaskTyped, ChatTyped, LockOK, TaskOK, HistOK, NEW s \in Sends, GrantTask(s)
  PROVE  Works(s)
<1>1. /\ holder = Null /\ waiting # <<>> /\ waiting[1] = s /\ 1 \in DOMAIN waiting
      /\ holder' = s /\ waiting' = Tail(waiting)
      /\ UNCHANGED <<cli, files, order, ai_response, Flow>>
  BY TailFacts DEF GrantTask, LockOK, Unlocked, cliVars, Flow
<1>2. task[s].stage = "queued" /\ task[s].out = <<>>
  BY <1>1, Nulls DEF LockOK, TaskOK
<1>3. \E stage, history, out : Advances(s, stage, history, out)
  <2>1. CASE chat_session = Null
    <3>1. Becomes(s, "failed", <<>>, <<>>) /\ chat_session' = chat_session
      BY <2>1 DEF GrantTask
    <3>2. "failed" \in Stages /\ <<>> \in Seq(Messages) /\ <<>> \in Seq(Events)
      BY DEF Stages
    <3>3. Took(s, "failed", <<>>, <<>>)
      BY <3>1, <3>2, BecomesTakes
    <3>4. Advances(s, "failed", <<>>, <<>>)
      BY <3>1, <3>3 DEF Advances, Held
    <3> QED BY <3>4
  <2>2. CASE chat_session # Null
    <3>1. chat_session.history \in Seq(Messages) /\ Conversation(chat_session.history)
      BY <2>2 DEF ChatTyped, Sessions, HistOK
    <3>2. NextTurn(s, Append(chat_session.history, UserSays(s)))
      BY <2>2 DEF GrantTask
    <3> QED BY <1>2, <2>2, <3>1, <3>2, AddUser, NextTurnAdvances
  <2> QED BY <2>1, <2>2
<1> QED BY <1>1, <1>2, <1>3 DEF Works

(* The lock is held by the one at work.                                      *)
LEMMA AtWork ==
  ASSUME LockOK, NEW s \in Sends, task[s].stage \in Held
  PROVE  holder = s /\ (task[s].stage # "failed" => chat_session # Null)
BY DEF LockOK, Held

LEMMA AnswerWorks ==
  ASSUME TaskTyped, ChatTyped, LockOK, TaskOK, HistOK, NEW s \in Sends,
         Posted(s) \/ BreakOff(s) \/ EndOfStream(s) \/ Cut(s) \/ CallTools(s)
  PROVE  Works(s)
<1>1. /\ task[s].out = <<>> /\ UNCHANGED <<holder, waiting>>
      /\ UNCHANGED <<cli, files, order, ai_response, Flow>>
      /\ task[s].stage \in {"posted", "streaming", "tools"}
  BY DEF Posted, BreakOff, EndOfStream, Cut, CallTools, At, InTask, Answering, Unlocked, cliVars,
         Flow, lockVars
<1>2. holder = s /\ chat_session # Null
  BY <1>1, AtWork DEF Held
<1>3. task[s].history \in Seq(Messages) /\ task[s].tools \in BOOLEAN
  BY TaskFields
<1>4. /\ task[s].stage \in {"posted", "streaming"} =>
           task[s].history # <<>> /\ Conversation(task[s].history)
      /\ task[s].stage = "tools" => Opened(task[s].history)
  BY DEF HistOK
<1>5. CASE Posted(s)
  <2>1. task[s].stage = "posted" /\ chat_session' = chat_session
    BY <1>5 DEF Posted, At, lockVars
  <2>2. CASE task' = [task EXCEPT ![s].stage = "streaming", ![s].tools = FALSE]
    <3>1. Took(s, "streaming", task[s].history, <<>>)
      BY <2>2, <1>1, StageTakes DEF Stages
    <3>2. Advances(s, "streaming", task[s].history, <<>>)
      BY <3>1, <2>1, <1>2, <1>4 DEF Advances, Held
    <3> QED BY <3>2, <1>1, <1>2 DEF Works
  <2>3. CASE Becomes(s, "failed", task[s].history, <<>>)
    <3>0. "failed" \in Stages /\ <<>> \in Seq(Events)
      BY DEF Stages
    <3>1. Took(s, "failed", task[s].history, <<>>)
      BY <3>0, <2>3, <1>3, BecomesTakes
    <3>2. Advances(s, "failed", task[s].history, <<>>)
      BY <3>1, <2>1 DEF Advances, Held
    <3> QED BY <3>2, <1>1, <1>2 DEF Works
  <2> QED BY <1>5, <2>2, <2>3 DEF Posted
<1>6. CASE BreakOff(s)
  <2>1. Took(s, "failed", task[s].history, <<Signal("Error")>>)
    BY <1>6, <1>3, BecomesTakes, EndSignal DEF BreakOff, Stages, Ends3
  <2>2. Advances(s, "failed", task[s].history, <<Signal("Error")>>)
    BY <1>6, <2>1 DEF Advances, Held, Ends3, BreakOff, InTask
  <2> QED BY <2>2, <1>1, <1>2 DEF Works
<1>7. CASE EndOfStream(s)
  <2> PICK t \in BOOLEAN : t = task[s].tools
    BY <1>3
  <2> PICK history : history = Append(task[s].history, AssistantSays(s, t))
    OBVIOUS
  <2>1. task[s].stage = "streaming"
    BY <1>7 DEF EndOfStream, At
  <2>2. history \in Seq(Messages) /\ Opened(history)
    BY <2>1, <1>3, <1>4, AddAnswer
  <2>3. CASE Becomes(s, "tools", history, <<>>) /\ UNCHANGED chat_session
    <3>0. "tools" \in Stages /\ <<>> \in Seq(Events)
      BY DEF Stages
    <3>1. Took(s, "tools", history, <<>>)
      BY <3>0, <2>3, <2>2, BecomesTakes
    <3>2. Advances(s, "tools", history, <<>>)
      BY <2>2, <2>3, <1>2, <3>1 DEF Advances, Held
    <3> QED BY <3>2, <1>1, <1>2 DEF Works
  <2>4. CASE ~t /\ Complete(s, history)
    <3>1. history = Append(task[s].history, AssistantSays(s, FALSE))
      BY <2>4
    <3>2. Conversation(history)
      BY <3>1, <2>1, <1>3, <1>4, AddPartial
    <3>3. \E stage, out : Advances(s, stage, history, out)
      BY <2>2, <2>4, <1>2, <3>2, PutBackAdvances DEF Complete, Ends3
    <3> QED BY <3>3, <1>1, <1>2 DEF Works
  <2> QED BY <1>7, <2>3, <2>4 DEF EndOfStream
<1>8. CASE Cut(s)
  <2>1. task[s].stage = "streaming"
    BY <1>8 DEF Cut, At
  <2> PICK history : history = Append(task[s].history, AssistantSays(s, FALSE))
    OBVIOUS
  <2>2. history \in Seq(Messages) /\ Conversation(history)
    BY <2>1, <1>3, <1>4, AddPartial
  <2>3. PutBack(s, history, "Cancelled")
    BY <1>8 DEF Cut
  <2>4. \E stage, out : Advances(s, stage, history, out)
    BY <2>2, <2>3, <1>2, PutBackAdvances DEF Ends3
  <2> QED BY <2>4, <1>1, <1>2, <2>1 DEF Works
<1>9. CASE CallTools(s)
  <2>1. task[s].stage = "tools"
    BY <1>9 DEF CallTools, At
  <2> PICK history : history = Append(task[s].history, ToolResults(s))
    OBVIOUS
  <2>2. history \in Seq(Messages) /\ Conversation(history) /\ history # <<>>
    BY <2>1, <1>3, <1>4, AddResults
  <2>3. Complete(s, history) \/ NextTurn(s, history)
    BY <1>9 DEF CallTools
  <2>4. \E stage, out : Advances(s, stage, history, out)
    BY <2>2, <2>3, <1>1, <1>2, PutBackAdvances, NextTurnAdvances DEF Ends3, Complete
  <2> QED BY <2>4, <1>1, <1>2, <2>1 DEF Works
<1> QED BY <1>5, <1>6, <1>7, <1>8, <1>9

(* The task ends: it may have saved the session, or told of its failure.     *)
Finishes(s) ==
  /\ Took(s, "ended", <<>>, <<>>) /\ holder = s /\ holder' = Null
  /\ task[s].stage \in {"sent", "failed"} /\ task[s].out = <<>>
  /\ files' \in [Names -> Seq(Messages) \cup {Null}]
  /\ \A n \in Names : files'[n] = files[n]
                        \/ (chat_session # Null /\ files'[n] = chat_session.history)
  /\ ai_response' \in Seq(Sends)
  /\ UNCHANGED <<cli, chat_session, waiting, order, Flow>>

LEMMA EndFinishes ==
  ASSUME TaskTyped, ChatTyped, FlowTyped, LockOK, NEW s \in Sends, Save(s) \/ Fail(s)
  PROVE  Finishes(s)
<1>1. Ends(s) /\ task[s].stage \in {"sent", "failed"} /\ task[s].out = <<>>
  BY DEF Save, Fail, At
<1>2. Took(s, "ended", <<>>, <<>>) /\ holder = s /\ holder' = Null
  BY <1>1, EndsTakes, AtWork DEF Held
<1>3. UNCHANGED <<cli, chat_session, waiting, order, Flow>>
  BY DEF Save, Fail, Unlocked, cliVars, Flow
<1>4. /\ files' \in [Names -> Seq(Messages) \cup {Null}]
      /\ \A n \in Names : files'[n] = files[n]
                            \/ (chat_session # Null /\ files'[n] = chat_session.history)
  <2>0. files \in [Names -> Seq(Messages) \cup {Null}]
    BY DEF ChatTyped
  <2>1. CASE files' = files
    <3>1. files' \in [Names -> Seq(Messages) \cup {Null}]
      BY <2>0, <2>1
    <3>2. \A n \in Names : files'[n] = files[n]
      BY <2>1
    <3> QED BY <3>1, <3>2
  <2>2. CASE Save(s) /\ files' = [files EXCEPT ![chat_session.name] = chat_session.history]
    <3>1. chat_session # Null
      BY <2>2, AtWork DEF Save, At, Held
    <3>2. chat_session.name \in Names /\ chat_session.history \in Seq(Messages)
      BY <3>1 DEF ChatTyped, Sessions
    <3>3. PICK name \in Names, history \in Seq(Messages) :
            name = chat_session.name /\ history = chat_session.history
      BY <3>2
    <3>4. files' = [files EXCEPT ![name] = history]
      BY <2>2, <3>3
    <3>5. files' \in [Names -> Seq(Messages) \cup {Null}]
      BY <2>0, <3>4
    <3>6. \A n \in Names : files'[n] = files[n] \/ files'[n] = history
      BY <2>0, <3>4
    <3> QED BY <3>1, <3>3, <3>5, <3>6
  <2> QED BY <2>1, <2>2 DEF Save, Fail
<1>5. ai_response' \in Seq(Sends)
  <2>1. ai_response' = ai_response \/ ai_response' = Append(ai_response, s)
    BY DEF Save, Fail
  <2>2. ai_response \in Seq(Sends)
    BY DEF FlowTyped
  <2> QED BY <2>1, <2>2
<1> QED BY <1>1, <1>2, <1>3, <1>4, <1>5 DEF Finishes

Receives(s) ==
  /\ \E texts \in Nat : \E out : Chunk(s, texts, out)
  /\ task[s].stage = "streaming" /\ task[s].out = <<>>
  /\ UNCHANGED <<cli, files, lockVars, ai_response, Flow>>

LEMMA ReceiveReceives ==
  ASSUME TaskTyped, NEW s \in Sends, Receive(s)
  PROVE  Receives(s)
<1>1. \E texts \in Nat : \E out : Chunk(s, texts, out)
  BY ReceiveDoes
<1>2. /\ task[s].stage = "streaming" /\ task[s].out = <<>>
      /\ UNCHANGED <<cli, files, lockVars, ai_response, Flow>>
  BY DEF Receive, At, InTask, Answering, Unlocked, cliVars, Flow, lockVars
<1> QED BY <1>1, <1>2 DEF Receives

Emits(s) ==
  /\ \E e : Sent(s, e)
  /\ UNCHANGED <<cli, files, lockVars, ai_response, loopVars, shown, overlapped>>

LEMMA EmitEmits ==
  ASSUME TaskTyped, NEW s \in Sends, Emit(s)
  PROVE  Emits(s)
<1>1. \E e : Sent(s, e)
  BY EmitDoes
<1> QED BY <1>1 DEF Emit, Emits, cliVars

-----------------------------------------------------------------------------
(* Every step is one of ten.                                                 *)

TaskStep(s) == Speaks(s) \/ Queues(s) \/ Works(s) \/ Finishes(s) \/ Receives(s) \/ Emits(s)

LEMMA StepKinds ==
  ASSUME Base, HistOK, [Next]_vars
  PROVE  Sits \/ Grants \/ (\E e : Handles(e)) \/ \E s \in Sends : TaskStep(s)
<1> USE DEF Base
<1>1. CASE \E start \in BOOLEAN, name \in Names : StartOrLoad(start, name) \/ AskForKey(start, name)
  BY <1>1, CommandSits
<1>2. CASE GiveUpKey \/ RefuseKey \/ AcceptKey \/ Exit
  BY <1>2, CommandSits
<1>3. CASE \E s \in Sends : AiSend(s)
  BY <1>3, AiSendSpeaks DEF TaskStep
<1>4. CASE Interrupt \/ HandleError \/ UNCHANGED vars
  <2>1. UNCHANGED <<cli, files, chat_session, holder, task, waiting, order, Flow>>
    BY <1>4 DEF Interrupt, HandleError, vars, cliVars, lockVars, taskVars, Flow
  <2>2. ai_response' \in Seq(Sends)
    <3>1. CASE Interrupt
      BY <3>1 DEF Interrupt, FlowTyped
    <3>2. CASE HandleError
      BY <3>2 DEF HandleError, FlowTyped
    <3>3. CASE UNCHANGED vars
      BY <3>3 DEF vars, FlowTyped
    <3> QED BY <1>4, <3>1, <3>2, <3>3
  <2>3. CliTyped' /\ (order' # Null => cli'.mode # "awaiting_api_key")
    BY <2>1 DEF ChatTyped, CliTyped
  <2> QED BY <2>1, <2>2, <2>3 DEF Sits
<1>5. CASE GrantMain
  BY <1>5, GrantMainGrants
<1>6. CASE HandleEvent
  BY <1>6, HandleEventHandles
<1>7. ASSUME NEW s \in Sends, Own(s) \/ Service(s)
      PROVE  TaskStep(s)
  <2>1. CASE Enqueue(s)
    BY <2>1, EnqueueQueues DEF TaskStep
  <2>2. CASE GrantTask(s)
    BY <2>2, GrantTaskWorks DEF TaskStep
  <2>3. CASE Posted(s) \/ BreakOff(s) \/ EndOfStream(s) \/ Cut(s) \/ CallTools(s)
    BY <2>3, AnswerWorks DEF TaskStep
  <2>4. CASE Save(s) \/ Fail(s)
    BY <2>4, EndFinishes DEF TaskStep
  <2>5. CASE Receive(s)
    BY <2>5, ReceiveReceives DEF TaskStep
  <2>6. CASE Emit(s)
    BY <2>6, EmitEmits DEF TaskStep
  <2> QED BY <1>7, <2>1, <2>2, <2>3, <2>4, <2>5, <2>6 DEF Own, Service
<1> QED BY <1>1, <1>2, <1>3, <1>4, <1>5, <1>6, <1>7 DEF Next, User, Loop

-----------------------------------------------------------------------------
(* The session, the lock and the screen.                                     *)

ScreenOK ==
  /\ cli.mode = "ai" => chat_session # Null
  /\ cli.streaming_active => stream_target
  /\ stream_target <=> ai_cancel # Null

ChatInv == Base /\ ScreenOK /\ HistOK

Step == Sits \/ Grants \/ (\E e : Handles(e)) \/ \E s \in Sends : TaskStep(s)

(* A task's step leaves the commands alone and the session in place.         *)
LEMMA TaskStepFacts ==
  ASSUME NEW s \in Sends, TaskStep(s)
  PROVE  /\ TaskTyped' /\ Others(s) /\ cli' = cli /\ order' = order
         /\ \/ chat_session' = chat_session
            \/ /\ chat_session # Null /\ chat_session' \in Sessions
               /\ Conversation(chat_session'.history)
         /\ ~Finishes(s) => files' = files
BY DEF TaskStep, Speaks, Queues, Works, Finishes, Receives, Emits, Took, Chunk, Sent, Advances, lockVars

LEMMA ChatTypedStep ==
  ASSUME ChatTyped, Step
  PROVE  ChatTyped'
<1> USE DEF ChatTyped
<1>1. CASE Sits
  BY <1>1 DEF Sits
<1>2. CASE Grants
  <2>1. CliTyped' /\ files' \in [Names -> Seq(Messages) \cup {Null}] /\ order' \in Orders \cup {Null}
    BY <1>2 DEF Grants
  <2>2. chat_session' \in Sessions \cup {Null}
    BY <1>2 DEF Grants
  <2>3. order' # Null => cli'.mode # "awaiting_api_key"
    BY <1>2 DEF Grants
  <2> QED BY <2>1, <2>2, <2>3
<1>3. CASE \E e : Handles(e)
  BY <1>3 DEF Handles, lockVars
<1>4. ASSUME NEW s \in Sends, TaskStep(s) PROVE ChatTyped'
  <2>1. cli' = cli /\ order' = order /\ chat_session' \in Sessions \cup {Null}
    BY <1>4, TaskStepFacts
  <2>2. files' \in [Names -> Seq(Messages) \cup {Null}]
    BY <1>4, TaskStepFacts DEF Finishes
  <2>3. CliTyped'
    BY <2>1 DEF CliTyped
  <2> QED BY <2>1, <2>2, <2>3
<1> QED BY <1>1, <1>2, <1>3, <1>4 DEF Step

LEMMA FlowTypedStep ==
  ASSUME FlowTyped, TaskTyped, Step
  PROVE  FlowTyped'
<1> USE DEF FlowTyped
<1>1. ASSUME UNCHANGED Flow, ai_response' \in Seq(Sends) PROVE FlowTyped'
  BY <1>1 DEF Flow, loopVars
<1>2. CASE Sits \/ Grants
  BY <1>2, <1>1 DEF Sits, Grants
<1>3. ASSUME NEW e, Handles(e) PROVE FlowTyped'
  <2>1. /\ stream' \in Seq(Events) /\ ai_response' = ai_response /\ overlapped' = overlapped
    BY <1>3 DEF Handles
  <2>2. ai_cancel' \in Sends \cup {Null} /\ stream_target' \in BOOLEAN
    BY <1>3 DEF Handles
  <2>3. stream_accum' \in Seq(Pieces) /\ shown' \in Seq(Pieces)
    <3>1. CASE Text(e)
      <4>1. e.piece \in Pieces
        BY <1>3, <3>1, EventFacts DEF Handles
      <4>2. stream_accum' = Append(stream_accum, e.piece) /\ shown' = shown
        BY <1>3, <3>1 DEF Handles
      <4> QED BY <4>1, <4>2
    <3>2. CASE ~Text(e)
      <4>1. stream_accum' = <<>> /\ (shown' = shown \o stream_accum \/ shown' = shown)
        BY <1>3, <3>2 DEF Handles
      <4>2. shown' \in Seq(Pieces)
        BY <4>1, ConcatFacts
      <4>3. stream_accum' \in Seq(Pieces)
        BY <4>1
      <4> QED BY <4>2, <4>3
    <3> QED BY <3>1, <3>2
  <2> QED BY <2>1, <2>2, <2>3
<1>4. ASSUME NEW s \in Sends, TaskStep(s) PROVE FlowTyped'
  <2>1. CASE Speaks(s)
    <3>1. s \in Nat /\ 1 .. s \subseteq Sends
      BY ChatAssumption DEF Sends
    <3>2. overlapped' \subseteq Sends
      BY <2>1, <3>1 DEF Speaks
    <3> QED BY <2>1, <3>2 DEF Speaks
  <2>2. CASE Emits(s)
    <3>1. stream' \in Seq(Events)
      BY <2>2 DEF Emits, Sent
    <3> QED BY <2>2, <3>1 DEF Emits, loopVars
  <2>3. CASE Queues(s) \/ Works(s) \/ Finishes(s) \/ Receives(s)
    BY <2>3, <1>1 DEF Queues, Works, Finishes, Receives
  <2> QED BY <1>4, <2>1, <2>2, <2>3 DEF TaskStep
<1> QED BY <1>2, <1>3, <1>4 DEF Step

LEMMA TaskTypedStep ==
  ASSUME TaskTyped, Step
  PROVE  TaskTyped'
<1>1. CASE Sits \/ Grants \/ (\E e : Handles(e))
  BY <1>1 DEF Sits, Grants, Handles, TaskTyped
<1> QED BY <1>1, TaskStepFacts DEF Step

LEMMA ScreenStep ==
  ASSUME ChatTyped, FlowTyped, ScreenOK, Step
  PROVE  ScreenOK'
<1> USE DEF ScreenOK
<1>1. CASE Sits
  BY <1>1 DEF Sits, Flow, loopVars
<1>2. CASE Grants
  <2>1. UNCHANGED <<stream_target, ai_cancel>> /\ cli'.streaming_active = cli.streaming_active
    BY <1>2 DEF Grants, Flow, loopVars
  <2>2. cli'.mode = "ai" => chat_session' # Null
    BY <1>2, Nulls DEF Grants
  <2> QED BY <2>1, <2>2
<1>3. ASSUME NEW e, Handles(e) PROVE ScreenOK'
  <2>1. cli'.mode = cli.mode /\ chat_session' = chat_session
    BY <1>3 DEF Handles, lockVars
  <2>2. (cli'.streaming_active => stream_target') /\ (stream_target' <=> ai_cancel' # Null)
    BY <1>3 DEF Handles
  <2> QED BY <2>1, <2>2
<1>4. ASSUME NEW s \in Sends, TaskStep(s) PROVE ScreenOK'
  <2>1. cli' = cli /\ (chat_session # Null => chat_session' # Null)
    BY <1>4, TaskStepFacts, Nulls
  <2>2. CASE Speaks(s)
    BY <2>1, <2>2, Nulls DEF Speaks
  <2>3. CASE ~Speaks(s)
    <3>1. UNCHANGED <<stream_target, ai_cancel>>
      BY <1>4, <2>3 DEF TaskStep, Queues, Works, Finishes, Receives, Emits, Flow, loopVars
    <3> QED BY <2>1, <3>1
  <2> QED BY <2>2, <2>3
<1> QED BY <1>1, <1>2, <1>3, <1>4 DEF Step

LEMMA HistStep ==
  ASSUME ChatTyped, HistOK, Step
  PROVE  HistOK'
<1> DEFINE Kept  == /\ chat_session # Null => Conversation(chat_session.history)
                    /\ \A n \in Names : files[n] # Null => Conversation(files[n])
           Due   == order # Null /\ order.what \in Assigning => Conversation(order.session.history)
           Its(s) == /\ task[s].stage \in {"posted", "streaming"} =>
                          task[s].history # <<>> /\ Conversation(task[s].history)
                     /\ task[s].stage = "tools" => Opened(task[s].history)
<1>0. HistOK <=> Kept /\ Due /\ \A s \in Sends : Its(s)
  BY DEF HistOK
<1>1. CASE Sits
  <2>1. UNCHANGED <<files, chat_session, task>>
    BY <1>1 DEF Sits
  <2>2. Due'
    BY <1>1, <1>0 DEF Sits
  <2> QED BY <2>1, <2>2, <1>0 DEF HistOK
<1>2. CASE Grants
  <2>1. UNCHANGED <<files, task>>
    BY <1>2 DEF Grants
  <2>2. Due'
    BY <1>2 DEF Grants, Assigning
  <2>3. chat_session' # Null => Conversation(chat_session'.history)
    BY <1>2, <1>0 DEF Grants
  <2> QED BY <2>1, <2>2, <2>3, <1>0 DEF HistOK
<1>3. CASE \E e : Handles(e)
  BY <1>3 DEF Handles, lockVars, HistOK
<1>4. ASSUME NEW s \in Sends, TaskStep(s) PROVE HistOK'
  <2>1. /\ Others(s) /\ order' = order /\ (~Finishes(s) => files' = files)
        /\ chat_session' # Null => Conversation(chat_session'.history)
    BY <1>4, <1>0, TaskStepFacts
  <2>2. \A n \in Names : files'[n] # Null => Conversation(files'[n])
    BY <2>1, <1>0 DEF Finishes
  <2>3. Its(s)'
    <3>1. CASE Speaks(s) \/ Queues(s) \/ Finishes(s)
      <4>1. task'[s].stage \in {"spawned", "queued", "ended"}
        BY <3>1 DEF Speaks, Queues, Finishes, Took
      <4> QED BY <4>1
    <3>2. CASE Works(s)
      BY <3>2 DEF Works, Advances, Took
    <3>3. CASE Receives(s) \/ Emits(s)
      <4>1. task'[s].stage = task[s].stage /\ task'[s].history = task[s].history
        BY <3>3 DEF Receives, Chunk, Emits, Sent
      <4> QED BY <4>1, <1>0
    <3> QED BY <1>4, <3>1, <3>2, <3>3 DEF TaskStep
  <2>4. \A r \in Sends : Its(r)'
    BY <2>1, <2>3, <1>0 DEF Others
  <2> QED BY <2>1, <2>2, <2>4, <1>0 DEF HistOK
<1> QED BY <1>1, <1>2, <1>3, <1>4 DEF Step

LEMMA TaskOKStep ==
  ASSUME TaskTyped, TaskOK, Step
  PROVE  TaskOK'
<1>1. CASE Sits \/ Grants \/ (\E e : Handles(e))
  BY <1>1 DEF Sits, Grants, Handles, TaskOK
<1>2. ASSUME NEW s \in Sends, TaskStep(s) PROVE TaskOK'
  <2>1. Others(s)
    BY <1>2, TaskStepFacts
  <2>2. /\ task[s].stage = "unsent" => Speaks(s)
        /\ task'[s].stage # "unsent"
        /\ task'[s].stage \in {"spawned", "queued", "ended"} => task'[s].out = <<>>
    <3>1. CASE Speaks(s)
      BY <3>1 DEF Speaks, Took, TaskOK
    <3>2. CASE Queues(s) \/ Finishes(s)
      BY <3>2 DEF Queues, Finishes, Took
    <3>3. CASE Works(s)
      BY <3>3 DEF Works, Advances, Took, Held
    <3>4. CASE Receives(s)
      BY <3>4 DEF Receives, Chunk
    <3>5. CASE Emits(s)
      <4>1. task[s].out # <<>> /\ task'[s].stage = task[s].stage
        BY <3>5 DEF Emits, Sent
      <4> QED BY <4>1 DEF TaskOK
    <3> QED BY <1>2, <3>1, <3>2, <3>3, <3>4, <3>5 DEF TaskStep
  <2>3. \A r \in Sends : task'[r].stage = "unsent" => task'[r].pieces = 0 /\ task'[r].told = FALSE
    BY <2>1, <2>2 DEF TaskOK, Others
  <2>4. \A r \in Sends : task'[r].stage \in {"unsent", "spawned", "queued", "ended"} => task'[r].out = <<>>
    BY <2>1, <2>2 DEF TaskOK, Others
  <2>5. \A q, r \in Sends : q < r /\ task'[q].stage = "unsent" => task'[r].stage = "unsent"
    <3> SUFFICES ASSUME NEW q \in Sends, NEW r \in Sends, q < r, task'[q].stage = "unsent"
                 PROVE  task'[r].stage = "unsent"
      OBVIOUS
    <3>1. q # s /\ task[q].stage = "unsent"
      BY <2>1, <2>2 DEF Others
    <3>2. task[r].stage = "unsent"
      BY <3>1 DEF TaskOK
    <3>3. r # s
      BY <3>1, <3>2, <2>2 DEF Speaks
    <3> QED BY <3>2, <3>3, <2>1 DEF Others
  <2> QED BY <2>3, <2>4, <2>5 DEF TaskOK
<1> QED BY <1>1, <1>2 DEF Step

LEMMA LockStep ==
  ASSUME ChatTyped, TaskTyped, LockOK, TaskOK, Step
  PROVE  LockOK'
<1> DEFINE Queue == /\ waiting \in Seq(Sends \cup {Main})
                    /\ \A i, j \in DOMAIN waiting : waiting[i] = waiting[j] => i = j
                    /\ \A i \in DOMAIN waiting : IF waiting[i] = Main THEN order # Null
                                                 ELSE task[waiting[i]].stage = "queued"
           Lock  == /\ holder \in Sends \cup {Null}
                    /\ \A s \in Sends : task[s].stage \in Held <=> holder = s
           Kept  == \A s \in Sends : task[s].stage \in Held \ {"failed"} => chat_session # Null
<1>0. Queue /\ Lock /\ Kept
  BY DEF LockOK
<1>1. ASSUME Queue', Lock', Kept' PROVE LockOK'
  BY <1>1 DEF LockOK
<1>w. PICK n \in Nat : /\ n = Len(waiting) /\ DOMAIN waiting = 1 .. n
                       /\ \A i \in DOMAIN waiting : waiting[i] \in Sends \cup {Main}
  BY <1>0, ElementFacts
<1>2. ASSUME NEW m \in Sends \cup {Main}, waiting' = Append(waiting, m),
             \A i \in DOMAIN waiting : waiting[i] # m,
             IF m = Main THEN order' # Null ELSE task'[m].stage = "queued",
             order # Null => order' # Null,
             \A r \in Sends : task[r].stage = "queued" => task'[r].stage = "queued"
      PROVE  Queue'
  <2>1. /\ waiting' \in Seq(Sends \cup {Main}) /\ DOMAIN waiting' = 1 .. n + 1
        /\ \A i \in 1 .. n : waiting'[i] = waiting[i]
        /\ waiting'[n + 1] = m
    BY <1>2, <1>0, <1>w, AppendFacts
  <2>2. \A i, j \in DOMAIN waiting' : waiting'[i] = waiting'[j] => i = j
    BY <2>1, <1>0, <1>w, <1>2
  <2>3. \A i \in DOMAIN waiting' : IF waiting'[i] = Main THEN order' # Null
                                   ELSE task'[waiting'[i]].stage = "queued"
    BY <2>1, <1>0, <1>w, <1>2
  <2> QED BY <2>1, <2>2, <2>3
<1>3. ASSUME waiting # <<>>, waiting' = Tail(waiting),
             \A r \in Sends : r # waiting[1] /\ task[r].stage = "queued" => task'[r].stage = "queued",
             order' = order \/ waiting[1] = Main
      PROVE  Queue'
  <2>1. /\ waiting' \in Seq(Sends \cup {Main}) /\ DOMAIN waiting' = 1 .. n - 1
        /\ n # 0
        /\ \A i \in 1 .. n - 1 : waiting'[i] = waiting[i + 1]
    BY <1>3, <1>0, <1>w, TailFacts
  <2>2. ASSUME NEW i \in 1 .. n - 1, NEW j \in 1 .. n - 1, waiting'[i] = waiting'[j] PROVE i = j
    <3>1. i + 1 \in DOMAIN waiting /\ j + 1 \in DOMAIN waiting
      BY <1>w
    <3>2. waiting[i + 1] = waiting[j + 1]
      BY <2>1, <2>2
    <3>3. i + 1 = j + 1
      BY <3>1, <3>2, <1>0
    <3> QED BY <3>3
  <2>3. ASSUME NEW i \in DOMAIN waiting' PROVE waiting'[i] # waiting[1]
    <3>1. i + 1 \in DOMAIN waiting /\ 1 \in DOMAIN waiting /\ i + 1 # 1
      BY <2>1, <1>w
    <3>2. waiting'[i] = waiting[i + 1]
      BY <2>1
    <3> QED BY <3>1, <3>2, <1>0
  <2>4. \A i \in DOMAIN waiting' : IF waiting'[i] = Main THEN order' # Null
                                   ELSE task'[waiting'[i]].stage = "queued"
    BY <2>1, <2>3, <1>0, <1>w, <1>3
  <2> QED BY <2>1, <2>2, <2>4
<1>4. CASE Sits
  <2>1. UNCHANGED <<chat_session, holder, task>>
    BY <1>4 DEF Sits
  <2>2. CASE UNCHANGED <<waiting, order>>
    BY <2>1, <2>2 DEF LockOK
  <2>3. CASE order = Null /\ order' \in Orders /\ waiting' = Append(waiting, Main)
    <3>1. \A i \in DOMAIN waiting : waiting[i] # Main
      BY <2>3, <1>0
    <3>2. order' # Null
      BY <2>3, Nulls
    <3>3. Queue'
      BY <2>1, <2>3, <3>1, <3>2, <1>2
    <3> QED BY <2>1, <3>3, <1>0, <1>1
  <2> QED BY <1>4, <2>2, <2>3 DEF Sits
<1>5. CASE Grants
  <2>1. /\ UNCHANGED <<holder, task>> /\ waiting # <<>> /\ waiting[1] = Main
        /\ holder = Null
    BY <1>5 DEF Grants
  <2>2. Lock' /\ Kept'
    <3>1. \A s \in Sends : task[s].stage \notin Held
      BY <2>1, <1>0, Nulls
    <3> QED BY <2>1, <3>1, <1>0
  <2>3. CASE waiting' = Tail(waiting)
    BY <2>1, <2>2, <2>3, <1>1, <1>3
  <2>4. CASE waiting' = Append(Tail(waiting), Main) /\ order' \in Orders
    <3> PICK q : q = Tail(waiting)
      OBVIOUS
    <3>1. /\ q \in Seq(Sends \cup {Main}) /\ Len(q) = n - 1 /\ n # 0
          /\ \A i \in 1 .. Len(q) : q[i] = waiting[i + 1]
      BY <2>1, <1>0, <1>w, TailFacts
    <3>2. /\ waiting' \in Seq(Sends \cup {Main}) /\ DOMAIN waiting' = 1 .. n
          /\ \A i \in 1 .. n - 1 : waiting'[i] = waiting[i + 1]
          /\ waiting'[n] = Main
      BY <2>4, <3>1, <1>w, AppendFacts
    <3>3. \A i \in 1 .. n - 1 : waiting[i + 1] # Main
      <4> SUFFICES ASSUME NEW i \in 1 .. n - 1, waiting[i + 1] = Main PROVE FALSE
        OBVIOUS
      <4>1. i + 1 \in DOMAIN waiting /\ 1 \in DOMAIN waiting /\ i + 1 # 1
        BY <1>w
      <4> QED BY <4>1, <2>1, <1>0
    <3>4. \A i, j \in DOMAIN waiting' : waiting'[i] = waiting'[j] => i = j
      <4> SUFFICES ASSUME NEW i \in 1 .. n, NEW j \in 1 .. n,
                          waiting'[i] = waiting'[j]
                   PROVE  i = j
        BY <3>2
      <4>1. CASE i = n \/ j = n
        BY <4>1, <3>2, <3>3, <1>w
      <4>2. CASE i # n /\ j # n
        <5>1. i + 1 \in DOMAIN waiting /\ j + 1 \in DOMAIN waiting
          BY <4>2, <1>w
        <5>0. i \in 1 .. n - 1 /\ j \in 1 .. n - 1
          BY <4>2, <1>w
        <5>2. waiting[i + 1] = waiting[j + 1]
          BY <5>0, <3>2
        <5>3. i + 1 = j + 1
          BY <5>1, <5>2, <1>0
        <5> QED BY <5>3, <1>w
      <4> QED BY <4>1, <4>2
    <3>5. \A i \in DOMAIN waiting' : IF waiting'[i] = Main THEN order' # Null
                                     ELSE task'[waiting'[i]].stage = "queued"
      <4> SUFFICES ASSUME NEW i \in 1 .. n, waiting'[i] # Main
                   PROVE  task'[waiting'[i]].stage = "queued"
        BY <2>4, <3>2, Nulls
      <4>1. i + 1 \in DOMAIN waiting /\ waiting'[i] = waiting[i + 1]
        BY <3>2, <1>w
      <4> QED BY <4>1, <1>0, <2>1
    <3> QED BY <2>2, <3>2, <3>4, <3>5, <1>1
  <2> QED BY <1>5, <2>3, <2>4 DEF Grants
<1>6. CASE \E e : Handles(e)
  BY <1>6 DEF Handles, lockVars, LockOK
<1>7. ASSUME NEW s \in Sends, TaskStep(s) PROVE LockOK'
  <2>1. Others(s) /\ order' = order /\ (chat_session # Null => chat_session' # Null)
    BY <1>7, TaskStepFacts, Nulls
  <2>2. CASE Speaks(s) \/ Receives(s) \/ Emits(s)
    <3>1. /\ UNCHANGED <<holder, waiting, chat_session>>
          /\ task'[s].stage = task[s].stage \/ (task[s].stage = "unsent" /\ task'[s].stage = "spawned")
      BY <2>2 DEF Speaks, Receives, Emits, Took, Chunk, Sent, lockVars
    <3>2. \A r \in Sends : task[r].stage = "queued" => task'[r].stage = "queued"
      BY <2>1, <3>1 DEF Others
    <3>3. Queue'
      BY <3>1, <3>2, <2>1, <1>0, <1>w
    <3>4. \A r \in Sends : task'[r].stage = task[r].stage
                            \/ (task[r].stage \notin Held /\ task'[r].stage \notin Held)
      BY <2>1, <3>1 DEF Others, Held
    <3> QED BY <3>1, <3>3, <3>4, <1>0, <1>1
  <2>3. CASE Queues(s)
    <3>1. /\ UNCHANGED <<holder, chat_session>> /\ waiting' = Append(waiting, s)
          /\ task'[s].stage = "queued" /\ task[s].stage = "spawned"
      BY <2>3 DEF Queues, Took
    <3>2. \A i \in DOMAIN waiting : waiting[i] # s
      BY <3>1, <1>0, Nulls
    <3>3. Queue'
      BY <3>1, <3>2, <2>1, <1>2, Nulls DEF Others
    <3>4. \A r \in Sends : task'[r].stage = task[r].stage
                            \/ (task[r].stage \notin Held /\ task'[r].stage \notin Held)
      BY <2>1, <3>1 DEF Others, Held
    <3> QED BY <3>1, <3>3, <3>4, <1>0, <1>1
  <2>4. CASE Works(s)
    <3>1. /\ holder' = s /\ task'[s].stage \in Held
          /\ task'[s].stage # "failed" => chat_session # Null
      BY <2>4 DEF Works, Advances, Took
    <3>2. holder = s \/ holder = Null
      BY <2>4 DEF Works
    <3>3. Lock' /\ Kept'
      BY <3>1, <3>2, <2>1, <1>0, Nulls DEF Others
    <3>4. CASE waiting # <<>> /\ waiting[1] = s /\ waiting' = Tail(waiting)
      BY <3>4, <3>3, <2>1, <1>1, <1>3 DEF Others
    <3>5. CASE holder = s /\ waiting' = waiting
      <4>1. task[s].stage \in Held
        BY <3>5, <1>0
      <4>2. \A i \in DOMAIN waiting : waiting[i] # s
        BY <4>1, <1>0, Nulls DEF Held
      <4>3. Queue'
        BY <3>5, <4>2, <2>1, <1>0, <1>w DEF Others
      <4> QED BY <4>3, <3>3, <1>1
    <3> QED BY <2>4, <3>4, <3>5 DEF Works
  <2>5. CASE Finishes(s)
    <3>1. /\ holder = s /\ holder' = Null /\ UNCHANGED <<waiting, chat_session>>
          /\ task[s].stage \in Held /\ task'[s].stage \notin Held
      BY <2>5 DEF Finishes, Took, Held
    <3>2. Lock' /\ Kept'
      BY <3>1, <2>1, <1>0, Nulls DEF Others
    <3>3. \A i \in DOMAIN waiting : waiting[i] # s
      BY <3>1, <1>0, Nulls DEF Held
    <3>4. Queue'
      BY <3>1, <3>3, <2>1, <1>0, <1>w DEF Others
    <3> QED BY <3>2, <3>4, <1>1
  <2> QED BY <1>7, <2>2, <2>3, <2>4, <2>5 DEF TaskStep
<1> QED BY <1>4, <1>5, <1>6, <1>7 DEF Step

-----------------------------------------------------------------------------
LEMMA ChatInit == Init => ChatInv
<1> SUFFICES ASSUME Init PROVE ChatInv
  OBVIOUS
<1> USE DEF Init
<1>1. \A s \in Sends : task[s] = Fresh
  OBVIOUS
<1>2. /\ Fresh \in Tasks /\ Fresh.stage = "unsent" /\ Fresh.pieces = 0 /\ Fresh.told = FALSE
      /\ Fresh.out = <<>>
  BY DEF Fresh, Tasks, Stages
<1>3. ChatTyped
  BY DEF ChatTyped, CliTyped, Modes
<1>4. FlowTyped
  <2>1. stream_accum \in Seq(Pieces) /\ shown \in Seq(Pieces)
    OBVIOUS
  <2>2. stream \in Seq(Events) /\ ai_response \in Seq(Sends)
    OBVIOUS
  <2>3. ai_cancel \in Sends \cup {Null} /\ stream_target \in BOOLEAN /\ overlapped \subseteq Sends
    OBVIOUS
  <2> QED BY <2>1, <2>2, <2>3 DEF FlowTyped
<1>5. TaskTyped
  BY <1>2 DEF TaskTyped
<1>6. LockOK
  <2>1. holder \in Sends \cup {Null} /\ waiting \in Seq(Sends \cup {Main}) /\ DOMAIN waiting = {}
    OBVIOUS
  <2>2. \A s \in Sends : task[s].stage \notin Held /\ holder # s
    BY <1>1, <1>2, Nulls DEF Held
  <2> QED BY <2>1, <2>2 DEF LockOK
<1>7. TaskOK
  BY <1>1, <1>2 DEF TaskOK
<1>8. ScreenOK
  BY DEF ScreenOK
<1>9. HistOK
  BY <1>1, <1>2 DEF HistOK
<1> QED BY <1>3, <1>4, <1>5, <1>6, <1>7, <1>8, <1>9 DEF ChatInv, Base

LEMMA ChatNext == ChatInv /\ [Next]_vars => ChatInv'
<1> SUFFICES ASSUME ChatInv, [Next]_vars PROVE ChatInv'
  OBVIOUS
<1>1. /\ ChatTyped /\ FlowTyped /\ TaskTyped /\ LockOK /\ TaskOK /\ ScreenOK /\ HistOK
  BY DEF ChatInv, Base
<1>2. Step
  BY StepKinds DEF ChatInv, Step
<1>3. ChatTyped' /\ FlowTyped' /\ TaskTyped'
  BY <1>1, <1>2, ChatTypedStep, FlowTypedStep, TaskTypedStep
<1>4. LockOK' /\ TaskOK'
  BY <1>1, <1>2, LockStep, TaskOKStep
<1>5. ScreenOK' /\ HistOK'
  BY <1>1, <1>2, ScreenStep, HistStep
<1> QED BY <1>3, <1>4, <1>5 DEF ChatInv, Base

LEMMA ChatAlways == Spec => []ChatInv
BY ChatInit, ChatNext, PTL DEF Spec

LEMMA ChatMeans == ChatInv => Coherent /\ HistoriesAnswerable
<1> SUFFICES ASSUME ChatInv PROVE Coherent /\ HistoriesAnswerable
  OBVIOUS
<1> USE DEF ChatInv, Base
<1>1. TypeOK
  <2>1. \A s \in Sends : task[s].stage \in Stages /\ task[s].out \in Seq(Events)
    BY TaskFields
  <2> QED BY <2>1 DEF TypeOK, ChatTyped, CliTyped, FlowTyped, LockOK
<1>2. Coherent
  BY <1>1 DEF Coherent, ScreenOK
<1>3. HistoriesAnswerable
  BY DEF HistoriesAnswerable, HistOK
<1> QED BY <1>2, <1>3

(* The main loop, the Cli object and the Mutex of the session agree, in the  *)
(* state's types and in what they say of each other: mode ai only with a     *)
(* session, live text only with a place and a flag for its end.              *)
THEOREM CoherentCorrect == Spec => []Coherent
<1>1. ChatInv => Coherent
  BY ChatMeans
<1> QED BY <1>1, ChatAlways, PTL

(* Whatever is interrupted, refused, broken off or out of turns, every       *)
(* history kept in the session or in a file is one the service accepts.      *)
THEOREM HistoriesCorrect == Spec => []HistoriesAnswerable
<1>1. ChatInv => HistoriesAnswerable
  BY ChatMeans
<1> QED BY <1>1, ChatAlways, PTL

-----------------------------------------------------------------------------
(* The way of the text: from the task that receives it, through the channel, *)
(* into what has come to the main loop.                                      *)

Came == shown \o stream_accum

(* Along that way the numbers of a message's pieces grow, and none exceeds   *)
(* the number of its pieces.                                                 *)
CameOrder == \A i, j \in DOMAIN Came :
  i < j /\ Came[i][1] = Came[j][1] => Came[i][2] < Came[j][2]
CameStream == \A i \in DOMAIN Came : \A j \in DOMAIN stream :
  Text(stream[j]) /\ Came[i][1] = stream[j].piece[1] => Came[i][2] < stream[j].piece[2]
CameOut == \A i \in DOMAIN Came : \A s \in Sends : \A j \in DOMAIN task[s].out :
  Text(task[s].out[j]) /\ Came[i][1] = s => Came[i][2] < task[s].out[j].piece[2]
StreamOrder == \A i, j \in DOMAIN stream :
  i < j /\ Text(stream[i]) /\ Text(stream[j]) /\ stream[i].piece[1] = stream[j].piece[1]
    => stream[i].piece[2] < stream[j].piece[2]
StreamOut == \A i \in DOMAIN stream : \A s \in Sends : \A j \in DOMAIN task[s].out :
  Text(stream[i]) /\ Text(task[s].out[j]) /\ stream[i].piece[1] = s
    => stream[i].piece[2] < task[s].out[j].piece[2]
OutOrder == \A s \in Sends : \A i, j \in DOMAIN task[s].out :
  i < j /\ Text(task[s].out[i]) /\ Text(task[s].out[j])
    => task[s].out[i].piece[2] < task[s].out[j].piece[2]
Numbered ==
  /\ \A i \in DOMAIN Came : Came[i][2] <= task[Came[i][1]].pieces
  /\ \A i \in DOMAIN stream : Text(stream[i]) =>
       stream[i].piece[2] <= task[stream[i].piece[1]].pieces
  /\ \A s \in Sends : \A i \in DOMAIN task[s].out : Text(task[s].out[i]) =>
       task[s].out[i].piece[1] = s /\ task[s].out[i].piece[2] <= task[s].pieces

OrderOK == /\ CameOrder /\ CameStream /\ CameOut /\ StreamOrder /\ StreamOut /\ OutOrder
           /\ Numbered

LEMMA PieceFacts ==
  ASSUME NEW p \in Pieces
  PROVE  p[1] \in Sends /\ p[2] \in Nat /\ p[2] # 0
BY DEF Pieces

LEMMA CameFacts ==
  ASSUME FlowTyped
  PROVE  /\ Came \in Seq(Pieces) /\ DOMAIN Came = 1 .. Len(Came) /\ Len(Came) \in Nat
         /\ \A i \in DOMAIN Came : Came[i] \in Pieces
         /\ Len(shown) \in Nat /\ DOMAIN shown = 1 .. Len(shown) /\ Len(shown) <= Len(Came)
         /\ \A i \in DOMAIN shown : Came[i] = shown[i]
         /\ (stream_accum = <<>> => Came = shown)
<1>1. shown \in Seq(Pieces) /\ stream_accum \in Seq(Pieces)
  BY DEF FlowTyped
<1>2. Came \in Seq(Pieces) /\ Len(shown) \in Nat /\ Len(stream_accum) \in Nat
      /\ Len(Came) = Len(shown) + Len(stream_accum)
      /\ DOMAIN Came = 1 .. Len(shown) + Len(stream_accum)
      /\ \A i \in 1 .. Len(shown) : Came[i] = shown[i]
  BY <1>1, ConcatFacts DEF Came
<1>3. DOMAIN shown = 1 .. Len(shown)
  BY <1>1
<1>4. \A i \in DOMAIN Came : Came[i] \in Pieces
  BY <1>2, ElementFacts
<1>5. stream_accum = <<>> => Came = shown
  BY <1>1 DEF Came
<1> QED BY <1>2, <1>3, <1>4, <1>5

(* What has come after a step: the same, less, or one piece more.            *)
SameCame  == Came' = Came
LessCame  == /\ Came' \in Seq(Pieces) /\ Len(Came') <= Len(Came)
             /\ \A i \in 1 .. Len(Came') : Came'[i] = Came[i]
MoreCame(p) == Came' = Append(Came, p)

LEMMA SameIsLess ==
  ASSUME FlowTyped, SameCame
  PROVE  LessCame
BY CameFacts DEF SameCame, LessCame

LEMMA HandledCame ==
  ASSUME FlowTyped, NEW e, Handles(e)
  PROVE  /\ Text(e) => e.piece \in Pieces /\ MoreCame(e.piece)
         /\ ~Text(e) => LessCame
         /\ ~Text(e) /\ stream_target => SameCame /\ shown' = Came
<1>1. shown \in Seq(Pieces) /\ stream_accum \in Seq(Pieces)
  BY DEF FlowTyped
<1>2. CASE Text(e)
  <2>1. e.piece \in Pieces
    BY <1>2, EventFacts DEF Handles
  <2>2. stream_accum' = Append(stream_accum, e.piece) /\ shown' = shown
    BY <1>2 DEF Handles
  <2>3. shown \o Append(stream_accum, e.piece) = Append(shown \o stream_accum, e.piece)
    BY <1>1, <2>1
  <2> QED BY <1>2, <2>1, <2>2, <2>3 DEF MoreCame, Came
<1>3. CASE ~Text(e)
  <2>1. /\ stream_accum' = <<>>
        /\ shown' = IF stream_target THEN shown \o stream_accum ELSE shown
    BY <1>3 DEF Handles
  <2>2. CASE stream_target
    <3>1. shown' = Came
      BY <2>1, <2>2 DEF Came
    <3>2. Came' = shown' \o <<>>
      BY <2>1 DEF Came
    <3>3. Came' = Came
      BY <3>1, <3>2, CameFacts
    <3> QED BY <1>3, <3>1, <3>3, SameIsLess DEF SameCame
  <2>3. CASE ~stream_target
    <3>1. Came' = shown
      BY <2>1, <2>3, <1>1 DEF Came
    <3>2. LessCame
      BY <3>1, <1>1, CameFacts DEF LessCame
    <3> QED BY <1>3, <2>3, <3>2
  <2> QED BY <2>2, <2>3
<1> QED BY <1>2, <1>3

LEMMA SpokenCame ==
  ASSUME FlowTyped, NEW s \in Sends, Speaks(s)
  PROVE  LessCame
<1>1. Came' = shown \o <<>>
  BY DEF Speaks, Came
<1>2. Came' = shown /\ shown \in Seq(Pieces)
  BY <1>1 DEF FlowTyped
<1> QED BY <1>2, CameFacts DEF LessCame

(* The events a task has to send after its step: what it had, or no text.    *)
LEMMA MovedOut ==
  ASSUME NEW s \in Sends, Queues(s) \/ Works(s) \/ Finishes(s)
  PROVE  /\ task[s].out = <<>> /\ task'[s].pieces = task[s].pieces
         /\ task'[s].told = task[s].told
         /\ \/ task'[s].out = <<>>
            \/ /\ task'[s].stage \in {"sent", "failed"}
               /\ \E k \in Ends3 : task'[s].out = <<Signal(k)>>
         /\ UNCHANGED Flow
<1>1. CASE Queues(s) \/ Finishes(s)
  BY <1>1 DEF Queues, Finishes, Took
<1>2. CASE Works(s)
  BY <1>2 DEF Works, Advances, Took
<1> QED BY <1>1, <1>2

Calm == \A s \in Sends :
  /\ task'[s].pieces = task[s].pieces
  /\ \/ task'[s].out = task[s].out
     \/ \A j \in DOMAIN task'[s].out : ~Text(task'[s].out[j])

(* The channel loses its first d events.                                     *)
LessStream(d) ==
  \A i \in DOMAIN stream' : i \in Nat /\ i + d \in DOMAIN stream /\ stream'[i] = stream[i + d]

LEMMA CalmOrder ==
  ASSUME FlowTyped, OrderOK, LessCame, NEW d \in Nat, LessStream(d), Calm
  PROVE  OrderOK'
<1> PICK n \in Nat, m \in Nat :
      /\ DOMAIN Came = 1 .. n /\ DOMAIN Came' = 1 .. m /\ m <= n
      /\ \A i \in 1 .. m : Came'[i] = Came[i]
      /\ \A i \in 1 .. n : Came[i] \in Pieces
  BY CameFacts, ElementFacts DEF LessCame
<1>1. \A i \in DOMAIN Came' : i \in DOMAIN Came /\ Came'[i] = Came[i]
  OBVIOUS
<1>2. \A i \in DOMAIN stream' : i \in Nat /\ i + d \in DOMAIN stream /\ stream'[i] = stream[i + d]
  BY DEF LessStream
<1>3. ASSUME NEW s \in Sends, NEW j \in DOMAIN task'[s].out, Text(task'[s].out[j])
      PROVE  task'[s].out = task[s].out
  BY <1>3 DEF Calm
<1>4. CameOrder'
  BY <1>1 DEF OrderOK, CameOrder
<1>5. CameStream'
  BY <1>1, <1>2 DEF OrderOK, CameStream
<1>6. CameOut'
  BY <1>1, <1>3 DEF OrderOK, CameOut
<1>7. StreamOrder'
  <2> SUFFICES ASSUME NEW i \in DOMAIN stream', NEW j \in DOMAIN stream', i < j,
                      Text(stream'[i]), Text(stream'[j]),
                      stream'[i].piece[1] = stream'[j].piece[1]
               PROVE  stream'[i].piece[2] < stream'[j].piece[2]
    BY DEF StreamOrder
  <2>1. /\ i + d \in DOMAIN stream /\ stream'[i] = stream[i + d]
        /\ j + d \in DOMAIN stream /\ stream'[j] = stream[j + d] /\ i + d < j + d
    BY <1>2
  <2> QED BY <2>1 DEF OrderOK, StreamOrder
<1>8. StreamOut'
  BY <1>2, <1>3 DEF OrderOK, StreamOut
<1>9. OutOrder'
  BY <1>3 DEF OrderOK, OutOrder
<1>10. Numbered'
  <2>1. \A i \in DOMAIN Came' : Came'[i][2] <= task'[Came'[i][1]].pieces
    <3> SUFFICES ASSUME NEW i \in DOMAIN Came' PROVE Came'[i][2] <= task'[Came'[i][1]].pieces
      OBVIOUS
    <3>1. Came'[i] = Came[i] /\ Came[i][1] \in Sends
      BY <1>1, PieceFacts
    <3>2. Came[i][2] <= task[Came[i][1]].pieces
      BY <1>1 DEF OrderOK, Numbered
    <3> QED BY <3>1, <3>2 DEF Calm
  <2>2. \A i \in DOMAIN stream' : Text(stream'[i]) =>
          stream'[i].piece[2] <= task'[stream'[i].piece[1]].pieces
    <3> SUFFICES ASSUME NEW i \in DOMAIN stream', Text(stream'[i])
                 PROVE  stream'[i].piece[2] <= task'[stream'[i].piece[1]].pieces
      OBVIOUS
    <3> PICK e : e = stream'[i] /\ e = stream[i + d] /\ i + d \in DOMAIN stream
      BY <1>2
    <3>1. e \in Events
      BY ElementFacts DEF FlowTyped
    <3>2. e.piece \in Pieces /\ e.piece[1] \in Sends
      BY <3>1, EventFacts, PieceFacts
    <3>3. e.piece[2] <= task[e.piece[1]].pieces
      BY DEF OrderOK, Numbered
    <3> QED BY <3>2, <3>3 DEF Calm
  <2>3. \A s \in Sends : \A i \in DOMAIN task'[s].out : Text(task'[s].out[i]) =>
          task'[s].out[i].piece[1] = s /\ task'[s].out[i].piece[2] <= task'[s].pieces
    BY <1>3 DEF OrderOK, Numbered, Calm
  <2> QED BY <2>1, <2>2, <2>3 DEF Numbered
<1> QED BY <1>4, <1>5, <1>6, <1>7, <1>8, <1>9, <1>10 DEF OrderOK

LEMMA HandledStream ==
  ASSUME FlowTyped, NEW e, Handles(e)
  PROVE  /\ LessStream(1) /\ 1 \in DOMAIN stream /\ e = stream[1]
         /\ \A i \in DOMAIN stream' : i \in Nat /\ i # 0
BY TailFacts DEF Handles, FlowTyped, LessStream

LEMMA LongerCame ==
  ASSUME FlowTyped, NEW p \in Pieces, MoreCame(p)
  PROVE  \E n \in Nat : /\ DOMAIN Came = 1 .. n /\ DOMAIN Came' = 1 .. n + 1
                        /\ \A i \in 1 .. n : Came'[i] = Came[i] /\ Came[i] \in Pieces
                        /\ Came'[n + 1] = p
<1> PICK q \in Seq(Pieces) : q = Came
  BY CameFacts
<1>1. /\ Len(q) \in Nat /\ DOMAIN q = 1 .. Len(q) /\ DOMAIN Append(q, p) = 1 .. Len(q) + 1
      /\ \A i \in 1 .. Len(q) : Append(q, p)[i] = q[i] /\ q[i] \in Pieces
      /\ Append(q, p)[Len(q) + 1] = p
  OBVIOUS
<1>2. Came' = Append(q, p)
  BY DEF MoreCame
<1> QED BY <1>1, <1>2

LEMMA TextOrder ==
  ASSUME FlowTyped, OrderOK, NEW e, Handles(e), Text(e)
  PROVE  OrderOK'
<1> PICK p \in Pieces : p = e.piece /\ MoreCame(p)
  BY HandledCame
<1> PICK n \in Nat :
      /\ DOMAIN Came = 1 .. n /\ DOMAIN Came' = 1 .. n + 1
      /\ \A i \in 1 .. n : Came'[i] = Came[i] /\ Came[i] \in Pieces
      /\ Came'[n + 1] = p
  BY LongerCame
<1>1. \A i \in DOMAIN Came' : \/ i \in DOMAIN Came /\ Came'[i] = Came[i]
                              \/ i = n + 1 /\ Came'[i] = p
  OBVIOUS
<1>2. /\ \A i \in DOMAIN stream' : i + 1 \in DOMAIN stream /\ stream'[i] = stream[i + 1] /\ i + 1 > 1
      /\ 1 \in DOMAIN stream /\ Text(stream[1]) /\ stream[1].piece = p
  BY HandledStream DEF LessStream
<1>3. task' = task
  BY DEF Handles
<1>4. CameOrder'
  <2> SUFFICES ASSUME NEW i \in 1 .. n + 1, NEW j \in 1 .. n + 1, i < j, Came'[i][1] = Came'[j][1]
               PROVE  Came'[i][2] < Came'[j][2]
    BY DEF CameOrder
  <2>1. i \in 1 .. n /\ Came'[i] = Came[i]
    OBVIOUS
  <2>2. CASE j \in 1 .. n
    BY <2>1, <2>2 DEF OrderOK, CameOrder
  <2>3. CASE j = n + 1
    BY <2>1, <2>3, <1>2 DEF OrderOK, CameStream
  <2> QED BY <2>2, <2>3
<1>5. CameStream'
  <2> SUFFICES ASSUME NEW i \in DOMAIN Came', NEW j \in DOMAIN stream', Text(stream'[j]),
                      Came'[i][1] = stream'[j].piece[1]
               PROVE  Came'[i][2] < stream'[j].piece[2]
    BY DEF CameStream
  <2>1. j + 1 \in DOMAIN stream /\ stream'[j] = stream[j + 1] /\ 1 < j + 1
    BY <1>2, HandledStream
  <2>2. CASE i \in DOMAIN Came /\ Came'[i] = Came[i]
    BY <2>1, <2>2 DEF OrderOK, CameStream
  <2>3. CASE Came'[i] = p
    BY <2>1, <2>3, <1>2 DEF OrderOK, StreamOrder
  <2> QED BY <1>1, <2>2, <2>3
<1>6. CameOut'
  BY <1>1, <1>2, <1>3 DEF OrderOK, CameOut, StreamOut
<1>7. StreamOrder'
  <2> SUFFICES ASSUME NEW i \in DOMAIN stream', NEW j \in DOMAIN stream', i < j,
                      Text(stream'[i]), Text(stream'[j]),
                      stream'[i].piece[1] = stream'[j].piece[1]
               PROVE  stream'[i].piece[2] < stream'[j].piece[2]
    BY DEF StreamOrder
  <2>1. /\ i + 1 \in DOMAIN stream /\ stream'[i] = stream[i + 1]
        /\ j + 1 \in DOMAIN stream /\ stream'[j] = stream[j + 1] /\ i + 1 < j + 1
    BY <1>2, HandledStream
  <2> QED BY <2>1 DEF OrderOK, StreamOrder
<1>8. StreamOut'
  BY <1>2, <1>3 DEF OrderOK, StreamOut
<1>9. OutOrder'
  BY <1>3 DEF OrderOK, OutOrder
<1>10. Numbered'
  BY <1>1, <1>2, <1>3 DEF OrderOK, Numbered
<1> QED BY <1>4, <1>5, <1>6, <1>7, <1>8, <1>9, <1>10 DEF OrderOK

(* New pieces have the next numbers: all that are on their way are below.    *)
LEMMA ReceiveOrder ==
  ASSUME FlowTyped, TaskTyped, OrderOK, NEW s \in Sends, Receives(s)
  PROVE  OrderOK'
<1> PICK texts \in Nat : \E out : Chunk(s, texts, out)
  BY DEF Receives
<1> PICK out : Chunk(s, texts, out)
  OBVIOUS
<1>0. /\ task[s].out = <<>> /\ stream' = stream /\ Came' = Came /\ Others(s)
      /\ task[s].pieces \in Nat /\ task'[s].pieces = task[s].pieces + texts
      /\ task'[s].out = out
  BY TaskFields DEF Receives, Flow, loopVars, Came, Chunk
<1>1. ASSUME NEW j \in DOMAIN out, Text(out[j])
      PROVE  /\ j \in 1 .. texts /\ out[j].piece[1] = s
             /\ out[j].piece[2] = task[s].pieces + j
  <2>1. out \in Seq(Events) /\ DOMAIN out = 1 .. Len(out) /\ Len(out) \in Nat
    BY ElementFacts DEF Chunk
  <2>2. ~Text(Signal("ToolStart"))
    BY DEF Text, Signal
  <2>3. j \in 1 .. texts
    BY <1>1, <2>1, <2>2 DEF Chunk
  <2>4. out[j] = TextDelta(<<s, task[s].pieces + j>>)
    BY <2>3 DEF Chunk
  <2>5. out[j].piece = <<s, task[s].pieces + j>>
    BY <2>4, EventFacts
  <2> QED BY <2>3, <2>5
<1>2. \A i \in DOMAIN Came : Came[i] \in Pieces /\ Came[i][1] \in Sends /\ Came[i][2] \in Nat
  BY CameFacts, PieceFacts
<1>3. \A i \in DOMAIN stream : Text(stream[i]) =>
        stream[i].piece[1] \in Sends /\ stream[i].piece[2] \in Nat
  BY ElementFacts, EventFacts, PieceFacts DEF FlowTyped
<1>4. \A r \in Sends : task[r].pieces \in Nat /\ task'[r].pieces \in Nat
                       /\ task[r].pieces <= task'[r].pieces
  <2>1. \A r \in Sends : task[r].pieces \in Nat
    BY TaskFields
  <2>2. task'[s].pieces \in Nat /\ task[s].pieces <= task'[s].pieces
    BY <1>0
  <2> QED BY <2>1, <2>2, <1>0 DEF Others
<1>5. CameOrder' /\ CameStream' /\ StreamOrder'
  BY <1>0 DEF OrderOK, CameOrder, CameStream, StreamOrder
<1>6. CameOut'
  <2> SUFFICES ASSUME NEW i \in DOMAIN Came, NEW r \in Sends, NEW j \in DOMAIN task'[r].out,
                      Text(task'[r].out[j]), Came[i][1] = r
               PROVE  Came[i][2] < task'[r].out[j].piece[2]
    BY <1>0 DEF CameOut
  <2>1. CASE r # s
    <3>1. task'[r] = task[r]
      BY <2>1, <1>0 DEF Others
    <3> QED BY <3>1 DEF OrderOK, CameOut
  <2>2. CASE r = s
    <3>1. Came[i][2] <= task[s].pieces
      BY <2>2 DEF OrderOK, Numbered
    <3>2. j \in 1 .. texts /\ task'[r].out[j].piece[2] = task[s].pieces + j
      BY <2>2, <1>0, <1>1
    <3> QED BY <3>1, <3>2, <1>0, <1>2
  <2> QED BY <2>1, <2>2
<1>7. StreamOut'
  <2> SUFFICES ASSUME NEW i \in DOMAIN stream, NEW r \in Sends, NEW j \in DOMAIN task'[r].out,
                      Text(stream[i]), Text(task'[r].out[j]), stream[i].piece[1] = r
               PROVE  stream[i].piece[2] < task'[r].out[j].piece[2]
    BY <1>0 DEF StreamOut
  <2>1. CASE r # s
    <3>1. task'[r] = task[r]
      BY <2>1, <1>0 DEF Others
    <3> QED BY <3>1 DEF OrderOK, StreamOut
  <2>2. CASE r = s
    <3>1. stream[i].piece[2] <= task[s].pieces
      BY <2>2 DEF OrderOK, Numbered
    <3>2. j \in 1 .. texts /\ task'[r].out[j].piece[2] = task[s].pieces + j
      BY <2>2, <1>0, <1>1
    <3> QED BY <3>1, <3>2, <1>0, <1>3
  <2> QED BY <2>1, <2>2
<1>8. OutOrder'
  <2> SUFFICES ASSUME NEW r \in Sends, NEW i \in DOMAIN task'[r].out, NEW j \in DOMAIN task'[r].out,
                      i < j, Text(task'[r].out[i]), Text(task'[r].out[j])
               PROVE  task'[r].out[i].piece[2] < task'[r].out[j].piece[2]
    BY DEF OutOrder
  <2>1. CASE r # s
    <3>1. task'[r] = task[r]
      BY <2>1, <1>0 DEF Others
    <3> QED BY <3>1 DEF OrderOK, OutOrder
  <2>2. CASE r = s
    <3>1. /\ i \in 1 .. texts /\ task'[r].out[i].piece[2] = task[s].pieces + i
          /\ j \in 1 .. texts /\ task'[r].out[j].piece[2] = task[s].pieces + j
      BY <2>2, <1>0, <1>1
    <3> QED BY <3>1, <1>0
  <2> QED BY <2>1, <2>2
<1>9. Numbered'
  <2>1. \A i \in DOMAIN Came : Came[i][2] <= task'[Came[i][1]].pieces
    <3> SUFFICES ASSUME NEW i \in DOMAIN Came PROVE Came[i][2] <= task'[Came[i][1]].pieces
      OBVIOUS
    <3> PICK r \in Sends, k \in Nat : r = Came[i][1] /\ k = Came[i][2]
      BY <1>2
    <3>1. k <= task[r].pieces
      BY DEF OrderOK, Numbered
    <3> QED BY <3>1, <1>4
  <2>2. \A i \in DOMAIN stream : Text(stream[i]) =>
          stream[i].piece[2] <= task'[stream[i].piece[1]].pieces
    <3> SUFFICES ASSUME NEW i \in DOMAIN stream, Text(stream[i])
                 PROVE  stream[i].piece[2] <= task'[stream[i].piece[1]].pieces
      OBVIOUS
    <3> PICK r \in Sends, k \in Nat : r = stream[i].piece[1] /\ k = stream[i].piece[2]
      BY <1>3
    <3>1. k <= task[r].pieces
      BY DEF OrderOK, Numbered
    <3> QED BY <3>1, <1>4
  <2>3. ASSUME NEW r \in Sends, NEW i \in DOMAIN task'[r].out, Text(task'[r].out[i])
        PROVE  task'[r].out[i].piece[1] = r /\ task'[r].out[i].piece[2] <= task'[r].pieces
    <3>1. CASE r # s
      BY <2>3, <3>1, <1>0 DEF OrderOK, Numbered, Others
    <3>2. CASE r = s
      <4>1. /\ i \in 1 .. texts /\ task'[r].out[i].piece[2] = task[s].pieces + i
            /\ task'[r].out[i].piece[1] = s
        BY <2>3, <3>2, <1>0, <1>1
      <4> QED BY <4>1, <3>2, <1>0
    <3> QED BY <3>1, <3>2
  <2> QED BY <2>1, <2>2, <2>3, <1>0 DEF Numbered
<1> QED BY <1>5, <1>6, <1>7, <1>8, <1>9 DEF OrderOK

(* What a step that sends an event does to the channel and the task.         *)
LEMMA Passed ==
  ASSUME FlowTyped, TaskTyped, NEW s \in Sends, NEW e, Sent(s, e)
  PROVE  \E n \in Nat, m \in Nat :
           /\ DOMAIN stream = 1 .. n /\ DOMAIN stream' = 1 .. n + 1 /\ stream'[n + 1] = e
           /\ \A i \in 1 .. n : stream'[i] = stream[i] /\ stream[i] \in Events
           /\ DOMAIN task[s].out = 1 .. m + 1 /\ DOMAIN task'[s].out = 1 .. m
           /\ task[s].out[1] = e /\ e \in Events
           /\ \A i \in 1 .. m : task'[s].out[i] = task[s].out[i + 1]
           /\ Len(task[s].out) = m + 1 /\ Len(task'[s].out) = m
           /\ Len(stream) = n /\ Len(stream') = n + 1
<1> PICK q \in Seq(Events), o \in Seq(Events) : q = stream /\ o = task[s].out
  BY TaskFields DEF FlowTyped
<1>1. /\ e \in Events /\ o # <<>> /\ e = o[1] /\ stream' = Append(q, e) /\ task'[s].out = Tail(o)
  BY DEF Sent
<1>2. /\ Len(q) \in Nat /\ DOMAIN q = 1 .. Len(q) /\ DOMAIN Append(q, e) = 1 .. Len(q) + 1
      /\ Append(q, e)[Len(q) + 1] = e /\ Len(Append(q, e)) = Len(q) + 1
      /\ \A i \in 1 .. Len(q) : Append(q, e)[i] = q[i] /\ q[i] \in Events
  BY <1>1
<1>3. PICK m \in Nat : /\ Len(o) = m + 1 /\ DOMAIN o = 1 .. m + 1 /\ DOMAIN Tail(o) = 1 .. m
                       /\ Len(Tail(o)) = m /\ \A i \in 1 .. m : Tail(o)[i] = o[i + 1]
  <2>1. Len(o) \in Nat /\ Len(o) # 0
    BY <1>1
  <2>2. PICK m \in Nat : Len(o) = m + 1
    <3>1. Len(o) - 1 \in Nat /\ Len(o) = (Len(o) - 1) + 1
      BY <2>1
    <3> QED BY <3>1
  <2>3. /\ DOMAIN o = 1 .. Len(o) /\ Len(Tail(o)) = Len(o) - 1 /\ DOMAIN Tail(o) = 1 .. Len(o) - 1
        /\ \A i \in 1 .. Len(o) - 1 : Tail(o)[i] = o[i + 1]
    BY <1>1, TailFacts
  <2>4. Len(o) - 1 = m
    BY <2>2
  <2> QED BY <2>2, <2>3, <2>4
<1>4. PICK n \in Nat : n = Len(q)
  BY <1>2
<1> WITNESS n \in Nat, m \in Nat
<1>5. /\ DOMAIN stream = 1 .. n /\ DOMAIN stream' = 1 .. n + 1 /\ stream'[n + 1] = e
      /\ \A i \in 1 .. n : stream'[i] = stream[i] /\ stream[i] \in Events
      /\ Len(stream) = n /\ Len(stream') = n + 1
  BY <1>1, <1>2, <1>4
<1>6. /\ DOMAIN task[s].out = 1 .. m + 1 /\ DOMAIN task'[s].out = 1 .. m
      /\ task[s].out[1] = e /\ e \in Events
      /\ \A i \in 1 .. m : task'[s].out[i] = task[s].out[i + 1]
      /\ Len(task[s].out) = m + 1 /\ Len(task'[s].out) = m
  BY <1>1, <1>3
<1> QED BY <1>5, <1>6

LEMMA EmitOrder ==
  ASSUME FlowTyped, TaskTyped, OrderOK, NEW s \in Sends, Emits(s)
  PROVE  OrderOK'
<1>a. PICK e : Sent(s, e)
  BY DEF Emits
<1>b. PICK n \in Nat, m \in Nat :
      /\ DOMAIN stream = 1 .. n /\ DOMAIN stream' = 1 .. n + 1 /\ stream'[n + 1] = e
      /\ \A i \in 1 .. n : stream'[i] = stream[i] /\ stream[i] \in Events
      /\ DOMAIN task[s].out = 1 .. m + 1 /\ DOMAIN task'[s].out = 1 .. m
      /\ task[s].out[1] = e /\ e \in Events
      /\ \A i \in 1 .. m : task'[s].out[i] = task[s].out[i + 1]
      /\ Len(task[s].out) = m + 1 /\ Len(task'[s].out) = m
      /\ Len(stream) = n /\ Len(stream') = n + 1
  BY <1>a, Passed
<1>0. /\ Came' = Came /\ Others(s) /\ task'[s].pieces = task[s].pieces
  BY <1>a DEF Emits, Sent, loopVars, Came
<1>s. 1 \in DOMAIN task[s].out /\ task[s].out[1] = e /\ e \in Events
  BY <1>b
<1>1. ASSUME NEW i \in DOMAIN task'[s].out
      PROVE  /\ i + 1 \in DOMAIN task[s].out /\ 1 < i + 1 /\ i \in Nat
             /\ task'[s].out[i] = task[s].out[i + 1]
  <2>1. i \in 1 .. m /\ i \in Nat /\ i + 1 \in 1 .. m + 1 /\ 1 < i + 1
    BY <1>b, <1>1
  <2> QED BY <1>b, <2>1
<1>2. Text(e) => e.piece[1] = s /\ e.piece[2] <= task[s].pieces
  BY <1>s DEF OrderOK, Numbered
<1>3. \A i \in DOMAIN stream' : \/ i \in DOMAIN stream /\ stream'[i] = stream[i]
                                   /\ stream[i] \in Events
                                \/ i = n + 1 /\ stream'[i] = e
  BY <1>b
<1>f. \A i, j \in DOMAIN stream' : i < j => i \in DOMAIN stream /\ stream'[i] = stream[i]
  BY <1>b
(* What is still to be sent was to be sent, and after e.                     *)
<1>g. ASSUME NEW r \in Sends, NEW j \in DOMAIN task'[r].out
      PROVE  \E k \in DOMAIN task[r].out : task[r].out[k] = task'[r].out[j] /\ (r = s => 1 < k)
  <2>1. CASE r = s
    BY <1>1, <1>g, <2>1
  <2>2. CASE r # s
    <3>1. task'[r] = task[r]
      BY <1>0, <2>2 DEF Others
    <3> QED BY <3>1, <1>g, <2>2
  <2> QED BY <2>1, <2>2
<1>4. CameOrder'
  BY <1>0 DEF OrderOK, CameOrder
<1>5. CameStream'
  <2> SUFFICES ASSUME NEW i \in DOMAIN Came, NEW j \in DOMAIN stream', Text(stream'[j]),
                      Came[i][1] = stream'[j].piece[1]
               PROVE  Came[i][2] < stream'[j].piece[2]
    BY <1>0 DEF CameStream
  <2>1. CASE j \in DOMAIN stream /\ stream'[j] = stream[j]
    BY <2>1 DEF OrderOK, CameStream
  <2>2. CASE stream'[j] = e
    <3>1. 1 \in DOMAIN task[s].out /\ Text(task[s].out[1]) /\ Came[i][1] = s
      BY <2>2, <1>2, <1>s
    <3>2. Came[i][2] < task[s].out[1].piece[2]
      BY <3>1 DEF OrderOK, CameOut
    <3> QED BY <3>2, <2>2, <1>s
  <2> QED BY <2>1, <2>2, <1>3
<1>6. CameOut'
  <2> SUFFICES ASSUME NEW i \in DOMAIN Came, NEW r \in Sends, NEW j \in DOMAIN task'[r].out,
                      Text(task'[r].out[j]), Came[i][1] = r
               PROVE  Came[i][2] < task'[r].out[j].piece[2]
    BY <1>0 DEF CameOut
  <2>1. PICK k \in DOMAIN task[r].out : task[r].out[k] = task'[r].out[j]
    BY <1>g
  <2>2. Came[i][2] < task[r].out[k].piece[2]
    BY <2>1 DEF OrderOK, CameOut
  <2> QED BY <2>1, <2>2
<1>7. StreamOrder'
  <2> SUFFICES ASSUME NEW i \in DOMAIN stream', NEW j \in DOMAIN stream', i < j,
                      Text(stream'[i]), Text(stream'[j]),
                      stream'[i].piece[1] = stream'[j].piece[1]
               PROVE  stream'[i].piece[2] < stream'[j].piece[2]
    BY DEF StreamOrder
  <2>1. i \in DOMAIN stream /\ stream'[i] = stream[i]
    BY <1>f
  <2>2. CASE j \in DOMAIN stream /\ stream'[j] = stream[j]
    BY <2>1, <2>2 DEF OrderOK, StreamOrder
  <2>3. CASE stream'[j] = e
    <3>1. Text(task[s].out[1]) /\ stream[i].piece[1] = s
      BY <2>1, <2>3, <1>2, <1>s
    <3>2. stream[i].piece[2] < task[s].out[1].piece[2]
      BY <3>1, <2>1, <1>s DEF OrderOK, StreamOut
    <3> QED BY <3>2, <2>1, <2>3, <1>s
  <2> QED BY <2>2, <2>3, <1>3
<1>8. StreamOut'
  <2> SUFFICES ASSUME NEW i \in DOMAIN stream', NEW r \in Sends, NEW j \in DOMAIN task'[r].out,
                      Text(stream'[i]), Text(task'[r].out[j]), stream'[i].piece[1] = r
               PROVE  stream'[i].piece[2] < task'[r].out[j].piece[2]
    BY DEF StreamOut
  <2>1. PICK k \in DOMAIN task[r].out :
          task[r].out[k] = task'[r].out[j] /\ (r = s => 1 < k)
    BY <1>g
  <2>2. CASE i \in DOMAIN stream /\ stream'[i] = stream[i]
    <3>1. stream[i].piece[2] < task[r].out[k].piece[2]
      BY <2>1, <2>2 DEF OrderOK, StreamOut
    <3> QED BY <3>1, <2>1, <2>2
  <2>3. CASE stream'[i] = e
    <3>1. r = s
      BY <2>3, <1>2
    <3>2. k \in DOMAIN task[s].out /\ 1 < k /\ Text(task[s].out[1]) /\ Text(task[s].out[k])
      BY <3>1, <2>1, <2>3, <1>s
    <3>3. task[s].out[1].piece[2] < task[s].out[k].piece[2]
      BY <3>2, <1>s DEF OrderOK, OutOrder
    <3> QED BY <3>1, <3>3, <2>1, <2>3, <1>s
  <2> QED BY <2>2, <2>3, <1>3
<1>9. OutOrder'
  <2> SUFFICES ASSUME NEW r \in Sends, NEW i \in DOMAIN task'[r].out, NEW j \in DOMAIN task'[r].out,
                      i < j, Text(task'[r].out[i]), Text(task'[r].out[j])
               PROVE  task'[r].out[i].piece[2] < task'[r].out[j].piece[2]
    BY DEF OutOrder
  <2>1. CASE r # s
    <3>1. task'[r] = task[r]
      BY <2>1, <1>0 DEF Others
    <3> QED BY <3>1 DEF OrderOK, OutOrder
  <2>2. CASE r = s
    <3>1. PICK k, l : /\ k \in DOMAIN task[s].out /\ l \in DOMAIN task[s].out /\ k < l
                      /\ task'[r].out[i] = task[s].out[k] /\ task'[r].out[j] = task[s].out[l]
      <4>1. i + 1 \in DOMAIN task[s].out /\ i \in Nat /\ task'[r].out[i] = task[s].out[i + 1]
        BY <2>2, <1>1
      <4>2. j + 1 \in DOMAIN task[s].out /\ j \in Nat /\ task'[r].out[j] = task[s].out[j + 1]
        BY <2>2, <1>1
      <4>3. i + 1 < j + 1
        BY <4>1, <4>2
      <4> QED BY <4>1, <4>2, <4>3
    <3>2. task[s].out[k].piece[2] < task[s].out[l].piece[2]
      BY <3>1 DEF OrderOK, OutOrder
    <3> QED BY <3>1, <3>2
  <2> QED BY <2>1, <2>2
<1>10. Numbered'
  <2>0. \A r \in Sends : task'[r].pieces = task[r].pieces
    BY <1>0 DEF Others
  <2>1. \A i \in DOMAIN Came : Came[i][2] <= task'[Came[i][1]].pieces
    <3>1. \A i \in DOMAIN Came : Came[i][1] \in Sends
      BY CameFacts, PieceFacts
    <3> QED BY <3>1, <2>0 DEF OrderOK, Numbered
  <2>2. \A i \in DOMAIN stream' : Text(stream'[i]) =>
          stream'[i].piece[2] <= task'[stream'[i].piece[1]].pieces
    <3> SUFFICES ASSUME NEW i \in DOMAIN stream', Text(stream'[i])
                 PROVE  stream'[i].piece[2] <= task'[stream'[i].piece[1]].pieces
      OBVIOUS
    <3>1. CASE i \in DOMAIN stream /\ stream'[i] = stream[i]
      <4>1. stream[i].piece \in Pieces
        BY <3>1, <1>3, <1>b, EventFacts
      <4>2. stream[i].piece[1] \in Sends
        BY <4>1, PieceFacts
      <4>3. stream[i].piece[2] <= task[stream[i].piece[1]].pieces
        BY <3>1 DEF OrderOK, Numbered
      <4> QED BY <3>1, <4>2, <4>3, <2>0
    <3>2. CASE stream'[i] = e
      BY <3>2, <1>2, <2>0
    <3> QED BY <3>1, <3>2, <1>3
  <2>3. ASSUME NEW r \in Sends, NEW i \in DOMAIN task'[r].out, Text(task'[r].out[i])
        PROVE  task'[r].out[i].piece[1] = r /\ task'[r].out[i].piece[2] <= task'[r].pieces
    <3>1. PICK k \in DOMAIN task[r].out : task[r].out[k] = task'[r].out[i]
      BY <1>g
    <3>2. task[r].out[k].piece[1] = r /\ task[r].out[k].piece[2] <= task[r].pieces
      BY <3>1, <2>3 DEF OrderOK, Numbered
    <3> QED BY <3>1, <3>2, <2>0
  <2> QED BY <2>1, <2>2, <2>3, <1>0 DEF Numbered
<1> QED BY <1>4, <1>5, <1>6, <1>7, <1>8, <1>9, <1>10 DEF OrderOK

LEMMA OrderStep ==
  ASSUME FlowTyped, TaskTyped, OrderOK, Step
  PROVE  OrderOK'
<1>0. ASSUME UNCHANGED stream PROVE LessStream(0)
  BY <1>0, ElementFacts DEF FlowTyped, LessStream
<1>1. CASE Sits \/ Grants
  <2>1. UNCHANGED <<task, stream, shown, stream_accum>>
    BY <1>1 DEF Sits, Grants, Flow, loopVars
  <2>2. SameCame /\ Calm
    BY <2>1 DEF SameCame, Came, Calm
  <2> QED BY <2>1, <2>2, <1>0, SameIsLess, CalmOrder
<1>2. ASSUME NEW e, Handles(e) PROVE OrderOK'
  <2>1. CASE Text(e)
    BY <1>2, <2>1, TextOrder
  <2>2. CASE ~Text(e)
    <3>1. LessCame /\ LessStream(1) /\ Calm
      BY <1>2, <2>2, HandledCame, HandledStream DEF Handles, Calm
    <3> QED BY <3>1, CalmOrder
  <2> QED BY <2>1, <2>2
<1>3. ASSUME NEW s \in Sends, TaskStep(s) PROVE OrderOK'
  <2>1. CASE Speaks(s)
    <3>1. Calm
      BY <2>1 DEF Speaks, Took, Calm, Others
    <3> QED BY <2>1, <3>1, <1>0, SpokenCame, CalmOrder DEF Speaks
  <2>2. CASE Queues(s) \/ Works(s) \/ Finishes(s)
    <3>1. UNCHANGED <<stream, shown, stream_accum>>
      BY <2>2, MovedOut DEF Flow, loopVars
    <3>2. SameCame
      BY <3>1 DEF SameCame, Came
    <3>3. \A j \in DOMAIN task'[s].out : ~Text(task'[s].out[j])
      <4>1. CASE task'[s].out = <<>>
        BY <4>1
      <4>2. ASSUME NEW k \in Ends3, task'[s].out = <<Signal(k)>>
            PROVE  \A j \in DOMAIN task'[s].out : ~Text(task'[s].out[j])
        <5>1. ~Text(Signal(k))
          BY DEF Text, Signal, Ends3
        <5>2. DOMAIN task'[s].out = {1} /\ task'[s].out[1] = Signal(k)
          BY <4>2
        <5> QED BY <5>1, <5>2
      <4> QED BY <2>2, <4>1, <4>2, MovedOut
    <3>4. task'[s].pieces = task[s].pieces /\ Others(s)
      BY <2>2, MovedOut, <1>3, TaskStepFacts
    <3>5. Calm
      BY <3>3, <3>4 DEF Calm, Others
    <3> QED BY <3>1, <3>2, <3>5, <1>0, SameIsLess, CalmOrder
  <2>3. CASE Receives(s)
    BY <2>3, ReceiveOrder
  <2>4. CASE Emits(s)
    BY <2>4, EmitOrder
  <2> QED BY <1>3, <2>1, <2>2, <2>3, <2>4 DEF TaskStep
<1> QED BY <1>1, <1>2, <1>3 DEF Step

-----------------------------------------------------------------------------
(* A message that meets no other: unsent, or past, or the one that the main  *)
(* loop's locals are about.  Its pieces are all on their way until its end   *)
(* is handled, and then they are shown.                                      *)

Over == {"sent", "failed", "ended"}

Arrived(p) == \E i \in DOMAIN Came : Came[i] = p
InStream(p) == \E i \in DOMAIN stream : stream[i] = TextDelta(p)
InOut(p) == \E i \in DOMAIN task[p[1]].out : task[p[1]].out[i] = TextDelta(p)
AllOnTheWay(s) == \A n \in 1 .. task[s].pieces :
  Arrived(<<s, n>>) \/ InStream(<<s, n>>) \/ InOut(<<s, n>>)
Displayed(p) == \E i \in DOMAIN shown : shown[i] = p
AllShown(s) == \A n \in 1 .. task[s].pieces : Displayed(<<s, n>>)

(* Its end has not left the task; it is the last event of the channel; it is *)
(* handled.                                                                  *)
Running(s) ==
  /\ task[s].told = FALSE /\ stream_target = TRUE /\ AllOnTheWay(s)
  /\ \A i \in DOMAIN stream : ~IsEnd(stream[i])
  /\ \A i \in DOMAIN task[s].out : IsEnd(task[s].out[i]) =>
       i = Len(task[s].out) /\ task[s].stage \in Over
Ending(s) ==
  /\ task[s].told = TRUE /\ stream_target = TRUE /\ AllOnTheWay(s)
  /\ task[s].out = <<>> /\ task[s].stage \in Over
  /\ stream # <<>> /\ \A i \in DOMAIN stream : IsEnd(stream[i]) <=> i = Len(stream)
Done(s) ==
  /\ AllShown(s) /\ stream = <<>> /\ task[s].out = <<>> /\ task[s].stage \in Over

Past(s) == task[s].stage = "ended" /\ (task[s].told = TRUE => AllShown(s))
Current(s) == /\ task[s].stage # "unsent" /\ \A r \in Sends \ {s} : Idle(r)
              /\ Running(s) \/ Ending(s) \/ Done(s)
AloneAt(s) == task[s].stage = "unsent" \/ Past(s) \/ Current(s)
Alone == \A s \in Sends \ overlapped : AloneAt(s)

(* What is shown stays shown.                                                *)
LEMMA ShownStays ==
  ASSUME FlowTyped, Step, NEW p, Displayed(p)
  PROVE  Displayed(p)'
<1>1. shown' = shown \/ shown' = shown \o stream_accum
  BY DEF Step, TaskStep, Sits, Grants, Handles, Speaks, Queues, Works, Finishes, Receives, Emits,
         Flow, loopVars
<1>2. CASE shown' = shown
  BY <1>2 DEF Displayed
<1>3. CASE shown' = shown \o stream_accum
  <2>1. shown' = Came
    BY <1>3 DEF Came
  <2>2. \A i \in DOMAIN shown : i \in DOMAIN Came /\ Came[i] = shown[i]
    BY CameFacts
  <2> QED BY <2>1, <2>2 DEF Displayed
<1> QED BY <1>1, <1>2, <1>3

LEMMA NeverFewer ==
  ASSUME Step
  PROVE  overlapped \subseteq overlapped'
<1>1. CASE \E s \in Sends : Speaks(s)
  BY <1>1 DEF Speaks
<1>2. CASE ~\E s \in Sends : Speaks(s)
  BY <1>2 DEF Step, TaskStep, Sits, Grants, Handles, Queues, Works, Finishes, Receives, Emits,
         Flow, loopVars
<1> QED BY <1>1, <1>2

(* A message at rest is left alone by the others' steps.                     *)
LEMMA PastStays ==
  ASSUME FlowTyped, TaskTyped, Step, NEW s \in Sends, task'[s] = task[s], Past(s)
  PROVE  Past(s)'
<1>1. task'[s].stage = "ended" /\ task'[s].told = task[s].told /\ task'[s].pieces = task[s].pieces
  BY DEF Past
<1>2. AllShown(s) => AllShown(s)'
  BY <1>1, ShownStays DEF AllShown
<1> QED BY <1>1, <1>2 DEF Past

LEMMA WayStays ==
  ASSUME FlowTyped, NEW e, Handles(e), stream_target = TRUE \/ Text(e), NEW p \in Pieces,
         Arrived(p) \/ InStream(p) \/ InOut(p)
  PROVE  Arrived(p)' \/ InStream(p)' \/ InOut(p)'
<1>1. CASE InOut(p)
  BY <1>1 DEF InOut, Handles
<1>2. CASE Arrived(p)
  <2>1. CASE Text(e)
    <3>1. e.piece \in Pieces /\ MoreCame(e.piece)
      BY <2>1, HandledCame
    <3>2. PICK n \in Nat : DOMAIN Came = 1 .. n /\ DOMAIN Came' = 1 .. n + 1
                           /\ \A i \in 1 .. n : Came'[i] = Came[i]
      BY <3>1, LongerCame
    <3>3. PICK i \in DOMAIN Came : Came[i] = p
      BY <1>2 DEF Arrived
    <3>4. i \in DOMAIN Came' /\ Came'[i] = p
      BY <3>2, <3>3
    <3> QED BY <3>4 DEF Arrived
  <2>2. CASE ~Text(e)
    <3>1. Came' = Came
      BY <2>2, HandledCame DEF SameCame
    <3> QED BY <3>1, <1>2 DEF Arrived
  <2> QED BY <2>1, <2>2
<1>3. CASE InStream(p)
  <2>1. PICK i \in DOMAIN stream : stream[i] = TextDelta(p)
    BY <1>3 DEF InStream
  <2>2. CASE i = 1
    <3>1. e = TextDelta(p) /\ Text(e) /\ e.piece = p
      BY <2>1, <2>2, HandledStream, EventFacts
    <3>2. MoreCame(p)
      BY <3>1, HandledCame
    <3>3. PICK n \in Nat : DOMAIN Came' = 1 .. n + 1 /\ Came'[n + 1] = p
      BY <3>2, LongerCame
    <3> QED BY <3>3 DEF Arrived
  <2>3. CASE i # 1
    <3> PICK q \in Seq(Events) : q = stream
      BY DEF FlowTyped
    <3>1. q # <<>> /\ stream' = Tail(q) /\ i \in 1 .. Len(q) /\ Len(q) \in Nat
      BY <2>1, ElementFacts DEF Handles
    <3>2. i - 1 \in DOMAIN Tail(q) /\ Tail(q)[i - 1] = q[i]
      BY <3>1, <2>3, TailFacts
    <3> QED BY <3>1, <3>2, <2>1 DEF InStream
  <2> QED BY <2>2, <2>3
<1> QED BY <1>1, <1>2, <1>3

LEMMA HandleAlone ==
  ASSUME FlowTyped, TaskTyped, Step, NEW e, Handles(e), NEW s \in Sends, AloneAt(s)
  PROVE  AloneAt(s)'
<1>1. task' = task /\ stream # <<>>
  BY DEF Handles
<1>2. CASE task[s].stage = "unsent"
  BY <1>1, <1>2 DEF AloneAt
<1>3. CASE Past(s)
  BY <1>1, <1>3, PastStays DEF AloneAt
<1>4. CASE Current(s)
  <2>1. task'[s].stage # "unsent" /\ \A r \in Sends \ {s} : Idle(r)'
    BY <1>1, <1>4 DEF Current, Idle
  <2>2. ASSUME stream_target = TRUE \/ Text(e), AllOnTheWay(s) PROVE AllOnTheWay(s)'
    <3> SUFFICES ASSUME NEW n \in 1 .. task[s].pieces
                 PROVE  Arrived(<<s, n>>)' \/ InStream(<<s, n>>)' \/ InOut(<<s, n>>)'
      BY <1>1 DEF AllOnTheWay
    <3>1. task[s].pieces \in Nat
      BY TaskFields
    <3>2. PICK p \in Pieces : p = <<s, n>>
      <4>1. n \in Nat \ {0}
        BY <3>1
      <4>2. <<s, n>> \in Pieces
        BY <4>1 DEF Pieces
      <4> QED BY <4>2
    <3>3. Arrived(p) \/ InStream(p) \/ InOut(p)
      BY <2>2, <3>2 DEF AllOnTheWay
    <3>4. Arrived(p)' \/ InStream(p)' \/ InOut(p)'
      BY <2>2, <3>3, WayStays
    <3> QED BY <3>2, <3>4
  <2>3. /\ 1 \in DOMAIN stream /\ e = stream[1]
        /\ \A i \in DOMAIN stream' : i \in Nat /\ i # 0 /\ i + 1 \in DOMAIN stream
                                     /\ stream'[i] = stream[i + 1]
    BY HandledStream DEF LessStream
  <2>4. CASE Running(s)
    <3>1. ~IsEnd(e)
      BY <2>3, <2>4 DEF Running
    <3>2. stream_target' = TRUE
      BY <3>1, <2>4 DEF Handles, Running
    <3>3. AllOnTheWay(s)'
      BY <2>2, <2>4 DEF Running
    <3>4. \A i \in DOMAIN stream' : ~IsEnd(stream'[i])
      BY <2>3, <2>4 DEF Running
    <3>5. Running(s)'
      BY <3>2, <3>3, <3>4, <1>1, <2>4 DEF Running
    <3> QED BY <3>5, <2>1 DEF Current, AloneAt
  <2>5. CASE Ending(s)
    <3>0. /\ Len(stream) \in Nat /\ DOMAIN stream = 1 .. Len(stream)
          /\ DOMAIN stream' = 1 .. Len(stream) - 1 /\ Len(stream') = Len(stream) - 1
          /\ Len(stream) # 0 /\ (stream' = <<>> <=> Len(stream) = 1)
      <4> PICK q \in Seq(Events) : q = stream
        BY DEF FlowTyped
      <4>1. q # <<>> /\ stream' = Tail(q)
        BY DEF Handles
      <4>2. Len(q) \in Nat /\ Len(q) # 0 /\ Tail(q) \in Seq(Events) /\ Len(Tail(q)) = Len(q) - 1
            /\ DOMAIN q = 1 .. Len(q) /\ DOMAIN Tail(q) = 1 .. Len(q) - 1
        BY <4>1, TailFacts
      <4>3. Tail(q) = <<>> <=> Len(Tail(q)) = 0
        BY <4>2, ElementFacts
      <4> QED BY <4>1, <4>2, <4>3
    <3>1. CASE Len(stream) = 1
      <4>1. IsEnd(e) /\ ~Text(e)
        BY <3>1, <2>3, <2>5 DEF Ending, IsEnd, Text, Ends3
      <4>2. shown' = Came /\ stream' = <<>>
        BY <4>1, <3>0, <3>1, <2>5, HandledCame DEF Ending
      <4>3. ASSUME NEW n \in 1 .. task[s].pieces PROVE Displayed(<<s, n>>)'
        <5>1. ~InStream(<<s, n>>)
          <6>1. \A i \in DOMAIN stream : ~Text(stream[i])
            BY <3>0, <3>1, <4>1, <2>3
          <6> QED BY <6>1 DEF InStream, Text, TextDelta
        <5>2. ~InOut(<<s, n>>)
          BY <2>5 DEF Ending, InOut
        <5>3. Arrived(<<s, n>>)
          BY <5>1, <5>2, <2>5 DEF Ending, AllOnTheWay
        <5> QED BY <5>3, <4>2 DEF Arrived, Displayed
      <4>4. Done(s)'
        BY <4>2, <4>3, <1>1, <2>5 DEF Done, AllShown, Ending
      <4> QED BY <4>4, <2>1 DEF Current, AloneAt
    <3>2. CASE Len(stream) # 1
      <4>1. ~IsEnd(e)
        BY <3>2, <2>3, <2>5 DEF Ending
      <4>2. stream_target' = TRUE
        BY <4>1, <2>5 DEF Handles, Ending
      <4>3. AllOnTheWay(s)'
        BY <2>2, <2>5 DEF Ending
      <4>4. \A i \in DOMAIN stream' : IsEnd(stream'[i]) <=> i = Len(stream')
        <5> SUFFICES ASSUME NEW i \in DOMAIN stream' PROVE IsEnd(stream'[i]) <=> i = Len(stream')
          OBVIOUS
        <5>1. IsEnd(stream[i + 1]) <=> i + 1 = Len(stream)
          BY <2>3, <2>5 DEF Ending
        <5> QED BY <5>1, <2>3, <3>0
      <4>5. Ending(s)'
        BY <3>0, <3>2, <4>2, <4>3, <4>4, <1>1, <2>5 DEF Ending
      <4> QED BY <4>5, <2>1 DEF Current, AloneAt
    <3> QED BY <3>1, <3>2
  <2>6. CASE Done(s)
    BY <1>1, <2>6 DEF Done
  <2> QED BY <1>4, <2>4, <2>5, <2>6 DEF Current
<1> QED BY <1>2, <1>3, <1>4 DEF AloneAt

(* A message that is sent while nothing is under way.                        *)
LEMMA SpeakAlone ==
  ASSUME FlowTyped, TaskTyped, TaskOK, NEW s \in Sends, Speaks(s), s \notin overlapped'
  PROVE  AloneAt(s)'
<1>1. /\ task[s].stage = "unsent" /\ task[s].pieces = 0 /\ task[s].told = FALSE /\ task[s].out = <<>>
      /\ Others(s)
  BY DEF Speaks, TaskOK, Took
<1>2. /\ task'[s].stage = "spawned" /\ task'[s].pieces = 0 /\ task'[s].told = FALSE
      /\ task'[s].out = <<>> /\ stream_target' = TRUE /\ stream' = stream
  BY <1>1 DEF Speaks, Took
<1>3. s \in 1 .. s
  BY DEF Sends
<1>4. stream = <<>> /\ \A r \in Sends : Idle(r)
  BY <1>3 DEF Speaks
<1>5. \A r \in Sends \ {s} : Idle(r)'
  BY <1>1, <1>4 DEF Others, Idle
<1>6. AllOnTheWay(s)'
  BY <1>2 DEF AllOnTheWay
<1>7. Running(s)'
  <2>1. DOMAIN stream' = {} /\ DOMAIN task'[s].out = {}
    BY <1>2, <1>4
  <2> QED BY <1>2, <1>6, <2>1 DEF Running
<1> QED BY <1>2, <1>5, <1>7 DEF Current, AloneAt

LEMMA MoveAlone ==
  ASSUME FlowTyped, TaskTyped, NEW s \in Sends, Queues(s) \/ Works(s) \/ Finishes(s), AloneAt(s)
  PROVE  AloneAt(s)'
<1>1. /\ task[s].out = <<>> /\ task'[s].pieces = task[s].pieces /\ task'[s].told = task[s].told
      /\ \/ task'[s].out = <<>>
         \/ /\ task'[s].stage \in {"sent", "failed"}
            /\ \E k \in Ends3 : task'[s].out = <<Signal(k)>>
      /\ UNCHANGED <<stream, shown, stream_target>> /\ Came' = Came
  BY MovedOut DEF Flow, loopVars, Came
<1>2. /\ Others(s) /\ task[s].stage \notin {"unsent", "ended"} /\ task'[s].stage # "unsent"
      /\ task[s].stage \in Over => task'[s].stage = "ended" /\ task'[s].out = <<>>
  BY DEF Queues, Works, Finishes, Took, Advances, Held, Over
<1>3. Current(s)
  BY <1>2 DEF AloneAt, Past
<1>4. \A r \in Sends \ {s} : Idle(r)'
  BY <1>2, <1>3 DEF Current, Others, Idle
<1>5. AllOnTheWay(s) => AllOnTheWay(s)'
  <2> SUFFICES ASSUME AllOnTheWay(s), NEW n \in 1 .. task[s].pieces
               PROVE  Arrived(<<s, n>>)' \/ InStream(<<s, n>>)' \/ InOut(<<s, n>>)'
    BY <1>1 DEF AllOnTheWay
  <2>1. ~InOut(<<s, n>>)
    BY <1>1 DEF InOut
  <2>2. Arrived(<<s, n>>) \/ InStream(<<s, n>>)
    BY <2>1 DEF AllOnTheWay
  <2> QED BY <2>2, <1>1 DEF Arrived, InStream
<1>6. CASE Running(s)
  <2>1. \A i \in DOMAIN task'[s].out : IsEnd(task'[s].out[i]) =>
          i = Len(task'[s].out) /\ task'[s].stage \in Over
    <3>1. CASE task'[s].out = <<>>
      BY <3>1
    <3>2. CASE task'[s].stage \in {"sent", "failed"} /\ \E k \in Ends3 : task'[s].out = <<Signal(k)>>
      BY <3>2 DEF Over
    <3> QED BY <1>1, <3>1, <3>2
  <2>2. Running(s)'
    BY <2>1, <1>1, <1>5, <1>6 DEF Running
  <2> QED BY <2>2, <1>2, <1>4 DEF Current, AloneAt
<1>7. CASE Ending(s)
  <2>1. task'[s].stage \in Over /\ task'[s].out = <<>>
    BY <1>2, <1>7 DEF Ending, Over
  <2>2. Ending(s)'
    BY <2>1, <1>1, <1>5, <1>7 DEF Ending
  <2> QED BY <2>2, <1>2, <1>4 DEF Current, AloneAt
<1>8. CASE Done(s)
  <2>1. task'[s].stage \in Over /\ task'[s].out = <<>>
    BY <1>2, <1>8 DEF Done, Over
  <2>2. Done(s)'
    BY <2>1, <1>1, <1>8 DEF Done, AllShown, Displayed
  <2> QED BY <2>2, <1>2, <1>4 DEF Current, AloneAt
<1> QED BY <1>3, <1>6, <1>7, <1>8 DEF Current

LEMMA ReceiveAlone ==
  ASSUME FlowTyped, TaskTyped, NEW s \in Sends, Receives(s), AloneAt(s)
  PROVE  AloneAt(s)'
<1> PICK texts \in Nat : \E out : Chunk(s, texts, out)
  BY DEF Receives
<1> PICK out : Chunk(s, texts, out)
  OBVIOUS
<1>1. /\ task[s].out = <<>> /\ task[s].stage = "streaming" /\ task'[s].stage = "streaming"
      /\ task'[s].told = task[s].told /\ task'[s].out = out
      /\ task[s].pieces \in Nat /\ task'[s].pieces = task[s].pieces + texts
      /\ UNCHANGED <<stream, shown, stream_target>> /\ Came' = Came /\ Others(s)
  BY TaskFields DEF Receives, Chunk, Flow, loopVars, Came
<1>2. Current(s) /\ Running(s)
  BY <1>1 DEF AloneAt, Past, Current, Ending, Done, Over
<1>3. \A r \in Sends \ {s} : Idle(r)'
  BY <1>1, <1>2 DEF Current, Others, Idle
<1>4. /\ out \in Seq(Events) /\ DOMAIN out = 1 .. Len(out) /\ Len(out) \in Nat
      /\ \A i \in 1 .. texts : i \in DOMAIN out /\ out[i] = TextDelta(<<s, task[s].pieces + i>>)
      /\ \A i \in DOMAIN out : i > texts => out[i] = Signal("ToolStart")
  BY ElementFacts DEF Chunk
<1>5. AllOnTheWay(s)'
  <2> SUFFICES ASSUME NEW n \in 1 .. task[s].pieces + texts
               PROVE  Arrived(<<s, n>>)' \/ InStream(<<s, n>>)' \/ InOut(<<s, n>>)'
    BY <1>1 DEF AllOnTheWay
  <2>1. CASE n <= task[s].pieces
    <3>1. n \in 1 .. task[s].pieces
      BY <2>1, <1>1
    <3>2. ~InOut(<<s, n>>)
      BY <1>1 DEF InOut
    <3>3. Arrived(<<s, n>>) \/ InStream(<<s, n>>)
      BY <3>1, <3>2, <1>2 DEF Running, AllOnTheWay
    <3> QED BY <3>3, <1>1 DEF Arrived, InStream
  <2>2. CASE n > task[s].pieces
    <3>1. PICK i \in 1 .. texts : n = task[s].pieces + i
      <4>1. n - task[s].pieces \in 1 .. texts /\ n = task[s].pieces + (n - task[s].pieces)
        BY <2>2, <1>1
      <4> QED BY <4>1
    <3>2. i \in DOMAIN out /\ out[i] = TextDelta(<<s, n>>)
      BY <3>1, <1>4
    <3> QED BY <3>2, <1>1 DEF InOut
  <2> QED BY <2>1, <2>2, <1>1
<1>6. \A i \in DOMAIN out : ~IsEnd(out[i])
  <2> SUFFICES ASSUME NEW i \in DOMAIN out PROVE ~IsEnd(out[i])
    OBVIOUS
  <2>1. CASE i \in 1 .. texts
    <3>1. out[i] = TextDelta(<<s, task[s].pieces + i>>)
      BY <2>1, <1>4
    <3> QED BY <3>1 DEF TextDelta, IsEnd, Ends3
  <2>2. CASE i > texts
    <3>1. out[i] = Signal("ToolStart")
      BY <2>2, <1>4
    <3> QED BY <3>1 DEF Signal, IsEnd, Ends3
  <2> QED BY <2>1, <2>2, <1>4
<1>7. Running(s)'
  BY <1>1, <1>2, <1>5, <1>6 DEF Running
<1> QED BY <1>1, <1>3, <1>7 DEF Current, AloneAt

LEMMA EmitAlone ==
  ASSUME FlowTyped, TaskTyped, TaskOK, NEW s \in Sends, Emits(s), AloneAt(s)
  PROVE  AloneAt(s)'
<1>e. PICK e : Sent(s, e)
  BY DEF Emits
<1>p. PICK n \in Nat, m \in Nat :
      /\ DOMAIN stream = 1 .. n /\ DOMAIN stream' = 1 .. n + 1 /\ stream'[n + 1] = e
      /\ \A i \in 1 .. n : stream'[i] = stream[i] /\ stream[i] \in Events
      /\ DOMAIN task[s].out = 1 .. m + 1 /\ DOMAIN task'[s].out = 1 .. m
      /\ task[s].out[1] = e /\ e \in Events
      /\ \A i \in 1 .. m : task'[s].out[i] = task[s].out[i + 1]
      /\ Len(task[s].out) = m + 1 /\ Len(task'[s].out) = m
      /\ Len(stream) = n /\ Len(stream') = n + 1
  BY <1>e, Passed
<1>1. /\ task[s].out # <<>> /\ task'[s].stage = task[s].stage
      /\ task'[s].told = (task[s].told \/ IsEnd(e)) /\ task'[s].pieces = task[s].pieces
      /\ UNCHANGED <<shown, stream_target>> /\ Came' = Came /\ Others(s)
  BY <1>e DEF Sent, Emits, loopVars, Came
<1>2. task[s].stage \notin {"unsent", "ended"}
  BY <1>1 DEF TaskOK
<1>3. Current(s) /\ Running(s)
  BY <1>1, <1>2 DEF AloneAt, Past, Current, Ending, Done
<1>4. \A r \in Sends \ {s} : Idle(r)'
  BY <1>1, <1>3 DEF Current, Others, Idle
<1>s. \A i \in DOMAIN stream : i \in DOMAIN stream' /\ stream'[i] = stream[i]
  BY <1>p
<1>f. /\ n + 1 \in DOMAIN stream' /\ stream'[n + 1] = task[s].out[1]
      /\ \A i \in DOMAIN task[s].out :
           i = 1 \/ (i - 1 \in DOMAIN task'[s].out /\ task'[s].out[i - 1] = task[s].out[i])
  <2>1. n + 1 \in DOMAIN stream' /\ stream'[n + 1] = task[s].out[1]
    BY <1>p
  <2>2. ASSUME NEW i \in DOMAIN task[s].out, i # 1
        PROVE  i - 1 \in DOMAIN task'[s].out /\ task'[s].out[i - 1] = task[s].out[i]
    <3>1. PICK j \in 1 .. m : i = j + 1
      <4>1. i - 1 \in 1 .. m /\ i = (i - 1) + 1
        BY <1>p, <2>2
      <4> QED BY <4>1
    <3>2. j \in DOMAIN task'[s].out /\ task'[s].out[j] = task[s].out[j + 1] /\ i - 1 = j
      BY <1>p, <3>1
    <3> QED BY <3>1, <3>2
  <2> QED BY <2>1, <2>2
<1>5. AllOnTheWay(s)'
  <2> SUFFICES ASSUME NEW k \in 1 .. task[s].pieces
               PROVE  Arrived(<<s, k>>)' \/ InStream(<<s, k>>)' \/ InOut(<<s, k>>)'
    BY <1>1 DEF AllOnTheWay
  <2> PICK p : p = <<s, k>>
    OBVIOUS
  <2>0. p[1] = s
    OBVIOUS
  <2>1. Arrived(p) \/ InStream(p) \/ InOut(p)
    BY <1>3 DEF Running, AllOnTheWay
  <2>2. CASE Arrived(p)
    BY <2>2, <1>1 DEF Arrived
  <2>3. CASE InStream(p)
    <3>1. PICK i \in DOMAIN stream : stream[i] = TextDelta(p)
      BY <2>3 DEF InStream
    <3>2. i \in DOMAIN stream' /\ stream'[i] = TextDelta(p)
      BY <3>1, <1>s
    <3> QED BY <3>2 DEF InStream
  <2>4. CASE InOut(p)
    <3>1. PICK i \in DOMAIN task[s].out : task[s].out[i] = TextDelta(p)
      BY <2>0, <2>4 DEF InOut
    <3>2. CASE i = 1
      <4>1. n + 1 \in DOMAIN stream' /\ stream'[n + 1] = TextDelta(p)
        BY <3>1, <3>2, <1>f
      <4> QED BY <4>1 DEF InStream
    <3>3. CASE i # 1
      <4>1. PICK j \in DOMAIN task'[s].out : task'[s].out[j] = TextDelta(p)
        BY <3>1, <3>3, <1>f
      <4>2. InOut(p)'
        BY <2>0, <4>1 DEF InOut
      <4> QED BY <4>2
    <3> QED BY <3>2, <3>3
  <2> QED BY <2>1, <2>2, <2>3, <2>4
<1>6. CASE IsEnd(e)
  <2>1. 1 \in DOMAIN task[s].out /\ IsEnd(task[s].out[1]) /\ Len(task[s].out) = m + 1
    BY <1>6, <1>p
  <2>2. 1 = m + 1 /\ task[s].stage \in Over
    BY <2>1, <1>3 DEF Running
  <2>3. m = 0 /\ task'[s].out = <<>>
    <3>1. task'[s].out \in Seq(Events)
      BY <1>e, TailFacts, TaskFields DEF Sent
    <3>2. m = 0
      BY <2>2, <1>p
    <3>3. Len(task'[s].out) = 0
      BY <3>2, <1>p
    <3> QED BY <3>1, <3>2, <3>3, ElementFacts
  <2>4. \A i \in DOMAIN stream' : IsEnd(stream'[i]) <=> i = Len(stream')
    <3> SUFFICES ASSUME NEW i \in 1 .. n + 1 PROVE IsEnd(stream'[i]) <=> i = n + 1
      BY <1>p
    <3>1. CASE i = n + 1
      BY <3>1, <1>6, <1>p
    <3>2. CASE i \in 1 .. n
      <4>1. i \in DOMAIN stream /\ stream'[i] = stream[i] /\ i # n + 1
        BY <3>2, <1>p
      <4>2. ~IsEnd(stream[i])
        BY <4>1, <1>3 DEF Running
      <4> QED BY <4>1, <4>2
    <3> QED BY <3>1, <3>2
  <2>5. stream' # <<>>
    <3>1. n + 1 \in DOMAIN stream'
      BY <1>p
    <3> QED BY <3>1
  <2>6. task'[s].told = TRUE
    BY <1>1, <1>6
  <2>7. Ending(s)'
    BY <1>1, <1>3, <1>5, <2>2, <2>3, <2>4, <2>5, <2>6 DEF Ending, Running
  <2> QED BY <2>7, <1>1, <1>2, <1>4 DEF Current, AloneAt
<1>7. CASE ~IsEnd(e)
  <2>1. \A i \in DOMAIN stream' : ~IsEnd(stream'[i])
    <3> SUFFICES ASSUME NEW i \in 1 .. n + 1 PROVE ~IsEnd(stream'[i])
      BY <1>p
    <3>1. CASE i = n + 1
      BY <3>1, <1>7, <1>p
    <3>2. CASE i \in 1 .. n
      <4>1. i \in DOMAIN stream /\ stream'[i] = stream[i]
        BY <3>2, <1>p
      <4>2. ~IsEnd(stream[i])
        BY <4>1, <1>3 DEF Running
      <4> QED BY <4>1, <4>2
    <3> QED BY <3>1, <3>2
  <2>2. ASSUME NEW i \in DOMAIN task'[s].out, IsEnd(task'[s].out[i])
        PROVE  i = Len(task'[s].out) /\ task'[s].stage \in Over
    <3>0. i \in 1 .. m
      BY <1>p
    <3>1. i + 1 \in DOMAIN task[s].out /\ IsEnd(task[s].out[i + 1]) /\ Len(task[s].out) = m + 1
      BY <2>2, <3>0, <1>p
    <3>2. i + 1 = m + 1 /\ task[s].stage \in Over
      BY <3>1, <1>3 DEF Running
    <3>3. i = m /\ Len(task'[s].out) = m
      BY <3>0, <3>2, <1>p
    <3> QED BY <3>2, <3>3, <1>1
  <2>3. task'[s].told = FALSE
    BY <1>1, <1>3, <1>7 DEF Running
  <2>4. Running(s)'
    BY <1>1, <1>3, <1>5, <2>1, <2>2, <2>3 DEF Running
  <2> QED BY <2>4, <1>1, <1>2, <1>4 DEF Current, AloneAt
<1> QED BY <1>6, <1>7

(* A message that is sent while another is under way is no longer alone.     *)
LEMMA OtherAlone ==
  ASSUME FlowTyped, TaskTyped, TaskOK, NEW s \in Sends, NEW r \in Sends, r # s, TaskStep(r),
         AloneAt(s), s \notin overlapped'
  PROVE  AloneAt(s)'
<1>1. task'[s] = task[s] /\ Step
  BY TaskStepFacts DEF Others, Step
<1>2. CASE task[s].stage = "unsent"
  BY <1>1, <1>2 DEF AloneAt
<1>3. CASE Past(s)
  BY <1>1, <1>3, PastStays DEF AloneAt
<1>4. CASE Current(s)
  <2>1. task[r].stage \in {"unsent", "ended"}
    BY <1>4 DEF Current, Idle
  <2>2. Speaks(r)
    <3>1. ~Queues(r) /\ ~Works(r) /\ ~Finishes(r) /\ ~Receives(r)
      BY <2>1 DEF Queues, Works, Finishes, Receives
    <3>2. ~Emits(r)
      BY <2>1 DEF Emits, Sent, TaskOK
    <3> QED BY <3>1, <3>2 DEF TaskStep
  <2>3. task[r].stage = "unsent" /\ task[s].stage # "unsent"
    BY <2>2, <1>4 DEF Speaks, Current
  <2>4. s \in 1 .. r
    <3>1. ~(r < s)
      BY <2>3 DEF TaskOK
    <3> QED BY <3>1 DEF Sends
  <2>5. stream = <<>> /\ Idle(s)
    BY <2>2, <2>4 DEF Speaks
  <2>6. task[s].stage = "ended"
    BY <2>5, <2>3 DEF Idle
  <2>7. Past(s)
    BY <2>5, <2>6, <1>4 DEF Current, Running, Ending, Done, Past
  <2> QED BY <1>1, <2>7, PastStays DEF AloneAt
<1> QED BY <1>2, <1>3, <1>4 DEF AloneAt

LEMMA AloneStep ==
  ASSUME FlowTyped, TaskTyped, TaskOK, Alone, Step
  PROVE  Alone'
<1> SUFFICES ASSUME NEW s \in Sends, s \notin overlapped' PROVE AloneAt(s)'
  BY DEF Alone
<1>1. AloneAt(s)
  BY NeverFewer DEF Alone
<1>2. CASE Sits \/ Grants
  <2>1. UNCHANGED <<task, stream, shown, stream_accum, stream_target>>
    BY <1>2 DEF Sits, Grants, Flow, loopVars
  <2>2. /\ Running(s)' <=> Running(s)
        /\ Ending(s)' <=> Ending(s)
        /\ Done(s)' <=> Done(s)
        /\ Past(s)' <=> Past(s)
    BY <2>1 DEF Running, Ending, Done, Past, AllOnTheWay, AllShown, Displayed, Arrived, InStream,
         InOut, Came
  <2> QED BY <2>1, <2>2, <1>1 DEF AloneAt, Current, Idle
<1>3. ASSUME NEW e, Handles(e) PROVE AloneAt(s)'
  BY <1>1, <1>3, HandleAlone
<1>4. ASSUME NEW r \in Sends, TaskStep(r) PROVE AloneAt(s)'
  <2>1. CASE r # s
    BY <2>1, <1>1, <1>4, OtherAlone
  <2>2. CASE r = s
    BY <2>2, <1>1, <1>4, SpeakAlone, MoveAlone, ReceiveAlone, EmitAlone DEF TaskStep
  <2> QED BY <2>1, <2>2
<1> QED BY <1>2, <1>3, <1>4 DEF Step

-----------------------------------------------------------------------------
AnswerInv == ChatInv /\ OrderOK /\ Alone

LEMMA AnswerInit == Init => AnswerInv
<1> SUFFICES ASSUME Init PROVE AnswerInv
  OBVIOUS
<1>1. /\ DOMAIN Came = {} /\ DOMAIN stream = {}
      /\ \A s \in Sends : task[s].stage = "unsent" /\ DOMAIN task[s].out = {}
  BY DEF Init, Came, Fresh
<1>2. OrderOK
  BY <1>1 DEF OrderOK, CameOrder, CameStream, CameOut, StreamOrder, StreamOut, OutOrder, Numbered
<1>3. Alone
  BY <1>1 DEF Alone, AloneAt
<1> QED BY <1>2, <1>3, ChatInit DEF AnswerInv

LEMMA AnswerNext == AnswerInv /\ [Next]_vars => AnswerInv'
<1> SUFFICES ASSUME AnswerInv, [Next]_vars PROVE AnswerInv'
  OBVIOUS
<1>1. FlowTyped /\ TaskTyped /\ TaskOK /\ OrderOK /\ Alone /\ ChatInv
  BY DEF AnswerInv, ChatInv, Base
<1>2. Step
  BY StepKinds DEF AnswerInv, ChatInv, Step
<1>3. OrderOK' /\ Alone'
  BY <1>1, <1>2, OrderStep, AloneStep
<1>4. ChatInv'
  BY <1>1, ChatNext
<1> QED BY <1>3, <1>4 DEF AnswerInv

LEMMA AnswerMeans == AnswerInv => AnswerShown
<1> SUFFICES ASSUME AnswerInv PROVE AnswerShown
  OBVIOUS
<1>1. FlowTyped /\ TaskTyped /\ OrderOK /\ Alone
  BY DEF AnswerInv, ChatInv, Base
<1>2. ASSUME NEW i \in 1 .. Len(shown), NEW j \in 1 .. Len(shown), i < j, shown[i][1] = shown[j][1]
      PROVE  shown[i][2] < shown[j][2]
  <2>1. /\ i \in DOMAIN Came /\ j \in DOMAIN Came
        /\ Came[i] = shown[i] /\ Came[j] = shown[j]
    BY <1>1, CameFacts
  <2> QED BY <2>1, <1>1, <1>2 DEF OrderOK, CameOrder
<1>3. ASSUME stream = <<>>, NEW s \in Sends, s \notin overlapped, Ended(s), task[s].told
      PROVE  \A n \in 1 .. task[s].pieces : <<s, n>> \in Range(shown)
  <2>1. AloneAt(s) /\ task[s].stage = "ended" /\ task[s].told = TRUE
    BY <1>1, <1>3, TaskFields DEF Alone, Ended
  <2>2. AllShown(s)
    BY <2>1, <1>3 DEF AloneAt, Past, Current, Running, Ending, Done
  <2>3. \A n \in 1 .. task[s].pieces : \E i \in DOMAIN shown : shown[i] = <<s, n>>
    BY <2>2 DEF AllShown, Displayed
  <2> QED BY <2>3 DEF Range
<1> QED BY <1>2, <1>3 DEF AnswerShown

(* The text of the answers comes to the lines of the screen once and in      *)
(* order, whatever is cancelled, overtaken or dropped; and of a message that *)
(* met no other, all of it, once its events are handled.                     *)
THEOREM AnswerCorrect == Spec => []AnswerShown
<1>1. AnswerInv /\ [Next]_vars => AnswerInv'
  BY AnswerNext
<1> QED BY <1>1, AnswerInit, AnswerMeans, PTL DEF Spec

=============================================================================
