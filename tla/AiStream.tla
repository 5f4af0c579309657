------------------------------- MODULE AiStream -------------------------------
(***************************************************************************)
(* The AI chat of the shell's command line: Cli.submit_input and the        *)
(* streaming arm of the main loop (apps/desktop-shell/src/main.rs), the     *)
(* session a message is sent in (ai_session.rs, ai-bridge chat_session.rs), *)
(* its adapter's event stream (adapter/claude.rs) and the session files     *)
(* (chat_persist.rs).                                                       *)
(*                                                                         *)
(* The main loop is one task; every message to the AI is a task of its own  *)
(* that holds the lock of the chat session until the answer is complete.    *)
(* They meet at the lock (a tokio Mutex: first come, first served), at the  *)
(* bounded channel of stream events and at the channel of errors.           *)
(*                                                                         *)
(* A piece of answer text is the pair of its message and its number.  Of    *)
(* the lines on the screen only the answer text is kept, and clear and the  *)
(* cap of 1000, which drop what was shown, are left out; echoes, notes and  *)
(* marks are wording.  The service, its network and the tools answer as they*)
(* like, except that they answer.                                           *)
(***************************************************************************)
EXTENDS Naturals, FiniteSets, SequencesExt

CONSTANTS Names,      \* session names
          MaxSends,   \* messages to the AI in a behaviour
          MaxPieces,  \* pieces of text in all answers of a behaviour
          MaxTurns,   \* max_inner_turns, 25 in the code
          StreamCap,  \* capacity of stream_tx, 256 in the code
          MaxAnswers, \* requests the service takes in a behaviour
          MaxOrders,  \* other inputs in a behaviour
          Null

Sends  == 1 .. MaxSends
Pieces == Sends \X (Nat \ {0})
Modes  == {"shell", "ai", "awaiting_api_key"}
Main   == 0  \* the main loop, among those who wait for the lock

(* A message of a conversation: what its content holds of text and tools.   *)
UserSays(s)           == [role |-> "user", send |-> s, tools |-> FALSE]
AssistantSays(s, t)   == [role |-> "assistant", send |-> s, tools |-> t]
ToolResults(s)        == [role |-> "results", send |-> s, tools |-> FALSE]
Messages  == [role : {"user", "assistant", "results"}, send : Sends, tools : BOOLEAN]

TextDelta(piece) == [kind |-> "TextDelta", piece |-> piece]
Signal(kind)     == [kind |-> kind, piece |-> Null]
Events    == [kind : {"TextDelta"}, piece : Pieces]
               \cup [kind : {"ToolStart", "Done", "Cancelled", "Error"}, piece : {Null}]

(* Where the task of a message stands.                                      *)
Stages == {"unsent", "spawned", "queued", "posted", "streaming", "tools",
           "sent", "failed", "ended"}

(* A session, the command that waits for a key, and the command whose       *)
(* handler waits for the lock.                                              *)
Sessions  == [name : Names, history : Seq(Messages)]
Pending   == [start : BOOLEAN, name : Names]
Assigning == {"assign", "assign with key"}
Orders    == [what : Assigning, name : Names, session : Sessions]
               \cup [what : {"check"}, name : Names, session : {Null}]
               \cup [what : {"exit"}, name : {Null}, session : {Null}]

ASSUME ChatAssumption ==
  /\ MaxSends \in Nat /\ MaxPieces \in Nat /\ MaxOrders \in Nat /\ MaxAnswers \in Nat
  /\ MaxTurns \in Nat \ {0} /\ StreamCap \in Nat \ {0}
  /\ Null \notin Nat \cup Names \cup Pieces \cup Events \cup Seq(Messages)
  /\ Null \notin Sessions \cup Pending \cup Orders

VARIABLES
  cli,           \* Cli@1: mode, session_name, pending_action, streaming_active
  key,           \* an API key is found (resolve_api_key)
  files,         \* ~/.geulos/ai-sessions: the history of each session
  chat_session,  \* the session in the Mutex
  holder,        \* who holds the lock
  waiting,       \* who waits for it, in order
  order,         \* the command whose handler waits for the lock, or Null
  ai_cancel, stream_target, stream_accum,   \* locals of the main loop
  stream,        \* the channel of stream events
  ai_response,   \* the channel of errors
  task,          \* the tasks of the messages
  cancelled,     \* the messages whose token is cancelled
  answers,       \* requests taken so far
  orders,        \* inputs so far, other than messages
  shown,         \* Cli@1: the answer text that has come to lines
  overlapped     \* history: messages sent while another was under way

cliVars == <<cli, key, orders>>
lockVars == <<chat_session, holder, waiting, order>>
loopVars == <<ai_cancel, stream_target, stream_accum>>
taskVars == <<task, cancelled, answers>>
vars == <<cliVars, files, lockVars, loopVars, stream, ai_response, taskVars, shown, overlapped>>

Fresh == [stage |-> "unsent", history |-> <<>>, out |-> <<>>, turn |-> 0, pieces |-> 0,
          tools |-> FALSE, told |-> FALSE]

Session(name, history) == [name |-> name, history |-> history]

-----------------------------------------------------------------------------
(* The main loop's view of a message under way. *)

Idle(s)     == task[s].stage \in {"unsent", "ended"}
LoopIsFree  == order = Null

(* set_cli_streaming: the text on the screen is what has come together.     *)
SetStreaming(active) == cli' = [cli EXCEPT !.streaming_active = active]

(* commit_cli_lines *)
CommitLines(pieces, active) ==
  /\ shown' = shown \o pieces
  /\ SetStreaming(active)

-----------------------------------------------------------------------------
(* Cli.submit_input.  A command that needs the lock puts the main loop in   *)
(* the queue; the rest of its handler is GrantMain.                         *)

Order(what, name, session) == [what |-> what, name |-> name, session |-> session]

WaitFor(o) ==
  /\ order' = o
  /\ waiting' = Append(waiting, Main)
  /\ UNCHANGED <<chat_session, holder>>

Command == LoopIsFree /\ orders < MaxOrders /\ orders' = orders + 1

Unstreamed == UNCHANGED <<files, loopVars, stream, ai_response, taskVars, overlapped>>

(* start_or_load_session as far as its lock: the connection may fail, and   *)
(* load reads the file before it waits.  A result is a set of orders, empty *)
(* when the session could not be made.                                      *)
Made(start, name) ==
  IF start THEN {Order("assign", name, Session(name, <<>>))}
           ELSE {Order("assign", name, Session(name, files[name])) : f \in {files[name]} \ {Null}}

(* SpecialAction::AiStart and AiLoad with a key: even a command that failed *)
(* goes on to ask whether there is a session.                               *)
StartOrLoad(start, name) ==
  /\ Command /\ cli.mode # "awaiting_api_key" /\ key
  /\ \/ \E o \in Made(start, name) : WaitFor(o)
     \/ WaitFor(Order("check", name, Null))
  /\ UNCHANGED <<cli, key, shown>> /\ Unstreamed

(* The same without a key: enter_awaiting_mode.                             *)
AskForKey(start, name) ==
  /\ Command /\ cli.mode # "awaiting_api_key" /\ ~key
  /\ cli' = [cli EXCEPT !.mode = "awaiting_api_key",
                        !.pending_action = [start |-> start, name |-> name]]
  /\ UNCHANGED <<key, lockVars, shown>> /\ Unstreamed

ToShell == [cli EXCEPT !.mode = "shell", !.session_name = Null, !.pending_action = Null]

(* An empty line or /exit while the key is awaited: exit_awaiting_mode.     *)
GiveUpKey ==
  /\ Command /\ cli.mode = "awaiting_api_key"
  /\ cli' = ToShell
  /\ UNCHANGED <<key, lockVars, shown>> /\ Unstreamed

(* A line while the key is awaited: refused by validate, nothing changes.   *)
RefuseKey ==
  /\ Command /\ cli.mode = "awaiting_api_key"
  /\ UNCHANGED <<cli, key, lockVars, shown>> /\ Unstreamed

(* Accepted: saved if the disk lets it, and the pending command is carried  *)
(* out, which this time stops at a failure.                                 *)
AcceptKey ==
  /\ Command /\ cli.mode = "awaiting_api_key"
  /\ key' \in {key, TRUE}
  /\ cli' = ToShell
  /\ LET p == cli.pending_action IN
       \/ \E o \in Made(p.start, p.name) : WaitFor(Order("assign with key", p.name, o.session))
       \/ UNCHANGED lockVars
  /\ UNCHANGED <<shown>> /\ Unstreamed

(* SpecialAction::AiExit *)
Exit ==
  /\ Command /\ cli.mode = "ai"
  /\ WaitFor(Order("exit", Null, Null))
  /\ UNCHANGED <<cli, key, shown>> /\ Unstreamed

(* The main loop gets the lock.  It holds it for one statement, so it lets  *)
(* go in the same step.  A session is assigned by start_or_load_session and *)
(* the lock taken again to ask whether there is one.                        *)
GrantMain ==
  /\ holder = Null /\ waiting # <<>> /\ Head(waiting) = Main
  /\ CASE order.what \in Assigning ->
            /\ chat_session' = order.session
            /\ order' = Order("check", order.name, Null)
            /\ waiting' = Append(Tail(waiting), Main)
            /\ UNCHANGED cli
       [] order.what = "check" ->
            /\ cli' = IF chat_session = Null THEN cli
                      ELSE [cli EXCEPT !.mode = "ai", !.session_name = order.name]
            /\ order' = Null
            /\ waiting' = Tail(waiting)
            /\ UNCHANGED chat_session
       [] order.what = "exit" ->
            /\ chat_session' = Null
            /\ cli' = ToShell
            /\ order' = Null
            /\ waiting' = Tail(waiting)
  /\ UNCHANGED <<key, orders, files, holder, loopVars, stream, ai_response,
                 taskVars, shown, overlapped>>

(* SpecialAction::AiSend: the locals are set for the new message, whatever  *)
(* was under way, and its task is spawned.                                  *)
AiSend(s) ==
  /\ LoopIsFree /\ cli.mode = "ai"
  /\ task[s].stage = "unsent" /\ \A r \in 1 .. s - 1 : task[r].stage # "unsent"
  /\ task' = [task EXCEPT ![s].stage = "spawned"]
  /\ ai_cancel' = s
  /\ stream_target' = TRUE
  /\ stream_accum' = <<>>
  /\ overlapped' = IF stream = <<>> /\ \A r \in Sends : Idle(r) THEN overlapped
                   ELSE overlapped \cup 1 .. s
  /\ UNCHANGED <<cliVars, files, lockVars, stream, ai_response, cancelled, answers, shown>>

(* Cli.interrupt_ai *)
Interrupt ==
  /\ LoopIsFree /\ ai_cancel # Null
  /\ cancelled' = cancelled \cup {ai_cancel}
  /\ UNCHANGED <<cliVars, files, lockVars, loopVars, stream, ai_response, task, answers, shown, overlapped>>

-----------------------------------------------------------------------------
(* The other arms of the main loop's select.  The arm of errors comes       *)
(* before the arm of stream events.                                         *)

(* handle_ai_response: an error is told, the stream's locals stay.          *)
HandleError ==
  /\ LoopIsFree /\ ai_response # <<>>
  /\ ai_response' = Tail(ai_response)
  /\ UNCHANGED <<cliVars, files, lockVars, loopVars, stream, taskVars, shown, overlapped>>

(* Text is shown when 80 ms or 40 characters have come together.            *)
HandleText(piece) ==
  /\ stream_accum' = Append(stream_accum, piece)
  /\ \/ stream_target /\ SetStreaming(TRUE)
     \/ UNCHANGED cli
  /\ UNCHANGED <<shown, ai_cancel, stream_target>>

(* Mutant: the live text is cleared for the mark and not moved to lines.    *)
HandleToolStartDropping ==
  /\ IF stream_target THEN CommitLines(<<>>, TRUE) ELSE UNCHANGED <<cli, shown>>
  /\ stream_accum' = <<>>
  /\ UNCHANGED <<ai_cancel, stream_target>>

(* The text of a turn goes to lines before the mark of its tool.            *)
HandleToolStart ==
  /\ IF stream_target THEN CommitLines(stream_accum, TRUE) ELSE UNCHANGED <<cli, shown>>
  /\ stream_accum' = <<>>
  /\ UNCHANGED <<ai_cancel, stream_target>>

(* Mutant: the flag of the ended message is kept.                           *)
HandleEndKeepingFlag ==
  /\ IF stream_target THEN CommitLines(stream_accum, FALSE) ELSE UNCHANGED <<cli, shown>>
  /\ stream_target' = FALSE
  /\ stream_accum' = <<>>
  /\ UNCHANGED ai_cancel

HandleEnd ==
  /\ IF stream_target THEN CommitLines(stream_accum, FALSE) ELSE UNCHANGED <<cli, shown>>
  /\ stream_target' = FALSE
  /\ stream_accum' = <<>>
  /\ ai_cancel' = Null

HandleEvent ==
  /\ LoopIsFree /\ ai_response = <<>> /\ stream # <<>>
  /\ stream' = Tail(stream)
  /\ CASE Head(stream).kind = "TextDelta" -> HandleText(Head(stream).piece)
       [] Head(stream).kind = "ToolStart" -> HandleToolStart
       [] OTHER                           -> HandleEnd
  /\ UNCHANGED <<key, orders, files, lockVars, ai_response, taskVars, overlapped>>

-----------------------------------------------------------------------------
(* The task of a message: the spawned block of AiSend, send_streaming,      *)
(* send_message_streaming and complete_streaming.  out holds the events of  *)
(* the chunk it is working on that have not gone into the channel; the task *)
(* does nothing else before they have.                                      *)

At(s, stage) == task[s].stage = stage /\ task[s].out = <<>>

Becomes(s, stage, history, out) ==
  task' = [task EXCEPT ![s].stage = stage, ![s].history = history, ![s].out = out]

(* The task ends and lets the lock go; what it was doing is gone with it.   *)
Ends(s) ==
  /\ task' = [task EXCEPT ![s] = [Fresh EXCEPT !.stage = "ended", !.pieces = task[s].pieces,
                                              !.told = task[s].told]]
  /\ holder' = Null

Unlocked  == UNCHANGED <<cliVars, loopVars, stream, cancelled, answers, shown, overlapped>>
Answering == UNCHANGED <<files, holder, waiting, order, ai_response>> /\ Unlocked
InTask    == Answering /\ UNCHANGED chat_session

(* The end of send_message_streaming: the history is put back.              *)
PutBack(s, history, signal) ==
  /\ Becomes(s, "sent", history, <<Signal(signal)>>)
  /\ chat_session' = [chat_session EXCEPT !.history = history]

Complete(s, history) == PutBack(s, history, "Done")

(* cs.lock() *)
Enqueue(s) ==
  /\ At(s, "spawned")
  /\ Becomes(s, "queued", <<>>, <<>>)
  /\ waiting' = Append(waiting, s)
  /\ UNCHANGED <<files, chat_session, holder, order, ai_response>> /\ Unlocked

(* The head of the loop over turns: the limit ends the message as if it     *)
(* were complete, a cancelled one ends without its history being kept.      *)
NextTurn(s, history) ==
  IF task[s].turn = MaxTurns THEN Complete(s, history)
  ELSE /\ UNCHANGED chat_session
       /\ IF s \in cancelled THEN Becomes(s, "sent", history, <<Signal("Cancelled")>>)
          ELSE task' = [task EXCEPT ![s].stage = "posted", ![s].history = history, ![s].turn = @ + 1]

(* The lock is granted: without a session the message fails.                *)
GrantTask(s) ==
  /\ holder = Null /\ waiting # <<>> /\ Head(waiting) = s
  /\ holder' = s
  /\ waiting' = Tail(waiting)
  /\ IF chat_session = Null THEN Becomes(s, "failed", <<>>, <<>>) /\ UNCHANGED chat_session
     ELSE NextTurn(s, Append(chat_session.history, UserSays(s)))
  /\ UNCHANGED <<files, order, ai_response>> /\ Unlocked

(* The request is answered, or refused: a refusal sends no event.           *)
Posted(s) ==
  /\ At(s, "posted")
  /\ \/ /\ answers < MaxAnswers /\ answers' = answers + 1
        /\ task' = [task EXCEPT ![s].stage = "streaming", ![s].tools = FALSE]
     \/ Becomes(s, "failed", task[s].history, <<>>) /\ UNCHANGED answers
  /\ UNCHANGED <<cliVars, files, lockVars, loopVars, stream, ai_response, cancelled,
                 shown, overlapped>>

Said     == FoldFunction(LAMBDA t, n : t.pieces + n, 0, task)

(* A chunk arrives, unless the message is cancelled: text, a tool, or both. *)
Receive(s) ==
  /\ At(s, "streaming") /\ s \notin cancelled
  /\ \E texts \in 0 .. MaxPieces, tool \in BOOLEAN :
       /\ Said + texts <= MaxPieces
       /\ texts > 0 \/ (tool /\ ~task[s].tools)
       /\ task' = [task EXCEPT
            ![s].pieces = @ + texts,
            ![s].tools = @ \/ tool,
            ![s].out = [i \in 1 .. texts |-> TextDelta(<<s, task[s].pieces + i>>)]
                         \o IF tool THEN <<Signal("ToolStart")>> ELSE <<>>]
  /\ InTask

(* The connection breaks off.                                               *)
BreakOff(s) ==
  /\ At(s, "streaming") /\ s \notin cancelled
  /\ Becomes(s, "failed", task[s].history, <<Signal("Error")>>)
  /\ InTask

(* The answer of a turn is complete.  Without tools it ends the message,    *)
(* if the service says so; otherwise the tools are called, even none.       *)
EndOfStream(s) ==
  /\ At(s, "streaming") /\ s \notin cancelled
  /\ LET history == Append(task[s].history, AssistantSays(s, task[s].tools)) IN
       \/ Becomes(s, "tools", history, <<>>) /\ UNCHANGED chat_session
       \/ ~task[s].tools /\ Complete(s, history)
  /\ Answering

(* Mutant: the partial answer names the tools it began to call.             *)
CutWithTools(s) ==
  /\ At(s, "streaming") /\ s \in cancelled
  /\ PutBack(s, Append(task[s].history, AssistantSays(s, task[s].tools)), "Cancelled")
  /\ Answering

(* Mutant: the flag is looked at only after text has come.                  *)
CutAfterText(s) ==
  /\ At(s, "streaming") /\ s \in cancelled /\ task[s].pieces > 0
  /\ PutBack(s, Append(task[s].history, AssistantSays(s, FALSE)), "Cancelled")
  /\ Answering

(* Cancelled in the middle of an answer: the text so far is kept, the tools *)
(* are not.                                                                 *)
Cut(s) ==
  /\ At(s, "streaming") /\ s \in cancelled
  /\ PutBack(s, Append(task[s].history, AssistantSays(s, FALSE)), "Cancelled")
  /\ Answering

(* dispatch_turn_tools: report_done ends the message.                       *)
CallTools(s) ==
  /\ At(s, "tools")
  /\ LET history == Append(task[s].history, ToolResults(s)) IN
       Complete(s, history) \/ NextTurn(s, history)
  /\ Answering

(* tx.send: waits for room in the channel.                                  *)
Emit(s) ==
  /\ task[s].out # <<>> /\ Len(stream) < StreamCap
  /\ stream' = Append(stream, Head(task[s].out))
  /\ task' = [task EXCEPT ![s].out = Tail(@),
                          ![s].told = @ \/ Head(task[s].out).kind \in {"Done", "Cancelled", "Error"}]
  /\ UNCHANGED <<cliVars, loopVars, cancelled, answers, shown, overlapped, files, lockVars,
                 ai_response>>

(* chat_persist::save after a message that did not fail; an error of the    *)
(* disk is logged.  The lock is let go.                                     *)
Save(s) ==
  /\ At(s, "sent")
  /\ \/ files' = [files EXCEPT ![chat_session.name] = chat_session.history]
     \/ UNCHANGED files
  /\ Ends(s)
  /\ UNCHANGED <<chat_session, waiting, order, ai_response>> /\ Unlocked

(* A message that failed is told to the main loop.                          *)
Fail(s) ==
  /\ At(s, "failed")
  /\ ai_response' = Append(ai_response, s)
  /\ Ends(s)
  /\ UNCHANGED <<files, chat_session, waiting, order>> /\ Unlocked

-----------------------------------------------------------------------------
Init ==
  /\ cli = [mode |-> "shell", session_name |-> Null, pending_action |-> Null, streaming_active |-> FALSE]
  /\ shown = <<>>
  /\ key \in BOOLEAN
  /\ files = [n \in Names |-> Null]
  /\ chat_session = Null /\ holder = Null /\ waiting = <<>> /\ order = Null
  /\ ai_cancel = Null /\ stream_target = FALSE /\ stream_accum = <<>>
  /\ stream = <<>> /\ ai_response = <<>>
  /\ task = [s \in Sends |-> Fresh]
  /\ cancelled = {} /\ answers = 0 /\ orders = 0 /\ overlapped = {}

User ==
  \/ \E start \in BOOLEAN, name \in Names : StartOrLoad(start, name) \/ AskForKey(start, name)
  \/ GiveUpKey \/ RefuseKey \/ AcceptKey \/ Exit
  \/ \E s \in Sends : AiSend(s)
  \/ Interrupt

Loop == GrantMain \/ HandleError \/ HandleEvent

(* What a task does by itself, and what it waits for from the service.      *)
Own(s)     == Enqueue(s) \/ GrantTask(s) \/ Cut(s) \/ CallTools(s) \/ Emit(s)
                \/ Save(s) \/ Fail(s)
Service(s) == Posted(s) \/ Receive(s) \/ BreakOff(s) \/ EndOfStream(s)

Next == User \/ Loop \/ \E s \in Sends : Own(s) \/ Service(s)

Spec == Init /\ [][Next]_vars

(* The runtime runs some task that can run.  The service must answer a      *)
(* request (nothing cancels that wait), it need not finish an answer.       *)
FairSpec == Spec /\ WF_vars(Loop \/ \E s \in Sends : Own(s) \/ Posted(s))

-----------------------------------------------------------------------------
Ended(s) == task[s].stage = "ended"

TypeOK ==
  /\ cli \in [mode : Modes, session_name : Names \cup {Null},
              pending_action : Pending \cup {Null},
              streaming_active : BOOLEAN]
  /\ files \in [Names -> Seq(Messages) \cup {Null}]
  /\ chat_session \in Sessions \cup {Null} /\ order \in Orders \cup {Null}
  /\ holder \in Sends \cup {Null} /\ waiting \in Seq(Sends \cup {Main})
  /\ ai_cancel \in Sends \cup {Null} /\ stream_target \in BOOLEAN
  /\ stream \in Seq(Events) /\ ai_response \in Seq(Sends)
  /\ \A s \in Sends : task[s].stage \in Stages /\ task[s].out \in Seq(Events)

(* A conversation the service accepts: it begins with the user, and a call  *)
(* of tools is answered by the next message.                                *)
Conversation(h) ==
  \A i \in 1 .. Len(h) :
    /\ i = 1 => h[i].role = "user"
    /\ h[i].role = "results" => h[i - 1].role = "assistant"
    /\ h[i].tools => i < Len(h) /\ h[i + 1].role = "results"

(* Whatever is interrupted, refused or broken off, the histories that are   *)
(* kept in memory and on disk are conversations (the partial answer that    *)
(* complete_streaming returns on cancel leaves the tools out).              *)
HistoriesAnswerable ==
  /\ chat_session # Null => Conversation(chat_session.history)
  /\ \A n \in Names : files[n] # Null => Conversation(files[n])

(* The streaming arm alone displays the answer to a message that did not    *)
(* fail (the comment of the spawned block).  Text comes to lines once and   *)
(* in order, also where a tool's mark moved it there before the end; when   *)
(* all events of a message that met no other are handled, all of it has.    *)
AnswerShown ==
  /\ \A i, j \in 1 .. Len(shown) :
       i < j /\ shown[i][1] = shown[j][1] => shown[i][2] < shown[j][2]
  /\ stream = <<>> =>
       \A s \in Sends \ overlapped : Ended(s) /\ task[s].told =>
         \A n \in 1 .. task[s].pieces : <<s, n>> \in Range(shown)

(* The locals of the main loop, the Cli object and the Mutex agree: mode is *)
(* ai only while there is a session, and the screen shows a live answer     *)
(* only while the main loop has a place for its end and a flag to cancel    *)
(* it with.                                                                 *)
Coherent ==
  /\ TypeOK
  /\ LoopIsFree /\ cli.mode = "ai" => chat_session # Null
  /\ cli.streaming_active => stream_target
  /\ stream_target <=> ai_cancel # Null

(* The main loop waits for the lock that a message holds, and the message   *)
(* waits for the main loop to make room in the channel.                     *)
MutualWait ==
  /\ ~LoopIsFree /\ holder \in Sends
  /\ task[holder].out # <<>> /\ Len(stream) = StreamCap

(* Interrupting the message that is being answered ends it, though the      *)
(* service may never finish, unless the main loop and the message wait for  *)
(* each other.  (One that waits behind another message cannot be helped.)   *)
InterruptEnds ==
  \A s \in Sends : (s \in cancelled /\ holder = s) ~> (Ended(s) \/ MutualWait)

(* KI-020: a command waits until the AI's answer has arrived.  The answer   *)
(* must then be able to arrive.                                             *)
NoMutualWait == ~MutualWait
=============================================================================
