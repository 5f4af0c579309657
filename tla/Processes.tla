----------------------------- MODULE Processes -----------------------------
(***************************************************************************)
(* Commands the shell runs on the host: ShellRunner@1.run (one answer at   *)
(* the end) and run_streamed (a ConsoleWindow@1 that shows lines while the *)
(* process lives).  Neither runs in the shell: both go to the host bridge, *)
(* over the one connection of host_bridge_client.rs, which a mutex gives   *)
(* to one call at a time, for as long as the bridge takes to answer.       *)
(*                                                                         *)
(*   callers     the main loop (start and kill of a stream, awaited, so    *)
(*               that the loop does nothing else meanwhile), one polling   *)
(*               task per console, one task per one-shot run               *)
(*   bridge      answers the calls; its REGISTRY holds the streams, two    *)
(*               threads per stream read the pipes of its process          *)
(*   main loop   takes results and console events from bounded channels    *)
(*                                                                         *)
(* The stream s, its console and its polling task share the identifier s;  *)
(* each is started at most once.  A line is <<kind, n>>, the n-th line the *)
(* process wrote on that pipe.  Connections break and the bridge restarts  *)
(* at most MaxFaults times.  A request whose connection breaks was either  *)
(* served before (its answer is lost) or never: the bridge finding it in   *)
(* the socket later is left out.  ProcessRegistry and job objects are not  *)
(* modelled: nothing is ever put into them in this build.                  *)
(***************************************************************************)
EXTENDS Naturals, Sequences

CONSTANTS Streams, Runs,     \* streamed and one-shot commands
          Loop,              \* the main loop, as a caller of the bridge
          None,
          Kinds,             \* the pipes of a streamed process: stdout, stderr
          MaxLines,          \* lines a streamed process writes on each pipe
          MaxOut, PipeCap,   \* output of a one-shot command, and what its pipe holds
          RingMax,           \* lines a console keeps (500)
          ConsoleCap,        \* capacity of the console channel (256)
          ResultCap,         \* capacity of the result channel (16)
          MaxFaults

ASSUME BoundsAssumption ==
    /\ {MaxLines, MaxOut, MaxFaults} \subseteq Nat
    /\ {PipeCap, RingMax, ConsoleCap, ResultCap} \subseteq Nat \ {0}

\* A notice of the shell's own in a console stands under no pipe.
ASSUME KindsAssumption == "notice" \notin Kinds

\* The calls that the main loop makes of the bridge, for the user or for an AI.
Calls == [op : {"start", "kill", "close"}, of : Streams, by : {"user", "ai"}]

ASSUME CallersAssumption ==
    /\ Loop \notin Streams \cup Runs \cup {None}
    /\ None \notin Streams \cup Runs \cup Calls
    /\ Streams \cap Runs = {}

VARIABLES
    proc,       \* host: the streamed processes and their REGISTRY entries
    child,      \* host: the children of one-shot runs
    wire,       \* the bridge connection and the call that holds its mutex
    busy,       \* the bridge call the main loop awaits, or None
    poller,     \* the polling tasks
    runs,       \* where each one-shot run stands
    streamMap,  \* STREAM_MAP: the consoles whose stream can be killed
    consoles,   \* the ConsoleWindow objects
    channel,    \* console channel, oldest first
    results,    \* result channel, oldest first
    runner,     \* the last_* states of the ShellRunner object
    dialogs,    \* requests of an AI that wait for the user
    faults,
    lost        \* history: streams whose start or kill went wrong

host == <<proc, child>>
tasks == <<poller, runs>>
shell == <<streamMap, consoles, runner, dialogs>>
queues == <<channel, results>>
vars == <<host, wire, busy, tasks, shell, queues, faults, lost>>

Callers == {Loop} \cup Streams \cup Runs

Bad == [ok |-> FALSE, lines |-> <<>>, ended |-> FALSE]
Good == [Bad EXCEPT !.ok = TRUE]
Idle == [holder |-> None, stage |-> "idle", answer |-> Bad]

ChildAt(state) == [state |-> state, left |-> 0, pipe |-> 0, heir |-> FALSE]

Free == busy = None                \* the main loop is in its select!

\* What a caller waits to have answered: at most one request each.
Request(c) ==
    IF c = Loop THEN busy
    ELSE IF c \in Streams /\ poller[c].pc = "due" THEN [op |-> "poll", of |-> c]
    ELSE IF c \in Runs /\ runs[c] = "calling" THEN [op |-> "exec", of |-> c]
    ELSE None

Init ==
    /\ proc = [s \in Streams |-> [state |-> "none", entry |-> FALSE, pending |-> <<>>,
                               read |-> [k \in Kinds |-> 0]]]
    /\ child = [r \in Runs |-> ChildAt("none")]
    /\ wire = Idle
    /\ busy = None
    /\ poller = [s \in Streams |-> [pc |-> "off", todo |-> <<>>, then |-> "off"]]
    /\ runs = [r \in Runs |-> "none"]
    /\ streamMap = {}
    /\ consoles = [s \in Streams |-> [state |-> "none", status |-> "running",
                                     lines |-> <<>>, line_count |-> 0]]
    /\ channel = <<>> /\ results = <<>>
    /\ runner = [cmd |-> None, exit |-> "null"]
    /\ dialogs = {}
    /\ faults = 0
    /\ lost = {}

Awaits(op, s, by) == busy' = [op |-> op, of |-> s, by |-> by]

-----------------------------------------------------------------------------
(***************************************************************************)
(* Invokes, handled by the main loop.                                      *)
(***************************************************************************)

\* execute_command_spawned
Spawned(r) == runs' = [runs EXCEPT ![r] = "calling"] /\ UNCHANGED busy

\* broadcast_error, and the refusals of handle_respond: the other last_*
\* states keep the values of an earlier run.
Refusal == runner' = [runner EXCEPT !.exit = "refused"]

\* handle_run: refused (empty, not on the list, bad cwd), asked of the user
\* when an AI sent it, else handed to a task.
Run(r) ==
    /\ Free
    /\ runs[r] = "none"
    /\ \/ /\ Refusal
          /\ runs' = [runs EXCEPT ![r] = "refused"]
          /\ UNCHANGED <<busy, dialogs>>
       \/ /\ dialogs' = dialogs \cup {[op |-> "run", of |-> r]}
          /\ runs' = [runs EXCEPT ![r] = "asked"]
          /\ UNCHANGED <<busy, runner>>
       \/ Spawned(r) /\ UNCHANGED <<runner, dialogs>>
    /\ UNCHANGED <<host, wire, poller, streamMap, consoles, queues, faults, lost>>

\* A console is "none", then "asked" or "starting", "open", "closed"; a request
\* that came to nothing leaves it "failed".
Becomes(s, st) == consoles' = [consoles EXCEPT ![s].state = st]

\* handle_run_streamed; the loop itself awaits the start.
RunStreamed(s) ==
    /\ Free
    /\ consoles[s].state = "none"
    /\ \/ Refusal /\ Becomes(s, "failed") /\ UNCHANGED <<busy, dialogs>>
       \/ /\ dialogs' = dialogs \cup {[op |-> "stream", of |-> s]}
          /\ Becomes(s, "asked")
          /\ UNCHANGED <<busy, runner>>
       \/ /\ Awaits("start", s, "user")
          /\ Becomes(s, "starting")
          /\ UNCHANGED <<runner, dialogs>>
    /\ UNCHANGED <<host, wire, tasks, streamMap, queues, faults, lost>>

\* kill_console_stream: the mapping goes first, then the bridge is asked.
\* Without a mapping there is nothing to ask; op is what follows the kill.
Kill(s, op) ==
    /\ s \in streamMap
    /\ streamMap' = streamMap \ {s}
    /\ Awaits(op, s, "user")

Removed(s) == consoles' = [consoles EXCEPT ![s].state = "closed", ![s].lines = <<>>,
                                                  ![s].line_count = 0]

\* handle_terminate
Terminate(s) ==
    /\ Free
    /\ consoles[s].state = "open"
    /\ \/ /\ dialogs' = dialogs \cup {[op |-> "terminate", of |-> s]}
          /\ UNCHANGED <<busy, streamMap>>
       \/ Kill(s, "kill") /\ UNCHANGED dialogs
    /\ UNCHANGED <<host, wire, tasks, consoles, runner, queues, faults, lost>>

\* handle_close: kills a stream that is still mapped, then removes the window.
Close(s) ==
    /\ Free
    /\ consoles[s].state = "open"
    /\ \/ Kill(s, "close") /\ UNCHANGED consoles
       \/ s \notin streamMap /\ Removed(s) /\ UNCHANGED <<busy, streamMap>>
    /\ UNCHANGED <<host, wire, tasks, runner, dialogs, queues, faults, lost>>

\* handle_respond for the three kinds of request.
Respond(d) ==
    /\ Free
    /\ dialogs' = dialogs \ {d}
    /\ \/ /\ d.op = "run"
          /\ Spawned(d.of)
          /\ UNCHANGED <<streamMap, consoles, runner>>
       \/ /\ d.op = "run"
          /\ Refusal
          /\ runs' = [runs EXCEPT ![d.of] = "refused"]
          /\ UNCHANGED <<busy, streamMap, consoles>>
       \/ /\ d.op = "stream"
          /\ Awaits("start", d.of, "ai")
          /\ Becomes(d.of, "starting")
          /\ UNCHANGED <<streamMap, runs, runner>>
       \/ /\ d.op = "stream"
          /\ Refusal
          /\ Becomes(d.of, "failed")
          /\ UNCHANGED <<busy, streamMap, runs>>
       \/ /\ d.op = "terminate"
          /\ \/ Kill(d.of, "kill")
             \/ UNCHANGED <<busy, streamMap>>     \* refused, or no longer mapped
          /\ UNCHANGED <<runs, consoles, runner>>
    /\ UNCHANGED <<host, wire, poller, queues, faults, lost>>

-----------------------------------------------------------------------------
(***************************************************************************)
(* rpc: one call at a time.                                                *)
(***************************************************************************)

\* Mutant: a polling task keeps the connection until its lines are sent.
TakeBehindSender(c) ==
    /\ wire.holder = None /\ Request(c) # None
    /\ \A s \in Streams : poller[s].pc # "sending"
    /\ wire' = [holder |-> c, stage |-> "sent", answer |-> Bad]
    /\ UNCHANGED <<host, busy, tasks, shell, queues, faults, lost>>

\* The mutex is taken; a missing connection is made, with its Auth frame.
Take(c) ==
    /\ wire.holder = None /\ Request(c) # None
    /\ wire' = [holder |-> c, stage |-> "sent", answer |-> Bad]
    /\ UNCHANGED <<host, busy, tasks, shell, queues, faults, lost>>

Answered(a) == wire' = [wire EXCEPT !.stage = "answered", !.answer = a]

\* exec_stream_start, exec_stream_poll, exec_stream_kill
HostStart(s) ==
    \/ Answered(Bad) /\ UNCHANGED <<proc, faults, lost>>
    \/ /\ proc' = [proc EXCEPT ![s].state = "running", ![s].entry = TRUE]
       /\ Answered(Good)
       /\ UNCHANGED <<faults, lost>>

HostPoll(s) ==
    /\ IF proc[s].entry
       THEN /\ Answered([ok |-> TRUE, lines |-> proc[s].pending,
                         ended |-> proc[s].state # "running"])
            /\ proc' = [proc EXCEPT ![s].pending = <<>>]
       ELSE Answered(Bad) /\ UNCHANGED proc
    /\ UNCHANGED <<faults, lost>>

\* The entry goes first; a taskkill that fails is only logged.
HostKill(s) ==
    \/ /\ proc[s].entry
       /\ Answered(Good)
       /\ \/ /\ proc' = [proc EXCEPT ![s].entry = FALSE, ![s].pending = <<>>,
                                     ![s].state = "ended"]
             /\ UNCHANGED <<faults, lost>>
          \/ /\ proc[s].state = "running" /\ faults < MaxFaults
             /\ proc' = [proc EXCEPT ![s].entry = FALSE, ![s].pending = <<>>]
             /\ faults' = faults + 1
             /\ lost' = lost \cup {s}
    \/ ~proc[s].entry /\ Answered(Bad) /\ UNCHANGED <<proc, faults, lost>>

\* exec: the command is refused, or its child runs and the thread waits for it.
HostExec(r) ==
    \/ Answered(Bad) /\ UNCHANGED child
    \/ /\ \E n \in {0, MaxOut} :
             child' = [child EXCEPT ![r] = [ChildAt("running") EXCEPT !.left = n]]
       /\ wire' = [wire EXCEPT !.stage = "executing"]

\* handle_request
Serve ==
    /\ wire.stage = "sent"
    /\ LET q == Request(wire.holder)
       IN  \/ q.op = "start" /\ HostStart(q.of) /\ UNCHANGED child
           \/ q.op = "poll" /\ HostPoll(q.of) /\ UNCHANGED child
           \/ q.op \in {"kill", "close"} /\ HostKill(q.of) /\ UNCHANGED child
           \/ q.op = "exec" /\ HostExec(q.of) /\ UNCHANGED <<proc, faults, lost>>
    /\ UNCHANGED <<busy, tasks, shell, queues>>

\* A one-shot child writes into a pipe that nobody reads before it exits.
ChildWrites(r) ==
    /\ child[r].state = "running" /\ child[r].left > 0 /\ child[r].pipe < PipeCap
    /\ child' = [child EXCEPT ![r].left = @ - 1, ![r].pipe = @ + 1]
    /\ UNCHANGED <<proc, wire, busy, tasks, shell, queues, faults, lost>>

\* The thread of the run r answers, if the call still waits.
Reports(r, a) ==
    IF wire.holder = r /\ wire.stage = "executing" THEN Answered(a) ELSE UNCHANGED wire

\* It exits when it has written everything.  It may have started a process
\* that lives on with its pipes (npm.cmd and the node it starts): the heir.
ChildExits(r) ==
    /\ child[r].state = "running" /\ child[r].left = 0
    /\ \E heir \in BOOLEAN :
          child' = [child EXCEPT ![r].state = "exited", ![r].heir = heir]
    /\ UNCHANGED <<proc, wire, busy, tasks, shell, queues, faults, lost>>

\* Or it is killed at its deadline, and its pipes are not read.
ChildKilled(r) ==
    /\ child[r].state = "running"
    /\ child' = [child EXCEPT ![r] = ChildAt("ended")]
    /\ Reports(r, Bad)
    /\ UNCHANGED <<proc, busy, tasks, shell, queues, faults, lost>>

ChildEnds(r) == ChildExits(r) \/ ChildKilled(r)

\* After its exit the thread reads both pipes to their end, without a deadline:
\* for as long as an heir holds them.
ChildRead(r) ==
    /\ child[r].state = "exited" /\ ~child[r].heir
    /\ child' = [child EXCEPT ![r] = ChildAt("ended")]
    /\ Reports(r, Good)
    /\ UNCHANGED <<proc, busy, tasks, shell, queues, faults, lost>>

HeirEnds(r) ==
    /\ child[r].heir
    /\ child' = [child EXCEPT ![r].heir = FALSE]
    /\ UNCHANGED <<proc, wire, busy, tasks, shell, queues, faults, lost>>

\* What the callers make of an answer.
StartReturns(q, a) ==
    /\ IF a.ok
       THEN /\ Becomes(q.of, "open")
            /\ streamMap' = streamMap \cup {q.of}
            /\ poller' = [poller EXCEPT ![q.of].pc = "due"]
            /\ UNCHANGED runner
       ELSE /\ IF q.by = "user" THEN Refusal ELSE UNCHANGED runner
            /\ Becomes(q.of, "failed")
            /\ UNCHANGED <<streamMap, poller>>
    /\ UNCHANGED runs

KillReturns(q) ==
    /\ IF q.op = "close" THEN Removed(q.of) ELSE UNCHANGED consoles
    /\ UNCHANGED <<tasks, streamMap, runner>>

Line(s, l) == [of |-> s, type |-> "line", line |-> l]
Exit(s, status) == [of |-> s, type |-> "exit", status |-> status]

Sending(todo, then) ==
    [pc |-> IF todo = <<>> THEN then ELSE "sending", todo |-> todo, then |-> then]

\* Mutant: the task polls again after an error.
AfterErrorRetrying(s) == Sending(<<Line(s, <<"notice", 0>>)>>, "due")

\* Mutant: the task gives up the mapping after an error, as after an exit.
AfterErrorLeaving(s) == Sending(<<Line(s, <<"notice", 0>>), Exit(s, "error")>>, "leaving")

\* Mutant: the task just ends.
AfterErrorSilent(s) == Sending(<<>>, "off")

\* The two arms of the polling task.
AfterError(s) == Sending(<<Line(s, <<"notice", 0>>), Exit(s, "error")>>, "off")
AfterPoll(s, a) ==
    LET sends == [i \in DOMAIN a.lines |-> Line(s, a.lines[i])]
    IN  IF a.ended THEN Sending(Append(sends, Exit(s, "exited")), "leaving")
                   ELSE Sending(sends, "due")

PollReturns(q, a) ==
    /\ poller' = [poller EXCEPT ![q.of] = IF a.ok THEN AfterPoll(q.of, a) ELSE AfterError(q.of)]
    /\ UNCHANGED <<runs, consoles, streamMap, runner>>

ExecReturns(q, a) ==
    /\ runs' = [runs EXCEPT ![q.of] = IF a.ok THEN "exited" ELSE "failed"]
    /\ UNCHANGED <<poller, consoles, streamMap, runner>>

Gives(c, a) ==
    LET q == Request(c)
    IN  /\ wire' = Idle
        /\ busy' = IF c = Loop THEN None ELSE busy
        /\ \/ q.op = "start" /\ StartReturns(q, a)
           \/ q.op \in {"kill", "close"} /\ KillReturns(q)
           \/ q.op = "poll" /\ PollReturns(q, a)
           \/ q.op = "exec" /\ ExecReturns(q, a)
        /\ UNCHANGED <<dialogs, queues>>

Return ==
    /\ wire.stage = "answered"
    /\ Gives(wire.holder, wire.answer)
    /\ UNCHANGED <<host, faults, lost>>

\* A call that changes the host and whose answer does not arrive.
Forget(c) ==
    lost' = IF c = Loop THEN lost \cup {busy.of} ELSE lost

\* The connection breaks under a call: it gets None, the next one reconnects.
Break ==
    /\ faults < MaxFaults
    /\ wire.holder # None
    /\ faults' = faults + 1
    /\ Forget(wire.holder)
    /\ Gives(wire.holder, Bad)
    /\ UNCHANGED host

\* The bridge ends and is started again with an empty registry.  Its Ctrl+C
\* handler kills the registered streams; those it does not kill (a crash, a
\* taskkill that fails, a host that is not Windows) run on without an entry.
Swept(p, kept) ==
    IF p.entry THEN [p EXCEPT !.entry = FALSE, !.pending = <<>>, !.state = IF kept THEN @ ELSE "ended"]
               ELSE p

Registered == {s \in Streams : proc[s].entry /\ proc[s].state = "running"}

BridgeRestarts ==
    /\ faults < MaxFaults
    /\ faults' = faults + 1
    /\ \E kept \in SUBSET Registered :
          /\ proc' = [s \in Streams |-> Swept(proc[s], s \in kept)]
          /\ lost' = lost \cup kept \cup (IF wire.holder = Loop THEN {busy.of} ELSE {})
    /\ UNCHANGED child
    /\ IF wire.holder = None
       THEN UNCHANGED <<wire, busy, tasks, shell, queues>>
       ELSE Gives(wire.holder, Bad)

-----------------------------------------------------------------------------
(***************************************************************************)
(* Host processes, tasks of the shell, and the channels.                   *)
(***************************************************************************)

Ends(s) ==
    /\ proc[s].state = "running"
    /\ proc' = [proc EXCEPT ![s].state = "ended"]
    /\ UNCHANGED <<child, wire, busy, tasks, shell, queues, faults, lost>>

\* A reader thread takes the next line the process wrote; it goes on after the
\* process has ended, until the pipe is empty.  One that meets a line which is
\* not UTF-8 stops for good: it may stop anywhere, as nothing is assumed of it.
Reads(s, k) ==
    /\ proc[s].entry /\ proc[s].read[k] < MaxLines
    /\ poller[s].pc # "off" \/ ~Free      \* nobody asks for it later
    /\ proc' = [proc EXCEPT ![s].read[k] = @ + 1,
                            ![s].pending = Append(@, <<k, proc[s].read[k] + 1>>)]
    /\ UNCHANGED <<child, wire, busy, tasks, shell, queues, faults, lost>>

\* One event of the last answer goes into the channel, when it has room.
PollSends(s) ==
    LET p == poller[s]
    IN  /\ p.pc = "sending" /\ Len(channel) < ConsoleCap
        /\ channel' = Append(channel, Head(p.todo))
        /\ poller' = [poller EXCEPT ![s] =
              IF Len(p.todo) = 1 THEN [p EXCEPT !.pc = p.then, !.todo = <<>>]
                                 ELSE [p EXCEPT !.todo = Tail(@)]]
        /\ UNCHANGED <<host, wire, busy, runs, shell, results, faults, lost>>

\* After an exit the task gives up the mapping; after an error it does not.
PollLeaves(s) ==
    /\ poller[s].pc = "leaving"
    /\ streamMap' = streamMap \ {s}
    /\ poller' = [poller EXCEPT ![s].pc = "off"]
    /\ UNCHANGED <<host, wire, busy, runs, consoles, runner, dialogs, queues, faults, lost>>

RunSends(r) ==
    /\ runs[r] \in {"exited", "failed"} /\ Len(results) < ResultCap
    /\ results' = Append(results, [of |-> r, exit |-> runs[r]])
    /\ runs' = [runs EXCEPT ![r] = "sent"]
    /\ UNCHANGED <<host, wire, busy, poller, shell, channel, faults, lost>>

\* broadcast_shellrun_result: all last_* states at once.
HandleResult ==
    /\ Free /\ results # <<>>
    /\ results' = Tail(results)
    /\ runner' = [cmd |-> Head(results).of, exit |-> Head(results).exit]
    /\ runs' = [runs EXCEPT ![Head(results).of] = "shown"]
    /\ UNCHANGED <<host, wire, busy, poller, streamMap, consoles, dialogs, channel, faults, lost>>

\* apply_console_line keeps the last RingMax lines; apply_console_exit.
Newest(q) == IF Len(q) > RingMax THEN Tail(q) ELSE q
Apply(con, e) ==
    IF con.state # "open" THEN con
    ELSE IF e.type = "line" THEN [con EXCEPT !.lines = Newest(Append(@, e.line)), !.line_count = @ + 1]
    ELSE [con EXCEPT !.status = e.status]

\* biased: results before console events.
HandleConsole ==
    /\ Free /\ results = <<>> /\ channel # <<>>
    /\ channel' = Tail(channel)
    /\ consoles' = [consoles EXCEPT ![Head(channel).of] = Apply(@, Head(channel))]
    /\ UNCHANGED <<host, wire, busy, tasks, streamMap, runner, dialogs, results, faults, lost>>

-----------------------------------------------------------------------------
Poller(s) == PollSends(s) \/ PollLeaves(s)

Next ==
    \/ \E r \in Runs : Run(r) \/ RunSends(r)
    \/ \E r \in Runs : ChildWrites(r) \/ ChildEnds(r) \/ ChildRead(r) \/ HeirEnds(r)
    \/ \E s \in Streams : RunStreamed(s) \/ Terminate(s) \/ Close(s) \/ Ends(s) \/ Poller(s)
    \/ \E s \in Streams, k \in Kinds : Reads(s, k)
    \/ \E d \in dialogs : Respond(d)
    \/ \E c \in Callers : Take(c)
    \/ Serve \/ Return \/ Break \/ BridgeRestarts
    \/ HandleResult \/ HandleConsole

Fairness ==
    /\ \A c \in Callers : SF_vars(Take(c))
    /\ WF_vars(Serve) /\ WF_vars(Return)
    /\ \A r \in Runs : WF_vars(ChildEnds(r)) /\ WF_vars(ChildRead(r)) /\ WF_vars(RunSends(r))
    /\ \A s \in Streams : WF_vars(Poller(s))
    /\ WF_vars(HandleResult) /\ WF_vars(HandleConsole)

Spec == Init /\ [][Next]_vars /\ Fairness

-----------------------------------------------------------------------------
Written == (Kinds \X (1..MaxLines)) \cup {<<"notice", 0>>}
Answers == [ok : BOOLEAN, lines : Seq(Written), ended : BOOLEAN]
ConsoleEvents == [of : Streams, type : {"line"}, line : Written]
                    \cup [of : Streams, type : {"exit"}, status : {"exited", "error"}]

TypeOK ==
    /\ proc \in [Streams -> [state : {"none", "running", "ended"}, entry : BOOLEAN,
                             pending : Seq(Written), read : [Kinds -> 0..MaxLines]]]
    /\ child \in [Runs -> [state : {"none", "running", "exited", "ended"}, left : 0..MaxOut,
                           pipe : 0..PipeCap, heir : BOOLEAN]]
    /\ wire \in [holder : Callers \cup {None},
                 stage : {"idle", "sent", "executing", "answered"}, answer : Answers]
    /\ busy \in Calls \cup {None}
    /\ poller \in [Streams -> [pc : {"off", "due", "sending", "leaving"},
                               todo : Seq(ConsoleEvents), then : {"off", "due", "leaving"}]]
    /\ runs \in [Runs -> {"none", "asked", "refused", "calling", "exited", "failed",
                          "sent", "shown"}]
    /\ consoles \in [Streams -> [state : {"none", "asked", "starting", "open", "closed", "failed"},
                                 status : {"running", "exited", "error"},
                                 lines : Seq(Written), line_count : Nat]]
    /\ dialogs \subseteq [op : {"run"}, of : Runs] \cup [op : {"stream", "terminate"}, of : Streams]
    /\ streamMap \subseteq Streams /\ lost \subseteq Streams /\ faults \in 0..MaxFaults
    /\ channel \in Seq(ConsoleEvents) /\ Len(channel) <= ConsoleCap
    /\ results \in Seq([of : Runs, exit : {"exited", "failed"}]) /\ Len(results) <= ResultCap

\* Of the pipe k these are the lines from a + 1 to b, each once and in order.
Spans(lines, k, a, b) ==
    /\ \A i \in DOMAIN lines : lines[i][1] = k =>
          /\ lines[i][2] \in (a + 1)..b
          /\ \A j \in DOMAIN lines : i < j /\ lines[j][1] = k => lines[i][2] < lines[j][2]
    /\ \A n \in (a + 1)..b : \E i \in DOMAIN lines : lines[i] = <<k, n>>

\* A console shows what its process wrote on each pipe, in order and with
\* nothing left out or shown twice, whatever becomes of the connection (the
\* ring may have dropped the oldest).  The bridge forgets the lines it hands
\* over, so a poll whose answer is lost must be the last one.
\* (exec_stream_poll, the polling task, apply_console_line)
NoGap ==
    \A s \in Streams, k \in Kinds :
        \E a, b \in 0..MaxLines :
            /\ Spans(consoles[s].lines, k, a, b)
            /\ consoles[s].line_count <= RingMax => a = 0

\* A process that runs on the host can be stopped from its console, or is just
\* being started or stopped by the main loop; the exceptions are those whose
\* start or kill itself went wrong.  (STREAM_MAP against REGISTRY: the polling
\* task, kill_console_stream, handle_close)
Killable ==
    /\ TypeOK
    /\ \A s \in Streams : proc[s].state = "running" =>
          \/ s \in streamMap /\ consoles[s].state = "open" /\ proc[s].entry
          \/ ~Free /\ busy.of = s
          \/ s \in lost

\* A one-shot run has exited and left its pipes to a process that keeps them:
\* its call, and the connection with it, is held for as long.
Held == wire.stage = "executing" /\ child[wire.holder].state = "exited" /\ child[wire.holder].heir

\* However long commands run and however full the channels are, the main loop,
\* which waits for the bridge in a start or a kill, comes back to its select!:
\* no task keeps the connection while it waits for the loop.  exec's deadline
\* ends with the child (exec.rs:106-119), so the exception is an heir that
\* keeps a run's pipes for ever.
\* (rpc, kill_console_stream, spawn_streamed, exec)
LoopReturns == []<>Free \/ <>[]Held

\* A console whose process has ended comes to say so, or is closed, also when
\* the connection breaks or the bridge restarts; with the same exception.
\* (the polling task)
ConsoleEnds ==
    \/ \A s \in Streams : proc[s].state = "ended" /\ consoles[s].state = "open"
          ~> consoles[s].status # "running" \/ consoles[s].state = "closed"
    \/ <>[]Held

\* Every one-shot run that was accepted ends in the last_* states, also when
\* its command never ends by itself or the bridge goes away; with the same
\* exception, for the run that is held and for those behind it.
\* (execute_command_spawned, exec, broadcast_shellrun_result)
RunAnswered ==
    \/ \A r \in Runs : runs[r] = "calling" ~> runs[r] = "shown"
    \/ <>[]Held
=============================================================================
