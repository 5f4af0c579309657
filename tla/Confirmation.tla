----------------------------- MODULE Confirmation -----------------------------
(***************************************************************************)
(* The desktop shell's confirmation of what the AI asks for: permission.rs, *)
(* dialog_ops.rs, granted_dirs.rs and the handlers fs_methods.rs,           *)
(* external_methods.rs, dialog_methods.rs, with the entries of              *)
(* shellrunner_methods.rs and console_window_methods.rs that open a Dialog. *)
(*                                                                         *)
(* The shell's main loop reads Invoke events one at a time and runs the     *)
(* whole handler before the next (main.rs), so a handler is one action.     *)
(* Requests, the user's clicks and the user's /workspace commands wait in   *)
(* the connection in the order the server accepted them.                    *)
(*                                                                         *)
(* A path is the sequence of its components as it was written: requests,    *)
(* names and workspaces may hold "..", and it is the comparison with the    *)
(* granted directories that resolves it.  Empty components and "." are left *)
(* out, and so are the drive-letter forms of a host path.  Whether the file *)
(* system carries an operation out is a free choice, so the disk itself is  *)
(* not a variable.  The watcher's echo marks belong to the watcher.         *)
(***************************************************************************)
EXTENDS Naturals, FiniteSets, SequencesExt

CONSTANTS Ais,         \* AI session actors
          Compositor,  \* the actor user clicks arrive as
          LocalUser,   \* ActorId::local_user()
          Names,       \* path components other than ".."
          Cwd,         \* the shell's working directory
          FsIds,       \* identifiers of File and Folder objects
          Tree,        \* [FsIds -> FsObjects \cup {Null}]: mounted at startup
          Calls,       \* the requests clients send
          Workspaces,  \* the directories the user names in /workspace
          MaxCalls, MaxInbox, MaxSaid, MaxRuns,  \* bounds of a behaviour
          Null

Up        == ".."
Component == Names \cup {Up}
Paths     == Seq(Component) \ {<< >>}
FilePaths == {p \in Seq(Component) : p # << >> /\ Last(p) \in Names}
FsObjects == [kind : {"File", "Folder"}, path : FilePaths, destroyed : BOOLEAN]

(* The name of a request is joined to a folder as it came; is_safe_leaf_name *)
(* is asked by the file explorer only.                                      *)
FileNames == [absolute : BOOLEAN, parts : Paths]
Leaf(name) == ~name.absolute /\ Len(name.parts) = 1 /\ name.parts[1] \in Names

Creates   == {"create_file", "create_folder"}
Externals == {"write_external", "delete_external", "rename_external"}
Commands  == {"run", "run_streamed", "terminate"}
Methods   == {"save", "delete", "rename"} \cup Creates \cup Externals \cup Commands

(* A request as it arrives; what a method does not use is Null, and what it *)
(* uses is there (a request without it is answered with an error).          *)
CallRecords == [method : Methods, actor : Ais \cup {Compositor, LocalUser},
                target : FsIds \cup {Null}, name : FileNames \cup {Null},
                path : Paths \cup {Null}, to : Paths \cup {Null}]

Complete(call) ==
  /\ call.target # Null <=> call.method \in {"save", "delete", "rename"} \cup Creates
  /\ call.name # Null <=> call.method \in {"rename"} \cup Creates
  /\ call.path # Null <=> call.method \in Externals
  /\ call.to # Null <=> call.method = "rename_external"

(* A request as PendingFs keeps it: the path of its object is fixed when it  *)
(* is handled, that of the folder for a creation.                           *)
Operations == [method : Methods, actor : Ais \cup {Compositor, LocalUser},
               target : FsIds \cup {Null}, path : Paths \cup {Null},
               name : FileNames \cup {Null}, to : Paths \cup {Null}]

Dialogs == 1 .. MaxCalls
Runs    == 1 .. MaxRuns
Owner(n) == <<"desktop-shell", n>>   \* app:desktop-shell:<uuid>, new on every run
Holders == Ais \cup {Compositor, LocalUser} \cup {Owner(n) : n \in Runs}

Request(call)        == [kind |-> "call", call |-> call]
Answer(dialog, allow) == [kind |-> "answer", dialog |-> dialog, allow |-> allow]
AddWs(dir)             == [kind |-> "add", path |-> dir]
RemoveWs(dir)          == [kind |-> "remove", path |-> dir]
Restarted            == [kind |-> "restart"]

UserEvents == [kind : {"answer"}, dialog : Dialogs, allow : BOOLEAN]
                \cup [kind : {"add", "remove"}, path : Paths]
Effects    == [op : Operations, dialog : Dialogs \cup {Null}, at : Nat]

ASSUME PathAssumption ==
  /\ Cwd \in Paths /\ Workspaces \subseteq Paths
  /\ Up \notin Names
  /\ MaxCalls \in Nat /\ MaxInbox \in Nat /\ MaxSaid \in Nat
  /\ MaxRuns \in Nat \ {0}

ASSUME CallAssumption ==
  /\ Null \notin Paths \cup FileNames \cup FsIds \cup FsObjects \cup Operations \cup Dialogs
  /\ Compositor \notin Ais /\ LocalUser \notin Ais
  /\ Tree \in [FsIds -> FsObjects \cup {Null}]
  /\ \A call \in Calls : call \in CallRecords /\ Complete(call)

VARIABLES
  inbox,       \* Invoke events on their way to the shell
  mounted,     \* mounted_objects: the File and Folder objects
  screen,      \* mounted_objects: the Dialogs, on screen
  pending,     \* PendingMap.inner
  nextDialog,
  session,     \* GrantedDirs.inner
  persistent,  \* GrantedDirs.persistent
  saved,       \* ~/.geulos/workspaces.json
  server,      \* the server's GrantStore: pairs of an actor and a directory
  run,         \* which run of the shell process this is
  sent,        \* requests sent so far
  asked,       \* history: what each Dialog asked
  askedAt,     \* history: and how much the user had said by then
  said,        \* history: what the user has told the shell
  effects      \* history: operations carried out and what the user had said

grantVars == <<session, persistent, saved, server>>
dialogVars == <<screen, pending, nextDialog, asked, askedAt>>
vars == <<inbox, mounted, dialogVars, grantVars, run, sent, said, effects>>

-----------------------------------------------------------------------------
(* granted_dirs.rs *)

(* parent_of, as a set: a child of the root has no parent.                  *)
ParentOf(path) == IF Len(path) > 1 THEN {Front(path)} ELSE {}

(* norm_components, one component at a time: ".." takes the last one away.  *)
Resolve(kept, c) ==
  IF c # Up THEN Append(kept, c) ELSE IF kept = << >> THEN kept ELSE Front(kept)

Norm(path) ==
  LET kept[k \in 0 .. Len(path)] == IF k = 0 THEN << >> ELSE Resolve(kept[k - 1], path[k])
  IN  kept[Len(path)]

Below(path, dir) == Norm(dir) # << >> /\ IsPrefix(Norm(dir), Norm(path))

(* Mutant: the directory itself only, as before workspaces.                 *)
InGrantedExactly(path) == \E dir \in session : Norm(dir) = Norm(path)

(* Mutant: the components are compared as they were written.                *)
InGrantedAsWritten(path) == \E dir \in session : IsPrefix(dir, path)

(* GrantedDirs::contains *)
InGrantedDir(path) == \E dir \in session : Below(path, dir)

(* grant_dir for each of dirs: the local set and GrantUpdate(Add).          *)
Grant(actor, dirs) ==
  /\ session' = session \cup dirs
  /\ server' = server \cup ({actor} \X dirs)
  /\ UNCHANGED <<persistent, saved>>

-----------------------------------------------------------------------------
(* permission.rs and the tests the handlers make before they ask.           *)

(* What a handler makes of a call, with the path of the object it names.    *)
Captured(call) ==
  [method |-> call.method, actor |-> call.actor, target |-> call.target,
   path |-> IF call.target = Null THEN call.path ELSE mounted[call.target].path,
   name |-> call.name, to |-> call.to]

(* The path a name makes: Path::join, in the folder or next to the object.  *)
Join(dir, name) == IF name.absolute THEN name.parts ELSE dir \o name.parts

Target(op) == Join(IF op.method \in Creates THEN op.path ELSE Front(op.path), op.name)

(* What the operation reads, writes or moves.                               *)
Touched(op) ==
  CASE op.method \in Creates  -> {Target(op)}
    [] op.method = "rename"    -> {op.path, Target(op)}
    [] OTHER                   -> {op.path, op.to} \ {Null}

(* The paths the granted directories must contain: a name is not looked at. *)
Judged(op) ==
  CASE op.method \in {"save", "rename"}  -> ParentOf(op.path)
    [] op.method \in Creates             -> {op.path}
    [] op.method \in Externals           -> {op.path, op.to} \ {Null}
    [] OTHER                             -> {}

Granted(op) == Judged(op) # {} /\ \A p \in Judged(op) : InGrantedDir(p)

(* judge_with_path for the object methods; the external methods look at the *)
(* grants alone, delete always asks and commands ask for an AI.             *)
Allowed(op) ==
  \/ op.method \in {"save", "rename"} \cup Creates /\ op.actor = LocalUser
  \/ Granted(op)
  \/ op.method \in Commands /\ op.actor \notin Ais

(* An external method refuses a path in the working directory, but only     *)
(* once the granted directories have been consulted.                        *)
InsideCwd(op) ==
  op.method \in Externals /\ \E p \in {op.path, op.to} \ {Null} : IsPrefix(Cwd, p)

-----------------------------------------------------------------------------
(* Carrying an operation out.  done tells whether the file system did it: a *)
(* path that ends in ".." can neither be created nor be moved to.           *)

Outcomes(op) == {done \in BOOLEAN : done /\ op.name # Null => Last(Target(op)) \in Names}

Record(op, dialog) ==
  effects' = effects \cup {[op |-> op, dialog |-> dialog, at |-> Len(said')]}

NewObject(op) ==
  [kind |-> IF op.method = "create_file" THEN "File" ELSE "Folder",
   path |-> Target(op), destroyed |-> FALSE]

Unused == {id \in FsIds : mounted[id] = Null}

(* The tree after the operation: a new object is mounted, a deleted one     *)
(* becomes a tombstone, a renamed one changes its path and its children do  *)
(* not.  External operations leave the tree to the watcher.                 *)
Retree(op, done) ==
  mounted' =
    CASE done /\ op.method \in Creates /\ Unused # {} ->   \* bounded by FsIds
           [mounted EXCEPT ![CHOOSE id \in Unused : TRUE] = NewObject(op)]
      [] done /\ op.method = "delete" -> [mounted EXCEPT ![op.target].destroyed = TRUE]
      [] done /\ op.method = "rename" -> [mounted EXCEPT ![op.target].path = Target(op)]
      [] OTHER -> mounted

(* The directories the Dialog tells the user about.                         *)
Places(op) ==
  IF op.method \in Creates THEN {op.path} ELSE UNION {ParentOf(p) : p \in Touched(op)}

(* The directories an approval opens.  Creating and the external operations *)
(* open theirs whether or not the operation succeeded, a rename the one the *)
(* object is in afterwards.                                                 *)
Opened(op, done) ==
  CASE op.method \in Creates \cup Externals -> Places(op)
    [] op.method = "save" /\ done           -> ParentOf(op.path)
    [] op.method = "rename" /\ done         -> ParentOf(Target(op))
    [] OTHER                                -> {}

-----------------------------------------------------------------------------
(* What reaches the shell.                                                  *)

SaidOnTheWay == Cardinality({i \in DOMAIN inbox : inbox[i].kind # "call"})

Deliver(event) ==
  /\ Len(inbox) < MaxInbox
  /\ inbox' = Append(inbox, event)

(* A client's request that the server's access list lets through; the       *)
(* object methods exist on the types that have them.                        *)
Send(call) ==
  /\ sent < MaxCalls
  /\ call.target # Null =>
       /\ mounted[call.target] # Null
       /\ call.method = "save" => mounted[call.target].kind = "File"
       /\ call.method \in Creates => mounted[call.target].kind = "Folder"
  /\ Deliver(Request(call))
  /\ sent' = sent + 1
  /\ UNCHANGED <<mounted, dialogVars, grantVars, run, said, effects>>

(* The user's acts: only the compositor may respond to a Dialog, and it     *)
(* shows one until it has heard that the Dialog is destroyed, so a second   *)
(* click may be on its way when the first is handled.                       *)
Tell(event) ==
  /\ Len(said) + SaidOnTheWay < MaxSaid
  /\ Deliver(event)
  /\ UNCHANGED <<mounted, dialogVars, grantVars, run, sent, said, effects>>

Click     == \E d \in screen, allow \in BOOLEAN : Tell(Answer(d, allow))
Workspace == \E dir \in Workspaces : Tell(AddWs(dir)) \/ Tell(RemoveWs(dir))

Take(kind) ==
  /\ inbox # << >>
  /\ Head(inbox).kind = kind
  /\ inbox' = Tail(inbox)

Hear(event) == said' = Append(said, event)

-----------------------------------------------------------------------------
(* The handlers.                                                            *)

(* Mount the Dialog, subscribe to it, and keep the operation.               *)
Ask(op) ==
  /\ nextDialog \in Dialogs
  /\ screen' = screen \cup {nextDialog}
  /\ pending' = [pending EXCEPT ![nextDialog] = op]
  /\ nextDialog' = nextDialog + 1
  /\ asked' = [asked EXCEPT ![nextDialog] = op]
  /\ askedAt' = [askedAt EXCEPT ![nextDialog] = Len(said)]
  /\ UNCHANGED <<mounted, effects>>

CarryOut(op) ==
  /\ Record(op, Null)
  /\ \E done \in Outcomes(op) : Retree(op, done)
  /\ UNCHANGED dialogVars

Refuse == UNCHANGED <<mounted, dialogVars, effects>>

TakeCall(method) ==
  /\ Take("call")
  /\ Head(inbox).call.method = method
  /\ UNCHANGED <<said, grantVars, run, sent>>

Taken == Head(inbox).call

(* A handler that finds no path for its target returns.                     *)
JudgeObject(call) ==
  IF mounted[call.target] = Null THEN Refuse
  ELSE IF Allowed(Captured(call)) THEN CarryOut(Captured(call)) ELSE Ask(Captured(call))

AskForObject(call) ==
  IF mounted[call.target] = Null THEN Refuse ELSE Ask(Captured(call))

JudgePath(call) ==
  LET op == Captured(call) IN
    IF Allowed(op) THEN CarryOut(op)
    ELSE IF InsideCwd(op) THEN Refuse ELSE Ask(op)

(* A command that is not on the list or whose directory is missing is       *)
(* refused, whoever asks.                                                   *)
JudgeCommand(call) ==
  \/ call.method # "terminate" /\ Refuse
  \/ IF Allowed(Captured(call)) THEN CarryOut(Captured(call)) ELSE Ask(Captured(call))

HandleSave           == TakeCall("save") /\ JudgeObject(Taken)
HandleCreateFile     == TakeCall("create_file") /\ JudgeObject(Taken)
HandleCreateFolder   == TakeCall("create_folder") /\ JudgeObject(Taken)
HandleRename         == TakeCall("rename") /\ JudgeObject(Taken)
HandleDelete         == TakeCall("delete") /\ AskForObject(Taken)
HandleWriteExternal  == TakeCall("write_external") /\ JudgePath(Taken)
HandleDeleteExternal == TakeCall("delete_external") /\ JudgePath(Taken)
HandleRenameExternal == TakeCall("rename_external") /\ JudgePath(Taken)
HandleRun            == TakeCall("run") /\ JudgeCommand(Taken)
HandleRunStreamed    == TakeCall("run_streamed") /\ JudgeCommand(Taken)
HandleTerminate      == TakeCall("terminate") /\ JudgeCommand(Taken)

(* Mutant: the entry is looked up and stays in the map.                     *)
HandleRespondPeeking ==
  /\ Take("answer")
  /\ LET d == Head(inbox).dialog  op == pending[d] IN
       /\ Hear(Head(inbox))
       /\ IF op # Null /\ Head(inbox).allow
          THEN \E done \in Outcomes(op) :
                 /\ Record(op, d)
                 /\ Retree(op, done)
                 /\ Grant(op.actor, Opened(op, done))
          ELSE UNCHANGED <<mounted, grantVars, effects>>
       /\ screen' = screen \ {d}
  /\ UNCHANGED <<pending, nextDialog, asked, askedAt, run, sent>>

(* Mutant: a refusal returns before the Dialog is taken down.               *)
HandleRespondKeeping ==
  /\ Take("answer")
  /\ LET d == Head(inbox).dialog  op == pending[d] IN
       /\ Hear(Head(inbox))
       /\ IF op # Null /\ Head(inbox).allow
          THEN \E done \in Outcomes(op) :
                 /\ Record(op, d)
                 /\ Retree(op, done)
                 /\ Grant(op.actor, Opened(op, done))
                 /\ screen' = screen \ {d}
          ELSE UNCHANGED <<mounted, grantVars, effects, screen>>
       /\ pending' = [pending EXCEPT ![d] = Null]
  /\ UNCHANGED <<nextDialog, asked, askedAt, run, sent>>

(* Dialog.respond: the entry is taken out whatever the answer; an approval  *)
(* carries it out and opens directories to the actor that asked; the Dialog *)
(* goes, also when there was no entry left.                                 *)
HandleRespond ==
  /\ Take("answer")
  /\ LET d == Head(inbox).dialog  op == pending[d] IN
       /\ Hear(Head(inbox))
       /\ IF op # Null /\ Head(inbox).allow
          THEN \E done \in Outcomes(op) :
                 /\ Record(op, d)
                 /\ Retree(op, done)
                 /\ Grant(op.actor, Opened(op, done))
          ELSE UNCHANGED <<mounted, grantVars, effects>>
       /\ pending' = [pending EXCEPT ![d] = Null]
       /\ screen' = screen \ {d}
  /\ UNCHANGED <<nextDialog, asked, askedAt, run, sent>>

(* /workspace add: grant_dir_persistent to the shell's own actor.           *)
HandleAdd ==
  /\ Take("add")
  /\ LET dir == Head(inbox).path IN
       /\ Hear(Head(inbox))
       /\ session' = session \cup {dir}
       /\ persistent' = persistent \cup {dir}
       /\ saved' = persistent'
       /\ server' = server \cup {<<Owner(run), dir>>}
  /\ UNCHANGED <<mounted, dialogVars, run, sent, effects>>

(* Mutant: the directory leaves the set in use but not the saved one.       *)
HandleRemoveInUse ==
  /\ Take("remove")
  /\ LET dir == Head(inbox).path IN
       /\ Hear(Head(inbox))
       /\ session' = session \ {dir}
       /\ server' = server \ {<<Owner(run), dir>>}
  /\ UNCHANGED <<mounted, dialogVars, persistent, saved, run, sent, effects>>

(* /workspace remove: revoke_dir for the shell's own actor.                 *)
HandleRemove ==
  /\ Take("remove")
  /\ LET dir == Head(inbox).path IN
       /\ Hear(Head(inbox))
       /\ session' = session \ {dir}
       /\ persistent' = persistent \ {dir}
       /\ saved' = IF dir \in persistent THEN persistent' ELSE saved
       /\ server' = server \ {<<Owner(run), dir>>}
  /\ UNCHANGED <<mounted, dialogVars, run, sent, effects>>

(* The shell's next run, without what the process kept: its Dialogs went    *)
(* with its connection, deleted objects are not mounted again.              *)
NextRun ==
  /\ run < MaxRuns
  /\ Len(said) + SaidOnTheWay < MaxSaid
  /\ run' = run + 1
  /\ Hear(Restarted)
  /\ inbox' = << >>
  /\ screen' = {}
  /\ pending' = [d \in Dialogs |-> Null]
  /\ mounted' = [id \in FsIds |-> IF mounted[id] # Null /\ mounted[id].destroyed
                                  THEN Null ELSE mounted[id]]
  /\ UNCHANGED <<nextDialog, asked, askedAt, sent, saved, effects>>

(* Mutant: the saved directories are loaded and the server is not told.     *)
RestartQuietly ==
  /\ NextRun
  /\ session' = saved
  /\ persistent' = saved
  /\ UNCHANGED server

(* Startup: load_persisted, then grant_dir for each directory.              *)
Restart ==
  /\ NextRun
  /\ session' = saved
  /\ persistent' = saved
  /\ server' = server \cup ({Owner(run')} \X saved)

-----------------------------------------------------------------------------
Init ==
  /\ inbox = << >>
  /\ mounted = Tree
  /\ screen = {} /\ pending = [d \in Dialogs |-> Null] /\ nextDialog = 1
  /\ session = {} /\ persistent = {} /\ saved = {} /\ server = {}
  /\ run = 1
  /\ sent = 0
  /\ asked = [d \in Dialogs |-> Null] /\ askedAt = [d \in Dialogs |-> 0]
  /\ said = << >>
  /\ effects = {}

Handle == \/ HandleSave \/ HandleCreateFile \/ HandleCreateFolder
          \/ HandleRename \/ HandleDelete
          \/ HandleWriteExternal \/ HandleDeleteExternal \/ HandleRenameExternal
          \/ HandleRun \/ HandleRunStreamed \/ HandleTerminate
          \/ HandleRespond \/ HandleAdd \/ HandleRemove

Next == \/ \E call \in Calls : Send(call)
        \/ Click
        \/ Workspace
        \/ Handle
        \/ Restart

Spec     == Init /\ [][Next]_vars
FairSpec == Spec /\ WF_vars(Handle)

-----------------------------------------------------------------------------
(* Properties.                                                              *)

(* The shape of the state.                                                  *)
TypeOK ==
  /\ inbox \in Seq(UserEvents \cup {Request(c) : c \in Calls})
  /\ mounted \in [FsIds -> FsObjects \cup {Null}]
  /\ screen \subseteq Dialogs
  /\ pending \in [Dialogs -> Operations \cup {Null}]
  /\ nextDialog \in 1 .. MaxCalls + 1
  /\ session \subseteq Paths /\ persistent \subseteq Paths /\ saved \subseteq Paths
  /\ server \subseteq Holders \X Paths
  /\ run \in Runs
  /\ sent \in 0 .. MaxCalls
  /\ asked \in [Dialogs -> Operations \cup {Null}]
  /\ askedAt \in [Dialogs -> Nat] /\ \A d \in Dialogs : askedAt[d] <= Len(said)
  /\ said \in Seq(UserEvents \cup {Restarted})
  /\ effects \subseteq Effects /\ \A e \in effects : e.at <= Len(said)

(* The user's i-th word is the first answer to a Dialog, and allows it.     *)
Allows(i, d) ==
  /\ said[i] = Answer(d, TRUE)
  /\ \A j \in 1 .. i - 1 : said[j].kind = "answer" => said[j].dialog # d

(* A directory the user has named, or approved an operation in, and not     *)
(* withdrawn; approvals last for one run of the shell, workspaces until     *)
(* they are removed.  Deleting one thing says nothing about the next.       *)
Opens(ops, i) ==
  (IF said[i].kind = "add" THEN {said[i].path} ELSE {})
    \cup UNION {Places(asked[d]) : d \in {x \in Dialogs : Allows(i, x) /\ asked[x].method \in ops}}

Trusted(ops, p, n) ==
  \E i \in 1 .. n : \E dir \in Opens(ops, i) :
    /\ Below(p, dir)
    /\ \A j \in i + 1 .. n : /\ said[j] # RemoveWs(dir)
                             /\ said[j] = Restarted => said[i].kind = "add"

Opening == {"save", "rename"} \cup Creates \cup Externals

(* The paths that must be trusted when nobody is asked: all an operation    *)
(* touches; but where a name is more than one component below its folder,   *)
(* the shell trusts the folder, or the object renamed, and the path made    *)
(* with the name may lie anywhere (is_safe_leaf_name is not asked).         *)
Vetted(op) == IF op.name = Null \/ Leaf(op.name) THEN Touched(op) ELSE {op.path}

(* Consent (dialog_methods.rs, granted_dirs.rs): an operation of an AI is   *)
(* carried out either because the user's first answer to the Dialog that    *)
(* asked for exactly this operation allowed it, once, or because every path *)
(* it touches lies, once ".." is resolved, in a directory the user trusts   *)
(* at that moment.  A name of several components is excepted (Vetted).      *)
Consent ==
  \A e \in effects : e.op.actor \in Ais =>
    IF e.dialog # Null
    THEN /\ Allows(e.at, e.dialog)
         /\ asked[e.dialog] = e.op
    ELSE /\ e.op.method \in Opening
         /\ \A p \in Vetted(e.op) : Trusted(Opening, p, e.at)

(* No second question (granted_dirs.rs:3-4): when a Dialog opens for        *)
(* anything but a delete or a command, some directory it is about had not   *)
(* been trusted.  A save or a rename that failed after its approval opens   *)
(* nothing, so those approvals are not counted.                             *)
NoSecondQuestion ==
  \A d \in Dialogs : asked[d] # Null /\ asked[d].method \in Opening =>
    \/ Judged(asked[d]) = {}
    \/ \E p \in Judged(asked[d]) :
         ~Trusted(Creates \cup Externals, p, askedAt[d])

(* The user's last word on a workspace.                                     *)
LastWord(event, dir) ==
  \E i \in DOMAIN said : /\ said[i] = event
                         /\ \A j \in i + 1 .. Len(said) : said[j] \notin {AddWs(dir), RemoveWs(dir)}

(* Workspaces survive (granted_dirs.rs): the file, the sets in memory and   *)
(* the user's commands agree through every restart.                         *)
WorkspacesSurvive ==
  \A dir \in Workspaces \cup saved \cup persistent :
    /\ dir \in saved <=> LastWord(AddWs(dir), dir)
    /\ dir \in persistent <=> dir \in saved
    /\ dir \in persistent => dir \in session

(* Every directory open in the shell is open at the server for someone, a   *)
(* workspace for this run's own actor (main.rs startup, grant_dir).         *)
GrantsReachServer ==
  /\ TypeOK
  /\ \A dir \in session : \E a \in Holders : <<a, dir>> \in server
  /\ \A dir \in persistent : <<Owner(run), dir>> \in server

(* An answered Dialog goes away, whatever the answer and however often the  *)
(* user clicks (dialog_methods.rs).                                         *)
Clicked(d) == \E i \in DOMAIN inbox : inbox[i].kind = "answer" /\ inbox[i].dialog = d

EventuallySettled ==
  \A d \in Dialogs : Clicked(d) ~> (d \notin screen /\ pending[d] = Null)
=============================================================================
