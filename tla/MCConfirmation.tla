---------------------------- MODULE MCConfirmation ----------------------------
(* One folder with a file in it in the working directory c, and directories *)
(* elsewhere: x at the root, e with a folder below it.  Names and paths may *)
(* climb out of their folder.                                               *)
EXTENDS Confirmation

CONSTANTS a1, a2, screenActor, user, none

MCTree == [id \in FsIds |->
             CASE id = 1 -> [kind |-> "Folder", path |-> <<"c">>, destroyed |-> FALSE]
               [] id = 2 -> [kind |-> "File", path |-> <<"c", "f">>, destroyed |-> FALSE]
               [] OTHER  -> none]

OnObject(actor, method, id, name) ==
  [method |-> method, actor |-> actor, target |-> id, name |-> name, path |-> none, to |-> none]

OnPath(actor, method, path, to) ==
  [method |-> method, actor |-> actor, target |-> none, name |-> none, path |-> path, to |-> to]

Relative(parts) == [absolute |-> FALSE, parts |-> parts]
Absolute(parts) == [absolute |-> TRUE, parts |-> parts]

MCCalls ==
  { OnObject(a1, "save", 2, none),
    OnObject(a1, "create_file", 1, Relative(<<"e">>)),
    OnObject(a1, "create_file", 1, Relative(<<"..", "e">>)),
    OnObject(a1, "create_folder", 1, Absolute(<<"e", "c">>)),
    OnObject(a1, "delete", 2, none),
    OnObject(a1, "rename", 2, Relative(<<"e">>)),
    OnObject(a1, "rename", 2, Relative(<<"..", "e", "f">>)),
    OnPath(a1, "write_external", <<"e", "f">>, none),
    OnPath(a1, "write_external", <<"f">>, none),
    OnPath(a2, "write_external", <<"c", "f">>, none),
    OnPath(a1, "write_external", <<"e", "..", "f">>, none),
    OnPath(a2, "delete_external", <<"e", "c", "f">>, none),
    OnPath(a1, "rename_external", <<"e", "f">>, <<"e", "c", "f">>),
    OnPath(a1, "run", none, none),
    OnPath(screenActor, "run_streamed", none, none),
    OnPath(a2, "terminate", none, none) }

MCWorkspaces == { <<"c", "..", "e">> }
MCCwd == <<"c">>
MCNames == {"c", "e", "f"}
=============================================================================
