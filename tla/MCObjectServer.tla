---------------------------- MODULE MCObjectServer ----------------------------
(***************************************************************************)
(* ObjectServer on a folder with one file: the shell owns both, the folder *)
(* may be mounted with the file already among its children or without, the *)
(* AI works under a directory grant, the compositor may read.              *)
(***************************************************************************)
EXTENDS ObjectServer, FiniteSets, TLC

CONSTANTS folder, file, shell, compositor, ai, dir

MCActors  == {shell, compositor, ai}
MCClassOf == (shell :> "app") @@ (compositor :> "compositor") @@ (ai :> "ai")
MCAppOf   == (shell :> "desktop-shell") @@ (compositor :> Null) @@ (ai :> Null)
MCPaths   == {dir}
MCBelow   == dir :> {dir}

(* The file's list is the AllowIfGrantedDir one add_fs_object_acl describes,  *)
(* with one method for the compositor as in add_dialog_acl; the folder has    *)
(* none, so only its owner may act on it.                                     *)
FileAcl == << Entry(SystemCompositor, Methods({"read"}), "Allow"),
              Entry(AiSession, AnyMethod, "AllowIfGrantedDir"),
              Entry(AiSession, Methods({"delete"}), "Deny"),
              Entry(App("desktop-shell"), SetStatePattern, "Allow") >>
MCAcls  == {<< >>, FileAcl}

Folder(kids) ==
  [type |-> "Folder", owner |-> shell, parent |-> Null, children |-> kids, path |-> Null,
   methods |-> {"read"}, acl |-> << >>, state |-> ("count" :> Null), destroyed |-> FALSE]
File(who) ==
  [type |-> "File", owner |-> who, parent |-> folder, children |-> << >>, path |-> dir,
   methods |-> {"read", "delete"}, acl |-> FileAcl, state |-> ("count" :> 0), destroyed |-> FALSE]

MCBlueprints == (folder :> {Folder(<< >>), Folder(<<file>>)}) @@ (file :> {File(shell), File(ai)})

(* A filter list that lets some kinds of event through and others not.         *)
MCFilters == {{"Lifecycle", "Invoke"}}
=============================================================================
