------------------------------ MODULE ShellTree ------------------------------
(***************************************************************************)
(* The desktop shell's picture of the file system: the Folder and File     *)
(* objects it has mounted, the directories it watches, and the three kinds *)
(* of actor that change the disk beneath it: other programs, the user (in  *)
(* the Explorer) and the AI (by the methods of Folder and File objects,    *)
(* with or without a dialog).                                              *)
(*                                                                         *)
(* The shell never reads a directory twice: a folder is read when its list *)
(* of children is found empty, and from then on it is kept up by the       *)
(* events of the watcher and by the shell's own operations.  The watcher   *)
(* runs in a thread of its own; its queue is drained every 100 ms, and     *)
(* events on a path the shell itself touched within the last second are    *)
(* dropped as echoes.  All handlers run one at a time in the main loop.    *)
(*                                                                         *)
(* Left out: contents and sizes of files, the explorer's view state (an    *)
(* operation is given any mounted object), the frames to the server, host  *)
(* paths (they are never watched).                                         *)
(***************************************************************************)
EXTENDS Integers, FiniteSets, SequencesExt

CONSTANTS Top,         \* names a drive may hold: files or folders
          Leaf,        \* names such a folder may hold: files
          MaxObjects,  \* bound on the objects mounted at a time
          MaxChanges,  \* bound on the changes made by other programs
          MaxOps       \* bound on the operations of the user and the AI

ASSUME NamesAssumption == IsFiniteSet(Top) /\ IsFiniteSet(Leaf)
ASSUME MaxObjectsAssumption == MaxObjects \in Nat \ {0}
ASSUME MaxChangesAssumption == MaxChanges \in Nat
ASSUME MaxOpsAssumption == MaxOps \in Nat

VARIABLES disk,     \* what is at each path: "none", "file" or "folder"
          watched,  \* directories with a watch
          events,   \* the watcher's queue
          batch,    \* the changes of one drain still to be handled
          echo,     \* paths the shell marked within ECHO_WINDOW
          mounted,  \* mounted_objects, in the order they were mounted
          reading,  \* the folder read by lazy expansion, not yet watched
          asked,    \* the AI's request a dialog shows
          ops, changes,
          listed,   \* history: folders whose directory was read
          visited,  \* history: folders expanded, navigated to or listed
          drift     \* history: why a path may be shown wrongly

tree == <<mounted, listed, visited>>
fs == <<disk, watched, events>>
treeVars == <<disk, watched, events, batch, echo, mounted, reading, asked, ops,
          changes, listed, visited, drift>>

(***************************************************************************)
(* Paths and objects.  An id is used again once nothing refers to it.      *)
(***************************************************************************)
Root == <<>>
TopPaths == {<<n>> : n \in Top}
Paths == TopPaths \cup {<<n, l>> : n \in Top, l \in Leaf}
Kinds == {"file", "folder"}
NoId == 0
Ids == 1 .. MaxObjects
NoRequest == [op |-> "none", id |-> NoId, kind |-> "none", path |-> Root, to |-> Root]

Within(p, q) == p \in {Root, Front(q), q}  \* q is p or lies below it
Below(p, q) == Within(p, q) /\ p # q
Children(p) == {q \in Paths : Front(q) = p}
Siblings(p) == Children(Front(p)) \ {p}
IsFolder(p) == p \in {Root} \cup {q \in Paths : disk[q] = "folder"}

(* Of a sequence, the elements at some of its places, in their order.      *)
Nth(S, k) == CHOOSE i \in S : Cardinality({j \in S : j < i}) = k - 1
Picked(seq, S) == [k \in 1 .. Cardinality(S) |-> seq[Nth(S, k)]]

Objects == ToSet(mounted)
MountedIds == {o.id : o \in Objects}
Object(id) == CHOOSE o \in Objects : o.id = id
HasPath(p) == {o \in Objects : o.path = p}
find_object_by_path(p) ==
    LET i == CHOOSE i \in DOMAIN mounted :
                 mounted[i].path = p /\ \A j \in 1 .. i - 1 : mounted[j].path # p
    IN mounted[i].id
Held == MountedIds \cup {o.parent : o \in Objects} \cup {asked.id, reading}
Free == Ids \ Held
Fresh(k) == Nth(Free, k)

NewObject(id, p, kind, parent) ==
    [id |-> id, path |-> p, kind |-> kind, parent |-> parent,
     children |-> {}, destroyed |-> FALSE]

With(objs, id, Change(_)) ==
    [i \in DOMAIN objs |-> IF objs[i].id = id THEN Change(objs[i]) ELSE objs[i]]
Adopt(objs, parent, id) ==
    With(objs, parent, LAMBDA o : [o EXCEPT !.children = @ \cup {id}])
(* Mounted last, and pushed to its parent's children if that is mounted.   *)
Mount(objs, o) == Append(Adopt(objs, o.parent, o.id), o)
(* Mutant: the parent goes on listing it.                                  *)
UnmountListed(objs, id, parent) ==
    Picked(objs, {i \in DOMAIN objs : objs[i].id # id})

(* Taken out of mounted_objects and of its parent's children; what lies    *)
(* below it stays.                                                         *)
Unmount(objs, id, parent) ==
    Picked(With(objs, parent, LAMBDA o : [o EXCEPT !.children = @ \ {id}]),
           {i \in DOMAIN objs : objs[i].id # id})
SetTree(objs) ==
    /\ mounted' = objs
    /\ listed' = listed \cap {o.id : o \in ToSet(objs)}
    /\ visited' = visited \cap {o.id : o \in ToSet(objs)}

(* History: the paths of objects that outlive the folder above them.       *)
Stranded(p) == {<<"stranded", o.path>> : o \in {x \in Objects : Below(p, x.path)}}

(* ... and of objects whose file went unseen, when another takes its place, *)
Shadowed(q) == {<<"stranded", r>> :
                   r \in IF HasPath(q) = {} \/ \E e \in ToSet(events) :
                                e.kind = "Removed" /\ e.path = q
                         THEN {} ELSE {q}}

(* ... and of objects put under another object than the folder they are in. *)
Lies(parent, q) == \E o \in Objects : o.id = parent /\ o.path = Front(q)
Misplaced(parent, q) == {<<"stranded", r>> : r \in IF Lies(parent, q) THEN {} ELSE {q}}

Idle == batch = <<>> /\ reading = NoId
Spend == ops < MaxOps /\ ops' = ops + 1 /\ UNCHANGED changes

(***************************************************************************)
(* The disk, and what the watcher reports of a change to it.  A directory  *)
(* is watched without those below it; its watch ends when it is removed or *)
(* gets another path.  A creation may be reported as a modification.       *)
(***************************************************************************)
FsChange(kind, p, own) == [kind |-> kind, path |-> p, own |-> own]
Report(evs) == events \o Picked(evs, {i \in DOMAIN evs : Front(evs[i].path) \in watched})
Created == {"Created", "Modified"}

CreateOnDisk(p, kind, own) ==
    /\ IsFolder(Front(p)) /\ disk[p] = "none"
    /\ kind = "folder" => p \in TopPaths
    /\ disk' = [disk EXCEPT ![p] = kind]
    /\ \E k \in Created : events' = Report(<<FsChange(k, p, own)>>)
    /\ UNCHANGED watched

DeleteOnDisk(p, own) ==
    /\ disk[p] # "none"
    /\ disk' = [q \in Paths |-> IF Within(p, q) THEN "none" ELSE disk[q]]
    /\ LET inside == SetToSeq({q \in Children(p) : disk[q] # "none"})
           gone == Append(inside, p)
       IN events' = Report([i \in DOMAIN gone |-> FsChange("Removed", gone[i], own)])
    /\ watched' = watched \ {p}

RenameOnDisk(p, q, own) ==
    /\ disk[p] # "none" /\ disk[q] = "none"
    /\ disk' = [r \in Paths |->
                  IF r = q THEN disk[p]
                  ELSE IF Front(r) = q THEN disk[Append(p, Last(r))]
                  ELSE IF Within(p, r) THEN "none" ELSE disk[r]]
    /\ events' = Report(<<FsChange("Removed", p, own), FsChange("Created", q, own)>>)
    /\ watched' = watched \ {p}

(* Another program creates, removes or renames a file or a folder.         *)
OtherProgram ==
    /\ changes < MaxChanges /\ changes' = changes + 1
    /\ \E p \in Paths :
          \/ \E kind \in Kinds : CreateOnDisk(p, kind, FALSE)
          \/ DeleteOnDisk(p, FALSE)
          \/ \E q \in Siblings(p) : RenameOnDisk(p, q, FALSE)
    /\ UNCHANGED <<batch, echo, tree, reading, asked, ops, drift>>

(***************************************************************************)
(* The watcher's queue.                                                    *)
(***************************************************************************)
(* drain: what is on a marked path is dropped, whoever did it.             *)
Drain ==
    /\ Idle /\ events # <<>>
    /\ batch' = Picked(events, {i \in DOMAIN events : events[i].path \notin echo})
    /\ drift' = drift \cup {<<"echo", e.path>> :
                    e \in {f \in ToSet(events) : f.path \in echo /\ ~f.own}}
    /\ events' = <<>>
    /\ UNCHANGED <<disk, watched, echo, tree, reading, asked, ops, changes>>

(* ECHO_WINDOW has passed since a path was marked.                         *)
Expire ==
    /\ \E p \in echo : echo' = echo \ {p}
    /\ UNCHANGED <<fs, batch, tree, reading, asked, ops, changes, drift>>

(* Mutant: a path that is mounted already is mounted again.                *)
HandleCreatedTwice(p) ==
    IF disk[p] = "none" \/ HasPath(Front(p)) = {}
    THEN UNCHANGED tree
    ELSE /\ Free # {}
         /\ SetTree(Mount(mounted, NewObject(Fresh(1), p, disk[p],
                                       find_object_by_path(Front(p)))))

(* Created: mounted if its folder is and it is still there and not yet     *)
(* mounted.  A Modified path that is not mounted is taken for Created; one *)
(* that is mounted changes no more than a file's content.                  *)
HandleCreated(p) ==
    IF HasPath(p) # {} \/ disk[p] = "none" \/ HasPath(Front(p)) = {}
    THEN UNCHANGED tree
    ELSE /\ Free # {}
         /\ SetTree(Mount(mounted, NewObject(Fresh(1), p, disk[p],
                                       find_object_by_path(Front(p)))))

HandleRemoved(p) ==
    IF HasPath(p) = {}
    THEN UNCHANGED <<tree, drift>>
    ELSE LET o == Object(find_object_by_path(p))
         IN /\ SetTree(Unmount(mounted, o.id, o.parent))
            /\ drift' = drift \cup Stranded(p)

handle_fs_change ==
    /\ batch # <<>> /\ batch' = Tail(batch)
    /\ \/ Head(batch).kind \in Created
          /\ HandleCreated(Head(batch).path) /\ UNCHANGED drift
       \/ Head(batch).kind = "Removed" /\ HandleRemoved(Head(batch).path)
    /\ UNCHANGED <<fs, echo, reading, asked, ops, changes>>

(***************************************************************************)
(* Lazy expansion: FileTree.expand, Explorer.navigate_to, Folder.list.     *)
(* Between reading a directory and watching it others may change it.       *)
(***************************************************************************)
Shows(o, p) == {c \in HasPath(p) : c.id \in o.children /\ ~c.destroyed}
ShownRightly(o, p) == \/ disk[p] = "none" /\ Shows(o, p) = {}
                      \/ disk[p] # "none" /\ \E c \in Shows(o, p) : Shows(o, p) = {c}

Watch(o) ==
    LET missed == {q \in Children(o.path) : \/ ~ShownRightly(o, q)
                                            \/ \E e \in ToSet(events) : e.path = q}
    IN /\ watched' = IF IsFolder(o.path) THEN watched \cup {o.path} ELSE watched
       /\ drift' = IF o.path \in watched \/ ~IsFolder(o.path) THEN drift
                   ELSE drift \cup ({IF o.id \in listed THEN "gap" ELSE "unread"} \X missed)

(* A folder with children is taken to be expanded: only the watch is set.  *)
ExpandAgain(o) ==
    /\ o.children # {} /\ Watch(o)
    /\ visited' = visited \cup {o.id}
    /\ UNCHANGED <<disk, events, batch, echo, mounted, listed, reading, asked>>

ReadFolder(o) ==
    /\ o.children = {}
    /\ LET found == SetToSeq({q \in Children(o.path) : disk[q] # "none"})
           new == [i \in DOMAIN found |->
                      NewObject(Fresh(i), found[i], disk[found[i]], o.id)]
           ids == {Fresh(i) : i \in DOMAIN found}
       IN /\ Len(found) <= Cardinality(Free)
          /\ mounted' = With(mounted, o.id, LAMBDA f : [f EXCEPT !.children = ids]) \o new
    /\ listed' = listed \cup {o.id} /\ visited' = visited \cup {o.id}
    /\ reading' = o.id
    /\ UNCHANGED <<fs, batch, echo, asked, drift>>

lazy_expand_if_needed ==
    /\ Idle /\ Spend
    /\ \E id \in MountedIds :
          /\ Object(id).kind = "folder"
          /\ \/ ExpandAgain(Object(id))
             \/ ReadFolder(Object(id))

RegisterWatch ==
    /\ reading # NoId
    /\ Watch(Object(reading))
    /\ reading' = NoId
    /\ UNCHANGED <<disk, events, batch, echo, tree, asked, ops, changes>>

(***************************************************************************)
(* The user in the Explorer.  None of these marks its paths as echoes.     *)
(***************************************************************************)
(* Its active folder is one it was taken to, or the parent of such a one.  *)
Active == MountedIds \cap (visited \cup {Object(id).parent : id \in visited})

create_under_active ==
    \E id \in Active : \E p \in Children(Object(id).path), kind \in Kinds :
        /\ Object(id).kind = "folder"
        /\ CreateOnDisk(p, kind, TRUE)
        /\ Free # {}
        /\ SetTree(Mount(mounted, NewObject(Fresh(1), p, kind, id)))
        /\ drift' = drift \cup Shadowed(p)

(* The old object leaves the tree and a new one takes its place.           *)
rename_selected ==
    \E id \in MountedIds : Object(id).path # Root /\
    \E q \in Siblings(Object(id).path) :
        LET o == Object(id)
        IN /\ RenameOnDisk(o.path, q, TRUE)
           /\ Free # {}
           /\ SetTree(Mount(Unmount(mounted, id, o.parent),
                            NewObject(Fresh(1), q, o.kind, o.parent)))
           /\ drift' = drift \cup Stranded(o.path) \cup Shadowed(q)
                          \cup Misplaced(o.parent, q)

handle_delete_selected ==
    \E id \in MountedIds :
        LET o == Object(id)
        IN /\ o.path # Root /\ disk[o.path] = o.kind
           /\ DeleteOnDisk(o.path, TRUE)
           /\ SetTree(Unmount(mounted, id, o.parent))
           /\ drift' = drift \cup Stranded(o.path)

(* The File Manager window closes: all that its objects' lists of children *)
(* reach leaves the tree; the watches stay.  Opening it mounts the drive.  *)
Reach(ids) == ids \cup UNION {o.children : o \in {x \in Objects : x.id \in ids}}
handle_close_file_manager ==
    \E root \in MountedIds :
        /\ Object(root).path = Root
        /\ LET subtree == Reach(Reach({root}))
           IN SetTree(Picked(mounted, {i \in DOMAIN mounted : mounted[i].id \notin subtree}))
        /\ UNCHANGED <<fs, drift>>

open_file_manager_window ==
    /\ HasPath(Root) = {} /\ Free # {}
    /\ SetTree(Append(mounted, NewObject(Fresh(1), Root, "folder", NoId)))
    /\ UNCHANGED <<fs, drift>>

User ==
    /\ Idle /\ Spend
    /\ \/ create_under_active \/ rename_selected \/ handle_delete_selected
       \/ handle_close_file_manager \/ open_file_manager_window
    /\ UNCHANGED <<batch, echo, reading, asked>>

(***************************************************************************)
(* The AI.  A request is carried out at once where its directory is        *)
(* granted, else when the user answers the dialog; the path is the one the *)
(* object had when it was asked.  The paths are marked before the attempt. *)
(***************************************************************************)
Request(o) ==
    LET Ask(op, to) == [op |-> op, id |-> o.id, kind |-> o.kind, path |-> o.path, to |-> to]
    IN {Ask("create", q) : q \in IF o.kind = "folder" THEN Children(o.path) ELSE {}}
         \cup {Ask("rename", q) : q \in IF o.path = Root THEN {} ELSE Siblings(o.path)}
         \cup {Ask("delete", q) : q \in {o.path} \ {Root}}

Places(id) == {o.path : o \in {x \in Objects : x.id = id}}

(* The object asked about is still there, and is what it was.              *)
Current(r) == /\ r.id \in MountedIds
              /\ Object(r.id).path = r.path /\ ~Object(r.id).destroyed

AiCreate(r) ==
    /\ echo' = echo \cup {r.to}
    /\ \/ \E kind \in Kinds :
             /\ CreateOnDisk(r.to, kind, TRUE)
             /\ Free # {}
             /\ SetTree(Mount(mounted, NewObject(Fresh(1), r.to, kind, r.id)))
             /\ drift' = drift \cup Shadowed(r.to) \cup Misplaced(r.id, r.to)
       \/ /\ ~(IsFolder(Front(r.to)) /\ disk[r.to] = "none")
          /\ UNCHANGED <<fs, tree, drift>>

(* The object gets another path; those below it keep theirs.               *)
AiRename(r) ==
    /\ echo' = echo \cup {r.path, r.to}
    /\ \/ /\ RenameOnDisk(r.path, r.to, TRUE)
          /\ SetTree(With(mounted, r.id, LAMBDA o : [o EXCEPT !.path = r.to]))
          /\ drift' = drift \cup Stranded(r.path) \cup
                {<<"stranded", q>> :
                    q \in IF Current(r) /\ HasPath(r.to) = {} /\ Lies(Object(r.id).parent, r.to)
                          THEN {} ELSE {r.path, r.to} \cup Places(r.id)}
       \/ /\ ~(disk[r.path] # "none" /\ disk[r.to] = "none")
          /\ UNCHANGED <<fs, tree, drift>>

(* The object is marked destroyed, and stays.  A folder may be deleted     *)
(* with what it holds, or only if empty.                                   *)
AiDelete(r) ==
    /\ echo' = echo \cup {r.path}
    /\ \/ /\ disk[r.path] = r.kind
          /\ DeleteOnDisk(r.path, TRUE)
          /\ SetTree(With(mounted, r.id, LAMBDA o : [o EXCEPT !.destroyed = TRUE]))
          /\ drift' = drift \cup Stranded(r.path)
                         \cup {<<"tombstone", q>> : q \in {r.path} \cup Places(r.id)}
       \/ /\ \/ disk[r.path] # r.kind
             \/ \E q \in Children(r.path) : disk[q] # "none"
          /\ UNCHANGED <<fs, tree, drift>>

CarryOut(r) == \/ r.op = "create" /\ AiCreate(r)
               \/ r.op = "rename" /\ AiRename(r)
               \/ r.op = "delete" /\ AiDelete(r)

AiAsk ==
    /\ Idle /\ Spend
    /\ \E id \in MountedIds : \E r \in Request(Object(id)) :
          \/ r.op # "delete" /\ CarryOut(r) /\ UNCHANGED asked
          \/ asked = NoRequest /\ asked' = r /\ UNCHANGED <<fs, echo, tree, drift>>
    /\ UNCHANGED <<batch, reading>>

handle_respond ==
    /\ Idle /\ asked # NoRequest /\ asked' = NoRequest
    /\ \/ CarryOut(asked)
       \/ UNCHANGED <<fs, echo, tree, drift>>
    /\ UNCHANGED <<batch, reading, ops, changes>>

(***************************************************************************)
Disks == {d \in [Paths -> {"none"} \cup Kinds] :
             \A p \in Paths \ TopPaths :
                 d[p] = "none" \/ (d[p] = "file" /\ d[Front(p)] = "folder")}

TreeInit ==
    /\ disk \in Disks
    /\ mounted = <<NewObject(1, Root, "folder", NoId)>>
    /\ watched = {} /\ events = <<>> /\ batch = <<>> /\ echo = {}
    /\ reading = NoId /\ asked = NoRequest
    /\ ops = 0 /\ changes = 0
    /\ listed = {} /\ visited = {} /\ drift = {}

TreeNext == \/ OtherProgram \/ Drain \/ Expire \/ handle_fs_change
            \/ lazy_expand_if_needed \/ RegisterWatch
            \/ User \/ AiAsk \/ handle_respond

TreeSpec == TreeInit /\ [][TreeNext]_treeVars

-----------------------------------------------------------------------------
Entries == [id : Ids, path : Paths \cup {Root}, kind : Kinds, parent : Ids \cup {NoId},
            children : SUBSET Ids, destroyed : BOOLEAN]
Events == [kind : {"Created", "Modified", "Removed"}, path : Paths, own : BOOLEAN]

Reasons == {"echo", "gap", "stranded", "tombstone", "unread"}
Proper(r) == \/ r.op = "create" /\ r.to \in Children(r.path)
             \/ r.op = "rename" /\ r.path \in Paths /\ r.to \in Siblings(r.path)
             \/ r.op = "delete" /\ r.path \in Paths

TreeTypeOK ==
    /\ disk \in Disks /\ watched \subseteq Paths \cup {Root}
    /\ events \in Seq(Events) /\ batch \in Seq(Events) /\ echo \subseteq Paths
    /\ mounted \in Seq(Entries)
    /\ \A i, j \in DOMAIN mounted : mounted[i].id = mounted[j].id => i = j
    /\ reading \in MountedIds \cup {NoId} /\ listed \cup visited \subseteq MountedIds
    /\ asked = NoRequest \/ (asked.id \in Ids /\ Proper(asked))
    /\ ops \in 0 .. MaxOps /\ changes \in 0 .. MaxChanges
    /\ drift \subseteq Reasons \X (Paths \cup {Root})

(* A path is excused when the history says why.                            *)
Excused(reasons, p) == \E d \in drift : d[1] \in reasons /\ Within(d[2], p)
Settled == Idle /\ events = <<>>
Agrees(folders, reasons) ==
    Settled => \A id \in folders :
        Object(id).path \in watched =>
            \A p \in Children(Object(id).path) :
                Excused(reasons, p) \/ ShownRightly(Object(id), p)

(* Once the watcher's events are handled, a folder that was read and is    *)
(* watched shows each file on disk once and nothing else, whatever other   *)
(* programs, the user and the AI did in whatever order.  The exceptions:   *)
(* a change by another program on a path the shell had marked, a change    *)
(* while the folder was not watched, an object left behind by the folder   *)
(* above it or put under another than the folder of its path, and a path   *)
(* at which the AI deleted an object.                                      *)
Tracked == Agrees(listed, Reasons)

(* The lists of children and the parents agree, though each handler keeps  *)
(* them up on its own: every child listed is mounted under the folder that *)
(* lists it, and every object mounted under a mounted folder is listed.    *)
TreeAgrees ==
    /\ TreeTypeOK
    /\ \A o \in Objects : o.children = {c.id : c \in {x \in Objects : x.parent = o.id}}

(* "When the user expands it, lazy_mount::expand_folder naturally sees the *)
(* new children too": a folder that was expanded shows what is on disk.    *)
ExpandedShown == Agrees(visited, {"echo", "gap", "stranded", "tombstone"})
=============================================================================
