------------------------------ MODULE Editing ------------------------------
(***************************************************************************)
(* What a key or a click does in the VM compositor                         *)
(* (geulos-vm-compositor.rs), and what the shell's window handlers make of *)
(* it.  Three places take keys: the command line of the Cli, the editor of *)
(* one Window, and the box in which a file is renamed.  Hangul is composed *)
(* by the compositor itself: for the Cli the syllable being composed is    *)
(* kept beside the line, in the editor it already stands in the text.      *)
(*                                                                         *)
(* A character is the sequence of the letters it was typed with: <<"x">>,  *)
(* or <<"g", "a", "s">> for a syllable.  Offsets count characters; in the  *)
(* code they count bytes, and an offset between two characters here is the *)
(* same place there as long as it was computed for the text it is used in. *)
(* Where a place lies on the screen (layout, wrapping, hit_test) is left   *)
(* out: a press names what it hits.  Dialogs are in Confirmation, the      *)
(* explorer's own operations in ShellTree, Esc and submit_input in         *)
(* AiStream, consoles in Processes; scrolling and resizing are left out.   *)
(*                                                                         *)
(* The shell keeps the windows, the compositor a mirror of them.  Invokes  *)
(* travel one way, mounts and state changes the other, both in order.      *)
(***************************************************************************)
EXTENDS Integers, Sequences, SequencesExt

CONSTANTS Jamo, Plain,     \* the letter keys, and the keys that are none
          Files, NewFile,  \* files at the start, and the one a rename makes
          MaxWindows,      \* windows ever opened
          UiCap,           \* capacity of the channel to the server client (64)
          MaxEvents,       \* keys and clicks in a behaviour
          None

Consonants == {"g", "gg", "n", "d", "dd", "r", "m", "b", "bb", "s", "ss",
               "ng", "j", "jj", "ch", "k", "t", "p", "h"}
Vowels == {"a", "ae", "ya", "yae", "eo", "e", "yeo", "ye", "o", "yo", "u",
           "yu", "eu", "i"}

ASSUME KeysAssumption ==
    /\ Jamo \subseteq Consonants \cup Vowels
    /\ Plain \cap (Consonants \cup Vowels) = {}

ASSUME FilesAssumption ==
    /\ Files # {}
    /\ NewFile \notin Files
    /\ None \notin Files \cup {NewFile}

ASSUME BoundsAssumption ==
    /\ {MaxWindows, UiCap} \subseteq Nat \ {0}
    /\ MaxEvents \in Nat

VARIABLES
    korean,        \* korean_mode
    hangul,        \* the syllable being composed
    preedit,       \* editor_preedit_len > 0: it stands in the editor's text
    cli,           \* CliLocalState
    editor,        \* EditorState of one window, or of window 0: none
    focus,         \* keyboard_focus: a window, or 0 for the Cli
    clipboard,
    rename_input,  \* [target, buffer], or NoRename
    drag,          \* what the held button drags
    crashed,       \* the main thread has panicked
    windows,       \* shell: the Window objects
    files,         \* shell: the File objects, and what is on the disk
    selected,      \* shell: selected_item of the Explorer
    mirror,        \* compositor: the windows, and under Explorer its rows
                   \* and the selected item
    invokes,       \* compositor to shell, oldest first
    news,          \* shell to compositor, oldest first
    used           \* keys and clicks so far

text  == <<korean, hangul, preedit, cli, editor, focus, clipboard>>
ui    == <<text, rename_input, drag, crashed>>
shell == <<windows, files, selected>>
vars  == <<ui, shell, mirror, invokes, news, used>>

Window == 1..MaxWindows
Explorer == 0
File == Files \cup {NewFile}
Name == << <<"x">> >>      \* a file's name, and its text at the start

-----------------------------------------------------------------------------
(* Hangul: a syllable has an initial consonant, one or two vowels and up   *)
(* to two final consonants, each in the order typed.                       *)

Syllable(cho, jung, jong) == [cho |-> cho, jung |-> jung, jong |-> jong]
Empty == Syllable(<<>>, <<>>, <<>>)

CompoundJung == {<<"o", "a">>, <<"o", "ae">>, <<"o", "i">>, <<"u", "eo">>,
                 <<"u", "e">>, <<"u", "i">>, <<"eu", "i">>}
CompoundJong == {<<"g", "s">>, <<"n", "j">>, <<"n", "h">>, <<"r", "g">>,
                 <<"r", "m">>, <<"r", "b">>, <<"r", "s">>, <<"r", "t">>,
                 <<"r", "p">>, <<"r", "h">>, <<"b", "s">>}
Jongseong == Consonants \ {"dd", "bb", "jj"}

Render(s) == s.cho \o s.jung \o s.jong
Composed(s) == IF s = Empty THEN <<>> ELSE << Render(s) >>

Goes(s) == [committed |-> <<>>, state |-> s]
Splits(done, s) == [committed |-> << done >>, state |-> s]

\* Mutant: the final consonant is moved on, and left behind as well.
VowelCopies(s, v) ==
    IF s.jong # <<>>
    THEN Splits(Render(s), Syllable(<<Last(s.jong)>>, <<v>>, <<>>))
    ELSE IF s.jung = <<>> \/ s.jung \o <<v>> \in CompoundJung
         THEN Goes([s EXCEPT !.jung = Append(@, v)])
         ELSE Splits(Render(s), Syllable(<<>>, <<v>>, <<>>))

\* A vowel takes the last final consonant of the syllable for its own.
input_vowel(s, v) ==
    IF s.jong # <<>>
    THEN Splits(s.cho \o s.jung \o Front(s.jong),
                Syllable(<<Last(s.jong)>>, <<v>>, <<>>))
    ELSE IF s.jung = <<>> \/ s.jung \o <<v>> \in CompoundJung
         THEN Goes([s EXCEPT !.jung = Append(@, v)])
         ELSE Splits(Render(s), Syllable(<<>>, <<v>>, <<>>))

input_consonant(s, c) ==
    IF s = Empty
    THEN Goes(Syllable(<<c>>, <<>>, <<>>))
    ELSE IF /\ s.cho # <<>> /\ s.jung # <<>>
            /\ \/ s.jong = <<>> /\ c \in Jongseong
               \/ Append(s.jong, c) \in CompoundJong
         THEN Goes([s EXCEPT !.jong = Append(@, c)])
         ELSE Splits(Render(s), Syllable(<<c>>, <<>>, <<>>))

input_jamo(s, l) == IF l \in Vowels THEN input_vowel(s, l) ELSE input_consonant(s, l)

\* Mutant: a final consonant goes as a whole, of whatever letters it is made.
BackspaceTakesFinal(s) ==
    IF s.jong # <<>> THEN [s EXCEPT !.jong = <<>>]
    ELSE IF s.cho # <<>> /\ s.jung # <<>> THEN [s EXCEPT !.jung = Front(@)]
    ELSE Empty

hangul_backspace(s) ==
    IF s.jong # <<>> THEN [s EXCEPT !.jong = Front(@)]
    ELSE IF s.cho # <<>> /\ s.jung # <<>> THEN [s EXCEPT !.jung = Front(@)]
    ELSE Empty

-----------------------------------------------------------------------------
(* Text with a cursor and the other end of a selection: EditorState and    *)
(* CliLocalState.                                                          *)

NoAnchor == -1
IsSelected(t) == t.anchor \notin {NoAnchor, t.cursor}
Low(t) == IF t.anchor < t.cursor THEN t.anchor ELSE t.cursor
High(t) == IF t.anchor < t.cursor THEN t.cursor ELSE t.anchor
selected_text(t) == IF IsSelected(t) THEN SubSeq(t.content, Low(t) + 1, High(t)) ELSE <<>>
Panics(t) == IsSelected(t) /\ High(t) > Len(t.content)

delete_selection(t) ==
    IF ~IsSelected(t) THEN t
    ELSE [t EXCEPT !.content = SubSeq(@, 1, Low(t)) \o SubSeq(@, High(t) + 1, Len(@)),
                   !.cursor = Low(t), !.anchor = NoAnchor]

Put(t, s) == [t EXCEPT !.content = SubSeq(@, 1, t.cursor) \o s
                                       \o SubSeq(@, t.cursor + 1, Len(@)),
                       !.cursor = @ + Len(s)]
Take(t) == IF t.cursor = 0 THEN t
           ELSE [t EXCEPT !.content = RemoveAt(@, t.cursor), !.cursor = @ - 1]

\* The editor keeps an anchor that selects nothing; the Cli drops it.
insert_str(t, s) == Put(delete_selection(t), s)
backspace(t) == IF IsSelected(t) THEN delete_selection(t) ELSE Take(t)

\* Mutant: the Cli keeps an anchor that selects nothing, as the editor does.
CliDeleteKeepsAnchor(t) == delete_selection(t)

cli_delete_selection(t) == [delete_selection(t) EXCEPT !.anchor = NoAnchor]
cli_insert(t, s) == Put(cli_delete_selection(t), s)
cli_backspace(t) == IF IsSelected(t) THEN delete_selection(t)
                    ELSE Take(cli_delete_selection(t))

select_all(t) == [t EXCEPT !.anchor = 0, !.cursor = Len(t.content)]
cli_select_all(t) == IF t.content = <<>> THEN [t EXCEPT !.anchor = NoAnchor]
                     ELSE select_all(t)

handle_ime_commit(t, s) == [cli_insert(t, s) EXCEPT !.preedit = <<>>]
\* hangul.flush(), as the Cli does it: what was composed joins the line.
cli_flush(t) == [(IF hangul = Empty THEN t ELSE handle_ime_commit(t, Composed(hangul)))
                     EXCEPT !.preedit = <<>>]

EditorNew(w, s, at) == [window |-> w, content |-> s, cursor |-> at, anchor |-> NoAnchor]
NoEditor == EditorNew(0, <<>>, 0)
EditorOpen == editor.window # 0

NoRename == [target |-> None, buffer |-> <<>>]
Renaming == rename_input # NoRename
ToEditor == ~Renaming /\ EditorOpen
ToCli == ~Renaming /\ ~EditorOpen

-----------------------------------------------------------------------------
\* A record, some of whose fields have new values.
Changed(old, new) == [n \in DOMAIN old |-> IF n \in DOMAIN new THEN new[n] ELSE old[n]]

NoWindow == [status |-> "none", file |-> None, content |-> <<>>, focused |-> FALSE,
             dirty |-> FALSE, z |-> 0, moved |-> FALSE]
Opened(f, s, top) == [status |-> "open", file |-> f, content |-> s, focused |-> TRUE,
                      dirty |-> FALSE, z |-> top, moved |-> FALSE]

Init ==
    /\ korean \in BOOLEAN /\ hangul = Empty /\ preedit = FALSE
    /\ cli = [content |-> <<>>, cursor |-> 0, anchor |-> NoAnchor, preedit |-> <<>>]
    /\ editor = NoEditor /\ focus = 0
    /\ clipboard = <<>> /\ rename_input = NoRename /\ drag = <<"none">>
    /\ crashed = FALSE
    /\ files = [f \in File |-> [live |-> f \in Files, content |-> Name]]
    /\ selected = None
    /\ windows = [w \in Window |-> IF w = 1 THEN Opened(CHOOSE f \in Files : TRUE, Name, 1)
                                  ELSE NoWindow]
    /\ mirror = [p \in Window \cup {Explorer} |->
                    IF p = Explorer THEN [rows |-> Files, selected |-> None] ELSE windows[p]]
    /\ invokes = <<>> /\ news = <<>>
    /\ used = 0

\* The channel is written with try_send: what finds it full is dropped.
Send(m) == invokes' = IF Len(invokes) < UiCap THEN Append(invokes, m) ELSE invokes
Invoke(method, target, arg) == [method |-> method, target |-> target, arg |-> arg]

\* The next event of the keyboard or the mouse; a press counts its release.
Event == ~crashed /\ used < MaxEvents /\ used' = used + 1

\* A key of the editor leaves t, unless the text is sliced out of its range.
Edits(t, h, p) ==
    /\ ToEditor
    /\ IF Panics(editor) THEN crashed' = TRUE /\ UNCHANGED <<editor, hangul, preedit>>
       ELSE /\ editor' = t /\ hangul' = h /\ preedit' = p
            /\ UNCHANGED crashed
    /\ UNCHANGED <<korean, cli, focus, rename_input, drag>>

\* A key that ends the syllable and slices nothing.
Leaves(t) ==
    /\ ToEditor
    /\ editor' = t /\ hangul' = Empty /\ preedit' = FALSE
    /\ UNCHANGED <<korean, cli, focus, rename_input, drag, crashed>>

Types(t, h) ==
    /\ ToCli
    /\ cli' = t /\ hangul' = h
    /\ UNCHANGED <<korean, preedit, editor, focus, rename_input, drag, crashed>>

-----------------------------------------------------------------------------
(* Keys.  A box for a new name takes them first, then an open editor, then *)
(* the command line.                                                       *)

\* A letter key in Korean mode.  (In English mode it types like KeyPlain.)
EditorJamo(l) ==
    LET out == input_jamo(hangul, l)
        t == insert_str(IF preedit THEN backspace(editor) ELSE editor, out.committed)
    IN  Edits(insert_str(t, Composed(out.state)), out.state, TRUE)

CliJamo(l) ==
    LET out == input_jamo(hangul, l)
        t == IF hangul = Empty THEN cli_delete_selection(cli) ELSE cli
        done == IF out.committed = <<>> THEN t ELSE handle_ime_commit(t, out.committed)
    IN  Types([done EXCEPT !.preedit = Render(out.state)], out.state)

KeyJamo(l) ==
    /\ Event /\ korean
    /\ EditorJamo(l) \/ CliJamo(l)
    /\ UNCHANGED <<clipboard, shell, mirror, invokes, news>>

\* A key that types itself ends the syllable; the box takes letters as they are.
EditorPlain(c) == Edits(insert_str(editor, <<c>>), Empty, FALSE)
CliPlain(c) == Types(cli_insert(IF korean THEN cli_flush(cli) ELSE cli, <<c>>),
                     IF korean THEN Empty ELSE hangul)
RenamePlain(c) ==
    /\ Renaming
    /\ rename_input' = [rename_input EXCEPT !.buffer = Append(@, c)]
    /\ UNCHANGED <<korean, hangul, preedit, cli, editor, focus, drag, crashed>>

KeyPlain(p) ==
    /\ Event
    /\ EditorPlain(<<p>>) \/ CliPlain(<<p>>) \/ RenamePlain(<<p>>)
    /\ UNCHANGED <<clipboard, shell, mirror, invokes, news>>

EditorBackspace ==
    LET undone == hangul_backspace(hangul)
        t == IF preedit THEN backspace(editor) ELSE editor
    IN  IF ~korean THEN Edits(backspace(editor), hangul, preedit)
        ELSE IF hangul = Empty THEN Edits(backspace(t), Empty, FALSE)
        ELSE Edits(IF undone = Empty THEN t ELSE insert_str(t, Composed(undone)),
                   undone, undone # Empty)

CliBackspace ==
    IF ~korean THEN Types(cli_backspace(cli), hangul)
    ELSE IF hangul = Empty THEN Types([cli_backspace(cli) EXCEPT !.preedit = <<>>], hangul)
    ELSE LET undone == hangul_backspace(hangul)
         IN  Types([cli EXCEPT !.preedit = Render(undone)], undone)

RenameBackspace ==
    /\ Renaming /\ rename_input.buffer # <<>>
    /\ rename_input' = [rename_input EXCEPT !.buffer = Front(@)]
    /\ UNCHANGED <<korean, hangul, preedit, cli, editor, focus, drag, crashed>>

KeyBackspace ==
    /\ Event
    /\ EditorBackspace \/ CliBackspace \/ RenameBackspace
    /\ UNCHANGED <<clipboard, shell, mirror, invokes, news>>

\* submit_input takes the whole line; in English mode a preedit stays where it is.
CliEnter ==
    LET t == IF korean THEN cli_flush(cli) ELSE cli
    IN  /\ Types([t EXCEPT !.content = <<>>, !.anchor = NoAnchor,
                           !.cursor = IF t.content = <<>> THEN @ ELSE 0],
                 IF korean THEN Empty ELSE hangul)
        /\ Send(Invoke("submit_input", 0, t.content))

RenameEnter ==
    /\ Renaming
    /\ rename_input' = NoRename
    /\ Send(Invoke("rename_selected", 0, rename_input.buffer))
    /\ UNCHANGED <<korean, hangul, preedit, cli, editor, focus, drag, crashed>>

KeyEnter ==
    /\ Event
    /\ \/ Edits(insert_str(editor, << <<"\n">> >>), Empty, FALSE) /\ UNCHANGED invokes
       \/ CliEnter
       \/ RenameEnter
    /\ UNCHANGED <<clipboard, shell, mirror, news>>

\* Tab or the Hangul key; Esc only leaves the box.
KeyToggle ==
    /\ Event /\ ~Renaming
    /\ korean' = ~korean
    /\ hangul' = Empty
    /\ IF EditorOpen THEN preedit' = FALSE /\ UNCHANGED cli
       ELSE cli' = cli_flush(cli) /\ UNCHANGED preedit
    /\ UNCHANGED <<editor, focus, clipboard, rename_input, drag, crashed, shell,
                   mirror, invokes, news>>

KeyEsc ==
    /\ Event /\ Renaming
    /\ rename_input' = NoRename
    /\ UNCHANGED <<text, drag, crashed, shell, mirror, invokes, news>>

\* Ctrl+A, +C, +X, +V; what was being composed is taken as typed.
Copies(t) == clipboard' = IF IsSelected(t) /\ ~Panics(t) THEN selected_text(t) ELSE clipboard

CtrlKey ==
    /\ Event
    /\ \/ \/ Leaves(select_all(editor)) /\ UNCHANGED clipboard
          \/ Edits(editor, Empty, FALSE) /\ Copies(editor)
          \/ Edits(delete_selection(editor), Empty, FALSE) /\ Copies(editor)
          \/ /\ clipboard # <<>>
             /\ Edits(insert_str(editor, clipboard), Empty, FALSE) /\ UNCHANGED clipboard
       \/ LET t == cli_flush(cli)
          IN  \/ Types(cli_select_all(t), Empty) /\ UNCHANGED clipboard
              \/ Types(t, Empty) /\ Copies(t)
              \/ Types(IF IsSelected(t) THEN cli_delete_selection(t) ELSE t, Empty)
                    /\ Copies(t)
              \/ Types(cli_insert(t, clipboard), Empty) /\ UNCHANGED clipboard
    /\ UNCHANGED <<shell, mirror, invokes, news>>

CtrlS ==
    /\ Event
    /\ Leaves(editor)
    /\ Send(Invoke("save_to_file", editor.window, editor.content))
    /\ UNCHANGED <<clipboard, shell, mirror, news>>

-----------------------------------------------------------------------------
(* The mouse, and what a frame begins with.                                *)

Shown(w) == mirror[w].status = "open"   \* layout leaves destroyed ones out
Place(t) == 0..Len(t.content)

Press == ~crashed /\ drag = <<"none">> /\ used + 2 <= MaxEvents /\ used' = used + 2

\* Into the text of a window: the editor is there at once, and a selection begun.
PressContent(w) ==
    /\ Press /\ Shown(w)
    /\ LET ed == IF editor.window = w THEN editor
                 ELSE EditorNew(w, mirror[w].content, 0)
       IN  \E off \in Place(ed) :
              editor' = [ed EXCEPT !.cursor = off, !.anchor = off]
    /\ focus' = w
    /\ hangul' = Empty /\ preedit' = FALSE
    /\ drag' = <<"window">>
    /\ Send(Invoke("focus", w, None))
    /\ UNCHANGED <<korean, cli, clipboard, rename_input, crashed, shell, mirror, news>>

PressTitle(w) ==
    /\ Press /\ Shown(w)
    /\ drag' = <<"moving", w>>
    /\ Send(Invoke("focus", w, None))
    /\ UNCHANGED <<text, rename_input, crashed, shell, mirror, news>>

PressClose(w) ==
    /\ Press /\ Shown(w)
    /\ Send(Invoke("close_confirm", w, None))
    /\ UNCHANGED <<text, rename_input, drag, crashed, shell, mirror, news>>

\* Into the Cli: on the line a selection begins, above it the lines are dragged.
\* What was composed joins the line, unless it was composed in an editor.
PressCli ==
    /\ Press
    /\ focus' = 0
    /\ hangul' = Empty
    /\ preedit' = IF focus # 0 THEN FALSE ELSE preedit
    /\ LET t == IF focus # 0 THEN cli ELSE cli_flush(cli)
       IN  \/ /\ \E off \in Place(t) : cli' = [t EXCEPT !.cursor = off, !.anchor = off]
             /\ drag' = <<"cli">>
          \/ /\ cli' = [t EXCEPT !.anchor = NoAnchor]
             /\ drag' = <<"scroll">>
    /\ UNCHANGED <<korean, editor, clipboard, rename_input, crashed, shell, mirror,
                   invokes, news>>

\* A row of the explorer: one click selects the file, two open it.
PressRow(f) ==
    /\ Press /\ f \in mirror[Explorer].rows
    /\ Send(Invoke("select", 0, f)) \/ Send(Invoke("open_file", 0, f))
    /\ UNCHANGED <<text, rename_input, drag, crashed, shell, mirror, news>>

PressRename ==
    /\ Press /\ mirror[Explorer].selected # None
    /\ rename_input' = [target |-> mirror[Explorer].selected, buffer |-> Name]
    /\ UNCHANGED <<text, drag, crashed, shell, mirror, invokes, news>>

\* The pointer moves while the button is held; on the line, also as it is let go.
DragTo ==
    \/ /\ drag = <<"cli">>
       /\ \E off \in Place(cli) : cli' = [cli EXCEPT !.cursor = off]
       /\ UNCHANGED editor
    \/ /\ drag = <<"window">> /\ EditorOpen
       /\ \E off \in Place(editor) : editor' = [editor EXCEPT !.cursor = off]
       /\ UNCHANGED cli

Drag ==
    /\ Event /\ DragTo
    /\ UNCHANGED <<korean, hangul, preedit, focus, clipboard, rename_input, drag,
                   crashed, shell, mirror, invokes, news>>

Release ==
    /\ ~crashed /\ drag # <<"none">>
    /\ drag' = <<"none">>
    /\ IF drag = <<"cli">> THEN DragTo ELSE UNCHANGED <<cli, editor>>
    /\ IF drag[1] = "moving" THEN Send(Invoke("move", drag[2], None))
                              ELSE UNCHANGED invokes
    /\ UNCHANGED <<korean, hangul, preedit, focus, clipboard, rename_input, crashed,
                   shell, mirror, news, used>>

\* Every frame first makes the editor that of the focused window.  A window that
\* was closed is still an object of the mirror, and keeps its editor.
Frame ==
    LET w == focus
    IN  /\ ~crashed /\ editor.window # w
        /\ editor' = IF w = 0 THEN NoEditor
                     ELSE EditorNew(w, mirror[w].content, Len(mirror[w].content))
        /\ UNCHANGED <<korean, hangul, preedit, cli, focus, clipboard, rename_input,
                       drag, crashed, shell, mirror, invokes, news, used>>

-----------------------------------------------------------------------------
(* The shell: window_methods.rs and the explorer.                          *)

Open(w) == windows[w].status = "open"
max_z == CHOOSE z \in {0} \cup {windows[w].z : w \in Window} :
            \A w \in Window : Open(w) => windows[w].z <= z
Live == {f \in File : files[f].live}

\* What a handler says: of each window it changed, and of the Explorer, the
\* new values of the fields it changed.
Broadcast(said) == news' = Append(news, said)
SaysOf(p, new) == Broadcast([q \in {p} |-> new])
OpenWindows == {w \in Window : Open(w)}

\* Mutant: the window is brought to the top, not above it.
FocusAtTop(t) ==
    LET top == max_z
        Becomes(w) == IF w = t THEN [focused |-> TRUE, z |-> top] ELSE [focused |-> FALSE]
    IN  /\ windows' = [w \in Window |-> IF Open(w) THEN Changed(windows[w], Becomes(w)) ELSE windows[w]]
        /\ Broadcast([w \in OpenWindows |-> Becomes(w)])
        /\ UNCHANGED <<files, selected>>

\* focus, and open_file of a file that already has a window.
handle_focus(t) ==
    LET top == max_z + 1
        Becomes(w) == IF w = t THEN [focused |-> TRUE, z |-> top] ELSE [focused |-> FALSE]
    IN  /\ windows' = [w \in Window |-> IF Open(w) THEN Changed(windows[w], Becomes(w)) ELSE windows[w]]
        /\ Broadcast([w \in OpenWindows |-> Becomes(w)])
        /\ UNCHANGED <<files, selected>>

handle_close_confirm(w) ==
    /\ IF windows[w].dirty THEN UNCHANGED <<windows, news>>
       ELSE /\ windows' = [windows EXCEPT ![w] = [NoWindow EXCEPT !.status = "closed"]]
            /\ SaysOf(w, [status |-> "closed"])
    /\ UNCHANGED <<files, selected>>

\* Mutant: what was saved is not said, only that nothing is unsaved.
SaveSaysClean(w, content) ==
    /\ \/ /\ Open(w) /\ files[windows[w].file].live
          /\ files' = [files EXCEPT ![windows[w].file].content = content]
          /\ windows' = [windows EXCEPT ![w].dirty = FALSE, ![w].content = content]
          /\ SaysOf(w, [dirty |-> FALSE])
       \/ UNCHANGED <<files, windows, news>>
    /\ UNCHANGED selected

\* Nothing happens without a window or its file's path, or when the write fails.
handle_save_to_file(w, content) ==
    /\ \/ /\ Open(w) /\ files[windows[w].file].live
          /\ files' = [files EXCEPT ![windows[w].file].content = content]
          /\ windows' = [windows EXCEPT ![w].dirty = FALSE, ![w].content = content]
          /\ SaysOf(w, [dirty |-> FALSE, content |-> content])
       \/ UNCHANGED <<files, windows, news>>
    /\ UNCHANGED selected

handle_move(w) ==
    /\ windows' = IF Open(w) THEN [windows EXCEPT ![w].moved = TRUE] ELSE windows
    /\ SaysOf(w, [moved |-> TRUE])
    /\ UNCHANGED <<files, selected>>

WindowsOf(f) == {w \in Window : Open(w) /\ windows[w].file = f}
MountWindow(f) ==
    LET w == CHOOSE v \in Window : /\ windows[v].status = "none"
                                   /\ \A u \in 1..(v - 1) : windows[u].status # "none"
        new == Opened(f, IF files[f].live THEN files[f].content ELSE <<>>, max_z + 1)
    IN  /\ \E v \in Window : windows[v].status = "none"          \* MaxWindows
        /\ windows' = [v \in Window |-> IF v = w THEN new
                                        ELSE IF Open(v) THEN [windows[v] EXCEPT !.focused = FALSE]
                                        ELSE windows[v]]
        /\ Broadcast([v \in OpenWindows \cup {w} |-> IF v = w THEN new ELSE [focused |-> FALSE]])
        /\ UNCHANGED <<files, selected>>

handle_open_file(f) ==
    IF WindowsOf(f) = {} THEN MountWindow(f)
    ELSE handle_focus(CHOOSE w \in WindowsOf(f) : \A v \in WindowsOf(f) : w <= v)

handle_select(f) ==
    /\ selected' = f
    /\ SaysOf(Explorer, [selected |-> f])
    /\ UNCHANGED <<windows, files>>

\* The item selected by now is renamed: its object goes, a new one is mounted.
handle_rename_selected(name) ==
    \/ /\ name # <<>> /\ selected \in Live /\ ~files[NewFile].live
       /\ files' = [files EXCEPT ![selected] = [live |-> FALSE, content |-> Name],
                                 ![NewFile] = [files[selected] EXCEPT !.live = TRUE]]
       /\ selected' = None
       /\ SaysOf(Explorer, [rows |-> (Live \cup {NewFile}) \ {selected}, selected |-> None])
       /\ UNCHANGED windows
    \/ UNCHANGED <<shell, news>>       \* refused, or the rename failed

HandleInvoke ==
    LET m == Head(invokes)
    IN  /\ invokes # <<>>
        /\ invokes' = Tail(invokes)
        /\ \/ m.method = "focus" /\ handle_focus(m.target)
           \/ m.method = "close_confirm" /\ handle_close_confirm(m.target)
           \/ m.method = "save_to_file" /\ handle_save_to_file(m.target, m.arg)
           \/ m.method = "move" /\ handle_move(m.target)
           \/ m.method = "open_file" /\ handle_open_file(m.arg)
           \/ m.method = "select" /\ handle_select(m.arg)
           \/ m.method = "rename_selected" /\ handle_rename_selected(m.arg)
           \/ m.method = "submit_input" /\ UNCHANGED <<shell, news>>
        /\ UNCHANGED <<ui, mirror, used>>

\* The mirror takes what one handler said.  (In the code it arrives field by
\* field; no click reads two of them.)
Heard(said) == [p \in DOMAIN mirror |-> IF p \in DOMAIN said THEN Changed(mirror[p], said[p])
                                        ELSE mirror[p]]
Hear ==
    /\ news # <<>>
    /\ news' = Tail(news)
    /\ mirror' = Heard(Head(news))
    /\ UNCHANGED <<ui, shell, invokes, used>>

Next ==
    \/ \E l \in Jamo : KeyJamo(l)
    \/ \E p \in Plain : KeyPlain(p)
    \/ KeyBackspace \/ KeyEnter \/ KeyToggle \/ KeyEsc \/ CtrlKey \/ CtrlS
    \/ \E w \in Window : PressContent(w) \/ PressTitle(w) \/ PressClose(w)
    \/ PressCli \/ (\E f \in File : PressRow(f)) \/ PressRename
    \/ Drag \/ Release \/ Frame
    \/ HandleInvoke \/ Hear

Spec == Init /\ [][Next]_vars

-----------------------------------------------------------------------------
(* Properties.                                                             *)

\* The text keys go to, in letters, before and after the cursor.  The syllable
\* being composed counts as typed: in the Cli it is kept beside the line.
Target == IF EditorOpen THEN editor ELSE cli
Before == FlattenSeq(SubSeq(Target.content, 1, Target.cursor))
              \o (IF EditorOpen THEN <<>> ELSE Render(hangul))
After == FlattenSeq(SubSeq(Target.content, Target.cursor + 1, Len(Target.content)))

\* Nothing is selected but the syllable being composed, which is at the cursor.
\* A selection that was dragged back to where it began selects nothing either,
\* but the next letter does: with the syllable before it gone, it replaces
\* another character.
InPlace == preedit /\ Target.cursor > 0 /\ Target.content[Target.cursor] = Render(hangul)
Unselected ==
    /\ IsSelected(Target) => EditorOpen /\ InPlace /\ Target.anchor = Target.cursor - 1
    /\ EditorOpen => \/ InPlace /\ Target.anchor # Target.cursor
                     \/ hangul = Empty /\ ~preedit

\* A letter adds itself to the text, at the cursor, and changes no other letter,
\* however the syllables are divided anew (hangul.rs input_jamo with the in-place
\* preedit of the editor and the separate one of the Cli).
LettersAdd ==
    [][\A l \in Jamo :
          KeyJamo(l) /\ Unselected =>
              Before' = Append(Before, l) /\ After' = After]_vars

\* Backspace takes back the last letter of the syllable being composed and leaves
\* the rest; of a vowel without a consonant it takes all (hangul.rs backspace).
BackspaceTakesBack ==
    [][KeyBackspace /\ korean /\ ~Renaming /\ hangul # Empty /\ Unselected =>
          /\ After' = After
          /\ Before' = IF hangul.cho = <<>>
                       THEN SubSeq(Before, 1, Len(Before) - Len(hangul.jung))
                       ELSE Front(Before)]_vars

Char == Seq(Jamo \cup Plain \cup {"x", "\n"})
Anchors == Nat \cup {NoAnchor}
Windows == [status : {"none", "open", "closed"}, file : File \cup {None}, content : Seq(Char),
            focused : BOOLEAN, dirty : BOOLEAN, z : Nat, moved : BOOLEAN]
Explorers == [rows : SUBSET File, selected : File \cup {None}]
Saids(p) ==
    IF p = Explorer THEN Explorers \cup [selected : File]
    ELSE Windows \cup [focused : {TRUE}, z : Nat] \cup [focused : {FALSE}]
         \cup [status : {"closed"}] \cup [dirty : {FALSE}, content : Seq(Char)]
         \cup [moved : {TRUE}]
Actions == [method : {"focus", "close_confirm", "move"}, target : Window, arg : {None}]
    \cup [method : {"save_to_file"}, target : Window, arg : Seq(Char)]
    \cup [method : {"select", "open_file"}, target : {0}, arg : File]
    \cup [method : {"rename_selected", "submit_input"}, target : {0}, arg : Seq(Char)]

TypeOK ==
    /\ korean \in BOOLEAN /\ preedit \in BOOLEAN /\ crashed \in BOOLEAN
    /\ hangul \in [cho : Char, jung : Char, jong : Char]
    /\ cli \in [content : Seq(Char), cursor : Nat, anchor : Anchors, preedit : Char]
    /\ editor \in [window : Window \cup {0}, content : Seq(Char), cursor : Nat, anchor : Anchors]
    /\ focus \in Window \cup {0} /\ clipboard \in Seq(Char)
    /\ rename_input \in [target : File \cup {None}, buffer : Seq(Char)]
    /\ drag \in {<<"none">>, <<"window">>, <<"cli">>, <<"scroll">>} \cup {<<"moving", w>> : w \in Window}
    /\ files \in [File -> [live : BOOLEAN, content : Seq(Char)]]
    /\ selected \in File \cup {None} /\ windows \in [Window -> Windows]
    /\ DOMAIN mirror = Window \cup {Explorer} /\ mirror[Explorer] \in Explorers
    /\ \A w \in Window : mirror[w] \in Windows
    /\ invokes \in Seq(Actions) /\ Len(invokes) <= UiCap
    /\ \A i \in DOMAIN news : /\ DOMAIN news[i] \subseteq Window \cup {Explorer}
                              /\ \A p \in DOMAIN news[i] : news[i][p] \in Saids(p)

\* Cursor and anchor of the command line always lie in it, so no key slices it
\* out of its range, whatever was selected, typed, pasted or submitted before.
CliInRange ==
    /\ TypeOK
    /\ cli.cursor \in Place(cli)
    /\ cli.anchor \in {NoAnchor} \cup Place(cli)

\* The shell has at most one focused Window, and it lies above all others: keys
\* and the topmost place go together (handle_focus, handle_open_file, close).
FocusedOnTop ==
    \A w, v \in Window :
        Open(w) /\ windows[w].focused /\ Open(v) /\ v # w =>
            ~windows[v].focused /\ windows[v].z < windows[w].z

\* When all messages have arrived, the mirror shows the shell's windows and rows:
\* no handler changes its own copy and forgets to say so.
MirrorAgrees ==
    news = <<>> =>
        /\ \A w \in Window : /\ mirror[w].status = windows[w].status
                             /\ Open(w) => mirror[w] = windows[w]
        /\ mirror[Explorer].rows = Live /\ mirror[Explorer].selected = selected

\* Contradicted by the code: closing a Window whose text was edited and not saved
\* is refused (window_methods.rs handle_close_confirm).  The shell's copy of
\* `dirty` is never TRUE.
Unsaved(w) == editor.window = w /\ Open(w) /\ editor.content # windows[w].content
UnsavedIsKept ==
    [][\A w \in Window : Unsaved(w) => windows'[w].status # "closed"]_vars
=============================================================================
