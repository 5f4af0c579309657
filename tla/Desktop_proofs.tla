---------------------------- MODULE Desktop_proofs ----------------------------
(***************************************************************************)
(* Proofs about the two modules of the desktop: what keys, clicks and      *)
(* window handlers do (Editing), and the shell's picture of the file       *)
(* system (ShellTree).  They share no state.                               *)
(***************************************************************************)
EXTENDS Editing, ShellTree, SequenceTheorems, FiniteSetTheorems,
        WellFoundedInduction, TLAPS

-----------------------------------------------------------------------------
(***************************************************************************)
(* Editing.  Cursor and anchor stay in the command line (CliInRange), the  *)
(* focused window lies on top (FocusedOnTop), the compositor's copy of the *)
(* windows becomes the shell's (MirrorAgrees), no letter typed in Hangul   *)
(* is lost (LettersAdd), and Backspace takes one back (BackspaceTakesBack).*)
(***************************************************************************)

(* Numbers: a nonempty set of them has a smallest, a bounded one a largest.  *)

LEMMA NatOrder == \E R : IsWellFoundedOn(R, Nat) /\ \A x, y \in Nat : x < y => <<x, y>> \in R
<1> DEFINE R == OpToRel(<, Nat)
<1>1. IsWellFoundedOn(R, Nat)
  BY NatLessThanWellFounded, Zenon
<1>2. \A x, y \in Nat : x < y => <<x, y>> \in R
  BY DEF OpToRel
<1> HIDE DEF R
<1>3. QED
  BY <1>1, <1>2, Zenon

LEMMA Smallest ==
  ASSUME NEW T, T \subseteq Nat, T # {}
  PROVE  \E n \in T : \A m \in T : n <= m
<1>1. PICK R : IsWellFoundedOn(R, Nat) /\ \A x, y \in Nat : x < y => <<x, y>> \in R
  BY NatOrder
<1>2. \E n \in T : \A m \in T : ~(<<m, n>> \in R)
  <2>1. IsWellFoundedOn(R, Nat)
    BY <1>1, Zenon
  <2>2. \A S, U : IsWellFoundedOn(R, S) /\ U \subseteq S /\ U # {} =>
                    \E x \in U : \A y \in U : ~(<<y, x>> \in R)
    BY WFMin
  <2>3. QED
    BY <2>1, <2>2
<1>3. PICK n \in T : \A m \in T : ~(<<m, n>> \in R)
  BY <1>2
<1>4. \A m \in T : m \in Nat /\ n \in Nat /\ ~(m < n)
  BY <1>1, <1>3, Zenon
<1>5. \A m \in T : n <= m
  <2>1. ASSUME NEW m \in T PROVE n <= m
    BY <1>4
  <2>2. QED
    BY <2>1
<1>6. QED
  BY <1>5

LEMMA Largest ==
  ASSUME NEW T, T \subseteq Nat, T # {}, NEW b \in Nat, \A m \in T : m <= b
  PROVE  \E n \in T : \A m \in T : m <= n
<1> DEFINE U == {n \in Nat : \A m \in T : m <= n}
<1>1. PICK n \in U : \A m \in U : n <= m
  <2>1. U \subseteq Nat /\ b \in U
    OBVIOUS
  <2>2. QED
    BY <2>1, Smallest
<1>2. ASSUME n \notin T PROVE FALSE
  <2>1. \A m \in T : m \in Nat /\ m < n
    BY <1>1, <1>2
  <2>2. n # 0
    <3>1. PICK m : m \in T
      OBVIOUS
    <3>2. QED
      BY <2>1, <3>1
  <2>3. n - 1 \in U
    BY <1>1, <2>1, <2>2
  <2>4. QED
    BY <1>1, <2>3
<1>3. QED
  BY <1>1, <1>2

(* Sequences.                                                                *)
LEMMA AppendFacts ==
  ASSUME NEW S, NEW q \in Seq(S), NEW x \in S
  PROVE  /\ Append(q, x) \in Seq(S) /\ Len(Append(q, x)) = Len(q) + 1
         /\ DOMAIN Append(q, x) = 1 .. Len(q) + 1 /\ Append(q, x)[Len(q) + 1] = x
         /\ \A i \in 1 .. Len(q) : Append(q, x)[i] = q[i]
OBVIOUS

LEMMA TailFacts ==
  ASSUME NEW S, NEW q \in Seq(S), q # <<>>
  PROVE  /\ Head(q) \in S /\ Head(q) = q[1] /\ Tail(q) \in Seq(S)
         /\ Len(q) \in Nat /\ Len(q) >= 1 /\ Len(Tail(q)) = Len(q) - 1
         /\ DOMAIN q = 1 .. Len(q) /\ DOMAIN Tail(q) = 1 .. Len(q) - 1
         /\ \A i \in 1 .. Len(q) - 1 : Tail(q)[i] = q[i + 1]
OBVIOUS

LEMMA EmptyFacts ==
  /\ \A S : <<>> \in Seq(S)
  /\ Len(<<>>) = 0
  /\ \A S : \A q \in Seq(S) : Len(q) \in Nat /\ (q = <<>> <=> Len(q) = 0)
OBVIOUS

LEMMA ConcatFacts ==
  ASSUME NEW S, NEW p \in Seq(S), NEW q \in Seq(S)
  PROVE  p \o q \in Seq(S) /\ Len(p \o q) = Len(p) + Len(q) /\ Len(p \o q) \in Nat
BY ConcatProperties

(* The part before an offset, and the part after one.                        *)
LEMMA PartFacts ==
  ASSUME NEW S, NEW q \in Seq(S), NEW i \in Nat
  PROVE  /\ i <= Len(q) => SubSeq(q, 1, i) \in Seq(S) /\ Len(SubSeq(q, 1, i)) = i
         /\ SubSeq(q, i + 1, Len(q)) \in Seq(S)
         /\ Len(SubSeq(q, i + 1, Len(q))) = IF i <= Len(q) THEN Len(q) - i ELSE 0
         /\ q # <<>> => Front(q) \in Seq(S) /\ Last(q) \in S /\ Len(Front(q)) = Len(q) - 1
<1>1. /\ Len(q) \in Nat /\ q \in [1 .. Len(q) -> S]
      /\ q # <<>> => Len(q) # 0
  OBVIOUS
<1>2. ASSUME i <= Len(q) PROVE SubSeq(q, 1, i) \in Seq(S) /\ Len(SubSeq(q, 1, i)) = i
  <2>1. \A j \in 1 .. i : q[j] \in S
    BY <1>1, <1>2
  <2>2. QED
    BY <2>1, SubSeqProperties
<1>3. /\ SubSeq(q, i + 1, Len(q)) \in Seq(S)
      /\ Len(SubSeq(q, i + 1, Len(q))) = IF i <= Len(q) THEN Len(q) - i ELSE 0
  <2>1. \A j \in i + 1 .. Len(q) : q[j] \in S
    BY <1>1
  <2>2. i + 1 \in Int /\ Len(q) \in Int
    BY <1>1
  <2> DEFINE m == i + 1
             n == Len(q)
  <2> HIDE DEF m, n
  <2>3. SubSeq(q, m, n) \in Seq(S) /\ Len(SubSeq(q, m, n)) = IF m <= n THEN n - m + 1 ELSE 0
    <3>1. m \in Int /\ n \in Int /\ \A j \in m .. n : q[j] \in S
      BY <2>1, <2>2 DEF m, n
    <3>2. QED
      BY <3>1, SubSeqProperties
  <2>4. QED
    BY <1>1, <2>2, <2>3 DEF m, n
<1>4. ASSUME q # <<>> PROVE Front(q) \in Seq(S) /\ Last(q) \in S /\ Len(Front(q)) = Len(q) - 1
  <2>1. PICK n \in Nat : n = Len(q) - 1
    <3>1. Len(q) \in Nat /\ Len(q) # 0
      BY <1>1, <1>4
    <3>2. Len(q) - 1 \in Nat
      BY <3>1
    <3>3. QED
      BY <3>2
  <2>2. \A j \in 1 .. n : q[j] \in S
    BY <1>1, <2>1
  <2>3. SubSeq(q, 1, n) \in Seq(S) /\ Len(SubSeq(q, 1, n)) = n
    BY <2>1, <2>2, SubSeqProperties
  <2>4. QED
    BY <1>1, <1>4, <2>1, <2>3 DEF Front, Last
<1>5. QED
  BY <1>2, <1>3, <1>4

-----------------------------------------------------------------------------
(* Text with a cursor.                                                       *)

EditorTexts == [window : Window \cup {0}, content : Seq(Char), cursor : Nat, anchor : Anchors]
CliTexts    == [content : Seq(Char), cursor : Nat, anchor : Anchors, preedit : Char]
TextTypes   == {EditorTexts, CliTexts}
AtPlace(t)  == t.cursor \in Place(t)
CliOK(t)    == t \in CliTexts /\ AtPlace(t) /\ t.anchor \in {NoAnchor} \cup Place(t)

LEMMA TextParts ==
  ASSUME NEW T \in TextTypes, NEW t \in T
  PROVE  t.content \in Seq(Char) /\ t.cursor \in Nat /\ t.anchor \in Nat \cup {-1}
<1>1. CASE T = EditorTexts
  BY <1>1 DEF EditorTexts, Anchors, NoAnchor
<1>2. CASE T = CliTexts
  BY <1>2 DEF CliTexts, Anchors, NoAnchor
<1>3. QED
  BY <1>1, <1>2 DEF TextTypes

Reads(t, T, c, k, a) == t \in T /\ t.content = c /\ t.cursor = k /\ t.anchor = a
TextOf(t, c, k, a) == [t EXCEPT !.content = c, !.cursor = k, !.anchor = a]

LEMMA TextChanged ==
  ASSUME NEW T \in TextTypes, NEW t \in T,
         NEW c \in Seq(Char), NEW k \in Nat, NEW a \in Anchors
  PROVE  Reads(TextOf(t, c, k, a), T, c, k, a)
<1>1. CASE T = EditorTexts
  BY <1>1 DEF EditorTexts, TextOf, Reads
<1>2. CASE T = CliTexts
  BY <1>2 DEF CliTexts, TextOf, Reads
<1>3. QED
  BY <1>1, <1>2 DEF TextTypes

LEMMA DeleteFacts ==
  ASSUME NEW T \in TextTypes, NEW t \in T, AtPlace(t)
  PROVE  LET d == delete_selection(t)
         IN  /\ d \in T /\ AtPlace(d)
             /\ IF IsSelected(t) THEN d.anchor = NoAnchor ELSE d = t
<1>1. CASE ~IsSelected(t)
  BY <1>1 DEF delete_selection
<1>2. CASE IsSelected(t)
  <2>1. /\ t.content \in Seq(Char) /\ t.cursor \in Nat /\ t.anchor \in Nat /\ Len(t.content) \in Nat
        /\ t.cursor <= Len(t.content)
    BY <1>2, TextParts DEF IsSelected, NoAnchor, AtPlace, Place
  <2>2. PICK lo \in Nat, hi \in Nat : lo = Low(t) /\ hi = High(t) /\ lo <= t.cursor
    BY <2>1 DEF Low, High
  <2>3. /\ SubSeq(t.content, 1, lo) \in Seq(Char) /\ Len(SubSeq(t.content, 1, lo)) = lo
        /\ SubSeq(t.content, hi + 1, Len(t.content)) \in Seq(Char)
    BY <2>1, <2>2, PartFacts
  <2>4. PICK c \in Seq(Char) : /\ c = SubSeq(t.content, 1, lo) \o SubSeq(t.content, hi + 1, Len(t.content))
                               /\ Len(c) \in Nat /\ lo <= Len(c)
    <3>1. PICK p \in Seq(Char), q \in Seq(Char) :
            p = SubSeq(t.content, 1, lo) /\ q = SubSeq(t.content, hi + 1, Len(t.content)) /\ Len(p) = lo
      BY <2>3
    <3>2. p \o q \in Seq(Char) /\ Len(p \o q) \in Nat /\ lo <= Len(p \o q)
      <4>1. p \o q \in Seq(Char) /\ Len(p \o q) = lo + Len(q) /\ Len(p \o q) \in Nat
        BY <3>1, ConcatFacts
      <4>2. Len(q) \in Nat
        BY EmptyFacts
      <4>3. QED
        BY <4>1, <4>2
    <3>3. QED
      BY <3>1, <3>2
  <2>5. delete_selection(t) = TextOf(t, c, lo, NoAnchor)
    BY <1>2, <2>2, <2>4 DEF delete_selection, TextOf
  <2>6. NoAnchor \in Anchors
    BY DEF Anchors
  <2>7. PICK u \in T : /\ u = TextOf(t, c, lo, NoAnchor)
                       /\ u.content = c /\ u.cursor = lo /\ u.anchor = NoAnchor
    <3>1. Reads(TextOf(t, c, lo, NoAnchor), T, c, lo, NoAnchor)
      BY <2>6, TextChanged, Zenon
    <3>2. QED
      BY <3>1 DEF Reads
  <2>8. delete_selection(t) = u
    BY <2>5, <2>7, Zenon
  <2>9. u.cursor \in 0 .. Len(u.content)
    <3>1. lo \in 0 .. Len(c)
      <4>1. Len(c) \in Nat /\ lo <= Len(c)
        BY <2>4, Zenon
      <4>2. QED
        BY <4>1
    <3>2. QED
      BY <2>7, <3>1, Zenon
  <2>10. QED
    BY <1>2, <2>7, <2>8, <2>9, Zenon DEF AtPlace, Place
<1>3. QED
  BY <1>1, <1>2

LEMMA PutFacts ==
  ASSUME NEW T \in TextTypes, NEW t \in T, AtPlace(t), NEW s \in Seq(Char)
  PROVE  LET u == Put(t, s)
         IN  /\ u \in T /\ AtPlace(u) /\ u.anchor = t.anchor
             /\ Len(t.content) <= Len(u.content)
<1>1. /\ t.content \in Seq(Char) /\ t.cursor \in Nat /\ t.anchor \in Anchors /\ Len(t.content) \in Nat
      /\ t.cursor <= Len(t.content) /\ Len(s) \in Nat
  BY TextParts DEF AtPlace, Place, Anchors, NoAnchor
<1>2. PICK pre \in Seq(Char), post \in Seq(Char) :
        /\ pre = SubSeq(t.content, 1, t.cursor) /\ Len(pre) = t.cursor
        /\ post = SubSeq(t.content, t.cursor + 1, Len(t.content)) /\ Len(post) = Len(t.content) - t.cursor
  <2>1. /\ SubSeq(t.content, 1, t.cursor) \in Seq(Char) /\ Len(SubSeq(t.content, 1, t.cursor)) = t.cursor
        /\ SubSeq(t.content, t.cursor + 1, Len(t.content)) \in Seq(Char)
        /\ Len(SubSeq(t.content, t.cursor + 1, Len(t.content))) = Len(t.content) - t.cursor
    BY <1>1, PartFacts
  <2>2. QED
    BY <2>1
<1>3. PICK c \in Seq(Char) : /\ c = pre \o s \o post
                             /\ Len(c) = Len(t.content) + Len(s)
  <2>1. pre \o s \in Seq(Char) /\ Len(pre \o s) = t.cursor + Len(s)
    BY <1>2, ConcatFacts
  <2>2. (pre \o s) \o post \in Seq(Char) /\ Len((pre \o s) \o post) = t.cursor + Len(s) + (Len(t.content) - t.cursor)
    BY <1>2, <2>1, ConcatFacts
  <2>3. pre \o s \o post \in Seq(Char) /\ Len(pre \o s \o post) = Len(t.content) + Len(s)
    BY <1>1, <2>2
  <2>4. QED
    BY <2>3
<1>4. PICK k \in Nat : k = t.cursor + Len(s)
  BY <1>1
<1>5. Put(t, s) = TextOf(t, c, k, t.anchor)
  BY <1>1, <1>2, <1>3, <1>4 DEF Put, TextOf, EditorTexts, CliTexts
<1>6. PICK u \in T : u = TextOf(t, c, k, t.anchor) /\ Reads(u, T, c, k, t.anchor)
  <2>1. Reads(TextOf(t, c, k, t.anchor), T, c, k, t.anchor)
    BY <1>1, TextChanged, Zenon
  <2>2. TextOf(t, c, k, t.anchor) \in T
    BY <2>1 DEF Reads
  <2>3. QED
    BY <2>1, <2>2, Zenon
<1>7. Put(t, s) = u
  BY <1>5, <1>6, Zenon
<1>8. u.cursor \in 0 .. Len(u.content) /\ Len(t.content) <= Len(u.content) /\ u.anchor = t.anchor
  BY <1>1, <1>3, <1>4, <1>6 DEF Reads
<1>9. QED
  BY <1>6, <1>7, <1>8, Zenon DEF AtPlace, Place

LEMMA TakeFacts ==
  ASSUME NEW T \in TextTypes, NEW t \in T, AtPlace(t)
  PROVE  LET u == Take(t)
         IN  u \in T /\ AtPlace(u) /\ u.anchor = t.anchor
<1>1. /\ t.content \in Seq(Char) /\ t.cursor \in Nat /\ t.anchor \in Anchors /\ Len(t.content) \in Nat
      /\ t.cursor <= Len(t.content)
  BY TextParts DEF AtPlace, Place, Anchors, NoAnchor
<1>2. CASE t.cursor = 0
  BY <1>2 DEF Take
<1>3. CASE t.cursor # 0
  <2>1. PICK k \in Nat : k = t.cursor - 1 /\ k <= Len(t.content)
    BY <1>1, <1>3
  <2>2. /\ SubSeq(t.content, 1, k) \in Seq(Char) /\ Len(SubSeq(t.content, 1, k)) = k
        /\ SubSeq(t.content, t.cursor + 1, Len(t.content)) \in Seq(Char)
    BY <1>1, <2>1, PartFacts
  <2>3. PICK c \in Seq(Char) : c = RemoveAt(t.content, t.cursor) /\ Len(c) \in Nat /\ k <= Len(c)
    <3>1. PICK a \in Seq(Char), b \in Seq(Char) :
            a = SubSeq(t.content, 1, k) /\ b = SubSeq(t.content, t.cursor + 1, Len(t.content)) /\ Len(a) = k
      BY <2>2
    <3>2. a \o b \in Seq(Char) /\ Len(a \o b) \in Nat /\ k <= Len(a \o b)
      <4>1. a \o b \in Seq(Char) /\ Len(a \o b) = k + Len(b) /\ Len(a \o b) \in Nat
        BY <3>1, ConcatFacts
      <4>2. Len(b) \in Nat
        BY EmptyFacts
      <4>3. QED
        BY <4>1, <4>2
    <3>3. RemoveAt(t.content, t.cursor) = a \o b
      BY <2>1, <3>1 DEF RemoveAt
    <3>4. QED
      BY <3>2, <3>3
  <2>4. Take(t) = TextOf(t, c, k, t.anchor)
    BY <1>1, <1>3, <2>1, <2>3 DEF Take, TextOf, EditorTexts, CliTexts
  <2>5. PICK u \in T : /\ u = TextOf(t, c, k, t.anchor)
                       /\ u.content = c /\ u.cursor = k /\ u.anchor = t.anchor
    <3>1. Reads(TextOf(t, c, k, t.anchor), T, c, k, t.anchor)
      BY <1>1, TextChanged, Zenon
    <3>2. QED
      BY <3>1 DEF Reads
  <2>6. Take(t) = u
    BY <2>4, <2>5, Zenon
  <2>7. u.cursor \in 0 .. Len(u.content)
    BY <2>1, <2>3, <2>5
  <2>8. QED
    BY <2>5, <2>6, <2>7, Zenon DEF AtPlace, Place
<1>4. QED
  BY <1>2, <1>3

-----------------------------------------------------------------------------
(* Syllables.                                                                *)

Letters   == Jamo \cup Plain \cup {"x", "\n"}
Syllables == [cho : Char, jung : Char, jong : Char]

LEMMA OneFacts ==
  ASSUME NEW S, NEW x \in S
  PROVE  <<x>> \in Seq(S) /\ Len(<<x>>) = 1
OBVIOUS

LEMMA CharFacts ==
  /\ Char = Seq(Letters) /\ <<>> \in Char
  /\ \A l \in Letters : <<l>> \in Char
  /\ \A c \in Char : << c >> \in Seq(Char)
  /\ \A c \in Char : c # <<>> => Last(c) \in Letters /\ Front(c) \in Char
  /\ \A c \in Char : \A l \in Letters : Append(c, l) \in Char
  /\ \A c, d \in Char : c \o d \in Char
<1>1. Char = Seq(Letters)
  BY DEF Char, Letters
<1>2. <<>> \in Char
  BY <1>1
<1>3. ASSUME NEW l \in Letters PROVE <<l>> \in Char
  BY <1>1, OneFacts
<1>4. ASSUME NEW c \in Char PROVE << c >> \in Seq(Char)
  BY OneFacts
<1>5. ASSUME NEW c \in Char, c # <<>> PROVE Last(c) \in Letters /\ Front(c) \in Char
  <2>1. c \in Seq(Letters) /\ 0 \in Nat
    BY <1>1
  <2>2. QED
    BY <1>1, <1>5, <2>1, PartFacts
<1>6. ASSUME NEW c \in Char, NEW l \in Letters PROVE Append(c, l) \in Char
  BY <1>1, AppendFacts
<1>7. ASSUME NEW c \in Char, NEW d \in Char PROVE c \o d \in Char
  BY <1>1, ConcatFacts
<1>8. QED
  BY <1>1, <1>2, <1>3, <1>4, <1>5, <1>6, <1>7, Zenon

LEMMA NameTyped == Name \in Seq(Char)
<1>1. <<"x">> \in Char
  BY CharFacts DEF Letters
<1>2. QED
  BY <1>1, CharFacts DEF Name

LEMMA SyllableFacts ==
  /\ Empty \in Syllables
  /\ \A a, b, c \in Char : Syllable(a, b, c) \in Syllables
  /\ \A s \in Syllables : s.cho \in Char /\ s.jung \in Char /\ s.jong \in Char
  /\ \A s \in Syllables : Render(s) \in Char /\ Composed(s) \in Seq(Char)
<1>1. ASSUME NEW a \in Char, NEW b \in Char, NEW c \in Char PROVE Syllable(a, b, c) \in Syllables
  BY DEF Syllable, Syllables
<1>2. Empty \in Syllables
  <2>1. <<>> \in Char
    BY CharFacts
  <2>2. QED
    BY <1>1, <2>1 DEF Empty
<1>3. ASSUME NEW s \in Syllables PROVE s.cho \in Char /\ s.jung \in Char /\ s.jong \in Char
  BY DEF Syllables
<1>4. ASSUME NEW s \in Syllables PROVE Render(s) \in Char /\ Composed(s) \in Seq(Char)
  <2>1. PICK a \in Char, b \in Char, c \in Char : a = s.cho /\ b = s.jung /\ c = s.jong
    BY <1>3
  <2>2. (a \o b) \o c \in Char
    BY CharFacts, Zenon
  <2>3. Render(s) \in Char
    BY <2>1, <2>2 DEF Render
  <2>4. << Render(s) >> \in Seq(Char) /\ <<>> \in Seq(Char)
    BY <2>3, CharFacts
  <2>5. QED
    BY <2>3, <2>4 DEF Composed
<1>5. QED
  BY <1>1, <1>2, <1>3, <1>4, Zenon

LEMMA ChangedSyllable ==
  ASSUME NEW s \in Syllables, NEW c \in Char
  PROVE  [s EXCEPT !.jung = c] \in Syllables /\ [s EXCEPT !.jong = c] \in Syllables
BY DEF Syllables

LEMMA OutFacts ==
  /\ \A s \in Syllables : Goes(s).committed \in Seq(Char) /\ Goes(s).state \in Syllables
  /\ \A c \in Char : \A s \in Syllables : Splits(c, s).committed \in Seq(Char) /\ Splits(c, s).state \in Syllables
<1>1. ASSUME NEW s \in Syllables PROVE Goes(s).committed \in Seq(Char) /\ Goes(s).state \in Syllables
  BY DEF Goes
<1>2. ASSUME NEW c \in Char, NEW s \in Syllables PROVE Splits(c, s).committed \in Seq(Char) /\ Splits(c, s).state \in Syllables
  BY CharFacts DEF Splits
<1>3. QED
  BY <1>1, <1>2

LEMMA UndoFacts ==
  ASSUME NEW s \in Syllables
  PROVE  hangul_backspace(s) \in Syllables
<1>1. s.jung \in Char /\ s.jong \in Char
  BY SyllableFacts
<1>2. CASE s.jong # <<>>
  BY <1>1, <1>2, CharFacts, ChangedSyllable DEF hangul_backspace
<1>3. CASE s.jong = <<>> /\ s.cho # <<>> /\ s.jung # <<>>
  BY <1>1, <1>3, CharFacts, ChangedSyllable DEF hangul_backspace
<1>4. CASE s.jong = <<>> /\ ~(s.cho # <<>> /\ s.jung # <<>>)
  BY <1>4, SyllableFacts DEF hangul_backspace
<1>5. QED
  BY <1>2, <1>3, <1>4

OutOK(out) == out.committed \in Seq(Char) /\ out.state \in Syllables

LEMMA JamoFacts ==
  ASSUME NEW s \in Syllables, NEW l \in Letters
  PROVE  OutOK(input_jamo(s, l))
<1>1. s.cho \in Char /\ s.jung \in Char /\ s.jong \in Char /\ Render(s) \in Char
  BY SyllableFacts
<1>2. <<l>> \in Char /\ <<>> \in Char /\ Append(s.jung, l) \in Char /\ Append(s.jong, l) \in Char
  BY <1>1, CharFacts
<1>3. OutOK(input_vowel(s, l))
  <2>1. CASE s.jong # <<>>
    <3>1. Last(s.jong) \in Letters /\ Front(s.jong) \in Char
      BY <1>1, <2>1, CharFacts, Zenon
    <3>2. <<Last(s.jong)>> \in Char /\ (s.cho \o s.jung) \o Front(s.jong) \in Char
      BY <1>1, <3>1, CharFacts, Zenon
    <3>3. Syllable(<<Last(s.jong)>>, <<l>>, <<>>) \in Syllables
      BY <1>2, <3>2, SyllableFacts, Zenon
    <3>4. OutOK(Splits(s.cho \o s.jung \o Front(s.jong), Syllable(<<Last(s.jong)>>, <<l>>, <<>>)))
      BY <3>2, <3>3, OutFacts, Zenon DEF OutOK
    <3>5. QED
      BY <2>1, <3>4, Zenon DEF input_vowel
  <2>2. CASE s.jong = <<>> /\ (s.jung = <<>> \/ s.jung \o <<l>> \in CompoundJung)
    <3>1. [s EXCEPT !.jung = Append(s.jung, l)] \in Syllables
      BY <1>2, ChangedSyllable
    <3>2. OutOK(Goes([s EXCEPT !.jung = Append(s.jung, l)]))
      BY <3>1, OutFacts DEF OutOK
    <3>3. QED
      BY <2>2, <3>2 DEF input_vowel
  <2>3. CASE s.jong = <<>> /\ ~(s.jung = <<>> \/ s.jung \o <<l>> \in CompoundJung)
    <3>1. Syllable(<<>>, <<l>>, <<>>) \in Syllables
      BY <1>2, SyllableFacts, Zenon
    <3>2. OutOK(Splits(Render(s), Syllable(<<>>, <<l>>, <<>>)))
      BY <1>1, <3>1, OutFacts, Zenon DEF OutOK
    <3>3. QED
      BY <2>3, <3>2, Zenon DEF input_vowel
  <2>4. QED
    BY <2>1, <2>2, <2>3, Zenon
<1>4. OutOK(input_consonant(s, l))
  <2> DEFINE Joins == /\ s.cho # <<>> /\ s.jung # <<>>
                      /\ \/ s.jong = <<>> /\ l \in Jongseong
                         \/ Append(s.jong, l) \in CompoundJong
  <2>1. Syllable(<<l>>, <<>>, <<>>) \in Syllables
    BY <1>2, SyllableFacts, Zenon
  <2>2. CASE s = Empty
    <3>1. OutOK(Goes(Syllable(<<l>>, <<>>, <<>>)))
      BY <2>1, OutFacts, Zenon DEF OutOK
    <3>2. QED
      BY <2>2, <3>1, Zenon DEF input_consonant
  <2>3. CASE s # Empty /\ Joins
    <3>1. [s EXCEPT !.jong = Append(s.jong, l)] \in Syllables
      BY <1>2, ChangedSyllable
    <3>2. OutOK(Goes([s EXCEPT !.jong = Append(s.jong, l)]))
      BY <3>1, OutFacts DEF OutOK
    <3>3. QED
      BY <2>3, <3>2 DEF input_consonant
  <2>4. CASE s # Empty /\ ~Joins
    <3>1. OutOK(Splits(Render(s), Syllable(<<l>>, <<>>, <<>>)))
      BY <1>1, <2>1, OutFacts, Zenon DEF OutOK
    <3>2. QED
      BY <2>4, <3>1, Zenon DEF input_consonant
  <2>5. QED
    BY <2>2, <2>3, <2>4, Zenon
<1>5. QED
  BY <1>3, <1>4, Zenon DEF input_jamo

-----------------------------------------------------------------------------
(* What a key makes of a text.                                               *)

EditorOK(t) == t \in EditorTexts /\ AtPlace(t)

LEMMA EditorFacts ==
  ASSUME NEW t, EditorOK(t)
  PROVE  /\ EditorOK(delete_selection(t)) /\ EditorOK(backspace(t))
         /\ \A s \in Seq(Char) : EditorOK(insert_str(t, s))
<1>1. EditorTexts \in TextTypes
  BY DEF TextTypes
<1>2. EditorOK(delete_selection(t))
  <2>1. t \in EditorTexts /\ AtPlace(t)
    BY DEF EditorOK
  <2>2. QED
    BY <1>1, <2>1, DeleteFacts DEF EditorOK
<1>3. EditorOK(backspace(t))
  <2>1. EditorOK(Take(t))
    <3>1. t \in EditorTexts /\ AtPlace(t)
      BY DEF EditorOK
    <3>2. QED
      BY <1>1, <3>1, TakeFacts DEF EditorOK
  <2>2. QED
    BY <1>2, <2>1 DEF backspace
<1>4. ASSUME NEW s \in Seq(Char) PROVE EditorOK(insert_str(t, s))
  <2>1. PICK d : d = delete_selection(t) /\ d \in EditorTexts /\ AtPlace(d)
    BY <1>2 DEF EditorOK
  <2>2. EditorOK(Put(d, s))
    BY <1>1, <2>1, PutFacts DEF EditorOK
  <2>3. QED
    BY <2>1, <2>2 DEF insert_str
<1>5. QED
  BY <1>2, <1>3, <1>4

(* An offset into the text.                                                  *)
LEMMA PlacedEditor ==
  ASSUME NEW t, EditorOK(t), NEW off \in Place(t)
  PROVE  EditorOK([t EXCEPT !.cursor = off]) /\ EditorOK([t EXCEPT !.cursor = off, !.anchor = off])
<1>1. off \in Nat /\ off \in Anchors /\ t \in EditorTexts
  BY EmptyFacts DEF Place, Anchors, EditorOK, EditorTexts
<1>2. EditorOK([t EXCEPT !.cursor = off])
  <2>1. [t EXCEPT !.cursor = off] \in EditorTexts
    BY <1>1 DEF EditorTexts
  <2>2. [t EXCEPT !.cursor = off].cursor = off /\ [t EXCEPT !.cursor = off].content = t.content
    BY <1>1 DEF EditorTexts
  <2>3. QED
    BY <2>1, <2>2 DEF EditorOK, AtPlace, Place
<1>3. EditorOK([t EXCEPT !.cursor = off, !.anchor = off])
  <2> DEFINE u == [t EXCEPT !.cursor = off, !.anchor = off]
  <2>1. u \in EditorTexts
    BY <1>1 DEF EditorTexts
  <2>2. u.cursor = off /\ u.content = t.content
    BY <1>1 DEF EditorTexts
  <2>3. QED
    BY <2>1, <2>2 DEF EditorOK, AtPlace, Place
<1>4. QED
  BY <1>2, <1>3

LEMMA OpenedEditor ==
  ASSUME NEW w \in Window \cup {0}, NEW s \in Seq(Char), NEW at \in 0 .. Len(s)
  PROVE  EditorOK(EditorNew(w, s, at))
<1>1. at \in Nat /\ NoAnchor \in Anchors
  BY EmptyFacts DEF Anchors
<1>2. EditorNew(w, s, at) \in EditorTexts
  BY <1>1 DEF EditorNew, EditorTexts
<1>3. EditorNew(w, s, at).cursor = at /\ EditorNew(w, s, at).content = s
  BY DEF EditorNew
<1>4. QED
  BY <1>2, <1>3 DEF EditorOK, AtPlace, Place

(* The command line.                                                         *)
LEMMA CliRange ==
  ASSUME NEW t, CliOK(t)
  PROVE  /\ t \in CliTexts /\ AtPlace(t) /\ CliTexts \in TextTypes
         /\ t.content \in Seq(Char) /\ Len(t.content) \in Nat /\ NoAnchor \in Anchors
BY EmptyFacts DEF CliOK, TextTypes, CliTexts, Anchors

LEMMA CliLoose ==
  ASSUME NEW t \in CliTexts, AtPlace(t), t.anchor = NoAnchor
  PROVE  CliOK(t)
BY DEF CliOK

LEMMA CliAnchored ==
  ASSUME NEW t \in CliTexts, NEW a \in {NoAnchor} \cup Place(t), AtPlace(t)
  PROVE  CliOK([t EXCEPT !.anchor = a])
<1>1. a \in Anchors
  BY EmptyFacts DEF Place, Anchors, CliTexts
<1>2. PICK u : u = [t EXCEPT !.anchor = a]
  OBVIOUS
<1>3. u \in CliTexts /\ u.anchor = a /\ u.cursor = t.cursor /\ u.content = t.content
  BY <1>1, <1>2 DEF CliTexts
<1>4. CliOK(u)
  BY <1>3 DEF CliOK, AtPlace, Place
<1>5. QED
  BY <1>2, <1>4

LEMMA CliPreedit ==
  ASSUME NEW t, CliOK(t), NEW c \in Char
  PROVE  CliOK([t EXCEPT !.preedit = c])
<1>1. t \in CliTexts
  BY DEF CliOK
<1>2. PICK u : u = [t EXCEPT !.preedit = c]
  OBVIOUS
<1>3. u \in CliTexts /\ u.anchor = t.anchor /\ u.cursor = t.cursor /\ u.content = t.content
  BY <1>1, <1>2 DEF CliTexts
<1>4. CliOK(u)
  BY <1>3 DEF CliOK, AtPlace, Place
<1>5. QED
  BY <1>2, <1>4

LEMMA CliPlaced ==
  ASSUME NEW t, CliOK(t), NEW off \in Place(t)
  PROVE  CliOK([t EXCEPT !.cursor = off]) /\ CliOK([t EXCEPT !.cursor = off, !.anchor = off])
<1>1. off \in Nat /\ off \in Anchors /\ t \in CliTexts
  BY EmptyFacts DEF Place, Anchors, CliOK, CliTexts
<1>2. CliOK([t EXCEPT !.cursor = off])
  <2>1. PICK u : u = [t EXCEPT !.cursor = off]
    OBVIOUS
  <2>2. u \in CliTexts /\ u.cursor = off /\ u.content = t.content /\ u.anchor = t.anchor
    BY <1>1, <2>1 DEF CliTexts
  <2>3. CliOK(u)
    BY <2>2 DEF CliOK, AtPlace, Place
  <2>4. QED
    BY <2>1, <2>3
<1>3. CliOK([t EXCEPT !.cursor = off, !.anchor = off])
  <2>1. PICK u : u = [t EXCEPT !.cursor = off, !.anchor = off]
    OBVIOUS
  <2>2. u \in CliTexts /\ u.cursor = off /\ u.content = t.content /\ u.anchor = off
    BY <1>1, <2>1 DEF CliTexts
  <2>3. CliOK(u)
    BY <2>2 DEF CliOK, AtPlace, Place
  <2>4. QED
    BY <2>1, <2>3
<1>4. QED
  BY <1>2, <1>3

LEMMA CliDeletes ==
  ASSUME NEW t, CliOK(t)
  PROVE  /\ CliOK(delete_selection(t)) /\ CliOK(cli_delete_selection(t))
         /\ cli_delete_selection(t).anchor = NoAnchor
<1>1. PICK d : d = delete_selection(t) /\ d \in CliTexts /\ AtPlace(d)
               /\ IF IsSelected(t) THEN d.anchor = NoAnchor ELSE d = t
  BY CliRange, DeleteFacts
<1>2. CliOK(d)
  BY <1>1, CliLoose
<1>3. CliOK([d EXCEPT !.anchor = NoAnchor])
  BY <1>1, CliAnchored
<1>4. [d EXCEPT !.anchor = NoAnchor].anchor = NoAnchor
  BY <1>1 DEF CliTexts
<1>5. QED
  BY <1>1, <1>2, <1>3, <1>4 DEF cli_delete_selection

LEMMA CliPuts ==
  ASSUME NEW t, CliOK(t), NEW s \in Seq(Char)
  PROVE  CliOK(cli_insert(t, s)) /\ CliOK(handle_ime_commit(t, s))
<1>1. PICK d : d = cli_delete_selection(t) /\ CliOK(d) /\ d.anchor = NoAnchor
  BY CliDeletes
<1>2. Put(d, s) \in CliTexts /\ AtPlace(Put(d, s)) /\ Put(d, s).anchor = d.anchor
  BY <1>1, CliRange, PutFacts
<1>3. CliOK(Put(d, s))
  BY <1>1, <1>2, CliLoose
<1>4. CliOK(cli_insert(t, s))
  BY <1>1, <1>3 DEF cli_insert
<1>5. <<>> \in Char
  BY CharFacts
<1>6. CliOK(handle_ime_commit(t, s))
  BY <1>4, <1>5, CliPreedit DEF handle_ime_commit
<1>7. QED
  BY <1>4, <1>6

LEMMA CliTakes ==
  ASSUME NEW t, CliOK(t)
  PROVE  CliOK(cli_backspace(t))
<1>1. PICK d : d = cli_delete_selection(t) /\ CliOK(d) /\ d.anchor = NoAnchor
  BY CliDeletes
<1>2. Take(d) \in CliTexts /\ AtPlace(Take(d)) /\ Take(d).anchor = d.anchor
  BY <1>1, CliRange, TakeFacts
<1>3. CliOK(Take(d)) /\ CliOK(delete_selection(t))
  BY <1>1, <1>2, CliLoose, CliDeletes
<1>4. QED
  BY <1>1, <1>3 DEF cli_backspace

LEMMA CliFlushes ==
  ASSUME NEW t, CliOK(t), hangul \in Syllables
  PROVE  CliOK(cli_flush(t))
<1>1. <<>> \in Char /\ Composed(hangul) \in Seq(Char)
  BY CharFacts, SyllableFacts
<1>2. PICK u : u = (IF hangul = Empty THEN t ELSE handle_ime_commit(t, Composed(hangul)))
  OBVIOUS
<1>3. CliOK(u)
  BY <1>1, <1>2, CliPuts
<1>4. CliOK([u EXCEPT !.preedit = <<>>])
  BY <1>1, <1>3, CliPreedit
<1>5. QED
  BY <1>2, <1>4 DEF cli_flush

LEMMA CliSelects ==
  ASSUME NEW t, CliOK(t)
  PROVE  CliOK(cli_select_all(t))
<1>1. t \in CliTexts /\ AtPlace(t) /\ Len(t.content) \in Nat
  BY CliRange
<1>2. CliOK([t EXCEPT !.anchor = NoAnchor])
  BY <1>1, CliAnchored
<1>3. PICK n \in Nat : n = Len(t.content)
  BY <1>1
<1>4. PICK u : u = [t EXCEPT !.anchor = 0, !.cursor = n]
  OBVIOUS
<1>5. u \in CliTexts /\ u.cursor = n /\ u.content = t.content /\ u.anchor = 0
  BY <1>1, <1>4 DEF CliTexts, Anchors
<1>6. CliOK(u)
  BY <1>3, <1>5 DEF CliOK, AtPlace, Place
<1>7. QED
  BY <1>2, <1>3, <1>4, <1>6 DEF cli_select_all, select_all

-----------------------------------------------------------------------------
(* The compositor's own state keeps its types, whatever key or button.       *)

Names == [target : File \cup {None}, buffer : Seq(Char)]
Drags == {<<"none">>, <<"window">>, <<"cli">>, <<"scroll">>} \cup {<<"moving", w>> : w \in Window}
Modes == korean \in BOOLEAN /\ preedit \in BOOLEAN /\ crashed \in BOOLEAN /\ hangul \in Syllables
HandsOK  == focus \in Window \cup {0} /\ rename_input \in Names /\ drag \in Drags
Boxes == Modes /\ CliOK(cli) /\ EditorOK(editor) /\ HandsOK
Ui    == Boxes /\ clipboard \in Seq(Char)

Explorable == DOMAIN mirror = Window \cup {Explorer} /\ mirror[Explorer] \in Explorers
Mirrored   == Explorable /\ \A w \in Window : mirror[w] \in Windows

LEMMA TypesKeep ==
  ASSUME Boxes, NEW t, NEW h, Types(t, h), CliOK(t), h \in Syllables
  PROVE  Boxes'
<1>1. cli' = t /\ hangul' = h
  BY DEF Types
<1>2. UNCHANGED <<korean, preedit, editor, focus, rename_input, drag, crashed>>
  BY DEF Types
<1>3. Modes' /\ HandsOK'
  BY <1>1, <1>2 DEF Boxes, Modes, HandsOK
<1>4. CliOK(cli') /\ EditorOK(editor')
  BY <1>1, <1>2 DEF Boxes
<1>5. QED
  BY <1>3, <1>4 DEF Boxes

LEMMA EditsKeep ==
  ASSUME Boxes, NEW t, NEW h, NEW p, Edits(t, h, p), EditorOK(t), h \in Syllables, p \in BOOLEAN
  PROVE  Boxes'
<1>1. UNCHANGED <<korean, cli, focus, rename_input, drag>>
  BY DEF Edits
<1>2. \/ crashed' = TRUE /\ UNCHANGED <<editor, hangul, preedit>>
      \/ editor' = t /\ hangul' = h /\ preedit' = p /\ UNCHANGED crashed
  BY DEF Edits
<1>3. Modes' /\ HandsOK'
  BY <1>1, <1>2 DEF Boxes, Modes, HandsOK
<1>4. CliOK(cli') /\ EditorOK(editor')
  BY <1>1, <1>2 DEF Boxes
<1>5. QED
  BY <1>3, <1>4 DEF Boxes

LEMMA LeavesKeep ==
  ASSUME Boxes, NEW t, Leaves(t), EditorOK(t)
  PROVE  Boxes'
<1>1. /\ editor' = t /\ hangul' = Empty /\ preedit' = FALSE
      /\ UNCHANGED <<korean, cli, focus, rename_input, drag, crashed>>
  BY DEF Leaves
<1>2. Empty \in Syllables
  BY SyllableFacts
<1>3. Modes' /\ HandsOK'
  BY <1>1, <1>2 DEF Boxes, Modes, HandsOK
<1>4. CliOK(cli') /\ EditorOK(editor')
  BY <1>1 DEF Boxes
<1>5. QED
  BY <1>3, <1>4 DEF Boxes

LEMMA SameKeep ==
  ASSUME Boxes,
         UNCHANGED <<korean, hangul, preedit, cli, editor, focus, rename_input, drag, crashed>>
  PROVE  Boxes'
<1>1. Modes' /\ HandsOK'
  BY DEF Boxes, Modes, HandsOK
<1>2. CliOK(cli') /\ EditorOK(editor')
  BY DEF Boxes
<1>3. QED
  BY <1>1, <1>2 DEF Boxes

LEMMA RenameKeeps ==
  ASSUME Boxes, rename_input' \in Names,
         UNCHANGED <<korean, hangul, preedit, cli, editor, focus, drag, crashed>>
  PROVE  Boxes'
<1>1. Modes' /\ HandsOK'
  BY DEF Boxes, Modes, HandsOK
<1>2. CliOK(cli') /\ EditorOK(editor')
  BY DEF Boxes
<1>3. QED
  BY <1>1, <1>2 DEF Boxes

(* A letter key.                                                             *)
LEMMA KeyJamoKeeps ==
  ASSUME Ui, NEW l \in Jamo, KeyJamo(l)
  PROVE  Ui'
<1>1. clipboard' = clipboard /\ (EditorJamo(l) \/ CliJamo(l))
  BY DEF KeyJamo, vars
<1>2. /\ Boxes /\ Modes /\ CliOK(cli) /\ EditorOK(editor) /\ l \in Letters /\ hangul \in Syllables
  BY DEF Ui, Boxes, Modes, Letters
<1>3. PICK out : out = input_jamo(hangul, l) /\ out.committed \in Seq(Char) /\ out.state \in Syllables
  BY <1>2, JamoFacts DEF OutOK
<1>4. /\ Composed(out.state) \in Seq(Char) /\ Render(out.state) \in Char
  BY <1>3, SyllableFacts
<1>5. ASSUME EditorJamo(l) PROVE Boxes'
  <2>1. PICK s : s = (IF preedit THEN backspace(editor) ELSE editor) /\ EditorOK(s)
    BY <1>2, EditorFacts
  <2>2. PICK t : t = insert_str(s, out.committed) /\ EditorOK(t)
    BY <1>3, <2>1, EditorFacts
  <2>3. PICK u : u = insert_str(t, Composed(out.state)) /\ EditorOK(u)
    BY <1>4, <2>2, EditorFacts
  <2>4. Edits(u, out.state, TRUE)
    BY <1>3, <1>5, <2>1, <2>2, <2>3 DEF EditorJamo
  <2>5. QED
    BY <1>2, <1>3, <2>3, <2>4, EditsKeep
<1>6. ASSUME CliJamo(l) PROVE Boxes'
  <2>1. PICK t : t = (IF hangul = Empty THEN cli_delete_selection(cli) ELSE cli) /\ CliOK(t)
    BY <1>2, CliDeletes
  <2>2. PICK d : d = (IF out.committed = <<>> THEN t ELSE handle_ime_commit(t, out.committed)) /\ CliOK(d)
    BY <1>3, <2>1, CliPuts
  <2>3. PICK u : u = [d EXCEPT !.preedit = Render(out.state)] /\ CliOK(u)
    BY <1>4, <2>2, CliPreedit
  <2>4. Types(u, out.state)
    BY <1>3, <1>6, <2>1, <2>2, <2>3 DEF CliJamo
  <2>5. QED
    BY <1>2, <1>3, <2>3, <2>4, TypesKeep
<1>7. QED
  BY <1>1, <1>5, <1>6 DEF Ui

LEMMA NameFacts ==
  ASSUME NEW r \in Names, NEW c \in Char
  PROVE  /\ [r EXCEPT !.buffer = Append(r.buffer, c)] \in Names
         /\ r.buffer # <<>> => [r EXCEPT !.buffer = Front(r.buffer)] \in Names
         /\ NoRename \in Names /\ r.buffer \in Seq(Char)
<1>1. r.buffer \in Seq(Char) /\ <<>> \in Seq(Char) /\ Append(r.buffer, c) \in Seq(Char)
  BY AppendFacts, EmptyFacts DEF Names
<1>2. r.buffer # <<>> => Front(r.buffer) \in Seq(Char)
  <2>1. 0 \in Nat
    OBVIOUS
  <2>2. QED
    BY <1>1, <2>1, PartFacts
<1>3. NoRename \in Names
  BY <1>1 DEF NoRename, Names
<1>4. ASSUME NEW b \in Seq(Char) PROVE [r EXCEPT !.buffer = b] \in Names
  BY DEF Names
<1>5. QED
  BY <1>1, <1>2, <1>3, <1>4

(* A key that types itself.                                                  *)
LEMMA KeyPlainKeeps ==
  ASSUME Ui, NEW p \in Plain, KeyPlain(p)
  PROVE  Ui'
<1>1. clipboard' = clipboard /\ (EditorPlain(<<p>>) \/ CliPlain(<<p>>) \/ RenamePlain(<<p>>))
  BY DEF KeyPlain
<1>2. /\ Boxes /\ CliOK(cli) /\ EditorOK(editor) /\ p \in Letters /\ hangul \in Syllables
      /\ rename_input \in Names /\ Empty \in Syllables
  BY SyllableFacts DEF Ui, Boxes, Modes, HandsOK, Letters
<1>3. PICK c \in Char : c = <<p>> /\ << c >> \in Seq(Char)
  BY <1>2, CharFacts
<1>4. ASSUME EditorPlain(c) PROVE Boxes'
  <2>1. PICK t : t = insert_str(editor, << c >>) /\ EditorOK(t)
    BY <1>2, <1>3, EditorFacts
  <2>2. Edits(t, Empty, FALSE)
    BY <1>4, <2>1 DEF EditorPlain
  <2>3. QED
    BY <1>2, <2>1, <2>2, EditsKeep
<1>5. ASSUME CliPlain(c) PROVE Boxes'
  <2>1. PICK s : s = (IF korean THEN cli_flush(cli) ELSE cli) /\ CliOK(s)
    BY <1>2, CliFlushes
  <2>2. PICK t : t = cli_insert(s, << c >>) /\ CliOK(t)
    BY <1>3, <2>1, CliPuts
  <2>3. PICK h \in Syllables : h = (IF korean THEN Empty ELSE hangul)
    BY <1>2
  <2>4. Types(t, h)
    BY <1>5, <2>1, <2>2, <2>3 DEF CliPlain
  <2>5. QED
    BY <1>2, <2>2, <2>4, TypesKeep
<1>6. ASSUME RenamePlain(c) PROVE Boxes'
  <2>1. rename_input' = [rename_input EXCEPT !.buffer = Append(rename_input.buffer, c)]
    BY <1>6 DEF RenamePlain
  <2>2. rename_input' \in Names
    BY <1>2, <2>1, NameFacts
  <2>3. UNCHANGED <<korean, hangul, preedit, cli, editor, focus, drag, crashed>>
    BY <1>6 DEF RenamePlain
  <2>4. QED
    BY <1>2, <2>2, <2>3, RenameKeeps
<1>7. Boxes'
  BY <1>1, <1>3, <1>4, <1>5, <1>6, Zenon
<1>8. QED
  BY <1>1, <1>7 DEF Ui

LEMMA KeyBackspaceKeeps ==
  ASSUME Ui, KeyBackspace
  PROVE  Ui'
<1>1. clipboard' = clipboard /\ (EditorBackspace \/ CliBackspace \/ RenameBackspace)
  BY DEF KeyBackspace
<1>2. /\ Boxes /\ CliOK(cli) /\ EditorOK(editor) /\ hangul \in Syllables /\ preedit \in BOOLEAN
      /\ rename_input \in Names /\ Empty \in Syllables
  BY SyllableFacts DEF Ui, Boxes, Modes, HandsOK
<1>3. PICK undone \in Syllables : undone = hangul_backspace(hangul)
  BY <1>2, UndoFacts
<1>4. Composed(undone) \in Seq(Char) /\ Render(undone) \in Char /\ <<>> \in Char
  BY <1>3, SyllableFacts, CharFacts
<1>5. ASSUME EditorBackspace PROVE Boxes'
  <2>1. PICK t : t = (IF preedit THEN backspace(editor) ELSE editor) /\ EditorOK(t)
    BY <1>2, EditorFacts
  <2>2. PICK b : b = backspace(editor) /\ EditorOK(b)
    BY <1>2, EditorFacts
  <2>3. PICK bb : bb = backspace(t) /\ EditorOK(bb)
    BY <2>1, EditorFacts
  <2>4. PICK u : u = (IF undone = Empty THEN t ELSE insert_str(t, Composed(undone))) /\ EditorOK(u)
    BY <1>4, <2>1, EditorFacts
  <2>5. \/ Edits(b, hangul, preedit) \/ Edits(bb, Empty, FALSE)
        \/ Edits(u, undone, undone # Empty)
    BY <1>3, <1>5, <2>1, <2>2, <2>3, <2>4 DEF EditorBackspace
  <2>6. ASSUME Edits(b, hangul, preedit) PROVE Boxes'
    <3>1. PICK h \in Syllables, p \in BOOLEAN : h = hangul /\ p = preedit
      BY <1>2
    <3>2. Edits(b, h, p)
      BY <2>6, <3>1
    <3>3. QED
      BY <1>2, <2>2, <3>1, <3>2, EditsKeep
  <2>7. ASSUME Edits(bb, Empty, FALSE) PROVE Boxes'
    BY <1>2, <2>3, <2>7, EditsKeep
  <2>8. ASSUME Edits(u, undone, undone # Empty) PROVE Boxes'
    <3>1. PICK p \in BOOLEAN : p = (undone # Empty)
      OBVIOUS
    <3>2. Edits(u, undone, p)
      BY <2>8, <3>1
    <3>3. QED
      BY <1>2, <1>3, <2>4, <3>1, <3>2, EditsKeep
  <2>9. QED
    BY <2>5, <2>6, <2>7, <2>8, Zenon
<1>6. ASSUME CliBackspace PROVE Boxes'
  <2>1. PICK b : b = cli_backspace(cli) /\ CliOK(b)
    BY <1>2, CliTakes
  <2>2. PICK bb : bb = [b EXCEPT !.preedit = <<>>] /\ CliOK(bb)
    BY <1>4, <2>1, CliPreedit
  <2>3. PICK u : u = [cli EXCEPT !.preedit = Render(undone)] /\ CliOK(u)
    BY <1>2, <1>4, CliPreedit
  <2>4. Types(b, hangul) \/ Types(bb, hangul) \/ Types(u, undone)
    BY <1>3, <1>6, <2>1, <2>2, <2>3 DEF CliBackspace
  <2>5. PICK h \in Syllables : h = hangul
    BY <1>2
  <2>6. Types(b, h) \/ Types(bb, h) \/ Types(u, undone)
    BY <2>4, <2>5
  <2>7. QED
    BY <1>2, <1>3, <2>1, <2>2, <2>3, <2>6, TypesKeep
<1>7. ASSUME RenameBackspace PROVE Boxes'
  <2>1. /\ rename_input' = [rename_input EXCEPT !.buffer = Front(rename_input.buffer)]
        /\ rename_input.buffer # <<>>
    BY <1>7 DEF RenameBackspace
  <2>2. rename_input' \in Names
    BY <1>2, <1>4, <2>1, NameFacts
  <2>3. UNCHANGED <<korean, hangul, preedit, cli, editor, focus, drag, crashed>>
    BY <1>7 DEF RenameBackspace
  <2>4. QED
    BY <1>2, <2>2, <2>3, RenameKeeps
<1>8. Boxes'
  BY <1>1, <1>5, <1>6, <1>7, Zenon
<1>9. QED
  BY <1>1, <1>8 DEF Ui

(* Messages to the shell.                                                    *)
Pipe == invokes \in Seq(Actions) /\ Len(invokes) <= UiCap
Sent == UNCHANGED invokes \/ \E m \in Actions : Send(m)

LEMMA SentKeeps ==
  ASSUME Pipe, Sent
  PROVE  Pipe'
<1>1. CASE UNCHANGED invokes
  BY <1>1 DEF Pipe
<1>2. ASSUME NEW m \in Actions, Send(m) PROVE Pipe'
  <2>1. CASE Len(invokes) < UiCap
    <3>1. invokes' = Append(invokes, m)
      BY <1>2, <2>1 DEF Send
    <3>2. Append(invokes, m) \in Seq(Actions) /\ Len(Append(invokes, m)) = Len(invokes) + 1
      BY AppendFacts DEF Pipe
    <3>3. Len(invokes) \in Nat /\ UiCap \in Nat
      BY EmptyFacts, BoundsAssumption DEF Pipe
    <3>4. QED
      BY <2>1, <3>1, <3>2, <3>3 DEF Pipe
  <2>2. CASE ~(Len(invokes) < UiCap)
    BY <1>2, <2>2 DEF Send, Pipe
  <2>3. QED
    BY <2>1, <2>2
<1>3. QED
  BY <1>1, <1>2 DEF Sent

LEMMA ActionFacts ==
  /\ \A w \in Window : /\ Invoke("focus", w, None) \in Actions
                       /\ Invoke("close_confirm", w, None) \in Actions
                       /\ Invoke("move", w, None) \in Actions
  /\ \A w \in Window : \A s \in Seq(Char) : Invoke("save_to_file", w, s) \in Actions
  /\ \A f \in File : Invoke("select", 0, f) \in Actions /\ Invoke("open_file", 0, f) \in Actions
  /\ \A s \in Seq(Char) : /\ Invoke("rename_selected", 0, s) \in Actions
                          /\ Invoke("submit_input", 0, s) \in Actions
BY DEF Invoke, Actions

LEMMA KeyEnterKeeps ==
  ASSUME Ui, KeyEnter
  PROVE  Ui' /\ Sent
<1>1. /\ clipboard' = clipboard
      /\ \/ Edits(insert_str(editor, << <<"\n">> >>), Empty, FALSE) /\ UNCHANGED invokes
         \/ CliEnter \/ RenameEnter
  BY DEF KeyEnter
<1>2. /\ Boxes /\ CliOK(cli) /\ EditorOK(editor) /\ hangul \in Syllables
      /\ rename_input \in Names /\ Empty \in Syllables
  BY SyllableFacts DEF Ui, Boxes, Modes, HandsOK
<1>3. ASSUME Edits(insert_str(editor, << <<"\n">> >>), Empty, FALSE), UNCHANGED invokes PROVE Boxes' /\ Sent
  <2>1. PICK c \in Char : c = <<"\n">> /\ << c >> \in Seq(Char)
    BY CharFacts DEF Letters
  <2>2. PICK t : t = insert_str(editor, << c >>) /\ EditorOK(t)
    BY <1>2, <2>1, EditorFacts
  <2>3. Edits(t, Empty, FALSE)
    BY <1>3, <2>1, <2>2
  <2>4. QED
    BY <1>2, <1>3, <2>2, <2>3, EditsKeep DEF Sent
<1>4. ASSUME CliEnter PROVE Boxes' /\ Sent
  <2>1. PICK t : t = (IF korean THEN cli_flush(cli) ELSE cli) /\ CliOK(t)
    BY <1>2, CliFlushes
  <2>2. PICK u : u = [t EXCEPT !.content = <<>>, !.anchor = NoAnchor,
                               !.cursor = IF t.content = <<>> THEN @ ELSE 0] /\ CliOK(u)
    <3>1. t \in CliTexts /\ AtPlace(t) /\ t.content \in Seq(Char) /\ <<>> \in Seq(Char) /\ Len(<<>>) = 0
      BY <2>1, CliRange, EmptyFacts
    <3>2. PICK k : k = (IF t.content = <<>> THEN t.cursor ELSE 0)
      OBVIOUS
    <3>3. k = 0
      BY <3>1, <3>2 DEF AtPlace, Place
    <3>4. PICK u : u = [t EXCEPT !.content = <<>>, !.anchor = NoAnchor, !.cursor = k]
      OBVIOUS
    <3>5. u \in CliTexts /\ u.anchor = NoAnchor /\ u.cursor = 0 /\ u.content = <<>>
      BY <3>1, <3>3, <3>4 DEF CliTexts, Anchors
    <3>6. CliOK(u)
      BY <3>1, <3>5 DEF CliOK, AtPlace, Place
    <3>7. QED
      BY <3>2, <3>4, <3>6
  <2>3. PICK h \in Syllables : h = (IF korean THEN Empty ELSE hangul)
    BY <1>2
  <2>4. Types(u, h) /\ Send(Invoke("submit_input", 0, t.content))
    BY <1>4, <2>1, <2>2, <2>3 DEF CliEnter
  <2>5. Invoke("submit_input", 0, t.content) \in Actions
    BY <2>1, CliRange, ActionFacts
  <2>6. QED
    BY <1>2, <2>2, <2>4, <2>5, TypesKeep DEF Sent
<1>5. ASSUME RenameEnter PROVE Boxes' /\ Sent
  <2>1. /\ rename_input' = NoRename
        /\ Send(Invoke("rename_selected", 0, rename_input.buffer))
        /\ UNCHANGED <<korean, hangul, preedit, cli, editor, focus, drag, crashed>>
    BY <1>5 DEF RenameEnter
  <2>2. <<>> \in Char
    BY CharFacts
  <2>3. NoRename \in Names /\ rename_input.buffer \in Seq(Char)
    BY <1>2, <2>2, NameFacts
  <2>4. QED
    BY <1>2, <2>1, <2>3, RenameKeeps, ActionFacts DEF Sent
<1>6. QED
  BY <1>1, <1>3, <1>4, <1>5 DEF Ui

LEMMA KeyToggleKeeps ==
  ASSUME Ui, KeyToggle
  PROVE  Ui'
<1>1. /\ Modes /\ HandsOK /\ CliOK(cli) /\ EditorOK(editor) /\ hangul \in Syllables /\ Empty \in Syllables
  BY SyllableFacts DEF Ui, Boxes, Modes
<1>2. CliOK(cli_flush(cli))
  BY <1>1, CliFlushes
<1>3. /\ korean' = ~korean /\ hangul' = Empty
      /\ preedit' = FALSE \/ preedit' = preedit
      /\ cli' = cli \/ cli' = cli_flush(cli)
      /\ UNCHANGED <<editor, focus, clipboard, rename_input, drag, crashed>>
  BY DEF KeyToggle
<1>4. Modes' /\ HandsOK'
  BY <1>1, <1>3 DEF Modes, HandsOK
<1>5. CliOK(cli') /\ EditorOK(editor')
  BY <1>1, <1>2, <1>3, Zenon
<1>6. QED
  BY <1>3, <1>4, <1>5 DEF Ui, Boxes

LEMMA KeyEscKeeps ==
  ASSUME Ui, KeyEsc
  PROVE  Ui'
<1>1. /\ rename_input' = NoRename /\ clipboard' = clipboard
      /\ UNCHANGED <<korean, hangul, preedit, cli, editor, focus, drag, crashed>>
  BY DEF KeyEsc, text
<1>2. Boxes /\ rename_input \in Names
  BY DEF Ui, Boxes, HandsOK
<1>3. <<>> \in Char
  BY CharFacts
<1>4. NoRename \in Names
  BY <1>2, <1>3, NameFacts
<1>5. Boxes'
  BY <1>1, <1>2, <1>4, RenameKeeps
<1>6. QED
  BY <1>1, <1>5 DEF Ui

(* Copying: what is selected, if it can be sliced.                           *)
LEMMA CopyFacts ==
  ASSUME NEW T \in TextTypes, NEW t \in T, AtPlace(t), clipboard \in Seq(Char), Copies(t)
  PROVE  clipboard' \in Seq(Char)
<1>1. CASE ~(IsSelected(t) /\ ~Panics(t))
  BY <1>1 DEF Copies
<1>2. CASE IsSelected(t) /\ ~Panics(t)
  <2>1. /\ t.content \in Seq(Char) /\ t.cursor \in Nat /\ t.anchor \in Nat /\ Len(t.content) \in Nat
        /\ High(t) <= Len(t.content) \/ ~(High(t) > Len(t.content))
    BY <1>2, TextParts DEF IsSelected, NoAnchor, Panics
  <2>2. PICK lo \in Nat, hi \in Nat : lo = Low(t) /\ hi = High(t) /\ hi <= Len(t.content)
    BY <2>1 DEF Low, High
  <2>3. \A i \in lo + 1 .. hi : t.content[i] \in Char
    BY <2>1, <2>2
  <2>4. lo + 1 \in Int /\ hi \in Int
    OBVIOUS
  <2>5. SubSeq(t.content, lo + 1, hi) \in Seq(Char)
    <3>1. PICK m \in Int : m = lo + 1
      OBVIOUS
    <3>2. \A i \in m .. hi : t.content[i] \in Char
      BY <2>3, <3>1
    <3>3. SubSeq(t.content, m, hi) \in Seq(Char)
      BY <2>1, <3>2, SubSeqProperties
    <3>4. QED
      BY <3>1, <3>3
  <2>6. clipboard' = SubSeq(t.content, lo + 1, hi)
    BY <1>2, <2>2 DEF Copies, selected_text
  <2>7. QED
    BY <2>5, <2>6
<1>3. QED
  BY <1>1, <1>2

LEMMA CtrlKeyKeeps ==
  ASSUME Ui, CtrlKey
  PROVE  Ui'
<1>1. /\ Boxes /\ CliOK(cli) /\ EditorOK(editor) /\ hangul \in Syllables /\ Empty \in Syllables
      /\ clipboard \in Seq(Char) /\ FALSE \in BOOLEAN
  BY SyllableFacts DEF Ui, Boxes, Modes
<1>2. PICK t : t = cli_flush(cli) /\ CliOK(t)
  BY <1>1, CliFlushes
<1>3. \/ Leaves(select_all(editor)) /\ UNCHANGED clipboard
      \/ Edits(editor, Empty, FALSE) /\ Copies(editor)
      \/ Edits(delete_selection(editor), Empty, FALSE) /\ Copies(editor)
      \/ Edits(insert_str(editor, clipboard), Empty, FALSE) /\ UNCHANGED clipboard
      \/ Types(cli_select_all(t), Empty) /\ UNCHANGED clipboard
      \/ Types(t, Empty) /\ Copies(t)
      \/ Types(IF IsSelected(t) THEN cli_delete_selection(t) ELSE t, Empty) /\ Copies(t)
      \/ Types(cli_insert(t, clipboard), Empty) /\ UNCHANGED clipboard
  BY <1>2 DEF CtrlKey
<1>4. ASSUME Copies(editor) PROVE clipboard' \in Seq(Char)
  <2>1. PICK e : e = editor /\ EditorOK(e) /\ Copies(e)
    BY <1>1, <1>4
  <2>2. EditorTexts \in TextTypes /\ e \in EditorTexts /\ AtPlace(e)
    BY <2>1 DEF TextTypes, EditorOK
  <2>3. QED
    BY <1>1, <2>1, <2>2, CopyFacts
<1>5. ASSUME Copies(t) PROVE clipboard' \in Seq(Char)
  BY <1>1, <1>2, <1>5, CliRange, CopyFacts
<1>6. ASSUME Leaves(select_all(editor)) PROVE Boxes'
  <2>1. editor \in EditorTexts /\ editor.content \in Seq(Char)
    BY <1>1 DEF EditorOK, EditorTexts
  <2>2. PICK n \in Nat : n = Len(editor.content)
    BY <2>1, EmptyFacts
  <2>3. PICK u : u = [editor EXCEPT !.anchor = 0, !.cursor = n]
    OBVIOUS
  <2>4. u \in EditorTexts /\ u.cursor = n /\ u.content = editor.content
    BY <2>1, <2>3 DEF EditorTexts, Anchors
  <2>5. EditorOK(u)
    BY <2>2, <2>4 DEF EditorOK, AtPlace, Place
  <2>6. Leaves(u)
    BY <1>6, <2>2, <2>3 DEF select_all
  <2>7. QED
    BY <1>1, <2>5, <2>6, LeavesKeep
<1>7. ASSUME Edits(editor, Empty, FALSE) PROVE Boxes'
  <2>1. PICK u : u = editor /\ EditorOK(u)
    BY <1>1
  <2>2. Edits(u, Empty, FALSE)
    BY <1>7, <2>1
  <2>3. QED
    BY <1>1, <2>1, <2>2, EditsKeep
<1>8. ASSUME Edits(delete_selection(editor), Empty, FALSE) PROVE Boxes'
  <2>1. PICK u : u = delete_selection(editor) /\ EditorOK(u)
    BY <1>1, EditorFacts
  <2>2. Edits(u, Empty, FALSE)
    BY <1>8, <2>1
  <2>3. QED
    BY <1>1, <2>1, <2>2, EditsKeep
<1>9. ASSUME Edits(insert_str(editor, clipboard), Empty, FALSE) PROVE Boxes'
  <2>1. PICK u : u = insert_str(editor, clipboard) /\ EditorOK(u)
    BY <1>1, EditorFacts
  <2>2. Edits(u, Empty, FALSE)
    BY <1>9, <2>1
  <2>3. QED
    BY <1>1, <2>1, <2>2, EditsKeep
<1>10. ASSUME Types(cli_select_all(t), Empty) PROVE Boxes'
  <2>1. PICK u : u = cli_select_all(t) /\ CliOK(u)
    BY <1>2, CliSelects
  <2>2. QED
    BY <1>1, <1>10, <2>1, TypesKeep
<1>11. ASSUME Types(t, Empty) PROVE Boxes'
  BY <1>1, <1>2, <1>11, TypesKeep
<1>12. ASSUME Types(IF IsSelected(t) THEN cli_delete_selection(t) ELSE t, Empty) PROVE Boxes'
  <2>1. PICK u : u = (IF IsSelected(t) THEN cli_delete_selection(t) ELSE t) /\ CliOK(u)
    BY <1>2, CliDeletes
  <2>2. QED
    BY <1>1, <1>12, <2>1, TypesKeep
<1>13. ASSUME Types(cli_insert(t, clipboard), Empty) PROVE Boxes'
  <2>1. PICK s \in Seq(Char) : s = clipboard
    BY <1>1
  <2>2. PICK u : u = cli_insert(t, s) /\ CliOK(u)
    BY <1>2, CliPuts
  <2>3. Types(u, Empty)
    BY <1>13, <2>1, <2>2
  <2>4. QED
    BY <1>1, <2>2, <2>3, TypesKeep
<1>14. clipboard' \in Seq(Char)
  BY <1>1, <1>3, <1>4, <1>5, Zenon
<1>15. Boxes'
  BY <1>3, <1>6, <1>7, <1>8, <1>9, <1>10, <1>11, <1>12, <1>13, Zenon
<1>16. QED
  BY <1>14, <1>15 DEF Ui

LEMMA CtrlSKeeps ==
  ASSUME Ui, CtrlS
  PROVE  Ui' /\ Sent
<1>1. /\ Leaves(editor) /\ Send(Invoke("save_to_file", editor.window, editor.content))
      /\ clipboard' = clipboard
  BY DEF CtrlS
<1>2. Boxes /\ EditorOK(editor) /\ clipboard \in Seq(Char)
  BY DEF Ui, Boxes
<1>3. PICK u : u = editor /\ EditorOK(u)
  BY <1>2
<1>4. Boxes'
  BY <1>1, <1>2, <1>3, LeavesKeep
<1>5. editor.window \in Window /\ editor.content \in Seq(Char)
  BY <1>1, <1>2 DEF Leaves, ToEditor, EditorOpen, EditorOK, EditorTexts
<1>6. Sent
  BY <1>1, <1>5, ActionFacts DEF Sent
<1>7. QED
  BY <1>1, <1>2, <1>4, <1>6 DEF Ui

(* The mouse.                                                                *)
LEMMA DragFacts ==
  /\ <<"none">> \in Drags /\ <<"window">> \in Drags /\ <<"cli">> \in Drags /\ <<"scroll">> \in Drags
  /\ \A w \in Window : <<"moving", w>> \in Drags
BY DEF Drags

LEMMA MirrorFacts ==
  ASSUME Mirrored, NEW w \in Window
  PROVE  mirror[w].content \in Seq(Char)
BY DEF Mirrored, Windows

LEMMA PressContentKeeps ==
  ASSUME Ui, Mirrored, NEW w \in Window, PressContent(w)
  PROVE  Ui' /\ Sent
<1>1. Modes /\ HandsOK /\ CliOK(cli) /\ EditorOK(editor) /\ clipboard \in Seq(Char)
  BY DEF Ui, Boxes
<1>2. mirror[w].content \in Seq(Char)
  BY MirrorFacts
<1>3. EditorOK(EditorNew(w, mirror[w].content, 0))
  <2>1. PICK s \in Seq(Char) : s = mirror[w].content
    BY <1>2
  <2>2. 0 \in 0 .. Len(s) /\ w \in Window \cup {0}
    BY EmptyFacts
  <2>3. QED
    BY <2>1, <2>2, OpenedEditor
<1>4. PICK ed : ed = (IF editor.window = w THEN editor ELSE EditorNew(w, mirror[w].content, 0)) /\ EditorOK(ed)
  BY <1>1, <1>3
<1>5. PICK off \in Place(ed) : editor' = [ed EXCEPT !.cursor = off, !.anchor = off]
  BY <1>4 DEF PressContent
<1>6. EditorOK(editor')
  BY <1>4, <1>5, PlacedEditor
<1>7. /\ focus' = w /\ hangul' = Empty /\ preedit' = FALSE /\ drag' = <<"window">>
      /\ Send(Invoke("focus", w, None))
      /\ UNCHANGED <<korean, cli, clipboard, rename_input, crashed>>
  BY DEF PressContent
<1>8. Empty \in Syllables /\ <<"window">> \in Drags
  BY SyllableFacts, DragFacts
<1>9. Modes' /\ HandsOK'
  BY <1>1, <1>7, <1>8 DEF Modes, HandsOK
<1>10. Sent
  BY <1>7, ActionFacts DEF Sent
<1>11. QED
  BY <1>1, <1>6, <1>7, <1>9, <1>10 DEF Ui, Boxes

LEMMA PressTitleKeeps ==
  ASSUME Ui, NEW w \in Window, PressTitle(w)
  PROVE  Ui' /\ Sent
<1>1. Modes /\ HandsOK /\ CliOK(cli) /\ EditorOK(editor) /\ clipboard \in Seq(Char)
  BY DEF Ui, Boxes
<1>2. /\ drag' = <<"moving", w>> /\ Send(Invoke("focus", w, None))
      /\ UNCHANGED <<korean, hangul, preedit, cli, editor, focus, clipboard, rename_input, crashed>>
  BY DEF PressTitle, text
<1>3. <<"moving", w>> \in Drags
  BY DragFacts
<1>4. Modes' /\ HandsOK'
  BY <1>1, <1>2, <1>3 DEF Modes, HandsOK
<1>5. Sent
  BY <1>2, ActionFacts DEF Sent
<1>6. QED
  BY <1>1, <1>2, <1>4, <1>5 DEF Ui, Boxes

LEMMA PressesKeep ==
  ASSUME Ui, Mirrored, (\E w \in Window : PressClose(w)) \/ (\E f \in File : PressRow(f)) \/ PressRename
  PROVE  Ui' /\ Sent
<1>1. Boxes /\ clipboard \in Seq(Char)
  BY DEF Ui
<1>2. ASSUME NEW w \in Window, PressClose(w) PROVE Ui' /\ Sent
  <2>1. UNCHANGED <<korean, hangul, preedit, cli, editor, focus, clipboard, rename_input, drag, crashed>>
    BY <1>2 DEF PressClose, text
  <2>2. Send(Invoke("close_confirm", w, None))
    BY <1>2 DEF PressClose
  <2>3. QED
    BY <1>1, <2>1, <2>2, SameKeep, ActionFacts DEF Sent, Ui
<1>3. ASSUME NEW f \in File, PressRow(f) PROVE Ui' /\ Sent
  <2>1. UNCHANGED <<korean, hangul, preedit, cli, editor, focus, clipboard, rename_input, drag, crashed>>
    BY <1>3 DEF PressRow, text
  <2>2. Send(Invoke("select", 0, f)) \/ Send(Invoke("open_file", 0, f))
    BY <1>3 DEF PressRow
  <2>3. QED
    BY <1>1, <2>1, <2>2, SameKeep, ActionFacts DEF Sent, Ui
<1>4. ASSUME PressRename PROVE Ui' /\ Sent
  <2>1. /\ rename_input' = [target |-> mirror[Explorer].selected, buffer |-> Name]
        /\ UNCHANGED <<korean, hangul, preedit, cli, editor, focus, clipboard, drag, crashed, invokes>>
    BY <1>4 DEF PressRename, text
  <2>2. mirror[Explorer].selected \in File \cup {None}
    BY DEF Mirrored, Explorable, Explorers
  <2>3. Name \in Seq(Char)
    BY NameTyped
  <2>4. QED
    BY <1>1, <2>1, <2>2, <2>3, RenameKeeps DEF Names, Sent, Ui
<1>5. QED
  BY <1>2, <1>3, <1>4

LEMMA PressCliKeeps ==
  ASSUME Ui, PressCli
  PROVE  Ui'
<1>1. /\ Modes /\ HandsOK /\ CliOK(cli) /\ EditorOK(editor) /\ clipboard \in Seq(Char)
      /\ hangul \in Syllables /\ Empty \in Syllables
  BY SyllableFacts DEF Ui, Boxes, Modes
<1>2. PICK t : t = (IF focus # 0 THEN cli ELSE cli_flush(cli)) /\ CliOK(t)
  BY <1>1, CliFlushes
<1>3. \/ drag' = <<"cli">> /\ \E off \in Place(t) : cli' = [t EXCEPT !.cursor = off, !.anchor = off]
      \/ drag' = <<"scroll">> /\ cli' = [t EXCEPT !.anchor = NoAnchor]
  BY <1>2 DEF PressCli
<1>4. CliOK(cli') /\ drag' \in Drags
  <2>1. ASSUME NEW off \in Place(t), cli' = [t EXCEPT !.cursor = off, !.anchor = off] PROVE CliOK(cli')
    BY <1>2, <2>1, CliPlaced
  <2>2. ASSUME cli' = [t EXCEPT !.anchor = NoAnchor] PROVE CliOK(cli')
    <3>1. CliOK([t EXCEPT !.anchor = NoAnchor])
      BY <1>2, CliRange, CliAnchored
    <3>2. QED
      BY <2>2, <3>1
  <2>3. QED
    BY <1>3, <2>1, <2>2, DragFacts
<1>5. /\ focus' = 0 /\ hangul' = Empty /\ preedit' \in {FALSE, preedit}
      /\ UNCHANGED <<korean, editor, clipboard, rename_input, crashed>>
  BY DEF PressCli
<1>6. Modes' /\ HandsOK'
  BY <1>1, <1>4, <1>5 DEF Modes, HandsOK
<1>7. QED
  BY <1>1, <1>4, <1>5, <1>6 DEF Ui, Boxes

LEMMA DragKeeps ==
  ASSUME CliOK(cli), EditorOK(editor), DragTo \/ UNCHANGED <<cli, editor>>
  PROVE  CliOK(cli') /\ EditorOK(editor')
<1>1. CASE UNCHANGED <<cli, editor>>
  BY <1>1
<1>2. ASSUME NEW off \in Place(cli), cli' = [cli EXCEPT !.cursor = off], UNCHANGED editor
      PROVE  CliOK(cli') /\ EditorOK(editor')
  <2>1. PICK t : t = cli /\ CliOK(t) /\ off \in Place(t)
    OBVIOUS
  <2>2. CliOK([t EXCEPT !.cursor = off])
    BY <2>1, CliPlaced
  <2>3. QED
    BY <1>2, <2>1, <2>2
<1>3. ASSUME NEW off \in Place(editor), editor' = [editor EXCEPT !.cursor = off], UNCHANGED cli
      PROVE  CliOK(cli') /\ EditorOK(editor')
  <2>1. PICK t : t = editor /\ EditorOK(t) /\ off \in Place(t)
    OBVIOUS
  <2>2. EditorOK([t EXCEPT !.cursor = off])
    BY <2>1, PlacedEditor
  <2>3. QED
    BY <1>3, <2>1, <2>2
<1>4. QED
  BY <1>1, <1>2, <1>3 DEF DragTo

LEMMA HoldKeeps ==
  ASSUME Ui, Drag \/ Release
  PROVE  Ui' /\ Sent
<1>1. Modes /\ HandsOK /\ CliOK(cli) /\ EditorOK(editor) /\ clipboard \in Seq(Char)
  BY DEF Ui, Boxes
<1>2. CASE Drag
  <2>1. /\ DragTo
        /\ UNCHANGED <<korean, hangul, preedit, focus, clipboard, rename_input, drag, crashed, invokes>>
    BY <1>2 DEF Drag
  <2>2. CliOK(cli') /\ EditorOK(editor')
    BY <1>1, <2>1, DragKeeps
  <2>3. Modes' /\ HandsOK'
    BY <1>1, <2>1 DEF Modes, HandsOK
  <2>4. QED
    BY <1>1, <2>1, <2>2, <2>3 DEF Ui, Boxes, Sent
<1>3. CASE Release
  <2>1. /\ DragTo \/ UNCHANGED <<cli, editor>>
        /\ drag' = <<"none">> /\ drag \in Drags
        /\ IF drag[1] = "moving" THEN Send(Invoke("move", drag[2], None)) ELSE UNCHANGED invokes
        /\ UNCHANGED <<korean, hangul, preedit, focus, clipboard, rename_input, crashed>>
    BY <1>1, <1>3 DEF Release, HandsOK
  <2>2. CliOK(cli') /\ EditorOK(editor')
    BY <1>1, <2>1, DragKeeps
  <2>3. Modes' /\ HandsOK'
    BY <1>1, <2>1, DragFacts DEF Modes, HandsOK
  <2>4. Sent
    <3>1. CASE drag[1] = "moving"
      <4>1. drag[2] \in Window
        BY <2>1, <3>1 DEF Drags
      <4>2. QED
        BY <2>1, <3>1, <4>1, ActionFacts DEF Sent
    <3>2. CASE drag[1] # "moving"
      BY <2>1, <3>2 DEF Sent
    <3>3. QED
      BY <3>1, <3>2
  <2>5. QED
    BY <1>1, <2>1, <2>2, <2>3, <2>4 DEF Ui, Boxes
<1>4. QED
  BY <1>2, <1>3

LEMMA FrameKeeps ==
  ASSUME Ui, Mirrored, Frame
  PROVE  Ui'
<1>1. Modes /\ HandsOK /\ CliOK(cli) /\ EditorOK(editor) /\ clipboard \in Seq(Char) /\ focus \in Window \cup {0}
  BY DEF Ui, Boxes, HandsOK
<1>2. /\ editor' = IF focus = 0 THEN NoEditor
                   ELSE EditorNew(focus, mirror[focus].content, Len(mirror[focus].content))
      /\ UNCHANGED <<korean, hangul, preedit, cli, focus, clipboard, rename_input, drag, crashed>>
  BY DEF Frame
<1>3. EditorOK(editor')
  <2>1. CASE focus = 0
    <3>1. <<>> \in Seq(Char) /\ 0 \in 0 .. Len(<<>>) /\ 0 \in Window \cup {0}
      BY EmptyFacts
    <3>2. EditorOK(NoEditor)
      BY <3>1, OpenedEditor DEF NoEditor
    <3>3. QED
      BY <1>2, <2>1, <3>2
  <2>2. CASE focus # 0
    <3>1. PICK w \in Window, s \in Seq(Char), n \in Nat : w = focus /\ s = mirror[w].content /\ n = Len(s)
      BY <1>1, <2>2, MirrorFacts, EmptyFacts
    <3>2. EditorOK(EditorNew(w, s, n))
      BY <3>1, OpenedEditor
    <3>3. QED
      BY <1>2, <2>2, <3>1, <3>2
  <2>3. QED
    BY <2>1, <2>2
<1>4. Modes' /\ HandsOK'
  BY <1>1, <1>2 DEF Modes, HandsOK
<1>5. QED
  BY <1>1, <1>2, <1>3, <1>4 DEF Ui, Boxes

UiStep ==
    \/ \E l \in Jamo : KeyJamo(l)
    \/ \E p \in Plain : KeyPlain(p)
    \/ KeyBackspace \/ KeyEnter \/ KeyToggle \/ KeyEsc \/ CtrlKey \/ CtrlS
    \/ \E w \in Window : PressContent(w) \/ PressTitle(w) \/ PressClose(w)
    \/ PressCli \/ (\E f \in File : PressRow(f)) \/ PressRename
    \/ Drag \/ Release \/ Frame

LEMMA NextSplit == [Next]_vars <=> UiStep \/ HandleInvoke \/ Hear \/ UNCHANGED vars
BY DEF Next, UiStep

LEMMA UiStepKeeps ==
  ASSUME Ui, Mirrored, UiStep
  PROVE  Ui' /\ Sent
<1>1. ASSUME (\E l \in Jamo : KeyJamo(l)) \/ (\E p \in Plain : KeyPlain(p)) \/ KeyBackspace
             \/ KeyToggle \/ KeyEsc \/ CtrlKey \/ PressCli \/ Frame
      PROVE  Ui' /\ Sent
  <2>1. Ui'
    BY <1>1, KeyJamoKeeps, KeyPlainKeeps, KeyBackspaceKeeps, KeyToggleKeeps, KeyEscKeeps, CtrlKeyKeeps,
       PressCliKeeps, FrameKeeps
  <2>2. UNCHANGED invokes
    BY <1>1 DEF KeyJamo, KeyPlain, KeyBackspace, KeyToggle, KeyEsc, CtrlKey, PressCli, Frame
  <2>3. QED
    BY <2>1, <2>2 DEF Sent
<1>2. ASSUME KeyEnter \/ CtrlS \/ (\E w \in Window : PressContent(w) \/ PressTitle(w) \/ PressClose(w))
             \/ (\E f \in File : PressRow(f)) \/ PressRename \/ Drag \/ Release
      PROVE  Ui' /\ Sent
  BY <1>2, KeyEnterKeeps, CtrlSKeeps, PressContentKeeps, PressTitleKeeps, PressesKeep, HoldKeeps
<1>3. QED
  BY <1>1, <1>2, Zenon DEF UiStep

LEMMA UiStepLeaves ==
  ASSUME UiStep
  PROVE  UNCHANGED <<windows, files, selected, mirror, news>>
<1>1. ASSUME (\E l \in Jamo : KeyJamo(l)) \/ (\E p \in Plain : KeyPlain(p)) \/ KeyBackspace \/ KeyEnter
             \/ KeyToggle \/ KeyEsc \/ CtrlKey \/ CtrlS
      PROVE  UNCHANGED <<shell, mirror, news>>
  BY <1>1 DEF KeyJamo, KeyPlain, KeyBackspace, KeyEnter, KeyToggle, KeyEsc, CtrlKey, CtrlS
<1>2. ASSUME (\E w \in Window : PressContent(w) \/ PressTitle(w) \/ PressClose(w))
             \/ PressCli \/ (\E f \in File : PressRow(f)) \/ PressRename \/ Drag \/ Release \/ Frame
      PROVE  UNCHANGED <<shell, mirror, news>>
  BY <1>2 DEF PressContent, PressTitle, PressClose, PressCli, PressRow, PressRename, Drag, Release, Frame
<1>3. UNCHANGED <<shell, mirror, news>>
  BY <1>1, <1>2, Zenon DEF UiStep
<1>4. QED
  BY <1>3 DEF shell

-----------------------------------------------------------------------------
(* News: what has been said and not yet heard.  Will says that the mirror    *)
(* shows v, in field n of p, once all of it has been heard: the last to say  *)
(* anything of it says v, or nobody does and the mirror shows v already.     *)

Says(q, i, p, n) == i \in DOMAIN q /\ p \in DOMAIN q[i] /\ n \in DOMAIN q[i][p]
Will(q, m, p, n, v) ==
    /\ (\A i \in DOMAIN q : ~Says(q, i, p, n)) => m[p][n] = v
    /\ \A i \in DOMAIN q : Says(q, i, p, n) /\ (\A j \in DOMAIN q : j > i => ~Says(q, j, p, n))
                              => q[i][p][n] = v

LEMMA WillNow ==
  ASSUME NEW m, NEW p, NEW n, NEW v
  PROVE  Will(<<>>, m, p, n, v) <=> m[p][n] = v
BY DEF Will, Says

LEMMA WillAppend ==
  ASSUME NEW S, NEW q \in Seq(S), NEW said \in S, NEW m, NEW p, NEW n, NEW v, NEW u,
         Will(q, m, p, n, v),
         IF p \in DOMAIN said /\ n \in DOMAIN said[p] THEN said[p][n] = u ELSE u = v
  PROVE  Will(Append(q, said), m, p, n, u)
<1>1. PICK k \in Nat : k = Len(q)
  BY EmptyFacts
<1>2. PICK a : a = Append(q, said)
  OBVIOUS
<1>3. /\ DOMAIN q = 1 .. k /\ DOMAIN a = 1 .. k + 1 /\ a[k + 1] = said
      /\ \A i \in 1 .. k : a[i] = q[i]
  BY <1>1, <1>2, AppendFacts
<1>4. \A i \in 1 .. k : Says(a, i, p, n) <=> Says(q, i, p, n)
  BY <1>3 DEF Says
<1>5. CASE p \in DOMAIN said /\ n \in DOMAIN said[p]
  <2>1. Says(a, k + 1, p, n) /\ a[k + 1][p][n] = u
    BY <1>3, <1>5 DEF Says
  <2>2. \A i \in DOMAIN a : (\A j \in DOMAIN a : j > i => ~Says(a, j, p, n)) => i = k + 1
    <3>1. ASSUME NEW i \in DOMAIN a, \A j \in DOMAIN a : j > i => ~Says(a, j, p, n), i # k + 1 PROVE FALSE
      <4>1. k + 1 \in DOMAIN a /\ k + 1 > i
        BY <1>3, <3>1
      <4>2. QED
        BY <2>1, <3>1, <4>1
    <3>2. QED
      BY <3>1
  <2>3. k + 1 \in DOMAIN a
    BY <1>3
  <2>4. Will(a, m, p, n, u)
    BY <2>1, <2>2, <2>3, Zenon DEF Will
  <2>5. QED
    BY <1>2, <2>4
<1>6. CASE ~(p \in DOMAIN said /\ n \in DOMAIN said[p])
  <2>1. ~Says(a, k + 1, p, n) /\ u = v
    BY <1>3, <1>6 DEF Says
  <2>2. ASSUME \A i \in DOMAIN a : ~Says(a, i, p, n) PROVE m[p][n] = u
    <3>1. \A i \in DOMAIN q : ~Says(q, i, p, n)
      BY <1>3, <1>4, <2>2
    <3>2. QED
      BY <2>1, <3>1 DEF Will
  <2>3. ASSUME NEW i \in DOMAIN a, Says(a, i, p, n), \A j \in DOMAIN a : j > i => ~Says(a, j, p, n)
        PROVE  a[i][p][n] = u
    <3>1. i \in DOMAIN q /\ Says(q, i, p, n) /\ a[i] = q[i]
      BY <1>3, <1>4, <2>1, <2>3
    <3>2. \A j \in DOMAIN q : j > i => ~Says(q, j, p, n)
      BY <1>3, <1>4, <2>3
    <3>3. q[i][p][n] = v
      BY <3>1, <3>2, Zenon DEF Will
    <3>4. QED
      BY <2>1, <3>1, <3>3
  <2>4. Will(a, m, p, n, u)
    BY <2>2, <2>3, Zenon DEF Will
  <2>5. QED
    BY <1>2, <2>4
<1>7. QED
  BY <1>5, <1>6

LEMMA WillTail ==
  ASSUME NEW S, NEW q \in Seq(S), q # <<>>, NEW m, NEW h, NEW p, NEW n, NEW v,
         Will(q, m, p, n, v),
         IF Says(q, 1, p, n) THEN h[p][n] = q[1][p][n] ELSE h[p][n] = m[p][n]
  PROVE  Will(Tail(q), h, p, n, v)
<1>1. PICK k \in Nat : k = Len(q) /\ k >= 1
  BY TailFacts
<1>2. PICK t : t = Tail(q)
  OBVIOUS
<1>3. DOMAIN q = 1 .. k /\ DOMAIN t = 1 .. k - 1 /\ \A i \in 1 .. k - 1 : t[i] = q[i + 1]
  BY <1>1, <1>2, TailFacts
<1>4. \A i \in 1 .. k - 1 : i + 1 \in 1 .. k /\ (Says(t, i, p, n) <=> Says(q, i + 1, p, n))
  BY <1>3 DEF Says
<1>5. ASSUME \A i \in DOMAIN t : ~Says(t, i, p, n) PROVE h[p][n] = v
  <2>1. \A j \in 1 .. k : j # 1 => ~Says(q, j, p, n)
    <3>1. ASSUME NEW j \in 1 .. k, j # 1 PROVE ~Says(q, j, p, n)
      <4>1. PICK i \in 1 .. k - 1 : j = i + 1
        <5>1. j - 1 \in 1 .. k - 1 /\ j = (j - 1) + 1
          BY <3>1
        <5>2. QED
          BY <5>1
      <4>2. QED
        BY <1>3, <1>4, <1>5, <4>1
    <3>2. QED
      BY <3>1
  <2>2. CASE Says(q, 1, p, n)
    <3>1. 1 \in DOMAIN q /\ \A j \in DOMAIN q : j > 1 => ~Says(q, j, p, n)
      BY <1>1, <1>3, <2>1
    <3>2. q[1][p][n] = v
      BY <2>2, <3>1, Zenon DEF Will
    <3>3. QED
      BY <2>2, <3>2
  <2>3. CASE ~Says(q, 1, p, n)
    <3>1. \A j \in DOMAIN q : ~Says(q, j, p, n)
      BY <1>3, <2>1, <2>3
    <3>2. m[p][n] = v
      BY <3>1, Zenon DEF Will
    <3>3. QED
      BY <2>3, <3>2
  <2>4. QED
    BY <2>2, <2>3
<1>6. ASSUME NEW i \in DOMAIN t, Says(t, i, p, n), \A j \in DOMAIN t : j > i => ~Says(t, j, p, n)
      PROVE  t[i][p][n] = v
  <2>1. PICK i1 \in 1 .. k : i1 = i + 1 /\ Says(q, i1, p, n) /\ t[i] = q[i1]
    BY <1>3, <1>4, <1>6
  <2>2. \A j \in DOMAIN q : j > i1 => ~Says(q, j, p, n)
    <3>1. ASSUME NEW j \in 1 .. k, j > i1 PROVE ~Says(q, j, p, n)
      <4>1. PICK j1 \in 1 .. k - 1 : j = j1 + 1 /\ j1 > i
        <5>1. j - 1 \in 1 .. k - 1 /\ j = (j - 1) + 1 /\ j - 1 > i
          BY <1>3, <2>1, <3>1
        <5>2. QED
          BY <5>1
      <4>2. QED
        BY <1>3, <1>4, <1>6, <4>1
    <3>2. QED
      BY <1>3, <3>1
  <2>3. q[i1][p][n] = v
    BY <1>3, <2>1, <2>2, Zenon DEF Will
  <2>4. QED
    BY <2>1, <2>3
<1>7. Will(t, h, p, n, v)
  BY <1>5, <1>6, Zenon DEF Will
<1>8. QED
  BY <1>2, <1>7

-----------------------------------------------------------------------------
(* Windows, and what is said of them.                                        *)

Fields == {"status", "file", "content", "focused", "dirty", "z", "moved"}
SaidOK(said) == /\ DOMAIN said \subseteq Window \cup {Explorer}
                /\ \A p \in DOMAIN said : said[p] \in Saids(p)
IsSeq(q) == \E S : q \in Seq(S)

LEMMA WindowFields ==
  ASSUME NEW r \in Windows
  PROVE  /\ DOMAIN r = Fields
         /\ r["status"] = r.status /\ r["file"] = r.file /\ r["content"] = r.content
         /\ r["focused"] = r.focused /\ r["dirty"] = r.dirty /\ r["z"] = r.z /\ r["moved"] = r.moved
BY DEF Windows, Fields

LEMMA ChangedAt ==
  ASSUME NEW old, NEW new, NEW n \in DOMAIN old
  PROVE  Changed(old, new)[n] = (IF n \in DOMAIN new THEN new[n] ELSE old[n])
BY DEF Changed

LEMMA ExplorerIsNone == Explorer \notin Window
BY DEF Explorer, Window

LEMMA WindowSaids ==
  ASSUME NEW w \in Window
  PROVE  Saids(w) = Windows \cup [focused : {TRUE}, z : Nat] \cup [focused : {FALSE}]
                    \cup [status : {"closed"}] \cup [dirty : {FALSE}, content : Seq(Char)]
                    \cup [moved : {TRUE}]
BY ExplorerIsNone DEF Saids

LEMMA ChangedWindow ==
  ASSUME NEW w \in Window, NEW r \in Windows, NEW x \in Saids(w)
  PROVE  Changed(r, x) \in Windows /\ DOMAIN x \subseteq Fields
<1>1. CASE x \in Windows
  BY <1>1 DEF Windows, Changed, Fields
<1>2. CASE x \in [focused : {TRUE}, z : Nat]
  BY <1>2 DEF Windows, Changed, Fields
<1>3. CASE x \in [focused : {FALSE}]
  BY <1>3 DEF Windows, Changed, Fields
<1>4. CASE x \in [status : {"closed"}]
  BY <1>4 DEF Windows, Changed, Fields
<1>5. CASE x \in [dirty : {FALSE}, content : Seq(Char)]
  BY <1>5 DEF Windows, Changed, Fields
<1>6. CASE x \in [moved : {TRUE}]
  BY <1>6 DEF Windows, Changed, Fields
<1>7. QED
  BY <1>1, <1>2, <1>3, <1>4, <1>5, <1>6, WindowSaids

LEMMA ChangedExplorer ==
  ASSUME NEW r \in Explorers, NEW x \in Saids(Explorer)
  PROVE  Changed(r, x) \in Explorers /\ DOMAIN r = {"rows", "selected"}
<1>1. Saids(Explorer) = Explorers \cup [selected : File]
  BY DEF Saids
<1>2. CASE x \in Explorers
  BY <1>2 DEF Explorers, Changed
<1>3. CASE x \in [selected : File]
  BY <1>3 DEF Explorers, Changed
<1>4. QED
  BY <1>1, <1>2, <1>3

(* What the mirror will show of a window r of the shell.                     *)
WillShow(q, m, w, r) ==
    /\ Will(q, m, w, "status", r.status)
    /\ r.status = "open" => \A n \in Fields : Will(q, m, w, n, r[n])

(* The ways in which a handler may deal with a window that was r and is s.   *)
Told(said, w, r, s) ==
    \/ w \notin DOMAIN said /\ s = r
    \/ w \in DOMAIN said /\ r.status = "open" /\ s = Changed(r, said[w])
    \/ w \in DOMAIN said /\ said[w] = s
    \/ w \in DOMAIN said /\ s.status # "open" /\ "status" \in DOMAIN said[w] /\ said[w]["status"] = s.status
    \/ w \in DOMAIN said /\ r.status # "open" /\ s = r /\ "status" \notin DOMAIN said[w]

LEMMA WillShowAppend ==
  ASSUME NEW S, NEW q \in Seq(S), NEW said \in S, NEW m, NEW w, NEW r \in Windows, NEW s \in Windows,
         WillShow(q, m, w, r), Told(said, w, r, s)
  PROVE  WillShow(Append(q, said), m, w, s)
<1>1. DOMAIN r = Fields /\ DOMAIN s = Fields /\ r["status"] = r.status /\ s["status"] = s.status
      /\ "status" \in Fields
  BY WindowFields DEF Fields
<1>2. Will(q, m, w, "status", r.status)
  BY DEF WillShow
<1>3. ASSUME r.status = "open", NEW n \in Fields PROVE Will(q, m, w, n, r[n])
  BY <1>3 DEF WillShow
<1>4. CASE w \notin DOMAIN said /\ s = r
  <2>1. \A n, v : Will(q, m, w, n, v) => Will(Append(q, said), m, w, n, v)
    BY <1>4, WillAppend
  <2>2. QED
    BY <1>2, <1>3, <1>4, <2>1 DEF WillShow
<1>5. CASE w \in DOMAIN said /\ r.status = "open" /\ s = Changed(r, said[w])
  <2>1. ASSUME NEW n \in Fields PROVE Will(Append(q, said), m, w, n, s[n])
    <3>1. s[n] = (IF n \in DOMAIN said[w] THEN said[w][n] ELSE r[n])
      BY <1>1, <1>5, ChangedAt
    <3>2. Will(q, m, w, n, r[n])
      BY <1>3, <1>5
    <3>3. PICK v, u : v = r[n] /\ u = s[n]
      OBVIOUS
    <3>4. IF w \in DOMAIN said /\ n \in DOMAIN said[w] THEN said[w][n] = u ELSE u = v
      BY <1>5, <3>1, <3>3
    <3>5. Will(q, m, w, n, v)
      BY <3>2, <3>3
    <3>6. Will(Append(q, said), m, w, n, u)
      BY <3>4, <3>5, WillAppend
    <3>7. QED
      BY <3>3, <3>6
  <2>2. QED
    BY <1>1, <2>1 DEF WillShow
<1>6. CASE w \in DOMAIN said /\ said[w] = s
  <2>1. \A n \in Fields : Will(Append(q, said), m, w, n, s[n])
    <3>1. ASSUME NEW n \in Fields PROVE \A i \in DOMAIN Append(q, said) :
              (\A j \in DOMAIN Append(q, said) : j > i => ~Says(Append(q, said), j, w, n)) => i = Len(q) + 1
      <4>1. DOMAIN Append(q, said) = 1 .. Len(q) + 1 /\ Append(q, said)[Len(q) + 1] = said /\ Len(q) \in Nat
        BY AppendFacts, EmptyFacts
      <4>2. Says(Append(q, said), Len(q) + 1, w, n)
        BY <1>1, <1>6, <4>1 DEF Says
      <4>3. QED
        BY <4>1, <4>2
    <3>2. ASSUME NEW n \in Fields PROVE Will(Append(q, said), m, w, n, s[n])
      <4>1. PICK k \in Nat, a \in {Append(q, said)} : a = Append(q, said) /\ k = Len(q)
        BY EmptyFacts
      <4>2. DOMAIN a = 1 .. k + 1 /\ a[k + 1] = said /\ k + 1 \in DOMAIN a
        BY <4>1, AppendFacts
      <4>3. Says(a, k + 1, w, n) /\ a[k + 1][w][n] = s[n]
        BY <1>1, <1>6, <4>2 DEF Says
      <4>4. \A i \in DOMAIN a : (\A j \in DOMAIN a : j > i => ~Says(a, j, w, n)) => i = k + 1
        BY <3>1, <4>1
      <4>5. Will(a, m, w, n, s[n])
        BY <4>2, <4>3, <4>4, Zenon DEF Will
      <4>6. QED
        BY <4>1, <4>5
    <3>3. QED
      BY <3>2
  <2>2. QED
    BY <1>1, <2>1 DEF WillShow
<1>7. CASE w \in DOMAIN said /\ s.status # "open" /\ "status" \in DOMAIN said[w] /\ said[w]["status"] = s.status
  <2>1. PICK v, u : v = r.status /\ u = s.status
    OBVIOUS
  <2>2. Will(q, m, w, "status", v)
    BY <1>2, <2>1
  <2>3. IF w \in DOMAIN said /\ "status" \in DOMAIN said[w] THEN said[w]["status"] = u ELSE u = v
    BY <1>7, <2>1
  <2>4. Will(Append(q, said), m, w, "status", u)
    BY <2>2, <2>3, WillAppend
  <2>5. QED
    BY <1>7, <2>1, <2>4 DEF WillShow
<1>8. CASE w \in DOMAIN said /\ r.status # "open" /\ s = r /\ "status" \notin DOMAIN said[w]
  <2>1. \A v : Will(q, m, w, "status", v) => Will(Append(q, said), m, w, "status", v)
    BY <1>8, WillAppend
  <2>2. QED
    BY <1>2, <1>8, <2>1 DEF WillShow
<1>9. QED
  BY <1>4, <1>5, <1>6, <1>7, <1>8 DEF Told

LEMMA WillShowTail ==
  ASSUME NEW S, NEW q \in Seq(S), q # <<>>, NEW m, NEW h, NEW w \in DOMAIN m, NEW r \in Windows,
         DOMAIN m[w] = Fields, WillShow(q, m, w, r),
         h = [p \in DOMAIN m |-> IF p \in DOMAIN q[1] THEN Changed(m[p], q[1][p]) ELSE m[p]]
  PROVE  WillShow(Tail(q), h, w, r)
<1>1. 1 \in DOMAIN q /\ "status" \in Fields
  BY TailFacts DEF Fields
<1>2. h[w] = IF w \in DOMAIN q[1] THEN Changed(m[w], q[1][w]) ELSE m[w]
  OBVIOUS
<1>3. ASSUME NEW n \in Fields PROVE IF Says(q, 1, w, n) THEN h[w][n] = q[1][w][n] ELSE h[w][n] = m[w][n]
  <2>1. CASE w \in DOMAIN q[1]
    <3>1. Changed(m[w], q[1][w])[n] = (IF n \in DOMAIN q[1][w] THEN q[1][w][n] ELSE m[w][n])
      BY ChangedAt
    <3>2. QED
      BY <1>1, <1>2, <2>1, <3>1 DEF Says
  <2>2. CASE w \notin DOMAIN q[1]
    BY <1>2, <2>2 DEF Says
  <2>3. QED
    BY <2>1, <2>2
<1>4. ASSUME NEW n \in Fields, NEW v, Will(q, m, w, n, v) PROVE Will(Tail(q), h, w, n, v)
  BY <1>3, <1>4, WillTail
<1>5. QED
  BY <1>1, <1>4 DEF WillShow

-----------------------------------------------------------------------------
(* The shell: its windows, and what its handlers say of them.                *)

Kept    == /\ files \in [File -> [live : BOOLEAN, content : Seq(Char)]]
           /\ selected \in File \cup {None} /\ windows \in [Window -> Windows]
           /\ \A w \in Window : Open(w) => windows[w].file \in File
Bounded == \E b \in Nat : \A w \in Window : windows[w].z <= b
NewsOK  == IsSeq(news) /\ \A i \in DOMAIN news : SaidOK(news[i])
ExplorerAgrees == Will(news, mirror, Explorer, "rows", Live) /\ Will(news, mirror, Explorer, "selected", selected)
Agree   == /\ \A w \in Window : WillShow(news, mirror, w, windows[w])
           /\ ExplorerAgrees
Shell   == Kept /\ Bounded /\ FocusedOnTop /\ NewsOK /\ Agree

LEMMA MaxFacts ==
  ASSUME windows \in [Window -> Windows], Bounded
  PROVE  max_z \in Nat /\ \A w \in Window : Open(w) => windows[w].z <= max_z
<1> DEFINE T == {0} \cup {windows[w].z : w \in Window}
<1>1. PICK b \in Nat : \A w \in Window : windows[w].z <= b
  BY DEF Bounded
<1>2. \A w \in Window : windows[w].z \in Nat
  BY DEF Windows
<1>3. T \subseteq Nat /\ 0 \in T /\ \A z \in T : z <= b
  BY <1>1, <1>2
<1>4. PICK z \in T : \A y \in T : y <= z
  <2> HIDE DEF T
  <2>1. T # {}
    BY <1>3
  <2>2. QED
    BY <1>3, <2>1, Largest
<1>5. \A w \in Window : Open(w) => windows[w].z <= z
  BY <1>4
<1>6. max_z \in T /\ \A w \in Window : Open(w) => windows[w].z <= max_z
  BY <1>4, <1>5 DEF max_z
<1>7. QED
  BY <1>3, <1>6

LEMMA SaysAppends ==
  ASSUME NewsOK, NEW said, SaidOK(said), Broadcast(said)
  PROVE  /\ NewsOK'
         /\ \E S : news \in Seq(S) /\ said \in S /\ news' = Append(news, said)
<1>1. PICK R : news \in Seq(R)
  BY DEF NewsOK, IsSeq
<1>2. PICK S : S = R \cup {said}
  OBVIOUS
<1>3. news \in Seq(S) /\ said \in S
  <2>1. news \in [1 .. Len(news) -> R] /\ Len(news) \in Nat
    BY <1>1
  <2>2. \A i \in 1 .. Len(news) : news[i] \in S
    BY <1>2, <2>1
  <2>3. QED
    BY <1>1, <1>2, <2>1, <2>2
<1>4. news' = Append(news, said)
  BY DEF Broadcast
<1>5. /\ news' \in Seq(S) /\ DOMAIN news' = 1 .. Len(news) + 1 /\ news'[Len(news) + 1] = said
      /\ \A i \in 1 .. Len(news) : news'[i] = news[i]
      /\ DOMAIN news = 1 .. Len(news) /\ Len(news) \in Nat
  BY <1>3, <1>4, AppendFacts
<1>6. \A i \in DOMAIN news' : SaidOK(news'[i])
  BY <1>5 DEF NewsOK
<1>7. QED
  BY <1>3, <1>4, <1>5, <1>6 DEF NewsOK, IsSeq

(* What all handlers have in common: they say what they do.                  *)
LEMMA Honest ==
  ASSUME Kept, NewsOK, Agree, NEW said, SaidOK(said), Broadcast(said), UNCHANGED mirror,
         windows' \in [Window -> Windows],
         \A w \in Window : Told(said, w, windows[w], windows'[w]),
         IF Explorer \in DOMAIN said /\ "rows" \in DOMAIN said[Explorer]
             THEN said[Explorer]["rows"] = Live' ELSE Live' = Live,
         IF Explorer \in DOMAIN said /\ "selected" \in DOMAIN said[Explorer]
             THEN said[Explorer]["selected"] = selected' ELSE selected' = selected
  PROVE  NewsOK' /\ Agree'
<1>1. PICK S : news \in Seq(S) /\ said \in S /\ news' = Append(news, said)
  BY SaysAppends
<1>2. PICK q \in Seq(S) : q = news
  BY <1>1
<1>m. PICK m : m = mirror
  OBVIOUS
<1>3. news' = Append(q, said) /\ mirror' = m
  BY <1>1, <1>2, <1>m
<1>4. ASSUME NEW w \in Window PROVE WillShow(news', mirror', w, windows'[w])
  <2>1. PICK r \in Windows, s \in Windows : r = windows[w] /\ s = windows'[w]
    BY DEF Kept
  <2>2. WillShow(q, m, w, r) /\ Told(said, w, r, s)
    BY <1>2, <1>m, <2>1 DEF Agree
  <2>3. WillShow(Append(q, said), m, w, s)
    BY <1>1, <2>2, WillShowAppend
  <2>4. QED
    BY <1>3, <2>1, <2>3
<1>5. Will(news', mirror', Explorer, "rows", Live')
  <2>1. PICK v, u : v = Live /\ u = Live'
    OBVIOUS
  <2>2. Will(q, m, Explorer, "rows", v)
    BY <1>2, <1>m, <2>1 DEF Agree, ExplorerAgrees
  <2>3. IF Explorer \in DOMAIN said /\ "rows" \in DOMAIN said[Explorer]
             THEN said[Explorer]["rows"] = u ELSE u = v
    BY <2>1
  <2>4. Will(Append(q, said), m, Explorer, "rows", u)
    BY <1>1, <2>2, <2>3, WillAppend
  <2>5. QED
    BY <1>3, <2>1, <2>4
<1>6. Will(news', mirror', Explorer, "selected", selected')
  <2>1. PICK v, u : v = selected /\ u = selected'
    OBVIOUS
  <2>2. Will(q, m, Explorer, "selected", v)
    BY <1>2, <1>m, <2>1 DEF Agree, ExplorerAgrees
  <2>3. IF Explorer \in DOMAIN said /\ "selected" \in DOMAIN said[Explorer]
             THEN said[Explorer]["selected"] = u ELSE u = v
    BY <2>1
  <2>4. Will(Append(q, said), m, Explorer, "selected", u)
    BY <1>1, <2>2, <2>3, WillAppend
  <2>5. QED
    BY <1>3, <2>1, <2>4
<1>7. QED
  BY <1>4, <1>5, <1>6, SaysAppends DEF Agree, ExplorerAgrees

LEMMA QuietKeeps ==
  ASSUME Shell, UNCHANGED <<windows, files, selected, news, mirror>>
  PROVE  Shell'
<1>1. Kept' /\ Bounded' /\ FocusedOnTop' /\ NewsOK'
  BY DEF Shell, Kept, Bounded, FocusedOnTop, NewsOK, Open
<1>2. Agree'
  BY DEF Shell, Agree, ExplorerAgrees, Live
<1>3. QED
  BY <1>1, <1>2 DEF Shell

(* One window, or the Explorer, is spoken of.                                *)
LEMMA OneSaid ==
  ASSUME NEW p \in Window \cup {Explorer}, NEW x \in Saids(p), SaysOf(p, x)
  PROVE  \E said : /\ SaidOK(said) /\ Broadcast(said)
                   /\ DOMAIN said = {p} /\ said[p] = x
<1>1. PICK said : said = [q \in {p} |-> x]
  OBVIOUS
<1>2. DOMAIN said = {p} /\ said[p] = x
  BY <1>1
<1>3. QED
  BY <1>1, <1>2 DEF SaysOf, SaidOK

Becoming(w, t, top) == IF w = t THEN [focused |-> TRUE, z |-> top] ELSE [focused |-> FALSE]
FocusStep(t, top) ==
    /\ windows' = [w \in Window |-> IF Open(w) THEN Changed(windows[w], Becoming(w, t, top)) ELSE windows[w]]
    /\ Broadcast([w \in OpenWindows |-> Becoming(w, t, top)])
    /\ UNCHANGED <<files, selected>>

LEMMA FocusKeeps ==
  ASSUME Shell, NEW t, handle_focus(t), UNCHANGED mirror
  PROVE  Shell'
<1>1. PICK top \in Nat : top = max_z + 1 /\ \A w \in Window : Open(w) => windows[w].z < top
  <2>1. max_z \in Nat /\ \A w \in Window : Open(w) => windows[w].z <= max_z
    BY MaxFacts DEF Shell, Kept
  <2>2. PICK n \in Nat : n = max_z + 1
    BY <2>1
  <2>3. \A w \in Window : Open(w) => windows[w].z \in Nat
    BY DEF Shell, Kept, Windows
  <2>4. \A w \in Window : Open(w) => windows[w].z < n
    BY <2>1, <2>2, <2>3
  <2>5. QED
    BY <2>2, <2>4
<1>2. FocusStep(t, top)
  BY <1>1 DEF handle_focus, FocusStep, Becoming
<1>3. PICK said : said = [w \in OpenWindows |-> Becoming(w, t, top)]
  OBVIOUS
<1>4. /\ DOMAIN said = OpenWindows /\ \A w \in OpenWindows : said[w] = Becoming(w, t, top)
      /\ Broadcast(said) /\ OpenWindows = {w \in Window : windows[w].status = "open"}
  BY <1>2, <1>3 DEF FocusStep, OpenWindows, Open
<1>5. ASSUME NEW w \in Window PROVE Becoming(w, t, top) \in Saids(w)
  BY WindowSaids DEF Becoming
<1>6. SaidOK(said)
  BY <1>4, <1>5 DEF SaidOK
<1>7. ASSUME NEW w \in Window
      PROVE  /\ windows[w] \in Windows /\ windows'[w] \in Windows
             /\ windows'[w] = (IF Open(w) THEN Changed(windows[w], Becoming(w, t, top)) ELSE windows[w])
             /\ windows'[w].status = windows[w].status /\ windows'[w].file = windows[w].file
             /\ Open(w) => /\ windows'[w].focused = (w = t)
                           /\ windows'[w].z = IF w = t THEN top ELSE windows[w].z
             /\ ~Open(w) => windows'[w] = windows[w]
  <2>1. windows[w] \in Windows
    BY DEF Shell, Kept
  <2>2. windows'[w] = (IF Open(w) THEN Changed(windows[w], Becoming(w, t, top)) ELSE windows[w])
    BY <1>2 DEF FocusStep
  <2>3. CASE ~Open(w)
    BY <2>1, <2>2, <2>3
  <2>4. CASE Open(w)
    <3>1. PICK r \in Windows : r = windows[w]
      BY <2>1
    <3>2. PICK s : s = Changed(r, Becoming(w, t, top))
      OBVIOUS
    <3>3. s \in Windows
      BY <1>5, <3>2, ChangedWindow
    <3>4. /\ s.status = r.status /\ s.file = r.file /\ s.focused = (w = t)
          /\ s.z = IF w = t THEN top ELSE r.z
      <4>1. CASE w = t
        BY <3>2, <4>1 DEF Becoming, Changed, Windows
      <4>2. CASE w # t
        BY <3>2, <4>2 DEF Becoming, Changed, Windows
      <4>3. QED
        BY <4>1, <4>2
    <3>5. windows'[w] = s
      BY <2>2, <2>4, <3>1, <3>2
    <3>6. QED
      BY <2>2, <2>4, <3>1, <3>3, <3>4, <3>5
  <2>5. QED
    BY <2>3, <2>4
<1>8. windows' \in [Window -> Windows] /\ UNCHANGED <<files, selected>>
  <2>1. windows' = [w \in Window |-> windows'[w]]
    BY <1>2 DEF FocusStep
  <2>2. QED
    BY <1>2, <1>7, <2>1 DEF FocusStep
<1>9. Kept'
  <2>1. \A w \in Window : Open(w)' => windows'[w].file \in File
    BY <1>7 DEF Shell, Kept, Open
  <2>2. QED
    BY <1>8, <2>1 DEF Shell, Kept
<1>10. Bounded'
  <2>1. PICK b \in Nat : \A w \in Window : windows[w].z <= b
    BY DEF Shell, Bounded
  <2>2. \A w \in Window : windows[w].z \in Nat
    BY DEF Shell, Kept, Windows
  <2>3. PICK c \in Nat : c = b + top
    OBVIOUS
  <2>4. \A w \in Window : windows'[w].z = windows[w].z \/ windows'[w].z = top
    BY <1>7
  <2>5. \A w \in Window : windows'[w].z <= c
    BY <2>1, <2>2, <2>3, <2>4
  <2>6. QED
    BY <2>5 DEF Bounded
<1>11. FocusedOnTop'
  <2>1. ASSUME NEW w \in Window, NEW v \in Window, windows'[w].status = "open", windows'[w].focused,
               windows'[v].status = "open", v # w
        PROVE  ~windows'[v].focused /\ windows'[v].z < windows'[w].z
    <3>1. Open(w) /\ Open(v)
      BY <1>7, <2>1 DEF Open
    <3>2. w = t /\ v # t
      BY <1>7, <2>1, <3>1
    <3>3. windows'[v].z = windows[v].z /\ windows'[w].z = top /\ windows'[v].focused = (v = t)
      BY <1>7, <3>1, <3>2
    <3>4. QED
      BY <1>1, <3>1, <3>2, <3>3
  <2>2. QED
    BY <2>1 DEF FocusedOnTop, Open
<1>12. NewsOK' /\ Agree'
  <2>1. ASSUME NEW w \in Window PROVE Told(said, w, windows[w], windows'[w])
    <3>1. CASE Open(w)
      BY <1>4, <1>7, <3>1 DEF Told, Open
    <3>2. CASE ~Open(w)
      BY <1>4, <1>7, <3>2 DEF Told, Open
    <3>3. QED
      BY <3>1, <3>2
  <2>2. Explorer \notin DOMAIN said
    BY <1>4, ExplorerIsNone
  <2>3. Live' = Live /\ selected' = selected
    BY <1>8 DEF Live
  <2>4. QED
    BY <1>4, <1>6, <1>8, <2>1, <2>2, <2>3, Honest DEF Shell
<1>13. QED
  BY <1>9, <1>10, <1>11, <1>12 DEF Shell

LEMMA CloseKeeps ==
  ASSUME Shell, NEW w \in Window, handle_close_confirm(w), UNCHANGED mirror
  PROVE  Shell'
<1>1. CASE windows[w].dirty
  BY <1>1, QuietKeeps DEF handle_close_confirm
<1>2. CASE ~windows[w].dirty
  <2>1. PICK r : r = [NoWindow EXCEPT !.status = "closed"]
    OBVIOUS
  <2>2. r \in Windows /\ r.status = "closed" /\ r.z = 0
    <3>1. <<>> \in Seq(Char)
      BY EmptyFacts
    <3>2. QED
      BY <2>1, <3>1 DEF NoWindow, Windows
  <2>3. /\ windows' = [windows EXCEPT ![w] = r] /\ SaysOf(w, [status |-> "closed"])
        /\ UNCHANGED <<files, selected>>
    BY <1>2, <2>1 DEF handle_close_confirm
  <2>4. [status |-> "closed"] \in Saids(w)
    BY WindowSaids
  <2>5. PICK said : /\ SaidOK(said) /\ Broadcast(said)
                    /\ DOMAIN said = {w} /\ said[w] = [status |-> "closed"]
    BY <2>3, <2>4, OneSaid
  <2>6. /\ windows \in [Window -> Windows] /\ windows' \in [Window -> Windows] /\ windows'[w] = r
        /\ \A v \in Window : v # w => windows'[v] = windows[v]
    BY <2>2, <2>3 DEF Shell, Kept
  <2>7. Kept'
    <3>1. \A v \in Window : Open(v)' => windows'[v].file \in File
      BY <2>2, <2>6 DEF Shell, Kept, Open
    <3>2. QED
      BY <2>3, <2>6, <3>1 DEF Shell, Kept
  <2>8. Bounded'
    <3>1. PICK b \in Nat : \A v \in Window : windows[v].z <= b
      BY DEF Shell, Bounded
    <3>2. \A v \in Window : windows'[v].z <= b
      BY <2>2, <2>6, <3>1
    <3>3. QED
      BY <3>2 DEF Bounded
  <2>9. FocusedOnTop'
    BY <2>2, <2>6 DEF Shell, FocusedOnTop, Open
  <2>10. NewsOK' /\ Agree'
    <3>1. ASSUME NEW v \in Window PROVE Told(said, v, windows[v], windows'[v])
      <4>1. CASE v = w
        <5>1. "status" \in DOMAIN said[v] /\ said[v]["status"] = windows'[v].status /\ windows'[v].status # "open"
          BY <2>2, <2>5, <2>6, <4>1
        <5>2. QED
          BY <2>5, <4>1, <5>1 DEF Told
      <4>2. CASE v # w
        BY <2>5, <2>6, <4>2 DEF Told
      <4>3. QED
        BY <4>1, <4>2
    <3>2. Explorer \notin DOMAIN said
      BY <2>5, ExplorerIsNone
    <3>3. Live' = Live /\ selected' = selected
      BY <2>3 DEF Live
    <3>4. QED
      BY <2>5, <2>6, <3>1, <3>2, <3>3, Honest DEF Shell
  <2>11. QED
    BY <2>7, <2>8, <2>9, <2>10 DEF Shell
<1>3. QED
  BY <1>1, <1>2

LEMMA WindowSame ==
  ASSUME NEW r \in Windows, NEW s \in Windows, r.status = s.status, r.file = s.file, r.content = s.content,
         r.focused = s.focused, r.dirty = s.dirty, r.z = s.z, r.moved = s.moved
  PROVE  r = s
<1>1. /\ DOMAIN r = Fields /\ DOMAIN s = Fields
      /\ r = [n \in DOMAIN r |-> r[n]] /\ s = [n \in DOMAIN s |-> s[n]]
  BY DEF Windows, Fields
<1>2. \A n \in Fields : r[n] = s[n]
  BY WindowFields DEF Fields
<1>3. QED
  BY <1>1, <1>2

(* A window keeps its place and its focus, and its new fields are said.      *)
LEMMA FieldsKeep ==
  ASSUME Shell, NEW w \in Window, NEW x \in Saids(w), SaysOf(w, x), UNCHANGED <<mirror, selected>>,
         x \in [dirty : {FALSE}, content : Seq(Char)] \cup [moved : {TRUE}],
         files' \in [File -> [live : BOOLEAN, content : Seq(Char)]],
         \A f \in File : files'[f].live = files[f].live,
         windows' \in [Window -> Windows],
         \A v \in Window : v # w => windows'[v] = windows[v],
         Open(w) => windows'[w] = Changed(windows[w], x),
         ~Open(w) => windows'[w] = windows[w]
  PROVE  Shell'
<1>1. PICK said : SaidOK(said) /\ Broadcast(said) /\ DOMAIN said = {w} /\ said[w] = x
  BY OneSaid
<1>2. /\ windows'[w].status = windows[w].status /\ windows'[w].file = windows[w].file
      /\ windows'[w].focused = windows[w].focused /\ windows'[w].z = windows[w].z
  <2>1. CASE ~Open(w)
    BY <2>1
  <2>2. CASE Open(w)
    <3>1. PICK r \in Windows : r = windows[w]
      BY DEF Shell, Kept
    <3>2. PICK s : s = Changed(r, x)
      OBVIOUS
    <3>3. s.status = r.status /\ s.file = r.file /\ s.focused = r.focused /\ s.z = r.z
      <4>1. CASE x \in [dirty : {FALSE}, content : Seq(Char)]
        BY <3>2, <4>1 DEF Changed, Windows
      <4>2. CASE x \in [moved : {TRUE}]
        BY <3>2, <4>2 DEF Changed, Windows
      <4>3. QED
        BY <4>1, <4>2
    <3>4. QED
      BY <2>2, <3>1, <3>2, <3>3
  <2>3. QED
    BY <2>1, <2>2
<1>3. \A v \in Window : /\ windows'[v].status = windows[v].status /\ windows'[v].file = windows[v].file
                        /\ windows'[v].focused = windows[v].focused /\ windows'[v].z = windows[v].z
  BY <1>2
<1>4. Kept' /\ Bounded' /\ FocusedOnTop'
  <2>1. Kept'
    BY <1>3 DEF Shell, Kept, Open
  <2>2. Bounded'
    BY <1>3 DEF Shell, Bounded
  <2>3. FocusedOnTop'
    BY <1>3 DEF Shell, FocusedOnTop, Open
  <2>4. QED
    BY <2>1, <2>2, <2>3
<1>5. ASSUME NEW v \in Window PROVE Told(said, v, windows[v], windows'[v])
  <2>1. CASE v # w
    BY <1>1, <2>1 DEF Told
  <2>2. CASE v = w /\ Open(w)
    BY <1>1, <2>2 DEF Told, Open
  <2>3. CASE v = w /\ ~Open(w)
    <3>1. "status" \notin DOMAIN x
      <4>1. x \in [dirty : {FALSE}, content : Seq(Char)] => DOMAIN x = {"dirty", "content"}
        OBVIOUS
      <4>2. x \in [moved : {TRUE}] => DOMAIN x = {"moved"}
        OBVIOUS
      <4>3. DOMAIN x = {"dirty", "content"} \/ DOMAIN x = {"moved"}
        BY <4>1, <4>2
      <4>4. QED
        BY <4>3
    <3>2. QED
      BY <1>1, <2>3, <3>1 DEF Told, Open
  <2>4. QED
    BY <2>1, <2>2, <2>3
<1>6. Live' = Live
  BY DEF Live
<1>7. Explorer \notin DOMAIN said
  BY <1>1, ExplorerIsNone
<1>8. NewsOK' /\ Agree'
  BY <1>1, <1>5, <1>6, <1>7, Honest DEF Shell
<1>9. QED
  BY <1>4, <1>8 DEF Shell

LEMMA SaveKeeps ==
  ASSUME Shell, NEW w \in Window, NEW s \in Seq(Char), handle_save_to_file(w, s), UNCHANGED mirror
  PROVE  Shell'
<1>1. CASE UNCHANGED <<files, windows, news>>
  BY <1>1, QuietKeeps DEF handle_save_to_file
<1>2. CASE /\ Open(w) /\ files[windows[w].file].live
           /\ files' = [files EXCEPT ![windows[w].file].content = s]
           /\ windows' = [windows EXCEPT ![w].dirty = FALSE, ![w].content = s]
           /\ SaysOf(w, [dirty |-> FALSE, content |-> s])
  <2>1. PICK x : x = [dirty |-> FALSE, content |-> s]
    OBVIOUS
  <2>2. x \in [dirty : {FALSE}, content : Seq(Char)] /\ x \in Saids(w)
    BY <2>1, WindowSaids
  <2>3. /\ files' = [files EXCEPT ![windows[w].file].content = s]
        /\ windows' = [windows EXCEPT ![w].dirty = FALSE, ![w].content = s]
        /\ SaysOf(w, x) /\ selected' = selected
    BY <1>2, <2>1 DEF handle_save_to_file
  <2>4. PICK f \in File : f = windows[w].file
    BY <1>2 DEF Shell, Kept
  <2>5. /\ files' \in [File -> [live : BOOLEAN, content : Seq(Char)]]
        /\ \A g \in File : files'[g].live = files[g].live
    <3>1. files \in [File -> [live : BOOLEAN, content : Seq(Char)]]
      BY DEF Shell, Kept
    <3>2. files' = [files EXCEPT ![f] = [files[f] EXCEPT !.content = s]]
      BY <2>3, <2>4
    <3>3. PICK g : g = [files[f] EXCEPT !.content = s]
      OBVIOUS
    <3>4. g \in [live : BOOLEAN, content : Seq(Char)] /\ g.live = files[f].live
      BY <3>1, <3>3
    <3>5. QED
      BY <3>1, <3>2, <3>3, <3>4
  <2>6. PICK r \in Windows : r = windows[w]
    BY DEF Shell, Kept
  <2>7. PICK t : t = [r EXCEPT !.dirty = FALSE, !.content = s]
    OBVIOUS
  <2>8. t \in Windows
    BY <2>7 DEF Windows
  <2>9. Changed(r, x) = t
    <3>1. Changed(r, x) \in Windows
      BY <2>2, ChangedWindow
    <3>2. PICK c \in Windows : c = Changed(r, x)
      BY <3>1
    <3>3. /\ c.status = r.status /\ c.file = r.file /\ c.content = s /\ c.focused = r.focused
          /\ c.dirty = FALSE /\ c.z = r.z /\ c.moved = r.moved
      BY <2>1, <3>2 DEF Changed, Windows
    <3>4. /\ t.status = r.status /\ t.file = r.file /\ t.content = s /\ t.focused = r.focused
          /\ t.dirty = FALSE /\ t.z = r.z /\ t.moved = r.moved
      BY <2>7 DEF Windows
    <3>5. QED
      BY <2>8, <3>2, <3>3, <3>4, WindowSame
  <2>10. /\ windows \in [Window -> Windows] /\ windows' = [windows EXCEPT ![w] = t]
    BY <2>3, <2>6, <2>7 DEF Shell, Kept
  <2>11. /\ windows' \in [Window -> Windows] /\ windows'[w] = Changed(windows[w], x)
         /\ \A v \in Window : v # w => windows'[v] = windows[v]
    BY <2>6, <2>8, <2>9, <2>10
  <2>12. QED
    BY <1>2, <2>2, <2>3, <2>5, <2>11, FieldsKeep
<1>3. QED
  BY <1>1, <1>2 DEF handle_save_to_file

LEMMA MoveKeeps ==
  ASSUME Shell, NEW w \in Window, handle_move(w), UNCHANGED mirror
  PROVE  Shell'
<1>1. PICK x : x = [moved |-> TRUE]
  OBVIOUS
<1>2. x \in [moved : {TRUE}] /\ x \in Saids(w)
  BY <1>1, WindowSaids
<1>3. /\ windows' = IF Open(w) THEN [windows EXCEPT ![w].moved = TRUE] ELSE windows
      /\ SaysOf(w, x) /\ selected' = selected /\ files' = files
  BY <1>1 DEF handle_move
<1>4. PICK r \in Windows : r = windows[w]
  BY DEF Shell, Kept
<1>5. PICK t : t = [r EXCEPT !.moved = TRUE]
  OBVIOUS
<1>6. t \in Windows
  BY <1>5 DEF Windows
<1>7. Changed(r, x) = t
  <2>1. PICK c \in Windows : c = Changed(r, x)
    BY <1>2, ChangedWindow
  <2>2. /\ c.status = r.status /\ c.file = r.file /\ c.content = r.content /\ c.focused = r.focused
        /\ c.dirty = r.dirty /\ c.z = r.z /\ c.moved = TRUE
    BY <1>1, <2>1 DEF Changed, Windows
  <2>3. /\ t.status = r.status /\ t.file = r.file /\ t.content = r.content /\ t.focused = r.focused
        /\ t.dirty = r.dirty /\ t.z = r.z /\ t.moved = TRUE
    BY <1>5 DEF Windows
  <2>4. QED
    BY <1>6, <2>1, <2>2, <2>3, WindowSame
<1>8. windows \in [Window -> Windows] /\ files \in [File -> [live : BOOLEAN, content : Seq(Char)]]
  BY DEF Shell, Kept
<1>9. Open(w) => windows' = [windows EXCEPT ![w] = t]
  BY <1>3, <1>4, <1>5, <1>8
<1>10. /\ windows' \in [Window -> Windows]
       /\ Open(w) => windows'[w] = Changed(windows[w], x)
       /\ ~Open(w) => windows'[w] = windows[w]
       /\ \A v \in Window : v # w => windows'[v] = windows[v]
  BY <1>3, <1>4, <1>6, <1>7, <1>8, <1>9
<1>11. files' \in [File -> [live : BOOLEAN, content : Seq(Char)]] /\ \A f \in File : files'[f].live = files[f].live
  BY <1>3, <1>8
<1>12. QED
  BY <1>2, <1>3, <1>10, <1>11, FieldsKeep

Mounted(w, new) ==
    /\ windows' = [v \in Window |-> IF v = w THEN new
                                    ELSE IF Open(v) THEN [windows[v] EXCEPT !.focused = FALSE]
                                    ELSE windows[v]]
    /\ Broadcast([v \in OpenWindows \cup {w} |-> IF v = w THEN new ELSE [focused |-> FALSE]])
    /\ UNCHANGED <<files, selected>>

LEMMA FirstFree ==
  ASSUME \E v \in Window : windows[v].status = "none"
  PROVE  \E w \in Window : /\ windows[w].status = "none"
                           /\ w = CHOOSE v \in Window : /\ windows[v].status = "none"
                                                        /\ \A u \in 1..(v - 1) : windows[u].status # "none"
<1> DEFINE T == {v \in Window : windows[v].status = "none"}
           P(v) == windows[v].status = "none" /\ \A u \in 1..(v - 1) : windows[u].status # "none"
<1>1. T \subseteq Nat /\ T # {} /\ T \subseteq Window
  BY DEF Window
<1>2. PICK w \in T : \A v \in T : w <= v
  <2> HIDE DEF T
  <2>1. QED
    BY <1>1, Smallest
<1>3. w \in Window /\ P(w)
  <2>1. ASSUME NEW u \in 1..(w - 1), windows[u].status = "none" PROVE FALSE
    <3>1. w \in 1 .. MaxWindows /\ MaxWindows \in Nat
      BY <1>2, BoundsAssumption DEF Window
    <3>2. u \in T
      BY <2>1, <3>1 DEF Window
    <3>3. w <= u
      BY <1>2, <3>2
    <3>4. QED
      BY <3>1, <3>3
  <2>2. QED
    BY <1>2, <2>1
<1>4. P(CHOOSE v \in Window : P(v)) /\ (CHOOSE v \in Window : P(v)) \in Window
  <2> HIDE DEF P
  <2>1. QED
    BY <1>3
<1>5. QED
  BY <1>4

LEMMA MountKeeps ==
  ASSUME Shell, NEW f \in File, MountWindow(f), UNCHANGED mirror
  PROVE  Shell'
<1>1. PICK top \in Nat : top = max_z + 1 /\ \A w \in Window : Open(w) => windows[w].z < top
  <2>1. max_z \in Nat /\ \A w \in Window : Open(w) => windows[w].z <= max_z
    BY MaxFacts DEF Shell, Kept
  <2>2. PICK n \in Nat : n = max_z + 1
    BY <2>1
  <2>3. \A w \in Window : Open(w) => windows[w].z \in Nat
    BY DEF Shell, Kept, Windows
  <2>4. \A w \in Window : Open(w) => windows[w].z < n
    BY <2>1, <2>2, <2>3
  <2>5. QED
    BY <2>2, <2>4
<1>2. PICK s \in Seq(Char) : s = (IF files[f].live THEN files[f].content ELSE <<>>)
  BY EmptyFacts DEF Shell, Kept
<1>3. PICK new : new = Opened(f, s, top)
  OBVIOUS
<1>4. /\ new \in Windows /\ new.status = "open" /\ new.file = f /\ new.focused = TRUE /\ new.z = top
  BY <1>3 DEF Opened, Windows
<1>5. \E v \in Window : windows[v].status = "none"
  BY DEF MountWindow
<1>6. PICK w \in Window : /\ windows[w].status = "none"
                          /\ w = CHOOSE v \in Window : /\ windows[v].status = "none"
                                                       /\ \A u \in 1..(v - 1) : windows[u].status # "none"
  BY <1>5, FirstFree
<1>7. Mounted(w, new)
  BY <1>1, <1>2, <1>3, <1>6 DEF MountWindow, Mounted
<1>8. PICK said : said = [v \in OpenWindows \cup {w} |-> IF v = w THEN new ELSE [focused |-> FALSE]]
  OBVIOUS
<1>9. /\ Broadcast(said) /\ DOMAIN said = OpenWindows \cup {w} /\ said[w] = new
      /\ \A v \in OpenWindows : v # w => said[v] = [focused |-> FALSE]
      /\ OpenWindows = {v \in Window : windows[v].status = "open"} /\ ~Open(w)
  BY <1>6, <1>7, <1>8 DEF Mounted, OpenWindows, Open
<1>10. SaidOK(said)
  <2>1. ASSUME NEW v \in DOMAIN said PROVE said[v] \in Saids(v)
    <3>1. v \in Window
      BY <1>9, <2>1
    <3>2. CASE v = w
      BY <1>4, <1>9, <3>1, <3>2, WindowSaids
    <3>3. CASE v # w
      <4>1. said[v] = [focused |-> FALSE]
        BY <1>9, <2>1, <3>3
      <4>2. said[v] \in [focused : {FALSE}]
        BY <4>1
      <4>3. QED
        BY <3>1, <4>2, WindowSaids, Zenon
    <3>4. QED
      BY <3>2, <3>3
  <2>2. QED
    BY <1>9, <2>1 DEF SaidOK
<1>11. ASSUME NEW v \in Window, v # w
       PROVE  /\ windows'[v] \in Windows
              /\ windows'[v].status = windows[v].status /\ windows'[v].file = windows[v].file
              /\ windows'[v].z = windows[v].z
              /\ Open(v) => windows'[v] = Changed(windows[v], [focused |-> FALSE]) /\ windows'[v].focused = FALSE
              /\ ~Open(v) => windows'[v] = windows[v]
  <2>1. PICK r \in Windows : r = windows[v]
    BY DEF Shell, Kept
  <2>2. windows'[v] = IF Open(v) THEN [r EXCEPT !.focused = FALSE] ELSE r
    BY <1>7, <1>11, <2>1 DEF Mounted
  <2>3. CASE ~Open(v)
    BY <2>1, <2>2, <2>3
  <2>4. CASE Open(v)
    <3>1. PICK t : t = [r EXCEPT !.focused = FALSE]
      OBVIOUS
    <3>2. PICK c : c = Changed(r, [focused |-> FALSE])
      OBVIOUS
    <3>3. t \in Windows /\ c \in Windows
      BY <3>1, <3>2 DEF Windows, Changed
    <3>4. /\ c.status = r.status /\ c.file = r.file /\ c.content = r.content /\ c.focused = FALSE
          /\ c.dirty = r.dirty /\ c.z = r.z /\ c.moved = r.moved
      BY <3>2 DEF Changed, Windows
    <3>5. /\ t.status = r.status /\ t.file = r.file /\ t.content = r.content /\ t.focused = FALSE
          /\ t.dirty = r.dirty /\ t.z = r.z /\ t.moved = r.moved
      BY <3>1 DEF Windows
    <3>6. t = c
      BY <3>3, <3>4, <3>5, WindowSame
    <3>7. windows'[v] = t
      BY <2>2, <2>4, <3>1
    <3>8. QED
      BY <2>1, <2>4, <3>2, <3>3, <3>5, <3>6, <3>7
  <2>5. QED
    BY <2>3, <2>4
<1>12. windows'[w] = new /\ UNCHANGED <<files, selected>>
  BY <1>7 DEF Mounted
<1>13. windows' \in [Window -> Windows]
  <2>1. windows' = [v \in Window |-> windows'[v]]
    BY <1>7 DEF Mounted
  <2>2. QED
    BY <1>4, <1>11, <1>12, <2>1
<1>14. Kept'
  <2>1. \A v \in Window : Open(v)' => windows'[v].file \in File
    BY <1>4, <1>11, <1>12 DEF Shell, Kept, Open
  <2>2. QED
    BY <1>12, <1>13, <2>1 DEF Shell, Kept
<1>15. Bounded'
  <2>1. PICK b \in Nat : \A v \in Window : windows[v].z <= b
    BY DEF Shell, Bounded
  <2>2. \A v \in Window : windows[v].z \in Nat
    BY DEF Shell, Kept, Windows
  <2>3. PICK c \in Nat : c = b + top
    OBVIOUS
  <2>4. \A v \in Window : windows'[v].z = windows[v].z \/ windows'[v].z = top
    BY <1>4, <1>11, <1>12
  <2>5. \A v \in Window : windows'[v].z <= c
    BY <2>1, <2>2, <2>3, <2>4
  <2>6. QED
    BY <2>5 DEF Bounded
<1>16. FocusedOnTop'
  <2>1. ASSUME NEW u \in Window, NEW v \in Window, windows'[u].status = "open", windows'[u].focused,
               windows'[v].status = "open", v # u
        PROVE  ~windows'[v].focused /\ windows'[v].z < windows'[u].z
    <3>1. u = w
      BY <1>11, <2>1 DEF Open
    <3>2. Open(v) /\ v # w
      BY <1>11, <2>1, <3>1 DEF Open
    <3>3. windows'[v].focused = FALSE /\ windows'[v].z = windows[v].z /\ windows[v].z < top
      BY <1>1, <1>11, <3>2
    <3>4. QED
      BY <1>4, <1>12, <3>1, <3>3
  <2>2. QED
    BY <2>1 DEF FocusedOnTop, Open
<1>17. NewsOK' /\ Agree'
  <2>1. ASSUME NEW v \in Window PROVE Told(said, v, windows[v], windows'[v])
    <3>1. CASE v = w
      BY <1>9, <1>12, <3>1 DEF Told
    <3>2. CASE v # w /\ Open(v)
      <4>1. v \in OpenWindows
        BY <3>2 DEF OpenWindows
      <4>2. windows'[v] = Changed(windows[v], said[v])
        BY <1>9, <1>11, <3>2, <4>1
      <4>3. QED
        BY <1>9, <3>2, <4>1, <4>2 DEF Told, Open
    <3>3. CASE v # w /\ ~Open(v)
      <4>1. v \notin DOMAIN said
        BY <1>9, <3>3 DEF Open
      <4>2. QED
        BY <1>11, <3>3, <4>1 DEF Told
    <3>4. QED
      BY <3>1, <3>2, <3>3
  <2>2. Explorer \notin DOMAIN said
    BY <1>9, ExplorerIsNone
  <2>3. Live' = Live /\ selected' = selected
    BY <1>12 DEF Live
  <2>4. QED
    BY <1>9, <1>10, <1>12, <1>13, <2>1, <2>2, <2>3, Honest DEF Shell
<1>18. QED
  BY <1>14, <1>15, <1>16, <1>17 DEF Shell

LEMMA SelectKeeps ==
  ASSUME Shell, NEW f \in File, handle_select(f), UNCHANGED mirror
  PROVE  Shell'
<1>1. SaysOf(Explorer, [selected |-> f]) /\ selected' = f /\ UNCHANGED <<windows, files>>
  BY DEF handle_select
<1>2. [selected |-> f] \in Saids(Explorer) /\ Explorer \in Window \cup {Explorer}
  BY DEF Saids
<1>3. PICK said : /\ SaidOK(said) /\ Broadcast(said)
                  /\ DOMAIN said = {Explorer} /\ said[Explorer] = [selected |-> f]
  BY <1>1, <1>2, OneSaid
<1>4. Kept' /\ Bounded' /\ FocusedOnTop' /\ windows' \in [Window -> Windows] /\ Live' = Live
  BY <1>1 DEF Shell, Kept, Bounded, FocusedOnTop, Open, Live
<1>5. \A w \in Window : Told(said, w, windows[w], windows'[w])
  BY <1>1, <1>3, ExplorerIsNone DEF Told
<1>6. /\ "rows" \notin DOMAIN said[Explorer]
      /\ "selected" \in DOMAIN said[Explorer] /\ said[Explorer]["selected"] = selected'
  BY <1>1, <1>3
<1>7. NewsOK' /\ Agree'
  BY <1>3, <1>4, <1>5, <1>6, Honest DEF Shell
<1>8. QED
  BY <1>4, <1>7 DEF Shell

LEMMA RenameSelectedKeeps ==
  ASSUME Shell, NEW name, handle_rename_selected(name), UNCHANGED mirror
  PROVE  Shell'
<1>1. CASE UNCHANGED <<shell, news>>
  BY <1>1, QuietKeeps DEF shell
<1>2. CASE /\ selected \in Live /\ ~files[NewFile].live
           /\ files' = [files EXCEPT ![selected] = [live |-> FALSE, content |-> Name],
                                     ![NewFile] = [files[selected] EXCEPT !.live = TRUE]]
           /\ selected' = None
           /\ SaysOf(Explorer, [rows |-> (Live \cup {NewFile}) \ {selected}, selected |-> None])
           /\ UNCHANGED windows
  <2>1. PICK old \in File : old = selected /\ files[old].live /\ old # NewFile
    BY <1>2 DEF Live
  <2>2. PICK rows : rows = (Live \cup {NewFile}) \ {old}
    OBVIOUS
  <2>3. PICK a, b : a = [live |-> FALSE, content |-> Name] /\ b = [files[old] EXCEPT !.live = TRUE]
    OBVIOUS
  <2>4. files \in [File -> [live : BOOLEAN, content : Seq(Char)]] /\ NewFile \in File
    BY DEF Shell, Kept, File
  <2>5. /\ a \in [live : BOOLEAN, content : Seq(Char)] /\ b \in [live : BOOLEAN, content : Seq(Char)]
        /\ a.live = FALSE /\ b.live = TRUE
    BY <2>3, <2>4, NameTyped
  <2>6. files' = [files EXCEPT ![old] = a, ![NewFile] = b]
    BY <1>2, <2>1, <2>3
  <2>7. /\ files' \in [File -> [live : BOOLEAN, content : Seq(Char)]]
        /\ files'[old] = a /\ files'[NewFile] = b
        /\ \A f \in File : f # old /\ f # NewFile => files'[f] = files[f]
    BY <2>1, <2>4, <2>5, <2>6
  <2>8. Live' = rows /\ rows \subseteq File
    <3>1. Live' = {f \in File : files'[f].live} /\ Live = {f \in File : files[f].live}
      BY DEF Live
    <3>2. \A f \in File : files'[f].live <=> f \in rows
      BY <2>1, <2>2, <2>5, <2>7, <3>1
    <3>3. rows \subseteq File
      BY <2>2, <2>4, <3>1
    <3>4. QED
      BY <3>1, <3>2, <3>3
  <2>9. PICK x : x = [rows |-> rows, selected |-> None]
    OBVIOUS
  <2>10. x \in Saids(Explorer) /\ Explorer \in Window \cup {Explorer} /\ SaysOf(Explorer, x)
    BY <1>2, <2>1, <2>2, <2>8, <2>9 DEF Saids, Explorers
  <2>11. PICK said : SaidOK(said) /\ Broadcast(said) /\ DOMAIN said = {Explorer} /\ said[Explorer] = x
    BY <2>10, OneSaid
  <2>12. Kept' /\ Bounded' /\ FocusedOnTop' /\ windows' \in [Window -> Windows]
    BY <1>2, <2>7 DEF Shell, Kept, Bounded, FocusedOnTop, Open
  <2>13. \A w \in Window : Told(said, w, windows[w], windows'[w])
    BY <1>2, <2>11, ExplorerIsNone DEF Told
  <2>14. /\ "rows" \in DOMAIN said[Explorer] /\ said[Explorer]["rows"] = Live'
         /\ "selected" \in DOMAIN said[Explorer] /\ said[Explorer]["selected"] = selected'
    BY <1>2, <2>8, <2>9, <2>11
  <2>15. NewsOK' /\ Agree'
    BY <2>11, <2>12, <2>13, <2>14, Honest DEF Shell
  <2>16. QED
    BY <2>12, <2>15 DEF Shell
<1>3. QED
  BY <1>1, <1>2 DEF handle_rename_selected

LEMMA ActionArgs ==
  ASSUME NEW m \in Actions
  PROVE  /\ m.method \in {"focus", "close_confirm", "move"} => m.target \in Window
         /\ m.method = "save_to_file" => m.target \in Window /\ m.arg \in Seq(Char)
         /\ m.method \in {"select", "open_file"} => m.arg \in File
BY DEF Actions

LEMMA HandleKeeps ==
  ASSUME Shell, Mirrored, Pipe, HandleInvoke
  PROVE  Shell' /\ Mirrored' /\ Pipe'
<1>1. invokes # <<>> /\ invokes' = Tail(invokes) /\ UNCHANGED mirror
  BY DEF HandleInvoke
<1>2. PICK m \in Actions : m = Head(invokes)
  BY <1>1, TailFacts DEF Pipe
<1>3. \/ m.method = "focus" /\ handle_focus(m.target)
      \/ m.method = "close_confirm" /\ handle_close_confirm(m.target)
      \/ m.method = "save_to_file" /\ handle_save_to_file(m.target, m.arg)
      \/ m.method = "move" /\ handle_move(m.target)
      \/ m.method = "open_file" /\ handle_open_file(m.arg)
      \/ m.method = "select" /\ handle_select(m.arg)
      \/ m.method = "rename_selected" /\ handle_rename_selected(m.arg)
      \/ m.method = "submit_input" /\ UNCHANGED <<shell, news>>
  BY <1>2 DEF HandleInvoke
<1>4. ASSUME m.method = "open_file", handle_open_file(m.arg) PROVE Shell'
  <2>1. PICK f \in File : f = m.arg
    BY <1>4, ActionArgs
  <2>2. CASE WindowsOf(f) = {}
    BY <1>1, <1>4, <2>1, <2>2, MountKeeps DEF handle_open_file
  <2>3. CASE WindowsOf(f) # {}
    <3>1. PICK t : handle_focus(t)
      BY <1>4, <2>1, <2>3 DEF handle_open_file
    <3>2. QED
      BY <1>1, <3>1, FocusKeeps
  <2>4. QED
    BY <2>2, <2>3
<1>5. Shell'
  <2>1. ASSUME m.method = "focus", handle_focus(m.target) PROVE Shell'
    BY <1>1, <2>1, FocusKeeps
  <2>2. ASSUME m.method = "close_confirm", handle_close_confirm(m.target) PROVE Shell'
    BY <1>1, <2>2, ActionArgs, CloseKeeps
  <2>3. ASSUME m.method = "save_to_file", handle_save_to_file(m.target, m.arg) PROVE Shell'
    BY <1>1, <2>3, ActionArgs, SaveKeeps
  <2>4. ASSUME m.method = "move", handle_move(m.target) PROVE Shell'
    BY <1>1, <2>4, ActionArgs, MoveKeeps
  <2>5. ASSUME m.method = "select", handle_select(m.arg) PROVE Shell'
    BY <1>1, <2>5, ActionArgs, SelectKeeps
  <2>6. ASSUME m.method = "rename_selected", handle_rename_selected(m.arg) PROVE Shell'
    BY <1>1, <2>6, RenameSelectedKeeps
  <2>7. ASSUME UNCHANGED <<shell, news>> PROVE Shell'
    BY <1>1, <2>7, QuietKeeps DEF shell
  <2>8. QED
    BY <1>3, <1>4, <2>1, <2>2, <2>3, <2>4, <2>5, <2>6, <2>7, Zenon
<1>6. Mirrored'
  BY <1>1 DEF Mirrored, Explorable
<1>7. Pipe'
  <2>1. Len(invokes) \in Nat /\ UiCap \in Nat /\ Tail(invokes) \in Seq(Actions) /\ Len(Tail(invokes)) = Len(invokes) - 1
    BY <1>1, TailFacts, EmptyFacts, BoundsAssumption DEF Pipe
  <2>2. QED
    BY <1>1, <2>1 DEF Pipe
<1>8. QED
  BY <1>5, <1>6, <1>7

LEMMA HearKeeps ==
  ASSUME Shell, Mirrored, Hear
  PROVE  Shell' /\ Mirrored'
<1>1. /\ news # <<>> /\ news' = Tail(news) /\ mirror' = Heard(Head(news))
      /\ UNCHANGED <<windows, files, selected>>
  BY DEF Hear, shell
<1>2. PICK S, q : q = news /\ q \in Seq(S)
  BY DEF Shell, NewsOK, IsSeq
<1>3. PICK m : m = mirror
  OBVIOUS
<1>4. PICK h : h = [p \in DOMAIN m |-> IF p \in DOMAIN q[1] THEN Changed(m[p], q[1][p]) ELSE m[p]]
  OBVIOUS
<1>5. /\ q # <<>> /\ Head(q) = q[1] /\ 1 \in DOMAIN q /\ Tail(q) \in Seq(S) /\ Len(q) \in Nat
      /\ DOMAIN q = 1 .. Len(q) /\ DOMAIN Tail(q) = 1 .. Len(q) - 1
      /\ \A i \in 1 .. Len(q) - 1 : Tail(q)[i] = q[i + 1]
  <2>1. /\ q # <<>> /\ Head(q) = q[1] /\ Tail(q) \in Seq(S) /\ Len(q) \in Nat /\ Len(q) >= 1
        /\ DOMAIN q = 1 .. Len(q) /\ DOMAIN Tail(q) = 1 .. Len(q) - 1
        /\ \A i \in 1 .. Len(q) - 1 : Tail(q)[i] = q[i + 1]
    <3>1. PICK p \in Seq(S) : p = q /\ p # <<>>
      BY <1>1, <1>2
    <3>2. QED
      BY <3>1, TailFacts
  <2>2. QED
    BY <2>1
<1>6. news' = Tail(q) /\ mirror' = h
  BY <1>1, <1>2, <1>3, <1>4, <1>5 DEF Heard
<1>7. /\ DOMAIN m = Window \cup {Explorer} /\ m[Explorer] \in Explorers
      /\ \A w \in Window : m[w] \in Windows
      /\ \A i \in DOMAIN q : SaidOK(q[i])
  BY <1>2, <1>3 DEF Mirrored, Explorable, Shell, NewsOK
<1>8. DOMAIN h = Window \cup {Explorer}
  BY <1>4, <1>7
<1>9. ASSUME NEW w \in Window PROVE h[w] \in Windows
  <2>1. CASE w \in DOMAIN q[1]
    <3>1. q[1][w] \in Saids(w)
      BY <1>5, <1>7, <2>1 DEF SaidOK
    <3>2. h[w] = Changed(m[w], q[1][w])
      BY <1>4, <1>7, <2>1
    <3>3. QED
      BY <1>7, <3>1, <3>2, ChangedWindow
  <2>2. CASE w \notin DOMAIN q[1]
    BY <1>4, <1>7, <2>2
  <2>3. QED
    BY <2>1, <2>2
<1>10. h[Explorer] \in Explorers
  <2>1. CASE Explorer \in DOMAIN q[1]
    <3>1. q[1][Explorer] \in Saids(Explorer)
      BY <1>5, <1>7, <2>1 DEF SaidOK
    <3>2. h[Explorer] = Changed(m[Explorer], q[1][Explorer])
      BY <1>4, <1>7, <2>1
    <3>3. QED
      BY <1>7, <3>1, <3>2, ChangedExplorer
  <2>2. CASE Explorer \notin DOMAIN q[1]
    BY <1>4, <1>7, <2>2
  <2>3. QED
    BY <2>1, <2>2
<1>11. Mirrored'
  BY <1>6, <1>8, <1>9, <1>10 DEF Mirrored, Explorable
<1>12. NewsOK'
  <2>1. \A i \in DOMAIN Tail(q) : SaidOK(Tail(q)[i])
    <3>1. ASSUME NEW i \in 1 .. Len(q) - 1 PROVE SaidOK(Tail(q)[i])
      <4>1. i + 1 \in DOMAIN q /\ Tail(q)[i] = q[i + 1]
        BY <1>5
      <4>2. QED
        BY <1>7, <4>1
    <3>2. QED
      BY <1>5, <3>1
  <2>2. QED
    BY <1>5, <1>6, <2>1 DEF NewsOK, IsSeq
<1>13. ASSUME NEW w \in Window PROVE WillShow(news', mirror', w, windows'[w])
  <2>1. PICK r \in Windows : r = windows[w]
    BY DEF Shell, Kept
  <2>2. WillShow(q, m, w, r)
    BY <1>2, <1>3, <2>1 DEF Shell, Agree
  <2>3. w \in DOMAIN m /\ DOMAIN m[w] = Fields
    BY <1>7, WindowFields
  <2>4. WillShow(Tail(q), h, w, r)
    BY <1>4, <1>5, <2>2, <2>3, WillShowTail
  <2>5. QED
    BY <1>1, <1>6, <2>1, <2>4
<1>14. ASSUME NEW n \in {"rows", "selected"}, NEW v, Will(q, m, Explorer, n, v)
       PROVE  Will(Tail(q), h, Explorer, n, v)
  <2>1. Explorer \in DOMAIN m /\ n \in DOMAIN m[Explorer]
    BY <1>7 DEF Explorers
  <2>2. IF Says(q, 1, Explorer, n) THEN h[Explorer][n] = q[1][Explorer][n] ELSE h[Explorer][n] = m[Explorer][n]
    <3>1. CASE Explorer \in DOMAIN q[1]
      <4>1. h[Explorer] = Changed(m[Explorer], q[1][Explorer])
        BY <1>4, <2>1, <3>1
      <4>2. Changed(m[Explorer], q[1][Explorer])[n]
              = (IF n \in DOMAIN q[1][Explorer] THEN q[1][Explorer][n] ELSE m[Explorer][n])
        BY <2>1, ChangedAt
      <4>3. QED
        BY <1>5, <3>1, <4>1, <4>2 DEF Says
    <3>2. CASE Explorer \notin DOMAIN q[1]
      BY <1>4, <2>1, <3>2 DEF Says
    <3>3. QED
      BY <3>1, <3>2
  <2>3. QED
    BY <1>5, <1>14, <2>2, WillTail
<1>15. ExplorerAgrees'
  <2>1. Will(q, m, Explorer, "rows", Live) /\ Will(q, m, Explorer, "selected", selected)
    BY <1>2, <1>3 DEF Shell, Agree, ExplorerAgrees
  <2>2. PICK v, u : v = Live /\ u = selected
    OBVIOUS
  <2>3. Will(q, m, Explorer, "rows", v) /\ Will(q, m, Explorer, "selected", u)
    BY <2>1, <2>2
  <2>4. Will(Tail(q), h, Explorer, "rows", v) /\ Will(Tail(q), h, Explorer, "selected", u)
    BY <1>14, <2>3
  <2>5. Live' = v /\ selected' = u
    BY <1>1, <2>2 DEF Live
  <2>6. QED
    BY <1>6, <2>4, <2>5 DEF ExplorerAgrees
<1>16. Kept' /\ Bounded' /\ FocusedOnTop'
  BY <1>1 DEF Shell, Kept, Bounded, FocusedOnTop, Open
<1>17. QED
  BY <1>11, <1>12, <1>13, <1>15, <1>16 DEF Shell, Agree

-----------------------------------------------------------------------------
(* The invariant, and what follows from it.                                  *)

IInv == Ui /\ Pipe /\ Shell /\ Mirrored

LEMMA InitInv == Init => IInv
<1> SUFFICES ASSUME Init PROVE IInv
  OBVIOUS
<1>1. /\ <<>> \in Char /\ <<>> \in Seq(Char) /\ Len(<<>>) = 0 /\ Empty \in Syllables /\ <<"none">> \in Drags
      /\ Name \in Seq(Char) /\ NoAnchor \in Anchors
  BY CharFacts, EmptyFacts, SyllableFacts, DragFacts, NameTyped DEF Anchors
<1>2. Ui
  <2>1. EditorOK(editor)
    <3>1. 0 \in 0 .. Len(<<>>) /\ 0 \in Window \cup {0}
      BY <1>1
    <3>2. EditorOK(EditorNew(0, <<>>, 0))
      BY <1>1, <3>1, OpenedEditor
    <3>3. QED
      BY <3>2 DEF Init, NoEditor
  <2>2. CliOK(cli)
    <3>1. PICK t : t = [content |-> <<>>, cursor |-> 0, anchor |-> NoAnchor, preedit |-> <<>>]
      OBVIOUS
    <3>2. t \in CliTexts /\ t.content = <<>> /\ t.cursor = 0 /\ t.anchor = NoAnchor
      BY <1>1, <3>1 DEF CliTexts
    <3>3. CliOK(t)
      BY <1>1, <3>2 DEF CliOK, AtPlace, Place
    <3>4. QED
      BY <3>1, <3>3 DEF Init
  <2>3. Modes
    BY <1>1 DEF Init, Modes
  <2>4. HandsOK
    BY <1>1 DEF Init, HandsOK, Names, NoRename
  <2>5. clipboard \in Seq(Char)
    BY <1>1 DEF Init
  <2>6. QED
    BY <2>1, <2>2, <2>3, <2>4, <2>5 DEF Ui, Boxes
<1>3. Pipe
  <2>1. invokes = <<>> /\ UiCap \in Nat
    BY BoundsAssumption DEF Init
  <2>2. QED
    BY <2>1, EmptyFacts DEF Pipe
<1>4. PICK f \in Files : f = CHOOSE g \in Files : TRUE
  BY FilesAssumption
<1>5. PICK first \in Windows : first = Opened(f, Name, 1) /\ first.file = f /\ first.z = 1
  <2>1. PICK r : r = Opened(f, Name, 1)
    OBVIOUS
  <2>2. r \in Windows /\ r.file = f /\ r.z = 1
    BY <1>1, <2>1 DEF Opened, Windows, File
  <2>3. QED
    BY <2>1, <2>2
<1>6. PICK blank \in Windows : blank = NoWindow /\ blank.status = "none" /\ blank.z = 0
  <2>1. PICK r : r = NoWindow
    OBVIOUS
  <2>2. r \in Windows /\ r.status = "none" /\ r.z = 0
    BY <1>1, <2>1 DEF NoWindow, Windows
  <2>3. QED
    BY <2>1, <2>2
<1>7. windows = [w \in Window |-> IF w = 1 THEN first ELSE blank]
  BY <1>4, <1>5, <1>6 DEF Init
<1>8. Kept
  <2>1. windows \in [Window -> Windows]
    BY <1>7
  <2>2. \A w \in Window : Open(w) => windows[w].file \in File
    BY <1>5, <1>6, <1>7 DEF Open, File
  <2>3. files \in [File -> [live : BOOLEAN, content : Seq(Char)]]
    BY <1>1 DEF Init
  <2>4. selected \in File \cup {None}
    BY DEF Init
  <2>5. QED
    BY <2>1, <2>2, <2>3, <2>4 DEF Kept
<1>9. Bounded
  <2>1. \A w \in Window : windows[w].z <= 1
    BY <1>5, <1>6, <1>7
  <2>2. QED
    BY <2>1 DEF Bounded
<1>10. FocusedOnTop
  <2>1. \A w \in Window : Open(w) => w = 1
    BY <1>6, <1>7 DEF Open
  <2>2. QED
    BY <2>1, Zenon DEF FocusedOnTop
<1>11. NewsOK
  BY EmptyFacts DEF Init, NewsOK, IsSeq
<1>12. /\ mirror = [p \in Window \cup {Explorer} |->
                      IF p = Explorer THEN [rows |-> Files, selected |-> None] ELSE windows[p]]
       /\ news = <<>> /\ selected = None
  BY DEF Init
<1>13. Mirrored
  <2>1. mirror[Explorer] \in Explorers
    BY <1>12 DEF Explorers, File
  <2>2. \A w \in Window : mirror[w] \in Windows
    BY <1>8, <1>12, ExplorerIsNone DEF Kept
  <2>3. QED
    BY <1>12, <2>1, <2>2 DEF Mirrored, Explorable
<1>14. Agree
  <2>1. ASSUME NEW w \in Window PROVE WillShow(news, mirror, w, windows[w])
    <3>1. PICK r \in Windows : r = windows[w] /\ mirror[w] = r
      BY <1>8, <1>12, ExplorerIsNone DEF Kept
    <3>2. \A n : Will(<<>>, mirror, w, n, r[n])
      BY <3>1, WillNow
    <3>3. r["status"] = r.status
      BY WindowFields
    <3>4. Will(<<>>, mirror, w, "status", r.status)
      BY <3>2, <3>3
    <3>5. QED
      BY <1>12, <3>1, <3>2, <3>4 DEF WillShow
  <2>2. Live = Files
    BY DEF Init, Live, File
  <2>3. Will(<<>>, mirror, Explorer, "rows", Live) /\ Will(<<>>, mirror, Explorer, "selected", selected)
    <3>1. mirror[Explorer]["rows"] = Live /\ mirror[Explorer]["selected"] = selected
      BY <1>12, <2>2
    <3>2. QED
      BY <3>1, WillNow
  <2>4. QED
    BY <1>12, <2>1, <2>3 DEF Agree, ExplorerAgrees
<1>15. QED
  BY <1>2, <1>3, <1>8, <1>9, <1>10, <1>11, <1>13, <1>14 DEF IInv, Shell

LEMMA StepInv == IInv /\ [Next]_vars => IInv'
<1> SUFFICES ASSUME IInv, [Next]_vars PROVE IInv'
  OBVIOUS
<1>1. Ui /\ Pipe /\ Shell /\ Mirrored
  BY DEF IInv
<1>2. CASE UiStep
  <2>1. Ui' /\ Sent /\ UNCHANGED <<windows, files, selected, mirror, news>>
    BY <1>1, <1>2, UiStepKeeps, UiStepLeaves
  <2>2. Pipe' /\ Shell'
    BY <1>1, <2>1, SentKeeps, QuietKeeps
  <2>3. Mirrored'
    BY <1>1, <2>1 DEF Mirrored, Explorable
  <2>4. QED
    BY <2>1, <2>2, <2>3 DEF IInv
<1>3. ASSUME UNCHANGED <<ui>> PROVE Ui'
  <2>1. UNCHANGED <<korean, hangul, preedit, cli, editor, focus, rename_input, drag, crashed, clipboard>>
    BY <1>3 DEF ui, text
  <2>2. Boxes /\ clipboard \in Seq(Char)
    BY <1>1 DEF Ui
  <2>3. Boxes'
    BY <2>1, <2>2, SameKeep
  <2>4. QED
    BY <2>1, <2>2, <2>3 DEF Ui
<1>4. CASE HandleInvoke
  <2>1. Shell' /\ Mirrored' /\ Pipe'
    BY <1>1, <1>4, HandleKeeps
  <2>2. UNCHANGED ui
    BY <1>4 DEF HandleInvoke
  <2>3. QED
    BY <1>3, <2>1, <2>2 DEF IInv
<1>5. CASE Hear
  <2>1. Shell' /\ Mirrored'
    BY <1>1, <1>5, HearKeeps
  <2>2. UNCHANGED <<ui, invokes>>
    BY <1>5 DEF Hear
  <2>3. Pipe'
    BY <1>1, <2>2 DEF Pipe
  <2>4. QED
    BY <1>3, <2>1, <2>2, <2>3 DEF IInv
<1>6. CASE UNCHANGED vars
  <2>1. UNCHANGED <<ui, windows, files, selected, mirror, invokes, news>>
    BY <1>6 DEF vars, shell
  <2>2. Shell'
    BY <1>1, <2>1, QuietKeeps
  <2>3. Pipe' /\ Mirrored'
    BY <1>1, <2>1 DEF Pipe, Mirrored, Explorable
  <2>4. QED
    BY <1>3, <2>1, <2>2, <2>3 DEF IInv
<1>7. QED
  BY <1>2, <1>4, <1>5, <1>6, NextSplit

LEMMA InvCli == IInv => CliInRange
<1> SUFFICES ASSUME IInv PROVE CliInRange
  OBVIOUS
<1>1. Ui /\ Pipe /\ Kept /\ NewsOK /\ Mirrored
  BY DEF IInv, Shell
<1>2. korean \in BOOLEAN /\ preedit \in BOOLEAN /\ crashed \in BOOLEAN
      /\ hangul \in [cho : Char, jung : Char, jong : Char]
  BY <1>1 DEF Ui, Boxes, Modes, Syllables
<1>3. cli \in [content : Seq(Char), cursor : Nat, anchor : Anchors, preedit : Char]
      /\ cli.cursor \in Place(cli) /\ cli.anchor \in {NoAnchor} \cup Place(cli)
  BY <1>1 DEF Ui, Boxes, CliOK, CliTexts, AtPlace
<1>4. editor \in [window : Window \cup {0}, content : Seq(Char), cursor : Nat, anchor : Anchors]
  BY <1>1 DEF Ui, Boxes, EditorOK, EditorTexts
<1>5. /\ focus \in Window \cup {0} /\ clipboard \in Seq(Char)
      /\ rename_input \in [target : File \cup {None}, buffer : Seq(Char)]
      /\ drag \in {<<"none">>, <<"window">>, <<"cli">>, <<"scroll">>} \cup {<<"moving", w>> : w \in Window}
  BY <1>1 DEF Ui, Boxes, HandsOK, Names, Drags
<1>6. /\ files \in [File -> [live : BOOLEAN, content : Seq(Char)]]
      /\ selected \in File \cup {None} /\ windows \in [Window -> Windows]
  BY <1>1 DEF Kept
<1>7. /\ DOMAIN mirror = Window \cup {Explorer} /\ mirror[Explorer] \in Explorers
      /\ \A w \in Window : mirror[w] \in Windows
  BY <1>1 DEF Mirrored, Explorable
<1>8. invokes \in Seq(Actions) /\ Len(invokes) <= UiCap
  BY <1>1 DEF Pipe
<1>9. \A i \in DOMAIN news : /\ DOMAIN news[i] \subseteq Window \cup {Explorer}
                             /\ \A p \in DOMAIN news[i] : news[i][p] \in Saids(p)
  BY <1>1 DEF NewsOK, SaidOK
<1>10. TypeOK
  BY <1>2, <1>3, <1>4, <1>5, <1>6, <1>7, <1>8, <1>9, Zenon DEF TypeOK
<1>11. QED
  BY <1>3, <1>10 DEF CliInRange

LEMMA InvMirror == IInv => MirrorAgrees
<1> SUFFICES ASSUME IInv, news = <<>> PROVE
        /\ \A w \in Window : /\ mirror[w].status = windows[w].status
                             /\ Open(w) => mirror[w] = windows[w]
        /\ mirror[Explorer].rows = Live /\ mirror[Explorer].selected = selected
  BY DEF MirrorAgrees
<1>1. Agree /\ Kept /\ Mirrored
  BY DEF IInv, Shell
<1>2. ASSUME NEW w \in Window
      PROVE  mirror[w].status = windows[w].status /\ (Open(w) => mirror[w] = windows[w])
  <2>1. PICK r \in Windows, s \in Windows : r = windows[w] /\ s = mirror[w]
    BY <1>1 DEF Kept, Mirrored
  <2>2. WillShow(<<>>, mirror, w, r)
    BY <1>1, <2>1 DEF Agree
  <2>3. s["status"] = r.status
    BY <2>1, <2>2, WillNow DEF WillShow
  <2>4. s.status = r.status
    BY <2>3, WindowFields
  <2>5. ASSUME r.status = "open" PROVE s = r
    <3>1. \A n \in Fields : s[n] = r[n]
      BY <2>1, <2>2, <2>5, WillNow DEF WillShow
    <3>2. /\ s["status"] = r["status"] /\ s["file"] = r["file"] /\ s["content"] = r["content"]
          /\ s["focused"] = r["focused"] /\ s["dirty"] = r["dirty"] /\ s["z"] = r["z"] /\ s["moved"] = r["moved"]
      BY <3>1 DEF Fields
    <3>3. QED
      BY <3>2, WindowFields, WindowSame
  <2>6. QED
    BY <2>1, <2>4, <2>5 DEF Open
<1>3. mirror[Explorer]["rows"] = Live /\ mirror[Explorer]["selected"] = selected
  BY <1>1, WillNow DEF Agree, ExplorerAgrees
<1>4. mirror[Explorer].rows = Live /\ mirror[Explorer].selected = selected
  BY <1>3
<1>5. QED
  BY <1>2, <1>4

LEMMA InvHolds == Spec => []IInv
BY InitInv, StepInv, PTL DEF Spec

\* Every variable keeps its type, and cursor and anchor of the command line lie in
\* it, whatever is typed, composed, selected, pasted, dragged, renamed or submitted
\* (CliLocalState and the key and mouse handlers of geulos-vm-compositor.rs).
THEOREM CliInRangeCorrect == Spec => []CliInRange
BY InvHolds, InvCli, PTL

\* At most one open Window is focused, and it lies above all other open ones
\* (handle_focus, handle_open_file, handle_close_confirm in window_methods.rs).
THEOREM FocusedOnTopCorrect == Spec => []FocusedOnTop
<1>1. IInv => FocusedOnTop
  BY DEF IInv, Shell
<1>2. QED
  BY <1>1, InvHolds, PTL

\* Once everything the shell said has been heard, the compositor shows of each open
\* Window, of the rows of the Explorer and of the item selected there just what the
\* shell has: every handler says what it changes.
THEOREM MirrorAgreesCorrect == Spec => []MirrorAgrees
BY InvHolds, InvMirror, PTL

-----------------------------------------------------------------------------
(***************************************************************************)
(* Letters.  A text is taken as what lies before its cursor and what lies  *)
(* after it (Split); the letters of the two are those of FlattenSeq.  What *)
(* the automaton commits and what it keeps are together the syllable and   *)
(* the letter (JamoAdds), and Backspace takes the last letter of the       *)
(* syllable (UndoTakes), which has at most one initial consonant and a     *)
(* final one only behind a vowel (Syllabic).                               *)
(***************************************************************************)

(* The letters of a text: the function by which FlattenSeq is defined exists. *)
Flattens(f, s) == f = [i \in 1 .. Len(s) |-> IF i = 1 THEN s[i] ELSE f[i - 1] \o s[i]]

LEMMA FlattenIs ==
  ASSUME NEW s, Len(s) # 0
  PROVE  FlattenSeq(s) = (CHOOSE f : Flattens(f, s))[Len(s)]
BY DEF FlattenSeq, Flattens

LEMMA FlattensAt ==
  ASSUME NEW s, NEW f, Flattens(f, s), NEW i \in 1 .. Len(s)
  PROVE  f[i] = IF i = 1 THEN s[i] ELSE f[i - 1] \o s[i]
<1>1. f = [j \in 1 .. Len(s) |-> IF j = 1 THEN s[j] ELSE f[j - 1] \o s[j]]
  BY DEF Flattens
<1> DEFINE g == [j \in 1 .. Len(s) |-> IF j = 1 THEN s[j] ELSE f[j - 1] \o s[j]]
<1>2. g[i] = IF i = 1 THEN s[i] ELSE f[i - 1] \o s[i]
  OBVIOUS
<1>3. f = g
  BY <1>1
<1> HIDE DEF g
<1>4. QED
  BY <1>2, <1>3

SameUpTo(f, g, n) == \A i \in 1 .. n : f[i] = g[i]

(* Where two sequences agree, so do the functions.                           *)
LEMMA FlattensAgree ==
  ASSUME NEW s, NEW t, NEW n \in Nat, Len(s) \in Nat, Len(t) \in Nat, n <= Len(s), n <= Len(t),
         SameUpTo(s, t, n),
         NEW f, NEW g, Flattens(f, s), Flattens(g, t)
  PROVE  SameUpTo(f, g, n)
<1> DEFINE D == {i \in 1 .. n : f[i] # g[i]}
<1>1. ASSUME D # {} PROVE FALSE
  <2>1. PICK i \in D : \A j \in D : i <= j
    <3>1. D \subseteq Nat
      OBVIOUS
    <3>2. QED
      BY <1>1, <3>1, Smallest
  <2>2. i \in 1 .. n /\ f[i] # g[i] /\ i \in 1 .. Len(s) /\ i \in 1 .. Len(t) /\ s[i] = t[i]
    BY <2>1 DEF SameUpTo
  <2>3. f[i] = IF i = 1 THEN s[i] ELSE f[i - 1] \o s[i]
    BY <2>2, FlattensAt
  <2>4. g[i] = IF i = 1 THEN t[i] ELSE g[i - 1] \o t[i]
    BY <2>2, FlattensAt
  <2>5. i # 1 => f[i - 1] = g[i - 1]
    BY <2>1, <2>2
  <2>6. QED
    BY <2>2, <2>3, <2>4, <2>5
<1>2. QED
  BY <1>1 DEF SameUpTo

Longer(t, s, c) == /\ t = Append(s, c) /\ Len(t) = Len(s) + 1 /\ t[Len(s) + 1] = c /\ t # <<>>
                   /\ SameUpTo(s, t, Len(s))

LEMMA LongerFacts ==
  ASSUME NEW S, NEW s \in Seq(S), NEW c \in S
  PROVE  Append(s, c) \in Seq(S) /\ Longer(Append(s, c), s, c)
BY AppendProperties DEF Longer, SameUpTo

LEMMA FlattensGrows ==
  ASSUME NEW T, NEW s \in Seq(Seq(T)), NEW c \in Seq(T), NEW f, Flattens(f, s),
         \A i \in 1 .. Len(s) : f[i] \in Seq(T)
  PROVE  \E g : Flattens(g, Append(s, c)) /\ \A i \in 1 .. Len(Append(s, c)) : g[i] \in Seq(T)
<1>1. PICK n \in Nat : n = Len(s)
  BY EmptyFacts
<1>2. PICK t : /\ t = Append(s, c) /\ Len(t) = n + 1 /\ t[n + 1] = c
               /\ \A i \in 1 .. n : s[i] = t[i]
  <2>1. Longer(Append(s, c), s, c)
    BY LongerFacts
  <2>2. QED
    BY <1>1, <2>1 DEF Longer, SameUpTo
<1>3. PICK g : g = [i \in 1 .. n + 1 |-> IF i = n + 1 THEN (IF n = 0 THEN c ELSE f[n] \o c) ELSE f[i]]
  OBVIOUS
<1>4. \A i \in 1 .. n : f[i] = IF i = 1 THEN s[i] ELSE f[i - 1] \o s[i]
  BY <1>1, FlattensAt
<1>5. \A i \in 1 .. n + 1 : g[i] = IF i = 1 THEN t[i] ELSE g[i - 1] \o t[i]
  <2>1. ASSUME NEW i \in 1 .. n PROVE g[i] = IF i = 1 THEN t[i] ELSE g[i - 1] \o t[i]
    <3>1. g[i] = f[i] /\ (i # 1 => i - 1 \in 1 .. n /\ g[i - 1] = f[i - 1])
      BY <1>3
    <3>2. QED
      BY <1>2, <1>4, <3>1
  <2>2. g[n + 1] = IF n + 1 = 1 THEN t[n + 1] ELSE g[n] \o t[n + 1]
    BY <1>2, <1>3
  <2>3. \A i \in 1 .. n + 1 : i \in 1 .. n \/ (i = n + 1 /\ i - 1 = n)
    OBVIOUS
  <2>4. QED
    BY <2>1, <2>2, <2>3
<1>6. Flattens(g, t)
  <2>1. DOMAIN g = 1 .. n + 1 /\ g = [i \in 1 .. n + 1 |-> g[i]]
    BY <1>3
  <2>2. [i \in 1 .. n + 1 |-> g[i]] = [i \in 1 .. n + 1 |-> IF i = 1 THEN t[i] ELSE g[i - 1] \o t[i]]
    BY <1>5
  <2>3. QED
    BY <1>2, <2>1, <2>2 DEF Flattens
<1>7. \A i \in 1 .. n + 1 : g[i] \in Seq(T)
  <2>1. n # 0 => f[n] \in Seq(T) /\ f[n] \o c \in Seq(T)
    <3>1. ASSUME n # 0 PROVE f[n] \in Seq(T)
      BY <1>1, <3>1
    <3>2. QED
      BY <3>1, ConcatFacts
  <2>2. QED
    BY <1>1, <1>3, <2>1
<1>8. QED
  BY <1>2, <1>6, <1>7

LEMMA FlattenExists ==
  ASSUME NEW T, NEW s \in Seq(Seq(T)), s # <<>>
  PROVE  \E f : Flattens(f, s) /\ \A i \in 1 .. Len(s) : f[i] \in Seq(T)
<1> DEFINE Good(u) == \E f : Flattens(f, u) /\ \A i \in 1 .. Len(u) : f[i] \in Seq(T)
           D == {n \in Nat : \E u \in Seq(Seq(T)) : Len(u) = n /\ u # <<>> /\ ~Good(u)}
<1>1. ASSUME D # {} PROVE FALSE
  <2>1. PICK n \in D : \A m \in D : n <= m
    <3>1. D \subseteq Nat
      OBVIOUS
    <3>2. QED
      BY <1>1, <3>1, Smallest
  <2>2. PICK u \in Seq(Seq(T)) : Len(u) = n /\ u # <<>> /\ ~Good(u)
    BY <2>1
  <2>3. PICK v \in Seq(Seq(T)), c \in Seq(T) : u = Append(v, c)
    BY <2>2, SequenceEmptyOrAppend
  <2>4. Len(v) \in Nat /\ Len(v) < n
    BY <2>2, <2>3
  <2>5. CASE v = <<>>
    <3>1. PICK f : f = [i \in 1 .. 0 |-> c]
      OBVIOUS
    <3>2. Flattens(f, v) /\ \A i \in 1 .. Len(v) : f[i] \in Seq(T)
      <4>1. Len(v) = 0 /\ 1 .. 0 = {}
        BY <2>5
      <4>2. f = [i \in 1 .. Len(v) |-> IF i = 1 THEN v[i] ELSE f[i - 1] \o v[i]]
        BY <3>1, <4>1
      <4>3. QED
        BY <4>1, <4>2 DEF Flattens
    <3>3. Good(Append(v, c))
      BY <3>2, FlattensGrows
    <3>4. QED
      BY <2>2, <2>3, <3>3
  <2>6. CASE v # <<>>
    <3>1. Good(v)
      BY <2>1, <2>4, <2>6
    <3>2. PICK f : Flattens(f, v) /\ \A i \in 1 .. Len(v) : f[i] \in Seq(T)
      BY <3>1
    <3>3. Good(Append(v, c))
      BY <3>2, FlattensGrows
    <3>4. QED
      BY <2>2, <2>3, <3>3
  <2>7. QED
    BY <2>5, <2>6
<1>2. Len(s) \in Nat
  BY EmptyFacts
<1>3. QED
  BY <1>1, <1>2

LEMMA FlattenFacts ==
  ASSUME NEW T, NEW s \in Seq(Seq(T)), NEW c \in Seq(T)
  PROVE  /\ FlattenSeq(<<>>) = <<>>
         /\ FlattenSeq(s) \in Seq(T)
         /\ FlattenSeq(Append(s, c)) = FlattenSeq(s) \o c
<1>1. FlattenSeq(<<>>) = <<>>
  BY DEF FlattenSeq
<1>2. ASSUME NEW u \in Seq(Seq(T)), u # <<>>
      PROVE  \E f : /\ Flattens(f, u) /\ \A i \in 1 .. Len(u) : f[i] \in Seq(T)
                    /\ FlattenSeq(u) = f[Len(u)] /\ Len(u) \in 1 .. Len(u)
  <2>1. Len(u) \in Nat /\ Len(u) # 0
    BY <1>2, EmptyFacts
  <2>2. PICK f : Flattens(f, u) /\ \A i \in 1 .. Len(u) : f[i] \in Seq(T)
    BY <1>2, FlattenExists
  <2>3. PICK g : g = CHOOSE h : Flattens(h, u)
    OBVIOUS
  <2>4. Flattens(g, u)
    BY <2>2, <2>3
  <2>5. SameUpTo(g, f, Len(u))
    <3>1. Len(u) <= Len(u) /\ SameUpTo(u, u, Len(u))
      BY <2>1 DEF SameUpTo
    <3>2. QED
      BY <2>1, <2>2, <2>4, <3>1, FlattensAgree
  <2>6. FlattenSeq(u) = g[Len(u)]
    BY <2>1, <2>3, FlattenIs
  <2>7. Len(u) \in 1 .. Len(u)
    BY <2>1
  <2>8. QED
    BY <2>2, <2>4, <2>5, <2>6, <2>7, Zenon DEF SameUpTo
<1>3. ASSUME s # <<>> PROVE FlattenSeq(s) \in Seq(T)
  BY <1>2, <1>3
<1>4. FlattenSeq(s) \in Seq(T)
  <2>1. <<>> \in Seq(T)
    BY EmptyFacts
  <2>2. QED
    BY <1>1, <1>3, <2>1
<1>5. FlattenSeq(Append(s, c)) = FlattenSeq(s) \o c
  <2>1. PICK n \in Nat : n = Len(s)
    BY EmptyFacts
  <2>2. PICK t \in Seq(Seq(T)) : /\ t = Append(s, c) /\ Len(t) = n + 1 /\ t[n + 1] = c /\ t # <<>>
                                 /\ SameUpTo(s, t, n)
    <3>1. Append(s, c) \in Seq(Seq(T)) /\ Longer(Append(s, c), s, c)
      BY LongerFacts
    <3>2. QED
      BY <2>1, <3>1 DEF Longer
  <2>4. PICK g : Flattens(g, t) /\ FlattenSeq(t) = g[n + 1]
    BY <1>2, <2>2
  <2>5. g[n + 1] = IF n + 1 = 1 THEN t[n + 1] ELSE g[n + 1 - 1] \o t[n + 1]
    <3>1. n + 1 \in 1 .. Len(t)
      BY <2>2
    <3>2. QED
      BY <2>4, <3>1, FlattensAt
  <2>6. CASE s = <<>>
    <3>1. n = 0 /\ FlattenSeq(s) = <<>>
      BY <1>1, <2>1, <2>6
    <3>2. <<>> \o c = c
      BY ConcatEmptySeq
    <3>3. QED
      BY <2>2, <2>4, <2>5, <3>1, <3>2
  <2>7. CASE s # <<>>
    <3>1. PICK f : Flattens(f, s) /\ FlattenSeq(s) = f[n] /\ n \in 1 .. n
      BY <1>2, <2>1, <2>7
    <3>2. f[n] = g[n]
      <4>1. Len(s) \in Nat /\ Len(t) \in Nat /\ n <= Len(s) /\ n <= Len(t)
        BY <2>1, <2>2
      <4>2. SameUpTo(f, g, n)
        BY <2>2, <2>4, <3>1, <4>1, FlattensAgree
      <4>3. QED
        BY <3>1, <4>2 DEF SameUpTo
    <3>3. n + 1 - 1 = n /\ n + 1 # 1
      BY <3>1
    <3>4. QED
      BY <2>2, <2>4, <2>5, <3>1, <3>2, <3>3
  <2>8. QED
    BY <2>6, <2>7
<1>6. QED
  BY <1>1, <1>4, <1>5

(* A text is what lies before its cursor, and what lies after it.            *)
Split(t, T, a, b) == /\ t \in T /\ a \in Seq(Char) /\ b \in Seq(Char)
                     /\ t.content = a \o b /\ t.cursor = Len(a)

LEMMA HalvesFacts ==
  ASSUME NEW S, NEW a \in Seq(S), NEW b \in Seq(S)
  PROVE  /\ SubSeq(a \o b, 1, Len(a)) = a
         /\ SubSeq(a \o b, Len(a) + 1, Len(a \o b)) = b
<1>1. PICK q \in Seq(S), m \in Nat, n \in Nat :
        /\ q = a \o b /\ m = Len(a) /\ n = Len(b) /\ Len(q) = m + n
        /\ \A i \in 1 .. m + n : q[i] = IF i <= m THEN a[i] ELSE b[i - m]
  <2>1. PICK q \in Seq(S) : /\ q = a \o b /\ Len(q) = Len(a) + Len(b)
                           /\ \A i \in 1 .. Len(a) + Len(b) : q[i] = IF i <= Len(a) THEN a[i] ELSE b[i - Len(a)]
    <3>1. PICK q : q = a \o b
      OBVIOUS
    <3>2. /\ q \in Seq(S) /\ Len(q) = Len(a) + Len(b)
          /\ \A i \in 1 .. Len(a) + Len(b) : q[i] = IF i <= Len(a) THEN a[i] ELSE b[i - Len(a)]
      BY <3>1, ConcatProperties
    <3>3. QED
      BY <3>1, <3>2
  <2>2. Len(a) \in Nat /\ Len(b) \in Nat
    BY EmptyFacts
  <2>3. QED
    BY <2>1, <2>2
<1>2. \A i \in 1 .. m + n : q[i] \in S
  BY <1>1
<1>3. SubSeq(q, 1, m) = a
  <2>1. \A i \in 1 .. m : q[i] \in S /\ q[i] = a[i]
    BY <1>1, <1>2
  <2>2. PICK u : u = SubSeq(q, 1, m)
    OBVIOUS
  <2>3. u \in Seq(S) /\ Len(u) = m /\ \A i \in 1 .. m : u[i] = q[i]
    <3>1. 1 \in Int /\ m \in Int
      OBVIOUS
    <3>2. /\ SubSeq(q, 1, m) \in Seq(S)
          /\ Len(SubSeq(q, 1, m)) = IF 1 <= m THEN m - 1 + 1 ELSE 0
          /\ \A i \in 1 .. m - 1 + 1 : SubSeq(q, 1, m)[i] = q[1 + i - 1]
      BY <2>1, <3>1, SubSeqProperties
    <3>3. QED
      BY <2>2, <3>2
  <2>4. u = a
    BY <1>1, <2>1, <2>3, SeqEqual
  <2>5. QED
    BY <2>2, <2>4
<1>4. SubSeq(q, m + 1, m + n) = b
  <2>1. \A i \in m + 1 .. m + n : q[i] \in S
    BY <1>2
  <2>2. PICK u : u = SubSeq(q, m + 1, m + n)
    OBVIOUS
  <2>3. u \in Seq(S) /\ Len(u) = n /\ \A i \in 1 .. n : u[i] = q[m + i]
    <3>1. m + 1 \in Int /\ m + n \in Int
      OBVIOUS
    <3>2. /\ SubSeq(q, m + 1, m + n) \in Seq(S)
          /\ Len(SubSeq(q, m + 1, m + n)) = IF m + 1 <= m + n THEN m + n - (m + 1) + 1 ELSE 0
          /\ \A i \in 1 .. m + n - (m + 1) + 1 : SubSeq(q, m + 1, m + n)[i] = q[m + 1 + i - 1]
      BY <2>1, <3>1, SubSeqProperties
    <3>3. QED
      BY <2>2, <3>2
  <2>4. \A i \in 1 .. n : u[i] = b[i]
    BY <1>1, <2>3
  <2>5. u = b
    BY <1>1, <2>3, <2>4, SeqEqual
  <2>6. QED
    BY <2>2, <2>5
<1>5. QED
  BY <1>1, <1>3, <1>4

LEMMA PartsJoin ==
  ASSUME NEW S, NEW q \in Seq(S), NEW k \in 0 .. Len(q)
  PROVE  /\ SubSeq(q, 1, k) \in Seq(S) /\ Len(SubSeq(q, 1, k)) = k
         /\ SubSeq(q, k + 1, Len(q)) \in Seq(S)
         /\ q = SubSeq(q, 1, k) \o SubSeq(q, k + 1, Len(q))
<1>1. k \in Nat /\ Len(q) \in Nat /\ k <= Len(q)
  BY EmptyFacts
<1>2. /\ SubSeq(q, 1, k) \in Seq(S) /\ Len(SubSeq(q, 1, k)) = k
      /\ SubSeq(q, k + 1, Len(q)) \in Seq(S)
  BY <1>1, PartFacts
<1>3. SubSeq(q, 1, k) \o SubSeq(q, k + 1, Len(q)) = SubSeq(q, 1, Len(q))
  <2>1. /\ 1 \in 1 .. Len(q) + 1 /\ k \in 1 - 1 .. Len(q) /\ Len(q) \in k .. Len(q)
    BY <1>1
  <2>2. QED
    BY <2>1, ConcatAdjacentSubSeq
<1>4. SubSeq(q, 1, Len(q)) = q
  BY SubSeqFull
<1>5. QED
  BY <1>2, <1>3, <1>4, Zenon

LEMMA SplitFacts ==
  ASSUME NEW T \in TextTypes, NEW t \in T, AtPlace(t)
  PROVE  Split(t, T, SubSeq(t.content, 1, t.cursor), SubSeq(t.content, t.cursor + 1, Len(t.content)))
<1>1. t.content \in Seq(Char) /\ t.cursor \in 0 .. Len(t.content)
  BY TextParts DEF AtPlace, Place
<1>2. QED
  BY <1>1, PartsJoin DEF Split

LEMMA SplitParts ==
  ASSUME NEW t, NEW T, NEW a, NEW b, Split(t, T, a, b)
  PROVE  /\ SubSeq(t.content, 1, t.cursor) = a
         /\ SubSeq(t.content, t.cursor + 1, Len(t.content)) = b
BY HalvesFacts DEF Split

(* What a text becomes when it is written anew.                              *)
LEMMA SplitText ==
  ASSUME NEW T \in TextTypes, NEW t \in T, NEW a \in Seq(Char), NEW b \in Seq(Char), NEW k \in Anchors
  PROVE  /\ Split(TextOf(t, a \o b, Len(a), k), T, a, b)
         /\ TextOf(t, a \o b, Len(a), k).anchor = k
<1>1. PICK c \in Seq(Char) : c = a \o b
  BY ConcatFacts
<1>2. PICK n \in Nat : n = Len(a)
  BY EmptyFacts
<1>3. Reads(TextOf(t, c, n, k), T, c, n, k)
  BY TextChanged, Zenon
<1>4. QED
  BY <1>1, <1>2, <1>3, Zenon DEF Reads, Split

LEMMA SplitPut ==
  ASSUME NEW T \in TextTypes, NEW t, NEW a, NEW b, Split(t, T, a, b), NEW s \in Seq(Char)
  PROVE  Split(Put(t, s), T, a \o s, b) /\ Put(t, s).anchor = t.anchor
<1>1. /\ t \in T /\ a \in Seq(Char) /\ b \in Seq(Char) /\ t.content = a \o b /\ t.cursor = Len(a)
      /\ SubSeq(t.content, 1, t.cursor) = a
      /\ SubSeq(t.content, t.cursor + 1, Len(t.content)) = b
  BY SplitParts DEF Split
<1>2. t.anchor \in Anchors
  BY <1>1, TextParts DEF Anchors, NoAnchor
<1>3. PICK d \in Seq(Char) : d = a \o s /\ Len(d) = t.cursor + Len(s)
  <2>1. PICK d : d = a \o s
    OBVIOUS
  <2>2. d \in Seq(Char) /\ Len(d) = t.cursor + Len(s)
    BY <1>1, <2>1, ConcatFacts
  <2>3. QED
    BY <2>1, <2>2
<1>4. Put(t, s) = TextOf(t, d \o b, Len(d), t.anchor)
  BY <1>1, <1>3 DEF Put, TextOf, EditorTexts, CliTexts, TextTypes
<1>5. TextOf(t, d \o b, Len(d), t.anchor).anchor = t.anchor /\ Split(TextOf(t, d \o b, Len(d), t.anchor), T, d, b)
  BY <1>1, <1>2, SplitText
<1>6. QED
  BY <1>3, <1>4, <1>5

LEMMA SplitTake ==
  ASSUME NEW T \in TextTypes, NEW t, NEW a \in Seq(Char), NEW c \in Char, NEW b, Split(t, T, Append(a, c), b)
  PROVE  /\ Split(Take(t), T, a, b) /\ Take(t).anchor = t.anchor
         /\ t.anchor = Len(a) => Split(delete_selection(t), T, a, b) /\ delete_selection(t).anchor = NoAnchor
<1>1. /\ t \in T /\ b \in Seq(Char) /\ t.cursor = Len(Append(a, c))
      /\ SubSeq(t.content, 1, t.cursor) = Append(a, c)
      /\ SubSeq(t.content, t.cursor + 1, Len(t.content)) = b
  BY SplitParts DEF Split
<1>2. PICK n \in Nat : n = Len(a) /\ t.cursor = n + 1
  <2>1. Len(a) \in Nat /\ Len(Append(a, c)) = Len(a) + 1
    BY AppendFacts, EmptyFacts
  <2>2. QED
    BY <1>1, <2>1
<1>3. t.content = a \o (<<c>> \o b)
  <2>1. <<c>> \in Seq(Char)
    BY CharFacts
  <2>2. Append(a, c) = a \o <<c>>
    BY AppendIsConcat
  <2>3. (a \o <<c>>) \o b = a \o (<<c>> \o b)
    BY <1>1, <2>1, ConcatAssociative
  <2>4. QED
    BY <2>2, <2>3 DEF Split
<1>4. SubSeq(t.content, 1, n) = a
  <2>1. <<c>> \o b \in Seq(Char)
    BY <1>1, CharFacts, ConcatFacts
  <2>2. QED
    BY <1>2, <1>3, <2>1, HalvesFacts
<1>5. t.anchor \in Anchors /\ NoAnchor \in Anchors
  BY <1>1, TextParts DEF Anchors, NoAnchor
<1>6. Take(t) = TextOf(t, a \o b, Len(a), t.anchor)
  <2>1. RemoveAt(t.content, t.cursor) = a \o b
    <3>1. t.cursor - 1 = n
      BY <1>2
    <3>2. QED
      BY <1>1, <1>4, <3>1 DEF RemoveAt
  <2>2. t.cursor # 0 /\ t.cursor - 1 = n
    BY <1>2
  <2>3. QED
    BY <1>1, <1>2, <2>1, <2>2 DEF Take, TextOf, EditorTexts, CliTexts, TextTypes
<1>7. ASSUME t.anchor = Len(a) PROVE delete_selection(t) = TextOf(t, a \o b, Len(a), NoAnchor)
  <2>1. IsSelected(t) /\ Low(t) = n /\ High(t) = n + 1
    BY <1>2, <1>7 DEF IsSelected, Low, High, NoAnchor
  <2>2. n + 1 + 1 = t.cursor + 1
    BY <1>2
  <2>3. QED
    BY <1>1, <1>2, <1>4, <2>1, <2>2 DEF delete_selection, TextOf
<1>8. QED
  BY <1>1, <1>5, <1>6, <1>7, SplitText

LEMMA CharAlgebra ==
  /\ \A a, b \in Char : a \o b \in Char
  /\ \A a, b, c \in Char : (a \o b) \o c = a \o (b \o c)
  /\ \A a \in Char : a \o <<>> = a /\ <<>> \o a = a
  /\ \A a \in Char : \A l \in Letters : Append(a, l) = a \o <<l>>
  /\ \A a \in Char : a # <<>> => Front(a) \o <<Last(a)>> = a
<1>1. ASSUME NEW a \in Char, NEW b \in Char PROVE a \o b \in Char
  BY CharFacts
<1>2. ASSUME NEW a \in Char, NEW b \in Char, NEW c \in Char PROVE (a \o b) \o c = a \o (b \o c)
  BY CharFacts, ConcatAssociative, SMTT(20)
<1>3. ASSUME NEW a \in Char PROVE a \o <<>> = a /\ <<>> \o a = a
  BY CharFacts, ConcatEmptySeq
<1>4. ASSUME NEW a \in Char, NEW l \in Letters PROVE Append(a, l) = a \o <<l>>
  BY CharFacts, AppendIsConcat
<1>5. ASSUME NEW a \in Char, a # <<>> PROVE Front(a) \o <<Last(a)>> = a
  <2>1. a \in Seq(Letters) /\ Len(a) \in Nat /\ Len(a) >= 1
    BY <1>5, CharFacts, EmptyFacts
  <2>2. SubSeq(a, 1, Len(a)) = SubSeq(a, 1, Len(a) - 1) \o << a[Len(a)] >>
    <3>1. 1 \in 1 .. Len(a) /\ Len(a) \in 1 .. Len(a)
      BY <2>1
    <3>2. QED
      BY <2>1, <3>1, SubSeqRecursiveSecond
  <2>3. SubSeq(a, 1, Len(a)) = a
    BY <2>1, SubSeqFull
  <2>4. QED
    BY <2>2, <2>3, Zenon DEF Front, Last
<1>6. QED
  BY <1>1, <1>2, <1>3, <1>4, <1>5, Zenon

LEMMA CharJoins ==
  ASSUME NEW a \in Char, NEW b \in Char
  PROVE  a \o b \in Char
BY CharAlgebra

Regroups(a, b, c) == (a \o b) \o c = a \o (b \o c)

LEMMA CharAssociative ==
  ASSUME NEW a \in Char, NEW b \in Char, NEW c \in Char
  PROVE  Regroups(a, b, c)
BY CharFacts, ConcatAssociative, SMTT(20) DEF Regroups

LEMMA FlatFacts ==
  ASSUME NEW x \in Seq(Char)
  PROVE  /\ FlattenSeq(x) \in Char
         /\ \A c \in Char : FlattenSeq(Append(x, c)) = FlattenSeq(x) \o c
         /\ \A c \in Char : FlattenSeq(x \o <<c>>) = FlattenSeq(x) \o c
         /\ FlattenSeq(x \o <<>>) = FlattenSeq(x)
         /\ \A s \in Syllables : FlattenSeq(x \o Composed(s)) = FlattenSeq(x) \o Render(s)
<1>1. x \in Seq(Seq(Letters)) /\ Char = Seq(Letters) /\ <<>> \in Char
  BY CharFacts
<1>2. FlattenSeq(x) \in Char
  BY <1>1, FlattenFacts
<1>3. ASSUME NEW c \in Char PROVE FlattenSeq(Append(x, c)) = FlattenSeq(x) \o c
  BY <1>1, FlattenFacts
<1>4. ASSUME NEW c \in Char PROVE FlattenSeq(x \o <<c>>) = FlattenSeq(x) \o c
  <2>1. Append(x, c) = x \o <<c>>
    BY AppendIsConcat
  <2>2. QED
    BY <1>3, <2>1
<1>5. x \o <<>> = x
  BY ConcatEmptySeq
<1>6. ASSUME NEW s \in Syllables PROVE FlattenSeq(x \o Composed(s)) = FlattenSeq(x) \o Render(s)
  <2>1. CASE s = Empty
    <3>1. Render(s) = (<<>> \o <<>>) \o <<>> /\ Composed(s) = <<>>
      BY <2>1 DEF Render, Composed, Empty, Syllable
    <3>2. Render(s) = <<>>
      BY <1>1, <3>1, CharAlgebra
    <3>3. FlattenSeq(x) \o <<>> = FlattenSeq(x)
      BY <1>2, CharAlgebra
    <3>4. QED
      BY <1>5, <3>1, <3>2, <3>3
  <2>2. CASE s # Empty
    <3>1. Composed(s) = << Render(s) >> /\ Render(s) \in Char
      BY <2>2, SyllableFacts DEF Composed
    <3>2. QED
      BY <1>4, <3>1
  <2>3. QED
    BY <2>1, <2>2
<1>7. QED
  BY <1>2, <1>3, <1>4, <1>5, <1>6

(* Whatever the automaton commits and keeps, it is what was there and the letter. *)
Adds(out, s, l) ==
    \/ out.committed = <<>> /\ Render(out.state) = Append(Render(s), l)
    \/ \E c \in Char : out.committed = << c >> /\ c \o Render(out.state) = Append(Render(s), l)

LEMMA GoesAdds ==
  ASSUME NEW s, NEW t, NEW l, Render(t) = Append(Render(s), l)
  PROVE  Adds(Goes(t), s, l)
BY DEF Goes, Adds

LEMMA SplitsAdds ==
  ASSUME NEW s, NEW t, NEW l, NEW c \in Char, c \o Render(t) = Append(Render(s), l)
  PROVE  Adds(Splits(c, t), s, l)
BY DEF Splits, Adds

LEMMA RenderFacts ==
  /\ \A a, b, c : Render(Syllable(a, b, c)) = (a \o b) \o c
  /\ \A s : Render(s) = (s.cho \o s.jung) \o s.jong
  /\ \A s \in Syllables : \A c : /\ Render([s EXCEPT !.jung = c]) = (s.cho \o c) \o s.jong
                                 /\ Render([s EXCEPT !.jong = c]) = (s.cho \o s.jung) \o c
BY DEF Render, Syllable, Syllables

LEMMA JamoAdds ==
  ASSUME NEW s \in Syllables, NEW l \in Letters
  PROVE  Adds(input_jamo(s, l), s, l)
<1>1. PICK a \in Char, b \in Char, c \in Char : a = s.cho /\ b = s.jung /\ c = s.jong
  BY SyllableFacts
<1>2. PICK d \in Char : d = <<l>>
  BY CharFacts
<1>3. <<>> \in Char
  BY CharFacts
<1>4. PICK r \in Char : r = (a \o b) \o c /\ Render(s) = r /\ Append(r, l) = r \o d
  <2>1. (a \o b) \o c \in Char
    BY CharAlgebra, Zenon
  <2>2. Append((a \o b) \o c, l) = ((a \o b) \o c) \o d
    BY <1>2, <2>1, CharAlgebra, Zenon
  <2>3. QED
    BY <1>1, <2>1, <2>2, RenderFacts, Zenon
<1>5. r \o d = Append(Render(s), l)
  BY <1>4
\* A syllable of the letter alone.
<1>6. ASSUME NEW t, Render(t) = d
      PROVE  Adds(Splits(Render(s), t), s, l)
  BY <1>4, <1>5, <1>6, SplitsAdds, Zenon
<1>7. Render(Syllable(<<l>>, <<>>, <<>>)) = d /\ Render(Syllable(<<>>, <<l>>, <<>>)) = d
  <2>1. (d \o <<>>) \o <<>> = d /\ (<<>> \o d) \o <<>> = d
    BY <1>3, CharAlgebra, Zenon
  <2>2. /\ Render(Syllable(d, <<>>, <<>>)) = (d \o <<>>) \o <<>>
        /\ Render(Syllable(<<>>, d, <<>>)) = (<<>> \o d) \o <<>>
    BY DEF Render, Syllable
  <2>3. QED
    BY <1>2, <2>1, <2>2
<1>8. Adds(input_vowel(s, l), s, l)
  <2>1. CASE s.jong # <<>>
    <3>1. PICK e \in Char, f \in Char : e = Front(c) /\ f = <<Last(c)>> /\ e \o f = c
      <4>1. Last(c) \in Letters /\ Front(c) \in Char
        BY <1>1, <2>1, CharFacts
      <4>2. <<Last(c)>> \in Char /\ Front(c) \o <<Last(c)>> = c
        BY <1>1, <2>1, <4>1, CharFacts, CharAlgebra
      <4>3. QED
        BY <4>1, <4>2
    <3>2. PICK t : t = Syllable(<<Last(s.jong)>>, <<l>>, <<>>)
      OBVIOUS
    <3>3. Render(t) = f \o d
      <4>1. Render(t) = (f \o d) \o <<>>
        <5>1. t = Syllable(f, d, <<>>)
          BY <1>1, <1>2, <3>1, <3>2
        <5>2. QED
          BY <5>1 DEF Render, Syllable
      <4>2. QED
        BY <4>1, CharAlgebra
    <3>4. PICK g \in Char : g = (a \o b) \o e
      BY CharAlgebra
    <3>5. g \o (f \o d) = r \o d
      <4>1. PICK p \in Char : p = a \o b
        BY <1>1, CharJoins
      <4>2. p \in Char /\ e \in Char /\ f \in Char /\ d \in Char /\ g \in Char
        BY <1>2, <3>1, <3>4, <4>1, Zenon
      <4>3. Regroups(g, f, d) /\ Regroups(p, e, f)
        BY <4>2, CharAssociative, Zenon
      <4>4. QED
        BY <1>4, <3>1, <3>4, <4>1, <4>3, Zenon DEF Regroups
    <3>6. Adds(Splits(g, t), s, l)
      BY <1>5, <3>3, <3>5, SplitsAdds, Zenon
    <3>7. QED
      BY <1>1, <2>1, <3>1, <3>2, <3>4, <3>6, Zenon DEF input_vowel
  <2>2. CASE s.jong = <<>> /\ (s.jung = <<>> \/ s.jung \o <<l>> \in CompoundJung)
    <3>1. Append(b, l) = b \o d
      BY <1>2, CharAlgebra, Zenon
    <3>2. Render([s EXCEPT !.jung = Append(s.jung, l)]) = (a \o (b \o d)) \o c
      BY <1>1, <3>1, RenderFacts, Zenon
    <3>3. (a \o (b \o d)) \o c = r \o d
      <4>1. c = <<>> /\ b \o d \in Char /\ a \o b \in Char
        BY <1>1, <2>2, CharAlgebra, Zenon
      <4>2. (a \o (b \o d)) \o <<>> = a \o (b \o d) /\ (a \o b) \o <<>> = a \o b
        BY <4>1, CharAlgebra, Zenon
      <4>3. a \o (b \o d) = (a \o b) \o d
        BY CharAlgebra, Zenon
      <4>4. QED
        BY <1>4, <4>1, <4>2, <4>3, Zenon
    <3>4. Adds(Goes([s EXCEPT !.jung = Append(s.jung, l)]), s, l)
      BY <1>5, <3>2, <3>3, GoesAdds, Zenon
    <3>5. QED
      BY <2>2, <3>4 DEF input_vowel
  <2>3. CASE s.jong = <<>> /\ ~(s.jung = <<>> \/ s.jung \o <<l>> \in CompoundJung)
    <3>1. Adds(Splits(Render(s), Syllable(<<>>, <<l>>, <<>>)), s, l)
      BY <1>6, <1>7
    <3>2. QED
      BY <2>3, <3>1, Zenon DEF input_vowel
  <2>4. QED
    BY <2>1, <2>2, <2>3, Zenon
<1>9. Adds(input_consonant(s, l), s, l)
  <2> DEFINE Joins == /\ s.cho # <<>> /\ s.jung # <<>>
                      /\ \/ s.jong = <<>> /\ l \in Jongseong
                         \/ Append(s.jong, l) \in CompoundJong
  <2>1. CASE s = Empty
    <3>1. Render(s) = <<>>
      <4>1. Render(s) = (<<>> \o <<>>) \o <<>>
        BY <2>1, RenderFacts DEF Empty
      <4>2. QED
        BY <1>3, <4>1, CharAlgebra
    <3>2. r \o d = d
      BY <1>4, <3>1, CharAlgebra
    <3>3. Adds(Goes(Syllable(<<l>>, <<>>, <<>>)), s, l)
      BY <1>5, <1>7, <3>2, GoesAdds, Zenon
    <3>4. QED
      BY <2>1, <3>3, Zenon DEF input_consonant
  <2>2. CASE s # Empty /\ Joins
    <3>1. Append(c, l) = c \o d
      BY <1>2, CharAlgebra, Zenon
    <3>2. Render([s EXCEPT !.jong = Append(s.jong, l)]) = (a \o b) \o (c \o d)
      <4>1. Render([s EXCEPT !.jong = c \o d]) = (s.cho \o s.jung) \o (c \o d)
        BY DEF Render, Syllables
      <4>2. QED
        BY <1>1, <3>1, <4>1
    <3>3. (a \o b) \o (c \o d) = r \o d
      <4>1. PICK p \in Char : p = a \o b
        BY <1>1, CharJoins
      <4>2. Regroups(p, c, d)
        BY <1>1, <1>2, <4>1, CharAssociative, Zenon
      <4>3. QED
        BY <1>4, <4>1, <4>2, Zenon DEF Regroups
    <3>4. Adds(Goes([s EXCEPT !.jong = Append(s.jong, l)]), s, l)
      BY <1>5, <3>2, <3>3, GoesAdds, Zenon
    <3>5. QED
      BY <2>2, <3>4 DEF input_consonant
  <2>3. CASE s # Empty /\ ~Joins
    <3>1. Adds(Splits(Render(s), Syllable(<<l>>, <<>>, <<>>)), s, l)
      BY <1>6, <1>7
    <3>2. QED
      BY <2>3, <3>1, Zenon DEF input_consonant
  <2>4. QED
    BY <2>1, <2>2, <2>3, Zenon
<1>10. QED
  BY <1>8, <1>9, Zenon DEF input_jamo

LEMMA JamoLetters ==
  ASSUME NEW s \in Syllables, NEW l \in Letters, NEW x \in Seq(Char),
         NEW out, out = input_jamo(s, l)
  PROVE  /\ out.committed \in Seq(Char) /\ x \o out.committed \in Seq(Char)
         /\ FlattenSeq(x \o out.committed) \o Render(out.state) = Append(FlattenSeq(x) \o Render(s), l)
<1>1. OutOK(out) /\ Adds(out, s, l)
  BY JamoFacts, JamoAdds
<1>2. out.committed \in Seq(Char) /\ x \o out.committed \in Seq(Char)
  BY <1>1, ConcatFacts DEF OutOK
<1>3. PICK f \in Char, r \in Char, u \in Char, d \in Char :
        f = FlattenSeq(x) /\ r = Render(s) /\ u = Render(out.state) /\ d = <<l>>
  BY <1>1, FlatFacts, SyllableFacts, CharFacts DEF OutOK
<1>4. Append(r, l) = r \o d /\ Append(f \o r, l) = f \o (r \o d)
  <2>1. f \o r \in Char /\ Append(r, l) = r \o d
    BY <1>3, CharAlgebra, Zenon
  <2>2. Append(f \o r, l) = (f \o r) \o d
    BY <1>3, <2>1, CharAlgebra, Zenon
  <2>3. QED
    BY <2>1, <2>2, CharAlgebra, Zenon
<1>5. CASE out.committed = <<>> /\ u = Append(r, l)
  BY <1>3, <1>4, <1>5, FlatFacts
<1>6. ASSUME NEW c \in Char, out.committed = << c >>, c \o u = Append(r, l)
      PROVE  FlattenSeq(x \o out.committed) \o u = f \o (r \o d)
  <2>1. FlattenSeq(x \o out.committed) = f \o c
    <3>1. FlattenSeq(x \o << c >>) = FlattenSeq(x) \o c
      BY FlatFacts
    <3>2. QED
      BY <1>3, <1>6, <3>1
  <2>2. (f \o c) \o u = f \o (c \o u)
    BY CharAlgebra, Zenon
  <2>3. QED
    BY <1>4, <1>6, <2>1, <2>2
<1>7. QED
  BY <1>1, <1>2, <1>3, <1>4, <1>5, <1>6 DEF Adds

LEMMA EditorWindow ==
  ASSUME NEW t \in EditorTexts, NEW s
  PROVE  /\ delete_selection(t).window = t.window /\ Take(t).window = t.window
         /\ backspace(t).window = t.window
         /\ ~IsSelected(t) => insert_str(t, s) = Put(t, s) /\ insert_str(t, s).window = t.window
<1>1. delete_selection(t).window = t.window
  BY DEF delete_selection, EditorTexts
<1>2. Take(t).window = t.window
  BY DEF Take, EditorTexts
<1>3. Put(t, s).window = t.window
  BY DEF Put, EditorTexts
<1>4. QED
  BY <1>1, <1>2, <1>3 DEF backspace, insert_str, delete_selection

LEMMA EditorPuts ==
  ASSUME NEW t, NEW a, NEW b, Split(t, EditorTexts, a, b), ~IsSelected(t), NEW s \in Seq(Char)
  PROVE  /\ Split(insert_str(t, s), EditorTexts, a \o s, b)
         /\ insert_str(t, s).anchor = t.anchor /\ insert_str(t, s).window = t.window
<1>1. t \in EditorTexts /\ EditorTexts \in TextTypes
  BY DEF Split, TextTypes
<1>2. insert_str(t, s) = Put(t, s) /\ insert_str(t, s).window = t.window
  BY <1>1, EditorWindow
<1>3. Split(Put(t, s), EditorTexts, a \o s, b) /\ Put(t, s).anchor = t.anchor
  BY <1>1, SplitPut
<1>4. QED
  BY <1>2, <1>3

(* The syllable at the cursor is taken back.                                 *)
LEMMA EditorTakes ==
  ASSUME NEW t, EditorOK(t), NEW c \in Char, t.cursor > 0, t.content[t.cursor] = c,
         t.anchor # t.cursor, IsSelected(t) => t.anchor = t.cursor - 1
  PROVE  \E a, b \in Seq(Char) :
            /\ Split(t, EditorTexts, Append(a, c), b)
            /\ Split(backspace(t), EditorTexts, a, b)
            /\ backspace(t).anchor = NoAnchor /\ backspace(t).window = t.window
<1>1. /\ t \in EditorTexts /\ EditorTexts \in TextTypes /\ AtPlace(t)
      /\ t.content \in Seq(Char) /\ t.cursor \in Nat /\ t.cursor <= Len(t.content) /\ Len(t.content) \in Nat
      /\ t.anchor \in Nat \cup {-1}
  BY TextParts, EmptyFacts DEF EditorOK, TextTypes, AtPlace, Place
<1>2. PICK p \in Seq(Char), b \in Seq(Char) :
        /\ p = SubSeq(t.content, 1, t.cursor) /\ Split(t, EditorTexts, p, b)
  BY <1>1, SplitFacts, Zenon DEF Split
<1>3. Len(p) = t.cursor /\ p # <<>>
  <2>1. t.cursor = Len(p)
    BY <1>2 DEF Split
  <2>2. QED
    BY <1>1, <2>1
<1>4. PICK a \in Seq(Char), x \in Char : p = Append(a, x)
  BY <1>3, SequenceEmptyOrAppend
<1>5. Len(a) = t.cursor - 1 /\ p[t.cursor] = x
  <2>1. Len(Append(a, x)) = Len(a) + 1 /\ Append(a, x)[Len(a) + 1] = x /\ Len(a) \in Nat
    BY AppendFacts, EmptyFacts
  <2>2. QED
    BY <1>1, <1>3, <1>4, <2>1
<1>6. p[t.cursor] = t.content[t.cursor]
  <2>1. t.cursor \in 1 .. t.cursor /\ 1 \in Int /\ t.cursor \in Int
    BY <1>1
  <2>2. \A i \in 1 .. t.cursor : t.content[i] \in Char
    BY <1>1
  <2>3. \A i \in 1 .. t.cursor - 1 + 1 : SubSeq(t.content, 1, t.cursor)[i] = t.content[1 + i - 1]
    BY <2>1, <2>2, SubSeqProperties
  <2>4. QED
    BY <1>1, <1>2, <2>1, <2>3
<1>7. x = c /\ Split(t, EditorTexts, Append(a, c), b)
  BY <1>2, <1>4, <1>5, <1>6
<1>8. /\ Split(Take(t), EditorTexts, a, b) /\ Take(t).anchor = t.anchor
      /\ t.anchor = Len(a) => Split(delete_selection(t), EditorTexts, a, b) /\ delete_selection(t).anchor = NoAnchor
  BY <1>1, <1>7, SplitTake
<1>9. IsSelected(t) => t.anchor = Len(a)
  BY <1>5
<1>10. ~IsSelected(t) => t.anchor = NoAnchor
  BY DEF IsSelected
<1>11. Split(backspace(t), EditorTexts, a, b) /\ backspace(t).anchor = NoAnchor
  BY <1>8, <1>9, <1>10, Zenon DEF backspace
<1>12. backspace(t).window = t.window
  BY <1>1, EditorWindow
<1>13. QED
  BY <1>7, <1>11, <1>12

LEMMA CliPutsAt ==
  ASSUME NEW t, NEW a, NEW b, Split(t, CliTexts, a, b), ~IsSelected(t), NEW s \in Seq(Char)
  PROVE  /\ Split(cli_delete_selection(t), CliTexts, a, b) /\ ~IsSelected(cli_delete_selection(t))
         /\ Split(handle_ime_commit(t, s), CliTexts, a \o s, b)
<1>1. t \in CliTexts /\ CliTexts \in TextTypes /\ NoAnchor \in Anchors
  BY DEF Split, TextTypes, Anchors
<1>2. PICK d : d = cli_delete_selection(t)
  OBVIOUS
<1>3. d = [t EXCEPT !.anchor = NoAnchor]
  BY <1>2 DEF cli_delete_selection, delete_selection
<1>4. d \in CliTexts /\ d.content = t.content /\ d.cursor = t.cursor /\ d.anchor = NoAnchor
  BY <1>1, <1>3 DEF CliTexts
<1>5. Split(d, CliTexts, a, b) /\ ~IsSelected(d)
  BY <1>4 DEF Split, IsSelected
<1>6. PICK u : u = Put(d, s) /\ Split(u, CliTexts, a \o s, b)
  BY <1>1, <1>5, SplitPut
<1>7. <<>> \in Char
  BY CharFacts
<1>8. [u EXCEPT !.preedit = <<>>] \in CliTexts /\ [u EXCEPT !.preedit = <<>>].content = u.content
      /\ [u EXCEPT !.preedit = <<>>].cursor = u.cursor
  BY <1>6, <1>7 DEF CliTexts, Split
<1>9. Split([u EXCEPT !.preedit = <<>>], CliTexts, a \o s, b)
  BY <1>6, <1>8 DEF Split
<1>10. QED
  BY <1>2, <1>5, <1>6, <1>9 DEF handle_ime_commit, cli_insert

LEMMA CliShows ==
  ASSUME NEW t, NEW a, NEW b, Split(t, CliTexts, a, b), NEW c \in Char
  PROVE  Split([t EXCEPT !.preedit = c], CliTexts, a, b)
<1>1. /\ [t EXCEPT !.preedit = c] \in CliTexts /\ [t EXCEPT !.preedit = c].content = t.content
      /\ [t EXCEPT !.preedit = c].cursor = t.cursor
  BY DEF CliTexts, Split
<1>2. QED
  BY <1>1 DEF Split

LEMMA NothingBefore ==
  /\ Render(Empty) = <<>>
  /\ \A l : input_jamo(Empty, l).committed = <<>>
<1>1. Render(Empty) = <<>>
  <2>1. Render(Empty) = (<<>> \o <<>>) \o <<>>
    BY DEF Render, Empty, Syllable
  <2>2. QED
    BY <2>1, CharFacts, CharAlgebra
<1>2. ASSUME NEW l PROVE input_jamo(Empty, l).committed = <<>>
  <2>1. Empty.jong = <<>> /\ Empty.jung = <<>>
    BY DEF Empty, Syllable
  <2>2. input_vowel(Empty, l).committed = <<>>
    BY <2>1 DEF input_vowel, Goes
  <2>3. input_consonant(Empty, l).committed = <<>>
    BY DEF input_consonant, Goes
  <2>4. QED
    BY <2>2, <2>3 DEF input_jamo
<1>3. QED
  BY <1>1, <1>2

LEMMA SaysEditor ==
  ASSUME NEW a, NEW b, EditorOpen, Split(editor, EditorTexts, a, b)
  PROVE  Before = FlattenSeq(a) /\ After = FlattenSeq(b)
<1>1. Target = editor
  BY DEF Target
<1>2. /\ SubSeq(editor.content, 1, editor.cursor) = a
      /\ SubSeq(editor.content, editor.cursor + 1, Len(editor.content)) = b
  BY SplitParts
<1>3. FlattenSeq(a) \o <<>> = FlattenSeq(a)
  BY FlatFacts, CharAlgebra DEF Split
<1>4. QED
  BY <1>1, <1>2, <1>3 DEF Before, After

LEMMA SaysEditorThen ==
  ASSUME NEW a, NEW b, EditorOpen, NEW t, editor' = t, t.window = editor.window, Split(t, EditorTexts, a, b)
  PROVE  Before' = FlattenSeq(a) /\ After' = FlattenSeq(b)
<1>1. EditorOpen' /\ Target' = t
  BY DEF Target, EditorOpen
<1>2. /\ SubSeq(t.content, 1, t.cursor) = a
      /\ SubSeq(t.content, t.cursor + 1, Len(t.content)) = b
  BY SplitParts
<1>3. FlattenSeq(a) \o <<>> = FlattenSeq(a)
  BY FlatFacts, CharAlgebra DEF Split
<1>4. QED
  BY <1>1, <1>2, <1>3 DEF Before, After

LEMMA SaysCli ==
  ASSUME NEW a, NEW b, ~EditorOpen, Split(cli, CliTexts, a, b)
  PROVE  Before = FlattenSeq(a) \o Render(hangul) /\ After = FlattenSeq(b)
<1>1. Target = cli
  BY DEF Target
<1>2. /\ SubSeq(cli.content, 1, cli.cursor) = a
      /\ SubSeq(cli.content, cli.cursor + 1, Len(cli.content)) = b
  BY SplitParts
<1>3. QED
  BY <1>1, <1>2 DEF Before, After

LEMMA SaysCliThen ==
  ASSUME NEW a, NEW b, ~EditorOpen, editor' = editor, NEW t, cli' = t, Split(t, CliTexts, a, b),
         NEW h, hangul' = h
  PROVE  Before' = FlattenSeq(a) \o Render(h) /\ After' = FlattenSeq(b)
<1>1. ~EditorOpen' /\ Target' = t
  BY DEF Target, EditorOpen
<1>2. /\ SubSeq(t.content, 1, t.cursor) = a
      /\ SubSeq(t.content, t.cursor + 1, Len(t.content)) = b
  BY SplitParts
<1>3. QED
  BY <1>1, <1>2 DEF Before, After

Loose == hangul \in Syllables /\ EditorOK(editor) /\ CliOK(cli) /\ Unselected

(* Where the editor stands: behind a syllable that is being composed, or at a *)
(* place where none is.                                                      *)
Composing == /\ preedit /\ editor.cursor > 0 /\ editor.content[editor.cursor] = Render(hangul)
             /\ editor.anchor # editor.cursor
             /\ IsSelected(editor) => editor.anchor = editor.cursor - 1
Resting == hangul = Empty /\ ~preedit /\ ~IsSelected(editor)

LEMMA LooseEditor ==
  ASSUME Loose, EditorOpen
  PROVE  (Composing \/ Resting) /\ ~Panics(editor)
<1>1. Target = editor
  BY DEF Target
<1>2. Composing \/ Resting
  BY <1>1 DEF Loose, Unselected, InPlace, Composing, Resting
<1>3. ASSUME Composing PROVE ~Panics(editor)
  <2>1. /\ editor.cursor \in Nat /\ editor.cursor <= Len(editor.content) /\ Len(editor.content) \in Nat
        /\ editor.anchor \in Nat \cup {-1}
    <3>1. editor \in EditorTexts /\ EditorTexts \in TextTypes /\ AtPlace(editor)
      BY DEF Loose, EditorOK, TextTypes
    <3>2. QED
      BY <3>1, TextParts, EmptyFacts DEF AtPlace, Place
  <2>2. IsSelected(editor) => High(editor) = editor.cursor
    BY <1>3, <2>1 DEF Composing, High
  <2>3. QED
    BY <2>1, <2>2 DEF Panics
<1>4. ASSUME Resting PROVE ~Panics(editor)
  BY <1>4 DEF Resting, Panics
<1>5. QED
  BY <1>2, <1>3, <1>4

LEMMA EditorJamoAdds ==
  ASSUME Loose, EditorOpen, NEW l \in Letters, EditorJamo(l)
  PROVE  Before' = Append(Before, l) /\ After' = After
<1>1. PICK out : out = input_jamo(hangul, l)
  OBVIOUS
<1>2. PICK u : u = IF preedit THEN backspace(editor) ELSE editor
  OBVIOUS
<1>3. PICK v : v = insert_str(u, out.committed)
  OBVIOUS
<1>4. PICK w : w = insert_str(v, Composed(out.state))
  OBVIOUS
<1>5. editor' = w
  <2>1. ~Panics(editor)
    BY LooseEditor
  <2>2. Edits(w, out.state, TRUE)
    BY <1>1, <1>2, <1>3, <1>4 DEF EditorJamo
  <2>3. QED
    BY <2>1, <2>2 DEF Edits
<1>6. hangul \in Syllables /\ EditorOK(editor)
  BY DEF Loose
<1>7. OutOK(out)
  BY <1>1, <1>6, JamoFacts
<1>8. \E a, b \in Seq(Char) :
         /\ Split(u, EditorTexts, a, b) /\ ~IsSelected(u) /\ u.window = editor.window
         /\ u.anchor = NoAnchor \/ out.committed = <<>>
         /\ Before = FlattenSeq(a) \o Render(hangul) /\ After = FlattenSeq(b)
  <2>1. CASE Composing
    <3>1. PICK c \in Char : c = Render(hangul)
      BY <1>6, SyllableFacts
    <3>2. PICK a \in Seq(Char), b \in Seq(Char) :
            /\ Split(editor, EditorTexts, Append(a, c), b)
            /\ Split(backspace(editor), EditorTexts, a, b)
            /\ backspace(editor).anchor = NoAnchor /\ backspace(editor).window = editor.window
      BY <1>6, <2>1, <3>1, EditorTakes DEF Composing
    <3>3. u = backspace(editor)
      BY <1>2, <2>1 DEF Composing
    <3>4. ~IsSelected(u) /\ u.anchor = NoAnchor
      BY <3>2, <3>3 DEF IsSelected
    <3>5. Before = FlattenSeq(Append(a, c)) /\ After = FlattenSeq(b)
      BY <3>2, SaysEditor
    <3>6. FlattenSeq(Append(a, c)) = FlattenSeq(a) \o c
      BY FlatFacts
    <3>7. QED
      BY <3>1, <3>2, <3>3, <3>4, <3>5, <3>6
  <2>2. CASE Resting
    <3>1. u = editor /\ ~IsSelected(u)
      BY <1>2, <2>2 DEF Resting
    <3>2. PICK a \in Seq(Char), b \in Seq(Char) : Split(editor, EditorTexts, a, b)
      <4>1. editor \in EditorTexts /\ EditorTexts \in TextTypes /\ AtPlace(editor)
        BY <1>6 DEF EditorOK, TextTypes
      <4>2. QED
        BY <4>1, SplitFacts DEF Split
    <3>3. Before = FlattenSeq(a) /\ After = FlattenSeq(b)
      BY <3>2, SaysEditor
    <3>4. FlattenSeq(a) \o Render(hangul) = FlattenSeq(a)
      <4>1. Render(hangul) = <<>>
        BY <2>2, NothingBefore DEF Resting
      <4>2. QED
        BY <4>1, FlatFacts, CharAlgebra
    <3>5. out.committed = <<>>
      BY <1>1, <2>2, NothingBefore DEF Resting
    <3>6. QED
      BY <3>1, <3>2, <3>3, <3>4, <3>5
  <2>3. QED
    BY <2>1, <2>2, LooseEditor
<1>9. PICK a \in Seq(Char), b \in Seq(Char) :
         /\ Split(u, EditorTexts, a, b) /\ ~IsSelected(u) /\ u.window = editor.window
         /\ u.anchor = NoAnchor \/ out.committed = <<>>
         /\ Before = FlattenSeq(a) \o Render(hangul) /\ After = FlattenSeq(b)
  BY <1>8
<1>10. PICK m \in Seq(Char) : /\ m = a \o out.committed
                              /\ FlattenSeq(m) \o Render(out.state) = Append(Before, l)
  BY <1>1, <1>6, <1>9, JamoLetters
<1>11. Split(v, EditorTexts, m, b) /\ v.anchor = u.anchor /\ v.window = editor.window
  BY <1>3, <1>7, <1>9, <1>10, EditorPuts DEF OutOK
<1>12. ~IsSelected(v)
  <2>1. CASE u.anchor = NoAnchor
    BY <1>11, <2>1 DEF IsSelected
  <2>2. CASE out.committed = <<>>
    <3>1. m = a
      BY <1>10, <2>2, ConcatEmptySeq
    <3>2. v.cursor = u.cursor
      BY <1>9, <1>11, <3>1 DEF Split
    <3>3. QED
      BY <1>9, <1>11, <3>2 DEF IsSelected
  <2>3. QED
    BY <1>9, <2>1, <2>2
<1>13. Composed(out.state) \in Seq(Char)
  BY <1>7, SyllableFacts DEF OutOK
<1>14. Split(w, EditorTexts, m \o Composed(out.state), b) /\ w.window = editor.window
  BY <1>4, <1>11, <1>12, <1>13, EditorPuts
<1>15. Before' = FlattenSeq(m \o Composed(out.state)) /\ After' = FlattenSeq(b)
  BY <1>5, <1>14, SaysEditorThen
<1>16. FlattenSeq(m \o Composed(out.state)) = FlattenSeq(m) \o Render(out.state)
  BY <1>7, FlatFacts DEF OutOK
<1>17. QED
  BY <1>9, <1>10, <1>15, <1>16

LEMMA CliJamoAdds ==
  ASSUME Loose, ~EditorOpen, NEW l \in Letters, CliJamo(l)
  PROVE  Before' = Append(Before, l) /\ After' = After
<1>1. PICK out : out = input_jamo(hangul, l)
  OBVIOUS
<1>2. PICK t : t = IF hangul = Empty THEN cli_delete_selection(cli) ELSE cli
  OBVIOUS
<1>3. PICK u : u = IF out.committed = <<>> THEN t ELSE handle_ime_commit(t, out.committed)
  OBVIOUS
<1>4. PICK w : w = [u EXCEPT !.preedit = Render(out.state)]
  OBVIOUS
<1>5. cli' = w /\ hangul' = out.state /\ editor' = editor
  <2>1. Types(w, out.state)
    BY <1>1, <1>2, <1>3, <1>4 DEF CliJamo
  <2>2. QED
    BY <2>1 DEF Types
<1>6. hangul \in Syllables /\ CliOK(cli) /\ ~IsSelected(cli)
  BY DEF Loose, Unselected, Target
<1>7. OutOK(out)
  BY <1>1, <1>6, JamoFacts
<1>8. PICK a \in Seq(Char), b \in Seq(Char) : Split(cli, CliTexts, a, b)
  <2>1. cli \in CliTexts /\ CliTexts \in TextTypes /\ AtPlace(cli)
    BY <1>6 DEF CliOK, TextTypes
  <2>2. QED
    BY <2>1, SplitFacts DEF Split
<1>9. Before = FlattenSeq(a) \o Render(hangul) /\ After = FlattenSeq(b)
  BY <1>8, SaysCli
<1>10. Split(t, CliTexts, a, b) /\ ~IsSelected(t)
  <2>1. <<>> \in Seq(Char)
    BY EmptyFacts
  <2>2. QED
    BY <1>2, <1>6, <1>8, <2>1, CliPutsAt
<1>11. PICK m \in Seq(Char) : /\ m = a \o out.committed
                              /\ FlattenSeq(m) \o Render(out.state) = Append(Before, l)
  BY <1>1, <1>6, <1>9, JamoLetters
<1>12. Split(u, CliTexts, m, b)
  <2>1. CASE out.committed = <<>>
    <3>1. m = a
      BY <1>11, <2>1, ConcatEmptySeq
    <3>2. QED
      BY <1>3, <1>10, <2>1, <3>1
  <2>2. CASE out.committed # <<>>
    <3>1. out.committed \in Seq(Char)
      BY <1>7 DEF OutOK
    <3>2. QED
      BY <1>3, <1>10, <1>11, <2>2, <3>1, CliPutsAt
  <2>3. QED
    BY <2>1, <2>2
<1>13. Split(w, CliTexts, m, b)
  <2>1. Render(out.state) \in Char
    BY <1>7, SyllableFacts DEF OutOK
  <2>2. QED
    BY <1>4, <1>12, <2>1, CliShows
<1>14. Before' = FlattenSeq(m) \o Render(out.state) /\ After' = FlattenSeq(b)
  BY <1>5, <1>13, SaysCliThen
<1>15. QED
  BY <1>9, <1>11, <1>14

LEMMA JamoStep ==
  ASSUME NEW l \in Jamo, KeyJamo(l), Loose
  PROVE  Before' = Append(Before, l) /\ After' = After
<1>1. l \in Letters
  BY DEF Letters
<1>2. ASSUME EditorJamo(l) PROVE EditorOpen
  BY <1>2 DEF EditorJamo, Edits, ToEditor
<1>3. ASSUME CliJamo(l) PROVE ~EditorOpen
  BY <1>3 DEF CliJamo, Types, ToCli
<1>4. QED
  BY <1>1, <1>2, <1>3, EditorJamoAdds, CliJamoAdds DEF KeyJamo

(* The syllable that is composed: one initial consonant at most, and a final *)
(* one only behind an initial one and a vowel.                               *)
Syllabic(s) == /\ Len(s.cho) <= 1
               /\ s.jong # <<>> => s.cho # <<>> /\ s.jung # <<>>

LEMMA FewParts ==
  /\ \A b : Syllabic(Syllable(<<>>, b, <<>>))
  /\ \A c, b : Syllabic(Syllable(<<c>>, b, <<>>))
  /\ Syllabic(Empty)
BY DEF Syllabic, Syllable, Empty

LEMMA JamoProper ==
  ASSUME NEW s \in Syllables, Syllabic(s), NEW l
  PROVE  Syllabic(input_jamo(s, l).state)
<1>1. \A t : Goes(t).state = t /\ \A c : Splits(c, t).state = t
  BY DEF Goes, Splits
<1>2. Syllabic(input_vowel(s, l).state)
  <2>1. s.jong = <<>> => Syllabic([s EXCEPT !.jung = Append(@, l)])
    BY DEF Syllabic, Syllables
  <2>2. QED
    BY <1>1, <2>1, FewParts DEF input_vowel
<1>3. Syllabic(input_consonant(s, l).state)
  <2>1. s.cho # <<>> /\ s.jung # <<>> => Syllabic([s EXCEPT !.jong = Append(@, l)])
    BY DEF Syllabic, Syllables
  <2>2. QED
    BY <1>1, <2>1, FewParts DEF input_consonant
<1>4. QED
  BY <1>2, <1>3 DEF input_jamo

LEMMA UndoProper ==
  ASSUME NEW s \in Syllables, Syllabic(s)
  PROVE  Syllabic(hangul_backspace(s))
<1>1. CASE s.jong # <<>>
  <2>1. Syllabic([s EXCEPT !.jong = Front(@)])
    BY <1>1 DEF Syllabic, Syllables
  <2>2. QED
    BY <1>1, <2>1 DEF hangul_backspace
<1>2. CASE s.jong = <<>>
  <2>1. Syllabic([s EXCEPT !.jung = Front(@)])
    BY <1>2 DEF Syllabic, Syllables
  <2>2. QED
    BY <1>2, <2>1, FewParts DEF hangul_backspace
<1>3. QED
  BY <1>1, <1>2

LEMMA LastFacts ==
  ASSUME NEW a \in Char, a # <<>>
  PROVE  \E e, d \in Char : e = Front(a) /\ a = e \o d /\ Len(d) = 1 /\ Len(e) = Len(a) - 1
<1>1. Front(a) \in Char /\ Last(a) \in Letters /\ Len(Front(a)) = Len(a) - 1
  <2>1. a \in Seq(Letters) /\ 0 \in Nat
    BY CharFacts
  <2>2. QED
    BY <2>1, CharFacts, PartFacts
<1>2. <<Last(a)>> \in Char /\ Len(<<Last(a)>>) = 1 /\ Front(a) \o <<Last(a)>> = a
  BY <1>1, CharFacts, CharAlgebra
<1>3. QED
  BY <1>1, <1>2

(* What Backspace takes of the syllable.                                     *)
LEMMA UndoTakes ==
  ASSUME NEW s \in Syllables, Syllabic(s), s # Empty
  PROVE  \E d \in Char : /\ Render(s) = Render(hangul_backspace(s)) \o d
                         /\ Len(d) = IF s.cho = <<>> THEN Len(s.jung) ELSE 1
<1>1. PICK a \in Char, b \in Char, c \in Char : a = s.cho /\ b = s.jung /\ c = s.jong
  BY SyllableFacts
<1>2. PICK p \in Char : p = a \o b
  BY <1>1, CharJoins
<1>3. Render(s) = p \o c /\ <<>> \in Char
  BY <1>1, <1>2, CharFacts DEF Render
<1>4. CASE c # <<>>
  <2>1. PICK e \in Char, d \in Char : e = Front(c) /\ c = e \o d /\ Len(d) = 1
    BY <1>4, LastFacts
  <2>2. Render([s EXCEPT !.jong = e]) = (s.cho \o s.jung) \o e
    BY DEF Render, Syllables
  <2>3. hangul_backspace(s) = [s EXCEPT !.jong = e]
    BY <1>1, <1>4, <2>1 DEF hangul_backspace
  <2>4. Render(hangul_backspace(s)) = p \o e
    BY <1>1, <1>2, <2>2, <2>3, Zenon
  <2>5. Regroups(p, e, d)
    BY <1>2, <2>1, CharAssociative, Zenon
  <2>6. s.cho # <<>>
    BY <1>1, <1>4 DEF Syllabic
  <2>7. Render(s) = Render(hangul_backspace(s)) \o d
    BY <1>3, <2>1, <2>4, <2>5, Zenon DEF Regroups
  <2>8. QED
    BY <2>1, <2>6, <2>7, Zenon
<1>5. CASE c = <<>> /\ a # <<>> /\ b # <<>>
  <2>1. PICK e \in Char, d \in Char : e = Front(b) /\ b = e \o d /\ Len(d) = 1
    BY <1>5, LastFacts
  <2>2. Render([s EXCEPT !.jung = e]) = (s.cho \o e) \o s.jong
    BY DEF Render, Syllables
  <2>3. hangul_backspace(s) = [s EXCEPT !.jung = e]
    BY <1>1, <1>5, <2>1 DEF hangul_backspace
  <2>4. Render(hangul_backspace(s)) = a \o e
    <3>1. (a \o e) \o <<>> = a \o e
      BY <1>1, <2>1, CharAlgebra
    <3>2. QED
      BY <1>1, <1>5, <2>2, <2>3, <3>1, Zenon
  <2>5. Regroups(a, e, d)
    BY <1>1, <2>1, CharAssociative, Zenon
  <2>6. Render(s) = p
    BY <1>2, <1>3, <1>5, CharAlgebra
  <2>7. Render(s) = Render(hangul_backspace(s)) \o d
    BY <1>2, <2>1, <2>4, <2>5, <2>6, Zenon DEF Regroups
  <2>8. QED
    BY <1>1, <1>5, <2>1, <2>7, Zenon
<1>6. CASE c = <<>> /\ ~(a # <<>> /\ b # <<>>)
  <2>1. hangul_backspace(s) = Empty
    BY <1>1, <1>6, Zenon DEF hangul_backspace
  <2>2. Render(s) = p
    BY <1>2, <1>3, <1>6, CharAlgebra
  <2>3. Render(hangul_backspace(s)) \o p = p
    BY <1>2, <2>1, NothingBefore, CharAlgebra
  <2>4. CASE a = <<>>
    <3>1. p = b
      BY <1>1, <1>2, <2>4, CharAlgebra
    <3>2. QED
      BY <1>1, <1>2, <2>2, <2>3, <2>4, <3>1
  <2>5. CASE a # <<>>
    <3>1. b = <<>> /\ p = a
      BY <1>1, <1>2, <1>6, <2>5, CharAlgebra
    <3>2. Len(a) = 1
      <4>1. Len(a) \in Nat /\ Len(a) # 0
        <5>1. a \in Seq(Letters)
          BY <1>1, CharFacts
        <5>2. QED
          BY <2>5, <5>1, EmptyFacts
      <4>2. PICK n \in Nat : n = Len(a) /\ n # 0
        BY <4>1
      <4>3. n <= 1
        BY <1>1, <4>2 DEF Syllabic
      <4>4. n = 1
        BY <4>2, <4>3
      <4>5. QED
        BY <4>2, <4>4, Zenon
    <3>3. QED
      BY <1>1, <1>2, <2>2, <2>3, <2>5, <3>1, <3>2
  <2>6. QED
    BY <2>4, <2>5
<1>7. QED
  BY <1>4, <1>5, <1>6

TakenBack(s, x) == IF s.cho = <<>> THEN SubSeq(x, 1, Len(x) - Len(s.jung)) ELSE Front(x)

LEMMA UndoLetters ==
  ASSUME NEW s \in Syllables, Syllabic(s), s # Empty, NEW f \in Char
  PROVE  f \o Render(hangul_backspace(s)) = TakenBack(s, f \o Render(s))
<1>1. PICK d \in Char : /\ Render(s) = Render(hangul_backspace(s)) \o d
                        /\ Len(d) = IF s.cho = <<>> THEN Len(s.jung) ELSE 1
  BY UndoTakes
<1>2. PICK r \in Char : r = Render(hangul_backspace(s))
  BY UndoFacts, SyllableFacts
<1>3. PICK y \in Char : y = f \o r
  BY <1>2, CharJoins
<1>4. f \o Render(s) = y \o d
  <2>1. Regroups(f, r, d)
    BY <1>1, <1>2, CharAssociative, Zenon
  <2>2. QED
    BY <1>1, <1>2, <1>3, <2>1, Zenon DEF Regroups
<1>5. SubSeq(y \o d, 1, Len(y)) = y /\ Len(y \o d) = Len(y) + Len(d) /\ Len(y) \in Nat /\ Len(d) \in Nat
  <2>1. y \in Seq(Letters) /\ d \in Seq(Letters)
    BY <1>1, <1>3, CharFacts
  <2>2. QED
    BY <2>1, HalvesFacts, ConcatFacts, EmptyFacts
<1>6. Len(y \o d) - Len(d) = Len(y)
  BY <1>5
<1>7. TakenBack(s, y \o d) = y
  <2>1. CASE s.cho = <<>>
    BY <1>1, <1>5, <1>6, <2>1 DEF TakenBack
  <2>2. CASE s.cho # <<>>
    BY <1>1, <1>5, <1>6, <2>2 DEF TakenBack, Front
  <2>3. QED
    BY <2>1, <2>2
<1>8. QED
  BY <1>2, <1>3, <1>4, <1>7

LEMMA EditorBackspaceTakes ==
  ASSUME Loose, Syllabic(hangul), hangul # Empty, korean, EditorOpen, EditorBackspace
  PROVE  After' = After /\ Before' = TakenBack(hangul, Before)
<1>1. PICK u : u = hangul_backspace(hangul)
  OBVIOUS
<1>2. PICK t : t = backspace(editor)
  OBVIOUS
<1>3. PICK w : w = IF u = Empty THEN t ELSE insert_str(t, Composed(u))
  OBVIOUS
<1>4. Composing /\ ~Panics(editor)
  BY LooseEditor DEF Resting
<1>5. editor' = w
  <2>1. Edits(w, u, u # Empty)
    BY <1>1, <1>2, <1>3, <1>4 DEF EditorBackspace, Composing
  <2>2. QED
    BY <1>4, <2>1 DEF Edits
<1>6. hangul \in Syllables /\ EditorOK(editor) /\ u \in Syllables
  BY <1>1, UndoFacts DEF Loose
<1>7. PICK c \in Char : c = Render(hangul)
  BY <1>6, SyllableFacts
<1>8. PICK a \in Seq(Char), b \in Seq(Char) :
        /\ Split(editor, EditorTexts, Append(a, c), b)
        /\ Split(t, EditorTexts, a, b)
        /\ t.anchor = NoAnchor /\ t.window = editor.window
  BY <1>2, <1>4, <1>6, <1>7, EditorTakes DEF Composing
<1>9. Before = FlattenSeq(a) \o Render(hangul) /\ After = FlattenSeq(b)
  <2>1. Before = FlattenSeq(Append(a, c)) /\ After = FlattenSeq(b)
    BY <1>8, SaysEditor
  <2>2. FlattenSeq(Append(a, c)) = FlattenSeq(a) \o c
    BY <1>7, <1>8, FlatFacts
  <2>3. QED
    BY <1>7, <2>1, <2>2
<1>10. Split(w, EditorTexts, a \o Composed(u), b) /\ w.window = editor.window
  <2>1. CASE u = Empty
    <3>1. Composed(u) = <<>> /\ a \o <<>> = a
      BY <1>8, <2>1, ConcatEmptySeq DEF Composed
    <3>2. QED
      BY <1>3, <1>8, <2>1, <3>1
  <2>2. CASE u # Empty
    <3>1. ~IsSelected(t) /\ Composed(u) \in Seq(Char)
      BY <1>6, <1>8, SyllableFacts DEF IsSelected
    <3>2. QED
      BY <1>3, <1>8, <2>2, <3>1, EditorPuts
  <2>3. QED
    BY <2>1, <2>2
<1>11. Before' = FlattenSeq(a \o Composed(u)) /\ After' = FlattenSeq(b)
  BY <1>5, <1>10, SaysEditorThen
<1>12. FlattenSeq(a \o Composed(u)) = FlattenSeq(a) \o Render(u) /\ FlattenSeq(a) \in Char
  BY <1>6, <1>8, FlatFacts
<1>13. FlattenSeq(a) \o Render(u) = TakenBack(hangul, FlattenSeq(a) \o Render(hangul))
  BY <1>1, <1>6, <1>12, UndoLetters
<1>14. QED
  BY <1>9, <1>11, <1>12, <1>13

LEMMA CliBackspaceTakes ==
  ASSUME Loose, Syllabic(hangul), hangul # Empty, korean, ~EditorOpen, CliBackspace
  PROVE  After' = After /\ Before' = TakenBack(hangul, Before)
<1>1. PICK u : u = hangul_backspace(hangul)
  OBVIOUS
<1>2. PICK w : w = [cli EXCEPT !.preedit = Render(u)]
  OBVIOUS
<1>3. cli' = w /\ hangul' = u /\ editor' = editor
  <2>1. Types(w, u)
    BY <1>1, <1>2 DEF CliBackspace
  <2>2. QED
    BY <2>1 DEF Types
<1>4. hangul \in Syllables /\ CliOK(cli) /\ u \in Syllables
  BY <1>1, UndoFacts DEF Loose
<1>5. PICK a \in Seq(Char), b \in Seq(Char) : Split(cli, CliTexts, a, b)
  <2>1. cli \in CliTexts /\ CliTexts \in TextTypes /\ AtPlace(cli)
    BY <1>4 DEF CliOK, TextTypes
  <2>2. QED
    BY <2>1, SplitFacts DEF Split
<1>6. Before = FlattenSeq(a) \o Render(hangul) /\ After = FlattenSeq(b)
  BY <1>5, SaysCli
<1>7. Split(w, CliTexts, a, b)
  BY <1>2, <1>4, <1>5, SyllableFacts, CliShows
<1>8. Before' = FlattenSeq(a) \o Render(u) /\ After' = FlattenSeq(b)
  BY <1>3, <1>7, SaysCliThen
<1>9. FlattenSeq(a) \o Render(u) = TakenBack(hangul, FlattenSeq(a) \o Render(hangul))
  BY <1>1, <1>4, <1>5, FlatFacts, UndoLetters
<1>10. QED
  BY <1>6, <1>8, <1>9

LEMMA BackspaceStep ==
  ASSUME KeyBackspace, korean, ~Renaming, hangul # Empty, Loose, Syllabic(hangul)
  PROVE  After' = After /\ Before' = TakenBack(hangul, Before)
<1>1. ASSUME EditorBackspace PROVE EditorOpen
  BY <1>1 DEF EditorBackspace, Edits, ToEditor
<1>2. ASSUME CliBackspace PROVE ~EditorOpen
  BY <1>2 DEF CliBackspace, Types, ToCli
<1>3. ~RenameBackspace
  BY DEF RenameBackspace
<1>4. QED
  BY <1>1, <1>2, <1>3, EditorBackspaceTakes, CliBackspaceTakes DEF KeyBackspace

(* What a step makes of the syllable that is composed.                       *)
Turns == \/ hangul' \in {hangul, Empty, hangul_backspace(hangul)}
         \/ \E l \in Jamo : hangul' = input_jamo(hangul, l).state

LEMMA EditsTurn ==
  ASSUME NEW t, NEW h, NEW p, Edits(t, h, p) \/ Types(t, h)
  PROVE  hangul' = h \/ hangul' = hangul
BY DEF Edits, Types

LEMMA KeysTurn ==
  ASSUME (\E l \in Jamo : KeyJamo(l)) \/ (\E p \in Plain : KeyPlain(p)) \/ KeyBackspace \/ KeyEnter
  PROVE  Turns
<1>1. ASSUME NEW l \in Jamo, KeyJamo(l) PROVE Turns
  <2>1. CASE EditorJamo(l)
    BY <2>1, EditsTurn DEF EditorJamo, Turns
  <2>2. CASE CliJamo(l)
    BY <2>2, EditsTurn DEF CliJamo, Turns
  <2>3. QED
    BY <1>1, <2>1, <2>2 DEF KeyJamo
<1>2. ASSUME NEW p \in Plain, KeyPlain(p) PROVE Turns
  <2>1. CASE EditorPlain(<<p>>)
    BY <2>1, EditsTurn DEF EditorPlain, Turns
  <2>2. CASE CliPlain(<<p>>)
    BY <2>2, EditsTurn DEF CliPlain, Turns
  <2>3. CASE RenamePlain(<<p>>)
    BY <2>3 DEF RenamePlain, Turns
  <2>4. QED
    BY <1>2, <2>1, <2>2, <2>3 DEF KeyPlain
<1>3. ASSUME KeyBackspace PROVE Turns
  <2>1. CASE EditorBackspace
    BY <2>1, EditsTurn DEF EditorBackspace, Turns
  <2>2. CASE CliBackspace
    BY <2>2, EditsTurn DEF CliBackspace, Turns
  <2>3. CASE RenameBackspace
    BY <2>3 DEF RenameBackspace, Turns
  <2>4. QED
    BY <1>3, <2>1, <2>2, <2>3 DEF KeyBackspace
<1>4. ASSUME KeyEnter PROVE Turns
  <2>1. ASSUME NEW t, Edits(t, Empty, FALSE) PROVE Turns
    BY <2>1, EditsTurn DEF Turns
  <2>2. CASE CliEnter
    BY <2>2, EditsTurn DEF CliEnter, Turns
  <2>3. CASE RenameEnter
    BY <2>3 DEF RenameEnter, Turns
  <2>4. QED
    BY <1>4, <2>1, <2>2, <2>3 DEF KeyEnter
<1>5. QED
  BY <1>1, <1>2, <1>3, <1>4

LEMMA OthersTurn ==
  ASSUME \/ KeyToggle \/ KeyEsc \/ CtrlKey \/ CtrlS
         \/ \E w \in Window : PressContent(w) \/ PressTitle(w) \/ PressClose(w)
         \/ PressCli \/ (\E f \in File : PressRow(f)) \/ PressRename
         \/ Drag \/ Release \/ Frame
  PROVE  hangul' = hangul \/ hangul' = Empty
<1>1. ASSUME CtrlKey PROVE hangul' = hangul \/ hangul' = Empty
  BY <1>1, EditsTurn DEF CtrlKey, Leaves
<1>2. ASSUME KeyToggle \/ CtrlS \/ PressCli \/ \E w \in Window : PressContent(w) PROVE hangul' = Empty
  BY <1>2, Zenon DEF KeyToggle, CtrlS, Leaves, PressCli, PressContent
<1>3. ASSUME KeyEsc \/ PressRename \/ Drag \/ Release \/ Frame PROVE hangul' = hangul
  BY <1>3 DEF KeyEsc, PressRename, Drag, Release, Frame, text
<1>4. ASSUME (\E w \in Window : PressTitle(w) \/ PressClose(w)) \/ (\E f \in File : PressRow(f)) PROVE hangul' = hangul
  BY <1>4 DEF PressTitle, PressClose, PressRow, text
<1>5. QED
  BY <1>1, <1>2, <1>3, <1>4

LEMMA StaysProper ==
  ASSUME hangul \in Syllables, Syllabic(hangul), [Next]_vars
  PROVE  Syllabic(hangul)'
<1>1. Turns
  <2>1. ASSUME UiStep PROVE Turns
    BY <2>1, KeysTurn, OthersTurn DEF UiStep, Turns
  <2>2. ASSUME HandleInvoke \/ Hear \/ UNCHANGED vars PROVE hangul' = hangul
    BY <2>2 DEF HandleInvoke, Hear, vars, ui, text
  <2>3. QED
    BY <2>1, <2>2, NextSplit DEF Turns
<1>2. Syllabic(hangul')
  BY <1>1, JamoProper, UndoProper, FewParts DEF Turns
<1>3. QED
  BY <1>2 DEF Syllabic

LEMMA ProperHolds == Spec => []Syllabic(hangul)
<1>1. Init => Syllabic(hangul)
  BY FewParts DEF Init
<1>2. IInv => hangul \in Syllables
  BY DEF IInv, Ui, Boxes, Modes
<1>3. IInv /\ Syllabic(hangul) /\ [Next]_vars => Syllabic(hangul)'
  BY <1>2, StaysProper
<1>4. QED
  BY <1>1, <1>3, InvHolds, PTL DEF Spec

LEMMA LooseFacts == IInv /\ Unselected => Loose
BY DEF IInv, Ui, Boxes, Modes, Loose

\* A letter typed where nothing is selected adds itself to the text at the cursor
\* and changes no other letter, in the editor and in the command line, however the
\* syllables are divided anew (hangul.rs input_jamo, EditorState::insert_str and
\* backspace, CliLocalState::handle_ime_commit).
THEOREM LettersAddCorrect == Spec => LettersAdd
<1> DEFINE Adding == \A l \in Jamo : KeyJamo(l) /\ Unselected => Before' = Append(Before, l) /\ After' = After
<1>1. IInv => [Adding]_vars
  BY LooseFacts, JamoStep
<1>2. [][Adding]_vars => LettersAdd
  BY DEF LettersAdd
<1> HIDE DEF Adding
<1>3. QED
  BY <1>1, <1>2, InvHolds, PTL

\* Backspace takes the last letter of the syllable being composed, or all of a
\* vowel without a consonant, and leaves the rest of the text (hangul.rs backspace).
THEOREM BackspaceTakesBackCorrect == Spec => BackspaceTakesBack
<1> DEFINE Taking == KeyBackspace /\ korean /\ ~Renaming /\ hangul # Empty /\ Unselected =>
                        /\ After' = After
                        /\ Before' = IF hangul.cho = <<>>
                                     THEN SubSeq(Before, 1, Len(Before) - Len(hangul.jung))
                                     ELSE Front(Before)
<1>1. IInv /\ Syllabic(hangul) => [Taking]_vars
  <2>1. ASSUME IInv, Syllabic(hangul), KeyBackspace, korean, ~Renaming, hangul # Empty, Unselected
        PROVE  After' = After /\ Before' = TakenBack(hangul, Before)
    BY <2>1, LooseFacts, BackspaceStep
  <2>2. QED
    BY <2>1 DEF TakenBack
<1>2. [][Taking]_vars => BackspaceTakesBack
  BY DEF BackspaceTakesBack
<1> HIDE DEF Taking
<1>3. QED
  BY <1>1, <1>2, InvHolds, ProperHolds, PTL

-----------------------------------------------------------------------------
(***************************************************************************)
(* ShellTree.  What the events of the watcher still say about a path is    *)
(* set against the objects shown for it (Followed); every step is put as a *)
(* step of the disk and a step of the tree, and the invariant follows from *)
(* the two.                                                                *)
(***************************************************************************)

(* The elements at some places of a sequence, in their order.               *)
Ranked(S, i) == {j \in S : j < i}

LEMMA RankFacts ==
  ASSUME NEW S \in SUBSET Nat, IsFiniteSet(S), NEW i \in S
  PROVE  /\ IsFiniteSet(Ranked(S, i)) /\ Cardinality(Ranked(S, i)) \in Nat
         /\ Cardinality(S) \in Nat /\ Cardinality(Ranked(S, i)) + 1 \in 1 .. Cardinality(S)
<1>1. Ranked(S, i) \subseteq S \ {i}
  BY DEF Ranked
<1>2. IsFiniteSet(S \ {i}) /\ Cardinality(S \ {i}) = Cardinality(S) - 1
  BY FS_RemoveElement
<1>3. IsFiniteSet(Ranked(S, i)) /\ Cardinality(Ranked(S, i)) <= Cardinality(S \ {i})
  BY <1>1, <1>2, FS_Subset
<1>4. Cardinality(S) \in Nat /\ Cardinality(Ranked(S, i)) \in Nat
  BY <1>3, FS_CardinalityType
<1>5. QED
  BY <1>2, <1>3, <1>4

LEMMA RankGrows ==
  ASSUME NEW S \in SUBSET Nat, IsFiniteSet(S), NEW i \in S, NEW j \in S, i < j
  PROVE  Cardinality(Ranked(S, i)) < Cardinality(Ranked(S, j))
<1>1. /\ IsFiniteSet(Ranked(S, i)) /\ Cardinality(Ranked(S, i)) \in Nat
      /\ IsFiniteSet(Ranked(S, j)) /\ Cardinality(Ranked(S, j)) \in Nat
  BY RankFacts
<1>2. Ranked(S, i) \cup {i} \subseteq Ranked(S, j)
  <2>1. i \in Nat /\ j \in Nat /\ \A k \in S : k \in Nat
    OBVIOUS
  <2>2. ASSUME NEW k \in S, k < i PROVE k < j
    BY <2>1, <2>2
  <2>3. QED
    BY <2>2 DEF Ranked
<1>3. Cardinality(Ranked(S, i) \cup {i}) = Cardinality(Ranked(S, i)) + 1
  <2>1. i \notin Ranked(S, i)
    BY DEF Ranked
  <2>2. QED
    BY <1>1, <2>1, FS_AddElement
<1>4. Cardinality(Ranked(S, i) \cup {i}) <= Cardinality(Ranked(S, j))
  BY <1>1, <1>2, FS_Subset
<1>5. QED
  BY <1>1, <1>3, <1>4

LEMMA RankExists ==
  ASSUME NEW S \in SUBSET Nat, IsFiniteSet(S), NEW k \in 1 .. Cardinality(S)
  PROVE  \E i \in S : Cardinality(Ranked(S, i)) = k - 1
<1> DEFINE r == [i \in S |-> Cardinality(Ranked(S, i)) + 1]
<1>1. Cardinality(S) \in Nat
  BY FS_CardinalityType
<1>2. r \in [S -> 1 .. Cardinality(S)]
  BY RankFacts
<1>3. ASSUME NEW i \in S, NEW j \in S, r[i] = r[j] PROVE i = j
  <2>1. Cardinality(Ranked(S, i)) \in Nat /\ Cardinality(Ranked(S, j)) \in Nat
    BY RankFacts
  <2>2. Cardinality(Ranked(S, i)) = Cardinality(Ranked(S, j))
    BY <1>3, <2>1
  <2>3. ~(i < j) /\ ~(j < i)
    BY <2>1, <2>2, RankGrows
  <2>4. QED
    BY <2>3
<1>4. r \in Injection(S, 1 .. Cardinality(S))
  BY <1>2, <1>3 DEF Injection, IsInjective
<1>5. IsFiniteSet(1 .. Cardinality(S)) /\ Cardinality(1 .. Cardinality(S)) = Cardinality(S)
  BY <1>1, FS_Interval
<1>6. r \in Surjection(S, 1 .. Cardinality(S))
  BY <1>4, <1>5, FS_Injection
<1>7. PICK i \in S : r[i] = k
  BY <1>6 DEF Surjection
<1>8. QED
  BY <1>7, RankFacts

LEMMA NthFacts ==
  ASSUME NEW S \in SUBSET Nat, IsFiniteSet(S)
  PROVE  /\ Cardinality(S) \in Nat
         /\ \A k \in 1 .. Cardinality(S) : Nth(S, k) \in S
         /\ \A k, m \in 1 .. Cardinality(S) : k < m => Nth(S, k) < Nth(S, m)
         /\ \A i \in S : \E k \in 1 .. Cardinality(S) : Nth(S, k) = i
<1>1. Cardinality(S) \in Nat
  BY FS_CardinalityType
<1>2. ASSUME NEW k \in 1 .. Cardinality(S)
      PROVE  Nth(S, k) \in S /\ Cardinality(Ranked(S, Nth(S, k))) = k - 1
  <2>1. \E i \in S : Cardinality(Ranked(S, i)) = k - 1
    BY RankExists
  <2>2. Nth(S, k) = CHOOSE i \in S : Cardinality(Ranked(S, i)) = k - 1
    BY DEF Nth, Ranked
  <2>3. QED
    BY <2>1, <2>2
<1>3. ASSUME NEW k \in 1 .. Cardinality(S), NEW m \in 1 .. Cardinality(S), k < m
      PROVE  Nth(S, k) < Nth(S, m)
  <2>1. /\ Nth(S, k) \in S /\ Cardinality(Ranked(S, Nth(S, k))) = k - 1
        /\ Nth(S, m) \in S /\ Cardinality(Ranked(S, Nth(S, m))) = m - 1
    BY <1>2
  <2>2. ~(Nth(S, m) < Nth(S, k))
    <3>1. SUFFICES ASSUME Nth(S, m) < Nth(S, k) PROVE FALSE
      OBVIOUS
    <3>2. Cardinality(Ranked(S, Nth(S, m))) < Cardinality(Ranked(S, Nth(S, k)))
      BY <2>1, <3>1, RankGrows
    <3>3. QED
      BY <1>1, <1>3, <2>1, <3>2
  <2>3. Nth(S, k) # Nth(S, m)
    BY <1>1, <1>3, <2>1
  <2>4. Nth(S, k) \in Nat /\ Nth(S, m) \in Nat
    BY <2>1
  <2>5. QED
    BY <2>2, <2>3, <2>4
<1>4. ASSUME NEW i \in S PROVE \E k \in 1 .. Cardinality(S) : Nth(S, k) = i
  <2> DEFINE k == Cardinality(Ranked(S, i)) + 1
  <2>1. k \in 1 .. Cardinality(S) /\ Cardinality(Ranked(S, i)) \in Nat
    BY RankFacts
  <2>2. Nth(S, k) \in S /\ Cardinality(Ranked(S, Nth(S, k))) = Cardinality(Ranked(S, i))
    BY <1>2, <2>1
  <2>3. ~(Nth(S, k) < i) /\ ~(i < Nth(S, k))
    <3>1. Nth(S, k) < i => Cardinality(Ranked(S, Nth(S, k))) < Cardinality(Ranked(S, i))
      BY <2>2, RankGrows
    <3>2. i < Nth(S, k) => Cardinality(Ranked(S, i)) < Cardinality(Ranked(S, Nth(S, k)))
      BY <2>2, RankGrows
    <3>3. QED
      BY <2>1, <2>2, <3>1, <3>2
  <2>4. Nth(S, k) \in Nat /\ i \in Nat
    BY <2>2
  <2>5. QED
    BY <2>1, <2>3, <2>4
<1>5. QED
  BY <1>1, <1>2, <1>3, <1>4

LEMMA PickedFacts ==
  ASSUME NEW T, NEW seq \in Seq(T), NEW S \in SUBSET DOMAIN seq
  PROVE  /\ S \subseteq Nat /\ IsFiniteSet(S) /\ Cardinality(S) \in Nat
         /\ Picked(seq, S) \in Seq(T)
         /\ DOMAIN Picked(seq, S) = 1 .. Cardinality(S)
         /\ \A k \in 1 .. Cardinality(S) : /\ Nth(S, k) \in S
                                           /\ Picked(seq, S)[k] = seq[Nth(S, k)]
         /\ \A i \in S : \E k \in 1 .. Cardinality(S) : Nth(S, k) = i
         /\ \A k, m \in 1 .. Cardinality(S) : k < m => Nth(S, k) < Nth(S, m)
         /\ ToSet(Picked(seq, S)) = {seq[i] : i \in S}
<1>1. DOMAIN seq = 1 .. Len(seq) /\ Len(seq) \in Nat /\ \A i \in DOMAIN seq : seq[i] \in T
  OBVIOUS
<1>2. S \subseteq Nat /\ IsFiniteSet(S)
  <2>1. IsFiniteSet(1 .. Len(seq))
    BY <1>1, FS_Interval
  <2>2. IsFiniteSet(S)
    BY <1>1, <2>1, FS_Subset
  <2>3. QED
    BY <1>1, <2>2
<1>3. /\ Cardinality(S) \in Nat
      /\ \A k \in 1 .. Cardinality(S) : Nth(S, k) \in S
      /\ \A k, m \in 1 .. Cardinality(S) : k < m => Nth(S, k) < Nth(S, m)
      /\ \A i \in S : \E k \in 1 .. Cardinality(S) : Nth(S, k) = i
  BY <1>2, NthFacts
<1>4. /\ DOMAIN Picked(seq, S) = 1 .. Cardinality(S)
      /\ \A k \in 1 .. Cardinality(S) : Picked(seq, S)[k] = seq[Nth(S, k)]
  BY DEF Picked
<1>5. Picked(seq, S) \in Seq(T)
  BY <1>1, <1>3, <1>4 DEF Picked
<1>6. ToSet(Picked(seq, S)) = {seq[i] : i \in S}
  <2>1. ASSUME NEW x \in ToSet(Picked(seq, S)) PROVE x \in {seq[i] : i \in S}
    BY <1>3, <1>4, <2>1 DEF ToSet
  <2>2. ASSUME NEW i \in S PROVE seq[i] \in ToSet(Picked(seq, S))
    BY <1>3, <1>4 DEF ToSet
  <2>3. QED
    BY <2>1, <2>2
<1>7. QED
  BY <1>2, <1>3, <1>4, <1>5, <1>6

LEMMA SetToSeqFacts ==
  ASSUME NEW S, IsFiniteSet(S)
  PROVE  /\ SetToSeq(S) \in Seq(S) /\ Cardinality(S) \in Nat
         /\ DOMAIN SetToSeq(S) = 1 .. Cardinality(S) /\ Len(SetToSeq(S)) = Cardinality(S)
         /\ \A i, j \in 1 .. Cardinality(S) : SetToSeq(S)[i] = SetToSeq(S)[j] => i = j
         /\ ToSet(SetToSeq(S)) = S
<1> DEFINE n == Cardinality(S)
           f == SetToSeq(S)
<1>1. n \in Nat /\ ExistsBijection(1 .. n, S)
  BY FS_CardinalityType
<1>2. \E g \in [1 .. n -> S] : IsInjective(g)
  BY <1>1 DEF ExistsBijection, Bijection, Injection
<1>3. f \in [1 .. n -> S] /\ IsInjective(f)
  BY <1>2 DEF SetToSeq
<1>4. f \in Injection(1 .. n, S)
  BY <1>3 DEF Injection
<1>5. IsFiniteSet(1 .. n) /\ Cardinality(1 .. n) = n
  BY <1>1, FS_Interval
<1>6. f \in Surjection(1 .. n, S)
  BY <1>4, <1>5, FS_Injection
<1>7. ToSet(f) = S
  BY <1>3, <1>6 DEF ToSet, Surjection
<1>8. f \in Seq(S) /\ DOMAIN f = 1 .. n /\ Len(f) = n
  BY <1>1, <1>3
<1>9. \A i, j \in 1 .. n : f[i] = f[j] => i = j
  BY <1>3 DEF IsInjective
<1>10. QED
  BY <1>1, <1>7, <1>8, <1>9

-----------------------------------------------------------------------------
(* Paths.                                                                   *)
Dirs == Paths \cup {Root}

LEMMA SameSeq ==
  ASSUME NEW S, NEW s \in Seq(S), NEW t \in Seq(S), Len(s) = Len(t),
         \A i \in 1 .. Len(s) : s[i] = t[i]
  PROVE  s = t
OBVIOUS

LEMMA TopFacts ==
  ASSUME NEW n \in Top
  PROVE  Front(<<n>>) = Root /\ <<n>> # Root
BY DEF Front, Root

LEMMA LeafFacts ==
  ASSUME NEW n \in Top, NEW l \in Leaf
  PROVE  /\ Front(<<n, l>>) = <<n>> /\ <<n, l>> # Root /\ <<n, l>> \notin TopPaths
         /\ Last(<<n, l>>) = l /\ \A m \in Top : Append(<<m>>, l) = <<m, l>>
<1> DEFINE p == <<n, l>>
<1>1. p \in Seq({n, l}) /\ Len(p) = 2 /\ p[1] = n /\ p[2] = l
  OBVIOUS
<1>2. Front(p) = SubSeq(p, 1, 1)
  BY <1>1 DEF Front
<1>3. SubSeq(p, 1, 1) \in Seq({n, l}) /\ Len(SubSeq(p, 1, 1)) = 1 /\ SubSeq(p, 1, 1)[1] = n
  BY <1>1
<1>4. <<n>> \in Seq({n, l}) /\ Len(<<n>>) = 1 /\ <<n>>[1] = n
  OBVIOUS
<1>5. SubSeq(p, 1, 1) = <<n>>
  <2>1. \A i \in 1 .. Len(SubSeq(p, 1, 1)) : SubSeq(p, 1, 1)[i] = <<n>>[i]
    BY <1>3, <1>4
  <2>2. \A s, t \in Seq({n, l}) :
           Len(s) = Len(t) /\ (\A i \in 1 .. Len(s) : s[i] = t[i]) => s = t
    BY SameSeq
  <2>3. QED
    BY <1>3, <1>4, <2>1, <2>2
<1>6. \A m \in Top : Len(<<m>>) = 1
  OBVIOUS
<1>7. p \notin TopPaths
  BY <1>1, <1>6 DEF TopPaths
<1>8. ASSUME NEW m \in Top PROVE Append(<<m>>, l) = <<m, l>>
  <2> DEFINE q == Append(<<m>>, l)
  <2>1. <<m>> \in Seq({m, l}) /\ Len(<<m>>) = 1 /\ <<m>>[1] = m
    OBVIOUS
  <2>2. q \in Seq({m, l}) /\ Len(q) = 2 /\ q[1] = m /\ q[2] = l
    BY <2>1
  <2>3. <<m, l>> \in Seq({m, l}) /\ Len(<<m, l>>) = 2 /\ <<m, l>>[1] = m /\ <<m, l>>[2] = l
    OBVIOUS
  <2>4. \A i \in 1 .. 2 : q[i] = <<m, l>>[i]
    BY <2>2, <2>3
  <2>5. QED
    BY <2>2, <2>3, <2>4, SameSeq
<1>9. p # Root
  BY <1>1 DEF Root
<1>10. Last(p) = l
  BY <1>1 DEF Last
<1>11. QED
  BY <1>2, <1>5, <1>7, <1>8, <1>9, <1>10

LEMMA PathFacts ==
  /\ Front(Root) = Root /\ Root \notin Paths /\ TopPaths \subseteq Paths
  /\ \A p \in Paths : /\ p \in TopPaths => Front(p) = Root
                      /\ p \notin TopPaths => Front(p) \in TopPaths
                      /\ Front(p) \in Dirs /\ Front(p) # p
<1>1. Front(Root) = Root
  BY DEF Front, Root
<1>2. \A p \in TopPaths : Front(p) = Root /\ p # Root
  BY TopFacts DEF TopPaths
<1>3. ASSUME NEW p \in Paths, p \notin TopPaths
      PROVE  Front(p) \in TopPaths /\ p # Root
  <2>1. PICK n \in Top, l \in Leaf : p = <<n, l>>
    BY <1>3 DEF Paths
  <2>2. QED
    BY <2>1, LeafFacts DEF TopPaths
<1>4. QED
  BY <1>1, <1>2, <1>3 DEF Paths, Dirs

LEMMA WithinFacts ==
  /\ \A p : Within(p, p) /\ Within(Root, p) /\ Within(Front(p), p)
  /\ \A p, q \in Dirs : \A r : Within(p, q) /\ Within(r, p) => Within(r, q)
  /\ \A r : \A p \in Dirs : Within(r, Front(p)) => Within(r, p)
  /\ \A p \in Dirs : \A q \in Paths : Within(p, Front(q)) => Below(p, q)
  /\ \A p \in Dirs : \A q \in Paths : Below(p, q) => Within(p, Front(q))
  /\ \A p \in TopPaths : \A q \in Paths : Within(p, q) <=> p = q \/ p = Front(q)
  /\ \A p \in Paths \ TopPaths : \A q \in Dirs : Within(p, q) <=> p = q
<1>1. \A p : Within(p, p) /\ Within(Root, p) /\ Within(Front(p), p)
  BY DEF Within
<1>2. \A p \in Dirs : Front(p) \in Dirs /\ Front(Front(p)) = Root /\ (Front(p) = p => p = Root)
  BY PathFacts DEF Dirs
<1>3. \A r : \A p \in Dirs : Within(r, Front(p)) => Within(r, p)
  BY <1>2 DEF Within
<1>4. \A p, q \in Dirs : \A r : Within(p, q) /\ Within(r, p) => Within(r, q)
  BY <1>2, PathFacts DEF Within
<1>5. \A p \in Dirs : \A q \in Paths : Within(p, Front(q)) => Below(p, q)
  BY <1>2, <1>3, PathFacts DEF Within, Below, Dirs
<1>6. \A p \in Dirs : \A q \in Paths : Below(p, q) => Within(p, Front(q))
  BY <1>1 DEF Within, Below
<1>7. \A p \in TopPaths : \A q \in Paths : Within(p, q) <=> p = q \/ p = Front(q)
  BY PathFacts DEF Within
<1>8. \A p \in Paths \ TopPaths : \A q \in Dirs : Within(p, q) <=> p = q
  BY PathFacts DEF Within, Dirs
<1>9. QED
  BY <1>1, <1>3, <1>4, <1>5, <1>6, <1>7, <1>8

-----------------------------------------------------------------------------
(* The watcher's queue, path by path.                                       *)
About(seq, p)    == {k \in DOMAIN seq : seq[k].path = p}
Removals(seq, p) == {k \in About(seq, p) : seq[k].kind = "Removed" /\ ~seq[k].own}
Foreign(seq, p)  == {k \in About(seq, p) : ~seq[k].own}

(* The last event about p says whether it is there.                         *)
Ends(seq, p) == \A k \in About(seq, p) :
   (\A j \in About(seq, p) : j <= k) => (seq[k].kind = "Removed" <=> disk[p] = "none")

(* A step says nothing new of p, or puts one event about it at the end.     *)
Quiet(p) == /\ About(events', p) = About(events, p)
            /\ \A k \in About(events, p) : events'[k] = events[k]
Reported(p, e) == \E n \in Nat :
   /\ About(events', p) = About(events, p) \cup {n} /\ events'[n] = e
   /\ \A k \in DOMAIN events : k < n
   /\ \A k \in About(events, p) : events'[k] = events[k]

LEMMA EventsFacts ==
  ASSUME NEW seq \in Seq(Events)
  PROVE  /\ DOMAIN seq = 1 .. Len(seq) /\ Len(seq) \in Nat
         /\ \A k \in DOMAIN seq : /\ seq[k] \in Events /\ seq[k].path \in Paths
                                 /\ seq[k].own \in BOOLEAN
                                 /\ seq[k].kind \in {"Created", "Modified", "Removed"}
<1>1. DOMAIN seq = 1 .. Len(seq) /\ Len(seq) \in Nat /\ \A k \in DOMAIN seq : seq[k] \in Events
  OBVIOUS
<1>2. \A e \in Events : /\ e.path \in Paths /\ e.own \in BOOLEAN
                       /\ e.kind \in {"Created", "Modified", "Removed"}
  BY DEF Events
<1>3. QED
  BY <1>1, <1>2

LEMMA CountedFacts ==
  ASSUME NEW seq \in Seq(Events), NEW p
  PROVE  /\ IsFiniteSet(About(seq, p)) /\ About(seq, p) \subseteq Nat
         /\ IsFiniteSet(Removals(seq, p)) /\ Cardinality(Removals(seq, p)) \in Nat
         /\ Removals(seq, p) \subseteq Foreign(seq, p)
<1>1. DOMAIN seq = 1 .. Len(seq) /\ Len(seq) \in Nat
  OBVIOUS
<1>2. IsFiniteSet(DOMAIN seq)
  BY <1>1, FS_Interval
<1>3. About(seq, p) \subseteq DOMAIN seq /\ Removals(seq, p) \subseteq DOMAIN seq
  BY DEF About, Removals
<1>4. IsFiniteSet(About(seq, p)) /\ IsFiniteSet(Removals(seq, p))
  BY <1>2, <1>3, FS_Subset
<1>5. QED
  BY <1>1, <1>3, <1>4, FS_CardinalityType DEF Removals, Foreign

Distinct(evs) == \A i, j \in DOMAIN evs : evs[i].path = evs[j].path => i = j

LEMMA ReportTells ==
  ASSUME events \in Seq(Events), NEW evs \in Seq(Events), Distinct(evs),
         events' = Report(evs)
  PROVE  /\ events' \in Seq(Events)
         /\ \A p : \/ /\ Quiet(p)
                      /\ Front(p) \in watched => About(evs, p) = {}
                   \/ /\ Front(p) \in watched
                      /\ \E i \in About(evs, p) : Reported(p, evs[i])
         /\ \A k \in DOMAIN events' : \/ k \in DOMAIN events /\ events'[k] = events[k]
                                      \/ \E i \in DOMAIN evs : events'[k] = evs[i]
<1> DEFINE S   == {i \in DOMAIN evs : Front(evs[i].path) \in watched}
           rep == Picked(evs, S)
           n   == Len(events)
<1>1. /\ Cardinality(S) \in Nat /\ rep \in Seq(Events) /\ DOMAIN rep = 1 .. Cardinality(S)
      /\ \A k \in 1 .. Cardinality(S) : Nth(S, k) \in S /\ rep[k] = evs[Nth(S, k)]
      /\ \A i \in S : \E k \in 1 .. Cardinality(S) : Nth(S, k) = i
      /\ \A k, m \in 1 .. Cardinality(S) : k < m => Nth(S, k) < Nth(S, m)
      /\ S \subseteq Nat
  <2>1. S \in SUBSET DOMAIN evs
    OBVIOUS
  <2> HIDE DEF S
  <2>2. QED
    BY <2>1, PickedFacts
<1> DEFINE r == Cardinality(S)
<1>2. events' = events \o rep
  BY DEF Report
<1> HIDE DEF rep
<1>3. Len(rep) = r
  BY <1>1
<1>4. /\ events' \in Seq(Events) /\ n \in Nat /\ DOMAIN events = 1 .. n
      /\ DOMAIN events' = 1 .. n + r
      /\ \A k \in 1 .. n : events'[k] = events[k]
      /\ \A k \in 1 .. r : events'[n + k] = rep[k]
      /\ \A k \in DOMAIN events' : k \in 1 .. n \/ \E m \in 1 .. r : k = n + m
  <2>1. events' \in Seq(Events) /\ n \in Nat /\ DOMAIN events = 1 .. n
    BY <1>1, <1>2
  <2>2. DOMAIN events' = 1 .. n + r
    BY <1>1, <1>2, <1>3
  <2>3. \A k \in 1 .. n : events'[k] = events[k]
    BY <1>1, <1>2, <1>3
  <2>4. \A k \in 1 .. r : events'[n + k] = rep[k]
    BY <1>1, <1>2, <1>3
  <2>5. ASSUME NEW k \in 1 .. n + r, k \notin 1 .. n PROVE \E m \in 1 .. r : k = n + m
    <3>1. k - n \in 1 .. r /\ k = n + (k - n)
      BY <1>1, <2>1, <2>5
    <3>2. QED
      BY <3>1
  <2>6. QED
    BY <2>1, <2>2, <2>3, <2>4, <2>5
<1> HIDE DEF S, n
<1>5. ASSUME NEW p, NEW i \in S, evs[i].path = p
      PROVE  Reported(p, evs[i])
  <2>1. PICK m \in 1 .. r : Nth(S, m) = i
    BY <1>1, <1>5
  <2>2. events'[n + m] = evs[i] /\ n + m \in Nat /\ n + m \in DOMAIN events'
    BY <1>1, <1>4, <2>1
  <2>3. ASSUME NEW k \in About(events', p), k \notin About(events, p) PROVE k = n + m
    <3>1. PICK j \in 1 .. r : k = n + j
      BY <1>4, <2>3 DEF About
    <3>2. evs[Nth(S, j)].path = p
      BY <1>1, <1>4, <2>3, <3>1 DEF About
    <3>3. Nth(S, j) = Nth(S, m)
      BY <1>1, <1>5, <2>1, <3>2 DEF Distinct, S
    <3>4. ~(j < m) /\ ~(m < j)
      BY <1>1, <3>3
    <3>5. QED
      BY <3>1, <3>4
  <2>4. About(events, p) \subseteq About(events', p)
    BY <1>1, <1>4 DEF About
  <2>5. n + m \in About(events', p)
    BY <1>5, <2>2 DEF About
  <2>6. About(events', p) = About(events, p) \cup {n + m}
    BY <2>3, <2>4, <2>5
  <2>7. \A k \in DOMAIN events : k < n + m
    BY <1>4
  <2>8. \A k \in About(events, p) : events'[k] = events[k]
    BY <1>4 DEF About
  <2>9. QED
    BY <2>2, <2>6, <2>7, <2>8 DEF Reported
<1>6. ASSUME NEW p, \A i \in S : evs[i].path # p
      PROVE  Quiet(p)
  <2>1. ASSUME NEW k \in About(events', p) PROVE k \in About(events, p)
    <3>1. k \in DOMAIN events' /\ events'[k].path = p
      BY <2>1 DEF About
    <3>2. ASSUME NEW m \in 1 .. r PROVE events'[n + m].path # p
      <4>1. events'[n + m] = evs[Nth(S, m)] /\ Nth(S, m) \in S
        BY <1>1, <1>4
      <4>2. QED
        BY <1>6, <4>1
    <3>3. k \in 1 .. n
      BY <1>4, <3>1, <3>2
    <3>4. QED
      BY <1>4, <3>1, <3>3 DEF About
  <2>2. About(events, p) \subseteq About(events', p)
    BY <1>1, <1>4 DEF About
  <2>3. QED
    BY <1>4, <2>1, <2>2 DEF Quiet, About
<1>7. ASSUME NEW k \in DOMAIN events'
      PROVE  \/ k \in DOMAIN events /\ events'[k] = events[k]
             \/ \E i \in DOMAIN evs : events'[k] = evs[i]
  <2>1. CASE k \in 1 .. n
    BY <1>4, <2>1
  <2>2. ASSUME NEW m \in 1 .. r, k = n + m PROVE \E i \in DOMAIN evs : events'[k] = evs[i]
    <3>1. events'[k] = evs[Nth(S, m)] /\ Nth(S, m) \in S
      BY <1>1, <1>4, <2>2
    <3>2. QED
      BY <3>1 DEF S
  <2>3. QED
    BY <1>4, <2>1, <2>2
<1>8. ASSUME NEW p
      PROVE \/ /\ Quiet(p)
               /\ Front(p) \in watched => About(evs, p) = {}
            \/ /\ Front(p) \in watched
               /\ \E i \in About(evs, p) : Reported(p, evs[i])
  <2>1. ASSUME NEW i \in S, evs[i].path = p
        PROVE  Front(p) \in watched /\ i \in About(evs, p) /\ Reported(p, evs[i])
    BY <1>5, <2>1 DEF S, About
  <2>2. ASSUME \A i \in S : evs[i].path # p
        PROVE  Quiet(p) /\ (Front(p) \in watched => About(evs, p) = {})
    BY <1>6, <2>2 DEF S, About
  <2>3. QED
    BY <2>1, <2>2
<1>9. QED
  BY <1>4, <1>7, <1>8

-----------------------------------------------------------------------------
(* The objects as a tree.                                                   *)
IdsOf(objs)  == {o.id : o \in ToSet(objs)}
Unique(objs) == \A i, j \in DOMAIN objs : objs[i].id = objs[j].id => i = j
Linked(objs) == \A o \in ToSet(objs) :
                   o.children = {c.id : c \in {x \in ToSet(objs) : x.parent = o.id}}
Tree(objs)   == objs \in Seq(Entries) /\ Unique(objs) /\ Linked(objs)

(* What the invariants say of an object, its list of children apart.        *)
Same(x, y) == y.id = x.id /\ y.path = x.path /\ y.parent = x.parent
              /\ y.destroyed = x.destroyed
(* The tree b is a without the ids gone and with the objects new.           *)
TreeStep(a, b, gone, new) ==
  /\ \A x \in ToSet(a) : x.id \in gone \/ \E y \in ToSet(b) : Same(x, y)
  /\ \A y \in ToSet(b) : y \in new \/ \E x \in ToSet(a) : x.id \notin gone /\ Same(x, y)
  /\ new \subseteq ToSet(b)

LEMMA EntryFacts ==
  ASSUME NEW objs \in Seq(Entries)
  PROVE  /\ DOMAIN objs = 1 .. Len(objs) /\ Len(objs) \in Nat
         /\ \A i \in DOMAIN objs : objs[i] \in Entries /\ objs[i] \in ToSet(objs)
         /\ \A x \in ToSet(objs) : \E i \in DOMAIN objs : x = objs[i]
         /\ \A x \in ToSet(objs) :
               /\ x \in Entries /\ x.id \in Ids /\ x.path \in Dirs /\ x.kind \in Kinds
               /\ x.parent \in Ids \cup {NoId} /\ x.children \in SUBSET Ids
               /\ x.destroyed \in BOOLEAN /\ x.id # NoId
<1>1. DOMAIN objs = 1 .. Len(objs) /\ Len(objs) \in Nat /\ \A i \in DOMAIN objs : objs[i] \in Entries
  OBVIOUS
<1>2. ToSet(objs) = {objs[i] : i \in DOMAIN objs}
  BY DEF ToSet
<1>3. \A x \in Entries :
        /\ x.id \in Ids /\ x.path \in Dirs /\ x.kind \in Kinds
        /\ x.parent \in Ids \cup {NoId} /\ x.children \in SUBSET Ids
        /\ x.destroyed \in BOOLEAN
  BY DEF Entries, Dirs
<1>4. NoId \notin Ids
  BY MaxObjectsAssumption DEF NoId, Ids
<1>5. QED
  BY <1>1, <1>2, <1>3, <1>4

LEMMA AdoptIs ==
  ASSUME NEW objs, NEW parent, NEW id
  PROVE  Adopt(objs, parent, id) =
           [i \in DOMAIN objs |-> IF objs[i].id = parent
                                  THEN [objs[i] EXCEPT !.children = @ \cup {id}]
                                  ELSE objs[i]]
BY DEF Adopt, With

LEMMA UnmountIs ==
  ASSUME NEW objs, NEW parent, NEW id
  PROVE  Unmount(objs, id, parent) =
           Picked([i \in DOMAIN objs |-> IF objs[i].id = parent
                                  THEN [objs[i] EXCEPT !.children = @ \ {id}]
                                  ELSE objs[i]],
                  {i \in DOMAIN objs : objs[i].id # id})
BY DEF Unmount, With

LEMMA UniqueFacts ==
  ASSUME NEW objs \in Seq(Entries), Unique(objs),
         NEW x \in ToSet(objs), NEW y \in ToSet(objs), x.id = y.id
  PROVE  x = y
BY EntryFacts DEF Unique

LEMMA UpdatedFacts ==
  ASSUME NEW objs \in Seq(Entries), Unique(objs), NEW new, DOMAIN new = DOMAIN objs,
         \A i \in DOMAIN objs : new[i] \in Entries /\ new[i].id = objs[i].id,
         new = [i \in DOMAIN objs |-> new[i]]
  PROVE  new \in Seq(Entries) /\ Unique(new) /\ IdsOf(new) = IdsOf(objs)
<1>1. DOMAIN objs = 1 .. Len(objs) /\ Len(objs) \in Nat
  BY EntryFacts
<1>2. new \in Seq(Entries)
  BY <1>1
<1>3. Unique(new)
  BY DEF Unique
<1>4. IdsOf(new) = IdsOf(objs)
  BY DEF IdsOf, ToSet
<1>5. QED
  BY <1>2, <1>3, <1>4

LEMMA MountedLast ==
  ASSUME NEW objs \in Seq(Entries), Unique(objs), NEW o \in Entries, o.id \notin IdsOf(objs)
  PROVE  /\ Append(objs, o) \in Seq(Entries) /\ Unique(Append(objs, o))
         /\ ToSet(Append(objs, o)) = ToSet(objs) \cup {o}
<1> DEFINE new == Append(objs, o)
           n   == Len(objs)
<1>1. n \in Nat /\ DOMAIN objs = 1 .. n /\ \A x \in ToSet(objs) : \E i \in DOMAIN objs : x = objs[i]
  BY EntryFacts
<1>2. new \in Seq(Entries) /\ Len(new) = n + 1 /\ DOMAIN new = 1 .. n + 1
  OBVIOUS
<1>3. new[n + 1] = o /\ \A i \in 1 .. n : new[i] = objs[i]
  OBVIOUS
<1>4. \A i \in DOMAIN new : i \in 1 .. n \/ i = n + 1
  BY <1>1, <1>2
<1>5. \A i \in 1 .. n : objs[i].id # o.id
  BY <1>1 DEF IdsOf, ToSet
<1>6. Unique(new)
  BY <1>1, <1>3, <1>4, <1>5 DEF Unique
<1>7. ASSUME NEW x \in ToSet(new) PROVE x \in ToSet(objs) \cup {o}
  <2>1. PICK i \in DOMAIN new : x = new[i]
    BY <1>7 DEF ToSet
  <2>2. QED
    BY <1>1, <1>3, <1>4, <2>1 DEF ToSet
<1>8. ToSet(objs) \cup {o} \subseteq ToSet(new)
  BY <1>1, <1>2, <1>3 DEF ToSet
<1>9. QED
  BY <1>2, <1>6, <1>7, <1>8

LEMMA PickedObjects ==
  ASSUME NEW objs \in Seq(Entries), Unique(objs), NEW S \in SUBSET DOMAIN objs
  PROVE  /\ Picked(objs, S) \in Seq(Entries) /\ Unique(Picked(objs, S))
         /\ ToSet(Picked(objs, S)) = {objs[i] : i \in S}
<1> DEFINE new == Picked(objs, S)
<1>1. /\ new \in Seq(Entries) /\ DOMAIN new = 1 .. Cardinality(S) /\ Cardinality(S) \in Nat
      /\ \A k \in 1 .. Cardinality(S) : Nth(S, k) \in S /\ new[k] = objs[Nth(S, k)]
      /\ \A k, m \in 1 .. Cardinality(S) : k < m => Nth(S, k) < Nth(S, m)
      /\ ToSet(new) = {objs[i] : i \in S} /\ S \subseteq Nat
  BY PickedFacts
<1> HIDE DEF new
<1>2. ASSUME NEW k \in DOMAIN new, NEW m \in DOMAIN new, new[k].id = new[m].id
      PROVE  k = m
  <2>1. Nth(S, k) = Nth(S, m)
    BY <1>1, <1>2 DEF Unique
  <2>2. Nth(S, k) \in Nat /\ ~(k < m) /\ ~(m < k)
    BY <1>1, <1>2, <2>1
  <2>3. QED
    BY <1>1, <1>2, <2>2
<1>3. QED
  BY <1>1, <1>2 DEF Unique, new

LEMMA MountTree ==
  ASSUME NEW objs, Tree(objs), NEW o \in Entries, o.id \notin IdsOf(objs),
         o.children = {}, o.parent # o.id, \A x \in ToSet(objs) : x.parent # o.id
  PROVE  /\ Tree(Mount(objs, o)) /\ TreeStep(objs, Mount(objs, o), {}, {o})
         /\ IdsOf(Mount(objs, o)) = IdsOf(objs) \cup {o.id}
<1> DEFINE mid == Adopt(objs, o.parent, o.id)
           new == Mount(objs, o)
           Grown(x) == IF x.id = o.parent THEN [x EXCEPT !.children = @ \cup {o.id}] ELSE x
<1>1. mid = [i \in DOMAIN objs |-> Grown(objs[i])]
  BY AdoptIs
<1>2. \A x \in Entries : /\ Grown(x) \in Entries /\ Same(x, Grown(x)) /\ Grown(x).id = x.id
                         /\ Grown(x).children = IF x.id = o.parent THEN x.children \cup {o.id}
                                              ELSE x.children
  BY DEF Entries, Same
<1>3. objs \in Seq(Entries) /\ Unique(objs) /\ Linked(objs)
  BY DEF Tree
<1>4. \A i \in DOMAIN objs : objs[i] \in Entries
  BY <1>3, EntryFacts
<1> HIDE DEF Grown
<1>5. mid \in Seq(Entries) /\ Unique(mid) /\ IdsOf(mid) = IdsOf(objs)
  <2>1. DOMAIN mid = DOMAIN objs /\ \A i \in DOMAIN objs : mid[i] = Grown(objs[i])
    BY <1>1
  <2> HIDE DEF mid
  <2>2. \A i \in DOMAIN objs : mid[i] \in Entries /\ mid[i].id = objs[i].id
    BY <1>2, <1>4, <2>1
  <2>3. mid = [i \in DOMAIN objs |-> mid[i]]
    BY <1>1 DEF mid
  <2>4. QED
    BY <1>3, <2>1, <2>2, <2>3, UpdatedFacts
<1>6. ToSet(mid) = {Grown(x) : x \in ToSet(objs)}
  BY <1>1 DEF ToSet
<1>7. /\ new \in Seq(Entries) /\ Unique(new) /\ ToSet(new) = ToSet(mid) \cup {o}
  BY <1>5, MountedLast DEF Mount
<1>8. ToSet(new) = {Grown(x) : x \in ToSet(objs)} \cup {o}
  BY <1>6, <1>7
<1> HIDE DEF mid, new
<1>9. \A x \in ToSet(objs) : /\ x \in Entries /\ x.id # o.id
                            /\ x.children = {c.id : c \in {z \in ToSet(objs) : z.parent = x.id}}
  BY <1>3, EntryFacts DEF Linked, IdsOf
<1>10. ASSUME NEW y \in ToSet(new)
       PROVE  y.children = {c.id : c \in {x \in ToSet(new) : x.parent = y.id}}
  <2> DEFINE kids(i) == {c.id : c \in {x \in ToSet(new) : x.parent = i}}
             old(i)  == {c.id : c \in {x \in ToSet(objs) : x.parent = i}}
  <2>1. \A i : kids(i) = old(i) \cup (IF o.parent = i THEN {o.id} ELSE {})
    <3>1. \A z \in ToSet(objs) : Grown(z).id = z.id /\ Grown(z).parent = z.parent
      BY <1>2, <1>9 DEF Same
    <3>2. ASSUME NEW i, NEW j \in kids(i)
          PROVE  j \in old(i) \cup (IF o.parent = i THEN {o.id} ELSE {})
      BY <1>8, <3>1, <3>2
    <3>3. ASSUME NEW i, NEW j \in old(i) PROVE j \in kids(i)
      BY <1>8, <3>1, <3>3
    <3>4. ASSUME NEW i, o.parent = i PROVE o.id \in kids(i)
      BY <1>8, <3>4
    <3>5. QED
      BY <3>2, <3>3, <3>4, Zenon
  <2>2. CASE y = o
    <3>1. old(o.id) = {}
      OBVIOUS
    <3>2. kids(y.id) = {}
      BY <2>1, <2>2, <3>1
    <3>3. QED
      BY <2>2, <3>2
  <2>3. ASSUME NEW x \in ToSet(objs), y = Grown(x) PROVE y.children = kids(y.id)
    <3>1. y.id = x.id /\ x.children = old(x.id)
      BY <1>2, <1>9, <2>3
    <3>2. y.children = IF x.id = o.parent THEN old(x.id) \cup {o.id} ELSE old(x.id)
      BY <1>2, <1>9, <2>3, <3>1
    <3> HIDE DEF kids, old
    <3>3. QED
      BY <2>1, <3>1, <3>2
  <2>4. QED
    BY <1>8, <2>2, <2>3
<1>11. Tree(new)
  BY <1>7, <1>10 DEF Tree, Linked
<1>12. TreeStep(objs, new, {}, {o})
  <2>1. \A x \in ToSet(objs) : Grown(x) \in ToSet(new) /\ Same(x, Grown(x))
    BY <1>2, <1>8, <1>9
  <2>2. \A y \in ToSet(new) : y \in {o} \/ \E x \in ToSet(objs) : y = Grown(x)
    BY <1>8
  <2>3. {o} \subseteq ToSet(new)
    BY <1>8
  <2>4. QED
    BY <2>1, <2>2, <2>3 DEF TreeStep
<1>13. IdsOf(new) = IdsOf(objs) \cup {o.id}
  <2>1. \A x \in ToSet(objs) : Grown(x) \in ToSet(new) /\ Grown(x).id = x.id
    BY <1>2, <1>8, <1>9
  <2>2. \A y \in ToSet(new) : y = o \/ \E x \in ToSet(objs) : y = Grown(x)
    BY <1>8
  <2>3. o \in ToSet(new)
    BY <1>8
  <2>4. \A i \in IdsOf(new) : i \in IdsOf(objs) \cup {o.id}
    BY <2>1, <2>2 DEF IdsOf
  <2>5. \A i \in IdsOf(objs) \cup {o.id} : i \in IdsOf(new)
    BY <2>1, <2>3 DEF IdsOf
  <2>6. QED
    BY <2>4, <2>5
<1>14. QED
  BY <1>11, <1>12, <1>13 DEF new

LEMMA UnmountTree ==
  ASSUME NEW objs, Tree(objs), NEW o \in ToSet(objs)
  PROVE  /\ Tree(Unmount(objs, o.id, o.parent))
         /\ TreeStep(objs, Unmount(objs, o.id, o.parent), {o.id}, {})
         /\ IdsOf(Unmount(objs, o.id, o.parent)) = IdsOf(objs) \ {o.id}
<1> DEFINE new == Unmount(objs, o.id, o.parent)
           Cut(x) == IF x.id = o.parent THEN [x EXCEPT !.children = @ \ {o.id}] ELSE x
           mid == [i \in DOMAIN objs |-> Cut(objs[i])]
           S   == {i \in DOMAIN objs : objs[i].id # o.id}
<1>1. new = Picked(mid, S)
  BY UnmountIs
<1>2. \A x \in Entries : /\ Cut(x) \in Entries /\ Same(x, Cut(x)) /\ Cut(x).id = x.id
                         /\ Cut(x).children = IF x.id = o.parent THEN x.children \ {o.id}
                                              ELSE x.children
  BY DEF Entries, Same
<1>3. objs \in Seq(Entries) /\ Unique(objs) /\ Linked(objs)
  BY DEF Tree
<1>4. \A i \in DOMAIN objs : objs[i] \in Entries
  BY <1>3, EntryFacts
<1> HIDE DEF Cut
<1>5. mid \in Seq(Entries) /\ Unique(mid) /\ DOMAIN mid = DOMAIN objs
  <2>1. DOMAIN mid = DOMAIN objs /\ \A i \in DOMAIN objs : mid[i] = Cut(objs[i])
    OBVIOUS
  <2>2. mid = [i \in DOMAIN objs |-> mid[i]]
    OBVIOUS
  <2> HIDE DEF mid
  <2>3. \A i \in DOMAIN objs : mid[i] \in Entries /\ mid[i].id = objs[i].id
    BY <1>2, <1>4, <2>1
  <2>4. QED
    BY <1>3, <2>1, <2>2, <2>3, UpdatedFacts
<1>6. /\ new \in Seq(Entries) /\ Unique(new) /\ ToSet(new) = {mid[i] : i \in S}
  <2>1. S \in SUBSET DOMAIN mid
    BY <1>5
  <2> HIDE DEF mid, S, new
  <2>2. QED
    BY <1>1, <1>5, <2>1, PickedObjects
<1>7. ToSet(new) = {Cut(x) : x \in {z \in ToSet(objs) : z.id # o.id}}
  <2>1. \A i \in S : mid[i] = Cut(objs[i])
    OBVIOUS
  <2>2. ASSUME NEW i \in S PROVE objs[i] \in {z \in ToSet(objs) : z.id # o.id}
    BY <1>3, EntryFacts
  <2>3. ASSUME NEW x \in {z \in ToSet(objs) : z.id # o.id} PROVE \E i \in S : x = objs[i]
    BY <1>3, EntryFacts
  <2> HIDE DEF mid, S, new
  <2>4. QED
    BY <1>6, <2>1, <2>2, <2>3
<1> HIDE DEF mid, new
<1>8. \A x \in ToSet(objs) : /\ x \in Entries /\ (x.id = o.id => x = o)
                            /\ x.children = {c.id : c \in {z \in ToSet(objs) : z.parent = x.id}}
  BY <1>3, EntryFacts, UniqueFacts DEF Linked
<1>9. ASSUME NEW y \in ToSet(new)
      PROVE  y.children = {c.id : c \in {x \in ToSet(new) : x.parent = y.id}}
  <2> DEFINE kids(i) == {c.id : c \in {x \in ToSet(new) : x.parent = i}}
             old(i)  == {c.id : c \in {x \in ToSet(objs) : x.parent = i}}
  <2>1. \A i : kids(i) = old(i) \ {o.id}
    <3>1. \A z \in ToSet(objs) : Cut(z).id = z.id /\ Cut(z).parent = z.parent
      BY <1>2, <1>8 DEF Same
    <3>2. ASSUME NEW i, NEW j \in kids(i) PROVE j \in old(i) \ {o.id}
      BY <1>7, <3>1, <3>2
    <3>3. ASSUME NEW i, NEW j \in old(i), j # o.id PROVE j \in kids(i)
      BY <1>7, <3>1, <3>3
    <3>4. QED
      BY <3>2, <3>3
  <2>2. \A i : i # o.parent => o.id \notin old(i)
    BY <1>8
  <2>3. PICK x \in ToSet(objs) : y = Cut(x)
    BY <1>7
  <2>4. y.id = x.id /\ x.children = old(x.id)
    BY <1>2, <1>8, <2>3
  <2>5. y.children = IF x.id = o.parent THEN old(x.id) \ {o.id} ELSE old(x.id)
    BY <1>2, <1>8, <2>3, <2>4
  <2> HIDE DEF kids, old
  <2>6. y.children = kids(y.id)
    BY <2>1, <2>2, <2>4, <2>5
  <2>7. QED
    BY <2>6 DEF kids
<1>10. Tree(new)
  BY <1>6, <1>9 DEF Tree, Linked
<1>11. TreeStep(objs, new, {o.id}, {})
  BY <1>2, <1>7, <1>8 DEF TreeStep
<1>12. IdsOf(new) = IdsOf(objs) \ {o.id}
  <2>1. \A x \in ToSet(objs) : Cut(x).id = x.id
    BY <1>2, <1>8
  <2>2. \A i \in IdsOf(new) : i \in IdsOf(objs) \ {o.id}
    BY <1>7, <2>1 DEF IdsOf
  <2>3. \A i \in IdsOf(objs) \ {o.id} : i \in IdsOf(new)
    BY <1>7, <2>1 DEF IdsOf
  <2>4. QED
    BY <2>2, <2>3
<1>13. QED
  BY <1>10, <1>11, <1>12 DEF new

LEMMA StepsCompose ==
  ASSUME NEW a, NEW b, NEW c, NEW gone, NEW new,
         TreeStep(a, b, gone, {}), TreeStep(b, c, {}, new)
  PROVE  TreeStep(a, c, gone, new)
BY DEF TreeStep, Same

LEMMA UnchangedStep ==
  ASSUME NEW a PROVE TreeStep(a, a, {}, {})
BY DEF TreeStep, Same

LEMMA ChangedTree ==
  ASSUME NEW objs, Tree(objs), NEW new, new = [i \in DOMAIN objs |-> new[i]],
         \A i \in DOMAIN objs : /\ new[i] \in Entries /\ new[i].id = objs[i].id
                                /\ new[i].parent = objs[i].parent
                                /\ new[i].children = objs[i].children
  PROVE  Tree(new) /\ IdsOf(new) = IdsOf(objs)
<1>1. objs \in Seq(Entries) /\ Unique(objs) /\ Linked(objs)
  BY DEF Tree
<1>2. new \in Seq(Entries) /\ Unique(new) /\ IdsOf(new) = IdsOf(objs) /\ DOMAIN new = DOMAIN objs
  BY <1>1, UpdatedFacts
<1>3. /\ \A x \in ToSet(objs) : \E y \in ToSet(new) : /\ y.id = x.id /\ y.parent = x.parent
                                                     /\ y.children = x.children
      /\ \A y \in ToSet(new) : \E x \in ToSet(objs) : /\ y.id = x.id /\ y.parent = x.parent
                                                     /\ y.children = x.children
  BY <1>2 DEF ToSet
<1>4. ASSUME NEW i
      PROVE  {c.id : c \in {x \in ToSet(new) : x.parent = i}}
                = {c.id : c \in {x \in ToSet(objs) : x.parent = i}}
  BY <1>3
<1>5. ASSUME NEW y \in ToSet(new)
      PROVE  y.children = {c.id : c \in {x \in ToSet(new) : x.parent = y.id}}
  <2>1. PICK x \in ToSet(objs) : y.id = x.id /\ y.children = x.children
    BY <1>3
  <2>2. x.children = {c.id : c \in {z \in ToSet(objs) : z.parent = x.id}}
    BY <1>1 DEF Linked
  <2>3. {c.id : c \in {z \in ToSet(new) : z.parent = x.id}}
          = {c.id : c \in {z \in ToSet(objs) : z.parent = x.id}}
    BY <1>4
  <2>4. QED
    BY <2>1, <2>2, <2>3
<1>6. QED
  BY <1>2, <1>5 DEF Tree, Linked

LEMMA ReplacedTree ==
  ASSUME NEW objs, Tree(objs), NEW o \in ToSet(objs), NEW o1 \in Entries,
         o1.id = o.id, o1.parent = o.parent, o1.children = o.children, NEW new,
         new = [i \in DOMAIN objs |-> IF objs[i].id = o.id THEN o1 ELSE objs[i]]
  PROVE  Tree(new) /\ IdsOf(new) = IdsOf(objs) /\ TreeStep(objs, new, {o.id}, {o1})
<1>1. objs \in Seq(Entries) /\ Unique(objs)
  BY DEF Tree
<1>2. \A i \in DOMAIN objs : objs[i] \in Entries /\ objs[i] \in ToSet(objs)
                            /\ (objs[i].id = o.id => objs[i] = o)
  BY <1>1, EntryFacts, UniqueFacts
<1>3. /\ DOMAIN new = DOMAIN objs /\ new = [i \in DOMAIN objs |-> new[i]]
      /\ \A i \in DOMAIN objs : new[i] = IF objs[i].id = o.id THEN o1 ELSE objs[i]
  OBVIOUS
<1>4. \A i \in DOMAIN objs : /\ new[i] \in Entries /\ new[i].id = objs[i].id
                             /\ new[i].parent = objs[i].parent
                             /\ new[i].children = objs[i].children
  BY <1>2, <1>3
<1>5. Tree(new) /\ IdsOf(new) = IdsOf(objs)
  BY <1>3, <1>4, ChangedTree
<1>6. \A x \in ToSet(objs) : \E i \in DOMAIN objs : x = objs[i]
  BY <1>1, EntryFacts
<1>7. \A x \in ToSet(objs) : x.id # o.id => x \in ToSet(new)
  BY <1>3, <1>6 DEF ToSet
<1>8. o1 \in ToSet(new)
  BY <1>3, <1>6 DEF ToSet
<1>9. \A y \in ToSet(new) : y = o1 \/ (y \in ToSet(objs) /\ y.id # o.id)
  BY <1>2, <1>3 DEF ToSet
<1>10. TreeStep(objs, new, {o.id}, {o1})
  BY <1>7, <1>8, <1>9 DEF TreeStep, Same
<1>11. QED
  BY <1>5, <1>10

LEMMA TombstoneTree ==
  ASSUME NEW objs, Tree(objs), NEW id, NEW new,
         new = With(objs, id, LAMBDA o : [o EXCEPT !.destroyed = TRUE])
  PROVE  /\ Tree(new) /\ IdsOf(new) = IdsOf(objs)
         /\ \A x \in ToSet(objs) :
               x.id = id => TreeStep(objs, new, {id}, {[x EXCEPT !.destroyed = TRUE]})
         /\ id \notin IdsOf(objs) => new = objs
<1>1. new = [i \in DOMAIN objs |-> IF objs[i].id = id THEN [objs[i] EXCEPT !.destroyed = TRUE]
                                   ELSE objs[i]]
  BY DEF With
<1>2. objs \in Seq(Entries) /\ Unique(objs)
  BY DEF Tree
<1>3. \A i \in DOMAIN objs : objs[i] \in Entries /\ objs[i] \in ToSet(objs)
  BY <1>2, EntryFacts
<1>4. ASSUME NEW x \in ToSet(objs), x.id = id
      PROVE  /\ Tree(new) /\ IdsOf(new) = IdsOf(objs)
             /\ TreeStep(objs, new, {id}, {[x EXCEPT !.destroyed = TRUE]})
  <2> DEFINE x1 == [x EXCEPT !.destroyed = TRUE]
  <2>1. x \in Entries
    BY <1>2, EntryFacts
  <2>2. /\ x1 \in Entries /\ x1.id = x.id /\ x1.parent = x.parent
        /\ x1.children = x.children
    BY <2>1 DEF Entries
  <2>3. \A i \in DOMAIN objs : objs[i].id = id => objs[i] = x
    BY <1>2, <1>3, <1>4, UniqueFacts
  <2>4. new = [i \in DOMAIN objs |-> IF objs[i].id = x.id THEN x1 ELSE objs[i]]
    BY <1>1, <1>4, <2>3
  <2> HIDE DEF x1
  <2>5. Tree(new) /\ IdsOf(new) = IdsOf(objs) /\ TreeStep(objs, new, {x.id}, {x1})
    BY <2>2, <2>4, ReplacedTree
  <2>6. QED
    BY <1>4, <2>5 DEF x1
<1>5. ASSUME id \notin IdsOf(objs) PROVE new = objs
  <2>1. \A i \in DOMAIN objs : objs[i].id # id
    BY <1>3, <1>5 DEF IdsOf
  <2>2. new = [i \in DOMAIN objs |-> objs[i]]
    BY <1>1, <2>1
  <2>3. QED
    BY <1>2, <2>2
<1>6. QED
  <2>1. CASE id \in IdsOf(objs)
    BY <1>4, <2>1 DEF IdsOf
  <2>2. CASE id \notin IdsOf(objs)
    BY <1>5, <2>2 DEF IdsOf
  <2>3. QED
    BY <2>1, <2>2

(* The subtree closed: whoever stays keeps all its children.                *)
LEMMA CloseTree ==
  ASSUME NEW objs, Tree(objs), NEW gone, NEW new,
         \A x, c \in ToSet(objs) : c.id \in gone /\ c.parent = x.id => x.id \in gone,
         new = Picked(objs, {i \in DOMAIN objs : objs[i].id \notin gone})
  PROVE  Tree(new) /\ IdsOf(new) = IdsOf(objs) \ gone /\ TreeStep(objs, new, gone, {})
<1> DEFINE S == {i \in DOMAIN objs : objs[i].id \notin gone}
<1>1. objs \in Seq(Entries) /\ Unique(objs) /\ Linked(objs)
  BY DEF Tree
<1>2. S \in SUBSET DOMAIN objs
  OBVIOUS
<1>3. new \in Seq(Entries) /\ Unique(new) /\ ToSet(new) = {objs[i] : i \in S}
  <2>1. new = Picked(objs, S)
    OBVIOUS
  <2> HIDE DEF S
  <2>2. QED
    BY <1>1, <1>2, <2>1, PickedObjects
<1>4. ToSet(new) = {x \in ToSet(objs) : x.id \notin gone}
  BY <1>3 DEF ToSet
<1>5. ASSUME NEW y \in ToSet(new)
      PROVE  y.children = {c.id : c \in {x \in ToSet(new) : x.parent = y.id}}
  <2>1. y \in ToSet(objs) /\ y.id \notin gone
    BY <1>4
  <2>2. {x \in ToSet(new) : x.parent = y.id} = {x \in ToSet(objs) : x.parent = y.id}
    BY <1>4, <2>1
  <2>3. QED
    BY <1>1, <2>1, <2>2 DEF Linked
<1>6. TreeStep(objs, new, gone, {})
  BY <1>4 DEF TreeStep, Same
<1>7. IdsOf(new) = IdsOf(objs) \ gone
  BY <1>4 DEF IdsOf
<1>8. QED
  BY <1>3, <1>5, <1>6, <1>7 DEF Tree, Linked

LEMMA OpenTree ==
  ASSUME NEW objs, Tree(objs), NEW o \in Entries, o.id \notin IdsOf(objs),
         o.children = {}, o.parent = NoId, \A x \in ToSet(objs) : x.parent # o.id
  PROVE  /\ Tree(Append(objs, o)) /\ TreeStep(objs, Append(objs, o), {}, {o})
         /\ IdsOf(Append(objs, o)) = IdsOf(objs) \cup {o.id}
<1> DEFINE new == Append(objs, o)
<1>1. objs \in Seq(Entries) /\ Unique(objs) /\ Linked(objs)
  BY DEF Tree
<1>2. new \in Seq(Entries) /\ Unique(new) /\ ToSet(new) = ToSet(objs) \cup {o}
  BY <1>1, MountedLast
<1> HIDE DEF new
<1>3. \A x \in ToSet(new) : x.id # NoId
  BY <1>2, EntryFacts
<1>4. ASSUME NEW y \in ToSet(new)
      PROVE  y.children = {c.id : c \in {x \in ToSet(new) : x.parent = y.id}}
  <2>1. {x \in ToSet(new) : x.parent = y.id} = {x \in ToSet(objs) : x.parent = y.id}
    BY <1>2, <1>3
  <2>2. CASE y \in ToSet(objs)
    BY <1>1, <2>1, <2>2 DEF Linked
  <2>3. CASE y = o
    <3>1. {x \in ToSet(objs) : x.parent = y.id} = {}
      BY <2>3
    <3>2. QED
      BY <2>1, <2>3, <3>1
  <2>4. QED
    BY <1>2, <2>2, <2>3
<1>5. TreeStep(objs, new, {}, {o})
  BY <1>2 DEF TreeStep, Same
<1>6. IdsOf(new) = IdsOf(objs) \cup {o.id}
  BY <1>2 DEF IdsOf
<1>7. QED
  BY <1>2, <1>4, <1>5, <1>6 DEF Tree, Linked, new

LEMMA JoinFacts ==
  ASSUME NEW a \in Seq(Entries), NEW b \in Seq(Entries), Unique(a), Unique(b),
         IdsOf(a) \cap IdsOf(b) = {}
  PROVE  a \o b \in Seq(Entries) /\ Unique(a \o b) /\ ToSet(a \o b) = ToSet(a) \cup ToSet(b)
<1> DEFINE new == a \o b
           n == Len(a)
           r == Len(b)
<1>1. /\ n \in Nat /\ r \in Nat /\ DOMAIN a = 1 .. n /\ DOMAIN b = 1 .. r
  BY EntryFacts
<1>2. new \in Seq(Entries) /\ DOMAIN new = 1 .. n + r
  OBVIOUS
<1>3. \A i \in 1 .. n : new[i] = a[i]
  OBVIOUS
<1>4. \A i \in 1 .. r : new[n + i] = b[i]
  OBVIOUS
<1>5. \A k \in DOMAIN new : k \in 1 .. n \/ \E i \in 1 .. r : k = n + i
  <2>1. ASSUME NEW k \in 1 .. n + r, k \notin 1 .. n PROVE k - n \in 1 .. r /\ k = n + (k - n)
    BY <1>1, <2>1
  <2>2. QED
    BY <1>2, <2>1
<1>6. \A i \in 1 .. n, j \in 1 .. r : a[i].id # b[j].id
  <2>1. ASSUME NEW i \in 1 .. n, NEW j \in 1 .. r PROVE a[i].id # b[j].id
    <3>1. a[i].id \in IdsOf(a) /\ b[j].id \in IdsOf(b)
      BY <1>1 DEF IdsOf, ToSet
    <3>2. QED
      BY <3>1
  <2>2. QED
    BY <2>1
<1> HIDE DEF n, r, new
<1>7. ASSUME NEW i \in DOMAIN new, NEW j \in DOMAIN new, new[i].id = new[j].id PROVE i = j
  <2>1. CASE i \in 1 .. n /\ j \in 1 .. n
    BY <1>1, <1>3, <1>7, <2>1 DEF Unique
  <2>2. ASSUME NEW k \in 1 .. r, i = n + k, j \in 1 .. n PROVE FALSE
    BY <1>3, <1>4, <1>6, <1>7, <2>2
  <2>3. ASSUME NEW k \in 1 .. r, j = n + k, i \in 1 .. n PROVE FALSE
    BY <1>3, <1>4, <1>6, <1>7, <2>3
  <2>4. ASSUME NEW k \in 1 .. r, NEW m \in 1 .. r, i = n + k, j = n + m PROVE i = j
    BY <1>1, <1>4, <1>7, <2>4 DEF Unique
  <2>5. QED
    BY <1>5, <2>1, <2>2, <2>3, <2>4
<1>8. ASSUME NEW x \in ToSet(new) PROVE x \in ToSet(a) \cup ToSet(b)
  <2>1. PICK k \in DOMAIN new : x = new[k]
    BY <1>8 DEF ToSet
  <2>2. QED
    BY <1>1, <1>3, <1>4, <1>5, <2>1 DEF ToSet
<1>9. ASSUME NEW x \in ToSet(a) PROVE x \in ToSet(new)
  <2>1. PICK k \in 1 .. n : x = a[k]
    BY <1>1, <1>9 DEF ToSet
  <2>2. k \in DOMAIN new
    BY <1>1, <1>2
  <2>3. QED
    BY <1>3, <2>1, <2>2 DEF ToSet
<1>10. ASSUME NEW x \in ToSet(b) PROVE x \in ToSet(new)
  <2>1. PICK k \in 1 .. r : x = b[k]
    BY <1>1, <1>10 DEF ToSet
  <2>2. n + k \in DOMAIN new
    BY <1>1, <1>2
  <2>3. QED
    BY <1>4, <2>1, <2>2 DEF ToSet
<1>11. QED
  BY <1>2, <1>7, <1>8, <1>9, <1>10 DEF Unique, new

(* New objects without children, all under the object o.                    *)
Hung(objs, o, kids) ==
  \A c \in ToSet(kids) : /\ c.parent = o.id /\ c.children = {} /\ c.id \notin IdsOf(objs)
                         /\ \A x \in ToSet(objs) : x.parent # c.id

(* One object in the place of the one of its id.                            *)
Replaced(objs, o1, new) ==
  new = [i \in DOMAIN objs |-> IF objs[i].id = o1.id THEN o1 ELSE objs[i]]

LEMMA ReadTree ==
  ASSUME NEW objs, Tree(objs), NEW o \in ToSet(objs), o.children = {},
         NEW kids \in Seq(Entries), Unique(kids),
         Hung(objs, o, kids),
         NEW ids, ids = IdsOf(kids), NEW o1 \in Entries, Same(o, o1), o1.children = ids, NEW mid,
         Replaced(objs, o1, mid), NEW new, new = mid \o kids
  PROVE  /\ Tree(new) /\ TreeStep(objs, new, {}, ToSet(kids))
         /\ IdsOf(new) = IdsOf(objs) \cup ids
<1>1. \A c \in ToSet(kids) : /\ c.parent = o.id /\ c.children = {} /\ c.id \notin IdsOf(objs)
                             /\ \A x \in ToSet(objs) : x.parent # c.id
  BY DEF Hung
<1>2. objs \in Seq(Entries) /\ Unique(objs) /\ Linked(objs)
  BY DEF Tree
<1>3. \A i \in DOMAIN objs : objs[i] \in Entries /\ objs[i] \in ToSet(objs)
                            /\ (objs[i].id = o.id => objs[i] = o)
  BY <1>2, EntryFacts, UniqueFacts
<1>4. o \in Entries /\ \A c \in ToSet(kids) : c \in Entries /\ c.id \in Ids
  BY <1>2, EntryFacts
<1>5. ids \in SUBSET Ids
  BY <1>4 DEF IdsOf
<1>6. o1 \in Entries /\ Same(o, o1) /\ o1.id = o.id /\ o1.parent = o.parent /\ o1.children = ids
  BY <1>4, <1>5 DEF Entries, Same
<1>7. /\ DOMAIN mid = DOMAIN objs /\ mid = [i \in DOMAIN objs |-> mid[i]]
      /\ \A i \in DOMAIN objs : mid[i] = IF objs[i].id = o.id THEN o1 ELSE objs[i]
  BY <1>6 DEF Replaced
<1>8. mid \in Seq(Entries) /\ Unique(mid) /\ IdsOf(mid) = IdsOf(objs)
  <2>1. \A i \in DOMAIN objs : mid[i] \in Entries /\ mid[i].id = objs[i].id
    BY <1>3, <1>6, <1>7
  <2>2. QED
    BY <1>2, <1>7, <2>1, UpdatedFacts
<1>9. ToSet(mid) = {x \in ToSet(objs) : x.id # o.id} \cup {o1}
  <2>1. \A x \in ToSet(objs) : \E i \in DOMAIN objs : x = objs[i]
    BY <1>2, EntryFacts
  <2>2. ASSUME NEW x \in ToSet(mid) PROVE x \in {z \in ToSet(objs) : z.id # o.id} \cup {o1}
    BY <1>3, <1>7, <2>2 DEF ToSet
  <2>3. ASSUME NEW x \in ToSet(objs), x.id # o.id PROVE x \in ToSet(mid)
    BY <1>7, <2>1, <2>3 DEF ToSet
  <2>4. o1 \in ToSet(mid)
    BY <1>7, <2>1 DEF ToSet
  <2>5. QED
    BY <2>2, <2>3, <2>4
<1>10. new \in Seq(Entries) /\ Unique(new) /\ ToSet(new) = ToSet(mid) \cup ToSet(kids)
  <2>1. IdsOf(mid) \cap IdsOf(kids) = {}
    BY <1>1, <1>8 DEF IdsOf
  <2>2. QED
    BY <1>8, <2>1, JoinFacts
<1>11. ToSet(new) = {x \in ToSet(objs) : x.id # o.id} \cup {o1} \cup ToSet(kids)
  BY <1>9, <1>10
<1>12. \A x \in ToSet(objs) : /\ (x.id = o.id => x = o)
                             /\ x.children = {c.id : c \in {z \in ToSet(objs) : z.parent = x.id}}
  BY <1>2, UniqueFacts DEF Linked
<1>13. ASSUME NEW y \in ToSet(new)
       PROVE  y.children = {c.id : c \in {x \in ToSet(new) : x.parent = y.id}}
  <2> DEFINE all(i) == {c.id : c \in {x \in ToSet(new) : x.parent = i}}
             old(i) == {c.id : c \in {x \in ToSet(objs) : x.parent = i}}
  <2>1. \A i : all(i) = old(i) \cup (IF i = o.id THEN ids ELSE {})
    <3>1. ASSUME NEW i, NEW j \in all(i) PROVE j \in old(i) \cup (IF i = o.id THEN ids ELSE {})
      <4>1. PICK c \in ToSet(new) : c.parent = i /\ c.id = j
        BY <3>1
      <4>2. CASE c \in ToSet(objs)
        BY <4>1, <4>2
      <4>3. CASE c = o1
        BY <1>6, <4>1, <4>3
      <4>4. CASE c \in ToSet(kids)
        BY <1>1, <4>1, <4>4 DEF IdsOf
      <4>5. QED
        BY <1>11, <4>2, <4>3, <4>4
    <3>2. ASSUME NEW i, NEW j \in old(i) PROVE j \in all(i)
      <4>1. PICK c \in ToSet(objs) : c.parent = i /\ c.id = j
        BY <3>2
      <4>2. CASE c.id # o.id
        BY <1>11, <4>1, <4>2
      <4>3. CASE c = o
        BY <1>6, <1>11, <4>1, <4>3
      <4>4. QED
        BY <1>12, <4>2, <4>3
    <3>3. ASSUME NEW j \in ids PROVE j \in all(o.id)
      BY <1>1, <1>11, <3>3 DEF IdsOf
    <3> HIDE DEF all, old
    <3>4. QED
      BY <3>1, <3>2, <3>3
  <2>2. CASE y \in ToSet(objs) /\ y.id # o.id
    <3>1. y.children = old(y.id)
      BY <1>12, <2>2
    <3> HIDE DEF all, old
    <3>2. y.children = all(y.id)
      BY <2>1, <2>2, <3>1
    <3>3. QED
      BY <3>2 DEF all
  <2>3. CASE y = o1
    <3>1. old(o.id) = {}
      BY <1>12
    <3> HIDE DEF all, old
    <3>2. y.children = all(y.id)
      BY <1>6, <2>1, <2>3, <3>1
    <3>3. QED
      BY <3>2 DEF all
  <2>4. CASE y \in ToSet(kids)
    <3>1. old(y.id) = {} /\ y.id # o.id /\ y.children = {}
      BY <1>1, <2>4 DEF IdsOf
    <3> HIDE DEF all, old
    <3>2. y.children = all(y.id)
      BY <2>1, <3>1
    <3>3. QED
      BY <3>2 DEF all
  <2>5. QED
    BY <1>11, <2>2, <2>3, <2>4
<1>14. TreeStep(objs, new, {}, ToSet(kids))
  <2>1. \A x \in ToSet(objs) : \E y \in ToSet(new) : Same(x, y)
    <3>1. \A x \in ToSet(objs) : x.id # o.id => x \in ToSet(new) /\ Same(x, x)
      BY <1>11 DEF Same
    <3>2. o1 \in ToSet(new)
      BY <1>11
    <3>3. QED
      BY <1>6, <1>12, <3>1, <3>2
  <2>2. \A y \in ToSet(new) : y \in ToSet(kids) \/ \E x \in ToSet(objs) : Same(x, y)
    <3>1. \A x : Same(x, x)
      BY DEF Same
    <3>2. QED
      BY <1>6, <1>11, <3>1
  <2>3. QED
    BY <1>11, <2>1, <2>2 DEF TreeStep
<1>15. IdsOf(new) = IdsOf(objs) \cup ids
  <2>1. ASSUME NEW j \in IdsOf(new) PROVE j \in IdsOf(objs) \cup ids
    BY <1>6, <1>11, <2>1 DEF IdsOf
  <2>2. ASSUME NEW j \in IdsOf(objs) PROVE j \in IdsOf(new)
    BY <1>6, <1>11, <1>12, <2>2 DEF IdsOf
  <2>3. ASSUME NEW j \in ids PROVE j \in IdsOf(new)
    BY <1>11, <2>3 DEF IdsOf
  <2>4. QED
    BY <2>1, <2>2, <2>3
<1>16. QED
  BY <1>10, <1>13, <1>14, <1>15 DEF Tree, Linked

-----------------------------------------------------------------------------
(* Looking objects up, and new ids.                                         *)
LEMMA ObjectFacts ==
  ASSUME Tree(mounted)
  PROVE  /\ \A o \in Objects : /\ Object(o.id) = o /\ o \in Entries /\ o.id \in Ids
                               /\ o.path \in Dirs /\ o.id # NoId /\ o.kind \in Kinds
                               /\ o.parent \in Ids \cup {NoId} /\ o.id \in MountedIds
         /\ \A x, y \in Objects : x.id = y.id => x = y
         /\ \A id \in MountedIds : Object(id) \in Objects /\ Object(id).id = id
         /\ MountedIds = IdsOf(mounted) /\ MountedIds \subseteq Ids
<1>1. mounted \in Seq(Entries) /\ Unique(mounted)
  BY DEF Tree
<1>2. \A x, y \in Objects : x.id = y.id => x = y
  BY <1>1, UniqueFacts DEF Objects
<1>3. \A o \in Objects : /\ o \in Entries /\ o.id \in Ids /\ o.path \in Dirs /\ o.id # NoId
                        /\ o.kind \in Kinds /\ o.parent \in Ids \cup {NoId}
  BY <1>1, EntryFacts DEF Objects
<1>4. MountedIds = IdsOf(mounted)
  BY DEF MountedIds, IdsOf, Objects
<1>5. ASSUME NEW o \in Objects PROVE Object(o.id) = o
  <2>1. Object(o.id) \in Objects /\ Object(o.id).id = o.id
    BY DEF Object
  <2>2. QED
    BY <1>2, <2>1
<1>6. \A id \in MountedIds : \E o \in Objects : o.id = id
  BY DEF MountedIds
<1>7. \A id \in MountedIds : Object(id) \in Objects /\ Object(id).id = id
  BY <1>5, <1>6
<1>8. \A o \in Objects : o.id \in MountedIds
  BY DEF MountedIds
<1>9. QED
  BY <1>2, <1>3, <1>4, <1>5, <1>7, <1>8

LEMMA FoundFacts ==
  ASSUME Tree(mounted), NEW p, HasPath(p) # {}
  PROVE  \E o \in HasPath(p) : find_object_by_path(p) = o.id
<1> DEFINE S == {i \in DOMAIN mounted : mounted[i].path = p}
<1>1. mounted \in Seq(Entries)
  BY DEF Tree
<1>2. DOMAIN mounted = 1 .. Len(mounted) /\ Len(mounted) \in Nat
  BY <1>1, EntryFacts
<1>3. IsFiniteSet(DOMAIN mounted) /\ S \subseteq DOMAIN mounted
  BY <1>2, FS_Interval
<1>4. IsFiniteSet(S) /\ Cardinality(S) \in Nat /\ S \in SUBSET Nat
  BY <1>2, <1>3, FS_Subset, FS_CardinalityType
<1>5. S # {}
  BY DEF HasPath, Objects, ToSet
<1>6. Cardinality(S) # 0
  BY <1>4, <1>5, FS_EmptySet
<1>7. PICK i \in S : Cardinality(Ranked(S, i)) = 1 - 1
  <2>1. 1 \in 1 .. Cardinality(S)
    BY <1>4, <1>6
  <2> HIDE DEF S
  <2>2. QED
    BY <1>4, <2>1, RankExists
<1>8. Ranked(S, i) = {}
  <2>1. IsFiniteSet(Ranked(S, i))
    BY <1>4, RankFacts
  <2>2. QED
    BY <1>7, <2>1, FS_EmptySet
<1>9. \A j \in 1 .. i - 1 : mounted[j].path # p
  <2>1. ASSUME NEW j \in 1 .. i - 1, mounted[j].path = p PROVE FALSE
    <3>1. i \in Nat /\ j \in DOMAIN mounted /\ j < i
      BY <1>2, <1>4, <2>1
    <3>2. j \in Ranked(S, i)
      BY <2>1, <3>1 DEF Ranked
    <3>3. QED
      BY <1>8, <3>2
  <2>2. QED
    BY <2>1
<1>10. PICK k \in DOMAIN mounted : find_object_by_path(p) = mounted[k].id /\ mounted[k].path = p
  <2> DEFINE First(k) == mounted[k].path = p /\ \A j \in 1 .. k - 1 : mounted[j].path # p
             k0 == CHOOSE k \in DOMAIN mounted : First(k)
  <2>1. i \in DOMAIN mounted /\ First(i)
    BY <1>9
  <2>2. find_object_by_path(p) = mounted[k0].id
    BY DEF find_object_by_path
  <2>3. k0 \in DOMAIN mounted /\ First(k0)
    <3> HIDE DEF First
    <3>1. QED
      BY <2>1
  <2>4. QED
    BY <2>2, <2>3
<1>11. mounted[k] \in HasPath(p)
  BY <1>10 DEF HasPath, Objects, ToSet
<1>12. QED
  BY <1>10, <1>11

LEMMA FreshFacts ==
  /\ IsFiniteSet(Free) /\ Cardinality(Free) \in Nat /\ Free \subseteq Ids
  /\ Free # {} => 1 \in 1 .. Cardinality(Free)
  /\ \A k \in 1 .. Cardinality(Free) : Fresh(k) \in Free
  /\ \A k, m \in 1 .. Cardinality(Free) : Fresh(k) = Fresh(m) => k = m
  /\ \A i \in Free : i \notin MountedIds /\ (\A o \in Objects : o.parent # i)
                     /\ i # asked.id /\ i # reading
<1>1. Free \subseteq Ids /\ Free \in SUBSET Nat
  BY MaxObjectsAssumption DEF Free, Ids
<1>2. IsFiniteSet(Ids)
  BY MaxObjectsAssumption, FS_Interval DEF Ids
<1>3. IsFiniteSet(Free) /\ Cardinality(Free) \in Nat
  BY <1>1, <1>2, FS_Subset, FS_CardinalityType
<1>4. Free # {} => 1 \in 1 .. Cardinality(Free)
  <2>1. Free # {} => Cardinality(Free) # 0
    BY <1>3, FS_EmptySet
  <2>2. QED
    BY <1>3, <2>1
<1>5. /\ \A k \in 1 .. Cardinality(Free) : Fresh(k) \in Free
      /\ \A k, m \in 1 .. Cardinality(Free) : k < m => Fresh(k) < Fresh(m)
  BY <1>1, <1>3, NthFacts DEF Fresh
<1>6. ASSUME NEW k \in 1 .. Cardinality(Free), NEW m \in 1 .. Cardinality(Free),
             Fresh(k) = Fresh(m)
      PROVE  k = m
  <2>1. Fresh(k) \in Nat /\ Fresh(m) \in Nat
    BY <1>1, <1>5
  <2>2. ~(Fresh(k) < Fresh(m)) /\ ~(Fresh(m) < Fresh(k))
    BY <1>6, <2>1
  <2>3. ~(k < m) /\ ~(m < k)
    BY <1>5, <2>2
  <2>4. QED
    BY <1>3, <2>3
<1>7. \A i \in Free : i \notin Held
  BY DEF Free
<1>8. QED
  BY <1>1, <1>3, <1>4, <1>5, <1>6, <1>7 DEF Held

-----------------------------------------------------------------------------
(* The disk.                                                                *)
WatchedFolders == \A w \in watched : IsFolder(w)
DiskOK == disk \in Disks /\ events \in Seq(Events) /\ watched \subseteq Dirs /\ WatchedFolders

(* A step leaves a path as it is, or the last event about it tells what     *)
(* became of it.                                                            *)
Still(x) == disk'[x] = disk[x] /\ Quiet(x)
Appears(x, own)  == /\ disk[x] = "none" /\ disk'[x] # "none"
                    /\ \E e \in Events : e.kind \in Created /\ e.own = own /\ Reported(x, e)
Vanishes(x, own) == /\ disk[x] # "none" /\ disk'[x] = "none"
                    /\ \E e \in Events : e.kind = "Removed" /\ e.own = own /\ Reported(x, e)

(* A change of the disk at the paths come and go, by the shell or by others.*)
DiskStep(come, go, own) ==
  /\ DiskOK' /\ watched' \subseteq watched /\ (Root \in watched => Root \in watched')
  /\ \A k \in DOMAIN events' : \/ k \in DOMAIN events /\ events'[k] = events[k]
                               \/ events'[k].own = own
  /\ \A x : Quiet(x) \/ \E e \in Events : e.own = own /\ Reported(x, e)
  /\ \A x : Front(x) \notin watched => Quiet(x)
  /\ \A x \in Paths : Front(x) \in watched' =>
        /\ x \in come => Appears(x, own)
        /\ x \in go => Vanishes(x, own)
        /\ x \notin come \cup go => Still(x)

LEMMA PathsFinite == IsFiniteSet(Paths) /\ \A p : IsFiniteSet(Children(p))
<1> DEFINE f == [n \in Top |-> <<n>>]
           T == {<<n, l>> : n \in Top, l \in Leaf}
<1>1. IsFiniteSet(TopPaths)
  <2>1. f \in Surjection(Top, TopPaths)
    BY DEF Surjection, TopPaths
  <2> HIDE DEF f
  <2>2. QED
    BY <2>1, NamesAssumption, FS_Surjection
<1>2. IsFiniteSet(T)
  <2>1. T = Top \X Leaf
    OBVIOUS
  <2>2. QED
    BY <2>1, NamesAssumption, FS_Product
<1>3. IsFiniteSet(Paths)
  <2>1. Paths = TopPaths \cup T
    BY DEF Paths
  <2> HIDE DEF T
  <2>2. QED
    BY <1>1, <1>2, <2>1, FS_Union
<1>4. ASSUME NEW p PROVE IsFiniteSet(Children(p))
  <2>1. Children(p) \subseteq Paths
    BY DEF Children
  <2>2. QED
    BY <1>3, <2>1, FS_Subset
<1>5. QED
  BY <1>3, <1>4

LEMMA DiskFacts ==
  ASSUME disk \in Disks
  PROVE  /\ \A p \in Paths : disk[p] \in {"none", "file", "folder"}
         /\ \A p \in Paths \ TopPaths : disk[p] # "folder"
         /\ \A p \in Paths \ TopPaths : disk[p] # "none" => disk[Front(p)] = "folder"
         /\ \A p \in Paths : IsFolder(p) <=> disk[p] = "folder"
         /\ IsFolder(Root)
         /\ \A p \in Dirs : IsFolder(p) => p = Root \/ p \in TopPaths
<1>1. /\ \A p \in Paths : disk[p] \in {"none", "file", "folder"}
      /\ \A p \in Paths \ TopPaths : disk[p] # "folder"
      /\ \A p \in Paths \ TopPaths : disk[p] # "none" => disk[Front(p)] = "folder"
  BY DEF Disks, Kinds
<1>2. \A p \in Paths : IsFolder(p) <=> disk[p] = "folder"
  BY PathFacts DEF IsFolder
<1>3. IsFolder(Root)
  BY DEF IsFolder
<1>4. \A p \in Dirs : IsFolder(p) => p = Root \/ p \in TopPaths
  BY <1>1, <1>2 DEF Dirs
<1>5. QED
  BY <1>1, <1>2, <1>3, <1>4

LEMMA EventFacts ==
  ASSUME NEW kind \in {"Created", "Modified", "Removed"}, NEW p \in Paths, NEW own \in BOOLEAN
  PROVE  /\ FsChange(kind, p, own) \in Events /\ FsChange(kind, p, own).path = p
         /\ FsChange(kind, p, own).kind = kind /\ FsChange(kind, p, own).own = own
BY DEF FsChange, Events

LEMMA ReportStep ==
  ASSUME DiskOK, NEW evs \in Seq(Events), Distinct(evs), events' = Report(evs),
         NEW own, \A i \in DOMAIN evs : evs[i].own = own
  PROVE  /\ events' \in Seq(Events)
         /\ \A k \in DOMAIN events' : \/ k \in DOMAIN events /\ events'[k] = events[k]
                                      \/ events'[k].own = own
         /\ \A x : Quiet(x) \/ \E e \in Events : e.own = own /\ Reported(x, e)
         /\ \A x : Front(x) \notin watched => Quiet(x)
         /\ \A x : Front(x) \in watched /\ About(evs, x) = {} => Quiet(x)
         /\ \A i \in DOMAIN evs : Front(evs[i].path) \in watched => Reported(evs[i].path, evs[i])
<1>1. events \in Seq(Events)
  BY DEF DiskOK
<1>2. /\ events' \in Seq(Events)
      /\ \A p : \/ /\ Quiet(p)
                   /\ Front(p) \in watched => About(evs, p) = {}
                \/ /\ Front(p) \in watched
                   /\ \E i \in About(evs, p) : Reported(p, evs[i])
      /\ \A k \in DOMAIN events' : \/ k \in DOMAIN events /\ events'[k] = events[k]
                                   \/ \E i \in DOMAIN evs : events'[k] = evs[i]
  BY <1>1, ReportTells
<1>3. \A i \in DOMAIN evs : evs[i] \in Events
  BY EventsFacts
<1>4. \A k \in DOMAIN events' : \/ k \in DOMAIN events /\ events'[k] = events[k]
                                \/ events'[k].own = own
  BY <1>2
<1>5. \A x : Quiet(x) \/ \E e \in Events : e.own = own /\ Reported(x, e)
  <2>1. SUFFICES ASSUME NEW x, ~Quiet(x) PROVE \E e \in Events : e.own = own /\ Reported(x, e)
    OBVIOUS
  <2>2. PICK i \in About(evs, x) : Reported(x, evs[i])
    BY <1>2, <2>1
  <2>3. QED
    BY <1>3, <2>2 DEF About
<1>6. ASSUME NEW i \in DOMAIN evs, Front(evs[i].path) \in watched PROVE Reported(evs[i].path, evs[i])
  <2>1. i \in About(evs, evs[i].path)
    BY DEF About
  <2>2. PICK j \in About(evs, evs[i].path) : Reported(evs[i].path, evs[j])
    BY <1>2, <1>6, <2>1
  <2>3. i = j
    BY <2>2 DEF Distinct, About
  <2>4. QED
    BY <2>2, <2>3
<1>7. \A x : Front(x) \in watched /\ About(evs, x) = {} => Quiet(x)
  BY <1>2
<1>8. \A x : Front(x) \notin watched => Quiet(x)
  BY <1>2
<1>9. QED
  BY <1>2, <1>4, <1>5, <1>6, <1>7, <1>8

LEMMA CreateStep ==
  ASSUME DiskOK, NEW p \in Paths, NEW kind \in Kinds, NEW own \in BOOLEAN,
         CreateOnDisk(p, kind, own)
  PROVE  DiskStep({p}, {}, own) /\ disk'[p] = kind
<1>1. PICK k \in Created : events' = Report(<<FsChange(k, p, own)>>)
  BY DEF CreateOnDisk
<1> DEFINE evs == <<FsChange(k, p, own)>>
           e   == FsChange(k, p, own)
<1>2. e \in Events /\ e.path = p /\ e.kind = k /\ e.own = own
  BY EventFacts DEF Created
<1> HIDE DEF e
<1>3. evs \in Seq(Events) /\ DOMAIN evs = {1} /\ evs[1] = e
  BY <1>2 DEF e
<1>4. events' = Report(evs)
  BY <1>1 DEF e
<1> HIDE DEF evs
<1>5. Distinct(evs)
  BY <1>3 DEF Distinct
<1>6. /\ events' \in Seq(Events)
      /\ \A j \in DOMAIN events' : \/ j \in DOMAIN events /\ events'[j] = events[j]
                                   \/ events'[j].own = own
      /\ \A x : Quiet(x) \/ \E f \in Events : f.own = own /\ Reported(x, f)
      /\ \A x : Front(x) \notin watched => Quiet(x)
      /\ \A x : Front(x) \in watched /\ x # p => Quiet(x)
      /\ Front(p) \in watched => Reported(p, e)
  <2>1. \A i \in DOMAIN evs : evs[i] = e /\ evs[i].own = own /\ evs[i].path = p
    BY <1>2, <1>3
  <2>2. \A x : x # p => About(evs, x) = {}
    BY <2>1 DEF About
  <2>3. /\ events' \in Seq(Events)
        /\ \A j \in DOMAIN events' : \/ j \in DOMAIN events /\ events'[j] = events[j]
                                     \/ events'[j].own = own
        /\ \A x : Quiet(x) \/ \E f \in Events : f.own = own /\ Reported(x, f)
        /\ \A x : Front(x) \notin watched => Quiet(x)
        /\ \A x : Front(x) \in watched /\ About(evs, x) = {} => Quiet(x)
        /\ \A i \in DOMAIN evs : Front(evs[i].path) \in watched => Reported(evs[i].path, evs[i])
    BY <1>3, <1>4, <1>5, <2>1, ReportStep
  <2>4. Front(p) \in watched => Reported(p, e)
    BY <1>3, <2>1, <2>3
  <2>5. QED
    BY <2>2, <2>3, <2>4
<1>7. /\ disk[p] = "none" /\ IsFolder(Front(p)) /\ (kind = "folder" => p \in TopPaths)
      /\ disk' = [disk EXCEPT ![p] = kind] /\ watched' = watched
  BY DEF CreateOnDisk
<1>8. disk \in Disks /\ watched \subseteq Dirs /\ WatchedFolders
  BY DEF DiskOK
<1>9. disk'[p] = kind /\ (\A x \in Paths : x # p => disk'[x] = disk[x]) /\ kind # "none"
  BY <1>7, <1>8 DEF Disks, Kinds
<1>10. disk' \in Disks
  <2>1. disk' \in [Paths -> {"none"} \cup Kinds]
    BY <1>7, <1>8 DEF Disks
  <2>2. ASSUME NEW x \in Paths \ TopPaths
        PROVE  disk'[x] = "none" \/ (disk'[x] = "file" /\ disk'[Front(x)] = "folder")
    <3>1. Front(x) \in TopPaths /\ Front(x) \in Paths /\ Front(x) # x
      BY PathFacts
    <3>2. CASE x = p
      <4>1. kind = "file" /\ disk[Front(p)] = "folder"
        BY <1>7, <1>8, <3>1, <3>2, DiskFacts DEF Kinds
      <4>2. QED
        BY <1>9, <3>1, <3>2, <4>1
    <3>3. CASE x # p
      <4>1. disk[x] = "none" \/ (disk[x] = "file" /\ disk[Front(x)] = "folder")
        BY <1>8 DEF Disks
      <4>2. QED
        BY <1>7, <1>9, <3>1, <3>3, <4>1
    <3>4. QED
      BY <3>2, <3>3
  <2>3. QED
    BY <2>1, <2>2 DEF Disks
<1>11. WatchedFolders'
  <2>1. ASSUME NEW w \in watched PROVE IsFolder(w)'
    <3>1. IsFolder(w) /\ w \in Dirs
      BY <1>8 DEF WatchedFolders
    <3>2. CASE w \in Paths
      <4>1. disk[w] = "folder" /\ w # p
        BY <1>7, <1>8, <3>1, <3>2, DiskFacts
      <4>2. QED
        BY <1>9, <3>2, <4>1 DEF IsFolder
    <3>3. CASE w = Root
      BY <3>3 DEF IsFolder
    <3>4. QED
      BY <3>1, <3>2, <3>3 DEF Dirs
  <2>2. QED
    BY <1>7, <2>1 DEF WatchedFolders
<1>12. DiskOK'
  BY <1>6, <1>7, <1>8, <1>10, <1>11 DEF DiskOK
<1>13. Front(p) \in watched => Appears(p, own)
  BY <1>2, <1>6, <1>7, <1>9 DEF Appears
<1>14. \A x \in Paths : Front(x) \in watched /\ x # p => Still(x)
  BY <1>6, <1>9 DEF Still
<1>15. QED
  BY <1>6, <1>7, <1>9, <1>12, <1>13, <1>14 DEF DiskStep

LEMMA FoldersStay ==
  ASSUME DiskOK, watched' \subseteq watched,
         \A w \in watched' \cap Paths : disk[w] = "folder" => disk'[w] = "folder"
  PROVE  WatchedFolders' /\ watched' \subseteq Dirs
<1>1. disk \in Disks /\ watched \subseteq Dirs /\ WatchedFolders
  BY DEF DiskOK
<1>2. ASSUME NEW w \in watched' PROVE IsFolder(w)'
  <2>1. IsFolder(w) /\ w \in Dirs
    BY <1>1, <1>2 DEF WatchedFolders
  <2>2. CASE w \in Paths
    <3>1. disk[w] = "folder"
      BY <1>1, <2>1, <2>2, DiskFacts
    <3>2. QED
      BY <1>2, <2>2, <3>1 DEF IsFolder
  <2>3. CASE w = Root
    BY <2>3 DEF IsFolder
  <2>4. QED
    BY <2>1, <2>2, <2>3 DEF Dirs
<1>3. QED
  BY <1>1, <1>2 DEF WatchedFolders

LEMMA DeleteStep ==
  ASSUME DiskOK, NEW p \in Paths, NEW own \in BOOLEAN, DeleteOnDisk(p, own)
  PROVE  DiskStep({}, {p}, own)
<1> DEFINE in     == {q \in Children(p) : disk[q] # "none"}
           inside == SetToSeq(in)
           gone   == Append(inside, p)
           evs    == [i \in DOMAIN gone |-> FsChange("Removed", gone[i], own)]
           n      == Cardinality(in)
<1>1. /\ disk[p] # "none" /\ watched' = watched \ {p}
      /\ disk' = [q \in Paths |-> IF Within(p, q) THEN "none" ELSE disk[q]]
      /\ events' = Report(evs)
  BY DEF DeleteOnDisk
<1>2. disk \in Disks /\ watched \subseteq Dirs /\ WatchedFolders
  BY DEF DiskOK
<1>3. in \subseteq Children(p) /\ IsFiniteSet(in)
  BY PathsFinite, FS_Subset
<1>4. \A q \in in : q \in Paths /\ Front(q) = p /\ q # p
  BY PathFacts DEF Children
<1> HIDE DEF in
<1>5. /\ inside \in Seq(in) /\ n \in Nat /\ Len(inside) = n
      /\ \A i, j \in 1 .. n : inside[i] = inside[j] => i = j
      /\ \A i \in 1 .. n : inside[i] \in in
  <2>1. /\ inside \in Seq(in) /\ n \in Nat /\ Len(inside) = n
        /\ \A i, j \in 1 .. n : inside[i] = inside[j] => i = j
    BY <1>3, SetToSeqFacts
  <2> HIDE DEF inside
  <2>2. \A i \in 1 .. n : inside[i] \in in
    BY <2>1
  <2>3. QED
    BY <2>1, <2>2
<1> HIDE DEF inside
<1>6. /\ DOMAIN gone = 1 .. n + 1 /\ gone[n + 1] = p
      /\ \A i \in 1 .. n : gone[i] = inside[i]
      /\ \A i \in 1 .. n + 1 : i \in 1 .. n \/ i = n + 1
  BY <1>5
<1> HIDE DEF gone, n
<1>7. \A i \in DOMAIN gone : gone[i] \in Paths /\ (gone[i] = p \/ Front(gone[i]) = p)
  BY <1>4, <1>5, <1>6
<1>8. \A i, j \in DOMAIN gone : gone[i] = gone[j] => i = j
  BY <1>4, <1>5, <1>6
<1>9. /\ DOMAIN evs = 1 .. n + 1 /\ evs \in Seq(Events)
      /\ \A i \in DOMAIN evs : /\ evs[i] \in Events /\ evs[i].path = gone[i]
                               /\ evs[i].kind = "Removed" /\ evs[i].own = own
  <2>1. \A i \in DOMAIN gone : /\ evs[i] \in Events /\ evs[i].path = gone[i]
                               /\ evs[i].kind = "Removed" /\ evs[i].own = own
    BY <1>7, EventFacts
  <2>2. DOMAIN evs = 1 .. n + 1 /\ evs = [i \in 1 .. n + 1 |-> evs[i]]
    BY <1>6
  <2> HIDE DEF evs
  <2>3. n + 1 \in Nat
    BY <1>5 DEF n
  <2>4. evs \in Seq(Events)
    BY <1>6, <2>1, <2>2, <2>3
  <2>5. QED
    BY <1>6, <2>1, <2>2, <2>4
<1> HIDE DEF evs
<1>10. Distinct(evs)
  BY <1>6, <1>8, <1>9 DEF Distinct
<1>11. /\ events' \in Seq(Events)
       /\ \A k \in DOMAIN events' : \/ k \in DOMAIN events /\ events'[k] = events[k]
                                    \/ events'[k].own = own
       /\ \A x : Quiet(x) \/ \E e \in Events : e.own = own /\ Reported(x, e)
       /\ \A x : Front(x) \notin watched => Quiet(x)
       /\ \A x : Front(x) \in watched /\ About(evs, x) = {} => Quiet(x)
       /\ \A i \in DOMAIN evs : Front(evs[i].path) \in watched => Reported(evs[i].path, evs[i])
  BY <1>1, <1>9, <1>10, ReportStep
<1>12. \A x : x # p /\ Front(x) # p => About(evs, x) = {}
  BY <1>6, <1>7, <1>9 DEF About
<1>13. Front(p) \in watched => \E e \in Events : e.kind = "Removed" /\ e.own = own /\ Reported(p, e)
  <2>1. n + 1 \in DOMAIN evs /\ evs[n + 1].path = p
    BY <1>5, <1>6, <1>9 DEF n
  <2>2. QED
    BY <1>9, <1>11, <2>1
<1>14. /\ \A x \in Paths : ~Within(p, x) => disk'[x] = disk[x]
       /\ \A x \in Paths : Within(p, x) => disk'[x] = "none"
       /\ disk' \in [Paths -> {"none"} \cup Kinds]
  BY <1>1, <1>2 DEF Disks
<1>15. disk' \in Disks
  <2>1. ASSUME NEW x \in Paths \ TopPaths, disk'[x] # "none"
        PROVE  disk'[x] = "file" /\ disk'[Front(x)] = "folder"
    <3>1. disk'[x] = disk[x] /\ ~Within(p, x)
      BY <1>14, <2>1
    <3>2. Front(x) \in Paths /\ Front(x) \in TopPaths /\ x \in Dirs
      BY PathFacts DEF Dirs
    <3>3. ~Within(p, Front(x))
      BY <3>1, <3>2, WithinFacts
    <3>4. disk[x] = "file" /\ disk[Front(x)] = "folder"
      BY <1>2, <2>1, <3>1 DEF Disks
    <3>5. QED
      BY <1>14, <3>1, <3>2, <3>3, <3>4
  <2>2. QED
    BY <1>14, <2>1 DEF Disks
<1>16. WatchedFolders' /\ watched' \subseteq Dirs
  <2>1. ASSUME NEW w \in watched' \cap Paths, disk[w] = "folder" PROVE disk'[w] = "folder"
    <3>1. w # p /\ w \in TopPaths
      BY <1>1, <1>2, <2>1, DiskFacts
    <3>2. ~Within(p, w)
      BY <3>1, PathFacts DEF Within
    <3>3. QED
      BY <1>14, <2>1, <3>2
  <2>2. QED
    BY <1>1, <2>1, FoldersStay
<1>17. ASSUME NEW x \in Paths, Front(x) \in watched'
       PROVE  /\ x \in {p} => Vanishes(x, own)
              /\ x \notin {p} => Still(x)
  <2>1. Front(x) \in watched /\ Front(x) # p
    BY <1>1, <1>17
  <2>2. CASE x = p
    <3>1. disk'[p] = "none"
      BY <1>14, WithinFacts
    <3>2. QED
      BY <1>1, <1>13, <2>1, <2>2, <3>1 DEF Vanishes
  <2>3. CASE x # p
    <3>1. ~Within(p, x)
      BY <2>1, <2>3, PathFacts DEF Within
    <3>2. Quiet(x)
      BY <1>11, <1>12, <2>1, <2>3
    <3>3. QED
      BY <1>14, <2>3, <3>1, <3>2 DEF Still
  <2>4. QED
    BY <2>2, <2>3
<1>18. DiskOK'
  BY <1>11, <1>15, <1>16 DEF DiskOK
<1>19. watched' \subseteq watched /\ (Root \in watched => Root \in watched')
  BY <1>1, PathFacts
<1>20. QED
  BY <1>11, <1>17, <1>18, <1>19 DEF DiskStep

LEMMA RenameStep ==
  ASSUME DiskOK, NEW p \in Paths, NEW q \in Siblings(p), NEW own \in BOOLEAN,
         RenameOnDisk(p, q, own)
  PROVE  DiskStep({q}, {p}, own)
<1>1. /\ disk[p] # "none" /\ disk[q] = "none" /\ watched' = watched \ {p}
      /\ disk' = [r \in Paths |->
                    IF r = q THEN disk[p]
                    ELSE IF Front(r) = q THEN disk[Append(p, Last(r))]
                    ELSE IF Within(p, r) THEN "none" ELSE disk[r]]
      /\ events' = Report(<<FsChange("Removed", p, own), FsChange("Created", q, own)>>)
  BY DEF RenameOnDisk
<1>2. disk \in Disks /\ watched \subseteq Dirs /\ WatchedFolders
  BY DEF DiskOK
<1>3. q \in Paths /\ Front(q) = Front(p) /\ q # p
  BY DEF Siblings, Children
<1> DEFINE e == FsChange("Removed", p, own)
           f == FsChange("Created", q, own)
           evs == <<e, f>>
<1>4. /\ e \in Events /\ e.path = p /\ e.kind = "Removed" /\ e.own = own
      /\ f \in Events /\ f.path = q /\ f.kind = "Created" /\ f.own = own
  BY <1>3, EventFacts
<1>5. events' = Report(evs)
  BY <1>1
<1> HIDE DEF e, f
<1>6. evs \in Seq(Events) /\ DOMAIN evs = {1, 2} /\ evs[1] = e /\ evs[2] = f
  BY <1>4
<1> HIDE DEF evs
<1>7. Distinct(evs) /\ \A i \in DOMAIN evs : evs[i].own = own
  BY <1>3, <1>4, <1>6 DEF Distinct
<1>8. /\ events' \in Seq(Events)
      /\ \A k \in DOMAIN events' : \/ k \in DOMAIN events /\ events'[k] = events[k]
                                   \/ events'[k].own = own
      /\ \A x : Quiet(x) \/ \E g \in Events : g.own = own /\ Reported(x, g)
      /\ \A x : Front(x) \notin watched => Quiet(x)
      /\ \A x : Front(x) \in watched /\ About(evs, x) = {} => Quiet(x)
      /\ \A i \in DOMAIN evs : Front(evs[i].path) \in watched => Reported(evs[i].path, evs[i])
  BY <1>5, <1>6, <1>7, ReportStep
<1>9. \A x : x # p /\ x # q => About(evs, x) = {}
  BY <1>4, <1>6 DEF About
<1>10. Front(p) \in watched => Reported(p, e) /\ Reported(q, f)
  <2>1. 1 \in DOMAIN evs /\ 2 \in DOMAIN evs /\ evs[1].path = p /\ evs[2].path = q
    BY <1>4, <1>6
  <2>2. QED
    BY <1>3, <1>6, <1>8, <2>1
<1>11. /\ p \in TopPaths => q \in TopPaths
       /\ p \notin TopPaths => q \notin TopPaths
  BY <1>3, PathFacts
<1>12. \A r \in Paths : Front(r) = q => Append(p, Last(r)) \in Paths \ TopPaths
                                        /\ Front(Append(p, Last(r))) = p
  <2>1. ASSUME NEW r \in Paths, Front(r) = q
        PROVE  Append(p, Last(r)) \in Paths \ TopPaths /\ Front(Append(p, Last(r))) = p
    <3>1. r \notin TopPaths /\ q \in TopPaths /\ p \in TopPaths
      BY <1>3, <1>11, <2>1, PathFacts
    <3>2. PICK n \in Top, l \in Leaf : r = <<n, l>>
      BY <3>1 DEF Paths
    <3>3. PICK m \in Top : p = <<m>>
      BY <3>1 DEF TopPaths
    <3>4. Append(p, Last(r)) = <<m, l>>
      BY <3>2, <3>3, LeafFacts
    <3>5. <<m, l>> \in Paths /\ <<m, l>> \notin TopPaths /\ Front(<<m, l>>) = p
      BY <3>3, LeafFacts DEF Paths
    <3>6. QED
      BY <3>4, <3>5
  <2>2. QED
    BY <2>1
<1>13. /\ disk'[q] = disk[p]
       /\ \A x \in Paths : x # q /\ Front(x) # q /\ Within(p, x) => disk'[x] = "none"
       /\ \A x \in Paths : x # q /\ Front(x) # q /\ ~Within(p, x) => disk'[x] = disk[x]
       /\ \A x \in Paths : x # q /\ Front(x) = q => disk'[x] = disk[Append(p, Last(x))]
  BY <1>1, <1>3
<1>14. disk' \in [Paths -> {"none"} \cup Kinds]
  <2>1. \A x \in Paths : disk[x] \in {"none"} \cup Kinds
    BY <1>2 DEF Disks
  <2>2. \A x \in Paths : disk'[x] \in {"none"} \cup Kinds
    BY <1>3, <1>12, <1>13, <2>1
  <2>3. QED
    BY <1>1, <2>2
<1>15. disk' \in Disks
  <2>1. ASSUME NEW x \in Paths \ TopPaths, disk'[x] # "none"
        PROVE  disk'[x] = "file" /\ disk'[Front(x)] = "folder"
    <3>1. Front(x) \in Paths /\ Front(x) \in TopPaths /\ x \in Dirs /\ Front(Front(x)) = Root
          /\ Root \notin Paths /\ Front(x) # x
      BY PathFacts DEF Dirs
    <3>2. \A y \in Paths \ TopPaths : disk[y] = "none" \/ (disk[y] = "file" /\ disk[Front(y)] = "folder")
      BY <1>2 DEF Disks
    <3>3. CASE x = q
      <4>1. p \notin TopPaths
        BY <1>11, <3>3
      <4>2. disk[p] = "file" /\ disk[Front(p)] = "folder"
        BY <1>1, <3>2, <4>1
      <4>3. Front(x) = Front(p) /\ Front(x) # q /\ Front(Front(x)) # q
        BY <1>3, <3>1, <3>3
      <4>4. ~Within(p, Front(x))
        BY <3>1, <4>1, <4>3, PathFacts DEF Within
      <4>5. QED
        BY <1>13, <3>1, <3>3, <4>2, <4>3, <4>4
    <3>4. CASE x # q /\ Front(x) = q
      <4>1. disk'[x] = disk[Append(p, Last(x))]
        BY <1>13, <3>4
      <4>2. disk[Append(p, Last(x))] = "file" /\ disk[p] = "folder"
        BY <1>12, <2>1, <3>2, <3>4, <4>1
      <4>3. QED
        BY <1>13, <3>4, <4>1, <4>2
    <3>5. CASE x # q /\ Front(x) # q
      <4>1. disk'[x] = disk[x] /\ ~Within(p, x)
        BY <1>13, <2>1, <3>5
      <4>2. disk[x] = "file" /\ disk[Front(x)] = "folder"
        BY <2>1, <3>2, <4>1
      <4>3. ~Within(p, Front(x)) /\ Front(Front(x)) # q
        BY <1>3, <3>1, <4>1, WithinFacts
      <4>4. QED
        BY <1>13, <3>1, <3>5, <4>1, <4>2, <4>3
    <3>6. QED
      BY <3>3, <3>4, <3>5
  <2>2. QED
    BY <1>14, <2>1 DEF Disks
<1>16. q \notin watched
  <2>1. ~IsFolder(q)
    BY <1>1, <1>2, <1>3, DiskFacts
  <2>2. QED
    BY <1>2, <2>1 DEF WatchedFolders
<1>17. WatchedFolders' /\ watched' \subseteq Dirs
  <2>1. ASSUME NEW w \in watched' \cap Paths, disk[w] = "folder" PROVE disk'[w] = "folder"
    <3>1. w # p /\ w \in TopPaths /\ w # q
      BY <1>1, <1>2, <2>1, DiskFacts
    <3>2. ~Within(p, w) /\ Front(w) # q
      BY <1>3, <3>1, PathFacts DEF Within
    <3>3. QED
      BY <1>13, <2>1, <3>1, <3>2
  <2>2. QED
    BY <1>1, <2>1, FoldersStay
<1>18. ASSUME NEW x \in Paths, Front(x) \in watched'
       PROVE  /\ x \in {q} => Appears(x, own)
              /\ x \in {p} => Vanishes(x, own)
              /\ x \notin {q} \cup {p} => Still(x)
  <2>1. Front(x) \in watched /\ Front(x) # p /\ Front(x) # q
    BY <1>1, <1>16, <1>18
  <2>2. CASE x = q
    <3>1. Reported(q, f) /\ f.kind \in Created
      BY <1>3, <1>4, <1>10, <2>1, <2>2 DEF Created
    <3>2. QED
      BY <1>1, <1>3, <1>4, <1>13, <2>2, <3>1 DEF Appears
  <2>3. CASE x = p
    <3>1. Reported(p, e)
      BY <1>10, <2>1, <2>3
    <3>2. disk'[p] = "none"
      BY <1>3, <1>13, <2>1, <2>3, WithinFacts
    <3>3. QED
      BY <1>1, <1>3, <1>4, <2>3, <3>1, <3>2 DEF Vanishes
  <2>4. CASE x # p /\ x # q
    <3>1. ~Within(p, x)
      BY <2>1, <2>4, PathFacts DEF Within
    <3>2. Quiet(x)
      BY <1>8, <1>9, <2>1, <2>4
    <3>3. QED
      BY <1>13, <2>1, <2>4, <3>1, <3>2 DEF Still
  <2>5. QED
    BY <2>2, <2>3, <2>4
<1>19. DiskOK'
  BY <1>8, <1>15, <1>17 DEF DiskOK
<1>20. watched' \subseteq watched /\ (Root \in watched => Root \in watched')
  BY <1>1, PathFacts
<1>21. QED
  BY <1>8, <1>18, <1>19, <1>20 DEF DiskStep

-----------------------------------------------------------------------------
(* The invariant, in the words it is put in: the objects that show a path,  *)
(* whether there is but one, whether a folder's directory was read, and     *)
(* that no event tells of its removal.                                      *)
Exc(p)     == Excused(Reasons, p)
Present(p) == IF disk[p] = "none" THEN 0 ELSE 1
IdsAt(p)   == {o.id : o \in HasPath(p)}
Single(p)  == \A i, j \in IdsAt(p) : i = j
ReadAt(P)  == \E o \in HasPath(P) : o.id \in listed
Calm(P)    == Removals(batch, P) = {} /\ Removals(events, P) = {}

(* Of a path in a watched folder: the events that are left end with what is *)
(* on disk; a file of a folder that was read is shown, unless an event of   *)
(* another program is still to come; and it is shown once, with one more    *)
(* for each removal not yet handled.  Calm: a folder that was removed and   *)
(* came back is still shown twice, and so are the files in it.              *)
Latest(p) == Ends(events, p) /\ (About(events, p) = {} => Ends(batch, p))
Lower(p)  == /\ ReadAt(Front(p)) /\ disk[p] # "none"
             /\ About(batch, p) = {} /\ Foreign(events, p) = {}
             => HasPath(p) # {}
Upper(p)  == Calm(Front(p)) =>
               Cardinality(IdsAt(p)) <= Cardinality(Removals(batch, p))
                                          + Cardinality(Removals(events, p)) + Present(p)

(* Outside the drive's watch no event comes, and nothing is shown twice.    *)
(* Placed: an object lies under the folder of its path and is no tombstone. *)
(* Order: while a drain is handled the shell itself does nothing else.      *)
Followed  == \A p \in Paths : Front(p) \in watched =>
                Exc(p) \/ (Latest(p) /\ Lower(p) /\ Upper(p))
Unwatched == Root \notin watched => \A p \in TopPaths :
                /\ About(events, p) = {} /\ About(batch, p) = {}
                /\ Exc(p) \/ Single(p)
Placed    == \A o \in Objects :
                \/ o.path = Root \/ Exc(o.path)
                \/ ~o.destroyed /\ Lies(o.parent, o.path)
RootOne   == Single(Root) /\ \A o \in HasPath(Root) : o.parent = NoId
AskedOK   == asked.op \in {"rename", "delete"} =>
                \A o \in Objects : o.id = asked.id => o.path # Root
Order     == batch # <<>> => reading = NoId /\ \A k \in DOMAIN events : ~events[k].own

LEMMA QuietFacts ==
  ASSUME NEW x, Quiet(x)
  PROVE  /\ About(events', x) = About(events, x)
         /\ Removals(events', x) = Removals(events, x)
         /\ Foreign(events', x) = Foreign(events, x)
         /\ disk'[x] = disk[x] /\ Ends(events, x) => Ends(events, x)'
<1>1. /\ About(events', x) = About(events, x)
      /\ \A k \in About(events, x) : events'[k] = events[k]
  BY DEF Quiet
<1>2. Removals(events', x) = Removals(events, x) /\ Foreign(events', x) = Foreign(events, x)
  BY <1>1 DEF Removals, Foreign
<1>3. disk'[x] = disk[x] /\ Ends(events, x) => Ends(events, x)'
  BY <1>1 DEF Ends
<1>4. QED
  BY <1>1, <1>2, <1>3

LEMMA ReportedFacts ==
  ASSUME events \in Seq(Events), events' \in Seq(Events), NEW x, NEW e \in Events, Reported(x, e)
  PROVE  /\ About(events', x) # {}
         /\ (e.kind = "Removed" <=> disk'[x] = "none") => Ends(events, x)'
         /\ ~e.own => Foreign(events', x) # {}
         /\ e.own \/ e.kind # "Removed" => Removals(events', x) = Removals(events, x)
         /\ ~e.own /\ e.kind = "Removed" =>
              Cardinality(Removals(events', x)) = Cardinality(Removals(events, x)) + 1
         /\ Removals(events, x) \subseteq Removals(events', x)
<1>1. PICK n \in Nat : /\ About(events', x) = About(events, x) \cup {n} /\ events'[n] = e
                       /\ \A k \in DOMAIN events : k < n
                       /\ \A k \in About(events, x) : events'[k] = events[k]
  BY DEF Reported
<1>2. n \notin About(events, x) /\ About(events, x) \subseteq DOMAIN events
  BY <1>1 DEF About
<1>3. About(events', x) # {}
  BY <1>1
<1>4. ASSUME e.kind = "Removed" <=> disk'[x] = "none" PROVE Ends(events, x)'
  <2>1. ASSUME NEW k \in About(events', x), \A j \in About(events', x) : j <= k PROVE k = n
    <3>1. CASE k \in About(events, x)
      <4>1. k < n /\ n <= k /\ k \in Nat
        BY <1>1, <1>2, <2>1, <3>1, EventsFacts
      <4>2. QED
        BY <4>1
    <3>2. QED
      BY <1>1, <2>1, <3>1
  <2>2. QED
    BY <1>1, <1>4, <2>1 DEF Ends
<1>5. Foreign(events', x) = Foreign(events, x) \cup (IF e.own THEN {} ELSE {n})
  BY <1>1, <1>2 DEF Foreign
<1>6. Removals(events', x) = Removals(events, x)
                                \cup (IF e.kind = "Removed" /\ ~e.own THEN {n} ELSE {})
  BY <1>1, <1>2 DEF Removals
<1>7. ~e.own => Foreign(events', x) # {}
  BY <1>5
<1>8. e.own \/ e.kind # "Removed" => Removals(events', x) = Removals(events, x)
  BY <1>6
<1>9. ASSUME ~e.own /\ e.kind = "Removed"
      PROVE  Cardinality(Removals(events', x)) = Cardinality(Removals(events, x)) + 1
  <2>1. IsFiniteSet(Removals(events, x)) /\ n \notin Removals(events, x)
    BY <1>2, CountedFacts DEF Removals
  <2>2. Removals(events', x) = Removals(events, x) \cup {n}
    BY <1>6, <1>9
  <2>3. QED
    BY <2>1, <2>2, FS_AddElement
<1>10. Removals(events, x) \subseteq Removals(events', x)
  BY <1>6
<1>11. QED
  BY <1>3, <1>4, <1>7, <1>8, <1>9, <1>10

LEMMA CalmBefore ==
  ASSUME DiskOK, NEW come, NEW go, NEW own, DiskStep(come, go, own), batch' = batch, NEW p,
         Calm(p)'
  PROVE  Calm(p)
<1>1. events \in Seq(Events) /\ events' \in Seq(Events)
  BY DEF DiskOK, DiskStep
<1>2. Quiet(p) \/ \E e \in Events : e.own = own /\ Reported(p, e)
  BY DEF DiskStep
<1>3. Removals(events, p) \subseteq Removals(events', p)
  <2>1. ASSUME Quiet(p) PROVE Removals(events, p) \subseteq Removals(events', p)
    BY <2>1, QuietFacts
  <2>2. ASSUME NEW e \in Events, Reported(p, e) PROVE Removals(events, p) \subseteq Removals(events', p)
    BY <1>1, <2>2, ReportedFacts
  <2>3. QED
    BY <1>2, <2>1, <2>2
<1>4. QED
  BY <1>3 DEF Calm

Here(objs, p) == {o.id : o \in {x \in ToSet(objs) : x.path = p}}

LEMMA HereFacts ==
  ASSUME NEW objs, Tree(objs), NEW p
  PROVE  /\ Here(objs, p) \subseteq Ids /\ IsFiniteSet(Here(objs, p))
         /\ Cardinality(Here(objs, p)) \in Nat
         /\ Here(objs, p) \subseteq IdsOf(objs)
         /\ \A o \in ToSet(objs) : o.path = p <=> o.id \in Here(objs, p)
<1>1. /\ \A o \in ToSet(objs) : o.id \in Ids
      /\ \A x, y \in ToSet(objs) : x.id = y.id => x = y
  BY EntryFacts, UniqueFacts DEF Tree
<1>2. Here(objs, p) \subseteq Ids /\ Here(objs, p) \subseteq IdsOf(objs)
  BY <1>1 DEF Here, IdsOf
<1>3. IsFiniteSet(Ids)
  BY MaxObjectsAssumption, FS_Interval DEF Ids
<1>4. IsFiniteSet(Here(objs, p)) /\ Cardinality(Here(objs, p)) \in Nat
  BY <1>2, <1>3, FS_Subset, FS_CardinalityType
<1>5. \A o \in ToSet(objs) : o.path = p <=> o.id \in Here(objs, p)
  BY <1>1 DEF Here
<1>6. QED
  BY <1>2, <1>4, <1>5

LEMMA IdsAtIs ==
  /\ \A p : IdsAt(p) = Here(mounted, p) /\ IdsAt(p)' = Here(mounted', p)
  /\ \A p : HasPath(p) # {} <=> IdsAt(p) # {}
  /\ \A p : HasPath(p)' # {} <=> IdsAt(p)' # {}
BY DEF IdsAt, Here, HasPath, Objects

(* What the tree must do when the disk changes at a path.                   *)
Follows(x, come, go, own) ==
  /\ ReadAt(Front(x))' => ReadAt(Front(x))
  /\ IF ~own THEN IdsAt(x)' = IdsAt(x)
     ELSE IF x \in come THEN /\ IdsAt(x)' # {}
                             /\ \E i : IdsAt(x)' \subseteq IdsAt(x) \cup {i}
     ELSE IF x \in go THEN IdsAt(x)' = {} \/ \E i \in IdsAt(x) : IdsAt(x)' \subseteq IdsAt(x) \ {i}
     ELSE /\ IdsAt(x)' \subseteq IdsAt(x)
          /\ ReadAt(Front(x))' /\ IdsAt(x) # {} => IdsAt(x)' # {}

LEMMA FollowedStep ==
  ASSUME DiskOK, Tree(mounted), Tree(mounted)', batch \in Seq(Events), batch' = batch,
         drift \subseteq drift', Followed, NEW come, NEW go, NEW own \in BOOLEAN,
         DiskStep(come, go, own), come \cap go = {},
         \A x \in Paths : Front(x) \in watched' /\ ~Exc(x)' => Follows(x, come, go, own)
  PROVE  Followed'
<1>1. SUFFICES ASSUME NEW x \in Paths, Front(x) \in watched', ~Exc(x)'
               PROVE  (Latest(x) /\ Lower(x) /\ Upper(x))'
  BY DEF Followed
<1>2. events \in Seq(Events) /\ events' \in Seq(Events)
  BY DEF DiskOK, DiskStep
<1>3. ~Exc(x) /\ Front(x) \in watched
  BY <1>1 DEF Exc, Excused, DiskStep
<1>4. Latest(x) /\ Lower(x) /\ Upper(x)
  BY <1>1, <1>3 DEF Followed
<1>5. Follows(x, come, go, own)
  BY <1>1
<1> DEFINE n  == Cardinality(IdsAt(x))
           n1 == Cardinality(IdsAt(x)')
           b  == Cardinality(Removals(batch, x))
           r  == Cardinality(Removals(events, x))
           r1 == Cardinality(Removals(events', x))
<1>6. /\ n \in Nat /\ n1 \in Nat /\ b \in Nat /\ r \in Nat /\ r1 \in Nat
      /\ IsFiniteSet(IdsAt(x)) /\ IsFiniteSet(IdsAt(x)')
  <2>1. n \in Nat /\ IsFiniteSet(IdsAt(x))
    BY HereFacts, IdsAtIs
  <2>2. n1 \in Nat /\ IsFiniteSet(IdsAt(x)')
    <3>1. Tree(mounted')
      OBVIOUS
    <3>2. QED
      BY <3>1, HereFacts, IdsAtIs
  <2>3. b \in Nat /\ r \in Nat /\ r1 \in Nat
    BY <1>2, CountedFacts
  <2>4. QED
    BY <2>1, <2>2, <2>3
<1>7. ASSUME Calm(Front(x))' PROVE n <= b + r + Present(x)
  BY <1>4, <1>7, CalmBefore DEF Upper
<1>8. SUFFICES /\ Ends(events, x)'
               /\ About(events', x) = {} => Ends(batch, x)'
               /\ Lower(x)'
               /\ Calm(Front(x))' => n1 <= b + r1 + Present(x)'
  BY DEF Latest, Upper
<1>9. HasPath(x)' # {} <=> IdsAt(x)' # {}
  BY IdsAtIs
<1>10. HasPath(x) # {} <=> IdsAt(x) # {}
  BY IdsAtIs
<1>11. CASE x \notin come \cup go
  <2>1. disk'[x] = disk[x] /\ Quiet(x)
    BY <1>1, <1>11 DEF DiskStep, Still
  <2>2. /\ About(events', x) = About(events, x) /\ Removals(events', x) = Removals(events, x)
        /\ Foreign(events', x) = Foreign(events, x) /\ Ends(events, x)'
    BY <1>4, <2>1, QuietFacts DEF Latest
  <2>3. About(events', x) = {} => Ends(batch, x)'
    BY <1>4, <2>1, <2>2 DEF Latest, Ends
  <2>4. /\ IdsAt(x)' \subseteq IdsAt(x) /\ (ReadAt(Front(x))' => ReadAt(Front(x)))
        /\ ReadAt(Front(x))' /\ IdsAt(x) # {} => IdsAt(x)' # {}
    BY <1>5, <1>11 DEF Follows
  <2>5. Lower(x)'
    BY <1>4, <1>9, <1>10, <2>1, <2>2, <2>4 DEF Lower
  <2>6. n1 <= n /\ r1 = r /\ Present(x)' = Present(x)
    BY <1>6, <2>1, <2>2, <2>4, FS_Subset DEF Present
  <2>7. ASSUME Calm(Front(x))' PROVE n1 <= b + r1 + Present(x)'
    <3>1. n <= b + r + Present(x) /\ Present(x) \in Nat
      BY <1>7, <2>7 DEF Present
    <3>2. QED
      BY <1>6, <2>6, <3>1
  <2>8. QED
    BY <2>2, <2>3, <2>5, <2>7
<1>12. CASE x \in come
  <2>1. PICK e \in Events : /\ e.kind \in Created /\ e.own = own /\ Reported(x, e)
                            /\ disk[x] = "none" /\ disk'[x] # "none"
    BY <1>1, <1>12 DEF DiskStep, Appears
  <2>2. e.kind # "Removed"
    BY <2>1 DEF Created
  <2>3. /\ About(events', x) # {} /\ Ends(events, x)' /\ Removals(events', x) = Removals(events, x)
        /\ ~own => Foreign(events', x) # {}
    BY <1>2, <2>1, <2>2, ReportedFacts
  <2>4. Lower(x)'
    <3>1. own => IdsAt(x)' # {}
      BY <1>5, <1>12 DEF Follows
    <3>2. QED
      BY <1>9, <2>3, <3>1 DEF Lower
  <2>5. n1 <= n + 1
    <3>1. \E i : IdsAt(x)' \subseteq IdsAt(x) \cup {i}
      BY <1>5, <1>12 DEF Follows
    <3>2. PICK i : IdsAt(x)' \subseteq IdsAt(x) \cup {i}
      BY <3>1
    <3>3. IsFiniteSet(IdsAt(x) \cup {i}) /\ Cardinality(IdsAt(x) \cup {i}) <= n + 1
      <4>1. /\ IsFiniteSet(IdsAt(x) \cup {i})
            /\ Cardinality(IdsAt(x) \cup {i}) = IF i \in IdsAt(x) THEN n ELSE n + 1
        BY <1>6, FS_AddElement
      <4> HIDE DEF n
      <4>2. n <= n + 1
        BY <1>6
      <4>3. QED
        BY <1>6, <4>1, <4>2
    <3>4. n1 <= Cardinality(IdsAt(x) \cup {i}) /\ Cardinality(IdsAt(x) \cup {i}) \in Nat
      BY <3>2, <3>3, FS_Subset, FS_CardinalityType
    <3>5. QED
      BY <1>6, <3>3, <3>4
  <2>6. Present(x) = 0 /\ Present(x)' = 1
    BY <2>1 DEF Present
  <2>7. ASSUME Calm(Front(x))' PROVE n1 <= b + r1 + Present(x)'
    <3>1. n <= b + r + 0 /\ r1 = r
      BY <1>7, <2>3, <2>6, <2>7
    <3>2. QED
      BY <1>6, <2>5, <2>6, <3>1
  <2>8. QED
    BY <2>3, <2>4, <2>7
<1>13. CASE x \in go
  <2>1. PICK e \in Events : /\ e.kind = "Removed" /\ e.own = own /\ Reported(x, e)
                            /\ disk[x] # "none" /\ disk'[x] = "none"
    BY <1>1, <1>13 DEF DiskStep, Vanishes
  <2>2. /\ About(events', x) # {} /\ Ends(events, x)'
        /\ own => Removals(events', x) = Removals(events, x)
        /\ ~own => r1 = r + 1
    BY <1>2, <2>1, ReportedFacts
  <2>3. Lower(x)'
    BY <2>1 DEF Lower
  <2>4. Present(x) = 1 /\ Present(x)' = 0
    BY <2>1 DEF Present
  <2>5. ASSUME Calm(Front(x))' PROVE n1 <= b + r1 + Present(x)'
    <3>1. n <= b + r + 1
      BY <1>7, <2>4, <2>5
    <3>2. CASE ~own
      <4>1. IdsAt(x)' = IdsAt(x)
        BY <1>5, <3>2 DEF Follows
      <4>2. QED
        BY <1>6, <2>2, <2>4, <3>1, <3>2, <4>1
    <3>3. CASE own
      <4>1. x \notin come
        BY <1>13
      <4>2. r1 = r
        BY <2>2, <3>3
      <4>3. IdsAt(x)' = {} \/ \E i \in IdsAt(x) : IdsAt(x)' \subseteq IdsAt(x) \ {i}
        BY <1>5, <1>13, <3>3, <4>1 DEF Follows
      <4>4. CASE IdsAt(x)' = {}
        <5>1. n1 = 0
          BY <4>4, FS_EmptySet
        <5>2. QED
          BY <1>6, <2>4, <5>1
      <4>5. ASSUME NEW i \in IdsAt(x), IdsAt(x)' \subseteq IdsAt(x) \ {i}
            PROVE  n1 <= b + r1 + Present(x)'
        <5>1. IsFiniteSet(IdsAt(x) \ {i}) /\ Cardinality(IdsAt(x) \ {i}) = n - 1
          BY <1>6, FS_RemoveElement
        <5>2. n1 <= n - 1
          BY <4>5, <5>1, FS_Subset
        <5>3. QED
          BY <1>6, <2>4, <3>1, <4>2, <5>2
      <4>6. QED
        BY <4>3, <4>4, <4>5
    <3>4. QED
      BY <3>2, <3>3
  <2>6. QED
    BY <2>2, <2>3, <2>5
<1>14. QED
  BY <1>11, <1>12, <1>13

(* The inductive invariant of ShellTree.                                    *)
TreeInv == /\ TreeAgrees /\ WatchedFolders /\ Order /\ RootOne /\ AskedOK
           /\ Placed /\ Unwatched /\ Followed

LEMMA TreeInvFacts ==
  ASSUME TreeInv
  PROVE  /\ Tree(mounted) /\ DiskOK /\ batch \in Seq(Events) /\ events \in Seq(Events)
         /\ MountedIds = IdsOf(mounted) /\ listed \subseteq MountedIds
         /\ visited \subseteq MountedIds
<1>1. TreeTypeOK /\ \A o \in Objects : o.children = {c.id : c \in {x \in Objects : x.parent = o.id}}
  BY DEF TreeInv, TreeAgrees
<1>2. Tree(mounted)
  BY <1>1 DEF TreeTypeOK, Tree, Unique, Linked, Objects
<1>3. DiskOK
  BY <1>1 DEF TreeInv, DiskOK, TreeTypeOK, Dirs
<1>4. MountedIds = IdsOf(mounted)
  BY DEF MountedIds, IdsOf, Objects
<1>5. QED
  BY <1>1, <1>2, <1>3, <1>4 DEF TreeTypeOK

LEMMA HereStep ==
  ASSUME NEW a, NEW b, NEW gone, NEW new, TreeStep(a, b, gone, new), NEW p
  PROVE  Here(b, p) = (Here(a, p) \ gone) \cup {y.id : y \in {z \in new : z.path = p}}
<1> DEFINE N == {y.id : y \in {z \in new : z.path = p}}
<1>1. ASSUME NEW i \in Here(b, p) PROVE i \in (Here(a, p) \ gone) \cup N
  <2>1. PICK y \in ToSet(b) : y.path = p /\ y.id = i
    BY DEF Here
  <2>2. CASE y \in new
    BY <2>1, <2>2
  <2>3. ASSUME NEW x \in ToSet(a), x.id \notin gone, Same(x, y) PROVE i \in Here(a, p) \ gone
    BY <2>1, <2>3 DEF Here, Same
  <2>4. QED
    BY <2>2, <2>3 DEF TreeStep
<1>2. ASSUME NEW i \in Here(a, p), i \notin gone PROVE i \in Here(b, p)
  <2>1. PICK x \in ToSet(a) : x.path = p /\ x.id = i
    BY DEF Here
  <2>2. PICK y \in ToSet(b) : Same(x, y)
    BY <1>2, <2>1 DEF TreeStep
  <2>3. QED
    BY <2>1, <2>2 DEF Here, Same
<1>3. ASSUME NEW i \in N PROVE i \in Here(b, p)
  <2>1. PICK y \in new : y.path = p /\ y.id = i
    OBVIOUS
  <2>2. QED
    BY <2>1 DEF Here, TreeStep
<1>4. QED
  BY <1>1, <1>2, <1>3

LEMMA ExcGrows ==
  ASSUME drift \subseteq drift', NEW p, Exc(p)
  PROVE  Exc(p)'
BY DEF Exc, Excused

LEMMA ExcBelow ==
  /\ \A p \in Dirs : Exc(Front(p)) => Exc(p)
  /\ \A p \in Dirs : Exc(Front(p))' => Exc(p)'
BY WithinFacts DEF Exc, Excused

LEMMA LiesStep ==
  ASSUME NEW gone, NEW new, TreeStep(mounted, mounted', gone, new), NEW i, NEW q, Lies(i, q)
  PROVE  i \in gone \/ Lies(i, q)'
<1>1. PICK x \in ToSet(mounted) : x.id = i /\ x.path = Front(q)
  BY DEF Lies, Objects
<1>2. ASSUME i \notin gone PROVE \E y \in ToSet(mounted') : Same(x, y)
  BY <1>1, <1>2 DEF TreeStep
<1>3. QED
  BY <1>1, <1>2 DEF Same, Lies, Objects

LEMMA PlacedStep ==
  ASSUME Placed, NEW gone, NEW new, TreeStep(mounted, mounted', gone, new), drift \subseteq drift',
         \A y \in new : \/ y.path = Root \/ Exc(y.path)'
                        \/ ~y.destroyed /\ Lies(y.parent, y.path)',
         \A x \in Objects : /\ x.id \notin gone /\ x.parent \in gone
                            /\ Lies(x.parent, x.path) /\ x.path # Root
                            => Exc(x.path)' \/ Lies(x.parent, x.path)'
  PROVE  Placed'
<1>1. SUFFICES ASSUME NEW y \in Objects'
               PROVE  \/ y.path = Root \/ Exc(y.path)'
                      \/ ~y.destroyed /\ Lies(y.parent, y.path)'
  BY DEF Placed
<1>2. CASE y \in new
  BY <1>2
<1>3. ASSUME NEW x \in Objects, x.id \notin gone, Same(x, y)
      PROVE  \/ y.path = Root \/ Exc(y.path)'
             \/ ~y.destroyed /\ Lies(y.parent, y.path)'
  <2>1. \/ x.path = Root \/ Exc(x.path)
        \/ ~x.destroyed /\ Lies(x.parent, x.path)
    BY DEF Placed
  <2>2. y.path = x.path /\ y.parent = x.parent /\ y.destroyed = x.destroyed
    BY <1>3 DEF Same
  <2>3. Exc(x.path) => Exc(x.path)'
    BY ExcGrows
  <2>4. Lies(x.parent, x.path) => x.parent \in gone \/ Lies(x.parent, x.path)'
    BY LiesStep
  <2>5. QED
    BY <1>3, <2>1, <2>2, <2>3, <2>4
<1>4. QED
  BY <1>2, <1>3 DEF TreeStep, Objects

LEMMA RootStep ==
  ASSUME RootOne, NEW gone, NEW new, TreeStep(mounted, mounted', gone, new),
         \/ \A y \in new : y.path # Root
         \/ HasPath(Root) = {} /\ \E y : new = {y} /\ y.parent = NoId
  PROVE  RootOne'
<1>1. Single(Root) /\ \A o \in HasPath(Root) : o.parent = NoId
  BY DEF RootOne
<1>2. \A i, j \in Here(mounted, Root) : i = j
  BY <1>1, IdsAtIs DEF Single
<1>3. Here(mounted', Root) = (Here(mounted, Root) \ gone) \cup {y.id : y \in {z \in new : z.path = Root}}
  BY HereStep
<1>4. \A i, j \in Here(mounted', Root) : i = j
  <2>1. CASE \A y \in new : y.path # Root
    BY <1>2, <1>3, <2>1
  <2>2. CASE HasPath(Root) = {} /\ \E y : new = {y}
    <3>1. Here(mounted, Root) = {}
      BY <2>2 DEF Here, HasPath, Objects
    <3>2. QED
      BY <1>3, <2>2, <3>1
  <2>3. QED
    BY <2>1, <2>2
<1>5. ASSUME NEW o \in HasPath(Root)' PROVE o.parent = NoId
  <2>1. o \in ToSet(mounted') /\ o.path = Root
    BY <1>5 DEF HasPath, Objects
  <2>2. CASE o \in new
    BY <2>1, <2>2
  <2>3. ASSUME NEW x \in ToSet(mounted), Same(x, o) PROVE o.parent = NoId
    BY <1>1, <2>1, <2>3 DEF Same, HasPath, Objects
  <2>4. QED
    BY <2>1, <2>2, <2>3 DEF TreeStep
<1>6. QED
  BY <1>4, <1>5, IdsAtIs DEF RootOne, Single

LEMMA AskedStep ==
  ASSUME AskedOK, NEW gone, NEW new, TreeStep(mounted, mounted', gone, new),
         asked' = asked \/ asked' = NoRequest,
         \A y \in new : asked.op \in {"rename", "delete"} /\ y.id = asked.id => y.path # Root
  PROVE  AskedOK'
<1>1. CASE asked' = NoRequest
  BY <1>1 DEF AskedOK, NoRequest
<1>2. CASE asked' = asked
  <2>1. SUFFICES ASSUME asked.op \in {"rename", "delete"}, NEW y \in ToSet(mounted'), y.id = asked.id
                 PROVE  y.path # Root
    BY <1>2 DEF AskedOK, Objects
  <2>2. CASE y \in new
    BY <2>1, <2>2
  <2>3. ASSUME NEW x \in ToSet(mounted), Same(x, y) PROVE y.path # Root
    BY <2>1, <2>3 DEF AskedOK, Objects, Same
  <2>4. QED
    BY <2>2, <2>3 DEF TreeStep
<1>3. QED
  BY <1>1, <1>2

LEMMA ReadStep ==
  ASSUME NEW gone, NEW new, TreeStep(mounted, mounted', gone, new), listed' \subseteq listed,
         NEW P, ReadAt(P)'
  PROVE  ReadAt(P) \/ \E y \in new : y.path = P /\ y.id \in listed'
<1>1. PICK y \in ToSet(mounted') : y.path = P /\ y.id \in listed'
  BY DEF ReadAt, HasPath, Objects
<1>2. ASSUME NEW x \in ToSet(mounted), Same(x, y) PROVE ReadAt(P)
  BY <1>1, <1>2 DEF ReadAt, HasPath, Objects, Same
<1>3. QED
  BY <1>1, <1>2 DEF TreeStep

LEMMA StillTree ==
  ASSUME mounted' = mounted
  PROVE  TreeStep(mounted, mounted', {}, {})
BY UnchangedStep

LEMMA NoDiskStep ==
  ASSUME DiskOK, NEW own, UNCHANGED fs
  PROVE  DiskStep({}, {}, own)
<1>1. disk' = disk /\ events' = events /\ watched' = watched
  BY DEF fs
<1>2. \A x : Quiet(x)
  BY <1>1 DEF Quiet
<1>3. DiskOK'
  BY <1>1 DEF DiskOK, WatchedFolders, IsFolder
<1>4. QED
  BY <1>1, <1>2, <1>3 DEF DiskStep, Still

LEMMA UnwatchedStep ==
  ASSUME DiskOK, Unwatched, drift \subseteq drift', batch' = batch,
         NEW come, NEW go, NEW own, DiskStep(come, go, own),
         \A x \in TopPaths : Root \notin watched /\ ~Exc(x)' /\ Single(x) => Single(x)'
  PROVE  Unwatched'
<1>1. SUFFICES ASSUME Root \notin watched', NEW p \in TopPaths
               PROVE  /\ About(events', p) = {} /\ About(batch', p) = {}
                      /\ Exc(p)' \/ Single(p)'
  BY DEF Unwatched
<1>2. Root \notin watched
  BY <1>1 DEF DiskStep
<1>3. About(events, p) = {} /\ About(batch, p) = {} /\ (Exc(p) \/ Single(p))
  BY <1>2 DEF Unwatched
<1>4. Front(p) = Root
  BY PathFacts
<1>5. Quiet(p)
  BY <1>2, <1>4 DEF DiskStep
<1>6. QED
  BY <1>2, <1>3, <1>5, ExcGrows DEF Quiet

(* An operation of the shell itself: what it does on disk, and to the tree. *)
OwnStep(come, go, gone, new) ==
  /\ batch = <<>> /\ UNCHANGED <<batch, reading>>
  /\ DiskStep(come, go, TRUE) /\ come \cap go = {}
  /\ Tree(mounted') /\ TreeStep(mounted, mounted', gone, new)
  /\ listed' = listed \cap IdsOf(mounted') /\ visited' = visited \cap IdsOf(mounted')
  /\ drift \subseteq drift' /\ drift' \subseteq Reasons \X Dirs
  /\ echo' \subseteq Paths /\ ops' \in 0 .. MaxOps /\ changes' \in 0 .. MaxChanges
  /\ reading = NoId /\ (asked' = asked \/ asked' = NoRequest)

(* It takes away the objects gone and puts new in, so that the tree follows *)
(* the disk, or the path is excused.                                        *)
OwnTree(come, go, gone, new) ==
  /\ \A y, z \in new : y = z
  /\ \A y \in new : /\ \/ y.path = Root \/ Exc(y.path)'
                       \/ ~y.destroyed /\ Lies(y.parent, y.path)'
                    /\ asked.op \in {"rename", "delete"} /\ y.id = asked.id => y.path # Root
                    /\ \/ y.id \notin MountedIds \/ y.path \notin watched' \/ Exc(y.path)'
  /\ \A x \in Objects : /\ x.id \notin gone /\ x.parent \in gone
                        /\ Lies(x.parent, x.path) /\ x.path # Root
                        => Exc(x.path)' \/ Lies(x.parent, x.path)'
  /\ \/ \A y \in new : y.path # Root
     \/ HasPath(Root) = {} /\ \E y : new = {y} /\ y.parent = NoId
  /\ \A x \in Paths : Front(x) \in watched' /\ ~Exc(x)' =>
        /\ x \in come => \E y \in new : y.path = x
        /\ x \in go => /\ \A y \in new : y.path # x
                       /\ IdsAt(x) = {} \/ \E i \in IdsAt(x) : i \in gone
        /\ x \notin come \cup go => /\ \A y \in new : y.path # x
                                    /\ IdsAt(x) \cap gone = {} \/ ~ReadAt(Front(x))'
  /\ \A x \in TopPaths : Root \notin watched /\ ~Exc(x)' =>
        IdsAt(x) \ gone = {} \/ \A y \in new : y.path # x

LEMMA OwnOp ==
  ASSUME TreeInv, NEW come, NEW go, NEW gone, NEW new,
         OwnStep(come, go, gone, new), OwnTree(come, go, gone, new)
  PROVE  TreeInv'
<1>1. /\ Tree(mounted) /\ DiskOK /\ batch \in Seq(Events) /\ events \in Seq(Events)
      /\ MountedIds = IdsOf(mounted) /\ listed \subseteq MountedIds
      /\ visited \subseteq MountedIds
  BY TreeInvFacts
<1>2. /\ batch = <<>> /\ batch' = batch /\ reading' = reading /\ reading = NoId
      /\ DiskStep(come, go, TRUE) /\ come \cap go = {}
      /\ Tree(mounted') /\ TreeStep(mounted, mounted', gone, new)
      /\ listed' = listed \cap IdsOf(mounted') /\ visited' = visited \cap IdsOf(mounted')
      /\ drift \subseteq drift' /\ drift' \subseteq Reasons \X Dirs
      /\ echo' \subseteq Paths /\ ops' \in 0 .. MaxOps /\ changes' \in 0 .. MaxChanges
      /\ (asked' = asked \/ asked' = NoRequest)
  BY DEF OwnStep
<1>3. DiskOK' /\ watched' \subseteq watched
  BY <1>2 DEF DiskStep
<1>4. /\ TreeTypeOK /\ Followed /\ Unwatched /\ Placed /\ RootOne /\ AskedOK
  BY DEF TreeInv, TreeAgrees
<1>5. MountedIds' = IdsOf(mounted')
  BY DEF MountedIds, IdsOf, Objects
<1>6. TreeTypeOK'
  <2>1. disk' \in Disks /\ watched' \subseteq Paths \cup {Root} /\ events' \in Seq(Events)
    BY <1>3 DEF DiskOK, Dirs
  <2>2. /\ mounted' \in Seq(Entries)
        /\ \A i, j \in DOMAIN mounted' : mounted'[i].id = mounted'[j].id => i = j
    BY <1>2 DEF Tree, Unique
  <2>3. asked' = NoRequest \/ (asked'.id \in Ids /\ Proper(asked'))
    BY <1>2, <1>4 DEF TreeTypeOK
  <2>4. listed' \cup visited' \subseteq MountedIds'
    BY <1>2, <1>5
  <2>5. batch' \in Seq(Events) /\ reading' \in MountedIds' \cup {NoId}
    BY <1>1, <1>2
  <2>6. drift' \subseteq Reasons \X (Paths \cup {Root})
    BY <1>2 DEF Dirs
  <2>7. QED
    BY <1>2, <2>1, <2>2, <2>3, <2>4, <2>5, <2>6 DEF TreeTypeOK, Proper
<1>7. TreeAgrees'
  BY <1>2, <1>6 DEF TreeAgrees, Tree, Linked, Objects
<1>8. WatchedFolders' /\ Order'
  BY <1>2, <1>3 DEF DiskOK, Order
<1>9. Placed'
  BY <1>2, <1>4, PlacedStep DEF OwnTree
<1>10. RootOne'
  BY <1>2, <1>4, RootStep DEF OwnTree
<1>11. AskedOK'
  BY <1>2, <1>4, AskedStep DEF OwnTree
<1> DEFINE N(x) == {y.id : y \in {z \in new : z.path = x}}
<1>12. \A x : IdsAt(x)' = (IdsAt(x) \ gone) \cup N(x)
  BY <1>2, HereStep, IdsAtIs
<1>13. \A x : (\A y \in new : y.path # x) => N(x) = {}
  OBVIOUS
<1>14. \A x : \A y \in new : y.path = x => N(x) = {y.id}
  BY DEF OwnTree
<1> HIDE DEF N
<1>15. Unwatched'
  <2>1. ASSUME NEW x \in TopPaths, Root \notin watched, ~Exc(x)', Single(x) PROVE Single(x)'
    <3>1. \A i, j \in IdsAt(x) : i = j
      BY <2>1 DEF Single
    <3>2. CASE \A y \in new : y.path # x
      <4>1. IdsAt(x)' \subseteq IdsAt(x)
        BY <1>12, <1>13, <3>2
      <4>2. QED
        BY <3>1, <4>1 DEF Single
    <3>3. ASSUME NEW y \in new, y.path = x PROVE Single(x)'
      <4>1. IdsAt(x) \ gone = {}
        BY <2>1, <3>3 DEF OwnTree
      <4>2. IdsAt(x)' = {y.id}
        BY <1>12, <1>14, <3>3, <4>1
      <4>3. QED
        BY <4>2 DEF Single
    <3>4. QED
      BY <3>2, <3>3
  <2>2. QED
    BY <1>1, <1>2, <1>4, <2>1, UnwatchedStep
<1>16. Followed'
  <2>1. ASSUME NEW x \in Paths, Front(x) \in watched', ~Exc(x)'
        PROVE  Follows(x, come, go, TRUE)
    <3>1. /\ x \in come => \E y \in new : y.path = x
          /\ x \in go => /\ \A y \in new : y.path # x
                         /\ IdsAt(x) = {} \/ \E i \in IdsAt(x) : i \in gone
          /\ x \notin come \cup go => /\ \A y \in new : y.path # x
                                      /\ IdsAt(x) \cap gone = {} \/ ~ReadAt(Front(x))'
      BY <2>1 DEF OwnTree
    <3>2. ReadAt(Front(x))' => ReadAt(Front(x))
      <4>1. SUFFICES ASSUME NEW y \in new, y.path = Front(x), y.id \in listed' PROVE FALSE
        BY <1>2, ReadStep
      <4>2. y.id \in MountedIds
        BY <1>1, <1>2, <4>1
      <4>3. Exc(Front(x))'
        BY <2>1, <4>1, <4>2 DEF OwnTree
      <4>4. QED
        BY <2>1, <4>3, ExcBelow DEF Dirs
    <3>3. CASE x \in come
      <4>1. PICK y \in new : y.path = x
        BY <3>1, <3>3
      <4>2. IdsAt(x)' # {} /\ IdsAt(x)' \subseteq IdsAt(x) \cup {y.id}
        BY <1>12, <1>14, <4>1
      <4>3. QED
        BY <3>2, <3>3, <4>2 DEF Follows
    <3>4. CASE x \in go
      <4>1. IdsAt(x)' = IdsAt(x) \ gone
        BY <1>12, <1>13, <3>1, <3>4
      <4>2. IdsAt(x)' = {} \/ \E i \in IdsAt(x) : IdsAt(x)' \subseteq IdsAt(x) \ {i}
        BY <3>1, <3>4, <4>1
      <4>3. x \notin come
        BY <1>2, <3>4
      <4>4. QED
        BY <3>2, <3>4, <4>2, <4>3 DEF Follows
    <3>5. CASE x \notin come \cup go
      <4>1. IdsAt(x)' = IdsAt(x) \ gone
        BY <1>12, <1>13, <3>1, <3>5
      <4>2. ReadAt(Front(x))' /\ IdsAt(x) # {} => IdsAt(x)' # {}
        BY <3>1, <3>5, <4>1
      <4>3. QED
        BY <3>2, <3>5, <4>1, <4>2 DEF Follows
    <3>6. QED
      BY <3>3, <3>4, <3>5
  <2>2. Tree(mounted)'
    BY <1>2
  <2>3. QED
    BY <1>1, <1>2, <1>4, <2>1, <2>2, FollowedStep
<1>17. QED
  BY <1>7, <1>8, <1>9, <1>10, <1>11, <1>15, <1>16 DEF TreeInv

(* What the operations of the user and the AI leave alone.                 *)
OwnFrame == /\ Idle /\ UNCHANGED <<batch, reading>> /\ echo' \subseteq Paths
            /\ ops' \in 0 .. MaxOps /\ changes' \in 0 .. MaxChanges
            /\ (asked' = asked \/ asked' = NoRequest)

LEMMA OwnStepFacts ==
  ASSUME OwnFrame, NEW come, NEW go, NEW gone, NEW new, DiskStep(come, go, TRUE), come \cap go = {},
         Tree(mounted'), TreeStep(mounted, mounted', gone, new), SetTree(mounted'),
         drift \subseteq drift', drift' \subseteq Reasons \X Dirs
  PROVE  OwnStep(come, go, gone, new)
BY DEF OwnStep, OwnFrame, Idle, SetTree, IdsOf

LEMMA NewFacts ==
  ASSUME NEW id \in Ids, NEW p \in Dirs, NEW kind \in Kinds, NEW parent \in Ids \cup {NoId}
  PROVE  /\ NewObject(id, p, kind, parent) \in Entries
         /\ NewObject(id, p, kind, parent).id = id
         /\ NewObject(id, p, kind, parent).path = p
         /\ NewObject(id, p, kind, parent).parent = parent
         /\ NewObject(id, p, kind, parent).children = {}
         /\ ~NewObject(id, p, kind, parent).destroyed
BY DEF NewObject, Entries, Dirs

LEMMA MountNew ==
  ASSUME Tree(mounted), Free # {}, NEW p \in Dirs, NEW kind \in Kinds,
         NEW parent \in Ids \cup {NoId}, parent \in Held \cup {NoId},
         NEW o, o = NewObject(Fresh(1), p, kind, parent)
  PROVE  /\ Tree(Mount(mounted, o)) /\ TreeStep(mounted, Mount(mounted, o), {}, {o})
         /\ o \in Entries /\ o.id = Fresh(1) /\ o.path = p /\ o.parent = parent
         /\ ~o.destroyed /\ o.id \notin MountedIds /\ o.id # asked.id
<1>1. Fresh(1) \in Free
  BY FreshFacts
<1>2. /\ Fresh(1) \in Ids /\ Fresh(1) \notin MountedIds /\ Fresh(1) # asked.id
      /\ \A x \in Objects : x.parent # Fresh(1)
  BY <1>1, FreshFacts
<1>3. Fresh(1) # NoId /\ Fresh(1) \notin Held
  BY <1>1, <1>2, MaxObjectsAssumption DEF Free, NoId, Ids
<1>4. /\ o \in Entries /\ o.id = Fresh(1) /\ o.path = p /\ o.parent = parent
      /\ ~o.destroyed /\ o.children = {}
  BY <1>2, NewFacts
<1>5. MountedIds = IdsOf(mounted)
  BY ObjectFacts
<1>6. Tree(Mount(mounted, o)) /\ TreeStep(mounted, Mount(mounted, o), {}, {o})
  BY <1>2, <1>3, <1>4, <1>5, MountTree DEF Objects
<1>7. QED
  BY <1>2, <1>4, <1>6

LEMMA DriftTypes ==
  ASSUME Tree(mounted), drift \subseteq Reasons \X Dirs
  PROVE  /\ \A p : Stranded(p) \subseteq Reasons \X Dirs
         /\ \A p \in Dirs : Shadowed(p) \subseteq Reasons \X Dirs
         /\ \A i : \A p \in Dirs : Misplaced(i, p) \subseteq Reasons \X Dirs
<1>1. "stranded" \in Reasons /\ \A o \in Objects : o.path \in Dirs
  BY ObjectFacts DEF Reasons
<1>2. QED
  BY <1>1 DEF Stranded, Shadowed, Misplaced

LEMMA ReasonExcuses ==
  ASSUME NEW why \in Reasons, NEW p, NEW q, <<why, p>> \in drift', Within(p, q)
  PROVE  Exc(q)'
BY DEF Exc, Excused

LEMMA StrandedExcuses ==
  ASSUME NEW p, Stranded(p) \subseteq drift', NEW x \in Objects, Below(p, x.path)
  PROVE  Exc(x.path)'
<1>1. <<"stranded", x.path>> \in drift'
  BY DEF Stranded
<1>2. QED
  BY <1>1, ReasonExcuses, WithinFacts DEF Reasons

LEMMA ShadowedExcuses ==
  ASSUME TreeInv, NEW p \in TopPaths, Root \notin watched, Shadowed(p) \subseteq drift', ~Exc(p)'
  PROVE  IdsAt(p) = {}
<1>1. About(events, p) = {} /\ events \in Seq(Events)
  BY TreeInvFacts DEF TreeInv, Unwatched
<1>2. \A e \in ToSet(events) : e.path # p
  BY <1>1 DEF About, ToSet
<1>3. SUFFICES ASSUME HasPath(p) # {} PROVE FALSE
  BY IdsAtIs
<1>4. <<"stranded", p>> \in drift'
  BY <1>2, <1>3 DEF Shadowed
<1>5. QED
  BY <1>4, ReasonExcuses, WithinFacts DEF Reasons

LEMMA MisplacedExcuses ==
  ASSUME NEW i, NEW p, Misplaced(i, p) \subseteq drift'
  PROVE  Exc(p)' \/ Lies(i, p)
<1>1. SUFFICES ASSUME ~Lies(i, p) PROVE Exc(p)'
  OBVIOUS
<1>2. <<"stranded", p>> \in drift'
  BY <1>1 DEF Misplaced
<1>3. QED
  BY <1>2, ReasonExcuses, WithinFacts DEF Reasons

(* Whoever was under an object that left its place is stranded.             *)
LEMMA OrphansExcused ==
  ASSUME Tree(mounted), NEW o \in Objects, Stranded(o.path) \subseteq drift',
         NEW x \in Objects, x.parent = o.id, Lies(x.parent, x.path), x.path # Root
  PROVE  Exc(x.path)'
<1>1. o.path = Front(x.path)
  BY ObjectFacts DEF Lies
<1>2. x.path \in Paths /\ o.path \in Dirs
  BY ObjectFacts DEF Dirs
<1>3. Below(o.path, x.path)
  BY <1>1, <1>2, PathFacts DEF Below, Within
<1>4. QED
  BY <1>3, StrandedExcuses

LEMMA MountsUnder ==
  ASSUME TreeInv, OwnFrame, Free # {}, NEW p \in Paths, NEW kind \in Kinds, NEW parent \in Ids,
         parent \in Held, CreateOnDisk(p, kind, TRUE),
         SetTree(Mount(mounted, NewObject(Fresh(1), p, kind, parent))),
         drift \subseteq drift', drift' \subseteq Reasons \X Dirs, Shadowed(p) \subseteq drift',
         Exc(p)' \/ Lies(parent, p)
  PROVE  TreeInv'
<1>1. PICK o : o = NewObject(Fresh(1), p, kind, parent)
  OBVIOUS
<1>2. /\ Tree(mounted) /\ DiskOK /\ mounted' = Mount(mounted, o)
  BY <1>1, TreeInvFacts DEF SetTree
<1>3. /\ Tree(Mount(mounted, o)) /\ TreeStep(mounted, Mount(mounted, o), {}, {o})
      /\ o.path = p /\ o.parent = parent /\ ~o.destroyed /\ o.id \notin MountedIds
      /\ o.id # asked.id
  BY <1>1, <1>2, MountNew DEF Dirs
<1>4. DiskStep({p}, {}, TRUE)
  BY <1>2, CreateStep
<1>5. OwnStep({p}, {}, {}, {o})
  BY <1>1, <1>2, <1>3, <1>4, OwnStepFacts
<1>6. OwnTree({p}, {}, {}, {o})
  <2>1. Exc(p)' \/ Lies(parent, p)'
    BY <1>2, <1>3, LiesStep
  <2>2. p # Root
    BY PathFacts
  <2>3. \A x \in TopPaths : Root \notin watched /\ ~Exc(x)' => IdsAt(x) = {} \/ p # x
    BY ShadowedExcuses
  <2>4. QED
    BY <1>3, <2>1, <2>2, <2>3 DEF OwnTree
<1>7. QED
  BY <1>5, <1>6, OwnOp

LEMMA CreatesUnderActive ==
  ASSUME TreeInv, OwnFrame, create_under_active
  PROVE  TreeInv'
<1>1. PICK id \in Active : \E p \in Children(Object(id).path), kind \in Kinds :
         /\ CreateOnDisk(p, kind, TRUE) /\ Free # {}
         /\ SetTree(Mount(mounted, NewObject(Fresh(1), p, kind, id)))
         /\ drift' = drift \cup Shadowed(p)
  BY DEF create_under_active
<1>2. PICK p \in Children(Object(id).path), kind \in Kinds :
         /\ CreateOnDisk(p, kind, TRUE) /\ Free # {}
         /\ SetTree(Mount(mounted, NewObject(Fresh(1), p, kind, id)))
         /\ drift' = drift \cup Shadowed(p)
  BY <1>1
<1>3. Tree(mounted) /\ drift \subseteq Reasons \X Dirs
  BY TreeInvFacts DEF TreeInv, TreeAgrees, TreeTypeOK, Dirs
<1>4. id \in MountedIds /\ p \in Paths /\ Front(p) = Object(id).path
  BY DEF Active, Children
<1>5. id \in Ids /\ id \in Held /\ Lies(id, p)
  BY <1>3, <1>4, ObjectFacts DEF Held, Lies
<1>6. drift' \subseteq Reasons \X Dirs
  BY <1>2, <1>3, <1>4, DriftTypes DEF Dirs
<1>7. QED
  BY <1>2, <1>4, <1>5, <1>6, MountsUnder

LEMMA RenamesSelected ==
  ASSUME TreeInv, OwnFrame, rename_selected
  PROVE  TreeInv'
<1>1. PICK id \in MountedIds : \E q \in Siblings(Object(id).path) :
         /\ Object(id).path # Root
         /\ RenameOnDisk(Object(id).path, q, TRUE)
         /\ Free # {}
         /\ SetTree(Mount(Unmount(mounted, id, Object(id).parent),
                          NewObject(Fresh(1), q, Object(id).kind, Object(id).parent)))
         /\ drift' = drift \cup Stranded(Object(id).path) \cup Shadowed(q)
                          \cup Misplaced(Object(id).parent, q)
  BY DEF rename_selected
<1>2. PICK q \in Siblings(Object(id).path) :
         /\ Object(id).path # Root
         /\ RenameOnDisk(Object(id).path, q, TRUE)
         /\ Free # {}
         /\ SetTree(Mount(Unmount(mounted, id, Object(id).parent),
                          NewObject(Fresh(1), q, Object(id).kind, Object(id).parent)))
         /\ drift' = drift \cup Stranded(Object(id).path) \cup Shadowed(q)
                          \cup Misplaced(Object(id).parent, q)
  BY <1>1
<1>3. Tree(mounted) /\ DiskOK /\ drift \subseteq Reasons \X Dirs
  BY TreeInvFacts DEF TreeInv, TreeAgrees, TreeTypeOK, Dirs
<1>4. PICK o \in Objects : o = Object(id)
  BY <1>3, ObjectFacts
<1>5. PICK n : n = NewObject(Fresh(1), q, o.kind, o.parent)
  OBVIOUS
<1>6. PICK mid : mid = Unmount(mounted, id, o.parent)
  OBVIOUS
<1> DEFINE p == o.path
<1>7. /\ o \in Objects /\ o.id = id /\ p \in Paths /\ o.kind \in Kinds /\ id \in Ids
      /\ o.parent \in Ids \cup {NoId}
  BY <1>2, <1>3, <1>4, ObjectFacts DEF Dirs
<1>8. q \in Paths /\ Front(q) = Front(p) /\ q # p /\ q # Root /\ Front(p) # p
  BY <1>2, <1>7, <1>4, PathFacts DEF Siblings, Children
<1>9. DiskStep({q}, {p}, TRUE)
  BY <1>2, <1>3, <1>7, <1>4, RenameStep
<1>10. o.parent \in Held
  BY <1>7 DEF Held
<1>11. /\ n \in Entries /\ n.id = Fresh(1) /\ n.path = q /\ n.parent = o.parent /\ ~n.destroyed
      /\ n.id \notin MountedIds /\ n.id # asked.id /\ n.children = {} /\ n.id # o.parent
      /\ \A x \in Objects : x.parent # n.id
  <2>1. /\ Fresh(1) \in Ids /\ Fresh(1) \in Free
    BY <1>2, FreshFacts
  <2>2. QED
    BY <1>7, <1>8, <1>5, <2>1, FreshFacts, NewFacts DEF Dirs
<1>12. Tree(mid) /\ TreeStep(mounted, mid, {id}, {}) /\ IdsOf(mid) = IdsOf(mounted) \ {id}
  BY <1>3, <1>7, <1>6, UnmountTree DEF Objects
<1>13. /\ Tree(Mount(mid, n)) /\ TreeStep(mid, Mount(mid, n), {}, {n})
  <2>1. n.id \notin IdsOf(mid)
    BY <1>3, <1>11, <1>12, ObjectFacts
  <2>2. \A x \in ToSet(mid) : x.parent # n.id
    BY <1>11, <1>12 DEF TreeStep, Same, Objects
  <2>3. QED
    BY <1>11, <1>12, <2>1, <2>2, MountTree
<1>14. mounted' = Mount(mid, n) /\ TreeStep(mounted, mounted', {id}, {n}) /\ SetTree(mounted')
  <2>1. mounted' = Mount(mid, n) /\ SetTree(mounted')
    BY <1>2, <1>4, <1>5, <1>6 DEF SetTree
  <2>2. QED
    BY <1>12, <1>13, <2>1, StepsCompose
<1>15. /\ drift \subseteq drift' /\ drift' \subseteq Reasons \X Dirs
       /\ Stranded(p) \subseteq drift' /\ Shadowed(q) \subseteq drift'
       /\ Misplaced(o.parent, q) \subseteq drift'
  <2>1. drift' = drift \cup Stranded(p) \cup Shadowed(q) \cup Misplaced(o.parent, q)
    BY <1>2, <1>4
  <2>2. QED
    BY <1>3, <1>8, <2>1, DriftTypes DEF Dirs
<1>16. OwnStep({q}, {p}, {id}, {n})
  BY <1>8, <1>9, <1>13, <1>14, <1>15, OwnStepFacts
<1>17. OwnTree({q}, {p}, {id}, {n})
  <2>1. Exc(q)' \/ Lies(o.parent, q)'
    <3>1. Lies(o.parent, q) => o.parent # id
      BY <1>3, <1>7, <1>8, ObjectFacts DEF Lies
    <3>2. QED
      BY <1>14, <1>15, <3>1, LiesStep, MisplacedExcuses
  <2>2. ASSUME NEW x \in Objects, x.parent = id, Lies(x.parent, x.path), x.path # Root
        PROVE  Exc(x.path)'
    BY <1>3, <1>7, <1>15, <2>2, OrphansExcused
  <2>3. \A x \in TopPaths : Root \notin watched /\ ~Exc(x)' => IdsAt(x) = {} \/ q # x
    BY <1>15, ShadowedExcuses
  <2>4. id \in IdsAt(p) /\ \A x : id \in IdsAt(x) => x = p
    BY <1>3, <1>7, ObjectFacts DEF IdsAt, HasPath
  <2>5. QED
    BY <1>8, <1>11, <2>1, <2>2, <2>3, <2>4 DEF OwnTree
<1>18. QED
  BY <1>16, <1>17, OwnOp

LEMMA DeletesSelected ==
  ASSUME TreeInv, OwnFrame, handle_delete_selected
  PROVE  TreeInv'
<1>1. PICK id \in MountedIds :
         /\ Object(id).path # Root
         /\ DeleteOnDisk(Object(id).path, TRUE)
         /\ SetTree(Unmount(mounted, id, Object(id).parent))
         /\ drift' = drift \cup Stranded(Object(id).path)
  BY DEF handle_delete_selected
<1>2. Tree(mounted) /\ DiskOK /\ drift \subseteq Reasons \X Dirs
  BY TreeInvFacts DEF TreeInv, TreeAgrees, TreeTypeOK, Dirs
<1>3. PICK o \in Objects : o = Object(id)
  BY <1>2, ObjectFacts
<1> DEFINE p == o.path
<1>4. o \in Objects /\ o.id = id /\ p \in Paths
  BY <1>1, <1>2, <1>3, ObjectFacts DEF Dirs
<1>5. DiskStep({}, {p}, TRUE)
  BY <1>1, <1>2, <1>4, <1>3, DeleteStep
<1>6. /\ mounted' = Unmount(mounted, o.id, o.parent) /\ SetTree(mounted')
      /\ drift' = drift \cup Stranded(p)
  BY <1>1, <1>4, <1>3 DEF SetTree
<1>7. Tree(mounted') /\ TreeStep(mounted, mounted', {id}, {})
  BY <1>2, <1>4, <1>6, UnmountTree DEF Objects
<1>8. drift \subseteq drift' /\ drift' \subseteq Reasons \X Dirs /\ Stranded(p) \subseteq drift'
  BY <1>2, <1>6, DriftTypes
<1>9. OwnStep({}, {p}, {id}, {})
  BY <1>5, <1>6, <1>7, <1>8, OwnStepFacts
<1>10. OwnTree({}, {p}, {id}, {})
  <2>1. ASSUME NEW x \in Objects, x.parent = id, Lies(x.parent, x.path), x.path # Root
        PROVE  Exc(x.path)'
    BY <1>2, <1>4, <1>8, <2>1, OrphansExcused
  <2>2. id \in IdsAt(p) /\ \A x : id \in IdsAt(x) => x = p
    BY <1>2, <1>4, ObjectFacts DEF IdsAt, HasPath
  <2>3. QED
    BY <2>1, <2>2 DEF OwnTree
<1>11. QED
  BY <1>9, <1>10, OwnOp

LEMMA ClosesWindow ==
  ASSUME TreeInv, OwnFrame, handle_close_file_manager
  PROVE  TreeInv'
<1>1. PICK root \in MountedIds :
         /\ Object(root).path = Root
         /\ SetTree(Picked(mounted, {i \in DOMAIN mounted :
                                       mounted[i].id \notin Reach(Reach({root}))}))
         /\ UNCHANGED <<fs, drift>>
  BY DEF handle_close_file_manager
<1>2. /\ Tree(mounted) /\ DiskOK /\ drift \subseteq Reasons \X Dirs /\ Placed /\ RootOne
  BY TreeInvFacts DEF TreeInv, TreeAgrees, TreeTypeOK, Dirs
<1>3. PICK r \in Objects : r = Object(root)
  BY <1>2, ObjectFacts
<1>4. r.id = root /\ r.path = Root /\ r.parent = NoId
  <2>1. r.id = root /\ r.path = Root
    BY <1>1, <1>2, <1>3, ObjectFacts
  <2>2. QED
    BY <1>2, <2>1 DEF RootOne, HasPath
<1>5. \A o \in Objects : /\ o.id # NoId /\ (o.path = Root => o = r)
                         /\ o.children = {c.id : c \in {x \in Objects : x.parent = o.id}}
  <2>1. \A o \in Objects : o.path = Root => o.id = r.id
    BY <1>2, <1>4 DEF RootOne, Single, IdsAt, HasPath
  <2>2. QED
    BY <1>2, <2>1, ObjectFacts DEF TreeInv, TreeAgrees
<1>6. PICK gone : gone = Reach(Reach({root}))
  OBVIOUS
<1>7. \A x, y \in Objects : x.id = y.id => x = y
  BY <1>2, ObjectFacts
<1> DEFINE near == Reach({root})
<1>8. /\ root \in near /\ \A c \in Objects : c.parent = root => c.id \in near
      /\ \A c \in Objects : c.id \in near => c.id = root \/ c.parent = root
  <2>1. near = {root} \cup UNION {o.children : o \in {x \in Objects : x.id \in {root}}}
    BY DEF Reach
  <2>2. {x \in Objects : x.id \in {root}} = {r}
    BY <1>4, <1>7
  <2>3. near = {root} \cup r.children
    BY <2>1, <2>2
  <2>4. r.children = {c.id : c \in {x \in Objects : x.parent = root}}
    BY <1>4, <1>5
  <2> HIDE DEF near
  <2>5. \A c \in Objects : c.parent = root => c.id \in near
    BY <2>3, <2>4
  <2>6. ASSUME NEW c \in Objects, c.id \in near PROVE c.id = root \/ c.parent = root
    <3>1. c.id = root \/ c.id \in r.children
      BY <2>3, <2>6
    <3>2. ASSUME NEW d \in Objects, d.parent = root, d.id = c.id PROVE c.parent = root
      BY <1>7, <3>2
    <3>3. QED
      BY <2>4, <3>1, <3>2
  <2>7. QED
    BY <2>3, <2>5, <2>6
<1>9. /\ near \subseteq gone /\ \A o, c \in Objects : o.id \in near /\ c.parent = o.id => c.id \in gone
      /\ \A c \in Objects : c.id \in gone => c.id \in near \/ \E o \in Objects : o.id \in near /\ c.parent = o.id
  <2>1. gone = near \cup UNION {o.children : o \in {x \in Objects : x.id \in near}}
    BY <1>6 DEF Reach
  <2> HIDE DEF near
  <2>2. ASSUME NEW o \in Objects, NEW c \in Objects, o.id \in near, c.parent = o.id
        PROVE  c.id \in gone
    <3>1. c.id \in o.children
      BY <1>5, <2>2
    <3>2. QED
      BY <2>1, <2>2, <3>1
  <2>3. ASSUME NEW c \in Objects, c.id \in gone, c.id \notin near
        PROVE  \E o \in Objects : o.id \in near /\ c.parent = o.id
    <3>1. PICK o \in Objects : o.id \in near /\ c.id \in o.children
      BY <2>1, <2>3
    <3>2. PICK d \in Objects : d.parent = o.id /\ d.id = c.id
      BY <1>5, <3>1
    <3>3. d = c
      BY <1>7, <3>2
    <3>4. QED
      BY <3>1, <3>2, <3>3
  <2>4. QED
    BY <2>1, <2>2, <2>3
<1> HIDE DEF near
<1>10. \A x, c \in Objects : c.id \in gone /\ c.parent = x.id => x.id \in gone
  <2>1. ASSUME NEW x \in Objects, NEW c \in Objects, c.id \in gone, c.parent = x.id
        PROVE  x.id \in gone
    <3>1. CASE c.id \in near
      <4>1. c.id # root
        BY <1>3, <1>4, <1>5, <1>7, <2>1
      <4>2. x.id = root
        BY <1>8, <2>1, <3>1, <4>1
      <4>3. QED
        BY <1>8, <1>9, <4>2
    <3>2. ASSUME NEW o \in Objects, o.id \in near, c.parent = o.id PROVE x.id \in gone
      BY <1>9, <2>1, <3>2
    <3>3. QED
      BY <1>9, <2>1, <3>1, <3>2
  <2>2. QED
    BY <2>1
<1>11. /\ mounted' = Picked(mounted, {i \in DOMAIN mounted : mounted[i].id \notin gone})
       /\ SetTree(mounted') /\ UNCHANGED <<fs, drift>>
  BY <1>1, <1>6 DEF SetTree
<1>12. Tree(mounted') /\ TreeStep(mounted, mounted', gone, {})
  BY <1>2, <1>10, <1>11, CloseTree DEF Objects
<1>13. DiskStep({}, {}, TRUE)
  BY <1>2, <1>11, NoDiskStep
<1>14. drift \subseteq drift' /\ drift' \subseteq Reasons \X Dirs /\ drift' = drift
  BY <1>2, <1>11
<1>15. OwnStep({}, {}, gone, {})
  BY <1>11, <1>12, <1>13, <1>14, OwnStepFacts
(* What is left is excused: an object in its place hangs below the root.    *)
<1>16. ASSUME NEW x \in Objects, x.path \in TopPaths, ~Exc(x.path) PROVE x.parent = root /\ x.id \in gone
  <2>1. Lies(x.parent, x.path) /\ Front(x.path) = Root
    BY <1>2, <1>16, PathFacts DEF Placed
  <2>2. x.parent = root
    BY <1>3, <1>4, <1>5, <2>1 DEF Lies
  <2>3. QED
    BY <1>8, <1>9, <2>2
<1>17. \A x : Exc(x) => Exc(x)'
  BY <1>14, ExcGrows
<1>18. OwnTree({}, {}, gone, {})
  <2>1. ASSUME NEW x \in Objects, x.id \notin gone, x.parent \in gone,
               Lies(x.parent, x.path), x.path # Root, ~Exc(x.path)
        PROVE  FALSE
    <3>1. PICK o \in Objects : o.id = x.parent /\ o.path = Front(x.path)
      BY <2>1 DEF Lies
    <3>2. x.path \in Paths
      BY <1>2, <2>1, ObjectFacts DEF Dirs
    <3>3. CASE x.path \in TopPaths
      BY <1>16, <2>1, <3>3
    <3>4. CASE x.path \notin TopPaths
      <4>1. o.path \in TopPaths /\ o.path \in Dirs
        BY <3>1, <3>2, <3>4, PathFacts DEF Dirs
      <4>2. ~Exc(o.path)
        BY <2>1, <3>1, <3>2, ExcBelow DEF Dirs
      <4>3. o.parent = root
        BY <1>16, <4>1, <4>2
      <4>4. o.id \in near
        BY <1>8, <4>3
      <4>5. QED
        BY <1>9, <2>1, <3>1, <4>4
    <3>5. QED
      BY <3>3, <3>4
  <2>2. ASSUME NEW x \in Paths, ~Exc(x)', NEW i \in IdsAt(x), i \in gone, ReadAt(Front(x))'
        PROVE  FALSE
    <3>1. PICK y \in ToSet(mounted') : y.path = Front(x)
      BY <2>2 DEF ReadAt, HasPath, Objects
    <3>2. PICK z \in Objects : z.id \notin gone /\ z.path = Front(x)
      BY <1>12, <3>1 DEF TreeStep, Same, Objects
    <3>3. ~Exc(Front(x))
      BY <1>17, <2>2, ExcBelow DEF Dirs
    <3>4. Front(x) # Root
      BY <1>4, <1>5, <1>8, <1>9, <3>2
    <3>5. Front(x) \in TopPaths
      BY <3>4, PathFacts
    <3>6. QED
      BY <1>16, <3>2, <3>3, <3>5
  <2>3. QED
    BY <1>17, <2>1, <2>2 DEF OwnTree
<1>19. QED
  BY <1>15, <1>18, OwnOp

LEMMA OpensWindow ==
  ASSUME TreeInv, OwnFrame, open_file_manager_window
  PROVE  TreeInv'
<1>1. /\ HasPath(Root) = {} /\ Free # {}
      /\ SetTree(Append(mounted, NewObject(Fresh(1), Root, "folder", NoId)))
      /\ UNCHANGED <<fs, drift>>
  BY DEF open_file_manager_window
<1>2. Tree(mounted) /\ DiskOK /\ drift \subseteq Reasons \X Dirs
  BY TreeInvFacts DEF TreeInv, TreeAgrees, TreeTypeOK, Dirs
<1>3. PICK o : o = NewObject(Fresh(1), Root, "folder", NoId)
  OBVIOUS
<1>4. Fresh(1) \in Free /\ Fresh(1) \in Ids
  BY <1>1, FreshFacts
<1>5. /\ o \in Entries /\ o.id = Fresh(1) /\ o.path = Root /\ o.parent = NoId
      /\ o.children = {} /\ o.id \notin MountedIds /\ o.id # asked.id
      /\ \A x \in Objects : x.parent # o.id
  BY <1>3, <1>4, FreshFacts, NewFacts DEF Dirs, Kinds
<1>6. mounted' = Append(mounted, o) /\ SetTree(mounted')
  BY <1>1, <1>3 DEF SetTree
<1>7. Tree(mounted') /\ TreeStep(mounted, mounted', {}, {o})
  BY <1>2, <1>5, <1>6, OpenTree, ObjectFacts DEF Objects
<1>8. DiskStep({}, {}, TRUE)
  BY <1>1, <1>2, NoDiskStep
<1>9. OwnStep({}, {}, {}, {o})
  BY <1>1, <1>2, <1>6, <1>7, <1>8, OwnStepFacts
<1>10. OwnTree({}, {}, {}, {o})
  BY <1>1, <1>5, PathFacts DEF OwnTree
<1>11. QED
  BY <1>9, <1>10, OwnOp

LEMMA SpendFacts ==
  ASSUME TreeInv, Spend
  PROVE  ops' \in 0 .. MaxOps /\ changes' \in 0 .. MaxChanges
<1>1. ops \in 0 .. MaxOps /\ changes \in 0 .. MaxChanges /\ ops < MaxOps /\ ops' = ops + 1
      /\ changes' = changes
  BY DEF TreeInv, TreeAgrees, TreeTypeOK, Spend
<1>2. QED
  BY <1>1, MaxOpsAssumption

LEMMA UserStep ==
  ASSUME TreeInv, User
  PROVE  TreeInv'
<1>1. OwnFrame
  <2>1. Idle /\ Spend /\ UNCHANGED <<batch, echo, reading, asked>>
    BY DEF User
  <2>2. echo \subseteq Paths
    BY DEF TreeInv, TreeAgrees, TreeTypeOK
  <2>3. QED
    BY <2>1, <2>2, SpendFacts DEF OwnFrame
<1>2. \/ create_under_active \/ rename_selected \/ handle_delete_selected
      \/ handle_close_file_manager \/ open_file_manager_window
  BY DEF User
<1>3. QED
  BY <1>1, <1>2, CreatesUnderActive, RenamesSelected, DeletesSelected, ClosesWindow, OpensWindow

(* An attempt that fails, and a dialog that opens or is refused.            *)
LEMMA NothingDone ==
  ASSUME TreeInv, OwnFrame, UNCHANGED <<fs, tree, drift>>
  PROVE  TreeInv'
<1>1. Tree(mounted) /\ DiskOK /\ drift \subseteq Reasons \X Dirs /\ MountedIds = IdsOf(mounted)
      /\ listed \subseteq MountedIds /\ visited \subseteq MountedIds
  BY TreeInvFacts DEF TreeInv, TreeAgrees, TreeTypeOK, Dirs
<1>2. mounted' = mounted /\ listed' = listed /\ visited' = visited /\ drift' = drift
      /\ UNCHANGED fs
  BY DEF tree
<1>3. SetTree(mounted')
  BY <1>1, <1>2 DEF SetTree, IdsOf
<1>4. DiskStep({}, {}, TRUE)
  BY <1>1, <1>2, NoDiskStep
<1>5. TreeStep(mounted, mounted', {}, {})
  BY <1>2, StillTree
<1>6. OwnStep({}, {}, {}, {})
  BY <1>1, <1>2, <1>3, <1>4, <1>5, OwnStepFacts
<1>7. OwnTree({}, {}, {}, {})
  BY DEF OwnTree
<1>8. QED
  BY <1>6, <1>7, OwnOp

LEMMA Creates ==
  ASSUME TreeInv, OwnFrame, NEW r, r.id \in Ids, r.id \in Held, r.to \in Paths, AiCreate(r)
  PROVE  TreeInv'
<1>1. Tree(mounted) /\ drift \subseteq Reasons \X Dirs
  BY TreeInvFacts DEF TreeInv, TreeAgrees, TreeTypeOK, Dirs
<1>2. ASSUME NEW kind \in Kinds, CreateOnDisk(r.to, kind, TRUE), Free # {},
             SetTree(Mount(mounted, NewObject(Fresh(1), r.to, kind, r.id))),
             drift' = drift \cup Shadowed(r.to) \cup Misplaced(r.id, r.to)
      PROVE  TreeInv'
  <2>1. drift' \subseteq Reasons \X Dirs
    BY <1>1, <1>2, DriftTypes DEF Dirs
  <2>2. Exc(r.to)' \/ Lies(r.id, r.to)
    BY <1>2, MisplacedExcuses
  <2>3. drift \subseteq drift' /\ Shadowed(r.to) \subseteq drift'
    BY <1>2
  <2>4. QED
    BY <1>2, <2>1, <2>2, <2>3, MountsUnder
<1>3. QED
  BY <1>2, NothingDone DEF AiCreate

LEMMA WatchedIsThere ==
  ASSUME DiskOK, NEW p \in Paths, disk[p] = "none"
  PROVE  p \notin watched
BY DiskFacts DEF DiskOK, WatchedFolders

(* A change of one mounted object, when what it leaves behind is excused.   *)
LEMMA BelowExcused ==
  ASSUME Tree(mounted), NEW o \in Objects, Exc(o.path)',
         NEW x \in Objects, x.parent = o.id, Lies(x.parent, x.path), x.path # Root
  PROVE  Exc(x.path)'
<1>1. Front(x.path) = o.path /\ x.path \in Dirs
  BY ObjectFacts DEF Lies
<1>2. QED
  BY <1>1, ExcBelow

LEMMA RenameExcuses ==
  ASSUME NEW r, drift' = drift \cup Stranded(r.path) \cup
                {<<"stranded", q>> :
                    q \in IF Current(r) /\ HasPath(r.to) = {} /\ Lies(Object(r.id).parent, r.to)
                          THEN {} ELSE {r.path, r.to} \cup Places(r.id)}
  PROVE  /\ Current(r) /\ HasPath(r.to) = {} /\ Lies(Object(r.id).parent, r.to)
         \/ /\ Exc(r.path)' /\ Exc(r.to)' /\ \A o \in Objects : o.id = r.id => Exc(o.path)'
<1>1. SUFFICES ASSUME ~(Current(r) /\ HasPath(r.to) = {} /\ Lies(Object(r.id).parent, r.to))
               PROVE  /\ Exc(r.path)' /\ Exc(r.to)'
                      /\ \A o \in Objects : o.id = r.id => Exc(o.path)'
  OBVIOUS
<1>2. \A q \in {r.path, r.to} \cup Places(r.id) : <<"stranded", q>> \in drift'
  BY <1>1
<1>3. \A q \in {r.path, r.to} \cup Places(r.id) : Exc(q)'
  BY <1>2, ReasonExcuses, WithinFacts DEF Reasons
<1>4. QED
  BY <1>3 DEF Places

LEMMA Renames ==
  ASSUME TreeInv, OwnFrame, NEW r, r.id \in Ids, r.path \in Paths, r.to \in Siblings(r.path),
         \A o \in Objects : o.id = r.id => o.path # Root, AiRename(r)
  PROVE  TreeInv'
<1>1. Tree(mounted) /\ DiskOK /\ drift \subseteq Reasons \X Dirs
  BY TreeInvFacts DEF TreeInv, TreeAgrees, TreeTypeOK, Dirs
<1>2. SUFFICES ASSUME RenameOnDisk(r.path, r.to, TRUE),
                      SetTree(With(mounted, r.id, LAMBDA o : [o EXCEPT !.path = r.to])),
                      drift' = drift \cup Stranded(r.path) \cup
                        {<<"stranded", q>> : q \in
                            IF Current(r) /\ HasPath(r.to) = {} /\ Lies(Object(r.id).parent, r.to)
                            THEN {} ELSE {r.path, r.to} \cup Places(r.id)}
               PROVE  TreeInv'
  BY NothingDone DEF AiRename
<1> DEFINE p == r.path
           q == r.to
<1>3. q \in Paths /\ q \in Dirs /\ Front(q) = Front(p) /\ q # p /\ q # Root /\ p # Root
      /\ Front(p) # p
  BY PathFacts DEF Siblings, Children, Dirs
<1>4. DiskStep({q}, {p}, TRUE)
  BY <1>1, <1>2, RenameStep
<1>5. disk[q] = "none"
  BY <1>2 DEF RenameOnDisk
<1>6. q \notin watched'
  BY <1>1, <1>3, <1>4, <1>5, WatchedIsThere DEF DiskStep
<1>7. /\ Current(r) /\ HasPath(q) = {} /\ Lies(Object(r.id).parent, q)
      \/ /\ Exc(p)' /\ Exc(q)' /\ \A o \in Objects : o.id = r.id => Exc(o.path)'
  BY <1>2, RenameExcuses
<1>8. drift \subseteq drift' /\ drift' \subseteq Reasons \X Dirs /\ Stranded(p) \subseteq drift'
  <2>1. \A s \in Places(r.id) : s \in Dirs
    BY <1>1, ObjectFacts DEF Places
  <2>2. p \in Dirs /\ "stranded" \in Reasons
    BY DEF Dirs, Reasons
  <2>3. Stranded(p) \subseteq Reasons \X Dirs
    BY <1>1, DriftTypes
  <2>4. QED
    BY <1>1, <1>2, <1>3, <2>1, <2>2, <2>3
<1>9. PICK objs : objs = With(mounted, r.id, LAMBDA o : [o EXCEPT !.path = r.to])
  OBVIOUS
<1>10. mounted' = objs /\ SetTree(mounted')
  BY <1>2, <1>9 DEF SetTree
<1>11. /\ objs = [i \in DOMAIN mounted |-> objs[i]]
       /\ \A i \in DOMAIN mounted :
             objs[i] = IF mounted[i].id = r.id THEN [mounted[i] EXCEPT !.path = q] ELSE mounted[i]
  BY <1>9 DEF With
<1>12. \A i \in DOMAIN mounted : mounted[i] \in Objects
  BY <1>1, EntryFacts DEF Tree, Objects
<1>13. CASE r.id \notin MountedIds
  <2>1. \A i \in DOMAIN mounted : objs[i] = mounted[i]
    BY <1>11, <1>13, <1>12 DEF MountedIds
  <2>2. mounted = [i \in DOMAIN mounted |-> mounted[i]]
    BY <1>1, EntryFacts DEF Tree
  <2>3. objs = mounted
    BY <1>11, <2>1, <2>2
  <2>4. TreeStep(mounted, mounted', {}, {}) /\ Tree(mounted')
    BY <1>1, <1>10, <2>3, StillTree
  <2>5. OwnStep({q}, {p}, {}, {})
    BY <1>3, <1>4, <1>8, <1>10, <2>4, OwnStepFacts
  <2>6. Exc(p)' /\ Exc(q)'
    BY <1>7, <1>13 DEF Current
  <2>7. OwnTree({q}, {p}, {}, {})
    BY <2>6 DEF OwnTree
  <2>8. QED
    BY <2>5, <2>7, OwnOp
<1>14. CASE r.id \in MountedIds
  <2>1. PICK o \in Objects : o = Object(r.id)
    BY <1>1, <1>14, ObjectFacts
  <2>2. /\ o.id = r.id /\ o \in Entries /\ o.path # Root
        /\ \A x \in Objects : x.id = r.id => x = o
    BY <1>1, <1>14, <2>1, ObjectFacts
  <2>3. PICK n : n = [o EXCEPT !.path = q]
    OBVIOUS
  <2>4. n \in Entries /\ n.id = r.id /\ n.path = q /\ n.parent = o.parent
        /\ n.children = o.children /\ n.destroyed = o.destroyed
    BY <1>3, <2>2, <2>3 DEF Entries, Dirs
  <2>5. TreeStep(mounted, mounted', {r.id}, {n}) /\ Tree(mounted')
    <3>1. \A i \in DOMAIN mounted : objs[i] = IF mounted[i].id = o.id THEN n ELSE mounted[i]
      BY <1>11, <1>12, <2>2, <2>3
    <3>2. objs = [i \in DOMAIN mounted |-> IF mounted[i].id = o.id THEN n ELSE mounted[i]]
      BY <1>11, <3>1
    <3>3. o \in ToSet(mounted)
      BY DEF Objects
    <3>4. QED
      BY <1>1, <1>10, <2>2, <2>4, <3>2, <3>3, ReplacedTree
  <2>6. OwnStep({q}, {p}, {r.id}, {n})
    BY <1>3, <1>4, <1>8, <1>10, <2>5, OwnStepFacts
  <2>7. \/ /\ o.path = p /\ ~o.destroyed /\ HasPath(q) = {} /\ Lies(o.parent, q)
        \/ Exc(p)' /\ Exc(q)' /\ Exc(o.path)'
    BY <1>7, <2>1, <2>2 DEF Current
  <2>8. Exc(q)' \/ (~n.destroyed /\ Lies(n.parent, q)')
    <3>1. SUFFICES ASSUME o.path = p, ~o.destroyed, Lies(o.parent, q) PROVE Lies(o.parent, q)'
      BY <2>4, <2>7
    <3>2. o.parent # r.id
      BY <1>1, <1>3, <2>2, <3>1, ObjectFacts DEF Lies
    <3>3. QED
      BY <2>5, <3>1, <3>2, LiesStep
  <2>9. ASSUME NEW x \in Objects, x.parent = r.id, Lies(x.parent, x.path), x.path # Root
        PROVE  Exc(x.path)'
    <3>1. CASE o.path = p
      BY <1>1, <1>8, <2>2, <2>9, <3>1, OrphansExcused
    <3>2. CASE Exc(o.path)'
      BY <1>1, <2>2, <2>9, <3>2, BelowExcused
    <3>3. QED
      BY <2>7, <3>1, <3>2
  <2>10. \A x : r.id \in IdsAt(x) <=> x = o.path
    BY <2>2 DEF IdsAt, HasPath
  <2>11. HasPath(q) = {} => IdsAt(q) = {}
    BY IdsAtIs
  <2>12. OwnTree({q}, {p}, {r.id}, {n})
    BY <1>3, <1>6, <2>4, <2>7, <2>8, <2>9, <2>10, <2>11 DEF OwnTree
  <2>13. QED
    BY <2>6, <2>12, OwnOp
<1>15. QED
  BY <1>13, <1>14

LEMMA Deletes ==
  ASSUME TreeInv, OwnFrame, NEW r, r.id \in Ids, r.path \in Paths,
         \A o \in Objects : o.id = r.id => o.path # Root, AiDelete(r)
  PROVE  TreeInv'
<1>1. Tree(mounted) /\ DiskOK /\ drift \subseteq Reasons \X Dirs
  BY TreeInvFacts DEF TreeInv, TreeAgrees, TreeTypeOK, Dirs
<1>2. SUFFICES ASSUME DeleteOnDisk(r.path, TRUE),
                      SetTree(With(mounted, r.id, LAMBDA o : [o EXCEPT !.destroyed = TRUE])),
                      drift' = drift \cup Stranded(r.path)
                                 \cup {<<"tombstone", q>> : q \in {r.path} \cup Places(r.id)}
               PROVE  TreeInv'
  BY NothingDone DEF AiDelete
<1> DEFINE p == r.path
<1>3. DiskStep({}, {p}, TRUE)
  BY <1>1, <1>2, DeleteStep
<1>4. \A q \in {p} \cup Places(r.id) : Exc(q)'
  <2>1. \A q \in {p} \cup Places(r.id) : <<"tombstone", q>> \in drift'
    BY <1>2
  <2>2. QED
    BY <2>1, ReasonExcuses, WithinFacts DEF Reasons
<1>5. drift \subseteq drift' /\ drift' \subseteq Reasons \X Dirs
  <2>1. \A s \in Places(r.id) : s \in Dirs
    BY <1>1, ObjectFacts DEF Places
  <2>2. p \in Dirs /\ "tombstone" \in Reasons
    BY DEF Dirs, Reasons
  <2>3. Stranded(p) \subseteq Reasons \X Dirs
    BY <1>1, DriftTypes
  <2>4. QED
    BY <1>1, <1>2, <2>1, <2>2, <2>3
<1>6. PICK objs : objs = With(mounted, r.id, LAMBDA o : [o EXCEPT !.destroyed = TRUE])
  OBVIOUS
<1>7. mounted' = objs /\ SetTree(mounted')
  BY <1>2, <1>6 DEF SetTree
<1>8. /\ Tree(objs)
      /\ \A x \in ToSet(mounted) :
            x.id = r.id => TreeStep(mounted, objs, {r.id}, {[x EXCEPT !.destroyed = TRUE]})
      /\ r.id \notin IdsOf(mounted) => objs = mounted
  BY <1>1, <1>6, TombstoneTree
<1>9. CASE r.id \notin MountedIds
  <2>1. objs = mounted
    BY <1>1, <1>8, <1>9, ObjectFacts
  <2>2. TreeStep(mounted, mounted', {}, {})
    BY <1>7, <2>1, StillTree
  <2>3. OwnStep({}, {p}, {}, {})
    BY <1>3, <1>5, <1>7, <1>8, <2>2, OwnStepFacts
  <2>4. OwnTree({}, {p}, {}, {})
    BY <1>4 DEF OwnTree
  <2>5. QED
    BY <2>3, <2>4, OwnOp
<1>10. CASE r.id \in MountedIds
  <2>1. PICK o \in Objects : o = Object(r.id)
    BY <1>1, <1>10, ObjectFacts
  <2>2. /\ o.id = r.id /\ o \in Entries /\ o.path # Root /\ Exc(o.path)'
        /\ \A x \in Objects : x.id = r.id => x = o
    BY <1>1, <1>4, <1>10, <2>1, ObjectFacts DEF Places
  <2>3. PICK n : n = [o EXCEPT !.destroyed = TRUE]
    OBVIOUS
  <2>4. n.id = r.id /\ n.path = o.path
    BY <2>2, <2>3 DEF Entries
  <2>5. TreeStep(mounted, mounted', {r.id}, {n})
    BY <1>7, <1>8, <2>2, <2>3 DEF Objects
  <2>6. OwnStep({}, {p}, {r.id}, {n})
    BY <1>3, <1>5, <1>7, <1>8, <2>5, OwnStepFacts
  <2>7. ASSUME NEW x \in Objects, x.parent = r.id, Lies(x.parent, x.path), x.path # Root
        PROVE  Exc(x.path)'
    BY <1>1, <2>2, <2>7, BelowExcused
  <2>8. \A x : r.id \in IdsAt(x) <=> x = o.path
    BY <2>2 DEF IdsAt, HasPath
  <2>9. OwnTree({}, {p}, {r.id}, {n})
    BY <1>4, <2>2, <2>4, <2>7, <2>8 DEF OwnTree
  <2>10. QED
    BY <2>6, <2>9, OwnOp
<1>11. QED
  BY <1>9, <1>10

LEMMA CarriesOut ==
  ASSUME TreeInv, OwnFrame, NEW r, r.id \in Ids, r.id \in Held, Proper(r),
         r.op \in {"rename", "delete"} => \A o \in Objects : o.id = r.id => o.path # Root,
         CarryOut(r)
  PROVE  TreeInv'
<1>1. CASE r.op = "create"
  <2>1. r.to \in Paths /\ AiCreate(r)
    BY <1>1 DEF CarryOut, Proper, Children
  <2>2. QED
    BY <2>1, Creates
<1>2. CASE r.op = "rename"
  <2>1. r.path \in Paths /\ r.to \in Siblings(r.path) /\ AiRename(r)
    BY <1>2 DEF CarryOut, Proper
  <2>2. QED
    BY <1>2, <2>1, Renames
<1>3. CASE r.op = "delete"
  <2>1. r.path \in Paths /\ AiDelete(r)
    BY <1>3 DEF CarryOut, Proper
  <2>2. QED
    BY <1>3, <2>1, Deletes
<1>4. QED
  BY <1>1, <1>2, <1>3 DEF CarryOut

LEMMA RequestFacts ==
  ASSUME Tree(mounted), NEW o \in Objects, NEW r \in Request(o)
  PROVE  /\ r.id = o.id /\ Proper(r) /\ r.op \in {"create", "rename", "delete"}
         /\ r.op \in {"rename", "delete"} => o.path # Root
<1>1. \/ /\ r.op = "create" /\ r.id = o.id /\ r.path = o.path /\ r.to \in Children(o.path)
      \/ /\ r.op = "rename" /\ r.id = o.id /\ r.path = o.path /\ o.path # Root
         /\ r.to \in Siblings(o.path)
      \/ /\ r.op = "delete" /\ r.id = o.id /\ r.path = o.path /\ o.path # Root
  BY DEF Request
<1>2. o.path = Root \/ o.path \in Paths
  BY ObjectFacts DEF Dirs
<1>3. QED
  BY <1>1, <1>2 DEF Proper

LEMMA AiFrame ==
  ASSUME TreeInv, Idle, UNCHANGED <<batch, reading>>, Spend \/ UNCHANGED <<ops, changes>>,
         asked' = asked \/ asked' = NoRequest, echo' \subseteq Paths
  PROVE  OwnFrame
<1>1. ops' \in 0 .. MaxOps /\ changes' \in 0 .. MaxChanges
  <2>1. CASE UNCHANGED <<ops, changes>>
    BY <2>1 DEF TreeInv, TreeAgrees, TreeTypeOK
  <2>2. QED
    BY <2>1, SpendFacts
<1>2. QED
  BY <1>1 DEF OwnFrame

LEMMA EchoPaths ==
  ASSUME TreeInv, NEW r, Proper(r), CarryOut(r)
  PROVE  echo' \subseteq Paths
<1>1. echo \subseteq Paths
  BY DEF TreeInv, TreeAgrees, TreeTypeOK
<1>2. QED
  BY <1>1 DEF Proper, CarryOut, AiCreate, AiRename, AiDelete, Siblings, Children

LEMMA AiAskStep ==
  ASSUME TreeInv, AiAsk
  PROVE  TreeInv'
<1>1. PICK id \in MountedIds : \E r \in Request(Object(id)) :
          \/ r.op # "delete" /\ CarryOut(r) /\ UNCHANGED asked
          \/ asked = NoRequest /\ asked' = r /\ UNCHANGED <<fs, echo, tree, drift>>
  BY DEF AiAsk
<1>2. PICK r \in Request(Object(id)) :
          \/ r.op # "delete" /\ CarryOut(r) /\ UNCHANGED asked
          \/ asked = NoRequest /\ asked' = r /\ UNCHANGED <<fs, echo, tree, drift>>
  BY <1>1
<1>3. Idle /\ Spend /\ UNCHANGED <<batch, reading>>
  BY DEF AiAsk
<1>4. Tree(mounted) /\ echo \subseteq Paths
  BY TreeInvFacts DEF TreeInv, TreeAgrees, TreeTypeOK
<1>5. Object(id) \in Objects /\ Object(id).id = id /\ id \in Ids /\ id \in Held
      /\ \A o \in Objects : o.id = id => o = Object(id)
  BY <1>4, ObjectFacts DEF Held
<1>6. /\ r.id = id /\ Proper(r) /\ r.op \in {"create", "rename", "delete"}
      /\ r.op \in {"rename", "delete"} => Object(id).path # Root
  BY <1>2, <1>4, <1>5, RequestFacts
<1>7. CASE CarryOut(r) /\ UNCHANGED asked
  <2>1. echo' \subseteq Paths
    BY <1>6, <1>7, EchoPaths
  <2>2. OwnFrame
    BY <1>3, <1>7, <2>1, AiFrame
  <2>3. QED
    BY <1>5, <1>6, <1>7, <2>2, CarriesOut
<1>8. CASE asked = NoRequest /\ asked' = r /\ UNCHANGED <<fs, echo, tree, drift>>
  <2>1. /\ disk' = disk /\ watched' = watched /\ events' = events /\ batch' = batch /\ echo' = echo
        /\ mounted' = mounted /\ listed' = listed /\ visited' = visited /\ drift' = drift
        /\ reading' = reading /\ ops' \in 0 .. MaxOps /\ changes' \in 0 .. MaxChanges
    BY <1>3, <1>8, SpendFacts DEF fs, tree
  <2>2. AskedOK'
    BY <1>5, <1>6, <1>8, <2>1 DEF AskedOK, Objects
  <2>3. TreeAgrees'
    <3>1. TreeTypeOK /\ \A o \in Objects : o.children = {c.id : c \in {x \in Objects : x.parent = o.id}}
      BY DEF TreeInv, TreeAgrees
    <3>2. asked'.id \in Ids /\ Proper(asked)'
      BY <1>5, <1>6, <1>8 DEF Proper
    <3>3. TreeTypeOK'
      BY <2>1, <3>1, <3>2 DEF TreeTypeOK, MountedIds, Objects
    <3>4. QED
      BY <2>1, <3>1, <3>3 DEF TreeAgrees, Objects
  <2>4. /\ WatchedFolders /\ Order /\ RootOne /\ Placed /\ Unwatched /\ Followed
    BY DEF TreeInv
  <2>5. WatchedFolders' /\ Order'
    BY <2>1, <2>4 DEF WatchedFolders, IsFolder, Order
  <2>6. /\ \A p : HasPath(p)' = HasPath(p) /\ Objects' = Objects /\ (Exc(p) <=> Exc(p)')
        /\ \A p : Single(p) <=> Single(p)'
        /\ \A i : \A p : Lies(i, p) <=> Lies(i, p)'
        /\ \A p : IdsAt(p)' = IdsAt(p)
    BY <2>1 DEF HasPath, Objects, Exc, Excused, Single, IdsAt, Lies
  <2>7. RootOne' /\ Placed' /\ Unwatched'
    BY <2>1, <2>4, <2>6 DEF RootOne, Placed, Unwatched
  <2>8. Followed'
    <3>1. ASSUME NEW p PROVE (Latest(p) <=> Latest(p)') /\ (Lower(p) <=> Lower(p)')
                             /\ (Upper(p) <=> Upper(p)')
      BY <2>1, <2>6 DEF Latest, Lower, Upper, Ends, ReadAt, Calm, Present
    <3>2. QED
      BY <2>1, <2>4, <2>6, <3>1 DEF Followed
  <2>9. QED
    BY <2>2, <2>3, <2>5, <2>7, <2>8 DEF TreeInv
<1>9. QED
  BY <1>2, <1>7, <1>8

LEMMA RespondStep ==
  ASSUME TreeInv, handle_respond
  PROVE  TreeInv'
<1>1. /\ Idle /\ asked # NoRequest /\ asked' = NoRequest
      /\ CarryOut(asked) \/ UNCHANGED <<fs, echo, tree, drift>>
      /\ UNCHANGED <<batch, reading, ops, changes>>
  BY DEF handle_respond
<1>2. Tree(mounted) /\ echo \subseteq Paths /\ asked.id \in Ids /\ Proper(asked) /\ AskedOK
  BY <1>1, TreeInvFacts DEF TreeInv, TreeAgrees, TreeTypeOK
<1>3. asked.id \in Held
  BY DEF Held
<1>4. CASE CarryOut(asked)
  <2>1. echo' \subseteq Paths
    BY <1>2, <1>4, EchoPaths
  <2>2. OwnFrame
    BY <1>1, <2>1, AiFrame
  <2>3. asked.op \in {"rename", "delete"} => \A o \in Objects : o.id = asked.id => o.path # Root
    BY <1>2 DEF AskedOK
  <2>4. PICK r : r = asked
    OBVIOUS
  <2>5. QED
    BY <1>2, <1>3, <1>4, <2>2, <2>3, CarriesOut
<1>5. CASE UNCHANGED <<fs, echo, tree, drift>>
  <2>1. OwnFrame
    BY <1>1, <1>2, <1>5, AiFrame
  <2>2. QED
    BY <1>5, <2>1, NothingDone
<1>6. QED
  BY <1>1, <1>4, <1>5

(* While the tree is left alone.                                            *)
LEMMA TreeStays ==
  ASSUME mounted' = mounted, listed' = listed
  PROVE  /\ Objects' = Objects /\ MountedIds' = MountedIds
         /\ \A p : HasPath(p)' = HasPath(p) /\ IdsAt(p)' = IdsAt(p)
         /\ \A p : (ReadAt(p) <=> ReadAt(p)') /\ (Single(p) <=> Single(p)')
         /\ \A i : \A p : Lies(i, p) <=> Lies(i, p)'
BY DEF Objects, MountedIds, HasPath, IdsAt, ReadAt, Single, Lies

LEMMA TreeKept ==
  ASSUME TreeInv, UNCHANGED <<mounted, listed, asked>>, visited' \subseteq MountedIds,
         drift \subseteq drift',
         drift' \subseteq Reasons \X Dirs, DiskOK', batch' \in Seq(Events),
         echo' \subseteq Paths, reading' \in MountedIds \cup {NoId},
         ops' \in 0 .. MaxOps, changes' \in 0 .. MaxChanges,
         Order', Unwatched', Followed'
  PROVE  TreeInv'
<1>1. mounted' = mounted /\ listed' = listed /\ visited' \subseteq MountedIds /\ asked' = asked
  OBVIOUS
<1>2. /\ Objects' = Objects /\ MountedIds' = MountedIds
      /\ \A p : HasPath(p)' = HasPath(p) /\ (Single(p) <=> Single(p)')
      /\ \A i : \A p : Lies(i, p) <=> Lies(i, p)'
  BY <1>1, TreeStays
<1>3. /\ TreeTypeOK /\ \A o \in Objects : o.children = {c.id : c \in {x \in Objects : x.parent = o.id}}
      /\ RootOne /\ AskedOK /\ Placed
  BY DEF TreeInv, TreeAgrees
<1>4. TreeTypeOK'
  BY <1>1, <1>2, <1>3 DEF TreeTypeOK, DiskOK, Dirs, Proper
<1>5. TreeAgrees'
  BY <1>2, <1>3, <1>4 DEF TreeAgrees
<1>6. RootOne' /\ AskedOK'
  BY <1>1, <1>2, <1>3 DEF RootOne, AskedOK
<1>7. Placed'
  BY <1>2, <1>3, ExcGrows DEF Placed
<1>8. QED
  BY <1>5, <1>6, <1>7 DEF TreeInv, DiskOK

LEMMA OthersStep ==
  ASSUME TreeInv, UNCHANGED <<batch, echo, tree, reading, asked, ops, drift>>,
         changes' \in 0 .. MaxChanges,
         NEW come, NEW go, DiskStep(come, go, FALSE), come \cap go = {}
  PROVE  TreeInv'
<1>1. /\ Tree(mounted) /\ DiskOK /\ batch \in Seq(Events) /\ events \in Seq(Events)
  BY TreeInvFacts
<1>2. /\ mounted' = mounted /\ listed' = listed /\ batch' = batch /\ drift' = drift
      /\ reading' = reading
  BY DEF tree
<1>3. TreeTypeOK /\ Order /\ Unwatched /\ Followed
  BY DEF TreeInv, TreeAgrees
<1>4. Order'
  <2>1. ASSUME batch # <<>>, NEW k \in DOMAIN events' PROVE ~events'[k].own
    <3>1. \/ k \in DOMAIN events /\ events'[k] = events[k]
          \/ events'[k].own = FALSE
      BY DEF DiskStep
    <3>2. QED
      BY <1>3, <2>1, <3>1 DEF Order
  <2>2. QED
    BY <1>2, <1>3, <2>1 DEF Order
<1>5. Unwatched'
  <2>1. \A x : Single(x) => Single(x)'
    BY <1>2, TreeStays
  <2>2. QED
    BY <1>1, <1>2, <1>3, <2>1, UnwatchedStep
<1>6. Followed'
  <2>1. \A x : Follows(x, come, go, FALSE)
    BY <1>2, TreeStays DEF Follows
  <2>2. Tree(mounted)'
    BY <1>1, <1>2
  <2>3. QED
    BY <1>1, <1>2, <1>3, <2>1, <2>2, FollowedStep
<1>7. /\ drift' \subseteq Reasons \X Dirs /\ echo' \subseteq Paths /\ ops' \in 0 .. MaxOps
      /\ reading' \in MountedIds \cup {NoId} /\ visited' \subseteq MountedIds
      /\ UNCHANGED <<mounted, listed, asked>>
  BY <1>2, <1>3 DEF TreeTypeOK, Dirs, tree
<1>8. DiskOK'
  BY DEF DiskStep
<1>9. QED
  BY <1>1, <1>2, <1>4, <1>5, <1>6, <1>7, <1>8, TreeKept

LEMMA OtherProgramStep ==
  ASSUME TreeInv, OtherProgram
  PROVE  TreeInv'
<1>1. DiskOK /\ changes \in 0 .. MaxChanges
  BY TreeInvFacts DEF TreeInv, TreeAgrees, TreeTypeOK
<1>2. /\ UNCHANGED <<batch, echo, tree, reading, asked, ops, drift>>
      /\ changes' \in 0 .. MaxChanges
  BY <1>1, MaxChangesAssumption DEF OtherProgram
<1>3. PICK p \in Paths : \/ \E kind \in Kinds : CreateOnDisk(p, kind, FALSE)
                         \/ DeleteOnDisk(p, FALSE)
                         \/ \E q \in Siblings(p) : RenameOnDisk(p, q, FALSE)
  BY DEF OtherProgram
<1>4. ASSUME NEW kind \in Kinds, CreateOnDisk(p, kind, FALSE) PROVE TreeInv'
  <2>1. DiskStep({p}, {}, FALSE)
    BY <1>1, <1>4, CreateStep
  <2>2. QED
    BY <1>2, <2>1, OthersStep
<1>5. ASSUME DeleteOnDisk(p, FALSE) PROVE TreeInv'
  <2>1. DiskStep({}, {p}, FALSE)
    BY <1>1, <1>5, DeleteStep
  <2>2. QED
    BY <1>2, <2>1, OthersStep
<1>6. ASSUME NEW q \in Siblings(p), RenameOnDisk(p, q, FALSE) PROVE TreeInv'
  <2>1. DiskStep({q}, {p}, FALSE)
    BY <1>1, <1>6, RenameStep
  <2>2. {q} \cap {p} = {}
    BY DEF Siblings
  <2>3. QED
    BY <1>2, <2>1, <2>2, OthersStep
<1>7. QED
  BY <1>3, <1>4, <1>5, <1>6

LEMMA ExpireStep ==
  ASSUME TreeInv, Expire
  PROVE  TreeInv'
<1>1. /\ UNCHANGED <<fs, batch, tree, reading, asked, ops, changes, drift>>
      /\ echo' \subseteq echo
  BY DEF Expire
<1>2. DiskOK /\ TreeTypeOK /\ Order /\ Unwatched /\ Followed /\ batch \in Seq(Events)
  BY TreeInvFacts DEF TreeInv, TreeAgrees
<1>3. /\ disk' = disk /\ watched' = watched /\ events' = events /\ batch' = batch
      /\ mounted' = mounted /\ listed' = listed /\ drift' = drift /\ reading' = reading
  BY <1>1 DEF fs, tree
<1>4. DiskOK' /\ Order'
  BY <1>2, <1>3 DEF DiskOK, WatchedFolders, IsFolder, Order
<1>5. /\ \A p : (Exc(p) <=> Exc(p)') /\ (Single(p) <=> Single(p)') /\ IdsAt(p)' = IdsAt(p)
      /\ \A p : HasPath(p)' = HasPath(p) /\ (ReadAt(p) <=> ReadAt(p)')
  BY <1>3, TreeStays DEF Exc, Excused
<1>6. Unwatched'
  BY <1>2, <1>3, <1>5 DEF Unwatched
<1>7. Followed'
  <2>1. ASSUME NEW p PROVE (Latest(p) <=> Latest(p)') /\ (Lower(p) <=> Lower(p)')
                           /\ (Upper(p) <=> Upper(p)')
    BY <1>3, <1>5 DEF Latest, Lower, Upper, Ends, Calm, Present
  <2>2. QED
    BY <1>2, <1>3, <1>5, <2>1 DEF Followed
<1>8. /\ drift' \subseteq Reasons \X Dirs /\ echo' \subseteq Paths /\ ops' \in 0 .. MaxOps
      /\ changes' \in 0 .. MaxChanges /\ reading' \in MountedIds \cup {NoId}
      /\ batch' \in Seq(Events) /\ drift \subseteq drift' /\ visited' \subseteq MountedIds
      /\ UNCHANGED <<mounted, listed, asked>>
  BY <1>1, <1>2, <1>3 DEF TreeTypeOK, Dirs, tree
<1>9. QED
  BY <1>1, <1>4, <1>6, <1>7, <1>8, TreeKept

LEMMA EmptyAbout ==
  \A p : About(<<>>, p) = {} /\ Removals(<<>>, p) = {} /\ Foreign(<<>>, p) = {} /\ Ends(<<>>, p)
BY DEF About, Removals, Foreign, Ends

Unmarked(evs, E, S) ==
  S \in SUBSET DOMAIN evs /\ \A i \in DOMAIN evs : i \in S <=> evs[i].path \notin E

(* What is drained about a path that is not marked is all there was.        *)
LEMMA DrainedFacts ==
  ASSUME NEW evs \in Seq(Events), NEW E, NEW S, Unmarked(evs, E, S),
         NEW b, b = Picked(evs, S), NEW p
  PROVE  /\ b \in Seq(Events)
         /\ About(evs, p) = {} => About(b, p) = {}
         /\ p \in E => About(b, p) = {}
         /\ p \notin E =>
              /\ About(b, p) = {} => About(evs, p) = {}
              /\ Removals(b, p) = {} => Removals(evs, p) = {}
              /\ Cardinality(Removals(evs, p)) <= Cardinality(Removals(b, p))
              /\ Ends(evs, p) => Ends(b, p)
<1>1. PICK n : n = Cardinality(S)
  OBVIOUS
<1>2. /\ S \subseteq DOMAIN evs /\ n \in Nat /\ b \in Seq(Events) /\ DOMAIN b = 1 .. n
      /\ \A k \in 1 .. n : Nth(S, k) \in S /\ b[k] = evs[Nth(S, k)]
      /\ \A i \in S : \E k \in 1 .. n : Nth(S, k) = i
      /\ \A k, m \in 1 .. n : k < m => Nth(S, k) < Nth(S, m)
      /\ S \subseteq Nat
  BY <1>1, PickedFacts DEF Unmarked
<1>3. ASSUME NEW k \in About(b, p) PROVE Nth(S, k) \in About(evs, p) /\ p \notin E
  BY <1>2, <1>3 DEF About, Unmarked
<1>4. ASSUME NEW k \in Removals(b, p) PROVE Nth(S, k) \in Removals(evs, p)
  BY <1>2, <1>3, <1>4 DEF Removals, About
<1>5. ASSUME p \notin E, NEW i \in About(evs, p) PROVE \E k \in About(b, p) : Nth(S, k) = i
  <2>1. i \in S
    BY <1>5 DEF About, Unmarked
  <2>2. QED
    BY <1>2, <1>5, <2>1 DEF About
<1>6. ASSUME p \notin E, NEW i \in Removals(evs, p) PROVE \E k \in Removals(b, p) : Nth(S, k) = i
  <2>1. PICK k \in About(b, p) : Nth(S, k) = i
    BY <1>5, <1>6 DEF Removals
  <2>2. QED
    BY <1>2, <1>6, <2>1 DEF Removals, About
<1>7. ASSUME p \notin E PROVE Cardinality(Removals(evs, p)) <= Cardinality(Removals(b, p))
  <2> DEFINE f == [k \in Removals(b, p) |-> Nth(S, k)]
  <2>1. f \in Surjection(Removals(b, p), Removals(evs, p))
    BY <1>4, <1>6, <1>7 DEF Surjection
  <2>2. IsFiniteSet(Removals(b, p))
    BY <1>2, CountedFacts
  <2> HIDE DEF f
  <2>3. QED
    BY <2>1, <2>2, FS_Surjection
<1>8. ASSUME p \notin E, Ends(evs, p) PROVE Ends(b, p)
  <2>1. SUFFICES ASSUME NEW k \in About(b, p), \A j \in About(b, p) : j <= k
                 PROVE  b[k].kind = "Removed" <=> disk[p] = "none"
    BY DEF Ends
  <2>2. Nth(S, k) \in About(evs, p) /\ k \in 1 .. n /\ b[k] = evs[Nth(S, k)]
    BY <1>2, <1>3 DEF About
  <2>3. ASSUME NEW i \in About(evs, p) PROVE i <= Nth(S, k)
    <3>1. PICK m \in About(b, p) : Nth(S, m) = i
      BY <1>5, <1>8
    <3>2. m <= k /\ m \in 1 .. n
      BY <1>2, <2>1 DEF About
    <3>3. Nth(S, m) \in Nat /\ Nth(S, k) \in Nat
      BY <1>2, <2>2, <3>2
    <3>4. m = k \/ m < k
      BY <1>2, <2>2, <3>2
    <3>5. m = k \/ Nth(S, m) < Nth(S, k)
      BY <1>2, <2>2, <3>2, <3>4
    <3>6. QED
      BY <3>1, <3>3, <3>5
  <2>4. QED
    BY <1>8, <2>2, <2>3 DEF Ends
<1>9. QED
  BY <1>2, <1>3, <1>5, <1>6, <1>7, <1>8

LEMMA DrainStep ==
  ASSUME TreeInv, Drain
  PROVE  TreeInv'
<1>1. /\ batch = <<>> /\ reading = NoId /\ events' = <<>>
      /\ batch' = Picked(events, {i \in DOMAIN events : events[i].path \notin echo})
      /\ drift' = drift \cup {<<"echo", e.path>> :
                     e \in {f \in ToSet(events) : f.path \in echo /\ ~f.own}}
      /\ UNCHANGED <<disk, watched, echo, tree, reading, asked, ops, changes>>
  BY DEF Drain, Idle
<1>2. DiskOK /\ TreeTypeOK /\ Unwatched /\ Followed /\ events \in Seq(Events) /\ Tree(mounted)
  BY TreeInvFacts DEF TreeInv, TreeAgrees
<1>3. disk' = disk /\ watched' = watched /\ mounted' = mounted /\ listed' = listed /\ reading' = reading
  BY <1>1 DEF tree
<1>4. \A e \in ToSet(events) : e.path \in Paths
  BY <1>2, EventsFacts DEF ToSet
<1>5. drift \subseteq drift' /\ drift' \subseteq Reasons \X Dirs
  <2>1. "echo" \in Reasons /\ drift \subseteq Reasons \X Dirs
    BY <1>2 DEF TreeTypeOK, Reasons, Dirs
  <2>2. QED
    BY <1>1, <1>4, <2>1 DEF Dirs
<1>6. ASSUME NEW p, p \in echo, Foreign(events, p) # {} PROVE Exc(p)'
  <2>1. PICK k \in DOMAIN events : events[k].path = p /\ ~events[k].own
    BY <1>6 DEF Foreign, About
  <2>2. events[k] \in ToSet(events)
    BY DEF ToSet
  <2>3. <<"echo", p>> \in drift'
    BY <1>1, <1>6, <2>1, <2>2
  <2>4. QED
    BY <2>3, ReasonExcuses, WithinFacts DEF Reasons
<1>7. ASSUME NEW p
      PROVE  /\ batch' \in Seq(Events)
             /\ About(events, p) = {} => About(batch', p) = {}
             /\ p \in echo => About(batch', p) = {}
             /\ p \notin echo =>
                  /\ About(batch', p) = {} => About(events, p) = {}
                  /\ Removals(batch', p) = {} => Removals(events, p) = {}
                  /\ Cardinality(Removals(events, p)) <= Cardinality(Removals(batch', p))
                  /\ Ends(events, p) => Ends(batch', p)
  <2>1. PICK S : S = {i \in DOMAIN events : events[i].path \notin echo}
    OBVIOUS
  <2>2. S \in SUBSET DOMAIN events /\ \A i \in DOMAIN events : i \in S <=> events[i].path \notin echo
    BY <2>1
  <2>3. batch' = Picked(events, S)
    BY <1>1, <2>1
  <2>4. Unmarked(events, echo, S)
    BY <2>2 DEF Unmarked
  <2>5. QED
    BY <1>2, <2>3, <2>4, DrainedFacts
<1>8. \A p : /\ About(events', p) = {} /\ Removals(events', p) = {} /\ Foreign(events', p) = {}
             /\ About(batch, p) = {} /\ Removals(batch, p) = {}
             /\ Ends(events', p)
  BY <1>1, EmptyAbout
<1>9. /\ \A p : HasPath(p)' = HasPath(p) /\ IdsAt(p)' = IdsAt(p)
      /\ \A p : (ReadAt(p) <=> ReadAt(p)') /\ (Single(p) <=> Single(p)')
      /\ \A p : Present(p)' = Present(p)
  BY <1>3, TreeStays DEF Present
<1>10. Order'
  BY <1>1 DEF Order
<1>11. Unwatched'
  <2>1. ASSUME NEW p \in TopPaths, Root \notin watched'
        PROVE  /\ About(events', p) = {} /\ About(batch', p) = {}
               /\ Exc(p)' \/ Single(p)'
    BY <1>2, <1>3, <1>5, <1>7, <1>8, <1>9, <2>1, ExcGrows DEF Unwatched
  <2>2. QED
    BY <2>1 DEF Unwatched
<1>12. Followed'
  <2>1. SUFFICES ASSUME NEW p \in Paths, Front(p) \in watched', ~Exc(p)'
                 PROVE  (Latest(p) /\ Lower(p) /\ Upper(p))'
    BY DEF Followed
  <2>2. Latest(p) /\ Lower(p) /\ Upper(p)
    BY <1>2, <1>3, <1>5, <2>1, ExcGrows DEF Followed
  <2>3. p \in echo => Foreign(events, p) = {} /\ Removals(events, p) = {}
    BY <1>2, <1>6, <2>1, CountedFacts
  <2>4. Front(p) \in echo => Removals(events, Front(p)) = {}
    <3>1. ~Exc(Front(p))'
      BY <2>1, ExcBelow DEF Dirs
    <3>2. QED
      BY <1>2, <1>6, <3>1, CountedFacts
  <2>5. Latest(p)'
    <3>1. Ends(events, p)' /\ Ends(batch, p)'
      <4>1. Ends(batch', p) => Ends(batch, p)'
        BY <1>3 DEF Ends
      <4>2. Ends(events', p) => Ends(events, p)'
        BY <1>3 DEF Ends
      <4>3. Ends(batch', p)
        <5>1. About(batch', p) = {} => Ends(batch', p)
          BY DEF Ends
        <5>2. QED
          BY <1>7, <2>2, <5>1 DEF Latest
      <4>4. QED
        BY <1>8, <4>1, <4>2, <4>3
    <3>2. QED
      BY <3>1 DEF Latest
  <2>6. Lower(p)'
    <3>1. SUFFICES ASSUME ReadAt(Front(p)), disk[p] # "none", About(batch', p) = {}
                   PROVE  HasPath(p) # {}
      BY <1>3, <1>9 DEF Lower
    <3>2. Foreign(events, p) = {}
      <4>1. p \notin echo => About(events, p) = {}
        BY <1>7, <3>1
      <4>2. QED
        BY <2>3, <4>1 DEF Foreign
    <3>3. QED
      BY <1>8, <2>2, <3>1, <3>2 DEF Lower
  <2>7. Upper(p)'
    <3>1. SUFFICES ASSUME Removals(batch', Front(p)) = {}
                   PROVE  Cardinality(IdsAt(p)) <= Cardinality(Removals(batch', p))
                             + Cardinality(Removals(events', p)) + Present(p)
      BY <1>9 DEF Upper, Calm
    <3>2. Calm(Front(p))
      BY <1>7, <1>8, <2>4, <3>1 DEF Calm
    <3>3. Cardinality(IdsAt(p)) <= Cardinality(Removals(batch, p))
                             + Cardinality(Removals(events, p)) + Present(p)
      BY <2>2, <3>2 DEF Upper
    <3>4. Cardinality(Removals(batch, p)) = 0 /\ Cardinality(Removals(events', p)) = 0
      BY <1>8, FS_EmptySet
    <3>5. Cardinality(Removals(events, p)) <= Cardinality(Removals(batch', p))
      <4>1. CASE p \in echo
        <5>1. Removals(events, p) = {} /\ Removals(batch', p) = {}
          BY <1>7, <2>3, <4>1 DEF Removals
        <5>2. QED
          BY <5>1, FS_EmptySet
      <4>2. QED
        BY <1>7, <4>1
    <3>6. /\ Cardinality(Removals(events, p)) \in Nat /\ Cardinality(Removals(batch', p)) \in Nat
          /\ Cardinality(IdsAt(p)) \in Nat /\ Present(p) \in Nat
      <4>1. batch' \in Seq(Events)
        BY <1>7
      <4>2. QED
        BY <1>2, <4>1, CountedFacts, HereFacts, IdsAtIs DEF Present
    <3>7. QED
      BY <3>3, <3>4, <3>5, <3>6
  <2>8. QED
    BY <2>5, <2>6, <2>7
<1>13. DiskOK'
  <2>1. <<>> \in Seq(Events)
    OBVIOUS
  <2>2. QED
    BY <1>1, <1>2, <1>3, <2>1 DEF DiskOK, WatchedFolders, IsFolder
<1>14. /\ echo' \subseteq Paths /\ ops' \in 0 .. MaxOps
       /\ changes' \in 0 .. MaxChanges /\ reading' \in MountedIds \cup {NoId}
       /\ batch' \in Seq(Events) /\ UNCHANGED <<mounted, listed, asked>>
       /\ visited' \subseteq MountedIds
  BY <1>1, <1>2, <1>7 DEF TreeTypeOK, tree
<1>15. QED
  BY <1>5, <1>10, <1>11, <1>12, <1>13, <1>14, TreeKept

(* What is left when the first event has been handled.                      *)
LEMMA RestFacts ==
  ASSUME NEW seq \in Seq(Events), seq # <<>>, NEW x
  PROVE  /\ Head(seq) = seq[1] /\ 1 \in DOMAIN seq /\ Tail(seq) \in Seq(Events)
         /\ About(Tail(seq), x) \subseteq Nat
         /\ \A k \in About(Tail(seq), x) :
               k + 1 \in About(seq, x) /\ Tail(seq)[k] = seq[k + 1]
         /\ \A k \in About(seq, x) : k = 1 \/ (k - 1 \in About(Tail(seq), x) /\ k - 1 \in Nat)
<1>1. /\ Tail(seq) \in Seq(Events) /\ DOMAIN Tail(seq) = 1 .. Len(seq) - 1
      /\ DOMAIN seq = 1 .. Len(seq) /\ Len(seq) \in Nat /\ Len(seq) >= 1
      /\ \A k \in 1 .. Len(seq) - 1 : Tail(seq)[k] = seq[k + 1]
  BY EventsFacts
<1>2. Head(seq) = seq[1] /\ 1 \in DOMAIN seq
  BY <1>1
<1>3. ASSUME NEW k \in About(Tail(seq), x)
      PROVE  k + 1 \in About(seq, x) /\ Tail(seq)[k] = seq[k + 1] /\ k \in Nat
  BY <1>1, <1>3 DEF About
<1>4. ASSUME NEW k \in About(seq, x), k # 1 PROVE k - 1 \in About(Tail(seq), x) /\ k - 1 \in Nat
  <2>1. k \in 1 .. Len(seq) /\ seq[k].path = x
    BY <1>1 DEF About
  <2>2. k - 1 \in 1 .. Len(seq) - 1 /\ (k - 1) + 1 = k
    BY <1>1, <1>4, <2>1
  <2>3. Tail(seq)[k - 1] = seq[k]
    BY <1>1, <2>2
  <2>4. QED
    BY <1>1, <2>1, <2>2, <2>3 DEF About
<1>5. QED
  BY <1>1, <1>2, <1>3, <1>4

LEMMA HandledFacts ==
  ASSUME NEW seq \in Seq(Events), seq # <<>>, NEW x, NEW h, h = Head(seq)
  PROVE  /\ h \in Events /\ h.path \in Paths /\ h.kind \in {"Created", "Modified", "Removed"}
         /\ Ends(seq, x) => Ends(Tail(seq), x)
         /\ About(seq, x) = {} => About(Tail(seq), x) = {} /\ h.path # x
         /\ h.path # x /\ About(Tail(seq), x) = {} => About(seq, x) = {}
         /\ h.path = x /\ About(Tail(seq), x) = {} /\ Ends(seq, x) =>
               (h.kind = "Removed" <=> disk[x] = "none")
         /\ ~(h.path = x /\ h.kind = "Removed") /\ Removals(Tail(seq), x) = {} =>
               Removals(seq, x) = {}
         /\ Cardinality(Removals(seq, x)) <=
               Cardinality(Removals(Tail(seq), x))
                 + (IF h.path = x /\ h.kind = "Removed" THEN 1 ELSE 0)
<1> DEFINE t == Tail(seq)
<1>1. /\ h = seq[1] /\ 1 \in DOMAIN seq /\ t \in Seq(Events) /\ About(t, x) \subseteq Nat
      /\ \A k \in About(t, x) : k + 1 \in About(seq, x) /\ t[k] = seq[k + 1]
      /\ \A k \in About(seq, x) : k = 1 \/ (k - 1 \in About(t, x) /\ k - 1 \in Nat)
  BY RestFacts
<1> HIDE DEF t
<1>2. h \in Events /\ h.path \in Paths /\ h.kind \in {"Created", "Modified", "Removed"}
  BY <1>1, EventsFacts
<1>3. /\ h.path = x => 1 \in About(seq, x)
      /\ 1 \in About(seq, x) => h.path = x
      /\ 1 \in Removals(seq, x) => h.path = x /\ h.kind = "Removed"
      /\ About(seq, x) \subseteq Nat
  BY <1>1, CountedFacts DEF About, Removals
<1>4. ASSUME Ends(seq, x) PROVE Ends(t, x)
  <2>1. SUFFICES ASSUME NEW k \in About(t, x), \A j \in About(t, x) : j <= k
                 PROVE  t[k].kind = "Removed" <=> disk[x] = "none"
    BY DEF Ends
  <2>2. k + 1 \in About(seq, x) /\ t[k] = seq[k + 1] /\ k \in Nat
    BY <1>1
  <2>3. ASSUME NEW j \in About(seq, x) PROVE j <= k + 1
    <3>1. CASE j = 1
      BY <2>2, <3>1
    <3>2. CASE j - 1 \in About(t, x) /\ j - 1 \in Nat
      <4>1. j - 1 <= k /\ j \in Nat
        BY <1>3, <2>1, <3>2
      <4>2. QED
        BY <2>2, <4>1
    <3>3. QED
      BY <1>1, <3>1, <3>2
  <2>4. QED
    BY <1>4, <2>2, <2>3 DEF Ends
<1>5. ASSUME h.path # x, About(t, x) = {} PROVE About(seq, x) = {}
  BY <1>1, <1>3, <1>5
<1>6. ASSUME About(seq, x) = {} PROVE About(t, x) = {} /\ h.path # x
  BY <1>1, <1>3, <1>6
<1>7. ASSUME h.path = x, About(t, x) = {}, Ends(seq, x) PROVE h.kind = "Removed" <=> disk[x] = "none"
  <2>1. \A j \in About(seq, x) : j = 1
    BY <1>1, <1>7
  <2>2. QED
    BY <1>1, <1>3, <1>7, <2>1 DEF Ends
<1>8. \A k \in Removals(seq, x) : k = 1 \/ (k - 1 \in Removals(t, x) /\ k - 1 \in Nat)
  <2>1. ASSUME NEW k \in Removals(seq, x), k # 1 PROVE k - 1 \in Removals(t, x) /\ k - 1 \in Nat
    <3>1. k \in About(seq, x) /\ seq[k].kind = "Removed" /\ ~seq[k].own
      BY DEF Removals
    <3>2. k - 1 \in About(t, x) /\ k - 1 \in Nat /\ (k - 1) + 1 = k
      BY <1>1, <1>3, <2>1, <3>1
    <3>3. t[k - 1] = seq[k]
      BY <1>1, <3>2
    <3>4. QED
      BY <3>1, <3>2, <3>3 DEF Removals
  <2>2. QED
    BY <2>1
<1>9. ASSUME ~(h.path = x /\ h.kind = "Removed"), Removals(t, x) = {} PROVE Removals(seq, x) = {}
  BY <1>3, <1>8, <1>9
<1>10. Cardinality(Removals(seq, x)) <= Cardinality(Removals(t, x))
                 + (IF h.path = x /\ h.kind = "Removed" THEN 1 ELSE 0)
  <2> DEFINE R == Removals(seq, x) \ {1}
             f == [k \in Removals(t, x) |-> k + 1]
  <2>1. /\ IsFiniteSet(Removals(seq, x)) /\ Cardinality(Removals(seq, x)) \in Nat
        /\ IsFiniteSet(Removals(t, x)) /\ Cardinality(Removals(t, x)) \in Nat
        /\ Removals(seq, x) \subseteq Nat /\ Removals(t, x) \subseteq Nat
    BY <1>1, CountedFacts DEF Removals
  <2>2. PICK U : U = {k \in Removals(t, x) : k + 1 \in R}
    OBVIOUS
  <2>3. \A k \in R : k - 1 \in U /\ (k - 1) + 1 = k
    <3>1. ASSUME NEW k \in R PROVE k - 1 \in U /\ (k - 1) + 1 = k
      <4>1. k - 1 \in Removals(t, x) /\ (k - 1) + 1 = k
        BY <1>8, <2>1
      <4>2. QED
        BY <2>2, <4>1
    <3>2. QED
      BY <3>1
  <2>4. PICK g : g = [k \in U |-> k + 1]
    OBVIOUS
  <2>5. g \in Surjection(U, R)
    <3>1. \A k \in U : g[k] = k + 1 /\ g[k] \in R
      BY <2>2, <2>4
    <3>2. g \in [U -> R]
      BY <2>4, <3>1
    <3>3. \A k \in R : \E j \in U : g[j] = k
      BY <2>3, <3>1
    <3> HIDE DEF R
    <3>4. QED
      BY <3>2, <3>3 DEF Surjection
  <2>6. U \subseteq Removals(t, x)
    BY <2>2
  <2> HIDE DEF R
  <2>7. IsFiniteSet(U) /\ Cardinality(U) \in Nat /\ Cardinality(U) <= Cardinality(Removals(t, x))
    BY <2>1, <2>6, FS_Subset, FS_CardinalityType
  <2>8. IsFiniteSet(R) /\ Cardinality(R) <= Cardinality(U)
    BY <2>5, <2>7, FS_Surjection
  <2>9. Cardinality(R) \in Nat
    BY <2>8, FS_CardinalityType
  <2>10. Cardinality(R) = IF 1 \in Removals(seq, x) THEN Cardinality(Removals(seq, x)) - 1
                                                    ELSE Cardinality(Removals(seq, x))
    BY <2>1, FS_RemoveElement DEF R
  <2>11. QED
    BY <1>3, <2>1, <2>7, <2>8, <2>9, <2>10
<1>11. QED
  BY <1>1, <1>2, <1>4, <1>5, <1>6, <1>7, <1>9, <1>10 DEF t

(* What handling the event h at its path does to the tree.                  *)
Handles(h) ==
  /\ \A x : x # h.path => IdsAt(x)' = IdsAt(x)
  /\ \A P : ReadAt(P)' => ReadAt(P)
  /\ h.kind # "Removed" =>
        /\ disk[h.path] # "none" /\ HasPath(Front(h.path)) # {} => IdsAt(h.path)' # {}
        /\ IdsAt(h.path)' = IdsAt(h.path) \/ Cardinality(IdsAt(h.path)') <= Present(h.path)
  /\ h.kind = "Removed" =>
        /\ IdsAt(h.path)' = {} \/ \E i \in IdsAt(h.path) : IdsAt(h.path)' \subseteq IdsAt(h.path) \ {i}
        /\ \A x \in Children(h.path) : Exc(x)' \/ IdsAt(x) = {}

LEMMA HandledFollows ==
  ASSUME TreeInv, batch # <<>>, batch' = Tail(batch), UNCHANGED fs, drift \subseteq drift',
         Tree(mounted'), NEW h, h = Head(batch), Handles(h)
  PROVE  Followed'
<1>1. disk' = disk /\ watched' = watched /\ events' = events
  BY DEF fs
<1>2. /\ events \in Seq(Events) /\ batch \in Seq(Events) /\ Tree(mounted) /\ Order /\ Followed
      /\ \A x : IdsAt(x) = Here(mounted, x) /\ IdsAt(x)' = Here(mounted', x)
      /\ \A x : HasPath(x)' # {} <=> IdsAt(x)' # {}
  BY TreeInvFacts, IdsAtIs DEF TreeInv
<1>3. SUFFICES ASSUME NEW x \in Paths, Front(x) \in watched, ~Exc(x)'
               PROVE  (Latest(x) /\ Lower(x) /\ Upper(x))'
  BY <1>1 DEF Followed
<1>4. Latest(x) /\ Lower(x) /\ Upper(x)
  BY <1>2, <1>3, ExcGrows DEF Followed
<1>5. \A y : /\ h \in Events /\ h.path \in Paths /\ h.kind \in {"Created", "Modified", "Removed"}
             /\ Ends(batch, y) => Ends(batch', y)
             /\ h.path # y /\ About(batch', y) = {} => About(batch, y) = {}
             /\ h.path = y /\ About(batch', y) = {} /\ Ends(batch, y) =>
                   (h.kind = "Removed" <=> disk[y] = "none")
             /\ ~(h.path = y /\ h.kind = "Removed") /\ Removals(batch', y) = {} =>
                   Removals(batch, y) = {}
             /\ Cardinality(Removals(batch, y)) <=
                   Cardinality(Removals(batch', y))
                     + (IF h.path = y /\ h.kind = "Removed" THEN 1 ELSE 0)
  BY <1>2, HandledFacts
<1>6. Latest(x)'
  <2>1. /\ Ends(events, x) => Ends(events, x)'
        /\ Ends(batch', x) => Ends(batch, x)'
    BY <1>1 DEF Ends
  <2>2. QED
    BY <1>1, <1>4, <1>5, <2>1 DEF Latest
<1>7. Lower(x)'
  <2>1. SUFFICES ASSUME ReadAt(Front(x))', disk[x] # "none", About(batch', x) = {},
                        Foreign(events, x) = {}
                 PROVE  IdsAt(x)' # {}
    BY <1>1, <1>2 DEF Lower
  <2>2. ReadAt(Front(x))
    BY <2>1 DEF Handles
  <2>3. CASE x # h.path
    <3>1. HasPath(x) # {}
      BY <1>4, <1>5, <2>1, <2>2, <2>3 DEF Lower
    <3>2. IdsAt(x)' = IdsAt(x)
      BY <2>3 DEF Handles
    <3>3. QED
      BY <3>1, <3>2, IdsAtIs
  <2>4. CASE x = h.path
    <3>1. About(events, x) = {}
      BY <1>2, <2>1 DEF Order, Foreign, About
    <3>2. h.kind # "Removed"
      BY <1>4, <1>5, <2>1, <2>4, <3>1 DEF Latest
    <3>3. HasPath(Front(x)) # {}
      BY <2>2 DEF ReadAt
    <3>4. QED
      BY <2>1, <2>4, <3>2, <3>3 DEF Handles
  <2>5. QED
    BY <2>3, <2>4
<1>8. Upper(x)'
  <2> DEFINE n  == Cardinality(IdsAt(x))
             n1 == Cardinality(IdsAt(x)')
             b  == Cardinality(Removals(batch, x))
             b1 == Cardinality(Removals(batch', x))
             r  == Cardinality(Removals(events, x))
  <2>1. SUFFICES ASSUME Removals(batch', Front(x)) = {}, Removals(events, Front(x)) = {}
                 PROVE  n1 <= b1 + r + Present(x)
    BY <1>1 DEF Upper, Calm, Present
  <2>2. /\ n \in Nat /\ n1 \in Nat /\ b \in Nat /\ b1 \in Nat /\ r \in Nat /\ Present(x) \in Nat
        /\ IsFiniteSet(IdsAt(x))
    <3>1. batch' \in Seq(Events)
      BY <1>2, RestFacts
    <3>2. QED
      BY <1>2, <3>1, CountedFacts, HereFacts DEF Present
  <2>3. b <= b1 + (IF h.path = x /\ h.kind = "Removed" THEN 1 ELSE 0)
    BY <1>5
  <2>4. CASE h.path = Front(x) /\ h.kind = "Removed"
    <3>1. x # h.path /\ x \in Children(h.path)
      BY <1>3, <2>4, PathFacts DEF Children
    <3>2. IdsAt(x)' = {}
      BY <1>3, <2>4, <3>1 DEF Handles
    <3>3. n1 = 0
      BY <3>2, FS_EmptySet
    <3>4. QED
      BY <2>2, <3>3
  <2>5. CASE ~(h.path = Front(x) /\ h.kind = "Removed")
    <3>1. Calm(Front(x))
      BY <1>5, <2>1, <2>5 DEF Calm
    <3>2. n <= b + r + Present(x)
      BY <1>4, <3>1 DEF Upper
    <3>3. CASE x # h.path
      <4>1. n1 = n
        BY <3>3 DEF Handles
      <4>2. b <= b1
        BY <2>2, <2>3, <3>3
      <4>3. QED
        BY <2>2, <3>2, <4>1, <4>2
    <3>4. CASE x = h.path /\ h.kind # "Removed"
      <4>1. n1 = n \/ n1 <= Present(x)
        BY <3>4 DEF Handles
      <4>2. b <= b1
        BY <2>2, <2>3, <3>4
      <4>3. QED
        BY <2>2, <3>2, <4>1, <4>2
    <3>5. CASE x = h.path /\ h.kind = "Removed"
      <4>1. IdsAt(x)' = {} \/ \E i \in IdsAt(x) : IdsAt(x)' \subseteq IdsAt(x) \ {i}
        BY <3>5 DEF Handles
      <4>2. CASE IdsAt(x)' = {}
        <5>1. n1 = 0
          BY <4>2, FS_EmptySet
        <5>2. QED
          BY <2>2, <5>1
      <4>3. ASSUME NEW i \in IdsAt(x), IdsAt(x)' \subseteq IdsAt(x) \ {i}
            PROVE  n1 <= b1 + r + Present(x)
        <5>1. IsFiniteSet(IdsAt(x) \ {i}) /\ Cardinality(IdsAt(x) \ {i}) = n - 1
          BY <2>2, FS_RemoveElement
        <5>2. n1 <= n - 1
          BY <4>3, <5>1, FS_Subset
        <5>3. b <= b1 + 1
          BY <2>3, <3>5
        <5>4. QED
          BY <2>2, <3>2, <5>2, <5>3
      <4>4. QED
        BY <4>1, <4>2, <4>3
    <3>6. QED
      BY <3>3, <3>4, <3>5
  <2>6. QED
    BY <2>4, <2>5
<1>9. QED
  BY <1>6, <1>7, <1>8

LEMMA HandledKeeps ==
  ASSUME TreeInv, batch # <<>>, batch' = Tail(batch),
         UNCHANGED <<fs, echo, reading, asked, ops, changes>>,
         drift \subseteq drift', drift' \subseteq Reasons \X Dirs, NEW gone, NEW new,
         Tree(mounted'), TreeStep(mounted, mounted', gone, new), SetTree(mounted'),
         NEW h, h = Head(batch), Handles(h),
         \A y \in new : ~y.destroyed /\ Lies(y.parent, y.path)' /\ y.path # Root,
         \A x \in Objects : /\ x.id \notin gone /\ x.parent \in gone
                            /\ Lies(x.parent, x.path) /\ x.path # Root
                            => Exc(x.path)' \/ Lies(x.parent, x.path)'
  PROVE  TreeInv'
<1>1. /\ TreeTypeOK /\ Order /\ Unwatched /\ RootOne /\ AskedOK /\ Placed
      /\ batch \in Seq(Events) /\ DiskOK
  BY TreeInvFacts DEF TreeInv, TreeAgrees
<1>2. /\ disk' = disk /\ watched' = watched /\ events' = events
  BY DEF fs
<1>3. MountedIds' = IdsOf(mounted')
  BY DEF MountedIds, IdsOf, Objects
<1>4. DiskOK' /\ batch' \in Seq(Events)
  BY <1>1, <1>2, RestFacts DEF DiskOK, WatchedFolders, IsFolder
<1>5. reading' = NoId /\ Order'
  BY <1>1, <1>2 DEF Order
<1>6. TreeTypeOK'
  <2>1. disk' \in Disks /\ watched' \subseteq Paths \cup {Root} /\ events' \in Seq(Events)
    BY <1>4 DEF DiskOK, Dirs
  <2>2. /\ mounted' \in Seq(Entries)
        /\ \A i, j \in DOMAIN mounted' : mounted'[i].id = mounted'[j].id => i = j
    BY DEF Tree, Unique
  <2>3. listed' \cup visited' \subseteq MountedIds'
    BY <1>3 DEF SetTree, IdsOf
  <2>4. drift' \subseteq Reasons \X (Paths \cup {Root})
    BY DEF Dirs
  <2>5. echo' \subseteq Paths /\ ops' \in 0 .. MaxOps /\ changes' \in 0 .. MaxChanges
        /\ (asked' = NoRequest \/ (asked'.id \in Ids /\ Proper(asked')))
    BY <1>1 DEF TreeTypeOK
  <2>6. QED
    BY <1>4, <1>5, <2>1, <2>2, <2>3, <2>4, <2>5 DEF TreeTypeOK, Proper
<1>7. TreeAgrees'
  BY <1>6 DEF TreeAgrees, Tree, Linked, Objects
<1>8. Placed'
  BY <1>1, PlacedStep
<1>9. RootOne'
  BY <1>1, RootStep
<1>10. AskedOK'
  BY <1>1, AskedStep
<1>11. Unwatched'
  <2>1. SUFFICES ASSUME Root \notin watched, NEW x \in TopPaths
                 PROVE  About(events, x) = {} /\ About(batch', x) = {} /\ (Exc(x)' \/ Single(x)')
    BY <1>2 DEF Unwatched
  <2>2. About(events, x) = {} /\ About(batch, x) = {} /\ (Exc(x) \/ Single(x))
    BY <1>1, <2>1 DEF Unwatched
  <2>3. About(batch', x) = {} /\ h.path # x
    BY <1>1, <2>2, HandledFacts
  <2>4. IdsAt(x)' = IdsAt(x)
    BY <2>3 DEF Handles
  <2>5. QED
    BY <2>2, <2>3, <2>4, ExcGrows DEF Single
<1>12. Followed'
  BY HandledFollows
<1>13. WatchedFolders'
  BY <1>4 DEF DiskOK
<1>14. QED
  BY <1>5, <1>7, <1>8, <1>9, <1>10, <1>11, <1>12, <1>13 DEF TreeInv

LEMMA NothingHandled ==
  ASSUME TreeInv, batch # <<>>, batch' = Tail(batch),
         UNCHANGED <<fs, echo, reading, asked, ops, changes, tree, drift>>,
         NEW h, h = Head(batch), Handles(h)
  PROVE  TreeInv'
<1>1. /\ Tree(mounted) /\ drift \subseteq Reasons \X Dirs /\ MountedIds = IdsOf(mounted)
      /\ listed \subseteq MountedIds /\ visited \subseteq MountedIds
  BY TreeInvFacts DEF TreeInv, TreeAgrees, TreeTypeOK, Dirs
<1>2. mounted' = mounted /\ listed' = listed /\ visited' = visited /\ drift' = drift
  BY DEF tree
<1>3. SetTree(mounted') /\ TreeStep(mounted, mounted', {}, {}) /\ Tree(mounted')
  BY <1>1, <1>2, StillTree DEF SetTree, IdsOf
<1>4. QED
  BY <1>1, <1>2, <1>3, HandledKeeps

LEMMA CreatedStep ==
  ASSUME TreeInv, batch # <<>>, batch' = Tail(batch),
         UNCHANGED <<fs, echo, reading, asked, ops, changes, drift>>,
         NEW h, h = Head(batch), h.kind # "Removed", HandleCreated(h.path)
  PROVE  TreeInv'
<1>1. /\ Tree(mounted) /\ DiskOK /\ batch \in Seq(Events) /\ drift \subseteq Reasons \X Dirs
      /\ listed \subseteq MountedIds
  BY TreeInvFacts DEF TreeInv, TreeAgrees, TreeTypeOK, Dirs
<1>2. PICK p \in Paths : p = h.path
  BY <1>1, HandledFacts
<1>3. CASE HasPath(p) # {} \/ disk[p] = "none" \/ HasPath(Front(p)) = {}
  <2>1. UNCHANGED tree
    BY <1>2, <1>3 DEF HandleCreated
  <2>2. /\ \A x : IdsAt(x)' = IdsAt(x) /\ (ReadAt(x) <=> ReadAt(x)')
    BY <2>1, TreeStays DEF tree
  <2>3. Handles(h)
    BY <1>2, <1>3, <2>2, IdsAtIs DEF Handles
  <2>4. QED
    BY <2>1, <2>3, NothingHandled
<1>4. CASE HasPath(p) = {} /\ disk[p] # "none" /\ HasPath(Front(p)) # {}
  <2>1. PICK d \in HasPath(Front(p)) : find_object_by_path(Front(p)) = d.id
    BY <1>1, <1>4, FoundFacts
  <2>2. PICK o : o = NewObject(Fresh(1), p, disk[p], d.id)
    OBVIOUS
  <2>3. Free # {} /\ mounted' = Mount(mounted, o) /\ SetTree(mounted')
    BY <1>2, <1>4, <2>1, <2>2 DEF HandleCreated, SetTree
  <2>4. /\ d \in Objects /\ d.path = Front(p) /\ d.id \in Ids /\ d.id \in Held
        /\ Lies(d.id, p) /\ d.id \in Ids \cup {NoId} /\ d.id \in Held \cup {NoId}
    BY <1>1, <2>1, ObjectFacts DEF HasPath, Held, Lies
  <2>5. disk[p] \in Kinds /\ p \in Dirs /\ p # Root
    BY <1>1, <1>4, DiskFacts, PathFacts DEF DiskOK, Kinds, Dirs
  <2>6. /\ Tree(mounted') /\ TreeStep(mounted, mounted', {}, {o})
        /\ o.path = p /\ o.parent = d.id /\ ~o.destroyed /\ o.id \notin MountedIds
    <3>1. PICK kind \in Kinds : kind = disk[p]
      BY <2>5
    <3>2. PICK parent \in Ids : parent = d.id
      BY <2>4
    <3>3. parent \in Ids \cup {NoId} /\ parent \in Held \cup {NoId}
      BY <2>4, <3>2
    <3>4. o = NewObject(Fresh(1), p, kind, parent)
      BY <2>2, <3>1, <3>2
    <3>5. /\ Tree(Mount(mounted, o)) /\ TreeStep(mounted, Mount(mounted, o), {}, {o})
          /\ o.path = p /\ o.parent = parent /\ ~o.destroyed /\ o.id \notin MountedIds
      <4>1. Tree(mounted) /\ Free # {} /\ p \in Dirs
        BY <1>1, <2>3, <2>5
      <4>2. QED
        BY <3>3, <3>4, <4>1, MountNew
    <3>6. QED
      BY <2>3, <3>2, <3>5
  <2>7. Lies(o.parent, o.path)'
    BY <2>4, <2>6, LiesStep
  <2>8. \A x : IdsAt(x)' = IdsAt(x) \cup {y.id : y \in {z \in {o} : z.path = x}}
    BY <2>6, HereStep, IdsAtIs
  <2>9. \A x : x # p => IdsAt(x)' = IdsAt(x)
    BY <2>6, <2>8
  <2>10. IdsAt(p)' = {o.id}
    <3>1. IdsAt(p) = {}
      BY <1>4, IdsAtIs
    <3>2. QED
      BY <2>6, <2>8, <3>1
  <2>11. Cardinality(IdsAt(p)') <= Present(p)
    <3>1. Cardinality({o.id}) = 1
      BY FS_Singleton
    <3>2. QED
      BY <1>4, <2>10, <3>1 DEF Present
  <2>12. \A P : ReadAt(P)' => ReadAt(P)
    <3>1. listed' \subseteq listed
      BY <2>3 DEF SetTree
    <3>2. o.id \notin listed'
      BY <1>1, <2>6, <3>1
    <3>3. QED
      BY <2>6, <3>1, <3>2, ReadStep
  <2>13. Handles(h)
    BY <1>2, <2>9, <2>10, <2>11, <2>12 DEF Handles
  <2>14. /\ \A y \in {o} : ~y.destroyed /\ Lies(y.parent, y.path)' /\ y.path # Root
         /\ drift \subseteq drift' /\ drift' \subseteq Reasons \X Dirs
    BY <1>1, <2>5, <2>6, <2>7
  <2>15. QED
    BY <2>3, <2>6, <2>13, <2>14, HandledKeeps
<1>5. QED
  BY <1>3, <1>4

LEMMA RemovedStep ==
  ASSUME TreeInv, batch # <<>>, batch' = Tail(batch),
         UNCHANGED <<fs, echo, reading, asked, ops, changes>>,
         NEW h, h = Head(batch), h.kind = "Removed", HandleRemoved(h.path)
  PROVE  TreeInv'
<1>1. /\ Tree(mounted) /\ DiskOK /\ batch \in Seq(Events) /\ drift \subseteq Reasons \X Dirs
      /\ Placed
  BY TreeInvFacts DEF TreeInv, TreeAgrees, TreeTypeOK, Dirs
<1>2. PICK p \in Paths : p = h.path
  BY <1>1, HandledFacts
<1>3. CASE HasPath(p) = {}
  <2>1. UNCHANGED <<tree, drift>>
    BY <1>2, <1>3 DEF HandleRemoved
  <2>2. \A x : IdsAt(x)' = IdsAt(x) /\ (ReadAt(x) <=> ReadAt(x)')
    BY <2>1, TreeStays DEF tree
  <2>3. IdsAt(p)' = {}
    BY <1>3, <2>2, IdsAtIs
  <2>4. ASSUME NEW x \in Children(p), IdsAt(x) # {} PROVE Exc(x)'
    <3>1. PICK o \in Objects : o.path = x
      BY <2>4 DEF IdsAt, HasPath
    <3>2. x # Root /\ Front(x) = p
      BY PathFacts DEF Children
    <3>3. ~Lies(o.parent, x)
      BY <1>3, <3>2 DEF Lies, HasPath
    <3>4. Exc(x)
      BY <1>1, <3>1, <3>2, <3>3 DEF Placed
    <3>5. QED
      BY <2>1, <3>4, ExcGrows
  <2>5. Handles(h)
    BY <1>2, <2>2, <2>3, <2>4 DEF Handles
  <2>6. QED
    BY <2>1, <2>5, NothingHandled
<1>4. CASE HasPath(p) # {}
  <2>1. PICK o \in HasPath(p) : find_object_by_path(p) = o.id
    BY <1>1, <1>4, FoundFacts
  <2>2. o \in Objects /\ o.path = p /\ Object(o.id) = o
    BY <1>1, <2>1, ObjectFacts DEF HasPath
  <2>3. /\ mounted' = Unmount(mounted, o.id, o.parent) /\ SetTree(mounted')
        /\ drift' = drift \cup Stranded(p)
    <3>1. LET y == Object(find_object_by_path(p))
          IN  SetTree(Unmount(mounted, y.id, y.parent)) /\ drift' = drift \cup Stranded(p)
      BY <1>2, <1>4 DEF HandleRemoved
    <3>2. SetTree(Unmount(mounted, o.id, o.parent)) /\ drift' = drift \cup Stranded(p)
      BY <2>1, <2>2, <3>1
    <3>3. QED
      BY <3>2 DEF SetTree
  <2>4. Tree(mounted') /\ TreeStep(mounted, mounted', {o.id}, {})
    BY <1>1, <2>2, <2>3, UnmountTree DEF Objects
  <2>5. drift \subseteq drift' /\ drift' \subseteq Reasons \X Dirs /\ Stranded(o.path) \subseteq drift'
    BY <1>1, <2>2, <2>3, DriftTypes
  <2>6. ASSUME NEW x \in Objects, x.parent = o.id, Lies(x.parent, x.path), x.path # Root
        PROVE  Exc(x.path)'
    BY <1>1, <2>2, <2>5, <2>6, OrphansExcused
  <2>7. \A x : IdsAt(x)' = IdsAt(x) \ {o.id}
    <3>1. \A x : IdsAt(x)' = (IdsAt(x) \ {o.id}) \cup {y.id : y \in {z \in {} : z.path = x}}
      BY <2>4, HereStep, IdsAtIs
    <3>2. QED
      BY <3>1
  <2>8. o.id \in IdsAt(p) /\ \A x : x # p => o.id \notin IdsAt(x)
    BY <1>1, <2>2, ObjectFacts DEF IdsAt, HasPath
  <2>9. \A P : ReadAt(P)' => ReadAt(P)
    BY <2>3, <2>4, ReadStep DEF SetTree
  <2>10. ASSUME NEW x \in Children(p), IdsAt(x) # {} PROVE Exc(x)'
    <3>1. PICK y \in Objects : y.path = x
      BY <2>10 DEF IdsAt, HasPath
    <3>2. Below(p, x)
      BY PathFacts DEF Children, Below, Within
    <3>3. QED
      BY <2>2, <2>5, <3>1, <3>2, StrandedExcuses
  <2>11. Handles(h)
    BY <1>2, <2>7, <2>8, <2>9, <2>10 DEF Handles
  <2>12. QED
    BY <2>3, <2>4, <2>5, <2>6, <2>11, HandledKeeps
<1>5. QED
  BY <1>3, <1>4

LEMMA FsChangeStep ==
  ASSUME TreeInv, handle_fs_change
  PROVE  TreeInv'
<1>1. /\ batch # <<>> /\ batch' = Tail(batch)
      /\ UNCHANGED <<fs, echo, reading, asked, ops, changes>>
      /\ \/ /\ Head(batch).kind \in Created /\ HandleCreated(Head(batch).path)
            /\ UNCHANGED drift
         \/ Head(batch).kind = "Removed" /\ HandleRemoved(Head(batch).path)
  BY DEF handle_fs_change
<1>2. PICK h : h = Head(batch)
  OBVIOUS
<1>3. CASE h.kind \in Created /\ HandleCreated(h.path) /\ UNCHANGED drift
  <2>1. h.kind # "Removed"
    BY <1>3 DEF Created
  <2>2. QED
    BY <1>1, <1>2, <1>3, <2>1, CreatedStep
<1>4. CASE h.kind = "Removed" /\ HandleRemoved(h.path)
  BY <1>1, <1>2, <1>4, RemovedStep
<1>5. QED
  BY <1>1, <1>2, <1>3, <1>4

LEMMA FewFacts ==
  ASSUME NEW S, IsFiniteSet(S), Cardinality(S) <= 1
  PROVE  \A i, j \in S : i = j
<1>1. SUFFICES ASSUME NEW i \in S, NEW j \in S, i # j PROVE FALSE
  OBVIOUS
<1>2. {i, j} \subseteq S /\ IsFiniteSet({i, j}) /\ Cardinality({i, j}) = 2
  <2>1. IsFiniteSet({i}) /\ Cardinality({i}) = 1
    BY FS_Singleton
  <2>2. {i} \cup {j} = {i, j} /\ j \notin {i}
    BY <1>1
  <2>3. QED
    BY <1>1, <2>1, <2>2, FS_AddElement
<1>3. Cardinality({i, j}) <= Cardinality(S) /\ Cardinality(S) \in Nat
  BY <1>2, FS_Subset, FS_CardinalityType
<1>4. QED
  BY <1>2, <1>3

(* Where nothing is said of a folder's own removal, one object stands for   *)
(* it ...                                                                   *)
LEMMA OneParent ==
  ASSUME TreeInv, NEW P \in Dirs, IsFolder(P), ~Exc(P), Calm(P)
  PROVE  Single(P)
<1>1. /\ Tree(mounted) /\ DiskOK /\ batch \in Seq(Events) /\ events \in Seq(Events)
      /\ RootOne /\ Followed /\ Unwatched
  BY TreeInvFacts DEF TreeInv
<1>2. P = Root \/ P \in TopPaths
  BY <1>1, DiskFacts DEF DiskOK
<1>3. CASE P = Root
  BY <1>1, <1>3 DEF RootOne
<1>4. CASE P \in TopPaths /\ Root \notin watched
  BY <1>1, <1>4 DEF Unwatched
<1>5. CASE P \in TopPaths /\ Root \in watched
  <2>1. P \in Paths /\ Front(P) = Root
    BY <1>5, PathFacts
  <2>2. Upper(P)
    BY <1>1, <1>5, <2>1 DEF Followed
  <2>3. About(batch, Root) = {} /\ About(events, Root) = {}
    BY <1>1, EventsFacts, PathFacts DEF About
  <2>4. Calm(Root)
    BY <2>3 DEF Calm, Removals
  <2>5. Cardinality(IdsAt(P)) <= Cardinality(Removals(batch, P))
                                   + Cardinality(Removals(events, P)) + Present(P)
    BY <2>1, <2>2, <2>4 DEF Upper
  <2>6. Cardinality(Removals(batch, P)) = 0 /\ Cardinality(Removals(events, P)) = 0
    BY FS_EmptySet DEF Calm
  <2>7. IsFiniteSet(IdsAt(P)) /\ Cardinality(IdsAt(P)) \in Nat
    BY <1>1, HereFacts, IdsAtIs
  <2>8. Cardinality(IdsAt(P)) <= 1
    BY <2>5, <2>6, <2>7 DEF Present
  <2>9. QED
    BY <2>7, <2>8, FewFacts DEF Single
<1>6. QED
  BY <1>2, <1>3, <1>4, <1>5

(* ... and it lists all there is at the paths in it.                        *)
LEMMA OnlyUnder ==
  ASSUME TreeInv, NEW o \in Objects, NEW x \in Paths, Front(x) = o.path, ~Exc(x), Single(o.path),
         NEW c \in HasPath(x)
  PROVE  ~c.destroyed /\ c.id \in o.children
<1>1. /\ Tree(mounted) /\ Placed
      /\ \A y \in Objects : y.children = {z.id : z \in {w \in Objects : w.parent = y.id}}
  BY TreeInvFacts DEF TreeInv, TreeAgrees
<1>2. c \in Objects /\ c.path = x /\ x # Root
  BY PathFacts DEF HasPath
<1>3. ~c.destroyed /\ Lies(c.parent, x)
  BY <1>1, <1>2 DEF Placed
<1>4. PICK d \in Objects : d.id = c.parent /\ d.path = o.path
  BY <1>3 DEF Lies
<1>5. d.id = o.id
  BY <1>4 DEF Single, IdsAt, HasPath
<1>6. QED
  BY <1>1, <1>2, <1>3, <1>4, <1>5

LEMMA WatchTells ==
  ASSUME TreeInv, NEW o \in Objects, Watch(o), batch = <<>>,
         UNCHANGED <<disk, events, batch, echo, mounted, listed, asked>>,
         drift \subseteq drift', o.path \notin watched, IsFolder(o.path),
         NEW x \in Paths, Front(x) = o.path, ~Exc(x)'
  PROVE  (Latest(x) /\ Lower(x) /\ Upper(x))'
<1>1. /\ Tree(mounted) /\ DiskOK /\ events \in Seq(Events)
      /\ disk' = disk /\ events' = events /\ batch' = <<>> /\ mounted' = mounted
  BY TreeInvFacts
<1>2. ShownRightly(o, x) /\ \A e \in ToSet(events) : e.path # x
  <2>1. SUFFICES ASSUME ~ShownRightly(o, x) \/ \E e \in ToSet(events) : e.path = x PROVE FALSE
    OBVIOUS
  <2>2. \E why \in {"gap", "unread"} : <<why, x>> \in drift'
    <3>1. x \in {q \in Children(o.path) : \/ ~ShownRightly(o, q)
                                          \/ \E e \in ToSet(events) : e.path = q}
      BY <2>1 DEF Children
    <3>2. QED
      BY <3>1 DEF Watch
  <2>3. QED
    BY <2>2, ReasonExcuses, WithinFacts DEF Reasons
<1>3. About(events, x) = {}
  BY <1>2 DEF About, ToSet
<1>4. About(batch, x) = {} /\ Removals(batch, x) = {} /\ Removals(events, x) = {}
  BY <1>3, EmptyAbout DEF Removals
<1>5. \A p : HasPath(p)' = HasPath(p) /\ IdsAt(p)' = IdsAt(p)
  BY TreeStays
<1>6. Latest(x)'
  BY <1>1, <1>3, <1>4 DEF Latest, Ends
<1>7. Lower(x)'
  <2>1. disk[x] # "none" => HasPath(x) # {}
    BY <1>2 DEF ShownRightly, Shows
  <2>2. QED
    BY <1>1, <1>5, <2>1 DEF Lower
<1>8. Upper(x)'
  <2>1. SUFFICES ASSUME Calm(o.path)
                 PROVE  Cardinality(IdsAt(x)) <= 0 + 0 + Present(x)
    BY <1>1, <1>4, <1>5, FS_EmptySet DEF Upper, Calm, Present
  <2>2. o.path \in Dirs /\ ~Exc(x) /\ ~Exc(o.path)
    BY <1>1, ObjectFacts, ExcGrows, ExcBelow DEF Dirs
  <2>3. Single(o.path)
    BY <2>1, <2>2, OneParent
  <2>4. \A c \in HasPath(x) : c \in Shows(o, x)
    BY <2>2, <2>3, OnlyUnder DEF Shows
  <2>5. CASE disk[x] = "none"
    <3>1. HasPath(x) = {}
      BY <1>2, <2>4, <2>5 DEF ShownRightly
    <3>2. IdsAt(x) = {}
      BY <3>1, IdsAtIs
    <3>3. QED
      BY <2>5, <3>2, FS_EmptySet DEF Present
  <2>6. CASE disk[x] # "none"
    <3>1. PICK c : Shows(o, x) = {c}
      BY <1>2, <2>6 DEF ShownRightly
    <3>2. IdsAt(x) \subseteq {c.id}
      BY <2>4, <3>1 DEF IdsAt
    <3>3. IsFiniteSet({c.id}) /\ Cardinality({c.id}) = 1
      BY FS_Singleton
    <3>4. Cardinality(IdsAt(x)) <= 1
      BY <3>2, <3>3, FS_Subset
    <3>5. QED
      BY <2>6, <3>4 DEF Present
  <2>7. QED
    BY <2>5, <2>6
<1>9. QED
  BY <1>6, <1>7, <1>8

LEMMA WatchStep ==
  ASSUME TreeInv, NEW o \in Objects, Watch(o), batch = <<>>,
         UNCHANGED <<disk, events, batch, echo, mounted, listed, asked>>,
         visited' \subseteq MountedIds, reading' \in MountedIds \cup {NoId},
         ops' \in 0 .. MaxOps, changes' \in 0 .. MaxChanges
  PROVE  TreeInv'
<1>1. /\ Tree(mounted) /\ DiskOK /\ events \in Seq(Events) /\ TreeTypeOK /\ Unwatched /\ Followed
      /\ disk' = disk /\ events' = events /\ batch' = <<>> /\ mounted' = mounted
      /\ listed' = listed /\ batch' = batch
  BY TreeInvFacts DEF TreeInv, TreeAgrees
<1>2. /\ watched \subseteq watched' /\ drift \subseteq drift'
      /\ \A w \in watched' : w \in watched \/ (w = o.path /\ IsFolder(o.path))
  BY DEF Watch
<1>3. drift' \subseteq Reasons \X Dirs
  <2> DEFINE missed == {q \in Children(o.path) : \/ ~ShownRightly(o, q)
                                                \/ \E e \in ToSet(events) : e.path = q}
  <2>1. drift' = drift \/ drift' = drift \cup ({"gap"} \X missed)
        \/ drift' = drift \cup ({"unread"} \X missed)
    BY DEF Watch
  <2>2. missed \subseteq Dirs
    BY DEF Children, Dirs
  <2> HIDE DEF missed
  <2>3. drift \subseteq Reasons \X Dirs
    BY <1>1 DEF TreeTypeOK, Dirs
  <2>4. QED
    BY <2>1, <2>2, <2>3 DEF Reasons
<1>4. DiskOK'
  <2>1. o.path \in Dirs
    BY <1>1, ObjectFacts
  <2>2. QED
    BY <1>1, <1>2, <2>1 DEF DiskOK, WatchedFolders, IsFolder
<1>5. /\ \A p : HasPath(p)' = HasPath(p) /\ IdsAt(p)' = IdsAt(p)
      /\ \A p : (ReadAt(p) <=> ReadAt(p)') /\ (Single(p) <=> Single(p)')
  BY <1>1, TreeStays
<1>6. Unwatched'
  <2>1. ASSUME NEW p \in TopPaths, Root \notin watched'
        PROVE  /\ About(events', p) = {} /\ About(batch', p) = {}
               /\ Exc(p)' \/ Single(p)'
    BY <1>1, <1>2, <1>5, <2>1, ExcGrows DEF Unwatched
  <2>2. QED
    BY <2>1 DEF Unwatched
<1>7. Followed'
  <2>1. SUFFICES ASSUME NEW x \in Paths, Front(x) \in watched', ~Exc(x)'
                 PROVE  (Latest(x) /\ Lower(x) /\ Upper(x))'
    BY DEF Followed
  <2>2. CASE Front(x) \in watched
    <3>1. Latest(x) /\ Lower(x) /\ Upper(x)
      BY <1>1, <1>2, <2>1, <2>2, ExcGrows DEF Followed
    <3>2. (Latest(x) <=> Latest(x)') /\ (Lower(x) <=> Lower(x)') /\ (Upper(x) <=> Upper(x)')
      BY <1>1, <1>5 DEF Latest, Lower, Upper, Ends, Calm, Present
    <3>3. QED
      BY <3>1, <3>2
  <2>3. CASE Front(x) \notin watched
    <3>1. Front(x) = o.path /\ o.path \notin watched /\ IsFolder(o.path)
      BY <1>2, <2>1, <2>3
    <3>2. QED
      BY <1>2, <2>1, <3>1, WatchTells
  <2>4. QED
    BY <2>2, <2>3
<1>8. Order' /\ batch' \in Seq(Events) /\ echo' \subseteq Paths
  BY <1>1 DEF Order, TreeTypeOK
<1>9. QED
  BY <1>2, <1>3, <1>4, <1>6, <1>7, <1>8, TreeKept

LEMMA RegisterStep ==
  ASSUME TreeInv, RegisterWatch
  PROVE  TreeInv'
<1>1. /\ reading # NoId /\ Watch(Object(reading)) /\ reading' = NoId
      /\ UNCHANGED <<disk, events, batch, echo, mounted, listed, visited, asked, ops, changes>>
  BY DEF RegisterWatch, tree
<1>2. Tree(mounted) /\ TreeTypeOK /\ Order /\ visited \subseteq MountedIds
  BY TreeInvFacts DEF TreeInv, TreeAgrees
<1>3. PICK o \in Objects : o = Object(reading)
  BY <1>1, <1>2, ObjectFacts DEF TreeTypeOK
<1>4. batch = <<>>
  BY <1>1, <1>2 DEF Order
<1>5. ops' \in 0 .. MaxOps /\ changes' \in 0 .. MaxChanges
  BY <1>1, <1>2 DEF TreeTypeOK
<1>6. QED
  BY <1>1, <1>2, <1>3, <1>4, <1>5, WatchStep

LEMMA ExpandAgainStep ==
  ASSUME TreeInv, Idle, Spend, NEW o \in Objects, ExpandAgain(o)
  PROVE  TreeInv'
<1>1. /\ Watch(o) /\ visited' = visited \cup {o.id}
      /\ UNCHANGED <<disk, events, batch, echo, mounted, listed, reading, asked>>
  BY DEF ExpandAgain
<1>2. Tree(mounted) /\ TreeTypeOK /\ visited \subseteq MountedIds
  BY TreeInvFacts DEF TreeInv, TreeAgrees
<1>3. visited' \subseteq MountedIds /\ reading' \in MountedIds \cup {NoId}
  BY <1>1, <1>2, ObjectFacts DEF TreeTypeOK
<1>4. batch = <<>>
  BY DEF Idle
<1>5. QED
  BY <1>1, <1>3, <1>4, SpendFacts, WatchStep

(* The objects a folder is filled with: one for each path found in it.      *)
KidsOf(o, F, kids) ==
  /\ kids \in Seq(Entries) /\ Unique(kids)
  /\ \A c \in ToSet(kids) : /\ c.parent = o.id /\ c.children = {} /\ c.id \in Free
                            /\ ~c.destroyed /\ c.path \in F
  /\ \A q \in F : \E c \in ToSet(kids) : c.path = q
  /\ \A c, d \in ToSet(kids) : c.path = d.path => c = d

LEMMA FoundInFolder ==
  ASSUME NEW F, IsFiniteSet(F), NEW found, found = SetToSeq(F), NEW n, n = Cardinality(F)
  PROVE  /\ n \in Nat /\ DOMAIN found = 1 .. n /\ Len(found) = n
         /\ \A i, j \in 1 .. n : found[i] = found[j] => i = j
         /\ \A q \in F : \E i \in 1 .. n : found[i] = q
         /\ \A i \in 1 .. n : found[i] \in F
<1>1. /\ n \in Nat /\ DOMAIN found = 1 .. n /\ Len(found) = n
      /\ \A i, j \in 1 .. n : found[i] = found[j] => i = j
      /\ ToSet(found) = F
  BY SetToSeqFacts
<1>2. \A q \in ToSet(found) : \E i \in 1 .. n : found[i] = q
  BY <1>1 DEF ToSet
<1>3. \A i \in 1 .. n : found[i] \in ToSet(found)
  BY <1>1 DEF ToSet
<1>4. QED
  BY <1>1, <1>2, <1>3

LEMMA KidsFacts ==
  ASSUME Tree(mounted), NEW o \in Objects, NEW F, IsFiniteSet(F),
         \A q \in F : q \in Dirs /\ disk[q] \in Kinds,
         NEW found, found = SetToSeq(F), Len(found) <= Cardinality(Free),
         NEW kids, kids = [i \in DOMAIN found |-> kids[i]],
         \A i \in DOMAIN found : kids[i] = NewObject(Fresh(i), found[i], disk[found[i]], o.id)
  PROVE  /\ KidsOf(o, F, kids)
         /\ \A i \in DOMAIN found : Fresh(i) \in IdsOf(kids)
         /\ \A id \in IdsOf(kids) : \E i \in DOMAIN found : id = Fresh(i)
<1>1. PICK n : n = Cardinality(F)
  OBVIOUS
<1>2. /\ n \in Nat /\ DOMAIN found = 1 .. n /\ Len(found) = n
      /\ \A i, j \in 1 .. n : found[i] = found[j] => i = j
      /\ \A q \in F : \E i \in 1 .. n : found[i] = q
      /\ \A i \in 1 .. n : found[i] \in F
  BY <1>1, FoundInFolder
<1>3. /\ \A i \in 1 .. n : Fresh(i) \in Free /\ Fresh(i) \in Ids
      /\ \A i, j \in 1 .. n : Fresh(i) = Fresh(j) => i = j
  <2>1. n <= Cardinality(Free) /\ Cardinality(Free) \in Nat
    BY <1>2, FreshFacts
  <2>2. \A i \in 1 .. n : i \in 1 .. Cardinality(Free)
    BY <1>2, <2>1
  <2>3. QED
    BY <2>2, FreshFacts
<1>4. \A i \in 1 .. n : /\ kids[i] \in Entries /\ kids[i].id = Fresh(i) /\ kids[i].path = found[i]
                        /\ kids[i].parent = o.id /\ kids[i].children = {} /\ ~kids[i].destroyed
  <2>1. ASSUME NEW i \in 1 .. n
        PROVE  /\ kids[i] \in Entries /\ kids[i].id = Fresh(i) /\ kids[i].path = found[i]
               /\ kids[i].parent = o.id /\ kids[i].children = {} /\ ~kids[i].destroyed
    <3>1. PICK id \in Ids : id = Fresh(i)
      BY <1>3
    <3>2. PICK q \in Dirs : q = found[i] /\ disk[q] \in Kinds
      BY <1>2
    <3>3. PICK kind \in Kinds : kind = disk[q]
      BY <3>2
    <3>4. PICK parent \in Ids \cup {NoId} : parent = o.id
      BY ObjectFacts
    <3>5. kids[i] = NewObject(id, q, kind, parent)
      BY <1>2, <3>1, <3>2, <3>3, <3>4
    <3>6. QED
      BY <3>1, <3>2, <3>4, <3>5, NewFacts
  <2>2. QED
    BY <2>1
<1>5. kids \in Seq(Entries) /\ DOMAIN kids = 1 .. n
  <2>1. kids = [i \in 1 .. n |-> kids[i]]
    BY <1>2
  <2>2. QED
    BY <1>2, <1>4, <2>1
<1>6. Unique(kids)
  BY <1>3, <1>4, <1>5 DEF Unique
<1>7. \A c \in ToSet(kids) : \E i \in 1 .. n : c = kids[i]
  BY <1>5 DEF ToSet
<1>8. \A i \in 1 .. n : kids[i] \in ToSet(kids)
  BY <1>5 DEF ToSet
<1>9. KidsOf(o, F, kids)
  <2>1. \A c \in ToSet(kids) : /\ c.parent = o.id /\ c.children = {} /\ c.id \in Free
                               /\ ~c.destroyed /\ c.path \in F
    BY <1>2, <1>3, <1>4, <1>7
  <2>2. ASSUME NEW q \in F PROVE \E c \in ToSet(kids) : c.path = q
    <3>1. PICK i \in 1 .. n : found[i] = q
      BY <1>2
    <3>2. kids[i] \in ToSet(kids) /\ kids[i].path = q
      BY <1>4, <1>8, <3>1
    <3>3. QED
      BY <3>2
  <2>3. ASSUME NEW c \in ToSet(kids), NEW d \in ToSet(kids), c.path = d.path PROVE c = d
    <3>1. PICK i \in 1 .. n : c = kids[i]
      BY <1>7
    <3>2. PICK j \in 1 .. n : d = kids[j]
      BY <1>7
    <3>3. found[i] = found[j]
      BY <1>4, <2>3, <3>1, <3>2
    <3>4. QED
      BY <1>2, <3>1, <3>2, <3>3
  <2>4. QED
    BY <1>5, <1>6, <2>1, <2>2, <2>3 DEF KidsOf
<1>10. \A id \in IdsOf(kids) : \E i \in DOMAIN found : id = Fresh(i)
  BY <1>2, <1>4, <1>7 DEF IdsOf
<1>11. ASSUME NEW i \in DOMAIN found PROVE Fresh(i) \in IdsOf(kids)
  <2>1. kids[i] \in ToSet(kids) /\ kids[i].id = Fresh(i)
    BY <1>2, <1>4, <1>8
  <2>2. QED
    BY <2>1 DEF IdsOf
<1>12. QED
  BY <1>9, <1>10, <1>11

LEMMA NoneYet ==
  ASSUME TreeInv, NEW o \in Objects, o.children = {}, NEW x \in Paths, Front(x) = o.path, ~Exc(x),
         Single(o.path)
  PROVE  IdsAt(x) = {}
BY OnlyUnder, IdsAtIs

LEMMA ReadFollows ==
  ASSUME TreeInv, NEW o \in Objects, o.children = {}, NEW F,
         F = {q \in Children(o.path) : disk[q] # "none"}, NEW kids, KidsOf(o, F, kids),
         Tree(mounted'), TreeStep(mounted, mounted', {}, ToSet(kids)),
         listed' = listed \cup {o.id}, batch = <<>>, UNCHANGED <<fs, batch, drift>>
  PROVE  Followed' /\ Unwatched'
<1>1. /\ Tree(mounted) /\ DiskOK /\ events \in Seq(Events) /\ batch \in Seq(Events)
      /\ Unwatched /\ Followed /\ RootOne /\ WatchedFolders /\ listed \subseteq MountedIds
      /\ disk' = disk /\ events' = events /\ batch' = batch /\ watched' = watched /\ drift' = drift
  BY TreeInvFacts DEF TreeInv, fs
<1>2. \A p : Exc(p) <=> Exc(p)'
  BY <1>1 DEF Exc, Excused
<1> DEFINE N(x) == {y.id : y \in {z \in ToSet(kids) : z.path = x}}
<1>3. \A x : IdsAt(x)' = IdsAt(x) \cup N(x)
  <2>1. \A x : IdsAt(x)' = (IdsAt(x) \ {}) \cup N(x)
    BY HereStep, IdsAtIs
  <2>2. QED
    BY <2>1
<1>4. \A x : x \notin F => N(x) = {}
  BY DEF KidsOf
<1>5. \A x \in F : \E i : N(x) = {i}
  <2>1. ASSUME NEW x \in F PROVE \E i : N(x) = {i}
    <3>1. PICK c \in ToSet(kids) : c.path = x
      BY DEF KidsOf
    <3>2. N(x) = {c.id}
      BY <3>1 DEF KidsOf
    <3>3. QED
      BY <3>2
  <2>2. QED
    BY <2>1
<1> HIDE DEF N
<1>6. \A x \in Paths : Front(x) # o.path => IdsAt(x)' = IdsAt(x)
  BY <1>3, <1>4 DEF Children
<1>7. ASSUME NEW x \in Paths, Front(x) = o.path, ~Exc(x), Single(o.path)
      PROVE  IF disk[x] = "none" THEN IdsAt(x)' = {} ELSE \E i : IdsAt(x)' = {i}
  <2>1. IdsAt(x) = {}
    BY <1>7, NoneYet
  <2>2. x \in F <=> disk[x] # "none"
    BY <1>7 DEF Children
  <2>3. QED
    BY <1>3, <1>4, <1>5, <2>1, <2>2
<1>8. Unwatched'
  <2>1. SUFFICES ASSUME NEW x \in TopPaths, Root \notin watched
                 PROVE  /\ About(events, x) = {} /\ About(batch, x) = {}
                        /\ Exc(x) \/ Single(x)'
    BY <1>1, <1>2 DEF Unwatched
  <2>2. About(events, x) = {} /\ About(batch, x) = {} /\ (Exc(x) \/ Single(x))
    BY <1>1, <2>1 DEF Unwatched
  <2>3. x \in Paths /\ Front(x) = Root
    BY PathFacts
  <2>4. CASE Root # o.path
    BY <1>6, <2>2, <2>3, <2>4 DEF Single
  <2>5. CASE Root = o.path
    <3>1. Single(o.path)
      BY <1>1, <2>5 DEF RootOne
    <3>2. QED
      BY <1>7, <2>2, <2>3, <2>5, <3>1 DEF Single
  <2>6. QED
    BY <2>4, <2>5
<1>9. \A x : HasPath(x)' # {} <=> IdsAt(x)' # {}
  BY IdsAtIs
<1>10. Followed'
  <2>1. SUFFICES ASSUME NEW x \in Paths, Front(x) \in watched, ~Exc(x)
                 PROVE  (Latest(x) /\ Lower(x) /\ Upper(x))'
    BY <1>1, <1>2 DEF Followed
  <2>2. Latest(x) /\ Lower(x) /\ Upper(x)
    BY <1>1, <2>1 DEF Followed
  <2>3. Latest(x)'
    BY <1>1, <2>2 DEF Latest, Ends
  <2>4. Lower(x)'
    <3>1. SUFFICES ASSUME ReadAt(Front(x))', disk[x] # "none", About(batch, x) = {},
                          Foreign(events, x) = {}
                   PROVE  IdsAt(x)' # {}
      BY <1>1, <1>9 DEF Lower
    <3>2. CASE Front(x) = o.path
      BY <1>3, <1>5, <3>1, <3>2 DEF Children
    <3>3. CASE Front(x) # o.path
      <4>1. PICK y \in ToSet(mounted') : y.path = Front(x) /\ y.id \in listed'
        BY <3>1 DEF ReadAt, HasPath, Objects
      <4>2. PICK z \in ToSet(mounted) : Same(z, y)
        <5>1. ASSUME y \in ToSet(kids) PROVE FALSE
          <6>1. y.id \in Free
            BY <5>1 DEF KidsOf
          <6>2. y.id \notin MountedIds /\ o.id \in MountedIds
            BY <1>1, <6>1, FreshFacts, ObjectFacts
          <6>3. QED
            BY <1>1, <4>1, <6>2
        <5>2. QED
          BY <5>1 DEF TreeStep
      <4>3. z.id \in listed /\ z \in HasPath(Front(x))
        <5>1. z \in Objects /\ z.path = Front(x) /\ z.id = y.id
          BY <4>1, <4>2 DEF Same, Objects
        <5>2. z.id # o.id
          BY <1>1, <3>3, <5>1, ObjectFacts
        <5>3. QED
          BY <4>1, <5>1, <5>2 DEF HasPath
      <4>4. HasPath(x) # {}
        BY <2>2, <3>1, <4>3 DEF Lower, ReadAt
      <4>5. QED
        BY <1>3, <4>4, IdsAtIs
    <3>4. QED
      BY <3>2, <3>3
  <2>5. Upper(x)'
    <3>1. SUFFICES ASSUME Calm(Front(x))
                   PROVE  Cardinality(IdsAt(x)') <= Cardinality(Removals(batch, x))
                             + Cardinality(Removals(events, x)) + Present(x)
      BY <1>1 DEF Upper, Calm, Present
    <3>2. CASE Front(x) # o.path
      BY <1>6, <2>2, <3>1, <3>2 DEF Upper
    <3>3. CASE Front(x) = o.path
      <4>1. o.path \in Dirs /\ IsFolder(o.path) /\ ~Exc(o.path)
        BY <1>1, <2>1, <3>3, ObjectFacts, ExcBelow DEF WatchedFolders, Dirs
      <4>2. Single(o.path)
        BY <3>1, <3>3, <4>1, OneParent
      <4>3. Cardinality(IdsAt(x)') <= Present(x)
        <5>1. IF disk[x] = "none" THEN IdsAt(x)' = {} ELSE \E i : IdsAt(x)' = {i}
          BY <1>7, <2>1, <3>3, <4>2
        <5>2. CASE disk[x] = "none"
          <6>1. IdsAt(x)' = {}
            BY <5>1, <5>2
          <6>2. Cardinality(IdsAt(x)') = 0
            BY <6>1, FS_EmptySet
          <6>3. QED
            BY <5>2, <6>2 DEF Present
        <5>3. CASE disk[x] # "none"
          <6>1. PICK i : IdsAt(x)' = {i}
            BY <5>1, <5>3
          <6>2. Cardinality(IdsAt(x)') = 1
            BY <6>1, FS_Singleton
          <6>3. QED
            BY <5>3, <6>2 DEF Present
        <5>4. QED
          BY <5>2, <5>3
      <4>4. Cardinality(Removals(batch, x)) \in Nat /\ Cardinality(Removals(events, x)) \in Nat
        BY <1>1, CountedFacts
      <4>5. Cardinality(IdsAt(x)') \in Nat
        BY HereFacts, IdsAtIs
      <4>6. QED
        BY <4>3, <4>4, <4>5 DEF Present
    <3>4. QED
      BY <3>2, <3>3
  <2>6. QED
    BY <2>3, <2>4, <2>5
<1>11. QED
  BY <1>8, <1>10

LEMMA StepIds ==
  ASSUME NEW a, NEW b, NEW new, TreeStep(a, b, {}, ToSet(new))
  PROVE  IdsOf(b) = IdsOf(a) \cup IdsOf(new)
<1>1. ASSUME NEW i \in IdsOf(b) PROVE i \in IdsOf(a) \cup IdsOf(new)
  BY <1>1 DEF TreeStep, Same, IdsOf
<1>2. ASSUME NEW i \in IdsOf(a) PROVE i \in IdsOf(b)
  BY <1>2 DEF TreeStep, Same, IdsOf
<1>3. ASSUME NEW i \in IdsOf(new) PROVE i \in IdsOf(b)
  BY <1>3 DEF TreeStep, IdsOf
<1>4. QED
  BY <1>1, <1>2, <1>3

LEMMA ReadFolderStep ==
  ASSUME TreeInv, Idle, Spend, NEW o \in Objects, ReadFolder(o)
  PROVE  TreeInv'
<1>1. PICK F : F = {q \in Children(o.path) : disk[q] # "none"}
  OBVIOUS
<1>2. PICK found : found = SetToSeq(F)
  OBVIOUS
<1>3. PICK kids : kids = [i \in DOMAIN found |->
                            NewObject(Fresh(i), found[i], disk[found[i]], o.id)]
  OBVIOUS
<1>4. PICK ids : ids = {Fresh(i) : i \in DOMAIN found}
  OBVIOUS
<1>5. PICK objs : objs = With(mounted, o.id, LAMBDA f : [f EXCEPT !.children = ids]) \o kids
  OBVIOUS
<1>6. /\ o.children = {} /\ Len(found) <= Cardinality(Free) /\ mounted' = objs
      /\ listed' = listed \cup {o.id} /\ visited' = visited \cup {o.id} /\ reading' = o.id
      /\ UNCHANGED <<fs, batch, echo, asked, drift>>
  BY <1>1, <1>2, <1>3, <1>4, <1>5 DEF ReadFolder
<1>7. /\ Tree(mounted) /\ DiskOK /\ TreeTypeOK /\ RootOne /\ AskedOK /\ Placed
      /\ listed \subseteq MountedIds /\ visited \subseteq MountedIds /\ MountedIds = IdsOf(mounted)
  BY TreeInvFacts DEF TreeInv, TreeAgrees
<1>8. KidsOf(o, F, kids) /\ ids = IdsOf(kids)
  <2>1. IsFiniteSet(F)
    <3>1. IsFiniteSet(Children(o.path)) /\ F \subseteq Children(o.path)
      BY <1>1, PathsFinite
    <3>2. QED
      BY <3>1, FS_Subset
  <2>2. \A q \in F : q \in Dirs /\ disk[q] \in Kinds
    BY <1>1, <1>7, DiskFacts DEF DiskOK, Kinds, Children, Dirs
  <2>3. /\ kids = [i \in DOMAIN found |-> kids[i]]
        /\ \A i \in DOMAIN found : kids[i] = NewObject(Fresh(i), found[i], disk[found[i]], o.id)
    BY <1>3
  <2>4. /\ KidsOf(o, F, kids)
        /\ \A i \in DOMAIN found : Fresh(i) \in IdsOf(kids)
        /\ \A id \in IdsOf(kids) : \E i \in DOMAIN found : id = Fresh(i)
    BY <1>2, <1>6, <1>7, <2>1, <2>2, <2>3, KidsFacts
  <2>5. QED
    BY <1>4, <2>4
<1>9. /\ Tree(objs) /\ TreeStep(mounted, objs, {}, ToSet(kids)) /\ IdsOf(objs) = IdsOf(mounted) \cup ids
  <2>1. Hung(mounted, o, kids)
    BY <1>7, <1>8, FreshFacts DEF KidsOf, Objects, Hung
  <2>2. o \in ToSet(mounted) /\ kids \in Seq(Entries) /\ Unique(kids)
    BY <1>8 DEF KidsOf, Objects
  <2>3. PICK mid : mid = With(mounted, o.id, LAMBDA f : [f EXCEPT !.children = ids])
    OBVIOUS
  <2>4. /\ mid = [i \in DOMAIN mounted |-> mid[i]]
        /\ \A i \in DOMAIN mounted : mid[i] = IF mounted[i].id = o.id
                                               THEN [mounted[i] EXCEPT !.children = ids] ELSE mounted[i]
    BY <2>3 DEF With
  <2>5. PICK o1 : o1 = [o EXCEPT !.children = ids]
    OBVIOUS
  <2>6. \A i \in DOMAIN mounted : mounted[i].id = o.id => mounted[i] = o
    BY <1>7, EntryFacts, ObjectFacts DEF Tree, Objects
  <2>7. \A i \in DOMAIN mounted : mid[i] = IF mounted[i].id = o.id THEN o1 ELSE mounted[i]
    BY <2>4, <2>5, <2>6
  <2>8. Replaced(mounted, o1, mid)
    <3>1. o1.id = o.id
      BY <1>7, <2>5, ObjectFacts DEF Entries
    <3>2. \A i \in DOMAIN mounted : mid[i] = IF mounted[i].id = o1.id THEN o1 ELSE mounted[i]
      BY <2>7, <3>1
    <3>3. QED
      BY <2>4, <3>2 DEF Replaced
  <2>9. objs = mid \o kids
    BY <1>5, <2>3
  <2>10. Tree(mounted) /\ o.children = {} /\ ids = IdsOf(kids)
    BY <1>6, <1>7, <1>8
  <2>11. o1 \in Entries /\ Same(o, o1) /\ o1.children = ids
    <3>1. ids \in SUBSET Ids
      BY <1>8, EntryFacts DEF KidsOf, IdsOf
    <3>2. o \in Entries
      BY <1>7, ObjectFacts
    <3>3. QED
      BY <2>5, <3>1, <3>2 DEF Entries, Same
  <2>12. Tree(mid \o kids)
    BY <2>1, <2>2, <2>8, <2>10, <2>11, ReadTree
  <2>13. TreeStep(mounted, mid \o kids, {}, ToSet(kids))
    BY <2>1, <2>2, <2>8, <2>10, <2>11, ReadTree
  <2>14. IdsOf(mid \o kids) = IdsOf(mounted) \cup ids
    BY <2>10, <2>13, StepIds
  <2>15. QED
    BY <2>9, <2>12, <2>13, <2>14
<1>10. Tree(mounted') /\ TreeStep(mounted, mounted', {}, ToSet(kids))
       /\ IdsOf(mounted') = IdsOf(mounted) \cup ids
  BY <1>6, <1>9
<1>11. Followed' /\ Unwatched'
  <2>1. batch = <<>>
    BY DEF Idle
  <2>2. QED
    BY <1>1, <1>6, <1>8, <1>10, <2>1, ReadFollows
<1>12. \A y \in ToSet(kids) : y.path # Root /\ Front(y.path) = o.path /\ y.parent = o.id /\ ~y.destroyed
  BY <1>1, <1>8, PathFacts DEF KidsOf, Children
<1>13. Placed'
  <2>1. ASSUME NEW y \in ToSet(kids) PROVE Lies(y.parent, y.path)'
    <3>1. Lies(y.parent, y.path)
      BY <1>12 DEF Lies
    <3>2. QED
      BY <1>10, <3>1, LiesStep
  <2>2. drift \subseteq drift'
    BY <1>6
  <2>3. QED
    BY <1>7, <1>10, <1>12, <2>1, <2>2, PlacedStep
<1>14. RootOne' /\ AskedOK'
  BY <1>6, <1>7, <1>10, <1>12, RootStep, AskedStep
<1>15. DiskOK' /\ WatchedFolders' /\ Order' /\ batch' = <<>>
  BY <1>6, <1>7 DEF DiskOK, WatchedFolders, IsFolder, Order, Idle, fs
<1>16. TreeTypeOK'
  <2>1. MountedIds' = IdsOf(mounted')
    BY DEF MountedIds, IdsOf, Objects
  <2>2. o.id \in MountedIds
    BY <1>7, ObjectFacts
  <2>3. listed' \cup visited' \subseteq MountedIds' /\ reading' \in MountedIds' \cup {NoId}
    BY <1>6, <1>7, <1>10, <2>1, <2>2
  <2>4. /\ mounted' \in Seq(Entries)
        /\ \A i, j \in DOMAIN mounted' : mounted'[i].id = mounted'[j].id => i = j
    BY <1>10 DEF Tree, Unique
  <2>5. disk' \in Disks /\ watched' \subseteq Paths \cup {Root} /\ events' \in Seq(Events)
    BY <1>15 DEF DiskOK, Dirs
  <2>6. /\ echo' \subseteq Paths /\ batch' \in Seq(Events) /\ drift' \subseteq Reasons \X (Paths \cup {Root})
        /\ asked' = NoRequest \/ (asked'.id \in Ids /\ Proper(asked'))
    BY <1>6, <1>7 DEF TreeTypeOK
  <2>7. ops' \in 0 .. MaxOps /\ changes' \in 0 .. MaxChanges
    BY SpendFacts
  <2>8. QED
    BY <2>3, <2>4, <2>5, <2>6, <2>7 DEF TreeTypeOK, Proper
<1>17. TreeAgrees'
  BY <1>10, <1>16 DEF TreeAgrees, Tree, Linked, Objects
<1>18. QED
  BY <1>11, <1>13, <1>14, <1>15, <1>17 DEF TreeInv

LEMMA ExpandStep ==
  ASSUME TreeInv, lazy_expand_if_needed
  PROVE  TreeInv'
<1>1. PICK id \in MountedIds : ExpandAgain(Object(id)) \/ ReadFolder(Object(id))
  BY DEF lazy_expand_if_needed
<1>2. Idle /\ Spend
  BY DEF lazy_expand_if_needed
<1>3. PICK o \in Objects : o = Object(id)
  BY TreeInvFacts, ObjectFacts
<1>4. CASE ExpandAgain(o)
  BY <1>2, <1>4, ExpandAgainStep
<1>5. CASE ReadFolder(o)
  BY <1>2, <1>5, ReadFolderStep
<1>6. QED
  BY <1>1, <1>3, <1>4, <1>5

-----------------------------------------------------------------------------
(* The theorems.                                                            *)
LEMMA TreeStarts ==
  ASSUME TreeInit
  PROVE  TreeInv
<1>1. PICK o : o = NewObject(1, Root, "folder", NoId)
  OBVIOUS
<1>2. /\ mounted = <<o>> /\ watched = {} /\ events = <<>> /\ batch = <<>> /\ echo = {}
      /\ reading = NoId /\ asked = NoRequest /\ ops = 0 /\ changes = 0
      /\ listed = {} /\ visited = {} /\ drift = {} /\ disk \in Disks
  BY <1>1 DEF TreeInit
<1>3. 1 \in Ids /\ NoId \in Ids \cup {NoId} /\ "folder" \in Kinds /\ Root \in Dirs /\ 1 # NoId
  BY MaxObjectsAssumption DEF Ids, NoId, Kinds, Dirs
<1>4. /\ o \in Entries /\ o.id = 1 /\ o.path = Root /\ o.parent = NoId /\ o.children = {}
  BY <1>1, <1>3, NewFacts DEF NewObject
<1>5. mounted \in Seq(Entries) /\ DOMAIN mounted = {1} /\ mounted[1] = o
  BY <1>2, <1>4
<1>6. Objects = {o}
  BY <1>5 DEF Objects, ToSet
<1>7. TreeAgrees
  <2>1. TreeTypeOK
    <3>1. events \in Seq(Events) /\ batch \in Seq(Events)
      BY <1>2
    <3>2. ops \in 0 .. MaxOps /\ changes \in 0 .. MaxChanges
      BY <1>2, MaxOpsAssumption, MaxChangesAssumption
    <3>3. QED
      BY <1>2, <1>5, <3>1, <3>2 DEF TreeTypeOK
  <2>2. o.children = {c.id : c \in {x \in {o} : x.parent = o.id}}
    BY <1>3, <1>4
  <2>3. QED
    BY <1>6, <2>1, <2>2 DEF TreeAgrees
<1>8. WatchedFolders /\ Order /\ AskedOK
  BY <1>2 DEF WatchedFolders, Order, AskedOK, NoRequest
<1>9. RootOne /\ Placed
  BY <1>4, <1>6 DEF RootOne, Placed, Single, IdsAt, HasPath
<1>10. \A p : About(events, p) = {} /\ About(batch, p) = {}
  BY <1>2 DEF About
<1>11. Unwatched
  <2>1. \A p \in TopPaths : Single(p)
    BY <1>6 DEF Single, IdsAt, HasPath
  <2>2. QED
    BY <1>10, <2>1 DEF Unwatched
<1>12. Followed
  BY <1>2 DEF Followed
<1>13. QED
  BY <1>7, <1>8, <1>9, <1>11, <1>12 DEF TreeInv

LEMMA TreeStutters ==
  ASSUME TreeInv, UNCHANGED treeVars
  PROVE  TreeInv'
<1>1. /\ UNCHANGED <<mounted, listed, asked>> /\ visited' = visited /\ drift' = drift
      /\ UNCHANGED <<disk, watched, events, batch, echo, reading, ops, changes>>
  BY DEF treeVars
<1>2. TreeTypeOK /\ DiskOK /\ Order /\ Unwatched /\ Followed /\ visited \subseteq MountedIds
  BY TreeInvFacts DEF TreeInv, TreeAgrees
<1>3. \A p : (Exc(p) <=> Exc(p)') /\ (Single(p) <=> Single(p)')
  BY <1>1, TreeStays DEF Exc, Excused
<1>4. DiskOK' /\ Order'
  BY <1>1, <1>2 DEF DiskOK, Order, WatchedFolders, IsFolder
<1>5. Unwatched'
  BY <1>1, <1>2, <1>3 DEF Unwatched, About
<1>6. \A p : (Latest(p) <=> Latest(p)') /\ (Lower(p) <=> Lower(p)') /\ (Upper(p) <=> Upper(p)')
  <2>1. \A p : HasPath(p)' = HasPath(p) /\ IdsAt(p)' = IdsAt(p) /\ (ReadAt(p) <=> ReadAt(p)')
    BY <1>1, TreeStays
  <2>2. /\ \A p : Latest(p) <=> Latest(p)'
        /\ \A p : Calm(p) <=> Calm(p)'
        /\ \A p : Present(p)' = Present(p)
    BY <1>1 DEF Latest, Ends, About, Calm, Removals, Present
  <2>3. \A p : Lower(p) <=> Lower(p)'
    BY <1>1, <2>1 DEF Lower, About, Foreign
  <2>4. \A p : Upper(p) <=> Upper(p)'
    BY <1>1, <2>1, <2>2 DEF Upper, Removals, About
  <2>5. QED
    BY <2>2, <2>3, <2>4
<1>7. Followed'
  BY <1>1, <1>2, <1>3, <1>6 DEF Followed
<1>8. QED
  BY <1>1, <1>2, <1>4, <1>5, <1>7, TreeKept DEF TreeTypeOK, Dirs

LEMMA TreeNexts ==
  ASSUME TreeInv, [TreeNext]_treeVars
  PROVE  TreeInv'
<1>1. CASE OtherProgram
  BY <1>1, OtherProgramStep
<1>2. CASE Drain
  BY <1>2, DrainStep
<1>3. CASE Expire
  BY <1>3, ExpireStep
<1>4. CASE handle_fs_change
  BY <1>4, FsChangeStep
<1>5. CASE lazy_expand_if_needed
  BY <1>5, ExpandStep
<1>6. CASE RegisterWatch
  BY <1>6, RegisterStep
<1>7. CASE User
  BY <1>7, UserStep
<1>8. CASE AiAsk
  BY <1>8, AiAskStep
<1>9. CASE handle_respond
  BY <1>9, RespondStep
<1>10. CASE UNCHANGED treeVars
  BY <1>10, TreeStutters
<1>11. QED
  BY <1>1, <1>2, <1>3, <1>4, <1>5, <1>6, <1>7, <1>8, <1>9, <1>10 DEF TreeNext

LEMMA SettledTracks ==
  ASSUME TreeInv
  PROVE  Tracked
<1>1. SUFFICES ASSUME Settled, NEW id \in listed, Object(id).path \in watched,
                      NEW p \in Children(Object(id).path), ~Exc(p)
               PROVE  ShownRightly(Object(id), p)
  BY DEF Tracked, Agrees, Exc
<1>2. /\ Tree(mounted) /\ DiskOK /\ id \in MountedIds
      /\ WatchedFolders /\ Followed
  BY TreeInvFacts DEF TreeInv
<1>3. PICK o \in Objects : o = Object(id) /\ o.id = id
  BY <1>2, ObjectFacts
<1>4. p \in Paths /\ Front(p) = o.path /\ o.path \in watched
  BY <1>1, <1>3 DEF Children
<1>5. batch = <<>> /\ events = <<>>
  BY <1>1 DEF Settled, Idle
<1>6. /\ \A q : About(batch, q) = {} /\ About(events, q) = {}
      /\ \A q : Removals(batch, q) = {} /\ Removals(events, q) = {} /\ Foreign(events, q) = {}
      /\ Calm(o.path)
  BY <1>5 DEF About, Removals, Foreign, Calm
<1>7. o.path \in Dirs /\ IsFolder(o.path) /\ ~Exc(o.path)
  BY <1>1, <1>2, <1>4, ObjectFacts, ExcBelow DEF WatchedFolders, Dirs
<1>8. Single(o.path)
  BY <1>6, <1>7, OneParent
<1>9. Shows(o, p) = HasPath(p)
  BY <1>1, <1>4, <1>8, OnlyUnder DEF Shows
<1>10. Lower(p) /\ Upper(p)
  BY <1>1, <1>2, <1>4 DEF Followed
<1>11. IsFiniteSet(IdsAt(p)) /\ Cardinality(IdsAt(p)) \in Nat
  BY <1>2, HereFacts, IdsAtIs
<1>12. Cardinality(IdsAt(p)) <= Present(p)
  <2>1. Cardinality({}) = 0
    BY FS_EmptySet
  <2>2. Cardinality(IdsAt(p)) <= 0 + 0 + Present(p)
    BY <1>4, <1>6, <1>10, <2>1 DEF Upper
  <2>3. QED
    BY <1>11, <2>2 DEF Present
<1>13. CASE disk[p] = "none"
  <2>1. IdsAt(p) = {}
    BY <1>11, <1>12, <1>13, FS_EmptySet DEF Present
  <2>2. HasPath(p) = {}
    BY <2>1, IdsAtIs
  <2>3. QED
    BY <1>3, <1>9, <1>13, <2>2 DEF ShownRightly
<1>14. CASE disk[p] # "none"
  <2>1. ReadAt(o.path)
    BY <1>3 DEF ReadAt, HasPath
  <2>2. HasPath(p) # {}
    BY <1>4, <1>6, <1>10, <1>14, <2>1 DEF Lower
  <2>3. \A i, j \in IdsAt(p) : i = j
    BY <1>11, <1>12, <1>14, FewFacts DEF Present
  <2>4. \A c, d \in HasPath(p) : c = d
    BY <1>2, <2>3, ObjectFacts DEF IdsAt, HasPath
  <2>5. \E c \in HasPath(p) : HasPath(p) = {c}
    BY <2>2, <2>4
  <2>6. QED
    BY <1>3, <1>9, <1>14, <2>5 DEF ShownRightly
<1>15. QED
  BY <1>13, <1>14

\* Every variable keeps its type, and the lists of children and the parents agree
\* after each handler of the shell (handle_fs_change, lazy_expand_if_needed, the
\* explorer's and the AI's file operations), whichever of them came before.
THEOREM TreeAgreesCorrect == TreeSpec => []TreeAgrees
<1>1. TreeInit => TreeInv
  BY TreeStarts
<1>2. TreeInv /\ [TreeNext]_treeVars => TreeInv'
  BY TreeNexts
<1>3. TreeInv => TreeAgrees
  BY DEF TreeInv
<1>4. QED
  BY <1>1, <1>2, <1>3, PTL DEF TreeSpec

\* Once the watcher's events are handled, a folder that was read and is watched
\* shows each file on disk once and nothing else, except at the paths the history
\* excuses (drain, handle_fs_change and lazy_expand_if_needed together).
THEOREM TrackedCorrect == TreeSpec => []Tracked
<1>1. TreeInit => TreeInv
  BY TreeStarts
<1>2. TreeInv /\ [TreeNext]_treeVars => TreeInv'
  BY TreeNexts
<1>3. TreeInv => Tracked
  BY SettledTracks
<1>4. QED
  BY <1>1, <1>2, <1>3, PTL DEF TreeSpec
=============================================================================
